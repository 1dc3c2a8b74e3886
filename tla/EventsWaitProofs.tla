-------------------------- MODULE EventsWaitProofs --------------------------
(***************************************************************************)
(* What ssoossh_httpc_events gives its caller for every length of the two  *)
(* sleeps, every deadline, every set of statuses and any number of         *)
(* connections: it is never late, notices a Ctrl-C within one sleep, hands *)
(* back the answer of its last connection and no other, reconnects only    *)
(* for cause, and implements EventsPromise, all that the attempt relies on.*)
(* That it returns at all rests on fairness: see the run events_wait.      *)
(***************************************************************************)
EXTENDS EventsWait, TLAPS

\* Every sleep is clamped to the deadline, and the code polls and plans a sleep
\* only right after it saw that the deadline lay ahead (httpc.c:571-602, 681-688).
ClockInv ==
  /\ result # "none" <=> pc = "done"
  /\ now <= IF deadline < 0 THEN 0 ELSE deadline
  /\ pc \in {"perform", "slice"} => now < deadline
  /\ pc \in {"sleep", "backoff"} => wakeAt <= deadline

Longest == IF Slice > Delay THEN Slice ELSE Delay

\* A Ctrl-C costs at most the sleep it fell into: no time passes between two
\* sleeps, and none is begun once the flag has been read (httpc.c:575, 684).
CtrlCInv ==
  /\ early => interrupted
  /\ firedAt <= now
  /\ pc = "sleep" => wakeAt <= now + Slice
  /\ pc = "backoff" => wakeAt <= now + Delay
  /\ interrupted /\ pc # "done" => now <= firedAt + Longest
  /\ interrupted /\ pc \in {"perform", "slice"} => now = firedAt
  /\ interrupted /\ pc \in {"sleep", "backoff"} => wakeAt <= firedAt + Longest

\* A connection whose parser stopped has left its answer with the caller, and
\* one that met the TLS floor besides is the last (httpc.c:636-645, 729).
AnswerInv ==
  /\ pc \in {"perform", "slice", "sleep"} => ~early /\ deadline > 0
  /\ conn.stopped => answer # "none" /\ ~early /\ deadline > 0
  /\ conn.stopped /\ conn.floor => pc \in {"finished", "judge", "done"}
  /\ pc = "judge" => (got = "OK" <=> conn.stopped /\ conn.floor)
  /\ pc = "done" => (result = "OK" <=> conn.stopped /\ conn.floor)

\* What run_stream returned is true of the connection it ran (httpc.c:571-659).
GotInv ==
  CASE got = "STATUS" ->
         status = conn.status /\ conn.known /\ Refusal(conn.status) /\ heard
    [] got = "TOO_LARGE" -> heard
    [] got = "TIMEOUT" -> now >= deadline
    [] got = "CANCELLED" -> interrupted
    [] OTHER -> TRUE

\* The places between one connection and the next.
Between == pc \in {"retry", "backoff", "woken"} \/ (pc = "open" /\ conns > 0)

\* Whatever claims that the server spoke has a status to show for it, and the
\* way to another connection leads past a result that is not final
\* (httpc.c:477-500, 636-659, 729-755).
CauseInv ==
  /\ pc = "start" => conns = 0
  /\ status # 0 \/ conn.status # 0 => heard
  /\ conn.known \/ conn.stopped \/ conn.overflow => conn.status # 0
  /\ pc = "judge" \/ Between => GotInv
  /\ Between => ~Final(got, status)

IInv == TypeOK /\ ClockInv /\ CtrlCInv /\ AnswerInv /\ CauseInv

-----------------------------------------------------------------------------
\* What a connection learns of its transfer keeps it a connection
\* (httpc.c:470-500, 529-557).
LEMMA ConnTypes ==
  /\ NewConn \in Conn
  /\ \A f \in BOOLEAN : [NewConn EXCEPT !.floor = f] \in Conn
  /\ \A c \in Conn :
       /\ \A s \in Statuses : [c EXCEPT !.status = s] \in Conn
       /\ [c EXCEPT !.known = TRUE] \in Conn
       /\ [c EXCEPT !.known = TRUE, !.stopped = TRUE] \in Conn
       /\ [c EXCEPT !.known = TRUE, !.overflow = TRUE] \in Conn
BY DEF NewConn, Conn

\* The call begins with nothing heard and no connection open (httpc.c:697-725).
LEMMA InvInit == Init => IInv
<1> SUFFICES ASSUME Init PROVE IInv
  OBVIOUS
<1> USE EventsAssumption DEF Init
<1>1. TypeOK
  <2>1. conn \in Conn
    BY ConnTypes
  <2>2. interrupted \in BOOLEAN /\ early \in BOOLEAN /\ heard \in BOOLEAN
    BY Zenon
  <2>3. QED
    BY <2>1, <2>2 DEF TypeOK, Place, HttpResult
<1>2. ClockInv /\ CtrlCInv
  BY DEF ClockInv, CtrlCInv, Longest
<1>3. AnswerInv /\ CauseInv
  BY DEF AnswerInv, CauseInv, Between, NewConn
<1>4. QED
  BY <1>1, <1>2, <1>3 DEF IInv

\* What a sleep is given is a tick at least, never more than a slice, and ends
\* by the deadline if that lies ahead (httpc.c:592-602, 681-688).
LEMMA SleepLengths ==
  ASSUME now \in Nat, deadline \in Int, now < deadline
  PROVE  /\ \A timeout \in 0..Slice :
              /\ SliceLength(timeout) \in 1..Slice
              /\ now + SliceLength(timeout) <= deadline
         /\ BackoffLength \in 1..Delay
         /\ now + BackoffLength <= deadline
BY EventsAssumption DEF SliceLength, BackoffLength, Least, Remaining

\* Every step of the call and of its environment keeps the types.
LEMMA TypeStep == TypeOK /\ ClockInv /\ [Next]_vars => TypeOK'
<1> SUFFICES ASSUME TypeOK, ClockInv, [Next]_vars PROVE TypeOK'
  OBVIOUS
<1> USE EventsAssumption DEF TypeOK, Go, StreamEnds, Finish, envVars, Place, HttpResult
<1>1. CASE StartFails \/ Start
  BY <1>1 DEF StartFails, Start
<1>2. CASE OpenFails
  BY <1>2 DEF OpenFails, NewConn, Conn
<1>3. CASE Open
  <2>1. conn' \in Conn
    BY <1>3, ConnTypes DEF Open
  <2>2. QED
    BY <1>3, <2>1 DEF Open
<1>4. CASE CheckCancelled \/ CheckDeadline \/ CheckPasses
  BY <1>4 DEF CheckCancelled, CheckDeadline, CheckPasses
<1>5. CASE PerformFails \/ PerformQuiet \/ PerformEnds
  BY <1>5 DEF PerformFails, PerformQuiet, PerformEnds
<1>6. CASE PerformStatus
  BY <1>6 DEF PerformStatus, Conn
<1>7. CASE PerformBody
  BY <1>7, ConnTypes DEF PerformBody
<1>8. CASE PerformTerminal
  BY <1>8, ConnTypes DEF PerformTerminal
<1>9. CASE PerformOverflow
  BY <1>9, ConnTypes DEF PerformOverflow
<1>10. CASE Sleep
  <2>1. wakeAt' \in Nat
    BY <1>10, SleepLengths DEF Sleep, ClockInv
  <2>2. QED
    BY <1>10, <2>1 DEF Sleep
<1>11. CASE Wake \/ WaitFails
  BY <1>11 DEF Wake, WaitFails
<1>12. CASE Classify
  BY <1>12 DEF Classify, Ending, Conn
<1>13. CASE JudgeFinal \/ JudgeRetry \/ BackoffWakes \/ Reconnect
  BY <1>13 DEF JudgeFinal, JudgeRetry, BackoffWakes, Reconnect
<1>14. ASSUME NEW from \in Place, GiveUp(from) PROVE TypeOK'
  BY <1>14 DEF GiveUp, GiveUpReason
<1>15. CASE Backoff
  <2>1. wakeAt' \in Nat
    BY <1>15, SleepLengths DEF Backoff, Remaining
  <2>2. QED
    BY <1>15, <2>1 DEF Backoff
<1>16. CASE Tick
  BY <1>16 DEF Tick
<1>17. CASE CtrlC
  BY <1>17 DEF CtrlC
<1>18. CASE UNCHANGED vars
  BY <1>18 DEF vars
<1>19. QED
  BY <1>1, <1>2, <1>3, <1>4, <1>5, <1>6, <1>7, <1>8, <1>9, <1>10, <1>11,
     <1>12, <1>13, <1>14, <1>15, <1>16, <1>17, <1>18
  DEF Next, Code, Perform

\* The clock never passes the deadline: it moves in a sleep alone, and a sleep
\* is planned within it (httpc.c:592-602, 681-688).
LEMMA ClockStep == TypeOK /\ ClockInv /\ [Next]_vars => ClockInv'
<1> SUFFICES ASSUME TypeOK, ClockInv, [Next]_vars PROVE ClockInv'
  OBVIOUS
<1> USE EventsAssumption DEF TypeOK, ClockInv, Go, StreamEnds, Finish, envVars
<1>1. CASE StartFails \/ Start \/ OpenFails \/ Open
  BY <1>1 DEF StartFails, Start, OpenFails, Open, HttpResult
<1>2. CASE CheckCancelled \/ CheckDeadline \/ CheckPasses
  BY <1>2 DEF CheckCancelled, CheckDeadline, CheckPasses, Remaining
<1>3. CASE Perform
  BY <1>3 DEF Perform, PerformFails, PerformQuiet, PerformStatus, PerformBody,
              PerformTerminal, PerformOverflow, PerformEnds
<1>4. CASE Sleep
  BY <1>4, SleepLengths DEF Sleep
<1>5. CASE Wake \/ WaitFails \/ Classify
  BY <1>5 DEF Wake, WaitFails, Classify
<1>6. CASE JudgeFinal \/ JudgeRetry
  BY <1>6 DEF JudgeFinal, JudgeRetry, HttpResult
<1>7. CASE GiveUp("retry") \/ GiveUp("woken")
  BY <1>7 DEF GiveUp, GiveUpReason
<1>8. CASE Backoff
  BY <1>8, SleepLengths DEF Backoff, Remaining
<1>9. CASE BackoffWakes \/ Reconnect
  BY <1>9 DEF BackoffWakes, Reconnect
<1>10. CASE Tick \/ CtrlC
  BY <1>10 DEF Tick, CtrlC
<1>11. CASE UNCHANGED vars
  BY <1>11 DEF vars
<1>12. QED
  BY <1>1, <1>2, <1>3, <1>4, <1>5, <1>6, <1>7, <1>8, <1>9, <1>10, <1>11
  DEF Next, Code

\* A Ctrl-C that comes between two sleeps is read before the next one; one that
\* comes in a sleep, at its end (httpc.c:571-578, 681-686).
LEMMA CtrlCStep ==
  TypeOK /\ ClockInv /\ CtrlCInv /\ [Next]_vars => CtrlCInv'
<1> SUFFICES ASSUME TypeOK, ClockInv, CtrlCInv, [Next]_vars PROVE CtrlCInv'
  OBVIOUS
<1> USE EventsAssumption
    DEF TypeOK, CtrlCInv, Longest, Go, StreamEnds, Finish, envVars
<1>1. CASE StartFails \/ Start
  BY <1>1 DEF StartFails, Start
<1>2. CASE OpenFails
  BY <1>2 DEF OpenFails
<1>3. CASE Open
  BY <1>3 DEF Open
<1>4. CASE CheckCancelled \/ CheckDeadline \/ CheckPasses
  BY <1>4 DEF CheckCancelled, CheckDeadline, CheckPasses
<1>5. CASE Perform
  BY <1>5 DEF Perform, PerformFails, PerformQuiet, PerformStatus, PerformBody,
              PerformTerminal, PerformOverflow, PerformEnds
<1>6. CASE Sleep
  BY <1>6, SleepLengths DEF Sleep, ClockInv
<1>7. CASE Wake \/ WaitFails \/ Classify
  BY <1>7 DEF Wake, WaitFails, Classify
<1>8. CASE JudgeFinal \/ JudgeRetry
  BY <1>8 DEF JudgeFinal, JudgeRetry
<1>9. CASE GiveUp("retry") \/ GiveUp("woken")
  BY <1>9 DEF GiveUp
<1>10. CASE Backoff
  BY <1>10, SleepLengths DEF Backoff, Remaining
<1>11. CASE BackoffWakes \/ Reconnect
  BY <1>11 DEF BackoffWakes, Reconnect
<1>12. CASE Tick
  BY <1>12 DEF Tick
<1>13. CASE CtrlC
  BY <1>13 DEF CtrlC
<1>14. CASE UNCHANGED vars
  BY <1>14 DEF vars
<1>15. QED
  BY <1>1, <1>2, <1>3, <1>4, <1>5, <1>6, <1>7, <1>8, <1>9, <1>10, <1>11,
     <1>12, <1>13, <1>14
  DEF Next, Code

\* An answer is taken only from a poll, a poll follows a check that found the
\* call in time and not interrupted, and the ending of a connection that stopped
\* is OK unless it missed the TLS floor (httpc.c:571-582, 636-645, 729).
LEMMA AnswerStep ==
  TypeOK /\ ClockInv /\ CtrlCInv /\ AnswerInv /\ [Next]_vars => AnswerInv'
<1> SUFFICES ASSUME TypeOK, ClockInv, CtrlCInv, AnswerInv, [Next]_vars
             PROVE  AnswerInv'
  OBVIOUS
<1> USE DEF AnswerInv, Go, StreamEnds, Finish, envVars
<1>1. CASE StartFails \/ Start
  BY <1>1 DEF StartFails, Start
<1>2. CASE OpenFails
  BY <1>2 DEF OpenFails, NewConn
<1>3. CASE Open
  BY <1>3 DEF Open, NewConn
<1>4. CASE CheckCancelled \/ CheckDeadline
  BY <1>4 DEF CheckCancelled, CheckDeadline
<1>5. CASE CheckPasses
  BY <1>5, EventsAssumption DEF CheckPasses, TypeOK, CtrlCInv, Remaining
<1>6. CASE PerformFails \/ PerformQuiet \/ PerformEnds
  BY <1>6 DEF PerformFails, PerformQuiet, PerformEnds
<1>7. CASE PerformStatus
  BY <1>7 DEF PerformStatus, TypeOK, Conn
<1>8. CASE PerformBody
  BY <1>8 DEF PerformBody, TypeOK, Conn
<1>9. CASE PerformOverflow
  BY <1>9 DEF PerformOverflow, TypeOK, Conn
<1>10. CASE PerformTerminal
  <2>1. answer' # "none"
    BY <1>10 DEF PerformTerminal, Terminal
  <2>2. QED
    BY <1>10, <2>1 DEF PerformTerminal, TypeOK, Conn
<1>11. CASE Sleep \/ Wake \/ WaitFails
  BY <1>11 DEF Sleep, Wake, WaitFails
<1>12. CASE Classify
  BY <1>12 DEF Classify, Ending
<1>13. CASE JudgeFinal
  BY <1>13 DEF JudgeFinal
<1>14. CASE JudgeRetry
  BY <1>14 DEF JudgeRetry, Final
<1>15. CASE GiveUp("retry") \/ GiveUp("woken")
  BY <1>15 DEF GiveUp, GiveUpReason
<1>16. CASE Backoff \/ BackoffWakes \/ Reconnect
  BY <1>16 DEF Backoff, BackoffWakes, Reconnect
<1>17. CASE Tick \/ CtrlC
  BY <1>17 DEF Tick, CtrlC
<1>18. CASE UNCHANGED vars
  BY <1>18 DEF vars
<1>19. QED
  BY <1>1, <1>2, <1>3, <1>4, <1>5, <1>6, <1>7, <1>8, <1>9, <1>10, <1>11,
     <1>12, <1>13, <1>14, <1>15, <1>16, <1>17, <1>18
  DEF Next, Code, Perform

\* A connection is judged by what it brought, and only a result that is not
\* final leads back to open (httpc.c:636-659, 729-755).
LEMMA CauseStep == TypeOK /\ ClockInv /\ CauseInv /\ [Next]_vars => CauseInv'
<1> SUFFICES ASSUME TypeOK, ClockInv, CauseInv, [Next]_vars PROVE CauseInv'
  OBVIOUS
<1> USE EventsAssumption
    DEF TypeOK, CauseInv, GotInv, Between, Go, StreamEnds, Finish, envVars
<1>1. CASE StartFails \/ Start
  BY <1>1 DEF StartFails, Start
<1>2. CASE OpenFails
  BY <1>2 DEF OpenFails, NewConn
<1>3. CASE Open
  BY <1>3 DEF Open, NewConn
<1>4. CASE CheckCancelled \/ CheckDeadline \/ CheckPasses
  BY <1>4 DEF CheckCancelled, CheckDeadline, CheckPasses, Remaining
<1>5. CASE PerformFails \/ PerformQuiet \/ PerformEnds
  BY <1>5 DEF PerformFails, PerformQuiet, PerformEnds
<1>6. CASE PerformStatus
  BY <1>6 DEF PerformStatus, Conn
<1>7. CASE PerformBody
  BY <1>7 DEF PerformBody, Conn
<1>8. CASE PerformTerminal
  BY <1>8 DEF PerformTerminal, Conn
<1>9. CASE PerformOverflow
  BY <1>9 DEF PerformOverflow, Conn
<1>10. CASE Sleep \/ Wake \/ WaitFails
  BY <1>10 DEF Sleep, Wake, WaitFails
<1>11. CASE Classify
  BY <1>11 DEF Classify, Ending, Conn
<1>12. CASE JudgeFinal
  BY <1>12 DEF JudgeFinal
<1>13. CASE JudgeRetry \/ Backoff \/ BackoffWakes \/ Reconnect
  BY <1>13 DEF JudgeRetry, Backoff, BackoffWakes, Reconnect, Final
<1>14. CASE GiveUp("retry") \/ GiveUp("woken")
  BY <1>14 DEF GiveUp
<1>15. CASE Tick \/ CtrlC
  BY <1>15 DEF Tick, CtrlC, Final
<1>16. CASE UNCHANGED vars
  BY <1>16 DEF vars, Final
<1>17. QED
  BY <1>1, <1>2, <1>3, <1>4, <1>5, <1>6, <1>7, <1>8, <1>9, <1>10, <1>11,
     <1>12, <1>13, <1>14, <1>15, <1>16
  DEF Next, Code, Perform

\* The invariant holds throughout (httpc.c:514-766).
LEMMA Invariance == Spec => []IInv
<1>1. IInv /\ [Next]_vars => IInv'
  BY TypeStep, ClockStep, CtrlCStep, AnswerStep, CauseStep DEF IInv
<1>2. QED
  BY InvInit, <1>1, PTL DEF Spec

-----------------------------------------------------------------------------
\* Every variable keeps its type (httpc.c:514-766).
THEOREM TypeCorrect == Spec => []TypeOK
<1>1. IInv => TypeOK
  BY DEF IInv
<1>2. QED
  BY <1>1, Invariance, PTL

\* The wait never outlives its deadline, however the polls and the reconnects
\* fall (httpc.c:597, 687).
THEOREM IsNeverLate == Spec => []NeverLate
<1>1. IInv => NeverLate
  BY DEF IInv, ClockInv, NeverLate
<1>2. QED
  BY <1>1, Invariance, PTL

\* A Ctrl-C is noticed within one sleep, wherever it lands (httpc.c:21-24).
THEOREM CtrlCIsPrompt == Spec => []CtrlCPrompt
<1>1. IInv => CtrlCPrompt
  BY DEF IInv, ClockInv, CtrlCInv, Longest, CtrlCPrompt
<1>2. QED
  BY <1>1, Invariance, PTL

\* OK is returned for an answer of the last connection, if that one met the TLS
\* floor, and for nothing else (httpc.c:638-645, 729).
THEOREM AnswersAreItsOwn == Spec => []AnswersAreThisConnections
<1>1. IInv => AnswersAreThisConnections
  BY DEF IInv, ClockInv, AnswerInv, AnswersAreThisConnections
<1>2. QED
  BY <1>1, Invariance, PTL

\* Another connection is opened only when the server has been reached and the
\* last one did not bring its refusal (httpc.h:60-66, httpc.c:737-755).
THEOREM ReconnectsOnlyForCause == Spec => ReconnectsForCause
<1>1. IInv /\ [Next]_vars =>
        [conns' > conns /\ conns > 0 =>
           /\ heard
           /\ ~(conn.known /\ conn.floor /\ got = "STATUS"
                /\ Definitive(conn.status))]_vars
  <2> SUFFICES ASSUME IInv, [Next]_vars, conns' > conns, conns > 0
               PROVE  /\ heard
                      /\ ~(got = "STATUS" /\ Definitive(conn.status))
    OBVIOUS
  <2>1. pc = "open"
    <3>1. conns \in Int /\ ~(conns > conns)
      BY EventsAssumption DEF IInv, TypeOK
    <3>2. conns' = conns \/ OpenFails \/ Open
      BY DEF Next, Code, Perform, vars, StartFails, Start, CheckCancelled,
             CheckDeadline, CheckPasses, PerformFails, PerformQuiet,
             PerformStatus, PerformBody, PerformTerminal, PerformOverflow,
             PerformEnds, Sleep, Wake, WaitFails, Classify, JudgeFinal,
             JudgeRetry, GiveUp, Backoff, BackoffWakes, Reconnect, Tick, CtrlC
    <3>3. QED
      BY <3>1, <3>2 DEF OpenFails, Open, StreamEnds, Go
  <2>2. GotInv /\ ~Final(got, status)
    BY <2>1 DEF IInv, CauseInv, Between
  <2>3. heard
    BY <2>2 DEF IInv, TypeOK, CauseInv, GotInv, Final, HttpResult
  <2>4. got = "STATUS" => ~Definitive(conn.status)
    BY <2>2 DEF GotInv, Final, Definitive
  <2>5. QED
    BY <2>3, <2>4
<1>2. QED
  BY <1>1, Invariance, PTL DEF Spec, ReconnectsForCause

-----------------------------------------------------------------------------
\* Whatever is no return of the call is a stretch of listening: the clock, the
\* user and the server may move, nothing goes back (httpc.c:514-766).
LEMMA ListensOrReturns ==
  ASSUME IInv, Next
  PROVE  \/ result = "none" /\ Promise!Listen
         \/ StartFails \/ JudgeFinal \/ GiveUp("retry") \/ GiveUp("woken")
<1> USE EventsAssumption DEF IInv, TypeOK, ClockInv, Go, StreamEnds, envVars,
        Promise!Listen
<1>1. CASE Start \/ OpenFails
  BY <1>1 DEF Start, OpenFails
<1>2. CASE Open
  BY <1>2 DEF Open
<1>3. CASE CheckCancelled \/ CheckDeadline \/ CheckPasses
  BY <1>3 DEF CheckCancelled, CheckDeadline, CheckPasses
<1>4. CASE PerformTerminal
  BY <1>4 DEF PerformTerminal, Terminal, Promise!Terminal
<1>5. CASE PerformFails \/ PerformQuiet \/ PerformStatus
  BY <1>5 DEF PerformFails, PerformQuiet, PerformStatus
<1>6. CASE PerformBody \/ PerformOverflow \/ PerformEnds
  BY <1>6 DEF PerformBody, PerformOverflow, PerformEnds
<1>7. CASE Sleep \/ Wake \/ WaitFails \/ Classify
  BY <1>7 DEF Sleep, Wake, WaitFails, Classify
<1>8. CASE JudgeRetry \/ Backoff \/ BackoffWakes \/ Reconnect
  BY <1>8 DEF JudgeRetry, Backoff, BackoffWakes, Reconnect
<1>9. CASE Tick \/ CtrlC
  BY <1>9 DEF Tick, CtrlC
<1>10. QED
  BY <1>1, <1>2, <1>3, <1>4, <1>5, <1>6, <1>7, <1>8, <1>9
  DEF Next, Code, Perform

\* It returns a result that is true of what happened (httpc.c:705-720, 729-761).
LEMMA ReturnsTheTruth ==
  ASSUME IInv, StartFails \/ JudgeFinal \/ GiveUp("retry") \/ GiveUp("woken")
  PROVE  Promise!Return
<1> USE EventsAssumption DEF IInv, TypeOK, ClockInv, Go, Finish, envVars,
        HttpResult, Promise!Return, Promise!Truthful, Promise!HttpResult
<1>1. CASE StartFails
  BY <1>1 DEF StartFails
<1>2. CASE JudgeFinal
  <2>1. got = "OK" => answer # "none" /\ ~early /\ ~(deadline <= 0)
    BY <1>2 DEF JudgeFinal, AnswerInv
  <2>2. GotInv
    BY <1>2 DEF JudgeFinal, CauseInv
  <2>3. QED
    BY <1>2, <2>1, <2>2 DEF JudgeFinal, GotInv
<1>3. CASE GiveUp("retry") \/ GiveUp("woken")
  BY <1>3 DEF GiveUp, GiveUpReason, Remaining
<1>4. QED
  BY <1>1, <1>2, <1>3

\* The wait implements the promise the attempt relies on: its start is one of
\* the promise's, and each step of it listens, returns the truth, or is nothing
\* the promise speaks of (httpc.h:57-74).
THEOREM PromiseKept == Spec => KeepsPromise
<1>1. Init => Promise!Init
  BY EventsAssumption DEF Init, Promise!Init
<1>2. IInv /\ [Next]_vars => [Promise!Next]_(Promise!vars)
  <2> SUFFICES ASSUME IInv, [Next]_vars PROVE [Promise!Next]_(Promise!vars)
    OBVIOUS
  <2>1. CASE Next
    BY <2>1, ListensOrReturns, ReturnsTheTruth DEF Promise!Next
  <2>2. CASE UNCHANGED vars
    BY <2>2 DEF vars, Promise!vars
  <2>3. QED
    BY <2>1, <2>2
<1>3. QED
  BY <1>1, <1>2, Invariance, PTL DEF Spec, KeepsPromise, Promise!Spec
=============================================================================
