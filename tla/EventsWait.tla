----------------------------- MODULE EventsWait -----------------------------
(***************************************************************************)
(* ssoossh_httpc_events (src/src/httpc.c:697-766): one connection to the   *)
(* events URL after another until a terminal event, the deadline, a Ctrl-C *)
(* or a refusal.  run_stream (514-672) polls one connection in slices,     *)
(* wait_to_reconnect (679-695) sleeps between two of them.                 *)
(*                                                                         *)
(* libcurl, the server and the clock are the environment: each outcome a   *)
(* call of curl_multi_perform may have is an action of its own.  The       *)
(* module's own steps take no time; the clock moves only while it sleeps.  *)
(***************************************************************************)
EXTENDS HttpResults

CONSTANTS
  Slice,       \* POLL_SLICE_MS, in clock ticks
  Delay,       \* RECONNECT_DELAY_MS, in clock ticks
  Deadlines,   \* deadlines a caller may pass; the call starts at time 0
  Statuses,    \* HTTP statuses the server may answer with
  MaxConns,    \* bound: the server drops at most MaxConns - 1 connections
  MaxTime      \* bound: where the clock stops

ASSUME EventsAssumption ==
  /\ Slice \in Nat \ {0} /\ Delay \in Nat \ {0}
  /\ MaxConns \in Nat \ {0} /\ MaxTime \in Nat
  /\ Deadlines \subseteq Int /\ Statuses \subseteq 200..599

VARIABLES
  pc,           \* where the code is
  now,          \* CLOCK_MONOTONIC
  deadline,     \* deadline_ms
  interrupted,  \* ssoossh_cancel_fired(); the handler is Sigint's subject
  wakeAt,       \* when the current sleep ends
  status,       \* *status: written at the end of a transfer only
  conn,         \* the current connection: stream_ctx, the parser's latches
  answer,       \* wait_ctx: the terminal event on_event kept, or "none"
  got,          \* what run_stream returned
  result,       \* what httpc_events returned, "none" before
  conns,        \* connections opened so far
  heard,        \* history: some connection got a status
  early,        \* history: the Ctrl-C came before the call
  firedAt       \* history: when the Ctrl-C came

vars == <<pc, now, deadline, interrupted, wakeAt, status, conn, answer, got,
          result, conns, heard, early, firedAt>>
envVars == <<now, deadline, interrupted, early, firedAt>>

Place == {"start", "open", "check", "perform", "slice", "sleep", "finished",
          "judge", "retry", "backoff", "woken", "done"}

\* status: the response code libcurl has; known: the write callback has asked
\* for it; stopped, overflow: the parser's latches; floor: the connection
\* negotiated TLS 1.3 (a build that pins it refuses to connect otherwise).
NewConn == [status |-> 0, known |-> FALSE, stopped |-> FALSE, overflow |-> FALSE,
            floor |-> TRUE]
Conn == [status: {0} \cup Statuses, known: BOOLEAN, stopped: BOOLEAN,
         overflow: BOOLEAN, floor: BOOLEAN]

TypeOK ==
  /\ pc \in Place
  /\ now \in Nat /\ deadline \in Deadlines /\ wakeAt \in Nat
  /\ interrupted \in BOOLEAN /\ heard \in BOOLEAN /\ early \in BOOLEAN
  /\ status \in {0} \cup Statuses
  /\ conn \in Conn
  /\ answer \in Terminal \cup {"none"}
  /\ got \in HttpResult /\ result \in HttpResult \cup {"none"}
  /\ conns \in 0..MaxConns
  /\ firedAt \in Nat

Init ==
  /\ pc = "start"
  /\ now = 0 /\ wakeAt = 0 /\ deadline \in Deadlines
  /\ interrupted \in BOOLEAN     \* a Ctrl-C during the create call or prompt
  /\ status = 0 /\ conn = NewConn /\ answer = "none"
  /\ got = "TRANSPORT" /\ result = "none"
  /\ conns = 0 /\ heard = FALSE /\ early = interrupted /\ firedAt = 0

-----------------------------------------------------------------------------
Least(a, b) == IF a < b THEN a ELSE b
Go(from, to) == pc = from /\ pc' = to

\* 571, 681: what is left of the time the caller gave.
Remaining_Clamped == IF deadline - now < 1 THEN 1 ELSE deadline - now
Remaining == deadline - now

\* run_stream returns r to httpc_events.
StreamEnds(from, r) == Go(from, "judge") /\ got' = r

\* httpc_events returns r to its caller.
Finish(from, r) == Go(from, "done") /\ result' = r

\* 705-720: curl could not be initialised or the parser not allocated.
StartFails ==
  /\ Finish("start", "INTERNAL")
  /\ UNCHANGED <<envVars, wakeAt, status, conn, answer, got, conns, heard>>

Start ==
  /\ Go("start", "open")
  /\ UNCHANGED <<envVars, wakeAt, status, conn, answer, got, result, conns, heard>>

\* 537-561: no handle, no headers: INTERNAL, with *status as it was.  The
\* environment fails this way only where the bound on connections allows.
OpenFails ==
  /\ conns + 1 < MaxConns
  /\ StreamEnds("open", "INTERNAL")
  /\ conns' = conns + 1
  /\ conn' = NewConn
  /\ UNCHANGED <<envVars, wakeAt, status, answer, result, heard>>

\* 725 and 529-557: a fresh parser and a fresh stream_ctx; whatever the last
\* connection left half-read is gone.
Open ==
  /\ conns < MaxConns
  /\ Go("open", "check")
  /\ conns' = conns + 1
  /\ \E f \in IF conns + 1 < MaxConns THEN BOOLEAN ELSE {TRUE} :
       conn' = [NewConn EXCEPT !.floor = f]
  /\ UNCHANGED <<envVars, wakeAt, status, answer, got, result, heard>>

\* 571-582: the top of the poll loop.  A Ctrl-C outranks the deadline.
CheckCancelled ==
  /\ interrupted
  /\ StreamEnds("check", "CANCELLED")
  /\ UNCHANGED <<envVars, wakeAt, status, conn, answer, result, conns, heard>>

CheckDeadline ==
  /\ ~interrupted /\ Remaining <= 0
  /\ StreamEnds("check", "TIMEOUT")
  /\ UNCHANGED <<envVars, wakeAt, status, conn, answer, result, conns, heard>>

CheckPasses ==
  /\ ~interrupted /\ Remaining > 0
  /\ Go("check", "perform")
  /\ UNCHANGED <<envVars, wakeAt, status, conn, answer, got, result, conns, heard>>

-----------------------------------------------------------------------------
(* What one curl_multi_perform may do.                                     *)

\* 584-587
PerformFails ==
  /\ conns < MaxConns
  /\ StreamEnds("perform", "TRANSPORT")
  /\ UNCHANGED <<envVars, wakeAt, status, conn, answer, result, conns, heard>>

\* Nothing new, or only bytes that mean nothing: a comment, an informational
\* event (auth.c:134-143), part of an event.
PerformQuiet ==
  /\ Go("perform", "slice")
  /\ UNCHANGED <<envVars, wakeAt, status, conn, answer, got, result, conns, heard>>

\* The status line arrived: libcurl knows it, the write callback does not yet.
PerformStatus ==
  /\ conn.status = 0
  /\ Go("perform", "slice")
  /\ \E s \in Statuses : conn' = [conn EXCEPT !.status = s]
  /\ heard' = TRUE
  /\ UNCHANGED <<envVars, wakeAt, status, answer, got, result, conns>>

\* 477-495: first bytes of a body; an error body is kept and otherwise ignored.
PerformBody ==
  /\ conn.status # 0 /\ ~conn.known
  /\ Go("perform", "slice")
  /\ conn' = [conn EXCEPT !.known = TRUE]
  /\ UNCHANGED <<envVars, wakeAt, status, answer, got, result, conns, heard>>

\* 497-500 and on_event (auth.c:148-153): the answer.  The callback's refusal
\* of more bytes ends the transfer.
PerformTerminal ==
  /\ conn.status # 0 /\ ~Refusal(conn.status)
  /\ Go("perform", "finished")
  /\ \E e \in Terminal : answer' = e
  /\ conn' = [conn EXCEPT !.known = TRUE, !.stopped = TRUE]
  /\ UNCHANGED <<envVars, wakeAt, status, got, result, conns, heard>>

\* sse.c:73-76, 89-92, 129-132: more than the parser will hold.
PerformOverflow ==
  /\ conn.status # 0 /\ ~Refusal(conn.status)
  /\ Go("perform", "finished")
  /\ conn' = [conn EXCEPT !.known = TRUE, !.overflow = TRUE]
  /\ UNCHANGED <<envVars, wakeAt, status, answer, got, result, conns, heard>>

\* The transfer ended: could not connect, dropped, closed, or a whole refusal.
PerformEnds ==
  /\ conns < MaxConns
  /\ Go("perform", "finished")
  /\ UNCHANGED <<envVars, wakeAt, status, conn, answer, got, result, conns, heard>>

\* 592-605: sleep a slice, no longer than libcurl's own timeout, never past the
\* deadline, never less than a tick.
SliceLength_Unclamped(timeout) == Least(Slice, timeout)
SliceLength(timeout) ==
  LET s == Least(Least(Slice, timeout), Remaining) IN IF s < 1 THEN 1 ELSE s

Sleep ==
  /\ Go("slice", "sleep")
  /\ \E timeout \in 0..Slice : wakeAt' = now + SliceLength(timeout)
  /\ UNCHANGED <<envVars, status, conn, answer, got, result, conns, heard>>

\* 605-624: a descriptor stirred, a signal came, or the slice is over.
Wake ==
  /\ Go("sleep", "check")
  /\ UNCHANGED <<envVars, wakeAt, status, conn, answer, got, result, conns, heard>>

\* 605-608
WaitFails ==
  /\ conns < MaxConns
  /\ StreamEnds("sleep", "TRANSPORT")
  /\ UNCHANGED <<envVars, wakeAt, status, conn, answer, result, conns, heard>>

\* 636-659: which way did the transfer end.  A status the write callback never
\* saw does not count as a refusal.
Ending_FloorForgotten ==
  IF conn.stopped THEN "OK"
  ELSE IF conn.overflow THEN "TOO_LARGE"
  ELSE IF conn.known /\ Refusal(conn.status) THEN "STATUS"
  ELSE "TRANSPORT"
Ending ==
  IF ~conn.floor THEN "TRANSPORT"
  ELSE IF conn.stopped THEN "OK"
  ELSE IF conn.overflow THEN "TOO_LARGE"
  ELSE IF conn.known /\ Refusal(conn.status) THEN "STATUS"
  ELSE "TRANSPORT"

Classify ==
  /\ StreamEnds("finished", Ending)
  /\ status' = conn.status
  /\ UNCHANGED <<envVars, wakeAt, conn, answer, result, conns, heard>>

-----------------------------------------------------------------------------
\* 729-755: is this the end?  INTERNAL and TRANSPORT are told apart from a
\* dropped stream by *status alone.
Final_RefusalRetried(r, s) ==
  \/ r \in {"OK", "CANCELLED", "TIMEOUT", "TOO_LARGE"}
  \/ r \in {"TRANSPORT", "INTERNAL"} /\ s = 0
Final(r, s) ==
  \/ r \in {"OK", "CANCELLED", "TIMEOUT", "TOO_LARGE"}
  \/ r = "STATUS" /\ ~RetryableStatus(s)
  \/ r \in {"TRANSPORT", "INTERNAL"} /\ s = 0

JudgeFinal ==
  /\ Final(got, status)
  /\ Finish("judge", got)
  /\ UNCHANGED <<envVars, wakeAt, status, conn, answer, got, conns, heard>>

JudgeRetry ==
  /\ ~Final(got, status)
  /\ Go("judge", "retry")
  /\ UNCHANGED <<envVars, wakeAt, status, conn, answer, got, result, conns, heard>>

\* 757-761: no reconnect; why not?
GiveUpReason_Deadline == "TIMEOUT"
GiveUpReason == IF interrupted THEN "CANCELLED" ELSE "TIMEOUT"

GiveUp(from) ==
  /\ interrupted \/ Remaining <= 0
  /\ Finish(from, GiveUpReason)
  /\ UNCHANGED <<envVars, wakeAt, status, conn, answer, got, conns, heard>>

\* 681-692
BackoffLength_WholeWait == Remaining
BackoffLength == Least(Remaining, Delay)

Backoff ==
  /\ ~interrupted /\ Remaining > 0
  /\ Go("retry", "backoff")
  /\ wakeAt' = now + BackoffLength
  /\ UNCHANGED <<envVars, status, conn, answer, got, result, conns, heard>>

\* The nanosleep ends, at its time or early for any signal.
BackoffWakes ==
  /\ Go("backoff", "woken")
  /\ UNCHANGED <<envVars, wakeAt, status, conn, answer, got, result, conns, heard>>

\* 694
Reconnect ==
  /\ ~interrupted /\ Remaining > 0
  /\ Go("woken", "open")
  /\ UNCHANGED <<envVars, wakeAt, status, conn, answer, got, result, conns, heard>>

-----------------------------------------------------------------------------
(* The environment: time passes while the code sleeps, the user gives up.  *)

Tick ==
  /\ pc \in {"sleep", "backoff"} /\ now < wakeAt /\ now < MaxTime
  /\ now' = now + 1
  /\ UNCHANGED <<pc, deadline, interrupted, early, firedAt, wakeAt, status, conn,
                 answer, got, result, conns, heard>>

CtrlC ==
  /\ pc # "done" /\ ~interrupted
  /\ interrupted' = TRUE /\ firedAt' = now
  /\ UNCHANGED <<pc, now, deadline, wakeAt, status, conn, answer, got, result,
                 conns, heard, early>>

Perform ==
  \/ PerformFails \/ PerformQuiet \/ PerformStatus \/ PerformBody
  \/ PerformTerminal \/ PerformOverflow \/ PerformEnds

Code ==
  \/ StartFails \/ Start \/ OpenFails \/ Open
  \/ CheckCancelled \/ CheckDeadline \/ CheckPasses
  \/ Perform \/ Sleep \/ Wake \/ WaitFails \/ Classify
  \/ JudgeFinal \/ JudgeRetry \/ GiveUp("retry") \/ Backoff \/ BackoffWakes
  \/ GiveUp("woken") \/ Reconnect

Next == Code \/ Tick \/ CtrlC

Spec == Init /\ [][Next]_vars

\* The code runs when it can.  A stream that stirs forever cannot stop the
\* clock.  Nothing is assumed of the server or of the user.
FairSpec == Spec /\ WF_vars(Code) /\ SF_vars(Tick)

-----------------------------------------------------------------------------
\* The wait never outlives its deadline, however the polls and the reconnects
\* fall: every sleep is clamped to it (httpc.c:597, 687).
NeverLate == result # "none" => now <= IF deadline < 0 THEN 0 ELSE deadline

\* A Ctrl-C is noticed within one sleep even if it interrupts none of them,
\* wherever it lands (httpc.c:21-24).
CtrlCPrompt ==
  interrupted /\ result = "none" =>
    now <= firedAt + (IF Slice > Delay THEN Slice ELSE Delay)

\* OK is returned for an answer that came over the connection now open, if that
\* one met the TLS floor, and for nothing else: no answer of an earlier one
\* counts, and none is lost to a deadline, a Ctrl-C or a failure that comes with
\* it (httpc.c:638-645, 729).
AnswersAreThisConnections ==
  /\ result = "OK" => answer # "none"
  /\ result # "none" => (result = "OK" <=> conn.stopped /\ conn.floor)

\* A second connection has its reasons: some connection got a status, so that
\* nobody is kept waiting for a server that was never reached, and the last one
\* did not bring the server's refusal of this request, once that has begun to
\* arrive (httpc.h:60-66, httpc.c:737-755).
ReconnectsForCause ==
  [][conns' > conns /\ conns > 0 =>
       /\ heard
       /\ ~(conn.known /\ conn.floor /\ got = "STATUS" /\ Definitive(conn.status))]_vars

\* The call ends (httpc.h:57-58).
WaitEnds == <>(result # "none")

\* It keeps the promise it makes to its caller.
Promise == INSTANCE EventsPromise
  WITH now <- now, deadline <- deadline, interrupted <- interrupted,
       answer <- answer, heard <- heard, result <- result,
       early <- early, late <- (deadline <= 0)
KeepsPromise == Promise!Spec

-----------------------------------------------------------------------------
\* "Any other refusal is returned as it is" (httpc.h:66): a transfer that ended
\* with a definitive refusal is not followed by another connection.  The code
\* learns that a response is a refusal only when bytes of its body arrive, so
\* one with an empty body is taken for a dropped stream (httpc.c:480, 648).
RefusalIsFinal ==
  [][conns' > conns => ~(status = conn.status /\ Definitive(status) /\ conn.floor)]_vars
=============================================================================
