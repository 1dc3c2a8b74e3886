--------------------------- MODULE EventsPromise ---------------------------
(***************************************************************************)
(* What ssoossh_httpc_events promises its caller (httpc.h:57-74), without  *)
(* saying how: it listens until it returns once, with a result that is     *)
(* true of what happened meanwhile.  EventsWait implements it; the attempt *)
(* of Authenticate relies on nothing else.                                 *)
(***************************************************************************)
EXTENDS HttpResults

VARIABLES
  now,          \* CLOCK_MONOTONIC
  deadline,     \* the caller's deadline
  interrupted,  \* ssoossh_cancel_fired()
  answer,       \* the terminal event the callback kept, or "none"
  heard,        \* the server has answered a connection with some status
  early,        \* the user had interrupted before the call was made
  late,         \* the deadline had passed before the call was made
  result        \* "none" until the call returns

vars == <<now, deadline, interrupted, answer, heard, early, late, result>>

\* When each result is true.  TRANSPORT and INTERNAL say nothing about the
\* server; TOO_LARGE and STATUS say that it answered.  A call made after a
\* Ctrl-C or after its deadline asks the server nothing, so it cannot bring an
\* answer back, though one may be waiting.
Truthful(r) ==
  CASE r = "OK" -> answer # "none" /\ ~early /\ ~late
    [] r = "TIMEOUT" -> now >= deadline
    [] r = "CANCELLED" -> interrupted
    [] r \in {"STATUS", "TOO_LARGE"} -> heard
    [] OTHER -> TRUE

Init ==
  /\ now \in Int /\ deadline \in Int
  /\ interrupted \in BOOLEAN
  /\ early = interrupted /\ late = (now >= deadline)
  /\ answer = "none" /\ heard = FALSE /\ result = "none"

\* Time passes, the user may interrupt, the server may speak.
Listen ==
  /\ now' >= now
  /\ interrupted => interrupted'
  /\ heard => heard'
  /\ answer' \in Terminal \cup {answer}
  /\ UNCHANGED <<deadline, early, late, result>>

Return ==
  /\ result = "none"
  /\ result' \in HttpResult
  /\ Truthful(result')
  /\ UNCHANGED <<now, deadline, answer, heard, early, late, interrupted>>

\* It listens until it returns, once.
Next == Return \/ (result = "none" /\ Listen)

Spec == Init /\ [][Next]_vars
=============================================================================
