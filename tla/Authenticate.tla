---------------------------- MODULE Authenticate ----------------------------
(***************************************************************************)
(* One process's authentication attempts, one after another:               *)
(* pam_sm_authenticate (src/src/pam_ssoossh.c:34-90) and                   *)
(* ssoossh_authenticate (src/src/auth.c:499-916), in the order of the      *)
(* code.  What an operator configured, what the host and the server say,   *)
(* is chosen where the code reads it.                                      *)
(*                                                                         *)
(* Three components appear here by their contracts: the wait for events by *)
(* EventsPromise, the Ctrl-C handler by its one flag (Sigint has the       *)
(* system calls), and the four checks as the operators of Checks.  The     *)
(* clock moves only while a call blocks.                                   *)
(***************************************************************************)
EXTENDS HttpResults, Checks

CONSTANTS
  User,         \* the account being authenticated
  Names,        \* accounts and principals
  CaKeys,       \* CA keys a trusted-ca-file may hold
  Certs,        \* user certificates the server may deliver
  WallTimes,    \* what time(NULL) may say when check 4 asks
  Tolerances,   \* skew-tolerance arguments
  Timeouts,     \* timeout arguments; a negative one is accepted
  Remainders,   \* expires_at less the wall clock, as the create call reads it
  ConsoleBuilt, \* ssoossh_console_flow_supported()
  MaxAttempts,  \* bound: attempts the process makes
  MaxTime       \* bound: where the clock of an attempt stops

\* The n-th attempt of the process generates the key n; 0 is a stranger's.
Keys == 0..MaxAttempts

ASSUME AuthenticateAssumption ==
  /\ User \in Names
  /\ MaxAttempts \in Nat /\ MaxTime \in Nat
  /\ Timeouts \subseteq Int /\ Remainders \subseteq Int
  /\ WallTimes \subseteq Nat /\ Tolerances \subseteq Nat
  /\ \A n \in WallTimes, t \in Tolerances : n + t < IntMax
  /\ Certs \subseteq [signer: CaKeys, algo: {"supported", "unsupported"}, key: Keys,
                      principals: SUBSET Names, after: 0..UintMax, before: 0..UintMax]
  /\ ConsoleBuilt \in BOOLEAN

VARIABLES
  pc,           \* where the code is; "host" while the application has control
  attempt,      \* how many attempts were begun; the number of this one
  cfg,          \* what the pam.d line and the session say
  cas,          \* the trusted CA keys loaded
  held,         \* what of this attempt is in the process's memory
  console,      \* the console flow was chosen
  posted,       \* history: the create call was made
  now,          \* CLOCK_MONOTONIC, counted from the attempt's beginning
  deadline,     \* deadline_ms
  armed,        \* the local flag of that name
  handler,      \* on_sigint is installed
  interrupted,  \* the process's flag, ssoossh_cancel_fired()
  hit,          \* history: on_sigint ran in this attempt
  early,        \* history: it had run when the wait for events began
  late,         \* history: the deadline had passed when it began
  heard,        \* history: the server answered the wait with some status
  answer,       \* the terminal event, or "none"
  result,       \* what httpc_events returned, or "none"
  reply,        \* the envelope that came with the answer
  proof,        \* what checks 3 and 4 looked at: map, wall clock, tolerance
  rc            \* the PAM return code, "none" until there is one

setup == <<attempt, cfg, cas, console, posted>>
clock == <<now, deadline>>
sigint == <<armed, handler, interrupted, hit>>
waited == <<early, late, heard, answer, result>>
judged == <<reply, proof>>
vars == <<pc, setup, held, clock, sigint, waited, judged, rc>>

\* The events wait, by its promise alone.
Wait == INSTANCE EventsPromise

Place == {"host", "args", "user", "config", "load", "ssh", "flow", "keygen", "body",
          "arm", "post", "created", "prompt", "join", "wait", "envelope", "status",
          "cert", "checks", "done", "disarmed"}
Config == [server: BOOLEAN, caFile: BOOLEAN, sshOnly: BOOLEAN, overSsh: BOOLEAN,
           service: {"sshd", "sudo"}, timeout: Timeouts]
BlankConfig == [server |-> FALSE, caFile |-> FALSE, sshOnly |-> FALSE,
                overSsh |-> FALSE, service |-> "sudo", timeout |-> 0]

\* The envelope: does it carry an error, and what in place of a certificate.
Reply == [error: BOOLEAN, form: {"absent", "malformed", "not user"}]
         \cup [error: BOOLEAN, form: {"user"}, cert: Certs]
NoReply == [form |-> "none"]
Proof == [map: Maps(Names), wall: WallTimes, tolerance: Tolerances]
NoProof == [map |-> "none"]

TypeOK ==
  /\ pc \in Place /\ attempt \in 0..MaxAttempts
  /\ cfg \in Config \cup {BlankConfig} /\ cas \subseteq CaKeys
  /\ held \subseteq {"attempt", "keypair"}
  /\ console \in BOOLEAN /\ posted \in BOOLEAN
  /\ now \in Nat /\ deadline \in Int
  /\ armed \in BOOLEAN /\ handler \in BOOLEAN
  /\ interrupted \in BOOLEAN /\ hit \in BOOLEAN
  /\ early \in BOOLEAN /\ late \in BOOLEAN /\ heard \in BOOLEAN
  /\ answer \in Terminal \cup {"none"}
  /\ result \in HttpResult \cup {"none"}
  /\ reply \in Reply \cup {NoReply} /\ proof \in Proof \cup {NoProof}
  /\ rc \in PamCode \cup {"none"}

Init ==
  /\ pc = "host" /\ attempt = 0
  /\ cfg = BlankConfig /\ cas = {} /\ held = {}
  /\ console = FALSE /\ posted = FALSE
  /\ now = 0 /\ deadline = 0
  /\ armed = FALSE /\ handler = FALSE
  /\ interrupted = FALSE /\ hit = FALSE
  /\ early = FALSE /\ late = FALSE /\ heard = FALSE
  /\ answer = "none" /\ result = "none"
  /\ reply = NoReply /\ proof = NoProof
  /\ rc = "none"

-----------------------------------------------------------------------------
Go(from, to) == pc = from /\ pc' = to

\* `goto done' with rc = code, and a plain return before there is anything to
\* clean up.
Fail(from, code) == Go(from, "done") /\ rc' = code
Reject(from, code) == Go(from, "host") /\ rc' = code

-----------------------------------------------------------------------------
(* pam_sm_authenticate, and what ssoossh_authenticate does before it talks *)
(* to anyone.                                                              *)

\* The application calls pam_authenticate.
Begin ==
  /\ Go("host", "args")
  /\ attempt < MaxAttempts
  /\ attempt' = attempt + 1
  /\ cfg' \in Config
  /\ cas' = {} /\ console' = FALSE /\ posted' = FALSE /\ held' = {}
  /\ now' = 0 /\ deadline' = 0
  /\ armed' = FALSE /\ hit' = FALSE
  /\ early' = FALSE /\ late' = FALSE /\ heard' = FALSE
  /\ answer' = "none" /\ result' = "none"
  /\ reply' = NoReply /\ proof' = NoProof /\ rc' = "none"
  /\ UNCHANGED <<handler, interrupted>>

\* pam_ssoossh.c:52-73: unreadable arguments, an unknown mode, a value that is
\* too long, mode=console in a build without it.
ArgsRejected ==
  /\ Reject("args", "NO_MODULE_DATA")
  /\ UNCHANGED <<setup, held, clock, sigint, waited, judged>>

ArgsParsed ==
  /\ Go("args", "user")
  /\ UNCHANGED <<setup, held, clock, sigint, waited, judged, rc>>

\* pam_ssoossh.c:78-84.  pam_get_user may converse with the user, who need not
\* answer: the module waits, and its timeout does not run yet.
UserMissing ==
  /\ Reject("user", "USER_UNKNOWN")
  /\ UNCHANGED <<setup, held, clock, sigint, waited, judged>>

UserKnown ==
  /\ Go("user", "config")
  /\ UNCHANGED <<setup, held, clock, sigint, waited, judged, rc>>

\* auth.c:522-530
ConfigIncomplete ==
  /\ ~cfg.server \/ ~cfg.caFile
  /\ Reject("config", IF cfg.server THEN "NO_MODULE_DATA" ELSE "USER_UNKNOWN")
  /\ UNCHANGED <<setup, held, clock, sigint, waited, judged>>

\* auth.c:537-541
OutOfMemory ==
  /\ cfg.server /\ cfg.caFile
  /\ Reject("config", "ABORT")
  /\ UNCHANGED <<setup, held, clock, sigint, waited, judged>>

ConfigComplete ==
  /\ cfg.server /\ cfg.caFile
  /\ Go("config", "load")
  /\ held' = held \cup {"attempt"}
  /\ UNCHANGED <<setup, clock, sigint, waited, judged, rc>>

\* auth.c:562-579: unreadable, malformed, or no key this build can use.
CaFileUsable_Any(keys) == TRUE
CaFileUsable(keys) == keys # {}

CaLoadFails ==
  /\ Fail("load", "NO_MODULE_DATA")
  /\ UNCHANGED <<setup, held, clock, sigint, waited, judged>>

CaLoaded ==
  /\ Go("load", "ssh")
  /\ cas' \in SUBSET CaKeys
  /\ CaFileUsable(cas')
  /\ UNCHANGED <<attempt, cfg, console, posted, held, clock, sigint, waited, judged, rc>>

\* auth.c:589-595
StandsAside == cfg.sshOnly /\ ~cfg.overSsh

StandAside ==
  /\ StandsAside
  /\ Fail("ssh", "IGNORE")
  /\ UNCHANGED <<setup, held, clock, sigint, waited, judged>>

GoOn ==
  /\ ~StandsAside
  /\ Go("ssh", "flow")
  /\ UNCHANGED <<setup, held, clock, sigint, waited, judged, rc>>

\* auth.c:599-615: mode=console, and only such a build gets this far with it,
\* or a tty that looks like a console in mode=auto.
ChooseFlow ==
  /\ Go("flow", "keygen")
  /\ \E mode \in {"auto", "sudo"} \cup (IF ConsoleBuilt THEN {"console"} ELSE {}),
        isConsole \in BOOLEAN :
       console' = (mode = "console" \/ (mode = "auto" /\ ConsoleBuilt /\ isConsole))
  /\ UNCHANGED <<attempt, cfg, cas, posted, held, clock, sigint, waited, judged, rc>>

\* auth.c:634-643: a failure may come before or after the key exists.
KeygenFails ==
  /\ Fail("keygen", "ABORT")
  /\ held' \in {held, held \cup {"keypair"}}
  /\ UNCHANGED <<setup, clock, sigint, waited, judged>>

Keygen ==
  /\ Go("keygen", "body")
  /\ held' = held \cup {"keypair"}
  /\ UNCHANGED <<setup, clock, sigint, waited, judged, rc>>

\* auth.c:650-654: the JSON did not fit.
BodyFails ==
  /\ Fail("body", "ABORT")
  /\ UNCHANGED <<setup, held, clock, sigint, waited, judged>>

Body ==
  /\ Go("body", "arm")
  /\ UNCHANGED <<setup, held, clock, sigint, waited, judged, rc>>

-----------------------------------------------------------------------------
(* From the create call to the answer.                                     *)

\* auth.c:662-669: the deadline bounds the whole attempt.  cancel.c:22 clears
\* the flag; sigaction may fail.
Arm ==
  /\ Go("arm", "post")
  /\ deadline' = now + cfg.timeout
  /\ armed' = TRUE /\ interrupted' = FALSE
  /\ handler' \in BOOLEAN
  /\ posted' = TRUE
  /\ UNCHANGED <<attempt, cfg, cas, console, held, now, hit, waited, judged, rc>>

\* httpc.c:357-376 and 426-446: when the create call may end with r.
PostMayEnd(r) ==
  CASE r = "TIMEOUT" -> now >= deadline
    [] r = "CANCELLED" -> interrupted
    [] OTHER -> TRUE

\* auth.c:671-683
PostFails(r) ==
  /\ PostMayEnd(r)
  /\ Fail("post", HttpToPam(r))
  /\ UNCHANGED <<setup, held, clock, sigint, waited, judged>>

Posted ==
  /\ Go("post", "created")
  /\ UNCHANGED <<setup, held, clock, sigint, waited, judged, rc>>

\* auth.c:685-691, 736-742, 748-759: the create response lacks its events URL,
\* its code, or a usable approval URL.
CreateUnusable ==
  /\ Fail("created", "AUTHINFO_UNAVAIL")
  /\ UNCHANGED <<setup, held, clock, sigint, waited, judged>>

\* auth.c:718-729: the server's expires_at may bring the deadline nearer.
Shortened_ServerWins(remaining) == now + remaining
Shortened(remaining) ==
  IF now + remaining < deadline THEN now + remaining ELSE deadline

\* auth.c:710-734: expires_at is absent or unparsable, or it is honoured.
CreateUsable ==
  /\ Go("created", "prompt")
  /\ deadline' \in {deadline} \cup {Shortened(rem) : rem \in Remainders}
  /\ UNCHANGED <<setup, held, now, sigint, waited, judged, rc>>

\* auth.c:379-382: sshd holds a text back, so it is asked instead of told.
DefersText_Everywhere == TRUE
DefersText == cfg.service = "sshd"

\* auth.c:389-405, 428-436, 488-494: the host's conversation returns; that it
\* failed is only logged.
PromptShown ==
  /\ ~DefersText
  /\ Go("prompt", "join")
  /\ UNCHANGED <<setup, held, clock, sigint, waited, judged, rc>>

PromptAnswered ==
  /\ DefersText
  /\ Go("prompt", "join")
  /\ UNCHANGED <<setup, held, clock, sigint, waited, judged, rc>>

\* auth.c:335-358, 762-768
EventsUrlBad ==
  /\ Fail("join", "AUTHINFO_UNAVAIL")
  /\ UNCHANGED <<setup, held, clock, sigint, waited, judged>>

JoinEventsUrl ==
  /\ Go("join", "wait")
  /\ early' = interrupted /\ late' = (now >= deadline)
  /\ UNCHANGED <<setup, held, clock, sigint, heard, answer, result, judged, rc>>

\* The server speaks on the events stream; what it says last is kept.
Hear ==
  /\ pc = "wait"
  /\ heard' = TRUE
  /\ answer' \in Terminal \cup {answer}
  /\ UNCHANGED <<pc, setup, held, clock, sigint, early, late, result, judged, rc>>

\* httpc.c:571-582: the wait ends with r as its promise allows.
WaitMayEnd_CtrlCAfterAnswer(r) ==
  \/ Wait!Truthful(r)
  \/ r = "OK" /\ answer # "none" /\ ~late
WaitMayEnd_AnswerFirst(r) ==
  \/ Wait!Truthful(r)
  \/ r = "OK" /\ answer # "none" /\ ~early
WaitMayEnd(r) == Wait!Truthful(r)

\* auth.c:770-782.  The promise leaves no OK without an answer, which the code
\* would treat as TRANSPORT.
WaitFails(r) ==
  /\ WaitMayEnd(r)
  /\ Fail("wait", HttpToPam(r))
  /\ result' = r
  /\ UNCHANGED <<setup, held, clock, sigint, early, late, heard, answer, judged>>

Waited ==
  /\ WaitMayEnd("OK")
  /\ Go("wait", "envelope")
  /\ result' = "OK"
  /\ reply' \in Reply
  /\ reply'.form = "user" => reply'.cert.key <= attempt   \* no key of the future
  /\ UNCHANGED <<setup, held, clock, sigint, early, late, heard, answer, proof, rc>>

-----------------------------------------------------------------------------
(* The answer.                                                             *)

\* auth.c:786-803: an error outranks the status.
EnvelopeError ==
  /\ Fail("envelope", "AUTHINFO_UNAVAIL")
  /\ reply.error
  /\ UNCHANGED <<setup, held, clock, sigint, waited, judged>>

EnvelopeFine ==
  /\ Go("envelope", "status")
  /\ ~reply.error
  /\ UNCHANGED <<setup, held, clock, sigint, waited, judged, rc>>

\* auth.c:805-820
NotApproved ==
  /\ answer # "approved"
  /\ Fail("status", "AUTH_ERR")
  /\ UNCHANGED <<setup, held, clock, sigint, waited, judged>>

Approved ==
  /\ answer = "approved"
  /\ Go("status", "cert")
  /\ UNCHANGED <<setup, held, clock, sigint, waited, judged, rc>>

\* auth.c:822-847: no certificate, one that does not parse, or a host's.
CertUnusable ==
  /\ Fail("cert", "AUTH_ERR")
  /\ reply.form # "user"
  /\ UNCHANGED <<setup, held, clock, sigint, waited, judged>>

CertParsed ==
  /\ Go("cert", "checks")
  /\ reply.form = "user"
  /\ UNCHANGED <<setup, held, clock, sigint, waited, judged, rc>>

\* auth.c:869-876, 897: the key of this attempt is its number.
Check ==
  /\ pc = "checks"
  /\ proof' \in Proof
  /\ \E verdict \in Verdicts(reply.cert, cas, attempt, User, proof'.map,
                             proof'.wall, proof'.tolerance) :
       Fail("checks", IF verdict = "passed" THEN "SUCCESS" ELSE "AUTH_ERR")
  /\ UNCHANGED <<setup, held, clock, sigint, waited, reply>>

-----------------------------------------------------------------------------
\* auth.c:899-901: the handler comes down on every path that armed it.
Disarm ==
  /\ armed
  /\ Go("done", "disarmed")
  /\ handler' = FALSE
  /\ UNCHANGED <<setup, held, clock, armed, interrupted, hit, waited, judged, rc>>

\* auth.c:902-906
FinalAnswer_FlagAlone == IF rc # "SUCCESS" /\ interrupted THEN "IGNORE" ELSE rc
FinalAnswer_CtrlCWins == IF armed /\ interrupted THEN "IGNORE" ELSE rc
FinalAnswer == IF armed /\ rc # "SUCCESS" /\ interrupted THEN "IGNORE" ELSE rc

\* auth.c:912-914
Released_AttemptOnly == {"attempt"}
Released == {"attempt", "keypair"}

Finish ==
  /\ pc = (IF armed THEN "disarmed" ELSE "done")
  /\ pc' = "host"
  /\ rc' = FinalAnswer
  /\ held' = held \ Released
  /\ UNCHANGED <<setup, clock, sigint, waited, judged>>

\* on_sigint, cancel.c
CtrlC ==
  /\ handler /\ ~interrupted
  /\ interrupted' = TRUE /\ hit' = TRUE
  /\ UNCHANGED <<pc, setup, held, clock, armed, handler, waited, judged, rc>>

\* Time passes where the code blocks: in the two network calls, which end at
\* their deadline, and in a conversation that waits for the user.
Tick ==
  /\ \/ pc \in {"post", "wait"} /\ now < deadline
     \/ pc = "prompt" /\ DefersText
  /\ now < MaxTime
  /\ now' = now + 1
  /\ UNCHANGED <<pc, setup, held, deadline, sigint, waited, judged, rc>>

-----------------------------------------------------------------------------
Failure == HttpResult \ {"OK"}

\* Steps the module takes by itself.
Code ==
  \/ ArgsRejected \/ ArgsParsed
  \/ ConfigIncomplete \/ OutOfMemory \/ ConfigComplete
  \/ CaLoadFails \/ CaLoaded \/ StandAside \/ GoOn \/ ChooseFlow
  \/ KeygenFails \/ Keygen \/ BodyFails \/ Body \/ Arm
  \/ CreateUnusable \/ CreateUsable \/ PromptShown \/ EventsUrlBad \/ JoinEventsUrl
  \/ EnvelopeError \/ EnvelopeFine \/ NotApproved \/ Approved
  \/ CertUnusable \/ CertParsed \/ Check \/ Disarm \/ Finish

\* Ends of a network call that need neither the server nor the user.
CallEnds ==
  \E r \in {"TIMEOUT", "CANCELLED"} : PostFails(r) \/ WaitFails(r)

\* Whatever the server, the network and the user may do.
Environment ==
  \/ Begin \/ UserMissing \/ UserKnown \/ CtrlC \/ Hear \/ PromptAnswered \/ Posted \/ Waited
  \/ \E r \in Failure \ {"TIMEOUT", "CANCELLED"} : PostFails(r) \/ WaitFails(r)

Next == Code \/ CallEnds \/ Environment \/ Tick

Spec == Init /\ [][Next]_vars

\* The code runs, the clock runs, and libcurl gives up when it is told to.
FairSpec == Spec /\ WF_vars(Code) /\ WF_vars(CallEnds) /\ WF_vars(Tick)

-----------------------------------------------------------------------------
Returned == pc = "host" /\ rc # "none"

\* What must all be true of an answer for it to open the account.
Earned ==
  /\ answer = "approved" /\ ~reply.error /\ reply.form = "user"
  /\ Authorizes(reply.cert, cas, attempt, User, proof.map, proof.wall, proof.tolerance)

\* PAM_SUCCESS is answered only for an approval with a certificate that is
\* signed by a CA loaded for this attempt, made for this attempt's key - not
\* for an earlier one's -, names the user and is current (auth.c:766-897).
SuccessIsEarned == Returned /\ rc = "SUCCESS" => result = "OK" /\ Earned

\* The other way round: nothing that happens after such an answer came back, a
\* late Ctrl-C included, turns it into a refusal (auth.c:899-906), except that
\* a certificate without an end is refused (checks.c:258).
EarnedIsGranted ==
  /\ Returned /\ result = "OK" /\ Earned
  /\ InRange(reply.cert, proof.tolerance)
  => rc = "SUCCESS"

\* PAM_IGNORE, which lets the stack go on as if the module were not there, is
\* for a local session under ssh-only or a Ctrl-C in this very attempt: the
\* process-wide flag of an earlier one never leaks into it (auth.c:589-595,
\* 902-906).
IgnoreIsDeliberate == Returned /\ rc = "IGNORE" => StandsAside \/ hit

\* PAM_AUTH_ERR, which ends the stack, is a decision: the request resolved, or
\* the time given for it ran out.  An unreachable or broken server is not one
\* (auth.c:268-287).
DenialIsADecision ==
  Returned /\ rc = "AUTH_ERR" => result = "OK" \/ now >= deadline

\* A Ctrl-C during the create call or the prompt is final, even if a person
\* approves after it: the wait that follows brings nothing back
\* (auth.c:665-669, httpc.c:575).
CtrlCBeforeWaitIsFinal == Returned /\ early => rc = "IGNORE"

\* A prompt that was answered after the deadline, with its Enter under sshd, lets
\* nobody in, approved meanwhile or not: the wait gives up before it connects
\* (auth.c:389-405, httpc.c:579-582).
LateIsNotGranted == Returned /\ late => rc # "SUCCESS"

\* Whatever path an attempt ends on, its key and its buffers are gone and the
\* host has its SIGINT back (auth.c:899-914).
NothingLeftBehind == pc = "host" => held = {} /\ ~handler

\* No key is generated and no request made for a configuration that cannot
\* authenticate anyone, or for a session the module stands aside for
\* (auth.c:518-530, 581-588).
NothingSpentOnBadConfig ==
  posted \/ "keypair" \in held =>
    cfg.server /\ cfg.caFile /\ cas # {} /\ ~StandsAside

\* An attempt whose prompt does not wait for the user ends within its timeout,
\* wherever that time was spent and whatever the server says of its own
\* deadline (auth.c:659-663, 718-729).
BoundedAttempt ==
  Returned /\ cfg.service # "sshd" =>
    now <= (IF cfg.timeout > 0 THEN cfg.timeout ELSE 0)

\* Such an attempt ends, though neither the server nor the user ever acts, unless
\* libpam is still asking for the name (pam_ssoossh.c:78-84, auth.c:659-663).
Returns ==
  pc \in {"args", "config"} /\ cfg.service # "sshd" ~> pc \in {"user", "host"}
=============================================================================
