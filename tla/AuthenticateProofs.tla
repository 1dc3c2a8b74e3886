------------------------- MODULE AuthenticateProofs -------------------------
(***************************************************************************)
(* What holds of every attempt, for every set of CA keys, certificates,    *)
(* timeouts and server deadlines and any number of attempts.  TypeOK comes *)
(* first; IInv then says what is known at each place of the code, and each *)
(* safety property of Authenticate follows from it.                        *)
(***************************************************************************)
EXTENDS Authenticate, ChecksProofs

-----------------------------------------------------------------------------
\* Every step keeps the variables of their types.
LEMMA TypeStep == TypeOK /\ [Next]_vars => TypeOK'
<1> SUFFICES ASSUME TypeOK, [Next]_vars PROVE TypeOK'
  OBVIOUS
<1> USE DEF TypeOK, vars, setup, clock, sigint, waited, judged, Place, PamCode,
            Go, Fail, Reject
<1>1. CASE ArgsRejected
  BY <1>1, AuthenticateAssumption DEF ArgsRejected
<1>2. CASE ArgsParsed
  BY <1>2, AuthenticateAssumption DEF ArgsParsed
<1>3. CASE UserMissing
  BY <1>3, AuthenticateAssumption DEF UserMissing
<1>4. CASE UserKnown
  BY <1>4, AuthenticateAssumption DEF UserKnown
<1>5. CASE ConfigIncomplete
  BY <1>5, AuthenticateAssumption DEF ConfigIncomplete
<1>6. CASE OutOfMemory
  BY <1>6, AuthenticateAssumption DEF OutOfMemory
<1>7. CASE ConfigComplete
  BY <1>7, AuthenticateAssumption DEF ConfigComplete
<1>8. CASE CaLoadFails
  BY <1>8, AuthenticateAssumption DEF CaLoadFails
<1>9. CASE CaLoaded
  BY <1>9, AuthenticateAssumption DEF CaLoaded
<1>10. CASE StandAside
  BY <1>10, AuthenticateAssumption DEF StandAside
<1>11. CASE GoOn
  BY <1>11, AuthenticateAssumption DEF GoOn
<1>12. CASE ChooseFlow
  BY <1>12, AuthenticateAssumption DEF ChooseFlow
<1>13. CASE KeygenFails
  BY <1>13, AuthenticateAssumption DEF KeygenFails
<1>14. CASE Keygen
  BY <1>14, AuthenticateAssumption DEF Keygen
<1>15. CASE BodyFails
  BY <1>15, AuthenticateAssumption DEF BodyFails
<1>16. CASE Body
  BY <1>16, AuthenticateAssumption DEF Body
<1>17. CASE Arm
  <2>1. deadline' \in Int
    BY <1>17, AuthenticateAssumption DEF Arm, Config, BlankConfig
  <2>2. /\ armed' \in BOOLEAN /\ handler' \in BOOLEAN /\ posted' \in BOOLEAN
        /\ interrupted' \in BOOLEAN /\ hit' \in BOOLEAN /\ console' \in BOOLEAN
    BY <1>17 DEF Arm
  <2>3. /\ pc' = "post"
        /\ UNCHANGED <<attempt, cfg, cas, held, now, waited, judged, rc>>
    BY <1>17 DEF Arm
  <2> QED BY <2>1, <2>2, <2>3
<1>18. CASE CreateUnusable
  BY <1>18, AuthenticateAssumption DEF CreateUnusable
<1>19. CASE CreateUsable
  BY <1>19, AuthenticateAssumption DEF CreateUsable, Shortened
<1>20. CASE PromptShown
  BY <1>20, AuthenticateAssumption DEF PromptShown
<1>21. CASE EventsUrlBad
  BY <1>21, AuthenticateAssumption DEF EventsUrlBad
<1>22. CASE JoinEventsUrl
  BY <1>22, AuthenticateAssumption DEF JoinEventsUrl
<1>23. CASE EnvelopeError
  BY <1>23, AuthenticateAssumption DEF EnvelopeError
<1>24. CASE EnvelopeFine
  BY <1>24, AuthenticateAssumption DEF EnvelopeFine
<1>25. CASE NotApproved
  BY <1>25, AuthenticateAssumption DEF NotApproved
<1>26. CASE Approved
  BY <1>26, AuthenticateAssumption DEF Approved
<1>27. CASE CertUnusable
  BY <1>27, AuthenticateAssumption DEF CertUnusable
<1>28. CASE CertParsed
  BY <1>28, AuthenticateAssumption DEF CertParsed
<1>29. CASE Check
  BY <1>29, AuthenticateAssumption DEF Check, Proof
<1>30. CASE Disarm
  <2>1. /\ armed' \in BOOLEAN /\ handler' \in BOOLEAN
        /\ interrupted' \in BOOLEAN /\ hit' \in BOOLEAN
    BY <1>30 DEF Disarm
  <2>2. pc' = "disarmed" /\ UNCHANGED <<setup, held, clock, waited, judged, rc>>
    BY <1>30 DEF Disarm
  <2> QED BY <2>1, <2>2
<1>31. CASE Finish
  BY <1>31, AuthenticateAssumption DEF Finish, FinalAnswer, Released
<1>32. CASE Begin
  <2>1. attempt' \in 0..MaxAttempts
    BY <1>32, AuthenticateAssumption DEF Begin
  <2>2. handler' \in BOOLEAN /\ interrupted' \in BOOLEAN
    BY <1>32 DEF Begin
  <2>3. pc' \in Place /\ cfg' \in Config /\ now' \in Nat /\ deadline' \in Int
    BY <1>32 DEF Begin
  <2>4. /\ cas' \subseteq CaKeys /\ held' \subseteq {"attempt", "keypair"}
        /\ console' = FALSE /\ posted' = FALSE /\ armed' = FALSE /\ hit' = FALSE
        /\ early' = FALSE /\ late' = FALSE /\ heard' = FALSE
    BY <1>32 DEF Begin
  <2>5. /\ answer' = "none" /\ result' = "none" /\ rc' = "none"
        /\ reply' = NoReply /\ proof' = NoProof
    BY <1>32 DEF Begin
  <2> QED BY <2>1, <2>2, <2>3, <2>4, <2>5
<1>33. CASE CtrlC
  BY <1>33, AuthenticateAssumption DEF CtrlC
<1>34. CASE Hear
  BY <1>34, AuthenticateAssumption DEF Hear
<1>35. CASE PromptAnswered
  BY <1>35, AuthenticateAssumption DEF PromptAnswered
<1>36. CASE Posted
  BY <1>36, AuthenticateAssumption DEF Posted
<1>37. CASE Waited
  BY <1>37, AuthenticateAssumption DEF Waited, HttpResult
<1>38. CASE Tick
  BY <1>38, AuthenticateAssumption DEF Tick
<1>39. ASSUME NEW r \in Failure, PostFails(r) PROVE TypeOK'
  BY <1>39 DEF PostFails, HttpToPam, HttpResult, Failure
<1>40. ASSUME NEW r \in Failure, WaitFails(r) PROVE TypeOK'
  BY <1>40 DEF WaitFails, HttpToPam, HttpResult, Failure
<1>41. CASE UNCHANGED vars
  BY <1>41
<1>42. QED
  BY <1>1, <1>2, <1>3, <1>4, <1>5, <1>6, <1>7, <1>8, <1>9, <1>10, <1>11, <1>12,
     <1>13, <1>14, <1>15, <1>16, <1>17, <1>18, <1>19, <1>20, <1>21, <1>22, <1>23,
     <1>24, <1>25, <1>26, <1>27, <1>28, <1>29, <1>30, <1>31, <1>32, <1>33, <1>34,
     <1>35, <1>36, <1>37, <1>38, <1>39, <1>40, <1>41
     DEF Next, Code, CallEnds, Environment, Failure, HttpResult

-----------------------------------------------------------------------------
(* The inductive invariant: what is known at each place of the code.       *)

Unstarted == {"args", "user", "config"}
Preparing == {"load", "ssh", "flow", "keygen", "body", "arm"}
Talking == {"post", "created", "prompt", "join", "wait"}
Judging == {"envelope", "status", "cert", "checks"}
Ending == {"done", "disarmed", "host"}

\* What the answer was found to be, one step at a time.
AnswerInv ==
  /\ pc \in Judging => result = "OK"
  /\ pc \in {"status", "cert", "checks"} => ~reply.error
  /\ pc \in {"cert", "checks"} => answer = "approved"
  /\ pc = "checks" => reply.form = "user"

\* What the return code stands for, once there is one.
OutcomeInv ==
  pc \in Ending =>
    /\ rc = "SUCCESS" => result = "OK" /\ Earned
    /\ rc = "IGNORE" => StandsAside \/ hit
    /\ rc = "AUTH_ERR" => result = "OK" \/ now >= deadline
    /\ result = "OK" /\ Earned /\ InRange(reply.cert, proof.tolerance) => rc = "SUCCESS"

\* The handler is there only in an armed attempt, and flags only that one.
SigintInv ==
  /\ armed /\ interrupted => hit
  /\ pc \in Talking \cup Judging => armed
  /\ handler => armed
  /\ pc \in {"host", "disarmed"} \cup Unstarted \cup Preparing => ~handler

\* A Ctrl-C that was there before the wait, and a deadline that was over.
EarlyInv ==
  /\ pc \in Unstarted \cup Preparing \cup Talking => result = "none"
  /\ pc \in Unstarted \cup Preparing \cup (Talking \ {"wait"}) => ~early
  /\ early => armed /\ interrupted /\ result # "OK"
  /\ late => result # "OK"
  /\ pc = "host" /\ early /\ rc # "none" => rc = "IGNORE"

\* What the attempt has spent, and what it had made sure of before.
SpentInv ==
  /\ pc \in {"host"} \cup Unstarted => held = {}
  /\ pc \in Unstarted \cup {"load", "ssh", "flow"} => ~posted /\ "keypair" \notin held
  /\ pc \in Preparing \cup Talking \cup Judging => cfg.server /\ cfg.caFile
  /\ pc \in (Preparing \ {"load"}) \cup Talking \cup Judging => cas # {}
  /\ pc \in (Preparing \ {"load", "ssh"}) \cup Talking \cup Judging => ~StandsAside
  /\ NothingSpentOnBadConfig

\* How much of its time.
TimeInv ==
  /\ pc \in Unstarted \cup Preparing => now = 0
  /\ pc \in Talking => deadline <= cfg.timeout
  /\ cfg.service # "sshd" => now <= (IF cfg.timeout > 0 THEN cfg.timeout ELSE 0)

IInv == TypeOK /\ AnswerInv /\ OutcomeInv /\ SigintInv /\ EarlyInv /\ SpentInv /\ TimeInv


\* A configuration's timeout is an integer, before the first attempt too.
LEMMA TimeoutIsInt == \A c \in Config \cup {BlankConfig} : c.timeout \in Int
<1>1. \A c \in Config : c.timeout \in Int
  BY AuthenticateAssumption DEF Config
<1>2. BlankConfig.timeout \in Int
  BY DEF BlankConfig
<1>3. QED
  BY <1>1, <1>2

\* Only an envelope with a user certificate has one to be checked.
LEMMA UserReplyHasCert ==
  \A r \in Reply \cup {NoReply} : r.form = "user" => r.cert \in Certs
<1>1. \A r \in [error: BOOLEAN, form: {"absent", "malformed", "not user"}] :
        r.form # "user"
  OBVIOUS
<1>2. \A r \in [error: BOOLEAN, form: {"user"}, cert: Certs] : r.cert \in Certs
  OBVIOUS
<1>3. NoReply.form # "user"
  BY DEF NoReply
<1>4. QED
  BY <1>1, <1>2, <1>3 DEF Reply

\* Every step keeps the invariant: one case per action of Authenticate.
LEMMA InvStep == IInv /\ [Next]_vars => IInv'
<1> SUFFICES ASSUME IInv, [Next]_vars PROVE IInv'
  OBVIOUS
<1>typed. TypeOK /\ TypeOK'
  BY TypeStep DEF IInv
<1>timeout. cfg.timeout \in Int /\ cfg'.timeout \in Int
  BY <1>typed, TimeoutIsInt DEF TypeOK
<1> USE DEF AnswerInv, OutcomeInv, SigintInv, EarlyInv, SpentInv, TimeInv,
            NothingSpentOnBadConfig, StandsAside, Earned,
            Unstarted, Preparing, Talking, Judging, Ending,
            vars, setup, clock, sigint, waited, judged, Go, Fail, Reject
<1>1. CASE ArgsRejected
  BY <1>typed, <1>1, AuthenticateAssumption DEF IInv, TypeOK, ArgsRejected
<1>2. CASE ArgsParsed
  BY <1>typed, <1>2, AuthenticateAssumption DEF IInv, TypeOK, ArgsParsed
<1>3. CASE UserMissing
  BY <1>typed, <1>3, AuthenticateAssumption DEF IInv, TypeOK, UserMissing
<1>4. CASE UserKnown
  BY <1>typed, <1>4, AuthenticateAssumption DEF IInv, TypeOK, UserKnown
<1>5. CASE ConfigIncomplete
  BY <1>typed, <1>5, AuthenticateAssumption DEF IInv, TypeOK, ConfigIncomplete
<1>6. CASE OutOfMemory
  BY <1>typed, <1>6, AuthenticateAssumption DEF IInv, TypeOK, OutOfMemory
<1>7. CASE ConfigComplete
  BY <1>typed, <1>7, AuthenticateAssumption DEF IInv, TypeOK, ConfigComplete
<1>8. CASE CaLoadFails
  BY <1>typed, <1>8, AuthenticateAssumption DEF IInv, TypeOK, CaLoadFails
<1>9. CASE CaLoaded
  BY <1>typed, <1>9, AuthenticateAssumption DEF IInv, TypeOK, CaLoaded, CaFileUsable
<1>10. CASE StandAside
  BY <1>typed, <1>10, AuthenticateAssumption DEF IInv, TypeOK, StandAside
<1>11. CASE GoOn
  BY <1>typed, <1>11, AuthenticateAssumption DEF IInv, TypeOK, GoOn
<1>12. CASE ChooseFlow
  BY <1>typed, <1>12, AuthenticateAssumption DEF IInv, TypeOK, ChooseFlow
<1>13. CASE KeygenFails
  BY <1>typed, <1>13, AuthenticateAssumption DEF IInv, TypeOK, KeygenFails
<1>14. CASE Keygen
  BY <1>typed, <1>14, AuthenticateAssumption DEF IInv, TypeOK, Keygen
<1>15. CASE BodyFails
  BY <1>typed, <1>15, AuthenticateAssumption DEF IInv, TypeOK, BodyFails
<1>16. CASE Body
  BY <1>typed, <1>16, AuthenticateAssumption DEF IInv, TypeOK, Body
<1>17. CASE Arm
  <2>1. AnswerInv'
    BY <1>typed, <1>timeout, <1>17 DEF IInv, TypeOK, Arm
  <2>2. OutcomeInv'
    BY <1>typed, <1>timeout, <1>17 DEF IInv, TypeOK, Arm
  <2>3. SigintInv'
    BY <1>typed, <1>timeout, <1>17 DEF IInv, TypeOK, Arm
  <2>4. EarlyInv'
    BY <1>typed, <1>timeout, <1>17 DEF IInv, TypeOK, Arm
  <2>5. SpentInv'
    BY <1>typed, <1>timeout, <1>17 DEF IInv, TypeOK, Arm
  <2>6. TimeInv'
    BY <1>typed, <1>timeout, <1>17 DEF IInv, TypeOK, Arm
  <2>7. QED
    BY <1>typed, <2>1, <2>2, <2>3, <2>4, <2>5, <2>6 DEF IInv
<1>18. CASE CreateUnusable
  BY <1>typed, <1>18, AuthenticateAssumption DEF IInv, TypeOK, CreateUnusable
<1>19. CASE CreateUsable
  <2>1. AnswerInv'
    BY <1>typed, <1>timeout, <1>19 DEF IInv, TypeOK, CreateUsable, Shortened
  <2>2. OutcomeInv'
    BY <1>typed, <1>timeout, <1>19 DEF IInv, TypeOK, CreateUsable, Shortened
  <2>3. SigintInv'
    BY <1>typed, <1>timeout, <1>19 DEF IInv, TypeOK, CreateUsable, Shortened
  <2>4. EarlyInv'
    BY <1>typed, <1>timeout, <1>19 DEF IInv, TypeOK, CreateUsable, Shortened
  <2>5. SpentInv'
    BY <1>typed, <1>timeout, <1>19 DEF IInv, TypeOK, CreateUsable, Shortened
  <2>6. TimeInv'
    BY <1>typed, <1>timeout, <1>19 DEF IInv, TypeOK, CreateUsable, Shortened
  <2>7. QED
    BY <1>typed, <2>1, <2>2, <2>3, <2>4, <2>5, <2>6 DEF IInv
<1>20. CASE PromptShown
  BY <1>typed, <1>20, AuthenticateAssumption DEF IInv, TypeOK, PromptShown
<1>21. CASE EventsUrlBad
  BY <1>typed, <1>21, AuthenticateAssumption DEF IInv, TypeOK, EventsUrlBad
<1>22. CASE JoinEventsUrl
  BY <1>typed, <1>22, AuthenticateAssumption DEF IInv, TypeOK, JoinEventsUrl
<1>23. CASE EnvelopeError
  BY <1>typed, <1>23, AuthenticateAssumption DEF IInv, TypeOK, EnvelopeError
<1>24. CASE EnvelopeFine
  BY <1>typed, <1>24, AuthenticateAssumption DEF IInv, TypeOK, EnvelopeFine
<1>25. CASE NotApproved
  BY <1>typed, <1>25, AuthenticateAssumption DEF IInv, TypeOK, NotApproved
<1>26. CASE Approved
  BY <1>typed, <1>26, AuthenticateAssumption DEF IInv, TypeOK, Approved
<1>27. CASE CertUnusable
  BY <1>typed, <1>27, AuthenticateAssumption DEF IInv, TypeOK, CertUnusable
<1>28. CASE CertParsed
  BY <1>typed, <1>28, AuthenticateAssumption DEF IInv, TypeOK, CertParsed
<1>29. CASE Check
  <2>1. AnswerInv'
    BY <1>typed, <1>29 DEF IInv, TypeOK, Check
  <2>2. OutcomeInv'
    <3>1. PICK verdict \in Verdicts(reply.cert, cas, attempt, User, proof'.map,
                               proof'.wall, proof'.tolerance) :
            rc' = IF verdict = "passed" THEN "SUCCESS" ELSE "AUTH_ERR"
      BY <1>29 DEF Check
    <3>2. /\ UNCHANGED <<reply, cas, attempt, answer, result>>
          /\ result = "OK" /\ ~reply.error /\ answer = "approved" /\ reply.form = "user"
      BY <1>29 DEF Check, IInv
    <3>3. reply.cert \in Certs
      BY <1>typed, <3>2, UserReplyHasCert DEF TypeOK
    <3>4. /\ proof'.map.load # "loaded" => proof'.map.names = {}
          /\ proof'.wall \in WallTimes /\ proof'.tolerance \in Tolerances
      BY <1>29 DEF Check, Proof, Maps
    <3>5. /\ reply.cert.algo \in {"supported", "unsupported"}
          /\ reply.cert.after \in 0..UintMax /\ reply.cert.before \in 0..UintMax
      BY <3>3, AuthenticateAssumption
    <3>6. /\ proof'.wall \in Nat /\ proof'.tolerance \in Nat
          /\ proof'.wall + proof'.tolerance < IntMax
      BY <3>4, AuthenticateAssumption
    <3>7. Clamp(reply.cert.after) - proof'.tolerance <= IntMax
      BY <3>5, <3>6, ChecksAssumption DEF Clamp, UintMax
    <3>8. verdict = "passed" => Earned'
      BY <3>2, <3>4, <3>5, <3>6, <3>7, PassedAuthorizes DEF Earned
    <3>9. Earned' /\ InRange(reply.cert, proof'.tolerance) => verdict = "passed"
      BY <3>1, <3>2, <3>4, <3>5, <3>6, ChecksAssumption, AuthorizedIsPassed DEF Earned
    <3>10. QED
      BY <3>1, <3>2, <3>8, <3>9
  <2>3. SigintInv'
    BY <1>typed, <1>29 DEF IInv, TypeOK, Check
  <2>4. EarlyInv'
    BY <1>typed, <1>29 DEF IInv, TypeOK, Check
  <2>5. SpentInv'
    BY <1>typed, <1>29 DEF IInv, TypeOK, Check
  <2>6. TimeInv'
    BY <1>typed, <1>29 DEF IInv, TypeOK, Check
  <2>7. QED
    BY <1>typed, <2>1, <2>2, <2>3, <2>4, <2>5, <2>6 DEF IInv
<1>30. CASE Disarm
  BY <1>typed, <1>30, AuthenticateAssumption DEF IInv, TypeOK, Disarm
<1>31. CASE Finish
  BY <1>typed, <1>31, AuthenticateAssumption
     DEF IInv, TypeOK, Finish, FinalAnswer, Released
<1>32. CASE Begin
  <2>1. AnswerInv'
    BY <1>typed, <1>timeout, <1>32 DEF IInv, TypeOK, Begin, Config
  <2>2. OutcomeInv'
    BY <1>typed, <1>timeout, <1>32 DEF IInv, TypeOK, Begin, Config
  <2>3. SigintInv'
    BY <1>typed, <1>timeout, <1>32 DEF IInv, TypeOK, Begin, Config
  <2>4. EarlyInv'
    BY <1>typed, <1>timeout, <1>32 DEF IInv, TypeOK, Begin, Config
  <2>5. SpentInv'
    BY <1>typed, <1>timeout, <1>32 DEF IInv, TypeOK, Begin, Config
  <2>6. TimeInv'
    BY <1>typed, <1>timeout, <1>32 DEF IInv, TypeOK, Begin, Config
  <2>7. QED
    BY <1>typed, <2>1, <2>2, <2>3, <2>4, <2>5, <2>6 DEF IInv
<1>33. CASE CtrlC
  BY <1>typed, <1>33, AuthenticateAssumption DEF IInv, TypeOK, CtrlC
<1>34. CASE Hear
  BY <1>typed, <1>34, AuthenticateAssumption DEF IInv, TypeOK, Hear
<1>35. CASE PromptAnswered
  BY <1>typed, <1>35, AuthenticateAssumption DEF IInv, TypeOK, PromptAnswered
<1>36. CASE Posted
  BY <1>typed, <1>36, AuthenticateAssumption DEF IInv, TypeOK, Posted
<1>37. CASE Waited
  BY <1>typed, <1>37, AuthenticateAssumption
     DEF IInv, TypeOK, Waited, WaitMayEnd, Wait!Truthful
<1>38. CASE Tick
  <2>1. AnswerInv'
    BY <1>typed, <1>timeout, <1>38 DEF IInv, TypeOK, Tick, DefersText
  <2>2. OutcomeInv'
    BY <1>typed, <1>timeout, <1>38 DEF IInv, TypeOK, Tick, DefersText
  <2>3. SigintInv'
    BY <1>typed, <1>timeout, <1>38 DEF IInv, TypeOK, Tick, DefersText
  <2>4. EarlyInv'
    BY <1>typed, <1>timeout, <1>38 DEF IInv, TypeOK, Tick, DefersText
  <2>5. SpentInv'
    BY <1>typed, <1>timeout, <1>38 DEF IInv, TypeOK, Tick, DefersText
  <2>6. TimeInv'
    BY <1>typed, <1>timeout, <1>38 DEF IInv, TypeOK, Tick, DefersText
  <2>7. QED
    BY <1>typed, <2>1, <2>2, <2>3, <2>4, <2>5, <2>6 DEF IInv
<1>39. ASSUME NEW r \in Failure, PostFails(r) PROVE IInv'
  BY <1>typed, <1>39
     DEF IInv, TypeOK, PostFails, PostMayEnd, HttpToPam, HttpResult, Failure
<1>40. ASSUME NEW r \in Failure, WaitFails(r) PROVE IInv'
  BY <1>typed, <1>40
     DEF IInv, TypeOK, WaitFails, WaitMayEnd, Wait!Truthful, HttpToPam, HttpResult,
         Failure
<1>41. CASE UNCHANGED vars
  BY <1>typed, <1>41 DEF IInv, TypeOK
<1>42. QED
  BY <1>1, <1>2, <1>3, <1>4, <1>5, <1>6, <1>7, <1>8, <1>9, <1>10, <1>11, <1>12,
     <1>13, <1>14, <1>15, <1>16, <1>17, <1>18, <1>19, <1>20, <1>21, <1>22, <1>23,
     <1>24, <1>25, <1>26, <1>27, <1>28, <1>29, <1>30, <1>31, <1>32, <1>33, <1>34,
     <1>35, <1>36, <1>37, <1>38, <1>39, <1>40, <1>41
     DEF Next, Code, CallEnds, Environment, Failure, HttpResult

\* The process starts in it: no attempt has been made.
LEMMA InvInit == Init => IInv
<1> SUFFICES ASSUME Init PROVE IInv
  OBVIOUS
<1> USE DEF Init
<1>1. TypeOK
  <2>1. attempt \in 0..MaxAttempts
    BY AuthenticateAssumption
  <2>2. /\ pc \in Place /\ held \subseteq {"attempt", "keypair"} /\ cas \subseteq CaKeys
        /\ now \in Nat /\ deadline \in Int
    BY DEF Place
  <2>3. /\ console \in BOOLEAN /\ posted \in BOOLEAN /\ armed \in BOOLEAN
        /\ handler \in BOOLEAN /\ interrupted \in BOOLEAN /\ hit \in BOOLEAN
        /\ early \in BOOLEAN /\ late \in BOOLEAN /\ heard \in BOOLEAN
    OBVIOUS
  <2>4. /\ cfg \in Config \cup {BlankConfig} /\ reply \in Reply \cup {NoReply}
        /\ proof \in Proof \cup {NoProof} /\ answer \in Terminal \cup {"none"}
        /\ result \in HttpResult \cup {"none"} /\ rc \in PamCode \cup {"none"}
    OBVIOUS
  <2>5. QED
    BY <2>1, <2>2, <2>3, <2>4 DEF TypeOK
<1>2. OutcomeInv
  BY DEF OutcomeInv
<1>3. TimeInv
  BY DEF TimeInv, BlankConfig, Unstarted, Preparing, Talking
<1>4. AnswerInv /\ SigintInv /\ EarlyInv /\ SpentInv
  BY DEF AnswerInv, SigintInv, EarlyInv, SpentInv, NothingSpentOnBadConfig,
         Unstarted, Preparing, Talking, Judging
<1>5. QED
  BY <1>1, <1>2, <1>3, <1>4 DEF IInv

\* The invariant holds throughout (auth.c:499-916).
LEMMA Invariance == Spec => []IInv
<1>1. IInv /\ [Next]_vars => IInv'
  BY InvStep
<1>2. QED
  BY InvInit, <1>1, PTL DEF Spec

-----------------------------------------------------------------------------
\* Every variable keeps its type, and every return code is a PAM code
\* (auth.c:288-324, 499-916).
THEOREM TypeCorrect == Spec => []TypeOK
<1>1. IInv => TypeOK
  BY DEF IInv
<1>2. QED
  BY <1>1, Invariance, PTL

\* PAM_SUCCESS only for an approval whose certificate passes all four checks
\* with this attempt's key (auth.c:766-897).
THEOREM SuccessAlwaysEarned == Spec => []SuccessIsEarned
<1>1. IInv => SuccessIsEarned
  BY DEF IInv, OutcomeInv, Ending, Returned, SuccessIsEarned
<1>2. QED
  BY <1>1, Invariance, PTL

\* Such an answer is never turned into a refusal afterwards, by a late Ctrl-C or
\* otherwise (auth.c:899-906).
THEOREM EarnedAlwaysGranted == Spec => []EarnedIsGranted
<1>1. IInv => EarnedIsGranted
  BY DEF IInv, OutcomeInv, Ending, Returned, EarnedIsGranted
<1>2. QED
  BY <1>1, Invariance, PTL

\* PAM_IGNORE only for ssh-only or a Ctrl-C in this attempt (auth.c:589-595,
\* 902-906).
THEOREM IgnoreAlwaysDeliberate == Spec => []IgnoreIsDeliberate
<1>1. IInv => IgnoreIsDeliberate
  BY DEF IInv, OutcomeInv, Ending, Returned, IgnoreIsDeliberate
<1>2. QED
  BY <1>1, Invariance, PTL

\* PAM_AUTH_ERR only for a resolved request or one that ran out of time
\* (auth.c:268-324).
THEOREM DenialAlwaysDecided == Spec => []DenialIsADecision
<1>1. IInv => DenialIsADecision
  BY DEF IInv, OutcomeInv, Ending, Returned, DenialIsADecision
<1>2. QED
  BY <1>1, Invariance, PTL

\* A Ctrl-C before the wait always ends in PAM_IGNORE (auth.c:665-669,
\* httpc.c:575).
THEOREM CtrlCBeforeWaitAlwaysFinal == Spec => []CtrlCBeforeWaitIsFinal
<1>1. IInv => CtrlCBeforeWaitIsFinal
  BY DEF IInv, EarlyInv, Returned, CtrlCBeforeWaitIsFinal
<1>2. QED
  BY <1>1, Invariance, PTL

\* An attempt that comes to the wait after its deadline never succeeds
\* (auth.c:389-405, httpc.c:579-582).
THEOREM LateIsNeverGranted == Spec => []LateIsNotGranted
<1>1. IInv => LateIsNotGranted
  BY DEF IInv, EarlyInv, OutcomeInv, Ending, Returned, LateIsNotGranted
<1>2. QED
  BY <1>1, Invariance, PTL

\* Keys, buffers and handler are gone whenever the host has control
\* (auth.c:899-914).
THEOREM AlwaysCleansUp == Spec => []NothingLeftBehind
<1>1. IInv => NothingLeftBehind
  BY DEF IInv, SpentInv, SigintInv, NothingLeftBehind
<1>2. QED
  BY <1>1, Invariance, PTL

\* No key and no request for a configuration that cannot authenticate
\* (auth.c:518-530, 581-588).
THEOREM BadConfigCostsNothing == Spec => []NothingSpentOnBadConfig
<1>1. IInv => NothingSpentOnBadConfig
  BY DEF IInv, SpentInv, NothingSpentOnBadConfig
<1>2. QED
  BY <1>1, Invariance, PTL

\* An attempt whose prompt does not wait is over within its timeout
\* (auth.c:659-663, 718-729).
THEOREM AlwaysBounded == Spec => []BoundedAttempt
<1>1. IInv => BoundedAttempt
  BY DEF IInv, TimeInv, Returned, BoundedAttempt
<1>2. QED
  BY <1>1, Invariance, PTL
=============================================================================
