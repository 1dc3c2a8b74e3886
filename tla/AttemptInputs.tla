--------------------------- MODULE AttemptInputs ---------------------------
(***************************************************************************)
(* What others have written and an attempt reads, in the order it does:    *)
(* the pam.d line (pam_ssoossh.c:54), the file of trusted keys that names  *)
(* (auth.c:562), what the host says of itself, for the request             *)
(* (auth.c:650), the server's reply to that (auth.c:685), the envelope of  *)
(* its terminal event (auth.c:786), the certificate line in that           *)
(* (auth.c:832), its signature (checks.c:65), and the map of principals    *)
(* (checks.c:171).  What happens in between is in Authenticate.            *)
(***************************************************************************)
EXTENDS Arguments, CaFile, Request, Replies, Certificate, Verify, PrincipalsMap

CONSTANTS
  PamLines,    \* what may stand in pam.d: sequences of arguments
  CaFiles,     \* what trusted-ca-file may hold
  Sources,     \* what a request is made of, see Request
  Bodies,      \* what the server may reply to the create call
  Envelopes,   \* what it may send with a terminal event
  IssuedLines, \* the certificate line that may be in there
  Signatures,  \* what may have to be verified: [algo, key, sig, host]
  MapFiles,    \* what principals-map may hold
  Plain        \* ordinary ones: [argv, ca, source, body, envelope, text, line,
               \* signed, map]

\* What the code reads to its end, whatever is in it.
Sequence(s) == s \in Seq(Range(s))
Files == CaFiles \cup MapFiles \cup {Plain.ca, Plain.map}

ASSUME AttemptInputsAssumption ==
  /\ \A p \in PamLines \cup {Plain.argv} :
       Sequence(p) /\ \A i \in DOMAIN p : Sequence(p[i].value)
  /\ \A f \in Files : Sequence(f.lines) /\ f.read \in {"fails", "too large", "whole"}
  /\ \A f \in MapFiles \cup {Plain.map} : \A i \in DOMAIN f.lines :
       LET l == f.lines[i] IN
       /\ l.kind \in Kinds /\ l.indent \in Indents
       /\ l.kind = "account" /\ l.value \notin Special => Sequence(l.value)
  /\ \A l \in IssuedLines \cup {Plain.line} : l.blob \in Seq(Nat)
  /\ \A s \in Signatures \cup {Plain.signed} : IsSigned(s)

VARIABLE odd  \* which of these is anything; the others are ordinary

vars == <<argVars, caVars, requestVars, response, replyVars, envelopeVars, certVars, verifyVars,
          mapVars, odd>>

Unreadable == [read |-> "fails", lines |-> <<>>]
NotALine == [type |-> <<>>, blob |-> <<>>]

\* They meet only in the paths, in the flow and in the order they are read.
Inputs == {"arguments", "CAs", "request", "reply", "envelope", "line", "signature", "map"}
May(input, all, usual) == IF odd = input THEN all ELSE {usual}

Init ==
  /\ ArgumentsInit /\ CaInit /\ RequestInit /\ RepliesInit /\ CertInit /\ VerifyInit /\ MapInit
  /\ caFile = Unreadable /\ mapFile = Unreadable
  /\ odd \in Inputs
  /\ argv \in May("arguments", PamLines, Plain.argv)

Arguing ==
  /\ ArgumentsNext
  /\ UNCHANGED <<caVars, requestVars, response, replyVars, envelopeVars, certVars, verifyVars,
                 mapVars, odd>>

\* fopen: only the ordinary paths lead anywhere.
FileAt(path, where, file) == IF path = where THEN file ELSE Unreadable

\* auth.c:562, after the settings an attempt cannot do without.
LoadCas ==
  /\ argStatus = "OK" /\ caStatus = "unread"
  /\ cfg["server"] # <<>> /\ cfg["trusted-ca-file"] # <<>>
  /\ \E f \in May("CAs", CaFiles, Plain.ca) :
       OpenCaFile(FileAt(cfg["trusted-ca-file"], <<"ca">>, f))
  /\ UNCHANGED <<argVars, requestVars, response, replyVars, envelopeVars, certVars, verifyVars,
                 mapVars, odd>>

LoadingCas ==
  /\ CaNext
  /\ UNCHANGED <<argVars, requestVars, response, replyVars, envelopeVars, certVars, verifyVars,
                 mapVars, odd>>

\* auth.c:599-615: the flow, by the argument or by the session.
Console(onTty) ==
  \/ cfg["mode"] = <<"console">>
  \/ cfg["mode"] = <<"auto">> /\ ConsoleBuilt /\ onTty

\* auth.c:650-654; that it is too large ends the attempt.
BuildingBody ==
  /\ caStatus = "OK" /\ requestStatus = "unread"
  /\ \E s \in May("request", Sources, Plain.source) : BuildBody(s, cfg["mode"][1], caKeys)
  /\ UNCHANGED <<argVars, caVars, response, replyVars, envelopeVars, certVars, verifyVars,
                 mapVars, odd>>

\* auth.c:685, the reply to what was sent.
ReadingReply ==
  /\ requestStatus = "built" /\ replyStatus = "unread"
  /\ \E b \in May("reply", Bodies, Plain.body), onTty \in May("reply", BOOLEAN, FALSE) :
       Reply(b, Console(onTty))
  /\ requestStatus' = "sent"
  /\ UNCHANGED <<argVars, caVars, source, requestBody, certVars, verifyVars, mapVars, odd>>

ShowingLinks == Showing /\ UNCHANGED <<argVars, caVars, requestVars, certVars, verifyVars, mapVars,
                                       odd>>

\* auth.c:786, when the wait has ended with an answer.
ReadingEnvelope ==
  /\ Answered
  /\ \E e \in May("envelope", Envelopes, Plain.envelope),
        yes \in May("envelope", BOOLEAN, TRUE) : Envelope(e, yes)
  /\ UNCHANGED <<argVars, caVars, requestVars, certVars, verifyVars, mapVars, odd>>

\* auth.c:832: the certificate's text stands for the line.
ParseCert ==
  /\ envelopeStatus = "certificate" /\ certStatus = "unread"
  /\ \E l \in May("line", IssuedLines, Plain.line) :
       OpenCert(IF certText = Plain.text THEN l ELSE NotALine)
  /\ UNCHANGED <<argVars, caVars, requestVars, response, replyVars, envelopeVars, verifyVars,
                 mapVars, odd>>

ParsingCert ==
  /\ CertNext
  /\ UNCHANGED <<argVars, caVars, requestVars, response, replyVars, envelopeVars, verifyVars,
                 mapVars, odd>>

\* checks.c:64-65, for one trusted key: what the certificate's slices hold.
Verifying ==
  /\ certStatus = "OK" /\ verdict = "unread"
  /\ \E s \in May("signature", Signatures, Plain.signed) : VerifySignature(s)
  /\ UNCHANGED <<argVars, caVars, requestVars, response, replyVars, envelopeVars, certVars,
                 mapVars, odd>>

\* checks.c:171, when the account's own name is not among the principals.
LoadMap ==
  /\ verdict = "OK" /\ mapStatus = "unread"
  /\ cfg["principals-map"] # <<>>
  /\ \E f \in May("map", MapFiles, Plain.map) :
       OpenMap(FileAt(cfg["principals-map"], <<"map">>, f))
  /\ UNCHANGED <<argVars, caVars, requestVars, response, replyVars, envelopeVars, certVars,
                 verifyVars, odd>>

LoadingMap ==
  /\ MapNext
  /\ UNCHANGED <<argVars, caVars, requestVars, response, replyVars, envelopeVars, certVars,
                 verifyVars, odd>>

Next ==
  \/ Arguing \/ LoadCas \/ LoadingCas \/ BuildingBody
  \/ ReadingReply \/ ShowingLinks \/ ReadingEnvelope
  \/ ParseCert \/ ParsingCert \/ Verifying \/ LoadMap \/ LoadingMap

Spec == Init /\ [][Next]_vars

-----------------------------------------------------------------------------
\* The server reads in the request what the host says: every claim byte for
\* byte, whatever is in it, none of those that are empty, the trusted keys in
\* force in their order and the host's addresses (auth.c:157-265,
\* json.c:266-352, hostinfo.c, localaddrs.c).
RequestSaysIt == requestStatus = "built" => ReadsBack(cfg["mode"][1], caKeys)
=============================================================================
