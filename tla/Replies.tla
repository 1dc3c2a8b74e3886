------------------------------ MODULE Replies ------------------------------
(***************************************************************************)
(* What ssoossh_authenticate (src/src/auth.c) makes of the two bodies the  *)
(* server answers an attempt with: the reply to the create call, whose     *)
(* links go to the user and to the wait for events, and the envelope of    *)
(* the terminal event, with an error or a certificate.                     *)
(***************************************************************************)
EXTENDS Json, Timestamp

CONSTANTS
  Base,       \* cfg->server, in bytes
  UrlCap,     \* sizeof events_url, approval_url, verification_url, clean_url
  JoinCap,    \* sizeof joined, complete
  CodeCap,    \* sizeof user_code, clean_code
  ExpiresCap, \* sizeof expires_at
  ErrorCap,   \* sizeof server_error
  CertCap     \* sizeof cert_line

ASSUME RepliesAssumption ==
  /\ {UrlCap, JoinCap, CodeCap, ExpiresCap, ErrorCap, CertCap} \subseteq Nat \ {0}
  /\ Base \in Seq(1..255) /\ Base # <<>>

VARIABLES
  response,     \* a->response: the reply, then the envelope
  inConsole,    \* console
  fields,       \* the buffers that are read from it, up to their NUL
  expiry,       \* what expires_at says, or NoInstant
  shown,        \* what the user was shown, or NotShown
  eventsUrl,    \* where the wait connects, <<>> until it does
  replyStatus,  \* "unread", "read", "shown", "joined", or a PAM code
  approved,     \* wait.status is "approved"
  certText,     \* a->cert_line, up to its NUL
  envelopeStatus \* "unread", "certificate", or a PAM code

replyVars == <<inConsole, fields, expiry, shown, eventsUrl, replyStatus>>
envelopeVars == <<approved, certText, envelopeStatus>>

Links == {"events_url", "approval_url", "verification_url", "verification_url_complete"}
Cap == [f \in Links \cup {"user_code"} |-> IF f = "user_code" THEN CodeCap ELSE UrlCap]
ReplyCap ==
  [f \in DOMAIN Cap \cup {"expires_at"} |-> IF f = "expires_at" THEN ExpiresCap ELSE Cap[f]]
NotShown == [url |-> <<>>, code |-> <<>>, qr |-> <<>>]

RepliesInit ==
  /\ response = <<>> /\ inConsole = FALSE
  /\ fields = [f \in DOMAIN Cap |-> <<>>]
  /\ expiry = NoInstant /\ shown = NotShown /\ eventsUrl = <<>>
  /\ replyStatus = "unread"
  /\ approved = FALSE /\ certText = <<>>
  /\ envelopeStatus = "unread"

-----------------------------------------------------------------------------
(* Links and what a terminal may be given.                                 *)

Slash == 47

\* auth.c:327-358: <<>> for a path that is not one, or does not fit.
JoinUrl(cap, rel) ==
  IF ByteAt(rel, 0) = Slash /\ ByteAt(rel, 1) # Slash /\ Len(Base) + Len(rel) < cap
  THEN Base \o rel ELSE <<>>

\* conv.c:13-22.
CodeByte == DigitByte \cup ((65..90) \ {73, 76, 79, 85}) \cup {Hyphen}

\* conv.c:24-38: RFC 3986's characters.
UrlByte ==
  (48..57) \cup (65..90) \cup (97..122)
    \cup {45, 46, 95, 126, 58, 47, 63, 35, 91, 93, 64, 33, 36, 38, 39, 40, 41, 42, 43,
          44, 59, 61, 37}

\* conv.c:91-118: the first of those that are allowed.
Allowed(alphabet, in) == SelectSeq(in, LAMBDA c : c \in alphabet)
Sanitize(alphabet, in, cap) ==
  LET clean == Allowed(alphabet, in) IN
  IF Len(clean) < cap THEN clean ELSE SubSeq(clean, 1, cap - 1)

-----------------------------------------------------------------------------
(* The reply to the create call.                                           *)

\* A string is there, and is not empty.
Readable(read) == read.ok /\ CString(read.out) # <<>>

\* auth.c:685-691: no events URL, nothing else is read.
ReplyUnusable(body, flow) ==
  /\ replyStatus = "unread"
  /\ \E events \in {DataString(body, "events_url", UrlCap)} :
       /\ ~Readable(events)
       /\ fields' = [fields EXCEPT !["events_url"] = CString(events.out)]
  /\ response' = body /\ inConsole' = flow
  /\ replyStatus' = "AUTHINFO_UNAVAIL"
  /\ UNCHANGED <<expiry, shown, eventsUrl, envelopeVars>>

\* auth.c:692-734.  A field that could not be read whole is what could be.
ReadReply(body, flow) ==
  /\ replyStatus = "unread"
  /\ \E read \in {[f \in DOMAIN ReplyCap |-> DataString(body, f, ReplyCap[f])]} :
       /\ Readable(read["events_url"])
       /\ fields' = [f \in DOMAIN Cap |-> CString(read[f].out)]
       /\ expiry' = IF read["expires_at"].ok THEN Instant(CString(read["expires_at"].out))
                    ELSE NoInstant
  /\ response' = body /\ inConsole' = flow
  /\ replyStatus' = "read"
  /\ UNCHANGED <<shown, eventsUrl, envelopeVars>>

\* auth.c:736-758: the first reason there is nothing to show.
NothingToShow ==
  /\ replyStatus = "read"
  /\ IF inConsole THEN fields["user_code"] = <<>> \/ fields["verification_url"] = <<>>
     ELSE JoinUrl(UrlCap, fields["approval_url"]) = <<>>
  /\ replyStatus' = "AUTHINFO_UNAVAIL"
  /\ UNCHANGED <<response, inConsole, fields, expiry, shown, eventsUrl, envelopeVars>>

\* auth.c:411-432, 750-759: the approval URL is joined where it is.
ShowBrowser ==
  LET url == JoinUrl(UrlCap, fields["approval_url"]) IN
  /\ replyStatus = "read" /\ ~inConsole
  /\ url # <<>>
  /\ fields' = [fields EXCEPT !["approval_url"] = url]
  /\ shown' = [NotShown EXCEPT !.url = Sanitize(UrlByte, url, UrlCap)]
  /\ replyStatus' = "shown"
  /\ UNCHANGED <<response, inConsole, expiry, eventsUrl, envelopeVars>>

\* auth.c:440-496, 742: a verification URL that cannot be joined is shown as none.
\* Whether the QR code is drawn depends on the build and on its size.
ShowConsole ==
  /\ replyStatus = "read" /\ inConsole
  /\ fields["user_code"] # <<>> /\ fields["verification_url"] # <<>>
  /\ \E qr \in {<<>>, JoinUrl(JoinCap, fields["verification_url_complete"])} :
       shown' = [url |-> Sanitize(UrlByte, JoinUrl(JoinCap, fields["verification_url"]), UrlCap),
                 code |-> Sanitize(CodeByte, fields["user_code"], CodeCap),
                 qr |-> qr]
  /\ replyStatus' = "shown"
  /\ UNCHANGED <<response, inConsole, fields, expiry, eventsUrl, envelopeVars>>

\* auth.c:762-768.
JoinEvents ==
  LET url == JoinUrl(UrlCap, fields["events_url"]) IN
  /\ replyStatus = "shown"
  /\ eventsUrl' = url
  /\ replyStatus' = IF url = <<>> THEN "AUTHINFO_UNAVAIL" ELSE "joined"
  /\ UNCHANGED <<response, inConsole, fields, expiry, shown, envelopeVars>>

-----------------------------------------------------------------------------
(* The envelope of the terminal event.                                     *)

\* auth.c:784-803: an error that can be read, and is not empty.
HasError(body) == Readable(TopString(body, "error", ErrorCap))

Answered == replyStatus = "joined" /\ envelopeStatus = "unread"
EnvelopeEnds(body, yes, status) ==
  /\ response' = body /\ approved' = yes
  /\ envelopeStatus' = status
  /\ UNCHANGED replyVars

EnvelopeError(body, yes) ==
  /\ Answered /\ HasError(body)
  /\ EnvelopeEnds(body, yes, "AUTHINFO_UNAVAIL")
  /\ UNCHANGED certText

\* auth.c:805-820.
NotApproved(body, yes) ==
  /\ Answered /\ ~HasError(body) /\ ~yes
  /\ EnvelopeEnds(body, yes, "AUTH_ERR")
  /\ UNCHANGED certText

\* auth.c:822-829.
CertificateField(body) == DataString(body, "certificate", CertCap)

NoCertificate(body, yes) ==
  /\ Answered /\ ~HasError(body) /\ yes
  /\ \E c \in {CertificateField(body)} : ~Readable(c) /\ certText' = CString(c.out)
  /\ EnvelopeEnds(body, yes, "AUTH_ERR")

HasCertificate(body, yes) ==
  /\ Answered /\ ~HasError(body) /\ yes
  /\ \E c \in {CertificateField(body)} : Readable(c) /\ certText' = CString(c.out)
  /\ EnvelopeEnds(body, yes, "certificate")

-----------------------------------------------------------------------------
Reply(body, flow) == ReplyUnusable(body, flow) \/ ReadReply(body, flow)
Showing == NothingToShow \/ ShowBrowser \/ ShowConsole \/ JoinEvents
Envelope(body, yes) ==
  \/ EnvelopeError(body, yes) \/ NotApproved(body, yes)
  \/ NoCertificate(body, yes) \/ HasCertificate(body, yes)
-----------------------------------------------------------------------------
(* Properties.  A field says what its first member spells, as far as that  *)
(* is JSON and the C string goes.                                          *)

IsPath(rel) == rel # <<>> /\ rel[1] = Slash /\ (Len(rel) > 1 => rel[2] # Slash)
IsPrefixOf(s, t) == Len(s) <= Len(t) /\ s = SubSeq(t, 1, Len(s))

First == IF inConsole THEN "verification_url" ELSE "approval_url"
ReplyIn(status) == replyStatus \in status /\ envelopeStatus = "unread" /\ IsJson(response)

\* A field that is there and fits; the link a path makes, if it does.
Given(said, cap) == Readable(said) /\ Len(said.out) < cap
Link(cap, rel) == IF IsPath(rel) /\ Len(Base \o rel) < cap THEN Base \o rel ELSE <<>>
LinkOf(cap, said) == Link(cap, CString(said.out))

EndsAsSaid(says) ==
  LET given(f) == Given(says[f], Cap[f]) IN
  IF replyStatus = "joined"
  THEN /\ given("events_url") /\ ~TooManyTokens(response)
       /\ eventsUrl # <<>> /\ eventsUrl = LinkOf(UrlCap, says["events_url"])
  ELSE \/ TooManyTokens(response)
       \/ ~given("events_url") \/ LinkOf(UrlCap, says["events_url"]) = <<>>
       \/ ~given(First)
       \/ IF inConsole THEN ~given("user_code") ELSE LinkOf(UrlCap, says[First]) = <<>>

IsShown(what, full, whole) == IsPrefixOf(what, full) /\ (whole => what = full)
ShownAsSaid(says) ==
  /\ IsShown(shown.url, Allowed(UrlByte, Base \o CString(says[First].out)),
             /\ Given(says[First], UrlCap)
             /\ Len(LinkOf(JoinCap, says[First])) \in 1..UrlCap - 1)
  /\ inConsole => IsShown(shown.code, Allowed(CodeByte, CString(says["user_code"].out)),
                          Given(says["user_code"], CodeCap))

\* Where the wait connects and what the user is shown are the fields of the
\* reply's data, however it is nested, escaped or repeats itself: the events URL
\* whole or the attempt ends; a link or a code whole when it fits and otherwise
\* a beginning of it.  Otherwise the attempt ends only because a field it needs
\* is missing, too long or no path, or because the reply has more tokens than are
\* read of any, "a hard stop" (json.c:25-28), which always ends it
\* (auth.c:327-358, 411-496, 685-768, json.c:92-264).
FieldsAreTheReply ==
  ReplyIn({"joined", "AUTHINFO_UNAVAIL"}) =>
    \E says \in {[f \in {"events_url", First, "user_code"} |-> SaidInData(response, f)]} :
      EndsAsSaid(says) /\ (shown # NotShown => ShownAsSaid(says))

\* The server's own deadline bounds the wait at its instant, to the second and
\* in every zone: one that has "only the shape Go's time.Time marshals to"
\* (json.h:69-71) always does, and nothing that is no time ever does.  Between the
\* two are what the code takes as well, a `t', a `z', a blank, a leap second or the
\* 31st of a shorter month: such a text bounds it at the instant it means, or does
\* not bound it (auth.c:710-735, json.c:354-444).
ExpiryIsItsInstant ==
  ReplyIn({"joined"}) =>
    \E says \in {SaidInData(response, "expires_at")} :
      LET text == CString(says.out) IN
      /\ Given(says, ExpiresCap) /\ IsTimestamp(text) => expiry = InstantOf(text)
      /\ expiry # NoInstant =>
           Given(says, ExpiresCap) /\ IsLegible(text) /\ expiry = InstantOf(text)

\* "Refuses rather than truncating: a truncated URL is a request to the wrong
\* place, or a link that goes somewhere else" (auth.c:331-333); a field is not
\* read "when it does not fit" (json.h:30-31): what the user is shown is all of
\* the link and all of the code, but for bytes no terminal is given.
ShownIsWhole ==
  ReplyIn({"joined"}) =>
    \E url \in {SaidInData(response, First)}, code \in {SaidInData(response, "user_code")} :
        /\ shown.url # <<>> => url.ok /\ shown.url = Allowed(UrlByte, Base \o url.out)
        /\ shown.code # <<>> => code.ok /\ shown.code = Allowed(CodeByte, code.out)

\* "An envelope carrying an error means the server resolved the request as a
\* failure" (auth.c:784-785): none brings a certificate.
ErrorIsRefusal ==
  envelopeStatus = "certificate" /\ IsJson(response) =>
    Said(response, 1, "error").out = <<>>

\* A reply is used whole or not at all.
RepliesAreWhole == ShownIsWhole /\ ErrorIsRefusal
=============================================================================
