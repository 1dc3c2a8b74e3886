---------------------------- MODULE Certificate ----------------------------
(***************************************************************************)
(* ssoossh_cert_parse_line and ssoossh_cert_parse (src/src/sshcert.c) over *)
(* the reader of src/src/sshwire.c: the certificate the server issued,     *)
(* one field per step.                                                     *)
(*                                                                         *)
(* A blob is a sequence of cells of four bytes: a uint32 is one cell, a    *)
(* uint64 two, a string one for its length, which counts cells, and then   *)
(* its text.  Text is numbers too, as the bytes of a name are when a       *)
(* length has led the reader into the middle of one.                       *)
(***************************************************************************)
EXTENDS Integers, Sequences

CONSTANTS
  CertAlgo,          \* names ending in CERT_SUFFIX, to [base, fields]
  NameCap,           \* sizeof algo, signature_algo
  KeyCap,            \* SSOOSSH_MAX_KEY_BLOB
  MaxCert,           \* SSOOSSH_MAX_CERT
  MaxCertPrincipals  \* SSOOSSH_MAX_PRINCIPALS

ASSUME CertificateAssumption ==
  /\ {NameCap, KeyCap, MaxCert, MaxCertPrincipals} \subseteq Nat
  /\ \A a \in DOMAIN CertAlgo :
       /\ CertAlgo[a] \in [base : Seq(Nat), fields : 0..2]
       /\ CertAlgo[a].fields > 0 => Len(a) \in 1..NameCap - 1

VARIABLES
  lineType,    \* the type the line starts with
  blob,        \* its base64, decoded
  rd,          \* the reader over it
  inner,       \* the reader over the principals, then over the signature
  field,       \* the field to be read next
  cert,        \* *out, slices as [from, to] of blob
  certStatus   \* what ssoossh_cert_parse returned; "unread", "reading" before

certVars == <<lineType, blob, rd, inner, field, cert, certStatus>>

CertStatus == {"OK", "MALFORMED", "UNSUPPORTED", "NOT_USER"}
User == 1

-----------------------------------------------------------------------------
(* sshwire.c: nothing is read without Have, and what fails once stays bad. *)

\* sshwire.c:5-11.
Reader(slice) == [at |-> slice.from, end |-> slice.to, bad |-> FALSE]

\* sshwire.c:17-20.
Have(r, n) == ~r.bad /\ r.end - r.at >= n

Bad(r) == [r EXCEPT !.bad = TRUE]

\* sshwire.c:31-43: 0 when there is nothing to read.
U32(r) == IF Have(r, 1) THEN blob[r.at + 1] ELSE 0
After32(r) == IF Have(r, 1) THEN [r EXCEPT !.at = @ + 1] ELSE Bad(r)

\* sshwire.c:45-51.
AfterU64(r) == After32(After32(r))
U64(r) == <<U32(r), U32(After32(r))>>

\* sshwire.c:53-69 and 84-87: it fails exactly when it leaves the reader bad.
AfterStr(r) ==
  LET s == After32(r)
  IN  IF Have(s, U32(r)) THEN [s EXCEPT !.at = @ + U32(r)] ELSE Bad(s)
Str(r) == [from |-> r.at + 1, to |-> r.at + 1 + U32(r)]
Text(s) == SubSeq(blob, s.from + 1, s.to)

\* sshwire.c:71-82.
IsCstr(r) == ~AfterStr(r).bad /\ U32(r) > 0 /\ U32(r) < NameCap

\* sshwire.c:104-107.
Done(r) == ~r.bad /\ r.at = r.end

All == [from |-> 0, to |-> Len(blob)]
None == [from |-> 0, to |-> 0]

-----------------------------------------------------------------------------
\* sshcert.c:86, memset.
Blank ==
  [algo |-> <<>>, keyBlob |-> <<>>, serial |-> <<0, 0>>, class |-> 0, keyId |-> None,
   principals |-> <<>>, after |-> <<0, 0>>, before |-> <<0, 0>>,
   signatureKey |-> None, signedLen |-> 0, signatureAlgo |-> <<>>, signature |-> None]

CertInit ==
  /\ lineType = <<>> /\ blob = <<>>
  /\ rd = Reader(None) /\ inner = Reader(None) /\ field = "algo"
  /\ cert = Blank /\ certStatus = "unread"

\* sshkey.c:174-186, sshcert.c:204-220 and 86-93.  The type the line starts with
\* has to be the one the blob starts with.
OpenCert(line) ==
  /\ certStatus = "unread"
  /\ lineType' = line.type /\ blob' = line.blob /\ rd' = Reader(All')
  /\ certStatus' =
       IF IsCstr(rd)' /\ Text(Str(rd))' = line.type /\ Len(line.blob) <= MaxCert
         THEN "reading" ELSE "MALFORMED"
  /\ UNCHANGED <<inner, field, cert>>

At(f) == certStatus = "reading" /\ field = f

GoTo(f) == field' = f /\ UNCHANGED <<lineType, blob, certStatus>>

Refuse(status) ==
  certStatus' = status /\ UNCHANGED <<lineType, blob, rd, inner, field, cert>>

\* sshcert.c:13-28 and 30-45.
IsCertName(name) == name \in DOMAIN CertAlgo
KeyFields(name) == CertAlgo[name].fields

\* sshcert.c:95-105.
ReadAlgo ==
  /\ At("algo")
  /\ LET name == Text(Str(rd)) IN
     CASE ~IsCstr(rd) \/ ~IsCertName(name) -> Refuse("MALFORMED")
       [] IsCstr(rd) /\ IsCertName(name) /\ KeyFields(name) = 0 -> Refuse("UNSUPPORTED")
       [] OTHER -> /\ cert' = [cert EXCEPT !.algo = name]
                   /\ rd' = AfterStr(rd)
                   /\ GoTo("nonce") /\ UNCHANGED inner

\* n strings that are passed over.
Jump(r) == [r EXCEPT !.at = @ + 1 + U32(r)]
AfterStrs_Jumped(r, n) ==
  CASE n = 1 -> Jump(r) [] n = 2 -> Jump(Jump(r)) [] n = 3 -> Jump(Jump(Jump(r)))
AfterStrs(r, n) ==
  CASE n = 1 -> AfterStr(r)
    [] n = 2 -> AfterStr(AfterStr(r))
    [] n = 3 -> AfterStr(AfterStr(AfterStr(r)))

Skip(f, n, next) ==
  /\ At(f)
  /\ IF AfterStrs(rd, n).bad THEN Refuse("MALFORMED")
     ELSE rd' = AfterStrs(rd, n) /\ GoTo(next) /\ UNCHANGED <<inner, cert>>

\* sshcert.c:107-112.
SkipNonce == Skip("nonce", 1, "key")

\* sshcert.c:114-132: the key fields as they are, after the base name.
Prefixed(base, from, to) == <<Len(base)>> \o base \o SubSeq(blob, from + 1, to)

ReadKey ==
  /\ At("key")
  /\ LET after == AfterStrs(rd, KeyFields(cert.algo))
         key == Prefixed(CertAlgo[cert.algo].base, rd.at, after.at)
     IN  IF after.bad \/ Len(key) > KeyCap THEN Refuse("MALFORMED")
         ELSE /\ cert' = [cert EXCEPT !.keyBlob = key]
              /\ rd' = after
              /\ GoTo("class") /\ UNCHANGED inner

\* sshcert.c:134-146.  The reader is not asked whether it is still good: past
\* the end the class is 0.
ReadClass ==
  /\ At("class")
  /\ LET r == AfterU64(rd) IN
     IF U32(r) # User THEN Refuse("NOT_USER")
     ELSE /\ cert' = [cert EXCEPT !.serial = U64(rd), !.class = U32(r)]
          /\ rd' = After32(r)
          /\ GoTo("key id") /\ UNCHANGED inner

\* sshcert.c:148-150.
ReadKeyId ==
  /\ At("key id")
  /\ IF AfterStr(rd).bad THEN Refuse("MALFORMED")
     ELSE /\ cert' = [cert EXCEPT !.keyId = Str(rd)]
          /\ rd' = AfterStr(rd)
          /\ GoTo("principals") /\ UNCHANGED inner

\* sshcert.c:151-153 and 50-55.
ReadPrincipals ==
  /\ At("principals")
  /\ IF AfterStr(rd).bad THEN Refuse("MALFORMED")
     ELSE /\ inner' = Reader(Str(rd))
          /\ rd' = AfterStr(rd)
          /\ GoTo("name") /\ UNCHANGED cert

\* sshcert.c:56-71: too many are refused, not dropped.
TooMany == Len(cert.principals) >= MaxCertPrincipals

ReadName ==
  /\ At("name") /\ ~Done(inner)
  /\ IF AfterStr(inner).bad \/ TooMany THEN Refuse("MALFORMED")
     ELSE /\ cert' = [cert EXCEPT !.principals = Append(@, Str(inner))]
          /\ inner' = AfterStr(inner)
          /\ GoTo("name") /\ UNCHANGED rd

\* sshcert.c:56 and 71-73.
NamesRead ==
  /\ At("name") /\ Done(inner)
  /\ GoTo("validity") /\ UNCHANGED <<rd, inner, cert>>

\* sshcert.c:155-156: not asked either.
ReadValidity ==
  /\ At("validity")
  /\ cert' = [cert EXCEPT !.after = U64(rd), !.before = U64(AfterU64(rd))]
  /\ rd' = AfterU64(AfterU64(rd))
  /\ GoTo("options") /\ UNCHANGED inner

\* sshcert.c:158-165: options, extensions, reserved.
SkipOptions == Skip("options", 3, "signature key")

\* sshcert.c:167-174: what stands before the signature is what was signed.
SignedTo_Key(r) == r.at
SignedTo(r) == AfterStr(r).at

ReadSignatureKey ==
  /\ At("signature key")
  /\ IF AfterStr(rd).bad THEN Refuse("MALFORMED")
     ELSE /\ cert' = [cert EXCEPT !.signatureKey = Str(rd), !.signedLen = SignedTo(rd)]
          /\ rd' = AfterStr(rd)
          /\ GoTo("signature") /\ UNCHANGED inner

\* sshcert.c:176-183: nothing may follow.
ReadSignature ==
  /\ At("signature")
  /\ IF AfterStr(rd).bad \/ ~Done(AfterStr(rd)) THEN Refuse("MALFORMED")
     ELSE /\ inner' = Reader(Str(rd))
          /\ rd' = AfterStr(rd)
          /\ GoTo("signature fields") /\ UNCHANGED cert

\* sshcert.c:185-201.
ReadSignatureFields ==
  /\ At("signature fields")
  /\ LET r == AfterStr(inner) IN
     IF ~IsCstr(inner) \/ AfterStr(r).bad \/ ~Done(AfterStr(r)) THEN Refuse("MALFORMED")
     ELSE /\ cert' = [cert EXCEPT !.signatureAlgo = Text(Str(inner)),
                                  !.signature = Str(r)]
          /\ inner' = AfterStr(r)
          /\ certStatus' = "OK"
          /\ UNCHANGED <<lineType, blob, rd, field>>

CertNext ==
  \/ ReadAlgo \/ SkipNonce \/ ReadKey \/ ReadClass \/ ReadKeyId \/ ReadPrincipals
  \/ ReadName \/ NamesRead \/ ReadValidity \/ SkipOptions \/ ReadSignatureKey
  \/ ReadSignature \/ ReadSignatureFields

-----------------------------------------------------------------------------
(* The format, read as a whole: where each field of a blob b ends.         *)

\* Where the string at p ends, past `to' if it does not end before.
StrEnd(b, p, to) ==
  IF p < to /\ p + 1 + b[p + 1] <= to THEN p + 1 + b[p + 1] ELSE to + 1
NumEnd(p, to) == IF p < to THEN p + 1 ELSE to + 1

\* PROTOCOL.certkeys, with n fields for the key: strings but for the serial,
\* the class and the two ends of the validity.
Numbers(n) == (n + 3)..(n + 5) \cup (n + 8)..(n + 11)
Ends(b, n) ==
  LET end[k \in 0..(n + 16)] ==
        IF k = 0 THEN 0
        ELSE IF k \in Numbers(n) THEN NumEnd(end[k - 1], Len(b))
        ELSE StrEnd(b, end[k - 1], Len(b))
  IN  end

\* Where the first k strings of a slice end.
NameEnds(b, s) ==
  LET end[k \in 0..(s.to - s.from)] ==
        IF k = 0 THEN s.from ELSE StrEnd(b, end[k - 1], s.to)
  IN  end
ComesOutAfter(b, s, k) == k \in DOMAIN NameEnds(b, s) /\ NameEnds(b, s)[k] = s.to

\* Field k of a text with these ends, without a string's length.
FieldOf(end, k) == [from |-> end[k - 1] + 1, to |-> end[k]]

FirstName(b) == IF b # <<>> /\ StrEnd(b, 0, Len(b)) <= Len(b)
                  THEN SubSeq(b, 2, b[1] + 1) ELSE <<>>
Fields(b) == KeyFields(FirstName(b))
KeyOf(b) == SubSeq(b, Ends(b, Fields(b))[2] + 1, Ends(b, Fields(b))[Fields(b) + 2])
BaseName(b) == CertAlgo[FirstName(b)].base
NamesOf(b) == FieldOf(Ends(b, Fields(b)), Fields(b) + 7)
SignatureOf(b) == FieldOf(Ends(b, Fields(b)), Fields(b) + 16)

\* A blob this build handles the algorithm of and whose fields come out even,
\* nothing over a limit; the class it is of; and whether its principals and its
\* signature come out even themselves.
Handled(b) == IsCertName(FirstName(b)) /\ Fields(b) > 0
IsWhole(b) ==
  /\ Handled(b)
  /\ Ends(b, Fields(b))[Fields(b) + 16] = Len(b)
  /\ Len(b) <= MaxCert /\ 1 + Len(BaseName(b)) + Len(KeyOf(b)) <= KeyCap
IsUser(b) == b[Ends(b, Fields(b))[Fields(b) + 5]] = User
SaysUser(b) == Ends(b, Fields(b))[Fields(b) + 5] <= Len(b) /\ IsUser(b)
EvenInside(b) ==
  /\ \E k \in 0..MaxCertPrincipals : ComesOutAfter(b, NamesOf(b), k)
  /\ LET sig == SignatureOf(b) IN
     ComesOutAfter(b, sig, 2) /\ NameEnds(b, sig)[1] - sig.from \in 2..NameCap

\* What is accepted has been taken apart as the format says, the key check 2
\* compares and the part check 1 verifies to the byte.
TakenApart(b) ==
  LET n == Fields(b)
      end == Ends(b, n)
  IN  /\ cert.keyBlob = <<Len(BaseName(b))>> \o BaseName(b) \o KeyOf(b)
      /\ cert.keyId = FieldOf(end, n + 6)
      /\ ComesOutAfter(b, NamesOf(b), Len(cert.principals))
      /\ \A i \in DOMAIN cert.principals :
           cert.principals[i] = FieldOf(NameEnds(b, NamesOf(b)), i)
      /\ cert.after = SubSeq(b, end[n + 7] + 1, end[n + 9])
      /\ cert.before = SubSeq(b, end[n + 9] + 1, end[n + 11])
      /\ cert.signatureKey = FieldOf(end, n + 15)
      /\ cert.signedLen = end[n + 15]
      /\ cert.signature = FieldOf(NameEnds(b, SignatureOf(b)), 2)

\* A certificate is accepted if and only if it is one: the fields of the format
\* and nothing after them, of class user, principals and signature that come
\* out even themselves, nothing over a limit; it is taken apart to the byte; and
\* one that is sound but for its class is refused for its class, which no
\* certificate of class user is (sshcert.c:75-202, sshkey.c:178-185).  A truncated
\* blob is to be MALFORMED and NOT_USER "a well-formed certificate that is not a
\* user certificate" (sshcert.h:84-94), but the code looks at the class as soon as
\* it is there or should be: what is broken after a class that is not user, or cut
\* before any, may be refused as either.
AcceptsCertificates ==
  certStatus \in CertStatus =>
    LET sound == lineType = FirstName(blob) /\ IsWhole(blob) /\ EvenInside(blob) IN
    /\ certStatus = "OK" <=> sound /\ IsUser(blob)
    /\ sound /\ ~IsUser(blob) => certStatus = "NOT_USER"
    /\ certStatus = "NOT_USER" =>
         lineType = FirstName(blob) /\ Handled(blob) /\ ~SaysUser(blob)
    /\ certStatus = "OK" => TakenApart(blob)

\* Whatever the lengths in a blob say, no reader stands outside what it was
\* given and no slice that was taken reaches out of the blob (sshwire.c:13-70).
ReadsInside ==
  /\ rd.at \in 0..rd.end /\ rd.end \in 0..Len(blob)
  /\ inner.at \in 0..inner.end /\ inner.end \in 0..Len(blob)
  /\ \A s \in {cert.keyId, cert.signatureKey, cert.signature} :
       s.from <= s.to /\ s.to <= Len(blob)
  /\ \A i \in DOMAIN cert.principals :
       cert.principals[i].from <= cert.principals[i].to /\ cert.principals[i].to <= Len(blob)
  /\ cert.signedLen <= Len(blob)
=============================================================================
