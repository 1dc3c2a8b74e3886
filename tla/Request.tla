------------------------------ MODULE Request ------------------------------
(***************************************************************************)
(* build_body (src/src/auth.c:203-265), the body of the create call: the   *)
(* key and the account, what the host says of itself (src/src/hostinfo.c,  *)
(* on Linux), the trusted keys and the host's addresses (localaddrs.c),    *)
(* through the JSON writer (json.c:266-352).                               *)
(*                                                                         *)
(* Texts are sequences of bytes and the body is one of cells, as Json      *)
(* reads it.  A source is                                                  *)
(* [text, number, cmdline, idFile, pretty, sysname, release, interfaces]:  *)
(* the strings and numbers by their field's name, and what the host's      *)
(* calls and files give.                                                   *)
(***************************************************************************)
EXTENDS Json, SequencesExt

CONSTANTS
  BodyCap,     \* sizeof a->body
  HostCap,     \* SSOOSSH_HOSTINFO_CAP
  MaxAddrs,    \* SSOOSSH_MAX_LOCAL_ADDRS
  MaxNamed,    \* how many trusted keys are named: eight
  Fingerprint  \* a trusted key's fingerprint: a function

ASSUME RequestAssumption == {BodyCap, HostCap, MaxAddrs, MaxNamed} \subseteq Nat \ {0}

VARIABLES
  source,        \* what the request is made of
  requestBody,   \* a->body
  requestStatus  \* "unread", "built", or "too large": build_body's false

requestVars == <<source, requestBody, requestStatus>>

NoSource == [text |-> <<>>]
RequestInit == source = NoSource /\ requestBody = <<>> /\ requestStatus = "unread"

-----------------------------------------------------------------------------
(* hostinfo.c and localaddrs.c.                                            *)

\* hostinfo.c:17-25.
Blanks == {9, 10, 13, 32}
TrimEnd(s) == SubSeq(s, 1, Max({0} \cup {i \in DOMAIN s : s[i] \notin Blanks}))

\* hostinfo.c:27-41: as much of it as fits.
Capped(cap, s) == SubSeq(s, 1, Min({cap, Len(s)}))

\* hostinfo.c:44-60; fgets takes a line or a buffer's worth of it.
FirstLine(file) ==
  LET ends == {i \in DOMAIN file : file[i] = 10} IN
  TrimEnd(Capped(HostCap, SubSeq(file, 1, Min({Len(file)} \cup ends))))

\* hostinfo.c:89-98: the value in its quotes, if it has both.
Unquoted(value) ==
  LET v == TrimEnd(value) IN
  IF Len(v) >= 2 /\ v[1] \in {34, 39} /\ v[Len(v)] = v[1] THEN SubSeq(v, 2, Len(v) - 1) ELSE v

\* hostinfo.c:104-124.
OsText(s) ==
  LET name == Capped(HostCap, Unquoted(s.pretty))
      before == IF name = <<>> THEN <<>> ELSE name \o <<32>>
  IN  TrimEnd(Capped(HostCap, before \o s.sysname \o <<32>> \o s.release))

\* hostinfo.c:150-180: the arguments in a line, each NUL a blank.
ProcessText(s) ==
  LET line == Capped(HostCap, s.cmdline) IN
  TrimEnd([i \in DOMAIN line |-> IF line[i] = Nul THEN 32 ELSE line[i]])

\* localaddrs.c:22-66: what is up and means something elsewhere.
IsWide(i) == i.up /\ ~i.loopback /\ i.family \in {"inet", "inet6"} /\ i.scope = "wide"

\* localaddrs.c:13-86: each address once, in the interfaces' order.
LocalAddresses(interfaces) ==
  LET out[k \in 0..Len(interfaces)] ==
        IF k = 0 THEN <<>>
        ELSE LET before == out[k - 1]  i == interfaces[k] IN
             IF /\ Len(before) < MaxAddrs
                /\ IsWide(i) /\ \A n \in DOMAIN before : before[n] # i.text
             THEN Append(before, i.text) ELSE before
  IN  out[Len(interfaces)]

-----------------------------------------------------------------------------
(* json.c's writer and build_body.                                         *)

HexDigit(n) == IF n < 10 THEN 48 + n ELSE 87 + n

\* json.c:300-333.
EscapedByte_QuoteOnly(c) == IF c = 34 THEN <<Backslash, c>> ELSE <<c>>
EscapedByte(c) ==
  CASE c \in {34, Backslash} -> <<Backslash, c>>
    [] c = 10 -> <<Backslash, 110>>
    [] c = 13 -> <<Backslash, 114>>
    [] c = 9 -> <<Backslash, 116>>
    [] c < 32 /\ c \notin {9, 10, 13} ->
         <<Backslash, LowerU, 48, 48, HexDigit(c \div 16), HexDigit(c % 16)>>
    [] OTHER -> <<c>>

Mark(kind) == <<[kind |-> kind, text |-> <<>>]>>
Literal(text) ==
  <<[kind |-> "string", text |-> FlattenSeq([i \in DOMAIN text |-> EscapedByte(text[i])])]>>
FieldName(f) == <<[kind |-> "string", text |-> Spelled[f]]>> \o Mark(":")
Literals(texts) ==
  Mark("[")
    \o FlattenSeq([i \in DOMAIN texts |-> (IF i > 1 THEN Mark(",") ELSE <<>>) \o Literal(texts[i])])
    \o Mark("]")

\* auth.c:218-237, in the order of the server's struct.
Optional == <<"hostname", "pam_service", "tty", "remote_host", "requesting_user", "process">>
Numbered == <<"caller_uid", "caller_pid", "caller_ppid">>
Client == <<"machine_id", "os", "client", "mode", "client_time">>

\* auth.c:157-168 for the mode, which the arguments gave.
Claim(s, mode, f) ==
  CASE f = "process" -> ProcessText(s)
    [] f = "machine_id" -> FirstLine(s.idFile)
    [] f = "os" -> OsText(s)
    [] f = "mode" -> Spelled[mode]
    [] OTHER -> s.text[f]

\* auth.c:170-190: nothing at all for an empty string; a number always.
AppendOpt(name, text) == IF text = <<>> THEN <<>> ELSE Mark(",") \o FieldName(name) \o Literal(text)
AppendInt(name, digits) ==
  Mark(",") \o FieldName(name) \o <<[kind |-> "primitive", text |-> digits]>>
Claims(s, mode, names) ==
  FlattenSeq([i \in DOMAIN names |-> AppendOpt(names[i], Claim(s, mode, names[i]))])

\* auth.c:239-252, 254-264.
Fingerprints(keys) == [i \in 1..Min({Len(keys), MaxNamed}) |-> Fingerprint[keys[i]]]
Addresses(list) ==
  IF list = <<>> THEN <<>> ELSE FieldName("source_addresses") \o Literals(list)

BodyFor(s, mode, keys) ==
  Mark("{")
    \o FieldName("public_key") \o Literal(s.text["public_key"])
    \o Mark(",") \o FieldName("username") \o Literal(s.text["username"])
    \o Claims(s, mode, Optional)
    \o FlattenSeq([i \in DOMAIN Numbered |-> AppendInt(Numbered[i], s.number[Numbered[i]])])
    \o Claims(s, mode, Client)
    \o Mark(",") \o FieldName("trusted_ca_fingerprints") \o Literals(Fingerprints(keys))
    \o Mark(",") \o FieldName("requested_options")
    \o Mark("{") \o Addresses(LocalAddresses(s.interfaces)) \o Mark("}")
    \o Mark("}")

\* What a cell takes: a string its quotes.
Size(cell) ==
  CASE cell.kind = "string" -> Len(cell.text) + 2
    [] cell.kind = "primitive" -> Len(cell.text)
    [] OTHER -> 1

\* json.c:279-290, 292-352: once a piece has not fitted with its NUL, none does.
WhatFits(cells) ==
  IF MapThenSumSet(LAMBDA i : Size(cells[i]), DOMAIN cells) < BodyCap THEN cells ELSE <<>>

BuildBody(s, mode, keys) ==
  /\ requestStatus = "unread"
  /\ source' = s
  /\ requestBody' = WhatFits(BodyFor(s, mode, keys))
  /\ requestStatus' = IF requestBody' = <<>> THEN "too large" ELSE "built"

-----------------------------------------------------------------------------
(* The same from the body, as any reader of JSON takes it.                 *)

\* The strings of the array that begins there.
ArrayAt(body, at) ==
  LET within == Brackets(body)
      cells == {i \in DOMAIN body : within[i] = at /\ body[i].kind = "string"}
  IN  [n \in 1..Cardinality(cells) |->
         Decoded(body[CHOOSE i \in cells : Cardinality({j \in cells : j <= i}) = n].text).out]

\* Every address that says where this host is, once, the first ones if there
\* are too many.
IsAddressList(list, interfaces) ==
  LET wide == {i \in DOMAIN interfaces : IsWide(interfaces[i])}
      texts == {interfaces[i].text : i \in wide}
      first(t) == Min({i \in wide : interfaces[i].text = t})
  IN  /\ Len(list) = Min({MaxAddrs, Cardinality(texts)})
      /\ \A n \in DOMAIN list : list[n] \in texts
      /\ \A n \in 2..Len(list) : first(list[n - 1]) < first(list[n])
      /\ \A t \in texts : Len(list) = MaxAddrs \/ \E n \in DOMAIN list : list[n] = t

\* What the server is to read: every claim, the keys that are trusted, where the
\* host is (auth.c:203-265).
ReadsBack(mode, keys) ==
  LET body == requestBody
      options == Member(body, 1, "requested_options")
      list == Member(body, options, "source_addresses")
      named == Member(body, 1, "trusted_ca_fingerprints")
  IN  /\ IsJson(body)
      /\ \A f \in Range(Optional \o Client) :
           LET said == Claim(source, mode, f) IN
           Said(body, 1, f) = IF said = <<>> THEN Nothing ELSE [ok |-> TRUE, out |-> said]
      /\ \A f \in {"public_key", "username"} : Said(body, 1, f).out = source.text[f]
      /\ ArrayAt(body, named) = Fingerprints(keys)
      /\ IsAddressList(IF list = 0 THEN <<>> ELSE ArrayAt(body, list), source.interfaces)
=============================================================================
