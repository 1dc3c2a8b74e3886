-------------------------- MODULE MCAttemptInputs --------------------------
(* Values of AttemptInputs' constants that a configuration cannot spell.   *)
EXTENDS AttemptInputs

Whole(lines) == [read |-> "whole", lines |-> lines]
TooLarge == [read |-> "too large", lines |-> <<>>]

UpTo(n, S) == UNION {[1..k -> S] : k \in 0..n}

-----------------------------------------------------------------------------
(* pam.d lines.  A value of six pieces is too long; a server of three is,  *)
(* if it has no scheme.                                                    *)

Arg(k, v) == [key |-> k, value |-> v]

Args ==
  {Arg("server", <<>>), Arg("server", <<" ", "sso", "/", " ">>),
   Arg("server", <<"sso", "/", "x">>), Arg("server", <<"HTTP:", "/", "/", "old", "/">>),
   Arg("trusted-ca-file", <<"ca">>), Arg("trusted-ca-file", <<"a", "b", "c", "d", "e", "f">>),
   Arg("principals-map", <<"map">>), Arg("principals-map", <<"gone">>),
   Arg("timeout", <<"6", "s">>), Arg("timeout", <<"-", "1", "s">>), Arg("timeout", <<"6">>),
   Arg("ssh-only", <<"true">>), Arg("ssh-only", <<"0">>), Arg("ssh-only", <<"no">>),
   Arg("debug", <<"stdout">>), Arg("debug", <<>>),
   Arg("mode", <<"sudo">>), Arg("mode", <<"console">>), Arg("mode", <<"true">>),
   Arg("tiemout", <<"6", "s">>)}

\* Servers of blanks, slashes and schemes.
Servers == {Arg("server", v) : v \in UpTo(4, {" ", "/", "http:", "x"})}

\* Times: ten minutes are 5 ns less than the greatest.
MCDigit == "0" :> 0 @@ "1" :> 1 @@ "6" :> 6 @@ "9" :> 9
MCUnit == <<"m", "s">> :> 1 @@ <<"s">> :> 10 @@ <<"m">> :> 600

Wholes == {<<>>, <<"1">>, <<"1", "0">>, <<"6", "0", "0", "6">>}
Fractions ==
  {<<>>, <<".">>, <<".", "1">>, <<".", "6", "0", "0", "9">>,
   <<".", "6", "0", "0", "9", "6">>, <<".", "6", "0", "0", "0", "1">>}
UnitNames == {<<>>, <<"s">>, <<"m">>, <<"m", "s">>, <<"s", "m">>}
More ==
  {<<>>, <<"1", "m", "s">>, <<"6", "m", "s">>, <<".", "6", "s">>, <<".", "1", "m">>,
   <<"1">>, <<"s">>}
MCTimes ==
  UpTo(3, {"-", "+", "0", "1", ".", "m", "s"})
    \cup {w \o f \o n \o x : w \in Wholes, f \in Fractions, n \in UnitNames, x \in More}
    \cup {<<"-">> \o w \o f \o <<"m">> : w \in Wholes, f \in Fractions}

MCPamLines ==
  UpTo(3, Args) \cup {<<a>> : a \in Servers} \cup {<<Arg("timeout", t)>> : t \in MCTimes}

-----------------------------------------------------------------------------
(* CA files, with one limit's worth of keys and more.                      *)

Key(k, algo, names) == [kind |-> "key", algo |-> algo, names |-> names, key |-> k]
NoKey(kind) == [kind |-> kind, algo |-> "", names |-> "", key |-> ""]

CaLines ==
  {NoKey("blank"), NoKey("broken"),
   Key("old", "ecdsa", "ecdsa"), Key("new", "ecdsa", "ecdsa"),
   Key("other", "ed25519", "ed25519"), Key("posing", "ecdsa", "ed25519")}

MCCaFiles == {Whole(f) : f \in UpTo(4, CaLines)} \cup {TooLarge}

-----------------------------------------------------------------------------
(* Maps with two accounts, one spelled in two ways.                        *)

MCSpelling ==
  [k \in {"alice", "'alice'", "bob", "", "?"} |-> IF k = "'alice'" THEN "alice" ELSE k]

Line(kind, indent, key, value) ==
  [kind |-> kind, indent |-> indent, key |-> key, value |-> value]
Entry(key, value) == Line("account", "none", key, value)
Item(v) == Line("item", "spaces", "", v)

MapLines ==
  {Line("blank", "none", "", ""), Line("blank", "tab", "", ""),
   Line("dash", "none", "", ""), Line("text", "none", "", ""),
   Line("account", "spaces", "bob", <<"below">>),
   Item("ops"), Item("a name too long"), Item(""),
   Entry("alice", <<"below">>), Entry("'alice'", <<"ops", "dev">>),
   Entry("alice", <<"null">>), Entry("bob", <<"below">>), Entry("bob", <<"dev">>),
   Entry("alice", <<"dev", "?">>), Entry("bob", <<"[">>), Entry("?", <<"below">>)}

\* Lines whose order and number matter most, four and five of them.
OrderedLines ==
  {Item("ops"), Item("a name too long"), Entry("alice", <<"below">>),
   Entry("'alice'", <<"ops", "dev">>), Entry("bob", <<"below">>), Entry("bob", <<"dev">>)}

MCMapFiles ==
  {Whole(f) : f \in UpTo(3, MapLines) \cup UpTo(5, OrderedLines)} \cup {TooLarge}

-----------------------------------------------------------------------------
(* Certificate lines.  Text is numbers no blob is as long as.              *)

Ed == <<101>>  RsaName == <<102>>  Sk == <<103>>  NoCert == <<104>>
Longer == <<105, 105>>
MCCertAlgo ==
  Ed :> [base |-> <<201>>, fields |-> 1] @@ RsaName :> [base |-> <<202>>, fields |-> 2]
    @@ Sk :> [base |-> <<203>>, fields |-> 0]

AsString(text) == <<Len(text)>> \o text
AsStrings(texts) == FlattenSeq([i \in DOMAIN texts |-> AsString(texts[i])])

\* A certificate the way a CA writes it.
Encoded(algo, key, class, names, sigAlgo) ==
  AsStrings(<<algo, <<110>>>> \o key) \o <<0, 7, class>>
    \o AsString(<<120>>) \o AsString(AsStrings(names)) \o <<0, 3, 0, 9>>
    \o AsStrings(<<<<>>, <<130>>, <<>>, <<140>>, AsStrings(<<sigAlgo, <<150>>>>)>>)

Point == <<111>>
Plainly == Encoded(Ed, <<Point>>, 1, <<<<121>>>>, <<160>>)

WhateverIssued ==
  {Plainly, Encoded(RsaName, <<Point, <<>>>>, 1, <<>>, <<160>>),
   Encoded(RsaName, <<Point, <<112, 112>>>>, 1, <<<<121>>>>, <<160>>),
   Encoded(Ed, <<Point>>, 2, <<<<121>>>>, <<160>>),
   Encoded(Ed, <<<<>>>>, 1, <<<<121>>, <<>>, <<122>>>>, <<160>>),
   Encoded(Ed, <<Point>>, 1, <<<<121>>, <<122, 122>>>>, <<160>>),
   Encoded(Ed, <<Point>>, 1, <<<<>>>>, Longer), Encoded(Ed, <<Point>>, 1, <<>>, <<>>),
   Encoded(Sk, <<Point>>, 1, <<>>, <<160>>), Encoded(NoCert, <<Point>>, 1, <<>>, <<160>>),
   Encoded(Longer, <<Point>>, 1, <<>>, <<160>>)}

\* Cut short anywhere, with more behind it, or with one cell another.
Blobs ==
  WhateverIssued
    \cup UNION {{SubSeq(b, 1, n) : n \in 0..Len(b)} : b \in WhateverIssued}
    \cup {b \o x : b \in WhateverIssued, x \in {<<0>>, <<1, 160>>}}
    \cup UNION {{[b EXCEPT ![i] = v] : i \in DOMAIN b, v \in (0..6) \cup {101}} :
                  b \in WhateverIssued}

MCIssuedLines ==
  {[type |-> IF b # <<>> /\ b[1] = 2 THEN Longer ELSE IF Len(b) < 2 THEN Ed ELSE <<b[2]>>,
    blob |-> b] : b \in Blobs}
    \cup {[type |-> Ed, blob |-> b] : b \in WhateverIssued}

-----------------------------------------------------------------------------
(* Keys and signatures, up to the largest and over them.                   *)

\* n bytes with the top bit set.
Top(n) == [i \in 1..n |-> 200]
Exponents == {<<1, 0, 1>>, <<0, 0, 3>>, <<200>>}
Moduli == {<<>>, <<100, 7>>, <<0, 100, 7>>, <<0, 200, 1>>, <<200, 1>>, <<0, 0, 200, 0>>,
           Top(127), Top(1024), <<0>> \o Top(1024), Top(1190), Top(1191)}
PublicKey(type, curve, nums) == [type |-> type, curve |-> curve, nums |-> nums]
RsaKeys == {PublicKey(TypeRsa, "", <<e, n>>) : e \in Exponents, n \in Moduli}
EdKeys == {PublicKey(TypeEd, "", n) : n \in {<<Top(32)>>, <<Top(31)>>, <<Top(32), <<>>>>}}
EcKeys ==
  {PublicKey(t, c, n) : t \in Ecdsa, c \in {"nistp256", "nistp521"},
                        n \in {<<<<4, 9, 9>>>>, <<<<2, 9>>>>, <<<<>>>>, <<>>}}
P256Key == PublicKey("ecdsa-sha2-nistp256", "nistp256", <<<<4, 9, 9>>>>)
P521Key == PublicKey("ecdsa-sha2-nistp521", "nistp521", <<<<4>> \o Top(132)>>)
Algos == Ecdsa \cup {TypeEd, "rsa-sha2-256", "rsa-sha2-512", "ssh-rsa", "ssh-dss"}

\* Who can sign so that this key verifies it; nobody for what is no key.
Nemo == [kind |-> "rsa", nums |-> <<<<3>>, <<1>>>>]
KeyHolder(key) ==
  CASE key.type = TypeRsa /\ Magnitude(key.nums[2]) # <<>> ->
         [kind |-> "rsa", nums |-> [k \in DOMAIN key.nums |-> Magnitude(key.nums[k])]]
    [] key.type = TypeEd /\ key.nums = <<Top(32)>> -> [kind |-> "ed25519", nums |-> key.nums]
    [] key.type \in Ecdsa /\ key.nums \in {<<<<4, 9, 9>>>>, <<<<4>> \o Top(132)>>} ->
         [kind |-> CurveOf[key.type], nums |-> key.nums]
    [] OTHER -> Nemo

Signature(body, by, digest, made, alias) ==
  [body |-> body, by |-> by, digest |-> digest, made |-> made, alias |-> alias]
Sign1(algo, key, sig, host) == [algo |-> algo, key |-> key, sig |-> sig, host |-> host]

\* By every key with every algorithm: made by it, by another, or over other bytes.
SomeKeys == RsaKeys \cup EdKeys
WithAnyKey ==
  {Sign1(a, k, Signature(<<Top(64)>>, IF known THEN KeyHolder(k) ELSE Nemo, d, made, FALSE),
         "strict") :
     a \in Algos, k \in SomeKeys, known \in BOOLEAN, d \in {"none", "sha256", "sha512"},
     made \in {<<>>, <<Top(64)>>}}
WithAnyPoint ==
  {Sign1(a, k, Signature(<<<<1>>, <<2>>>>, KeyHolder(k), d, <<<<1>>, <<2>>>>, FALSE), "strict") :
     a \in Algos, k \in EcKeys \cup {P521Key}, d \in {"sha256", "sha384", "sha512"}}

\* Numbers with and without what SSH and DER put before them.
Scalars == {<<>>, <<0>>, <<1>>, <<0, 127>>, <<127>>, <<0, 128>>, <<128>>, <<0, 0, 200, 0>>,
            Top(66), <<0>> \o Top(66), Top(122), Top(123), Top(124)}
EcSignatures ==
  {Sign1(k.type, k, Signature(<<r, s>>, KeyHolder(k), DigestOf(k.type), made, FALSE), "strict") :
     k \in {P256Key, P521Key}, r \in Scalars, s \in Scalars,
     made \in {<<>>, <<<<1>>, <<127>>>>, <<<<200, 0>>, <<128>>>>}}
MadeSignatures ==
  {Sign1(k.type, k,
         Signature(<<r, s>>, KeyHolder(k), DigestOf(k.type), <<Magnitude(r), Magnitude(s)>>, FALSE),
         "strict") : k \in {P256Key, P521Key}, r \in Scalars, s \in Scalars}

\* Every host's Ed25519, and signatures of other sizes.
EdKey == PublicKey(TypeEd, "", <<Top(32)>>)
EdSignatures ==
  {Sign1(TypeEd, EdKey, Signature(<<Top(n)>>, by, "none", made, alias), h) :
     n \in {63, 64, 65}, by \in {KeyHolder(EdKey), Nemo}, made \in {<<>>, <<Top(64)>>},
     alias \in BOOLEAN, h \in Hosts}

EcdsaSignatures == EcSignatures \cup MadeSignatures
WithPoints == EcdsaSignatures \cup WithAnyPoint
WithKeys == WithAnyKey \cup EdSignatures
MCSignatures == WithKeys \cup WithPoints

-----------------------------------------------------------------------------
(* Bodies and envelopes: an ordinary one with one or two cells another or  *)
(* more or fewer, or with one string another.                              *)

Is(kind) == [kind |-> kind, text |-> <<>>]
Quoted(text) == [kind |-> "string", text |-> text]

MCBase == <<104>>

MCSpelled ==
  "data" :> <<100>> @@ "error" :> <<114>> @@ "certificate" :> <<116>>
    @@ "events_url" :> <<101>> @@ "approval_url" :> <<97>> @@ "user_code" :> <<99>>
    @@ "verification_url" :> <<118>> @@ "verification_url_complete" :> <<113>>
    @@ "expires_at" :> <<120>>
    @@ "public_key" :> <<75>> @@ "username" :> <<85>> @@ "hostname" :> <<72>>
    @@ "pam_service" :> <<83>> @@ "tty" :> <<84>> @@ "remote_host" :> <<82>>
    @@ "requesting_user" :> <<81>> @@ "process" :> <<80>> @@ "caller_uid" :> <<49>>
    @@ "caller_pid" :> <<50>> @@ "caller_ppid" :> <<51>> @@ "machine_id" :> <<73>>
    @@ "os" :> <<79>> @@ "client" :> <<67>> @@ "mode" :> <<77>> @@ "client_time" :> <<90>>
    @@ "trusted_ca_fingerprints" :> <<70>> @@ "requested_options" :> <<78>>
    @@ "source_addresses" :> <<65>>
    @@ "auto" :> <<97>> @@ "sudo" :> <<115>> @@ "console" :> <<99>>

MemberOf(name, value) == <<Quoted(MCSpelled[name]), Is(":")>> \o value
Object(members) ==
  <<Is("{")>>
    \o FlattenSeq([i \in DOMAIN members |->
                     IF i = 1 THEN members[i] ELSE <<Is(",")>> \o members[i]])
    \o <<Is("}")>>
Texts(texts) == [i \in DOMAIN texts |-> MemberOf(texts[i][1], <<Quoted(texts[i][2])>>)]

\* 2024-02-29T23:59:60Z
Leaping == <<50, 48, 50, 52, 45, 48, 50, 45, 50, 57, 84, 50, 51, 58, 53, 57, 58, 54, 48, 90>>
PlainTexts ==
  <<<<"events_url", <<47, 101>>>>, <<"approval_url", <<47, 97>>>>, <<"user_code", <<65>>>>,
    <<"verification_url", <<47, 118>>>>, <<"verification_url_complete", <<47, 118, 47>>>>,
    <<"expires_at", Leaping>>>>
BodyOf(texts) == Object(<<MemberOf("data", Object(Texts(texts)))>>)
MCPlainBody == BodyOf(PlainTexts)

\* Objects and arrays beside and inside data, with members of the same names.
Decoy == Object(<<MemberOf("events_url", <<Quoted(<<47, 121>>)>>)>>)
NestedBody ==
  Object(<<MemberOf("error", <<Is("primitive")>>), MemberOf("events_url", <<Quoted(<<47, 122>>)>>),
           MemberOf("data", Object(<<MemberOf("user_code", Decoy),
                                     MemberOf("approval_url", <<Quoted(<<47, 97>>)>>),
                                     MemberOf("events_url", <<Quoted(<<47, 101>>)>>)>>))>>)
ShortBody == BodyOf(SubSeq(PlainTexts, 1, 2))

\* As many tokens as are read, and fewer and more: an array of n, before or after.
Array(n, item) ==
  <<Is("[")>> \o FlattenSeq([i \in 1..n |-> IF i = 1 THEN item ELSE <<Is(",")>> \o item])
    \o <<Is("]")>>
Items == {<<Is("primitive")>>, <<Quoted(<<>>)>>, <<Is("["), Is("]")>>, <<Is("{"), Is("}")>>}
Padded ==
  LET said == MemberOf("data", Object(Texts(SubSeq(PlainTexts, 1, 4))))
      more == {MemberOf("error", Array(n, item)) : n \in 0..7, item \in Items}
  IN  {Object(<<said, m>>) : m \in more} \cup {Object(<<m, said>>) : m \in more}

Signs == {Is(k) : k \in {"{", "}", "[", ","}}
OtherCells ==
  {Is(k) : k \in {"{", "}", "[", "]", ":", ",", "primitive", "broken"}}
    \cup {Quoted(<<>>), Quoted(<<101>>), Quoted(<<100>>)}
Replaced(b) == {[b EXCEPT ![i] = c] : i \in DOMAIN b, c \in OtherCells}
Twice(b) ==
  LET pairs == {p \in (DOMAIN b) \X (DOMAIN b) : p[1] < p[2]} IN
  {[b EXCEPT ![p[1]] = c, ![p[2]] = d] : p \in pairs, c \in Signs, d \in Signs}
Inserted(b) ==
  {SubSeq(b, 1, i) \o <<c>> \o SubSeq(b, i + 1, Len(b)) : i \in 0..Len(b), c \in OtherCells}
Cut(b) == {SubSeq(b, 1, n) : n \in 0..Len(b)}
Without(b) == {SubSeq(b, 1, i - 1) \o SubSeq(b, i + 1, Len(b)) : i \in DOMAIN b}
Edits(b) == Replaced(b) \cup Inserted(b) \cup Cut(b) \cup Without(b)

\* What a text is put together from: bytes, escapes, halves of a pair.
U(a, b, c, d) == <<92, 117, a, b, c, d>>
Fragments ==
  {<<47>>, <<97>>, <<73>>, <<32>>, <<92, 47>>, <<92, 110>>, U(48, 48, 52, 49), U(48, 48, 48, 48),
   U(48, 48, 101, 57), U(50, 48, 65, 67), U(100, 56, 51, 100) \o U(100, 101, 48, 48),
   U(100, 56, 51, 100), U(100, 99, 48, 48)}
Fragmented == {FlattenSeq(f) : f \in UpTo(2, Fragments)}
\* Up to and over every size.
Long(n) == [i \in 1..n |-> 65]
Odd ==
  Fragments \cup {<<47>> \o f : f \in Fragmented} \cup {Long(n) : n \in 0..12}
    \cup {<<47>> \o Long(n) \o f : n \in 1..12, f \in {<<>>, U(50, 48, 65, 67)}}

\* MCPlainBody with another i-th text.
WithText(i, t) == [MCPlainBody EXCEPT ![4 * i + 3].text = t]

\* Times of every month, of leap years and others, in every sort of zone.
Two(n) == <<48 + (n \div 10), 48 + (n % 10)>>
DateText(y, m, d) ==
  Two(y \div 100) \o Two(y % 100) \o <<45>> \o Two(m) \o <<45>> \o Two(d)
ClockText(h, m, s) == Two(h) \o <<58>> \o Two(m) \o <<58>> \o Two(s)
ZoneText(sign, h, m) == <<sign>> \o Two(h) \o <<58>> \o Two(m)
Times8601 ==
  {DateText(y, m, d) \o <<84>> \o ClockText(0, 30, 0) \o ZoneText(43, 1, 0) :
     y \in {0, 1900, 1969, 1970, 2000, 2023, 2024}, m \in 0..13, d \in {0, 1, 28, 29, 31, 32}}
  \cup {DateText(2024, 12, 31) \o <<84>> \o ClockText(h, n, c) \o f \o z :
          h \in {0, 23, 24}, n \in {0, 59, 60}, c \in {0, 60, 61}, f \in {<<>>, <<46>>, <<46, 53>>},
          z \in {<<90>>, ZoneText(43, 23, 59), ZoneText(45, 0, 30)}}
  \cup {DateText(2024, 12, 31) \o <<t>> \o ClockText(23, 59, 60) \o <<90>> : t \in {32, 116, 47}}
  \cup {DateText(2000, 3, 1) \o <<84>> \o ClockText(12, 0, 59) \o f \o z :
          f \in {<<>>, <<46>>, <<46, 57, 48>>, <<44, 53>>},
          z \in {<<>>, <<90>>, <<122>>, <<90, 90>>, ZoneText(43, 23, 59), ZoneText(45, 24, 0),
                 ZoneText(45, 23, 60), ZoneText(45, 0, 1), <<43, 48, 49>>, <<43>>,
                 ZoneText(32, 1, 0), Append(ZoneText(43, 1, 0), 48)}}
Mangled(s) ==
  UNION {{[s EXCEPT ![i] = c] : c \in {32, 43, 45, 46, 47, 48, 57, 58, 84, 90}} : i \in DOMAIN s}
    \cup Cut(s)
Expiries ==
  {WithText(6, t) :
     t \in Times8601 \cup Mangled(Leaping) \cup {Leaping \o <<92, 117, 48, 48, 48, 48, 48>>}}

EditedTwice == Twice(ShortBody)
EditedOnce == Edits(MCPlainBody) \cup Edits(NestedBody)
OddTexts == {WithText(i, t) : i \in 1..5, t \in Odd}
Edited == EditedTwice \cup EditedOnce
OddFields == OddTexts \cup Expiries
MCBodies == Edited \cup OddFields \cup Padded

EnvelopeOf(error, certificate) ==
  Object(<<MemberOf("error", <<error>>),
           MemberOf("data", Object(<<MemberOf("certificate", <<certificate>>)>>))>>)
CertText == <<67>>
PlainEnvelope == EnvelopeOf(Quoted(<<>>), Quoted(CertText))
MCEnvelopes ==
  {[PlainEnvelope EXCEPT ![i].text = t] : i \in {4, 10}, t \in Odd}
    \cup Edits(EnvelopeOf(Is("primitive"), Quoted(CertText)))
    \cup Edits(EnvelopeOf(Quoted(<<114>>), Quoted(CertText)))

-----------------------------------------------------------------------------
(* What a request is made of: an ordinary one with one text another, with  *)
(* other files, or on other interfaces.                                    *)

MCFingerprint == "old" :> <<111>> @@ "new" :> <<110>> @@ "other" :> <<34>> @@ "posing" :> <<>>

Interface(text) ==
  [up |-> TRUE, loopback |-> FALSE, family |-> "inet", scope |-> "wide", text |-> text]
Interfaces ==
  {Interface(<<49>>), Interface(<<50>>), Interface(<<51>>),
   [Interface(<<58>>) EXCEPT !.family = "inet6"],
   [Interface(<<58>>) EXCEPT !.family = "inet6", !.scope = "link"],
   [Interface(<<52>>) EXCEPT !.up = FALSE], [Interface(<<53>>) EXCEPT !.loopback = TRUE],
   [Interface(<<>>) EXCEPT !.family = "none"]}

PlainSource ==
  [text |-> [public_key |-> <<107>>, username |-> <<117>>, hostname |-> <<104>>,
             pam_service |-> <<115>>, tty |-> <<>>, remote_host |-> <<>>,
             requesting_user |-> <<114>>, client |-> <<47>>, client_time |-> <<90>>],
   number |-> [caller_uid |-> <<48>>, caller_pid |-> <<55>>, caller_ppid |-> <<49>>],
   cmdline |-> <<115, 0>>, idFile |-> <<105, 10>>, pretty |-> <<34, 68, 34, 10>>,
   sysname |-> <<76>>, release |-> <<54>>, interfaces |-> <<Interface(<<49>>)>>]

\* What a name or a file may have in it.
OddBytes == {1, 9, 10, 13, 31, 32, 34, 39, 92, 110, 117, 127, 200}
OddNames == UpTo(2, OddBytes) \cup {Long(n) : n \in 3..12} \cup {<<92>> \o Long(n) : n \in 3..12}
Lines == UpTo(3, {10, 32, 34, 39, 68}) \cup {Long(n) \o <<34, 10>> : n \in 4..10}
SelfSaid == {"username", "hostname", "pam_service", "tty", "remote_host", "requesting_user"}
MCSources ==
  {[PlainSource EXCEPT !.text[f] = t] : f \in SelfSaid, t \in OddNames}
    \cup {[PlainSource EXCEPT !.text["client_time"] = <<>>]}
    \cup {[PlainSource EXCEPT !.cmdline = c] :
            c \in UpTo(3, {0, 32, 34, 97}) \cup {Long(n) \o <<0>> : n \in 4..10}}
    \cup {[PlainSource EXCEPT !.idFile = l] : l \in Lines}
    \cup {[PlainSource EXCEPT !.pretty = l, !.sysname = n] : l \in Lines, n \in {<<>>, <<76>>}}
    \cup {[PlainSource EXCEPT !.release = Long(n)] : n \in 0..8}
    \cup {[PlainSource EXCEPT !.interfaces = l] : l \in UpTo(3, Interfaces)}

-----------------------------------------------------------------------------
MCPlain ==
  [argv |-> <<Arg("server", <<"sso">>), Arg("trusted-ca-file", <<"ca">>),
              Arg("principals-map", <<"map">>)>>,
   ca |-> Whole(<<Key("old", "ecdsa", "ecdsa")>>), source |-> PlainSource,
   body |-> MCPlainBody, envelope |-> PlainEnvelope,
   text |-> CertText, line |-> [type |-> Ed, blob |-> Plainly],
   signed |-> Sign1(P256Key.type, P256Key,
                    Signature(<<<<1>>, <<0, 128>>>>, KeyHolder(P256Key), "sha256",
                              <<<<1>>, <<128>>>>, FALSE), "strict"),
   map |-> Whole(<<Entry("alice", <<"ops">>)>>)]
=============================================================================
