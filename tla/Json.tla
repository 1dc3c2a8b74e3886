-------------------------------- MODULE Json --------------------------------
(***************************************************************************)
(* get_string (src/src/json.c:216-252): the string that a field of the     *)
(* envelope, or of its data, holds, and the token array of jsmn beneath.   *)
(*                                                                         *)
(* A body is a sequence of cells, [kind, text]: one of { } [ ] : , or a    *)
(* string with the bytes between its quotes, or a primitive.  A cell that  *)
(* jsmn does not take, a string with an unknown escape or without its end, *)
(* is "broken".  The place of a cell stands for its byte offset.           *)
(***************************************************************************)
EXTENDS Integers, Sequences, FiniteSetsExt

CONSTANTS
  MaxTokens,    \* MAX_TOKENS
  Spelled       \* the bytes of the names the code looks for: a function

ASSUME JsonAssumption == MaxTokens \in Nat \ {0}

\* What a failure leaves: no value.
Nothing == [ok |-> FALSE, out |-> <<>>]

-----------------------------------------------------------------------------
(* jsmn_parse (third_party/jsmn/jsmn.h:268-468), with JSMN_PARENT_LINKS    *)
(* and without JSMN_STRICT.  toks: the tokens; super: toksuper; 0 is -1,   *)
(* also for the end of a bracket that is still open.                       *)

Failed == [ok |-> FALSE, toks |-> <<>>, super |-> 0]

\* jsmn.h:106-119, 280-304, 358-367, 422-430: the next token, a child of toksuper.
Added(p, type, start, end) ==
  IF Len(p.toks) >= MaxTokens THEN Failed ELSE
    LET t == [type |-> type, start |-> start, end |-> end, size |-> 0, parent |-> p.super]
        counted == IF p.super = 0 THEN p.toks ELSE [p.toks EXCEPT ![p.super].size = @ + 1]
    IN  [p EXCEPT !.toks = Append(counted, t)]

Opened(p, i, type) ==
  LET q == Added(p, type, i, 0) IN [q EXCEPT !.super = Len(q.toks)]

\* jsmn.h:305-331: up from the last token to one still open, k.
ClosedAt(p, i, type, k) ==
  IF p.toks[k].type # type THEN Failed
  ELSE IF p.toks[k].end = 0
  THEN [p EXCEPT !.toks[k].end = i + 1, !.super = p.toks[k].parent]
  ELSE IF p.super = 0 THEN Failed ELSE p

Closed(p, i, type) ==
  LET t == p.toks
      up[k \in DOMAIN t] == IF t[k].end = 0 \/ t[k].parent = 0 THEN k ELSE up[t[k].parent]
  IN  IF t = <<>> THEN Failed ELSE ClosedAt(p, i, type, up[Len(t)])

\* jsmn.h:272-438.
Took(p, i, cell) ==
  CASE cell.kind = "{" -> Opened(p, i, "object")
    [] cell.kind = "[" -> Opened(p, i, "array")
    [] cell.kind = "}" -> Closed(p, i, "object")
    [] cell.kind = "]" -> Closed(p, i, "array")
    [] cell.kind = ":" -> [p EXCEPT !.super = Len(p.toks)]
    [] cell.kind = "," ->
         IF p.super = 0 THEN p
         ELSE IF p.toks[p.super].type \in {"object", "array"} THEN p
         ELSE [p EXCEPT !.super = p.toks[p.super].parent]
    [] cell.kind \in {"string", "primitive"} -> Added(p, cell.kind, i, i)
    [] OTHER -> Failed

\* jsmn.h:440-448: a bracket still open is an error.
Complete(p) == IF \E k \in DOMAIN p.toks : p.toks[k].end = 0 THEN Failed ELSE p

Tokens(body) ==
  LET p[i \in 0..Len(body)] ==
        IF i = 0 THEN [ok |-> TRUE, toks |-> <<>>, super |-> 0]
        ELSE LET before == p[i - 1] IN
             IF before.ok THEN Took(before, i, body[i]) ELSE Failed
  IN  Complete(p[Len(body)])

-----------------------------------------------------------------------------
\* json.c:176-189: the token after k and all under it.
SkipToken_Shallow(toks, k) == k + 1
SkipToken(toks, k) ==
  Min({n \in k + 1..Len(toks) + 1 : n <= Len(toks) => toks[n].start >= toks[k].end})

\* json.c:168-174.
TokenIs(body, t, name) == t.type = "string" /\ body[t.start].text = Spelled[name]

\* json.c:191-214: the index of the value, or 0.
ObjectGet(body, toks, obj, name) ==
  LET key[n \in 0..toks[obj].size] ==
        IF n = 0 THEN obj + 1
        ELSE LET k == key[n - 1] IN
             IF k < Len(toks) THEN SkipToken(toks, k + 1) ELSE k
      hits == {n \in 0..toks[obj].size - 1 :
                 key[n] < Len(toks) /\ TokenIs(body, toks[key[n]], name)}
  IN  IF toks[obj].type = "object" /\ hits # {} THEN key[Min(hits)] + 1 ELSE 0

-----------------------------------------------------------------------------
(* Escapes.                                                                *)

Backslash == 92
LowerU == 117
Nul == 0

\* json.c:112-132: the one-byte escapes.
Escape ==
  [c \in {34, 92, 47, 98, 102, 110, 114, 116} |->
     CASE c = 98 -> 8 [] c = 102 -> 12 [] c = 110 -> 10
       [] c = 114 -> 13 [] c = 116 -> 9 [] OTHER -> c]

Hex(c) ==
  CASE c \in 48..57 -> c - 48
    [] c \in 97..102 -> c - 87
    [] c \in 65..70 -> c - 55
    [] OTHER -> -1

\* json.c:63-84, or -1.
Hex4(p, i) ==
  IF \E k \in 0..3 : Hex(p[i + k]) = -1 THEN -1
  ELSE 4096 * Hex(p[i]) + 256 * Hex(p[i + 1]) + 16 * Hex(p[i + 2]) + Hex(p[i + 3])

HighSurrogate == 55296..56319
LowSurrogate == 56320..57343

\* json.c:30-61.
Utf8(cp) ==
  CASE cp < 128 -> <<cp>>
    [] cp \in 128..2047 -> <<192 + cp \div 64, 128 + (cp % 64)>>
    [] cp \in 2048..65535 ->
         <<224 + cp \div 4096, 128 + ((cp \div 64) % 64), 128 + (cp % 64)>>
    [] OTHER -> <<240 + cp \div 262144, 128 + ((cp \div 4096) % 64),
                  128 + ((cp \div 64) % 64), 128 + (cp % 64)>>

\* One write, if it fits with the NUL; what is written already stays.
Put(r, bytes, next, cap) ==
  IF Len(r.out) + Len(bytes) >= cap THEN [r EXCEPT !.ok = FALSE]
  ELSE [r EXCEPT !.out = @ \o bytes, !.at = next]

\* json.c:133-158: the escape whose u is at r.at + 1.
UnescapeU(p, r, cap) ==
  LET u == r.at + 1
      cp == IF u + 4 <= Len(p) THEN Hex4(p, u + 1) ELSE -1
      low == IF /\ u + 10 <= Len(p)
                /\ p[u + 5] = Backslash /\ p[u + 6] = LowerU
             THEN Hex4(p, u + 7) ELSE -1
  IN  CASE cp = -1 \/ cp \in LowSurrogate -> [r EXCEPT !.ok = FALSE]
        [] cp \in HighSurrogate ->
             IF low \in LowSurrogate
             THEN Put(r, Utf8(65536 + 1024 * (cp - 55296) + low - 56320), u + 11, cap)
             ELSE [r EXCEPT !.ok = FALSE]
        [] OTHER -> Put(r, Utf8(cp), u + 5, cap)

\* json.c:96-162, one iteration.
UnescapeOne(p, r, cap) ==
  CASE p[r.at] # Backslash -> Put(r, <<p[r.at]>>, r.at + 1, cap)
    [] p[r.at] = Backslash /\ r.at = Len(p) -> [r EXCEPT !.ok = FALSE]
    [] OTHER ->
         LET e == p[r.at + 1] IN
         IF e = LowerU THEN UnescapeU(p, r, cap)
         ELSE IF e \in DOMAIN Escape THEN Put(r, <<Escape[e]>>, r.at + 2, cap)
         ELSE [r EXCEPT !.ok = FALSE]

\* json.c:92-166.
Unescape(p, cap) ==
  LET r[k \in 0..Len(p)] ==
        IF k = 0 THEN [ok |-> TRUE, out |-> <<>>, at |-> 1]
        ELSE LET before == r[k - 1] IN
             IF ~before.ok \/ before.at > Len(p) THEN before ELSE UnescapeOne(p, before, cap)
  IN  [f \in {"ok", "out"} |-> r[Len(p)][f]]

-----------------------------------------------------------------------------
\* json.c:216-264: a field of the token obj; out is what is in the caller's
\* buffer afterwards, which was all zero before, also after a failure.
StringAt(body, toks, v, cap) ==
  IF v = 0 THEN Nothing
  ELSE IF toks[v].type # "string" THEN Nothing
  ELSE Unescape(body[toks[v].start].text, cap)
IsObject(toks, k) == k \in DOMAIN toks /\ toks[k].type = "object"
StringOf(body, toks, obj, field, cap) ==
  IF IsObject(toks, obj) THEN StringAt(body, toks, ObjectGet(body, toks, obj, field), cap)
  ELSE Nothing

TopString(body, field, cap) == StringOf(body, Tokens(body).toks, 1, field, cap)

InData(body, toks, field, cap) ==
  IF IsObject(toks, 1) THEN StringOf(body, toks, ObjectGet(body, toks, 1, "data"), field, cap)
  ELSE Nothing
DataString(body, field, cap) == InData(body, Tokens(body).toks, field, cap)

\* What strlen makes of a buffer.
CString(out) ==
  SubSeq(out, 1, Min({Len(out)} \cup {i - 1 : i \in {k \in DOMAIN out : out[k] = Nul}}))

-----------------------------------------------------------------------------
(* The same from the body as a whole, without tokens.                      *)

Count(body, from, to, kinds) ==
  Cardinality({i \in from..to : body[i].kind \in kinds})

\* More values and names than jsmn is given tokens for.
TooManyTokens(body) ==
  Count(body, 1, Len(body), {"{", "[", "string", "primitive"}) > MaxTokens

\* Every cell's bracket: the last one opened before it and not closed, or 0.
Brackets(body) ==
  LET within[i \in 0..Len(body)] ==
        IF i = 0 THEN <<>>
        ELSE LET w == within[i - 1] IN
             Append(w, IF i = 1 THEN 0
                       ELSE IF body[i - 1].kind \in {"{", "["} THEN i - 1
                       ELSE IF body[i - 1].kind \in {"}", "]"} /\ w[i - 1] > 0 THEN w[w[i - 1]]
                       ELSE w[i - 1])
  IN  within[Len(body)]

IsName(body, within, i) ==
  /\ i > 1 /\ body[i].kind = "string" /\ body[i - 1].kind \in {"{", ","}
  /\ within[i] > 0 /\ body[within[i]].kind = "{"
EndsValue(body, within, i) ==
  \/ body[i].kind \in {"primitive", "}", "]"}
  \/ body[i].kind = "string" /\ ~IsName(body, within, i)

\* An object, as JSON has it.
IsJson(body) ==
  /\ body # <<>> /\ body[1].kind = "{"
  /\ Count(body, 1, Len(body), {"{", "["}) = Count(body, 1, Len(body), {"}", "]"})
  /\ LET within == Brackets(body) IN
     \A i \in 2..Len(body) :
       LET o == within[i]
           before == body[i - 1].kind
           ends == o = i - 1 \/ EndsValue(body, within, i - 1)
       IN  /\ o > 0
           /\ CASE body[i].kind \in {"string", "primitive", "{", "["} ->
                     \/ IsName(body, within, i)
                     \/ body[o].kind = "{" /\ before = ":"
                     \/ body[o].kind = "[" /\ before \in {"[", ","}
                [] body[i].kind = ":" -> IsName(body, within, i - 1)
                [] body[i].kind = "," -> EndsValue(body, within, i - 1)
                [] body[i].kind = "}" -> body[o].kind = "{" /\ ends
                [] body[i].kind = "]" -> body[o].kind = "[" /\ ends
                [] OTHER -> FALSE

\* Where the value of an object's first member of that name begins, or 0.
Member(body, o, name) ==
  LET within == Brackets(body)
      at == {i \in DOMAIN body : /\ body[i].text = Spelled[name] /\ within[i] = o
                                 /\ IsName(body, within, i)}
  IN  IF at = {} THEN 0 ELSE Min(at) + 2

\* The bytes a string stands for, from its end to its beginning; up to what is
\* no escape of JSON's or half a surrogate pair.
Decoded(p) ==
  LET unit(i) ==
        CASE p[i] # Backslash -> [bytes |-> <<p[i]>>, next |-> i + 1]
          [] p[i] = Backslash /\ i < Len(p) /\ p[i + 1] \in DOMAIN Escape ->
               [bytes |-> <<Escape[p[i + 1]]>>, next |-> i + 2]
          [] p[i] = Backslash /\ i + 5 <= Len(p) /\ p[i + 1] = LowerU ->
               LET cp == Hex4(p, i + 2) IN
               IF cp = -1 \/ cp \in LowSurrogate THEN [bytes |-> <<>>, next |-> 0]
               ELSE IF cp \notin HighSurrogate THEN [bytes |-> Utf8(cp), next |-> i + 6]
               ELSE IF /\ i + 11 <= Len(p) /\ p[i + 6] = Backslash /\ p[i + 7] = LowerU
                       /\ Hex4(p, i + 8) \in LowSurrogate
               THEN [bytes |-> Utf8(65536 + 1024 * (cp - 55296) + Hex4(p, i + 8) - 56320),
                     next |-> i + 12]
               ELSE [bytes |-> <<>>, next |-> 0]
          [] OTHER -> [bytes |-> <<>>, next |-> 0]
      from[i \in 1..Len(p) + 1] ==
        IF i > Len(p) THEN [ok |-> TRUE, out |-> <<>>]
        ELSE IF unit(i).next = 0 THEN Nothing
        ELSE LET rest == from[unit(i).next] IN
             [ok |-> rest.ok, out |-> unit(i).bytes \o rest.out]
  IN  from[1]

\* What the field of an object says.
Said(body, o, name) ==
  LET v == Member(body, o, name) IN
  IF v = 0 THEN Nothing
  ELSE IF body[v].kind # "string" THEN Nothing ELSE Decoded(body[v].text)

SaidInData(body, name) ==
  LET o == Member(body, 1, "data") IN
  IF o = 0 THEN Nothing ELSE IF body[o].kind # "{" THEN Nothing ELSE Said(body, o, name)
=============================================================================
