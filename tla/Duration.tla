------------------------------ MODULE Duration ------------------------------
(***************************************************************************)
(* ssoossh_duration_parse (src/src/args.c:35-185), with leading_int and    *)
(* leading_fraction: "1h30m", "-1.5s".  A text is a sequence of            *)
(* characters.  The product of a fraction and its unit, which the code     *)
(* computes in double, is exact here: less than a nanosecond apart.        *)
(*                                                                         *)
(* Two tests look for a negative number after a signed addition that may   *)
(* have overflowed, which is undefined: a build may keep such a test or    *)
(* drop it (gcc keeps both at -O1 and drops both at -O2).                  *)
(***************************************************************************)
EXTENDS Integers, Sequences, FiniteSetsExt, Functions

CONSTANTS
  Digit,   \* the value of each digit: a function on characters
  Unit,    \* duration_units: a function on names, which are texts
  TopInt   \* INT64_MAX

ASSUME DurationAssumption ==
  /\ TopInt \in Nat
  /\ \A c \in DOMAIN Digit : Digit[c] \in 0..9
  /\ \A u \in DOMAIN Unit : Unit[u] \in Nat \ {0} /\ 10 * Unit[u] <= TopInt

\* int64_t, as it wraps where a test of its sign was dropped.
Wrapped(n) == ((n + TopInt + 1) % (2 * (TopInt + 1))) - TopInt - 1

Tests == {"fraction", "sum"}
NotRead == [ok |-> FALSE]
Known(n) == [ok |-> TRUE, value |-> n]

\* The end of a run: of digits, and of a unit's name.
IsDigit(c) == c \in DOMAIN Digit
RunEnd(t, i, kind) ==
  CHOOSE j \in i..Len(t) + 1 :
    /\ \A k \in i..j - 1 : t[k] \in kind
    /\ j <= Len(t) => t[j] \notin kind
Named(c) == c # "." /\ ~IsDigit(c)

-----------------------------------------------------------------------------
\* args.c:35-56; Overflow for its `false'.
Overflow == -1
LeadingInt(digits) ==
  LET x[n \in 0..Len(digits)] ==
        IF n = 0 THEN 0
        ELSE IF \/ x[n - 1] = Overflow \/ x[n - 1] > TopInt \div 10
                \/ x[n - 1] * 10 > TopInt - Digit[digits[n]]
        THEN Overflow
        ELSE x[n - 1] * 10 + Digit[digits[n]]
  IN  x[Len(digits)]

\* args.c:58-88; kept: the tests this build has kept.
LeadingFraction(digits, kept) ==
  LET f[n \in 0..Len(digits)] ==
        IF n = 0 THEN [value |-> 0, scale |-> 1, overflow |-> FALSE]
        ELSE LET y == Wrapped(f[n - 1].value * 10 + Digit[digits[n]]) IN
             IF \/ f[n - 1].overflow \/ f[n - 1].value > TopInt \div 10
                \/ "fraction" \in kept /\ y < 0
             THEN [f[n - 1] EXCEPT !.overflow = TRUE]
             ELSE [f[n - 1] EXCEPT !.value = y, !.scale = @ * 10]
  IN  f[Len(digits)]

\* args.c:167-176: f > 0, which a build without the first test takes for f # 0;
\* the cast cuts towards zero.
Share_Rounded(f, unit) == (f.value * unit + f.scale - 1) \div f.scale
Share(f, unit) ==
  IF f.value < 0 THEN -((-f.value * unit) \div f.scale)
  ELSE (f.value * unit) \div f.scale

\* args.c:115-150: where the number at i ends, its fraction begins and ends, and
\* its unit ends.
PointAfter(t, w) == IF w <= Len(t) /\ t[w] = "." THEN w + 1 ELSE w
FractionEnd(t, w, f) == IF f > w THEN RunEnd(t, f, DOMAIN Digit) ELSE w
UnitEnd(t, g) == RunEnd(t, g, {c \in Range(t) : Named(c)})

\* args.c:151-176: a number of that unit, and what is read next.
Amount(whole, fraction, unit, next) ==
  LET d == Wrapped(whole * unit + Share(fraction, unit)) IN
  IF whole = Overflow \/ whole > TopInt \div unit \/ d < 0 THEN NotRead
  ELSE [ok |-> TRUE, value |-> d, next |-> next]

\* args.c:120-176: the part at i, of which w ends the whole number.
PartOf(t, i, w, kept) ==
  LET f == PointAfter(t, w)
      g == FractionEnd(t, w, f)
      u == UnitEnd(t, g)
  IN  IF (i = w /\ f = g) \/ SubSeq(t, g, u - 1) \notin DOMAIN Unit THEN NotRead
      ELSE Amount(LeadingInt(SubSeq(t, i, w - 1)), LeadingFraction(SubSeq(t, f, g - 1), kept),
                  Unit[SubSeq(t, g, u - 1)], u)
PartAt(t, i, kept) == PartOf(t, i, RunEnd(t, i, DOMAIN Digit), kept)

\* args.c:177-181: d and another part.
Summed(d, p, kept) ==
  IF ~p.ok THEN p
  ELSE IF "sum" \in kept /\ Wrapped(d.value + p.value) < 0 THEN NotRead
  ELSE [p EXCEPT !.value = Wrapped(d.value + @)]

\* args.c:114-181: the parts from i on.
SumFrom(t, i, kept) ==
  LET after[k \in 0..Len(t)] ==
        IF k = 0 THEN [ok |-> TRUE, value |-> 0, next |-> i]
        ELSE LET d == after[k - 1] IN
             IF ~d.ok THEN d
             ELSE IF d.next > Len(t) THEN d
             ELSE Summed(d, PartAt(t, d.next, kept), kept)
  IN  after[Len(t)]

Signed(t) == t # <<>> /\ t[1] \in {"-", "+"}
Unsigned(t) == IF Signed(t) THEN Tail(t) ELSE t
Sign(t) == IF Signed(t) /\ t[1] = "-" THEN -1 ELSE 1
WithSign(sign, d) == IF d.ok THEN Known(sign * d.value) ELSE NotRead

\* args.c:90-185: what a build that has kept these tests makes of a text.
Parsed(t, kept) ==
  LET s == Unsigned(t) IN
  IF s = <<"0">> THEN Known(0)
  ELSE IF s = <<>> THEN NotRead
  ELSE WithSign(Sign(t), SumFrom(s, 1, kept))

Readings(t) == {Parsed(t, kept) : kept \in SUBSET Tests}

-----------------------------------------------------------------------------
(* The same from the text as a whole: a unit's name ends each part.        *)

UnitEnds(s) == {i \in DOMAIN s : Named(s[i]) /\ (i < Len(s) => ~Named(s[i + 1]))}
Part(s, e) == SubSeq(s, 1 + Max({0} \cup {i \in UnitEnds(s) : i < e}), e)

\* A part's digits, those of them after the point, and its unit.
Places(p) == {i \in DOMAIN p : IsDigit(p[i])}
Decimals(p) == {i \in Places(p) : \E j \in 1..i : p[j] = "."}
UnitName(p) == SelectSeq(p, Named)

Number(p, at) ==
  MapThenSumSet(LAMBDA i : Digit[p[i]] * 10^Cardinality({j \in at : j > i}), at)
Worth(p) ==
  Number(p, Places(p) \ Decimals(p)) * Unit[UnitName(p)]
    + (Number(p, Decimals(p)) * Unit[UnitName(p)]) \div 10^Cardinality(Decimals(p))

IsDuration(s) ==
  /\ Len(s) \in UnitEnds(s)
  /\ \A e \in UnitEnds(s) :
       LET p == Part(s, e) IN
       /\ Places(p) # {} /\ UnitName(p) \in DOMAIN Unit
       /\ Cardinality({i \in DOMAIN p : p[i] = "."}) <= 1

\* The nanoseconds a text stands for, each of its parts rounded down.
Total(s) == MapThenSumSet(LAMBDA e : Worth(Part(s, e)), UnitEnds(s))

\* A text may be read as n: exactly, or a nanosecond short for each part whose
\* fraction has more digits than leading_fraction can hold (args.c:58-61).
Means(t, n) ==
  LET s == Unsigned(t) IN
  \/ s = <<"0">> /\ n = 0
  \/ IsDuration(s) /\ \E lost \in 0..Cardinality(UnitEnds(s)) : n = Sign(t) * (Total(s) - lost)

\* Nothing overflows while the text is read.
Representable(t) ==
  LET s == Unsigned(t) IN
  s = <<"0">> \/ /\ IsDuration(s) /\ Total(s) <= TopInt
                 /\ \A e \in UnitEnds(s) :
                      Number(Part(s, e), Decimals(Part(s, e))) <= TopInt

\* A text that is read is a duration and, where no sum overflows, read as what
\* it stands for to the nanosecond; a build that keeps the tests reads every
\* other one as what it stands for or not at all (args.c:90-185).
ReadExactly(t) ==
  /\ \A r \in Readings(t) : r.ok => Unsigned(t) = <<"0">> \/ IsDuration(Unsigned(t))
  /\ Representable(t) => Readings(t) = {Known(Sign(t) * Total(Unsigned(t)))}
  /\ LET r == Parsed(t, Tests) IN r.ok => Means(t, r.value)
=============================================================================
