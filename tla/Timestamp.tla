------------------------------ MODULE Timestamp ------------------------------
(***************************************************************************)
(* ssoossh_parse_rfc3339 (src/src/json.c:354-444): the server's expires_at *)
(* as Unix seconds.  A text is a sequence of bytes, without the NUL that   *)
(* ends it.  An instant is [day, sec]: the int64_t is 86400 * day + sec,   *)
(* with sec in 0..86399.                                                   *)
(***************************************************************************)
EXTENDS Integers, Sequences, FiniteSets

Hyphen == 45
Colon == 58
Dot == 46
Plus == 43
DigitByte == 48..57
DateEnd == {84, 116, 32}  \* T, t and a blank
Zulu == {90, 122}

\* What is not a time.
NoInstant == [day |-> 0, sec |-> -1]

\* The byte at an offset of the code's; NUL behind the last.
ByteAt(s, i) == IF i < Len(s) THEN s[i + 1] ELSE 0

\* json.c:371-383: n digits from offset i, or -1.
Digits(s, i, n) ==
  LET v[k \in 0..n] == IF k = 0 THEN 0 ELSE 10 * v[k - 1] + ByteAt(s, i + k - 1) - 48 IN
  IF \A k \in 0..n - 1 : ByteAt(s, i + k) \in DigitByte THEN v[n] ELSE -1

\* json.c:359-369; a century's February ends the year, which begins in March.
DaysFromCivil_January(year, m, d) ==
  LET era == year \div 400
      yoe == year - era * 400
      doy == (153 * (m + (IF m > 2 THEN -3 ELSE 9)) + 2) \div 5 + d - 1
  IN  era * 146097 + yoe * 365 + yoe \div 4 - yoe \div 100 + doy - 719468
DaysFromCivil(year, m, d) ==
  LET y == IF m <= 2 THEN year - 1 ELSE year
      era == y \div 400
      yoe == y - era * 400
      doy == (153 * (m + (IF m > 2 THEN -3 ELSE 9)) + 2) \div 5 + d - 1
  IN  era * 146097 + yoe * 365 + yoe \div 4 - yoe \div 100 + doy - 719468

\* json.c:391-404: the offsets of what must be there, and in what range.
HasShape(s) ==
  /\ Len(s) >= 20
  /\ \A i \in {4, 7} : ByteAt(s, i) = Hyphen
  /\ \A i \in {13, 16} : ByteAt(s, i) = Colon
  /\ ByteAt(s, 10) \in DateEnd
  /\ Digits(s, 0, 4) >= 0
  /\ Digits(s, 5, 2) \in 1..12 /\ Digits(s, 8, 2) \in 1..31
  /\ Digits(s, 11, 2) \in 0..23 /\ Digits(s, 14, 2) \in 0..59
  /\ Digits(s, 17, 2) \in 0..60

\* json.c:406-415: the offset behind a fraction, -1 for one without digits.
AfterFraction(s) ==
  LET end[i \in 20..Len(s)] == IF ByteAt(s, i) \in DigitByte THEN end[i + 1] ELSE i IN
  IF ByteAt(s, 19) # Dot THEN 19
  ELSE IF ByteAt(s, 20) \in DigitByte THEN end[20] ELSE -1

\* json.c:419-440: what the zone adds to the seconds, or NotAZone.
NotAZone == 86400
Offset(s, i) ==
  LET h == Digits(s, i + 1, 2)  m == Digits(s, i + 4, 2)
      off == 3600 * h + 60 * m
  IN  CASE ByteAt(s, i) \in Zulu -> IF ByteAt(s, i + 1) = 0 THEN 0 ELSE NotAZone
        [] ByteAt(s, i) \in {Plus, Hyphen} ->
             IF /\ h \in 0..23 /\ m \in 0..59
                /\ ByteAt(s, i + 3) = Colon /\ ByteAt(s, i + 6) = 0
             THEN IF ByteAt(s, i) = Plus THEN -off ELSE off
             ELSE NotAZone
        [] OTHER -> NotAZone

\* json.c:385-444.
Instant(s) ==
  LET i == AfterFraction(s)
      off == Offset(s, i)
      sec == 3600 * Digits(s, 11, 2) + 60 * Digits(s, 14, 2) + Digits(s, 17, 2) + off
  IN  IF ~HasShape(s) THEN NoInstant
      ELSE IF i = -1 THEN NoInstant
      ELSE IF off = NotAZone THEN NoInstant
      ELSE [day |-> DaysFromCivil(Digits(s, 0, 4), Digits(s, 5, 2), Digits(s, 8, 2))
                      + sec \div 86400,
            sec |-> sec % 86400]

-----------------------------------------------------------------------------
(* The same by the calendar, from the digits as they stand in the text and *)
(* from its end.                                                           *)

\* yyyy-mm-ddThh:mm:ss: the number two digits make, and the numbers of a text.
Pair(s, i) ==
  IF {s[i], s[i + 1]} \subseteq DigitByte THEN 10 * (s[i] - 48) + s[i + 1] - 48 ELSE -1
Year(s) == 100 * Pair(s, 1) + Pair(s, 3)
Month(s) == Pair(s, 6)
Day(s) == Pair(s, 9)
Hour(s) == Pair(s, 12)
Minute(s) == Pair(s, 15)
Second(s) == Pair(s, 18)

Leap(y) == y % 4 = 0 /\ (y % 100 = 0 => y % 400 = 0)
MonthDays(y) == <<31, IF Leap(y) THEN 29 ELSE 28, 31, 30, 31, 30, 31, 31, 30, 31, 30, 31>>

\* Days from the epoch to the first of January.
YearStarts(y) ==
  IF y >= 1970 THEN 365 * (y - 1970) + Cardinality({k \in 1970..y - 1 : Leap(k)})
  ELSE 365 * (y - 1970) - Cardinality({k \in y..1969 : Leap(k)})

\* A day past the month's last is one of the next month.
CalendarDay(y, m, d) ==
  LET until[k \in 0..11] == IF k = 0 THEN 0 ELSE until[k - 1] + MonthDays(y)[k] IN
  YearStarts(y) + until[m - 1] + d - 1

\* The length of a zone at the end: Z, or a sign with hours and minutes.
Zed == 90
ZoneLength(s) == IF s[Len(s)] \in {Zed, Zed + 32} THEN 1 ELSE 6
Zone(s) == SubSeq(s, Len(s) - ZoneLength(s) + 1, Len(s))
Fraction(s) == SubSeq(s, 20, Len(s) - ZoneLength(s))

\* A text there is no doubt how to read, if one takes it for a time: a capital or
\* not, a blank for the T, a leap second, the 31st of a shorter month.
IsLegible(s) ==
  /\ Len(s) >= 20 /\ Len(s) >= 19 + ZoneLength(s)
  /\ \A i \in {1, 3, 6, 9, 12, 15, 18} : Pair(s, i) # -1
  /\ <<s[5], s[8], s[14], s[17]>> = <<Hyphen, Hyphen, Colon, Colon>>
  /\ s[11] \in {84, 84 + 32, 32}
  /\ Month(s) \in 1..12 /\ Day(s) \in 1..31
  /\ Hour(s) <= 23 /\ Minute(s) <= 59 /\ Second(s) <= 60
  /\ Fraction(s) # <<>> =>
       /\ Len(Fraction(s)) > 1 /\ s[20] = Dot
       /\ \A i \in 2..Len(Fraction(s)) : Fraction(s)[i] \in DigitByte
  /\ ZoneLength(s) = 6 =>
       /\ Zone(s)[1] \in {Plus, Hyphen} /\ Zone(s)[4] = Colon
       /\ Pair(Zone(s), 2) \in 0..23 /\ Pair(Zone(s), 5) \in 0..59

\* "Only the shape Go's time.Time marshals to: a date, a T, a time, an optional
\* fractional part, and either Z or a numeric offset" (json.h:69-71).
IsTimestamp(s) ==
  /\ IsLegible(s)
  /\ s[11] = 84 /\ (ZoneLength(s) = 1 => s[Len(s)] = Zed)
  /\ Day(s) <= MonthDays(Year(s))[Month(s)] /\ Second(s) <= 59

\* The minutes a text's clock is ahead of UTC.
Ahead(s) ==
  LET minutes == 60 * Pair(Zone(s), 2) + Pair(Zone(s), 5)
  IN  IF ZoneLength(s) = 1 THEN 0 ELSE IF Zone(s)[1] = Plus THEN minutes ELSE -minutes

\* Where the local clock stands in its day, and that in UTC.
InstantOf(s) ==
  LET over == Second(s) \div 60  \* a leap second is the next minute's first
      minute == 60 * Hour(s) + Minute(s) - Ahead(s) + over
      day == CalendarDay(Year(s), Month(s), Day(s))
  IN  [day |-> CASE minute < 0 -> day - 1 [] minute >= 1440 -> day + 1 [] OTHER -> day,
       sec |-> 60 * (minute % 1440) + (Second(s) % 60)]
=============================================================================
