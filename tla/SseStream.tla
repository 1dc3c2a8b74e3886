------------------------------ MODULE SseStream ------------------------------
(***************************************************************************)
(* What Sse is compared with: a reading of a whole stream at once, the     *)
(* lines between the line ends, the blocks between the blank lines, and    *)
(* the fields of a block.  Nothing is read byte by byte here, so where a   *)
(* chunk ends cannot matter.                                               *)
(***************************************************************************)
EXTENDS Sse, FiniteSets, SequencesExt

\* The position of the k-th member of a set of numbers.
Nth(S, k) == CHOOSE i \in S : Cardinality({j \in S : j <= i}) = k

\* What stands at the positions in `at', and what stands between them.
Picked(s, at) == [k \in 1..Cardinality(at) |-> s[Nth(at, k)]]
SplitAtAll(s, at) ==
  LET n == Cardinality(at)
      From(k) == IF k = 1 THEN 1 ELSE Nth(at, k - 1) + 1
      To(k) == IF k = n + 1 THEN Len(s) ELSE Nth(at, k) - 1
  IN  [k \in 1..(n + 1) |-> SubSeq(s, From(k), To(k))]

\* Lines as sent, the last of them unfinished (and perhaps empty).
LineEndsOf(s) == {i \in DOMAIN s : s[i] = "LF"}
RawLines(s) == SplitAtAll(s, LineEndsOf(s))

\* Blocks of finished lines, the last of them not ended by a blank line.
Blanks(lines) == {i \in DOMAIN lines : Chomp(lines[i]) = <<>>}
Blocks(s) == LET lines == Front(RawLines(s)) IN SplitAtAll(lines, Blanks(lines))

FieldLines(block, field) == {i \in DOMAIN block : IsField(Chomp(block[i]), field)}
Values(block, field) ==
  LET lines == Picked(block, FieldLines(block, field))
  IN  [i \in DOMAIN lines |-> Value(Chomp(lines[i]))]

\* The data of a block as sse.c:85-86 has it: "Multiple data lines are joined with
\* newlines, as the spec requires."
WithNewlines(vs) == [i \in DOMAIN vs |-> IF i = 1 THEN vs[i] ELSE <<"LF">> \o vs[i]]
DataOf(block) == FlattenSeq(WithNewlines(Values(block, "data")))

\* What the buffer is asked to hold: the code puts a newline before a value only
\* once there is something before it (sse.c:87).
Spaced(vs) ==
  [i \in DOMAIN vs |->
     IF \A j \in 1..i - 1 : vs[j] = <<>> THEN vs[i] ELSE <<"LF">> \o vs[i]]
Told(block) == FlattenSeq(Spaced(Values(block, "data")))

\* Where the two differ: the first of several data lines is empty.
EmptyFirst(block) ==
  LET vs == Values(block, "data") IN Len(vs) > 1 /\ vs[1] = <<>>

NameOf(block) ==
  LET vs == Values(block, "event") IN IF vs = <<>> THEN <<>> ELSE Last(vs)

IsEvent(block) == Values(block, "event") # <<>> \/ Values(block, "data") # <<>>

\* Something in the block exceeds its buffer.
TooLong(block) ==
  \/ \E i \in DOMAIN block : Len(block[i]) >= LineCap
  \/ \E v \in Range(Values(block, "event")) : Len(v) >= NameCap
  \/ Len(Told(block)) >= DataCap

\* The number of the block the parser stops in or after, for whatever reason;
\* the last block if it need not stop.
EndsIn(block) == IsEvent(block) /\ NameOf(block) \in Terminal
StopsAt(block) == TooLong(block) \/ EndsIn(block)
StopBlock(blocks) ==
  CHOOSE k \in DOMAIN blocks :
    /\ k = Len(blocks) \/ StopsAt(blocks[k])
    /\ \A j \in 1..k - 1 : ~StopsAt(blocks[j])

\* The blocks the callback has been called for: the finished ones up to there,
\* of which a block that does not fit is none.
CalledBack(blocks) ==
  LET stop == StopBlock(blocks)
      last == IF stop < Len(blocks) /\ ~TooLong(blocks[stop]) THEN stop ELSE stop - 1
  IN  {i \in 1..last : IsEvent(blocks[i])}

-----------------------------------------------------------------------------
(* What ssoossh_sse_feed promises whenever it has returned.                *)

\* The callback has been called for the events of the stream since the last
\* ssoossh_sse_init, in order, each once and with its own name and data, up to
\* the first terminal one or the first that does not fit: none is lost at the
\* end of a chunk, and none is invented, split, or made of two (sse.c:9-101,
\* sse.h:1-3; httpc.c:725 drops what was half read).  Its data lines are joined
\* with newlines, "as the spec requires" (sse.c:85-86, proto_test.c:284), with one
\* exception that is the code's and not the comment's: a data line that only empty
\* ones precede may go without the newline before it.
DeliveredAsSent ==
  unread = <<>> =>
    LET blocks == Blocks(sent)
        events == Picked(blocks, CalledBack(blocks))
    IN  /\ Len(delivered) = Len(events)
        /\ \A i \in DOMAIN events :
             /\ delivered[i].name = NameOf(events[i])
             /\ \/ delivered[i].data = DataOf(events[i])
                \/ EmptyFirst(events[i]) /\ delivered[i].data = Told(events[i])

\* The parser stops only because a terminal event arrived or because something
\* exceeds its buffer, says which of the two it was, and goes on otherwise: the
\* caller reports an overflow and must never take a cut event for a whole one
\* (sse.h:53-59, httpc.c:488-500).
StopsForCause ==
  unread = <<>> =>
    LET raw == RawLines(sent)
        blocks == Blocks(sent)
        stop == StopBlock(blocks)
        bad == TooLong(blocks[stop])
    IN  /\ stopped <=> stop < Len(blocks) /\ ~bad
        /\ overflow <=> \/ bad
                        \/ stop = Len(blocks) /\ Len(Last(raw)) >= LineCap
=============================================================================
