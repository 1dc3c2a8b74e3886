-------------------------------- MODULE Sse --------------------------------
(***************************************************************************)
(* The server-sent events parser of src/src/sse.c: a push parser that is   *)
(* handed a connection's bytes in chunks of any size and calls back once   *)
(* per event.  One step of Next is one iteration of the loop in            *)
(* ssoossh_sse_feed, so a line, an event or the end of the stream may fall *)
(* anywhere in a chunk and a chunk anywhere in a line.                     *)
(*                                                                         *)
(* A byte is a token: the two field names the code compares with are one   *)
(* token each, and so is each piece of text.  The buffers' sizes are       *)
(* scaled down with them.                                                  *)
(***************************************************************************)
EXTENDS Integers, Sequences

CONSTANTS
  Text,        \* tokens without a meaning of their own
  Chunks,      \* what libcurl may deliver at once: a set of token sequences
  Terminal,    \* event names for which the callback answers `stop'
  LineCap,     \* sizeof s->line  (SSOOSSH_SSE_MAX_LINE)
  NameCap,     \* sizeof s->name
  DataCap,     \* sizeof s->data  (SSOOSSH_SSE_MAX_DATA)
  MaxChunks    \* bound: chunks fed between two calls of ssoossh_sse_init

Byte == Text \cup {"LF", "CR", ":", " ", "event", "data"}

ASSUME SseAssumption ==
  /\ LineCap \in Nat \ {0, 1} /\ NameCap \in Nat \ {0} /\ DataCap \in Nat \ {0}
  /\ MaxChunks \in Nat
  /\ Chunks \subseteq Seq(Byte)

VARIABLES
  line,        \* s->line[0 .. line_len)
  name,        \* s->name
  data,        \* s->data[0 .. data_len)
  haveEvent, overflow, stopped,
  unread,      \* the part of the chunk ssoossh_sse_feed has still to read
  sent,        \* history: everything fed since ssoossh_sse_init
  delivered,   \* history: the events called back since ssoossh_sse_init
  fed          \* number of chunks since ssoossh_sse_init

event == <<name, data, haveEvent>>
parser == <<line, name, data, haveEvent, overflow, stopped>>
vars == <<line, name, data, haveEvent, overflow, stopped, unread, sent,
          delivered, fed>>

Event == [name : Seq(Byte), data : Seq(Byte)]

TypeOK ==
  /\ line \in Seq(Byte) /\ name \in Seq(Byte) /\ data \in Seq(Byte)
  /\ haveEvent \in BOOLEAN /\ overflow \in BOOLEAN /\ stopped \in BOOLEAN
  /\ unread \in Seq(Byte) /\ sent \in Seq(Byte)
  /\ delivered \in Seq(Event)
  /\ fed \in 0..MaxChunks

Init ==
  /\ line = <<>> /\ name = <<>> /\ data = <<>>
  /\ haveEvent = FALSE /\ overflow = FALSE /\ stopped = FALSE
  /\ unread = <<>> /\ sent = <<>> /\ delivered = <<>> /\ fed = 0

-----------------------------------------------------------------------------
(* A line.                                                                 *)

\* sse.c:118-120: a CRLF stream leaves the CR at the end of the line.
Chomp(l) ==
  IF l # <<>> /\ l[Len(l)] = "CR" THEN SubSeq(l, 1, Len(l) - 1) ELSE l

\* sse.c:56-66: the field's name is what stands before the first colon.  A
\* comment begins with one, and a line without one is ignored like a comment.
IsField(l, field) == Len(l) > 1 /\ l[1] = field /\ l[2] = ":"

\* sse.c:68-72: one space after the colon is separator.
Value(l) ==
  IF Len(l) > 2 /\ l[3] = " " THEN SubSeq(l, 4, Len(l)) ELSE SubSeq(l, 3, Len(l))

\* sse.c:85-97: what s->data becomes when a data line is appended.
Joined(d, v) == IF d = <<>> THEN v ELSE d \o <<"LF">> \o v

\* sse.c:74-78 and 85-92: whether a value still fits, and its NUL.
NameFits_NoNul(v) == Len(v) <= NameCap
NameFits(v) == Len(v) < NameCap
DataFits_NewlineForgotten(d, v) == Len(d) + Len(v) + 1 <= DataCap
DataFits(d, v) == Len(Joined(d, v)) + 1 <= DataCap

-----------------------------------------------------------------------------
(* ssoossh_sse_feed, one byte at a time.                                   *)

\* The loop goes on with the next byte, or returns false and reads no more.
GoOn == unread' = Tail(unread)
Return == unread' = <<>>

\* sse.c:109-111: a finished stream is not fed again: the call returns false
\* and changes nothing, which is no step here.
FeedCalled(chunk) ==
  /\ unread = <<>> /\ fed < MaxChunks
  /\ ~overflow /\ ~stopped
  /\ unread' = chunk /\ sent' = sent \o chunk /\ fed' = fed + 1
  /\ UNCHANGED <<parser, delivered>>

\* sse.c:129-133.
TakeByte ==
  /\ unread # <<>> /\ Head(unread) # "LF"
  /\ Len(line) + 1 < LineCap
  /\ line' = Append(line, Head(unread))
  /\ GoOn
  /\ UNCHANGED <<event, overflow, stopped, sent, delivered, fed>>

LineTooLong ==
  /\ unread # <<>> /\ Head(unread) # "LF"
  /\ Len(line) + 1 >= LineCap
  /\ overflow' = TRUE
  /\ Return
  /\ UNCHANGED <<line, event, stopped, sent, delivered, fed>>

\* sse.c:116-127: the end of a line, whose content is l.
LineEnds(l) ==
  /\ unread # <<>> /\ Head(unread) = "LF"
  /\ l = Chomp(line)
  /\ line' = <<>>
  /\ UNCHANGED <<sent, fed>>

\* sse.c:33-35: the next event starts from nothing.
CleanEvent_NameKept == UNCHANGED name /\ data' = <<>> /\ haveEvent' = FALSE
CleanEvent == name' = <<>> /\ data' = <<>> /\ haveEvent' = FALSE

\* sse.c:46-48 and 22-37: a blank line calls back what has accumulated.
Dispatch ==
  /\ LineEnds(<<>>)
  /\ haveEvent
  /\ delivered' = Append(delivered, [name |-> name, data |-> data])
  /\ CleanEvent
  /\ stopped' = (name \in Terminal)
  /\ IF stopped' THEN Return ELSE GoOn
  /\ UNCHANGED overflow

DispatchNothing ==
  /\ LineEnds(<<>>)
  /\ ~haveEvent
  /\ CleanEvent
  /\ GoOn
  /\ UNCHANGED <<overflow, stopped, delivered>>

\* sse.c:50-63 and 103-104: a comment, a field without a value, another field.
IgnoreLine(l) ==
  /\ LineEnds(l)
  /\ l # <<>> /\ ~IsField(l, "event") /\ ~IsField(l, "data")
  /\ GoOn
  /\ UNCHANGED <<event, overflow, stopped, delivered>>

\* sse.c:74-83.
EventField(l) ==
  /\ LineEnds(l)
  /\ IsField(l, "event") /\ NameFits(Value(l))
  /\ name' = Value(l) /\ haveEvent' = TRUE
  /\ GoOn
  /\ UNCHANGED <<data, overflow, stopped, delivered>>

\* sse.c:85-101.
DataField(l) ==
  /\ LineEnds(l)
  /\ IsField(l, "data") /\ DataFits(data, Value(l))
  /\ data' = Joined(data, Value(l)) /\ haveEvent' = TRUE
  /\ GoOn
  /\ UNCHANGED <<name, overflow, stopped, delivered>>

\* sse.c:75-78 and 90-93.
FieldTooLong(l) ==
  /\ LineEnds(l)
  /\ \/ IsField(l, "event") /\ ~NameFits(Value(l))
     \/ IsField(l, "data") /\ ~DataFits(data, Value(l))
  /\ overflow' = TRUE
  /\ Return
  /\ UNCHANGED <<event, stopped, delivered>>

\* sse.c:9-18, called before each connection (httpc.c:725).
Restart ==
  /\ unread = <<>>
  /\ line' = <<>>
  /\ CleanEvent
  /\ overflow' = FALSE /\ stopped' = FALSE
  /\ sent' = <<>> /\ delivered' = <<>> /\ fed' = 0
  /\ UNCHANGED unread

Next ==
  \/ \E chunk \in Chunks : FeedCalled(chunk)
  \/ TakeByte
  \/ LineTooLong
  \/ Dispatch
  \/ DispatchNothing
  \/ IgnoreLine(Chomp(line))
  \/ EventField(Chomp(line))
  \/ DataField(Chomp(line))
  \/ FieldTooLong(Chomp(line))
  \/ Restart

Spec == Init /\ [][Next]_vars

-----------------------------------------------------------------------------
\* Every byte the parser stores, and the NUL after a name or a datum, is inside
\* its buffer: the line (sse.c:129-133), the name (sse.c:75-80, written without
\* looking again) and the data with the newline put in front (sse.c:88-98).
BuffersFit ==
  /\ Len(line) < LineCap
  /\ Len(name) + 1 <= NameCap
  /\ Len(data) + 1 <= DataCap
=============================================================================
