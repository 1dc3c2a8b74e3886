----------------------------- MODULE SseProofs -----------------------------
(***************************************************************************)
(* What the event-stream parser of sse.c gives its caller whatever the     *)
(* server sends, however it is cut into chunks, and whatever the sizes of  *)
(* the buffers: nothing is written outside them, a terminal event is the   *)
(* last one called back, the events called back are those of SseStream's   *)
(* reading of the whole stream, and the parser stops for no other cause    *)
(* than the one it names.                                                  *)
(*                                                                         *)
(* The last two rest on StreamInv, which says at every byte what the       *)
(* buffers hold in terms of the stream read so far.  That it is kept needs *)
(* what one more byte changes in the lines, the blocks and the values of a *)
(* stream (RawLines, Blocks, Values), which is most of this module.        *)
(***************************************************************************)
EXTENDS SseStream, Loops

\* At most one terminal event is called back, nothing after it, and the parser
\* says it stopped exactly then: the caller records one outcome (sse.c:22-37,
\* 109-111, 121-124; auth.c:129-170).
TerminalIsLast ==
  \A i \in 1..Len(delivered) :
    delivered[i].name \in Terminal <=> (stopped /\ i = Len(delivered))

\* Once it has stopped the rest of the chunk is not read either.
StoppedReadsNothing == stopped \/ overflow => unread = <<>>

IInv == TypeOK /\ BuffersFit /\ StoppedReadsNothing /\ TerminalIsLast

-----------------------------------------------------------------------------
\* What is left of a line after its CR, and of a field after its name, is
\* still a sequence of bytes (sse.c:68-72, 118-120).
LEMMA LineTypes ==
  ASSUME NEW l \in Seq(Byte)
  PROVE  Chomp(l) \in Seq(Byte) /\ Value(l) \in Seq(Byte)
<1>1. ASSUME NEW m \in 1..4, NEW n \in Int, n <= Len(l)
      PROVE  SubSeq(l, m, n) \in Seq(Byte)
  <2>1. \A i \in m..n : l[i] \in Byte
    BY <1>1, ElementOfSeq, LenProperties
  <2>2. QED
    BY <2>1, SubSeqProperties
<1>2. Len(l) \in Nat
  BY LenProperties
<1>3. Chomp(l) \in Seq(Byte)
  BY <1>1, <1>2 DEF Chomp
<1>4. Value(l) \in Seq(Byte)
  <2>1. Len(l) \in Int /\ Len(l) <= Len(l) /\ 3 \in 1..4 /\ 4 \in 1..4
    BY <1>2
  <2>2. SubSeq(l, 3, Len(l)) \in Seq(Byte) /\ SubSeq(l, 4, Len(l)) \in Seq(Byte)
    BY <1>1, <2>1
  <2>3. QED
    BY <2>2, Zenon DEF Value
<1>5. QED
  BY <1>3, <1>4

\* Joining a value to the data keeps it a sequence of bytes (sse.c:94-98).
LEMMA JoinedType ==
  ASSUME NEW d \in Seq(Byte), NEW v \in Seq(Byte)
  PROVE  Joined(d, v) \in Seq(Byte)
<1>1. <<"LF">> \in Seq(Byte)
  <2>1. "LF" \in Byte
    BY Zenon DEF Byte
  <2>2. QED
    BY <2>1
<1>2. QED
  BY <1>1, ConcatProperties DEF Joined

\* The empty parser: its buffers hold a NUL at most (sse.c:9-18).
LEMMA InvInit == Init => IInv
<1> SUFFICES ASSUME Init PROVE IInv
  OBVIOUS
<1>1. /\ <<>> \in Seq(Byte) /\ Len(<<>>) = 0
      /\ <<>> \in Seq(Event)
  BY EmptySeq
<1>2. TypeOK
  <2>1. delivered \in Seq(Event) /\ sent \in Seq(Byte) /\ unread \in Seq(Byte)
    BY <1>1 DEF Init
  <2>2. fed \in 0..MaxChunks
    BY SseAssumption DEF Init
  <2>3. line \in Seq(Byte) /\ name \in Seq(Byte) /\ data \in Seq(Byte)
    BY <1>1 DEF Init
  <2>4. QED
    BY <2>1, <2>2, <2>3 DEF Init, TypeOK
<1>3. BuffersFit
  BY <1>1, SseAssumption DEF Init, BuffersFit
<1>4. StoppedReadsNothing /\ TerminalIsLast
  BY <1>1 DEF Init, StoppedReadsNothing, TerminalIsLast
<1>5. QED
  BY <1>2, <1>3, <1>4 DEF IInv

\* The types survive every iteration of the loop (sse.c:106-136).
LEMMA TypeStep ==
  ASSUME TypeOK, [Next]_vars
  PROVE  TypeOK'
<1> USE SseAssumption
<1>0. \A l \in Seq(Byte) : l # <<>> =>
        Head(l) \in Byte /\ Tail(l) \in Seq(Byte)
  BY HeadTailProperties
<1>a. /\ <<>> \in Seq(Byte) /\ unread \in Seq(Byte)
      /\ <<>> \in Seq(Event)
  BY EmptySeq DEF TypeOK
<1>b. Chomp(line) \in Seq(Byte) /\ Value(Chomp(line)) \in Seq(Byte)
  BY LineTypes DEF TypeOK
<1>1. ASSUME NEW chunk \in Chunks, FeedCalled(chunk) PROVE TypeOK'
  <2>1. chunk \in Seq(Byte) /\ sent \o chunk \in Seq(Byte)
    BY ConcatProperties DEF TypeOK
  <2>2. QED
    BY <1>1, <2>1 DEF TypeOK, FeedCalled, parser
<1>2. CASE TakeByte
  <2>1. Append(line, Head(unread)) \in Seq(Byte)
    BY <1>2, <1>0 DEF TypeOK, TakeByte
  <2>2. QED
    BY <1>2, <1>0, <2>1 DEF TypeOK, TakeByte, GoOn, event
<1>3. CASE LineTooLong
  BY <1>3, <1>a DEF TypeOK, LineTooLong, Return, event
<1>4. CASE Dispatch
  <2>1. Append(delivered, [name |-> name, data |-> data])
          \in Seq(Event)
    <3>1. [name |-> name, data |-> data] \in Event
      BY DEF TypeOK, Event
    <3>2. QED
      BY <3>1 DEF TypeOK
  <2>2. unread' \in Seq(Byte)
    BY <1>4, <1>0, <1>a DEF Dispatch, LineEnds, Return, GoOn
  <2>3. stopped' \in BOOLEAN
    <3>1. CASE name \in Terminal
      BY <1>4, <3>1 DEF Dispatch
    <3>2. CASE name \notin Terminal
      BY <1>4, <3>2 DEF Dispatch
    <3>3. QED
      BY <3>1, <3>2
  <2>4. /\ line' = <<>> /\ name' = <<>> /\ data' = <<>> /\ haveEvent' = FALSE
        /\ delivered' = Append(delivered, [name |-> name, data |-> data])
        /\ UNCHANGED <<overflow, sent, fed>>
    BY <1>4 DEF Dispatch, LineEnds, CleanEvent
  <2>5. QED
    BY <1>a, <2>1, <2>2, <2>3, <2>4 DEF TypeOK
<1>5. CASE DispatchNothing
  BY <1>5, <1>0, <1>a DEF TypeOK, DispatchNothing, LineEnds, CleanEvent, GoOn
<1>6. CASE IgnoreLine(Chomp(line))
  BY <1>6, <1>0, <1>a DEF TypeOK, IgnoreLine, LineEnds, GoOn, event
<1>7. CASE EventField(Chomp(line))
  BY <1>7, <1>0, <1>a, <1>b DEF TypeOK, EventField, LineEnds, GoOn
<1>8. CASE DataField(Chomp(line))
  <2>1. Joined(data, Value(Chomp(line))) \in Seq(Byte)
    BY <1>b, JoinedType DEF TypeOK
  <2>2. QED
    BY <1>8, <1>0, <1>a, <2>1 DEF TypeOK, DataField, LineEnds, GoOn
<1>9. CASE FieldTooLong(Chomp(line))
  BY <1>9, <1>a DEF TypeOK, FieldTooLong, LineEnds, Return, event
<1>10. CASE Restart
  <2>1. delivered' \in Seq(Event) /\ sent' \in Seq(Byte) /\ unread' \in Seq(Byte)
    BY <1>10, <1>a DEF Restart
  <2>2. fed' \in 0..MaxChunks
    BY <1>10 DEF Restart
  <2>3. line' \in Seq(Byte) /\ name' \in Seq(Byte) /\ data' \in Seq(Byte)
    BY <1>10, <1>a DEF Restart, CleanEvent
  <2>4. QED
    BY <1>10, <2>1, <2>2, <2>3 DEF TypeOK, Restart, CleanEvent
<1>11. CASE UNCHANGED vars
  BY <1>11 DEF TypeOK, vars
<1>12. QED
  BY <1>1, <1>2, <1>3, <1>4, <1>5, <1>6, <1>7, <1>8, <1>9, <1>10, <1>11 DEF Next

\* A byte is stored only after its room has been looked for, the newline and
\* the NUL counted (sse.c:75, 90, 129).
LEMMA BuffersStep ==
  ASSUME TypeOK, TypeOK', BuffersFit, [Next]_vars
  PROVE  BuffersFit'
<1> USE SseAssumption DEF BuffersFit
<1>0. Len(<<>>) = 0
  BY EmptySeq
<1>a. Len(line) \in Nat /\ Len(name') \in Nat /\ Len(data') \in Nat
  BY LenProperties DEF TypeOK
<1>1. CASE \E chunk \in Chunks : FeedCalled(chunk)
  BY <1>1 DEF FeedCalled, parser
<1>2. CASE TakeByte
  <2>1. Len(line') = Len(line) + 1
    BY <1>2, HeadTailProperties DEF TypeOK, TakeByte
  <2>2. QED
    BY <1>2, <2>1 DEF TakeByte, event
<1>3. CASE LineTooLong
  BY <1>3 DEF LineTooLong, event
<1>4. CASE Dispatch \/ DispatchNothing
  BY <1>4, <1>0 DEF Dispatch, DispatchNothing, LineEnds, CleanEvent
<1>5. CASE IgnoreLine(Chomp(line)) \/ FieldTooLong(Chomp(line))
  BY <1>5, <1>0 DEF IgnoreLine, FieldTooLong, LineEnds, event
<1>6. CASE EventField(Chomp(line))
  BY <1>6, <1>0, <1>a DEF EventField, LineEnds, NameFits
<1>7. CASE DataField(Chomp(line))
  BY <1>7, <1>0 DEF DataField, LineEnds, DataFits
<1>8. CASE Restart
  BY <1>8, <1>0 DEF Restart, CleanEvent
<1>9. CASE UNCHANGED vars
  BY <1>9 DEF vars
<1>10. QED
  BY <1>1, <1>2, <1>3, <1>4, <1>5, <1>6, <1>7, <1>8, <1>9 DEF Next

\* Stopping ends the call that noticed it (sse.c:121-124, 129-132).
LEMMA StoppedStep ==
  ASSUME StoppedReadsNothing, [Next]_vars
  PROVE  StoppedReadsNothing'
<1> USE DEF StoppedReadsNothing
<1>1. CASE \E chunk \in Chunks : FeedCalled(chunk)
  BY <1>1 DEF FeedCalled, parser
<1>2. CASE LineTooLong \/ FieldTooLong(Chomp(line))
  BY <1>2 DEF LineTooLong, FieldTooLong, Return
<1>3. CASE Dispatch
  BY <1>3 DEF Dispatch, LineEnds, Return
<1>4. CASE \/ TakeByte \/ DispatchNothing \/ IgnoreLine(Chomp(line))
           \/ EventField(Chomp(line)) \/ DataField(Chomp(line))
  BY <1>4 DEF TakeByte, DispatchNothing, IgnoreLine, EventField, DataField,
              LineEnds
<1>5. CASE Restart
  BY <1>5 DEF Restart
<1>6. CASE UNCHANGED vars
  BY <1>6 DEF vars
<1>7. QED
  BY <1>1, <1>2, <1>3, <1>4, <1>5, <1>6 DEF Next

\* Only Dispatch adds an event, and only while the parser has not stopped
\* (sse.c:22-37).
LEMMA TerminalStep ==
  ASSUME TypeOK, StoppedReadsNothing, TerminalIsLast, [Next]_vars
  PROVE  TerminalIsLast'
<1> USE DEF TerminalIsLast
<1>1. CASE Dispatch
  <2> DEFINE new == [name |-> name, data |-> data]
  <2>1. ~stopped /\ delivered' = Append(delivered, new)
    BY <1>1 DEF Dispatch, LineEnds, StoppedReadsNothing
  <2>2. /\ Len(delivered') = Len(delivered) + 1 /\ Len(delivered) \in Nat
        /\ delivered'[Len(delivered) + 1] = new
        /\ \A i \in 1..Len(delivered) : delivered'[i] = delivered[i]
    BY <2>1 DEF TypeOK
  <2>3. stopped' <=> new.name \in Terminal
    BY <1>1 DEF Dispatch
  <2> HIDE DEF new
  <2>4. QED
    BY <2>1, <2>2, <2>3
<1>2. CASE Restart
  BY <1>2, EmptySeq DEF Restart
<1>3. CASE /\ UNCHANGED <<delivered, stopped>>
  BY <1>3
<1>4. ~Dispatch /\ ~Restart => UNCHANGED <<delivered, stopped>>
  BY DEF Next, vars, FeedCalled, TakeByte, LineTooLong, DispatchNothing,
         IgnoreLine, EventField, DataField, FieldTooLong, LineEnds, parser
<1>5. QED
  BY <1>1, <1>2, <1>3, <1>4

\* Every byte, every callback and a new connection keep it (sse.c:106-137).
LEMMA InvStep == IInv /\ [Next]_vars => IInv'
  BY TypeStep, BuffersStep, StoppedStep, TerminalStep DEF IInv

\* What holds of the parser after any bytes of any connection.
THEOREM Invariance == Spec => []IInv
  BY InvInit, InvStep, PTL DEF Spec

-----------------------------------------------------------------------------
\* The parser's state is always well formed (sse.h:39-60).
THEOREM TypeCorrect == Spec => []TypeOK
<1>1. IInv => TypeOK
  BY DEF IInv
<1>2. QED
  BY <1>1, Invariance, PTL

\* No stream makes the parser write outside its buffers, whatever their sizes
\* and wherever the chunks end (sse.c:75-80, 88-98, 129-133).
THEOREM BuffersAlwaysFit == Spec => []BuffersFit
<1>1. IInv => BuffersFit
  BY DEF IInv
<1>2. QED
  BY <1>1, Invariance, PTL

\* The callback is never called again after it has said stop, and `stopped'
\* always means that it has (sse.c:26-31, 109-111).
THEOREM StopsAtTerminal == Spec => []TerminalIsLast
<1>1. IInv => TerminalIsLast
  BY DEF IInv
<1>2. QED
  BY <1>1, Invariance, PTL

-----------------------------------------------------------------------------
(* Positions in a text, and the k-th of some.                              *)

\* How many of a set of positions are among the first i.
Rank(at, i) == Cardinality({j \in at : j <= i})

\* Positions in a text of m bytes, of which the next one may be another.
LEMMA Ranks ==
  ASSUME NEW m \in Nat, NEW at \in SUBSET (1..m)
  PROVE  /\ IsFiniteSet(at) /\ Cardinality(at) \in Nat
         /\ \A i \in Nat : Rank(at, i) \in Nat
         /\ \A i \in Nat : i >= m => Rank(at, i) = Cardinality(at)
         /\ \A i, j \in Nat : i <= j => Rank(at, i) <= Rank(at, j)
         /\ \A i \in at, j \in Nat : j < i => Rank(at, j) < Rank(at, i)
         /\ Cardinality(at \cup {m + 1}) = Cardinality(at) + 1
<1>0. \A i \in at : i \in Nat /\ 1 <= i /\ i <= m
  OBVIOUS
<1>1. IsFiniteSet(at) /\ Cardinality(at) \in Nat
  <2>1. IsFiniteSet(1..m)
    BY FS_Interval
  <2>2. QED
    BY <2>1, FS_Subset, FS_CardinalityType
<1>2. \A i \in Nat : IsFiniteSet({j \in at : j <= i})
  BY <1>1, FS_Subset
<1>3. \A i \in Nat : Rank(at, i) \in Nat
  BY <1>2, FS_CardinalityType DEF Rank
<1>4. \A i \in Nat : i >= m => Rank(at, i) = Cardinality(at)
  <2> SUFFICES ASSUME NEW i \in Nat, i >= m PROVE Rank(at, i) = Cardinality(at)
    OBVIOUS
  <2>0. \A j \in at : j <= i
    BY <1>0
  <2>1. {j \in at : j <= i} = at
    BY <2>0
  <2>2. QED
    BY <2>1 DEF Rank
<1>5. \A i, j \in Nat : i <= j => Rank(at, i) <= Rank(at, j)
  <2> SUFFICES ASSUME NEW i \in Nat, NEW j \in Nat, i <= j
               PROVE  Rank(at, i) <= Rank(at, j)
    OBVIOUS
  <2>0. \A k \in at : k <= i => k <= j
    BY <1>0
  <2>1. {k \in at : k <= i} \in SUBSET {k \in at : k <= j}
    BY <2>0
  <2>2. QED
    BY <1>2, <2>1, FS_Subset DEF Rank
<1>6. \A i \in at, j \in Nat : j < i => Rank(at, j) < Rank(at, i)
  <2> SUFFICES ASSUME NEW i \in at, NEW j \in Nat, j < i
               PROVE  Rank(at, j) < Rank(at, i)
    OBVIOUS
  <2>0. i \in Nat /\ i <= i /\ ~(i <= j) /\ \A k \in at : k <= j => k <= i
    BY <1>0
  <2>1. /\ {k \in at : k <= j} \in SUBSET {k \in at : k <= i}
        /\ i \in {k \in at : k <= i} /\ i \notin {k \in at : k <= j}
    BY <2>0
  <2>2. Rank(at, j) <= Rank(at, i) /\ Rank(at, j) # Rank(at, i)
    BY <1>2, <2>0, <2>1, FS_Subset DEF Rank
  <2>3. QED
    BY <1>3, <2>0, <2>2
<1>7. Cardinality(at \cup {m + 1}) = Cardinality(at) + 1
  <2>1. m + 1 \notin at
    OBVIOUS
  <2>2. QED
    BY <1>1, <2>1, FS_AddElement
<1>8. QED
  BY <1>1, <1>3, <1>4, <1>5, <1>6, <1>7

\* There is a k-th position, and one only.
LEMMA NthIsThere ==
  ASSUME NEW m \in Nat, NEW at \in SUBSET (1..m)
  PROVE  /\ \A k \in 1..Cardinality(at) : Nth(at, k) \in at /\ Rank(at, Nth(at, k)) = k
         /\ \A i \in at : Rank(at, i) \in 1..Cardinality(at) /\ Nth(at, Rank(at, i)) = i
<1> DEFINE S == {n \in Nat : \A A \in SUBSET (1..n) : \A k \in 1..Cardinality(A) :
                               \E i \in A : Rank(A, i) = k}
<1>1. 0 \in S
  <2>1. \A A \in SUBSET (1..0) : 1..Cardinality(A) = {}
    <3> TAKE A \in SUBSET (1..0)
    <3>1. A = {} /\ Cardinality({}) = 0
      BY FS_EmptySet
    <3>2. Cardinality(A) = 0
      BY <3>1, Zenon
    <3>3. 1..0 = {}
      OBVIOUS
    <3>4. QED
      BY <3>2, <3>3, Zenon
  <2> SUFFICES ASSUME NEW A \in SUBSET (1..0), NEW k \in 1..Cardinality(A)
               PROVE  \E i \in A : Rank(A, i) = k
    OBVIOUS
  <2>2. k \in {}
    BY <2>1, Zenon
  <2>3. QED
    BY <2>2, Zenon
<1>2. \A n \in Nat : n \in S => n + 1 \in S
  <2> TAKE n \in Nat
  <2> HAVE n \in S
  <2> SUFFICES ASSUME NEW A \in SUBSET (1..n + 1), NEW k \in 1..Cardinality(A)
               PROVE  \E i \in A : Rank(A, i) = k
    OBVIOUS
  <2> DEFINE B == A \ {n + 1}
  <2>1. B \subseteq 1..n /\ B \in SUBSET (1..n)
    OBVIOUS
  <2>2. \A i \in B : Rank(A, i) = Rank(B, i)
    <3> TAKE i \in B
    <3>1. {j \in A : j <= i} = {j \in B : j <= i}
      OBVIOUS
    <3>2. QED
      BY <3>1 DEF Rank
  <2>3. CASE n + 1 \notin A
    <3>1. A = B
      BY <2>3
    <3>2. QED
      BY <2>1, <3>1
  <2>4. CASE n + 1 \in A
    <3>1. A = B \cup {n + 1}
      BY <2>4
    <3>2. Cardinality(A) = Cardinality(B) + 1 /\ Cardinality(B) \in Nat
      <4> HIDE DEF B
      <4>1. Cardinality(B \cup {n + 1}) = Cardinality(B) + 1
        BY <2>1, Ranks, Zenon
      <4>2. Cardinality(B) \in Nat
        BY <2>1, Ranks, Zenon
      <4>3. QED
        BY <3>1, <4>1, <4>2, Zenon
    <3>3. n + 1 \in Nat /\ A \in SUBSET (1..n + 1)
      OBVIOUS
    <3>4. Rank(A, n + 1) = Cardinality(A)
      <4> DEFINE last == n + 1
      <4> HIDE DEF last
      <4>1. last \in Nat /\ A \in SUBSET (1..last) /\ last >= last
        BY <3>3 DEF last
      <4>2. Rank(A, last) = Cardinality(A)
        BY <4>1, Ranks
      <4>3. QED
        BY <4>2 DEF last
    <3>5. CASE k = Cardinality(A)
      BY <2>4, <3>4, <3>5
    <3>6. CASE k # Cardinality(A)
      <4>1. k \in 1..Cardinality(B)
        BY <3>2, <3>6
      <4> HIDE DEF B
      <4>2. PICK i \in B : Rank(B, i) = k
        BY <2>1, <4>1
      <4>3. i \in A
        BY DEF B
      <4>4. QED
        BY <2>2, <4>2, <4>3
    <3>7. QED
      BY <3>5, <3>6
  <2>5. QED
    BY <2>3, <2>4
<1> HIDE DEF S
<1>3. m \in S
  BY <1>1, <1>2, Iterations
<1>4. \A k \in 1..Cardinality(at) : \E i \in at : Rank(at, i) = k
  BY <1>3 DEF S
<1>5. \A k \in 1..Cardinality(at) : Nth(at, k) \in at /\ Rank(at, Nth(at, k)) = k
  BY <1>4 DEF Nth, Rank
<1>a. /\ Cardinality(at) \in Nat
      /\ \A i \in Nat : Rank(at, i) \in Nat
      /\ \A i \in Nat : i >= m => Rank(at, i) = Cardinality(at)
      /\ \A i, j \in Nat : i <= j => Rank(at, i) <= Rank(at, j)
      /\ \A i \in at, j \in Nat : j < i => Rank(at, j) < Rank(at, i)
  BY Ranks
<1>6. \A i, j \in at : Rank(at, i) = Rank(at, j) => i = j
  <2> SUFFICES ASSUME NEW i \in at, NEW j \in at, Rank(at, i) = Rank(at, j), i # j
               PROVE  FALSE
    OBVIOUS
  <2>0. i \in Nat /\ j \in Nat
    OBVIOUS
  <2>1. i \in Nat /\ j \in Nat /\ Rank(at, i) \in Nat /\ Rank(at, j) \in Nat
    BY <2>0, <1>a
  <2>2. i < j \/ j < i
    BY <2>1
  <2>3. QED
    BY <2>1, <2>2, <1>a
<1>7. \A i \in at : Rank(at, i) \in 1..Cardinality(at) /\ Nth(at, Rank(at, i)) = i
  <2> TAKE i \in at
  <2>1. i \in Nat /\ i <= m /\ i - 1 \in Nat /\ i - 1 < i
    OBVIOUS
  <2>2. /\ Rank(at, i) \in Nat /\ Rank(at, i - 1) \in Nat
        /\ Rank(at, i - 1) < Rank(at, i) /\ Rank(at, i) <= Rank(at, m)
        /\ Rank(at, m) = Cardinality(at) /\ Cardinality(at) \in Nat
    BY <2>1, <1>a
  <2>3. Rank(at, i) \in 1..Cardinality(at)
    BY <2>2
  <2>4. QED
    BY <1>5, <1>6, <2>3
<1>8. QED
  BY <1>5, <1>7

\* One more position after them all is the last, and the others keep theirs.
LEMMA NthOfMore ==
  ASSUME NEW m \in Nat, NEW at \in SUBSET (1..m)
  PROVE  /\ \A k \in 1..Cardinality(at) : Nth(at \cup {m + 1}, k) = Nth(at, k)
         /\ Nth(at \cup {m + 1}, Cardinality(at) + 1) = m + 1
<1> DEFINE last == m + 1
           all == at \cup {last}
<1>1. last \in Nat /\ all \in SUBSET (1..last) /\ last \in all
  OBVIOUS
<1>2. /\ Cardinality(at) \in Nat /\ Cardinality(all) = Cardinality(at) + 1
  BY Ranks
<1>3. \A i \in at : i \in all /\ i <= m /\ Rank(all, i) = Rank(at, i)
  <2> TAKE i \in at
  <2>0. i <= m /\ ~(last <= i) /\ i \in all
    OBVIOUS
  <2>1. {j \in all : j <= i} = {j \in at : j <= i}
    BY <2>0
  <2>2. QED
    BY <2>0, <2>1 DEF Rank
<1> HIDE DEF all, last
<1>4. Rank(all, last) = Cardinality(all)
  <2>1. last >= last
    BY <1>1
  <2>2. \A i \in Nat : i >= last => Rank(all, i) = Cardinality(all)
    BY <1>1, Ranks
  <2>3. QED
    BY <1>1, <2>1, <2>2
<1>5. \A i \in all : Nth(all, Rank(all, i)) = i
  BY <1>1, NthIsThere
<1>6. \A k \in 1..Cardinality(at) : Nth(at, k) \in at /\ Rank(at, Nth(at, k)) = k
  BY NthIsThere
<1>7. \A k \in 1..Cardinality(at) : Nth(all, k) = Nth(at, k)
  <2> TAKE k \in 1..Cardinality(at)
  <2>1. Nth(at, k) \in all /\ Rank(all, Nth(at, k)) = k
    BY <1>3, <1>6
  <2>2. QED
    BY <1>5, <2>1
<1>8. Nth(all, Cardinality(at) + 1) = last
  BY <1>1, <1>2, <1>4, <1>5
<1>9. QED
  BY <1>7, <1>8 DEF all, last

\* Two lists have the same elements at those positions.
SameIn(s, t, at) == \A i \in at : t[i] = s[i]

\* What is picked depends on the elements at those positions only.
LEMMA PickedSame ==
  ASSUME NEW m \in Nat, NEW at \in SUBSET (1..m), NEW s, NEW t, SameIn(s, t, at)
  PROVE  Picked(s, at) = Picked(t, at)
<1>1. \A k \in 1..Cardinality(at) : Nth(at, k) \in at
  BY NthIsThere
<1>2. \A k \in 1..Cardinality(at) : s[Nth(at, k)] = t[Nth(at, k)]
  BY <1>1 DEF SameIn
<1>3. QED
  BY <1>2, Zenon DEF Picked

\* Every element at those positions is one of R.
AllIn(s, at, R) == \A i \in at : s[i] \in R

\* What is picked is a list of as many elements as there are positions.
LEMMA PickedIsList ==
  ASSUME NEW m \in Nat, NEW at \in SUBSET (1..m), NEW R, NEW s, AllIn(s, at, R)
  PROVE  /\ Picked(s, at) \in Seq(R) /\ Len(Picked(s, at)) = Cardinality(at)
         /\ \A k \in 1..Cardinality(at) : Picked(s, at)[k] = s[Nth(at, k)]
<1> DEFINE n == Cardinality(at)
           p == [k \in 1..n |-> s[Nth(at, k)]]
<1>1. n \in Nat
  BY Ranks
<1>2. \A k \in 1..n : Nth(at, k) \in at
  BY NthIsThere
<1>3. p \in [1..n -> R] /\ DOMAIN p = 1..n /\ \A k \in 1..n : p[k] = s[Nth(at, k)]
  BY <1>2 DEF AllIn
<1> HIDE DEF p, n
<1>4. p \in Seq(R)
  BY <1>1, <1>3, SeqDef
<1>5. Len(p) = n
  <2>1. DOMAIN p = 1..Len(p) /\ Len(p) \in Nat
    BY <1>4, LenProperties
  <2>2. QED
    BY <1>1, <1>3, <2>1
<1>6. Picked(s, at) = p
  BY DEF Picked, p, n
<1>7. QED
  BY <1>3, <1>4, <1>5, <1>6 DEF n

\* Of t one more element of R is picked than of s: the last.
Grows(s, at, t, all, new, R) ==
  /\ new \in Nat \ {0} /\ at \in SUBSET (1..new - 1) /\ all = at \cup {new}
  /\ t[new] \in R /\ AllIn(s, at, R) /\ SameIn(s, t, at)

\* An element more that is picked comes after the others.
LEMMA PickedMore ==
  ASSUME NEW s, NEW at, NEW t, NEW more, NEW new, NEW R, Grows(s, at, t, more, new, R)
  PROVE  Picked(t, more) = Append(Picked(s, at), t[new])
<1> DEFINE m == new - 1
<1>0. m \in Nat /\ at \in SUBSET (1..m) /\ new = m + 1
      /\ AllIn(s, at, R) /\ SameIn(s, t, at) /\ t[new] \in R
  BY DEF Grows
<1> HIDE DEF m
<1>p. /\ Picked(s, at) \in Seq(R) /\ Len(Picked(s, at)) = Cardinality(at)
      /\ \A k \in 1..Cardinality(at) : Picked(s, at)[k] = s[Nth(at, k)]
  BY <1>0, PickedIsList, Zenon
<1>a. \A k \in 1..Cardinality(at) : Nth(at, k) \in at
  BY <1>0, NthIsThere
<1>b. /\ \A k \in 1..Cardinality(at) : Nth(at \cup {m + 1}, k) = Nth(at, k)
      /\ Nth(at \cup {m + 1}, Cardinality(at) + 1) = m + 1
  BY <1>0, NthOfMore
<1> DEFINE last == m + 1
           n == Cardinality(at)
           all == at \cup {last}
           p == Picked(s, at)
           q == Picked(t, all)
<1>1. p \in Seq(R) /\ Len(p) = n /\ \A k \in 1..n : p[k] = s[Nth(at, k)]
  BY <1>p
<1>2. n \in Nat /\ Cardinality(all) = n + 1
  BY <1>0, Ranks
<1>3. /\ \A k \in 1..n : Nth(at, k) \in at /\ Nth(all, k) = Nth(at, k)
      /\ Nth(all, n + 1) = last
  BY <1>a, <1>b
<1>4. q \in Seq(R) /\ Len(q) = n + 1 /\ \A k \in 1..n + 1 : q[k] = t[Nth(all, k)]
  <2>1. last \in Nat /\ all \in SUBSET (1..last)
    BY <1>0
  <2>2. AllIn(t, all, R)
    BY <1>0 DEF AllIn, SameIn
  <2> HIDE DEF last, all
  <2>3. /\ Picked(t, all) \in Seq(R) /\ Len(Picked(t, all)) = Cardinality(all)
        /\ \A k \in 1..Cardinality(all) : Picked(t, all)[k] = t[Nth(all, k)]
    BY <2>1, <2>2, PickedIsList
  <2>4. QED
    BY <1>2, <2>3
<1>5. t[last] \in R
  BY <1>0
<1> HIDE DEF p, q, n, all, last
<1>6. /\ Append(p, t[last]) \in Seq(R) /\ Len(Append(p, t[last])) = n + 1
      /\ \A k \in 1..n : Append(p, t[last])[k] = p[k]
      /\ Append(p, t[last])[n + 1] = t[last]
  BY <1>1, <1>5, AppendProperties
<1>7. \A k \in 1..n + 1 : q[k] = Append(p, t[last])[k]
  <2> TAKE k \in 1..n + 1
  <2>1. CASE k = n + 1
    BY <1>3, <1>4, <1>6, <2>1
  <2>2. CASE k # n + 1
    <3>1. k \in 1..n
      BY <1>2, <2>2
    <3>2. q[k] = t[Nth(at, k)] /\ p[k] = s[Nth(at, k)] /\ Nth(at, k) \in at
      BY <1>1, <1>3, <1>4, <3>1
    <3>3. QED
      BY <1>0, <1>6, <3>1, <3>2 DEF SameIn
  <2>3. QED
    BY <2>1, <2>2
<1>8. q = Append(p, t[last])
  BY <1>4, <1>6, <1>7, SeqEqual
<1>9. QED
  BY <1>0, <1>8 DEF p, q, all, last, Grows

-----------------------------------------------------------------------------
(* A text cut at some positions, one element later.                        *)

\* What was read is not changed by what comes after it.
LEMMA PartOfMore ==
  ASSUME NEW R, NEW s \in Seq(R), NEW c \in R,
         NEW a \in Nat \ {0}, NEW b \in Nat, b <= Len(s)
  PROVE  /\ SubSeq(s, a, b) \in Seq(R)
         /\ SubSeq(Append(s, c), a, b) = SubSeq(s, a, b)
<1> DEFINE t == Append(s, c)
<1>1. Len(s) \in Nat /\ \A i \in 1..Len(s) : s[i] \in R
  BY LenProperties, ElementOfSeq
<1>2. \A i \in 1..Len(s) : t[i] = s[i]
  BY AppendProperties
<1>3. \A i \in a..b : i \in 1..Len(s)
  BY <1>1
<1>4. \A i \in a..b : s[i] \in R /\ t[i] \in R /\ t[i] = s[i]
  BY <1>1, <1>2, <1>3
<1> HIDE DEF t
<1>5. a \in Int /\ b \in Int
  OBVIOUS
<1>6. /\ SubSeq(s, a, b) \in Seq(R) /\ Len(SubSeq(s, a, b)) = IF a <= b THEN b - a + 1 ELSE 0
      /\ \A i \in 1..b - a + 1 : SubSeq(s, a, b)[i] = s[a + i - 1]
  BY <1>4, <1>5, SubSeqProperties
<1>7. /\ SubSeq(t, a, b) \in Seq(R) /\ Len(SubSeq(t, a, b)) = IF a <= b THEN b - a + 1 ELSE 0
      /\ \A i \in 1..b - a + 1 : SubSeq(t, a, b)[i] = t[a + i - 1]
  BY <1>4, <1>5, SubSeqProperties
<1>8. \A i \in 1..Len(SubSeq(s, a, b)) : SubSeq(s, a, b)[i] = SubSeq(t, a, b)[i]
  <2> TAKE i \in 1..Len(SubSeq(s, a, b))
  <2>1. i \in 1..b - a + 1 /\ a + i - 1 \in a..b
    BY <1>6
  <2>2. QED
    BY <1>4, <1>6, <1>7, <2>1
<1>9. SubSeq(t, a, b) = SubSeq(s, a, b)
  BY <1>6, <1>7, <1>8, SeqEqual
<1>10. QED
  BY <1>6, <1>9 DEF t

\* The unfinished part grows by what comes.
LEMMA RestOfMore ==
  ASSUME NEW R, NEW s \in Seq(R), NEW c \in R, NEW a \in 1..Len(s) + 1
  PROVE  SubSeq(Append(s, c), a, Len(s) + 1) = Append(SubSeq(s, a, Len(s)), c)
<1> DEFINE n == Len(s)
           t == Append(s, c)
           p == SubSeq(s, a, n)
           q == SubSeq(t, a, n + 1)
<1>1. n \in Nat /\ a \in Nat \ {0} /\ a <= n + 1 /\ \A i \in 1..n : s[i] \in R
  BY LenProperties, ElementOfSeq
<1>2. t[n + 1] = c /\ \A i \in 1..n : t[i] = s[i]
  BY AppendProperties
<1> HIDE DEF n, t
<1>3. /\ \A i \in a..n : s[i] \in R
      /\ \A i \in a..n + 1 : t[i] \in R
  <2>1. \A i \in a..n : i \in 1..n
    BY <1>1
  <2>2. \A i \in a..n + 1 : i \in 1..n \/ i = n + 1
    BY <1>1
  <2>3. QED
    BY <1>1, <1>2, <2>1, <2>2
<1>4. a \in Int /\ n \in Int /\ n + 1 \in Int
  BY <1>1
<1>5. /\ p \in Seq(R) /\ Len(p) = IF a <= n THEN n - a + 1 ELSE 0
      /\ \A i \in 1..n - a + 1 : p[i] = s[a + i - 1]
  BY <1>3, <1>4, SubSeqProperties
<1>6. /\ q \in Seq(R) /\ Len(q) = IF a <= n + 1 THEN n + 1 - a + 1 ELSE 0
      /\ \A i \in 1..n + 1 - a + 1 : q[i] = t[a + i - 1]
  BY <1>3, <1>4, SubSeqProperties
<1> HIDE DEF p, q
<1>7. Len(p) = n - a + 1 /\ Len(q) = n - a + 2
  BY <1>1, <1>5, <1>6
<1>8. /\ Append(p, c) \in Seq(R) /\ Len(Append(p, c)) = n - a + 2
      /\ \A i \in 1..n - a + 1 : Append(p, c)[i] = p[i]
      /\ Append(p, c)[n - a + 2] = c
  <2>1. /\ Append(p, c) \in Seq(R) /\ Len(Append(p, c)) = Len(p) + 1
        /\ \A i \in 1..Len(p) : Append(p, c)[i] = p[i]
        /\ Append(p, c)[Len(p) + 1] = c
    BY <1>5, AppendProperties
  <2>2. Len(p) + 1 = n - a + 2
    BY <1>1, <1>7
  <2>3. QED
    BY <1>7, <2>1, <2>2
<1>9. \A i \in 1..n - a + 2 : q[i] = Append(p, c)[i]
  <2> TAKE i \in 1..n - a + 2
  <2>1. q[i] = t[a + i - 1]
    BY <1>1, <1>6
  <2>2. CASE i = n - a + 2
    <3>1. a + i - 1 = n + 1
      BY <1>1, <2>2
    <3>2. QED
      BY <1>2, <1>8, <2>1, <2>2, <3>1
  <2>3. CASE i # n - a + 2
    <3>1. i \in 1..n - a + 1 /\ a + i - 1 \in 1..n
      BY <1>1, <2>3
    <3>2. QED
      BY <1>2, <1>5, <1>8, <2>1, <3>1
  <2>4. QED
    BY <2>2, <2>3
<1>10. q = Append(p, c)
  BY <1>6, <1>7, <1>8, <1>9, SeqEqual
<1>11. QED
  BY <1>10 DEF n, t, p, q

\* Lists that differ in the last element only.
LEMMA FrontSame ==
  ASSUME NEW R, NEW n \in Nat, NEW p, NEW q
  PROVE  p \in Seq(R) /\ q \in Seq(R) /\ Len(p) = n + 1 /\ Len(q) = n + 1
         /\ (\A k \in 1..n : q[k] = p[k]) => Front(q) = Front(p)
<1>0. HAVE p \in Seq(R) /\ q \in Seq(R) /\ Len(p) = n + 1 /\ Len(q) = n + 1
           /\ \A k \in 1..n : q[k] = p[k]
<1>1. Front(p) = SubSeq(p, 1, n) /\ Front(q) = SubSeq(q, 1, n)
  BY <1>0 DEF Front
<1>2. \A k \in 1..n : p[k] \in R /\ q[k] \in R
  BY <1>0, ElementOfSeq
<1>3. /\ SubSeq(p, 1, n) \in Seq(R) /\ Len(SubSeq(p, 1, n)) = IF 1 <= n THEN n - 1 + 1 ELSE 0
      /\ \A k \in 1..n - 1 + 1 : SubSeq(p, 1, n)[k] = p[1 + k - 1]
  BY <1>2, SubSeqProperties
<1>4. /\ SubSeq(q, 1, n) \in Seq(R) /\ Len(SubSeq(q, 1, n)) = IF 1 <= n THEN n - 1 + 1 ELSE 0
      /\ \A k \in 1..n - 1 + 1 : SubSeq(q, 1, n)[k] = q[1 + k - 1]
  BY <1>2, SubSeqProperties
<1>5. \A k \in 1..n : SubSeq(q, 1, n)[k] = SubSeq(p, 1, n)[k]
  <2> TAKE k \in 1..n
  <2>1. k \in 1..n - 1 + 1 /\ 1 + k - 1 = k
    OBVIOUS
  <2>2. QED
    BY <1>0, <1>3, <1>4, <2>1
<1>6. Len(SubSeq(p, 1, n)) = n /\ Len(SubSeq(q, 1, n)) = n
  BY <1>3, <1>4
<1>7. SubSeq(q, 1, n) = SubSeq(p, 1, n)
  BY <1>3, <1>4, <1>5, <1>6, SeqEqual
<1>8. QED
  BY <1>1, <1>7

\* Where the k-th part begins.
After(at, k) == IF k = 1 THEN 1 ELSE Nth(at, k - 1) + 1

\* Where a text of elements of R may be cut.
Cuts(at, s, R) == s \in Seq(R) /\ at \in SUBSET (1..Len(s))

\* The parts of a text lie inside it, and are one more than the cuts.
LEMMA PartsAre ==
  ASSUME NEW R, NEW s, NEW at
  PROVE  Cuts(at, s, R) =>
           LET n == Cardinality(at)
               parts == SplitAtAll(s, at)
           IN  /\ n \in Nat /\ parts \in Seq(Seq(R)) /\ Len(parts) = n + 1
               /\ \A k \in 1..n :
                    /\ Nth(at, k) \in 1..Len(s)
                    /\ parts[k] = SubSeq(s, After(at, k), Nth(at, k) - 1)
               /\ parts[n + 1] = SubSeq(s, After(at, n + 1), Len(s))
               /\ \A k \in 1..n + 1 : After(at, k) \in 1..Len(s) + 1
<1>h. HAVE Cuts(at, s, R)
<1>0. s \in Seq(R) /\ at \in SUBSET (1..Len(s))
  BY <1>h DEF Cuts
<1> DEFINE n == Cardinality(at)
           len == Len(s)
           To(k) == IF k = n + 1 THEN len ELSE Nth(at, k) - 1
           p == [k \in 1..n + 1 |-> SubSeq(s, After(at, k), To(k))]
<1>1. len \in Nat /\ \A i \in 1..len : s[i] \in R
  BY <1>0, LenProperties, ElementOfSeq
<1>2. n \in Nat /\ \A k \in 1..n : Nth(at, k) \in at
  BY <1>0, <1>1, Ranks, NthIsThere
<1>3. \A k \in 1..n : Nth(at, k) \in 1..len
  BY <1>0, <1>2
<1>4. SplitAtAll(s, at) = p
  BY Zenon DEF SplitAtAll, After
<1> HIDE DEF n, len
<1>5. \A k \in 1..n + 1 : After(at, k) \in 1..len + 1
  <2> TAKE k \in 1..n + 1
  <2>1. CASE k = 1
    BY <1>1, <2>1 DEF After
  <2>2. CASE k # 1
    <3>1. k - 1 \in 1..n
      BY <1>2, <2>2
    <3>2. Nth(at, k - 1) \in 1..len
      BY <1>3, <3>1
    <3>3. QED
      BY <1>1, <2>2, <3>2 DEF After
  <2>3. QED
    BY <2>1, <2>2
<1>6. \A k \in 1..n + 1 : To(k) \in Int /\ To(k) <= len
  <2> TAKE k \in 1..n + 1
  <2>1. k = n + 1 \/ k \in 1..n
    BY <1>2
  <2>2. QED
    BY <1>1, <1>3, <2>1
<1>7. \A k \in 1..n + 1 : SubSeq(s, After(at, k), To(k)) \in Seq(R)
  <2> TAKE k \in 1..n + 1
  <2>1. After(at, k) \in 1..len + 1 /\ To(k) \in Int /\ To(k) <= len
    BY <1>5, <1>6
  <2> HIDE DEF To
  <2>2. \A i \in After(at, k)..To(k) : s[i] \in R
    BY <1>1, <2>1
  <2>3. After(at, k) \in Int
    BY <2>1
  <2>4. QED
    BY <2>1, <2>2, <2>3, SubSeqProperties
<1>8. p \in [1..n + 1 -> Seq(R)] /\ n + 1 \in Nat
  <2> HIDE DEF To
  <2>1. QED
    BY <1>2, <1>7
<1>9. p \in Seq(Seq(R)) /\ Len(p) = n + 1
  <2> DEFINE last == n + 1
  <2> HIDE DEF p, last
  <2>1. p \in [1..last -> Seq(R)] /\ last \in Nat
    BY <1>8 DEF last
  <2>2. p \in Seq(Seq(R)) /\ Len(p) = last
    BY <2>1, FunctionIsList
  <2>3. QED
    BY <2>2 DEF last
<1>10. \A k \in 1..n : p[k] = SubSeq(s, After(at, k), Nth(at, k) - 1)
  <2> TAKE k \in 1..n
  <2>1. k \in 1..n + 1 /\ k # n + 1
    BY <1>2
  <2>2. QED
    BY <2>1
<1>11. p[n + 1] = SubSeq(s, After(at, n + 1), len)
  <2>1. n + 1 \in 1..n + 1
    BY <1>2
  <2>2. QED
    BY <2>1
<1> HIDE DEF p
<1>12. QED
  BY <1>2, <1>3, <1>4, <1>5, <1>9, <1>10, <1>11 DEF n, len

\* There is always a part.
LEMMA SplitTypes ==
  ASSUME NEW R, NEW s, NEW at
  PROVE  Cuts(at, s, R) => SplitAtAll(s, at) \in Seq(Seq(R)) /\ SplitAtAll(s, at) # <<>>
<1>0. HAVE Cuts(at, s, R)
<1> DEFINE n == Cardinality(at)
<1>1. n \in Nat /\ SplitAtAll(s, at) \in Seq(Seq(R)) /\ Len(SplitAtAll(s, at)) = n + 1
  BY <1>0, PartsAre
<1> HIDE DEF n
<1>2. QED
  BY <1>1, EmptySeq

\* An element that is no cut belongs to the last part.
LEMMA SplitOn ==
  ASSUME NEW R, NEW s, NEW c, NEW at
  PROVE  Cuts(at, s, R) /\ c \in R =>
           /\ SplitAtAll(s, at) \in Seq(Seq(R)) /\ SplitAtAll(Append(s, c), at) \in Seq(Seq(R))
           /\ SplitAtAll(s, at) # <<>>
           /\ Front(SplitAtAll(Append(s, c), at)) = Front(SplitAtAll(s, at))
           /\ Last(SplitAtAll(Append(s, c), at)) = Append(Last(SplitAtAll(s, at)), c)
<1>h. HAVE Cuts(at, s, R) /\ c \in R
<1>0. s \in Seq(R) /\ c \in R /\ at \in SUBSET (1..Len(s))
  BY <1>h DEF Cuts
<1> DEFINE n == Cardinality(at)
           t == Append(s, c)
           p == SplitAtAll(s, at)
           q == SplitAtAll(t, at)
<1>1. Len(s) \in Nat /\ t \in Seq(R) /\ Len(t) = Len(s) + 1
  BY <1>0, LenProperties, AppendProperties
<1>2. Cuts(at, t, R)
  BY <1>0, <1>1 DEF Cuts
<1>a. ASSUME NEW a \in Nat \ {0}, NEW b \in Nat, b <= Len(s)
      PROVE  SubSeq(t, a, b) = SubSeq(s, a, b)
  <2>1. SubSeq(Append(s, c), a, b) = SubSeq(s, a, b)
    BY <1>0, <1>a, PartOfMore
  <2>2. QED
    BY <2>1
<1> HIDE DEF t
<1>3. /\ n \in Nat /\ p \in Seq(Seq(R)) /\ Len(p) = n + 1
      /\ \A k \in 1..n :
           /\ Nth(at, k) \in 1..Len(s)
           /\ p[k] = SubSeq(s, After(at, k), Nth(at, k) - 1)
      /\ p[n + 1] = SubSeq(s, After(at, n + 1), Len(s))
      /\ \A k \in 1..n + 1 : After(at, k) \in 1..Len(s) + 1
  BY <1>h, PartsAre
<1>4. /\ q \in Seq(Seq(R)) /\ Len(q) = n + 1
      /\ \A k \in 1..n : q[k] = SubSeq(t, After(at, k), Nth(at, k) - 1)
      /\ q[n + 1] = SubSeq(t, After(at, n + 1), Len(t))
  BY <1>2, PartsAre
<1> HIDE DEF n, p, q
<1>5. \A k \in 1..n : q[k] = p[k]
  <2> TAKE k \in 1..n
  <2>1. k \in 1..n + 1 /\ Nth(at, k) \in 1..Len(s)
    BY <1>3
  <2>2. After(at, k) \in 1..Len(s) + 1
    BY <1>3, <2>1
  <2>3. After(at, k) \in Nat \ {0} /\ Nth(at, k) - 1 \in Nat /\ Nth(at, k) - 1 <= Len(s)
    BY <1>1, <2>1, <2>2
  <2>4. SubSeq(t, After(at, k), Nth(at, k) - 1) = SubSeq(s, After(at, k), Nth(at, k) - 1)
    BY <1>a, <2>3
  <2>5. QED
    BY <1>3, <1>4, <2>4
<1>6. q[n + 1] = Append(p[n + 1], c)
  <2>1. n + 1 \in 1..n + 1
    BY <1>3
  <2>2. After(at, n + 1) \in 1..Len(s) + 1
    BY <1>3, <2>1
  <2>3. SubSeq(t, After(at, n + 1), Len(s) + 1) = Append(SubSeq(s, After(at, n + 1), Len(s)), c)
    BY <1>0, <2>2, RestOfMore DEF t
  <2>4. QED
    BY <1>1, <1>3, <1>4, <2>3
<1>7. Front(q) = Front(p)
  <2> DEFINE V == Seq(R)
  <2>1. n \in Nat /\ p \in Seq(V) /\ q \in Seq(V) /\ Len(p) = n + 1 /\ Len(q) = n + 1
    BY <1>3, <1>4
  <2> HIDE DEF V
  <2>2. QED
    BY <1>5, <2>1, FrontSame
<1>8. Last(q) = Append(Last(p), c)
  BY <1>3, <1>4, <1>6 DEF Last
<1>9. p # <<>>
  BY <1>3, EmptySeq
<1>10. QED
  BY <1>3, <1>4, <1>7, <1>8, <1>9 DEF t, p, q

\* A list without its last element.
LEMMA FrontOf ==
  ASSUME NEW R, NEW n \in Nat, NEW p, NEW q
  PROVE  p \in Seq(R) /\ q \in Seq(R) /\ Len(p) = n /\ Len(q) = n + 1
         /\ (\A k \in 1..n : q[k] = p[k]) => Front(q) = p
<1>0. HAVE p \in Seq(R) /\ q \in Seq(R) /\ Len(p) = n /\ Len(q) = n + 1
           /\ \A k \in 1..n : q[k] = p[k]
<1>1. Front(q) = SubSeq(q, 1, n)
  BY <1>0 DEF Front
<1>2. \A k \in 1..n : q[k] \in R
  BY <1>0, ElementOfSeq
<1>3. /\ SubSeq(q, 1, n) \in Seq(R) /\ Len(SubSeq(q, 1, n)) = IF 1 <= n THEN n - 1 + 1 ELSE 0
      /\ \A k \in 1..n - 1 + 1 : SubSeq(q, 1, n)[k] = q[1 + k - 1]
  BY <1>2, SubSeqProperties
<1>4. \A k \in 1..n : SubSeq(q, 1, n)[k] = p[k]
  <2> TAKE k \in 1..n
  <2>1. k \in 1..n - 1 + 1 /\ 1 + k - 1 = k
    OBVIOUS
  <2>2. QED
    BY <1>0, <1>3, <2>1
<1>5. Len(SubSeq(q, 1, n)) = n
  BY <1>3
<1>6. SubSeq(q, 1, n) = p
  BY <1>0, <1>3, <1>4, <1>5, SeqEqual
<1>7. QED
  BY <1>1, <1>6

\* An element that is one more cut ends the last part and begins an empty one.
LEMMA SplitHere ==
  ASSUME NEW R, NEW s, NEW c, NEW at
  PROVE  Cuts(at, s, R) /\ c \in R =>
           LET more == SplitAtAll(Append(s, c), at \cup {Len(s) + 1})
           IN  /\ more \in Seq(Seq(R))
               /\ Front(more) = SplitAtAll(s, at) /\ Last(more) = <<>>
<1>h. HAVE Cuts(at, s, R) /\ c \in R
<1>0. s \in Seq(R) /\ c \in R /\ at \in SUBSET (1..Len(s))
  BY <1>h DEF Cuts
<1>a. ASSUME NEW a \in Nat \ {0}, NEW b \in Nat, b <= Len(s)
      PROVE  SubSeq(Append(s, c), a, b) = SubSeq(s, a, b)
  BY <1>0, <1>a, PartOfMore
<1>b. Len(s) \in Nat
  BY <1>0, LenProperties
<1>c. /\ \A k \in 1..Cardinality(at) : Nth(at \cup {Len(s) + 1}, k) = Nth(at, k)
      /\ Nth(at \cup {Len(s) + 1}, Cardinality(at) + 1) = Len(s) + 1
      /\ Cardinality(at \cup {Len(s) + 1}) = Cardinality(at) + 1
  BY <1>0, <1>b, NthOfMore, Ranks
<1> DEFINE n == Cardinality(at)
           t == Append(s, c)
           all == at \cup {Len(s) + 1}
           p == SplitAtAll(s, at)
           q == SplitAtAll(t, all)
<1>1. t \in Seq(R) /\ Len(t) = Len(s) + 1 /\ Len(t) \in Nat
  BY <1>0, <1>b, AppendProperties
<1>2. Cuts(all, t, R)
  <2> HIDE DEF t
  <2>1. Len(s) + 1 \in 1..Len(t) /\ \A i \in 1..Len(s) : i \in 1..Len(t)
    BY <1>1, <1>b
  <2>2. QED
    BY <1>0, <1>1, <2>1 DEF Cuts
<1>3. /\ n \in Nat /\ p \in Seq(Seq(R)) /\ Len(p) = n + 1
      /\ \A k \in 1..n :
           /\ Nth(at, k) \in 1..Len(s)
           /\ p[k] = SubSeq(s, After(at, k), Nth(at, k) - 1)
      /\ p[n + 1] = SubSeq(s, After(at, n + 1), Len(s))
      /\ \A k \in 1..n + 1 : After(at, k) \in 1..Len(s) + 1
  BY <1>h, PartsAre
<1>4. Cardinality(all) = n + 1 /\ Nth(all, n + 1) = Len(s) + 1
      /\ \A k \in 1..n : Nth(all, k) = Nth(at, k)
  BY <1>c
<1> HIDE DEF n, all, t
<1>5. /\ q \in Seq(Seq(R)) /\ Len(q) = Cardinality(all) + 1
      /\ \A k \in 1..Cardinality(all) : q[k] = SubSeq(t, After(all, k), Nth(all, k) - 1)
      /\ q[Cardinality(all) + 1] = SubSeq(t, After(all, Cardinality(all) + 1), Len(t))
  BY <1>2, PartsAre
<1> HIDE DEF p, q
<1>6. /\ Len(q) = n + 2
      /\ \A k \in 1..n + 1 : q[k] = SubSeq(t, After(all, k), Nth(all, k) - 1)
      /\ q[n + 2] = SubSeq(t, After(all, n + 2), Len(t))
  <2>1. n + 1 + 1 = n + 2
    BY <1>3
  <2>2. QED
    BY <1>4, <1>5, <2>1
<1>7. \A k \in 1..n + 1 : After(all, k) = After(at, k)
  <2> TAKE k \in 1..n + 1
  <2>1. CASE k = 1
    BY <2>1 DEF After
  <2>2. CASE k # 1
    <3>1. k - 1 \in 1..n
      BY <1>3, <2>2
    <3>2. QED
      BY <1>4, <2>2, <3>1 DEF After
  <2>3. QED
    BY <2>1, <2>2
<1>8. \A k \in 1..n + 1 : q[k] = p[k]
  <2> TAKE k \in 1..n + 1
  <2>1. q[k] = SubSeq(t, After(at, k), Nth(all, k) - 1) /\ After(at, k) \in 1..Len(s) + 1
    BY <1>3, <1>6, <1>7
  <2>2. After(at, k) \in Nat \ {0}
    BY <1>b, <2>1
  <2>3. CASE k = n + 1
    <3>1. Nth(all, k) - 1 = Len(s) /\ Len(s) <= Len(s)
      BY <1>b, <1>4, <2>3
    <3>2. SubSeq(t, After(at, k), Len(s)) = SubSeq(s, After(at, k), Len(s))
      BY <1>a, <1>b, <2>2, <3>1 DEF t
    <3>3. QED
      BY <1>3, <2>1, <2>3, <3>1, <3>2
  <2>4. CASE k # n + 1
    <3>1. k \in 1..n
      BY <1>3, <2>4
    <3>2. Nth(all, k) = Nth(at, k) /\ Nth(at, k) \in 1..Len(s)
      BY <1>3, <1>4, <3>1
    <3>3. Nth(at, k) - 1 \in Nat /\ Nth(at, k) - 1 <= Len(s)
      BY <1>b, <3>2
    <3>4. SubSeq(t, After(at, k), Nth(at, k) - 1) = SubSeq(s, After(at, k), Nth(at, k) - 1)
      BY <1>a, <2>2, <3>3 DEF t
    <3>5. QED
      BY <1>3, <2>1, <3>1, <3>2, <3>4
  <2>5. QED
    BY <2>3, <2>4
<1>9. q[n + 2] = <<>>
  <2>1. n + 2 # 1 /\ n + 2 - 1 = n + 1
    BY <1>3
  <2>2. After(all, n + 2) = Len(s) + 2
    <3>1. After(all, n + 2) = Nth(all, n + 1) + 1
      BY <1>3, <2>1 DEF After
    <3>2. QED
      BY <1>b, <1>4, <3>1
  <2>3. After(all, n + 2) \in Int /\ Len(t) \in Int /\ Len(t) < After(all, n + 2)
    BY <1>b, <1>1, <2>2
  <2>4. QED
    BY <1>6, <2>3, SubSeqEmpty
<1>10. Last(q) = <<>>
  BY <1>6, <1>9 DEF Last
<1>11. Front(q) = p
  <2> DEFINE V == Seq(R)
             m == n + 1
  <2>1. /\ m \in Nat /\ p \in Seq(V) /\ q \in Seq(V) /\ Len(p) = m /\ Len(q) = m + 1
        /\ \A k \in 1..m : q[k] = p[k]
    <3>1. n + 1 + 1 = n + 2
      BY <1>3
    <3>2. QED
      BY <1>3, <1>5, <1>6, <1>8, <3>1
  <2> HIDE DEF V, m
  <2>2. QED
    BY <2>1, FrontOf
<1>12. QED
  BY <1>5, <1>10, <1>11 DEF t, all, p, q

-----------------------------------------------------------------------------
(* A stream one byte later.                                                *)

\* What the parser is in the middle of: the line and the block it has begun,
\* after the blocks that are done.
LineBegun(s) == Last(RawLines(s))
BlockBegun(s) == Last(Blocks(s))
BlocksDone(s) == Front(Blocks(s))

\* The parts of a text are all but the last one and the last one.
LEMMA FrontAndLast ==
  ASSUME NEW R, NEW s
  PROVE  s \in Seq(R) /\ s # <<>> =>
           /\ Front(s) \in Seq(R) /\ Last(s) \in R /\ s = Append(Front(s), Last(s))
           /\ Len(Front(s)) = Len(s) - 1
BY LastElement DEF Front, Last

\* A byte belongs to the line begun, or ends it (sse.c:114-133).
LEMMA LinesMore ==
  ASSUME NEW s, NEW c
  PROVE  s \in Seq(Byte) /\ c \in Byte =>
           /\ RawLines(s) \in Seq(Seq(Byte)) /\ RawLines(s) # <<>>
           /\ RawLines(Append(s, c)) \in Seq(Seq(Byte))
           /\ c # "LF" =>
                /\ Front(RawLines(Append(s, c))) = Front(RawLines(s))
                /\ LineBegun(Append(s, c)) = Append(LineBegun(s), c)
           /\ c = "LF" =>
                /\ Front(RawLines(Append(s, c))) = RawLines(s)
                /\ LineBegun(Append(s, c)) = <<>>
<1>0. HAVE s \in Seq(Byte) /\ c \in Byte
<1> DEFINE t == Append(s, c)
           at == LineEndsOf(s)
<1>1. Len(s) \in Nat /\ DOMAIN s = 1..Len(s)
  BY <1>0, LenProperties
<1>2. /\ t \in Seq(Byte) /\ Len(t) = Len(s) + 1 /\ t[Len(s) + 1] = c
      /\ \A i \in 1..Len(s) : t[i] = s[i]
  BY <1>0, AppendProperties
<1> HIDE DEF t
<1>3. DOMAIN t = 1..Len(s) + 1
  BY <1>2, LenProperties
<1>4. Cuts(at, s, Byte)
  BY <1>0, <1>1 DEF LineEndsOf, Cuts
<1>5. \A i : i \in 1..Len(s) + 1 <=> i \in 1..Len(s) \/ i = Len(s) + 1
  BY <1>1
<1>6. c # "LF" => LineEndsOf(t) = at
  BY <1>1, <1>2, <1>3, <1>5 DEF LineEndsOf
<1>7. c = "LF" => LineEndsOf(t) = at \cup {Len(s) + 1}
  BY <1>1, <1>2, <1>3, <1>5 DEF LineEndsOf
<1> HIDE DEF at
<1>8. /\ SplitAtAll(s, at) \in Seq(Seq(Byte)) /\ SplitAtAll(s, at) # <<>>
      /\ SplitAtAll(t, at) \in Seq(Seq(Byte))
      /\ Front(SplitAtAll(t, at)) = Front(SplitAtAll(s, at))
      /\ Last(SplitAtAll(t, at)) = Append(Last(SplitAtAll(s, at)), c)
  BY <1>0, <1>4, SplitOn DEF t
<1>9. /\ SplitAtAll(t, at \cup {Len(s) + 1}) \in Seq(Seq(Byte))
      /\ Front(SplitAtAll(t, at \cup {Len(s) + 1})) = SplitAtAll(s, at)
      /\ Last(SplitAtAll(t, at \cup {Len(s) + 1})) = <<>>
  BY <1>0, <1>4, SplitHere DEF t
<1>10. RawLines(s) = SplitAtAll(s, at) /\ RawLines(t) = SplitAtAll(t, LineEndsOf(t))
  BY DEF RawLines, at
<1>11. QED
  <2>1. CASE c = "LF"
    BY <1>7, <1>8, <1>9, <1>10, <2>1 DEF LineBegun, t
  <2>2. CASE c # "LF"
    BY <1>6, <1>8, <1>10, <2>2 DEF LineBegun, t
  <2>3. QED
    BY <2>1, <2>2

\* What has been read is lines and blocks of lines (sse.h:1-3).
LEMMA StreamTypes ==
  ASSUME NEW s
  PROVE  s \in Seq(Byte) =>
           /\ RawLines(s) \in Seq(Seq(Byte)) /\ RawLines(s) # <<>>
           /\ LineBegun(s) \in Seq(Byte) /\ Front(RawLines(s)) \in Seq(Seq(Byte))
           /\ RawLines(s) = Append(Front(RawLines(s)), LineBegun(s))
           /\ Blocks(s) \in Seq(Seq(Seq(Byte)))
           /\ BlockBegun(s) \in Seq(Seq(Byte)) /\ BlocksDone(s) \in Seq(Seq(Seq(Byte)))
           /\ Blocks(s) = Append(BlocksDone(s), BlockBegun(s))
<1>0. HAVE s \in Seq(Byte)
<1> DEFINE lines == Front(RawLines(s))
           Line == Seq(Byte)
<1>1. RawLines(s) \in Seq(Line) /\ RawLines(s) # <<>>
  <2>1. "LF" \in Byte
    BY DEF Byte
  <2>2. QED
    BY <1>0, <2>1, LinesMore
<1> HIDE DEF Line
<1>2. /\ lines \in Seq(Line) /\ LineBegun(s) \in Line
      /\ RawLines(s) = Append(lines, LineBegun(s))
  BY <1>1, FrontAndLast DEF LineBegun
<1> HIDE DEF lines
<1>3. Cuts(Blanks(lines), lines, Line)
  BY <1>2, LenProperties DEF Blanks, Cuts
<1>4. Blocks(s) = SplitAtAll(lines, Blanks(lines))
  BY DEF Blocks, lines
<1>5. Blocks(s) \in Seq(Seq(Line)) /\ Blocks(s) # <<>>
  BY <1>3, <1>4, SplitTypes
<1>6. /\ BlocksDone(s) \in Seq(Seq(Line)) /\ BlockBegun(s) \in Seq(Line)
      /\ Blocks(s) = Append(BlocksDone(s), BlockBegun(s))
  <2> DEFINE Block == Seq(Line)
  <2>1. Blocks(s) \in Seq(Block) /\ Blocks(s) # <<>>
    BY <1>5
  <2> HIDE DEF Block
  <2>2. /\ BlocksDone(s) \in Seq(Block) /\ BlockBegun(s) \in Block
        /\ Blocks(s) = Append(BlocksDone(s), BlockBegun(s))
    BY <2>1, FrontAndLast DEF BlocksDone, BlockBegun
  <2>3. QED
    BY <2>2 DEF Block
<1>7. QED
  BY <1>1, <1>2, <1>6 DEF Line, lines

\* A line ended belongs to the block begun, or ends it if it is blank
\* (sse.c:41-48, 116-127).
LEMMA BlocksMore ==
  ASSUME NEW s, NEW c
  PROVE  s \in Seq(Byte) /\ c \in Byte =>
           LET t == Append(s, c)
           IN  /\ c # "LF" => Blocks(t) = Blocks(s)
               /\ c = "LF" /\ Chomp(LineBegun(s)) = <<>> =>
                    BlocksDone(t) = Blocks(s) /\ BlockBegun(t) = <<>>
               /\ c = "LF" /\ Chomp(LineBegun(s)) # <<>> =>
                    /\ BlocksDone(t) = BlocksDone(s)
                    /\ BlockBegun(t) = Append(BlockBegun(s), LineBegun(s))
<1>0. HAVE s \in Seq(Byte) /\ c \in Byte
<1> DEFINE t == Append(s, c)
           lines == Front(RawLines(s))
           new == LineBegun(s)
           Line == Seq(Byte)
           at == Blanks(lines)
<1>1. lines \in Seq(Line) /\ new \in Line /\ RawLines(s) = Append(lines, new)
  BY <1>0, StreamTypes
<1>2. c # "LF" => Blocks(t) = Blocks(s)
  <2>1. c # "LF" => Front(RawLines(t)) = lines
    BY <1>0, LinesMore
  <2>2. QED
    BY <2>1, Zenon DEF Blocks
<1>3. c = "LF" => Front(RawLines(t)) = Append(lines, new)
  BY <1>0, <1>1, LinesMore
<1> HIDE DEF lines, new, Line
<1>4. Len(lines) \in Nat /\ DOMAIN lines = 1..Len(lines)
  BY <1>1, LenProperties
<1> DEFINE more == Append(lines, new)
<1>5. /\ DOMAIN more = 1..Len(lines) + 1 /\ more[Len(lines) + 1] = new
      /\ \A i \in 1..Len(lines) : more[i] = lines[i]
  <2>1. more \in Seq(Line) /\ Len(more) = Len(lines) + 1
    BY <1>1, AppendProperties
  <2>2. QED
    BY <1>1, <2>1, AppendProperties, LenProperties
<1> HIDE DEF more
<1>6. \A i : i \in 1..Len(lines) + 1 <=> i \in 1..Len(lines) \/ i = Len(lines) + 1
  BY <1>4
<1>7. Chomp(new) # <<>> => Blanks(more) = at
  BY <1>4, <1>5, <1>6 DEF Blanks
<1>8. Chomp(new) = <<>> => Blanks(more) = at \cup {Len(lines) + 1}
  BY <1>4, <1>5, <1>6 DEF Blanks
<1>9. Cuts(at, lines, Line)
  BY <1>1, <1>4 DEF Blanks, Cuts
<1>10. Blocks(s) = SplitAtAll(lines, at)
  BY DEF Blocks, lines
<1>11. c = "LF" => Blocks(t) = SplitAtAll(more, Blanks(more))
  BY <1>3, Zenon DEF Blocks, more
<1> HIDE DEF at, t
<1>12. /\ Front(SplitAtAll(more, at)) = Front(SplitAtAll(lines, at))
       /\ Last(SplitAtAll(more, at)) = Append(Last(SplitAtAll(lines, at)), new)
  BY <1>1, <1>9, SplitOn DEF more
<1>13. /\ SplitAtAll(more, at \cup {Len(lines) + 1}) \in Seq(Seq(Line))
       /\ Front(SplitAtAll(more, at \cup {Len(lines) + 1})) = SplitAtAll(lines, at)
       /\ Last(SplitAtAll(more, at \cup {Len(lines) + 1})) = <<>>
  BY <1>1, <1>9, SplitHere DEF more
<1>14. c = "LF" /\ Chomp(new) = <<>> => BlocksDone(t) = Blocks(s) /\ BlockBegun(t) = <<>>
  BY <1>8, <1>10, <1>11, <1>13 DEF BlocksDone, BlockBegun
<1>15. c = "LF" /\ Chomp(new) # <<>> =>
         BlocksDone(t) = BlocksDone(s) /\ BlockBegun(t) = Append(BlockBegun(s), new)
  BY <1>7, <1>10, <1>11, <1>12 DEF BlocksDone, BlockBegun
<1>16. QED
  BY <1>2, <1>14, <1>15 DEF new, t

\* Before the first byte there is one block, begun, and one line in it, begun.
LEMMA StreamOfNone ==
  LineBegun(<<>>) = <<>> /\ BlocksDone(<<>>) = <<>> /\ BlockBegun(<<>>) = <<>>
<1>1. ASSUME NEW R, NEW at, at = {}
      PROVE  /\ Front(SplitAtAll(<<>>, at)) = <<>> /\ Last(SplitAtAll(<<>>, at)) = <<>>
  <2>1. <<>> \in Seq(R) /\ Len(<<>>) = 0 /\ at \in SUBSET (1..0)
    BY <1>1, EmptySeq
  <2>2. Cardinality(at) = 0
    BY <1>1, FS_EmptySet
  <2> DEFINE none == <<>>
             p == SplitAtAll(none, at)
  <2>3. Cuts(at, none, R) /\ Len(none) = 0
    BY <2>1 DEF Cuts
  <2> HIDE DEF none
  <2>4. /\ Cardinality(at) \in Nat
        /\ p \in Seq(Seq(R)) /\ Len(p) = Cardinality(at) + 1
        /\ p[Cardinality(at) + 1] = SubSeq(none, After(at, Cardinality(at) + 1), Len(none))
    BY <2>3, PartsAre
  <2> HIDE DEF p
  <2>5. Len(p) = 1 /\ p[1] = SubSeq(none, 1, 0)
    <3>1. After(at, 1) = 1 /\ 0 + 1 = 1
      BY DEF After
    <3>2. QED
      BY <2>2, <2>3, <2>4, <3>1
  <2>6. SubSeq(none, 1, 0) = <<>> /\ SubSeq(p, 1, 0) = <<>>
    BY SubSeqEmpty
  <2>7. Front(p) = <<>> /\ Last(p) = <<>>
    <3>1. Len(p) - 1 = 0
      BY <2>5
    <3>2. QED
      BY <2>5, <2>6, <3>1 DEF Front, Last
  <2>8. QED
    BY <2>7 DEF p, none
<1>2. DOMAIN <<>> = {}
  <2>1. <<>> \in Seq({}) /\ Len(<<>>) = 0
    BY EmptySeq
  <2>2. QED
    BY <2>1, LenProperties
<1>3. LineEndsOf(<<>>) = {} /\ Blanks(<<>>) = {}
  BY <1>2 DEF LineEndsOf, Blanks
<1>4. Front(RawLines(<<>>)) = <<>> /\ LineBegun(<<>>) = <<>>
  BY <1>1, <1>3 DEF RawLines, LineBegun
<1>5. Blocks(<<>>) = SplitAtAll(<<>>, Blanks(<<>>))
  BY <1>4 DEF Blocks
<1>6. QED
  BY <1>1, <1>3, <1>4, <1>5 DEF BlocksDone, BlockBegun

-----------------------------------------------------------------------------
(* A block one line later.                                                 *)

\* The positions and the elements of a list that has one more.
LEMMA OneMore ==
  ASSUME NEW R, NEW s, NEW e
  PROVE  s \in Seq(R) /\ e \in R =>
           /\ Len(s) \in Nat /\ DOMAIN s = 1..Len(s)
           /\ Append(s, e) \in Seq(R) /\ Len(Append(s, e)) = Len(s) + 1
           /\ DOMAIN Append(s, e) = 1..Len(s) + 1
           /\ Append(s, e)[Len(s) + 1] = e
           /\ \A i \in 1..Len(s) : Append(s, e)[i] = s[i]
           /\ \A i : i \in 1..Len(s) + 1 <=> i \in 1..Len(s) \/ i = Len(s) + 1
           /\ Range(Append(s, e)) = Range(s) \cup {e}
<1>0. HAVE s \in Seq(R) /\ e \in R
<1> DEFINE t == Append(s, e)
           n == Len(s)
<1>1. n \in Nat /\ DOMAIN s = 1..n
  BY <1>0, LenProperties
<1>2. t \in Seq(R) /\ Len(t) = n + 1 /\ t[n + 1] = e /\ \A i \in 1..n : t[i] = s[i]
  BY <1>0, AppendProperties
<1> HIDE DEF t, n
<1>3. DOMAIN t = 1..n + 1
  BY <1>2, LenProperties
<1>4. \A i : i \in 1..n + 1 <=> i \in 1..n \/ i = n + 1
  BY <1>1
<1>5. Range(t) = Range(s) \cup {e}
  <2>1. \A x : (\E i \in 1..n + 1 : x = t[i]) <=> (\E i \in 1..n : x = s[i]) \/ x = e
    BY <1>2, <1>4
  <2>2. \A x : (x \in Range(t) <=> \E i \in 1..n + 1 : x = t[i])
               /\ (x \in Range(s) <=> \E i \in 1..n : x = s[i])
    BY <1>1, <1>3 DEF Range
  <2>3. \A x : x \in Range(t) <=> x \in Range(s) \/ x = e
    BY <2>1, <2>2
  <2>4. QED
    BY <2>3
<1>6. QED
  BY <1>1, <1>2, <1>3, <1>4, <1>5 DEF t, n

\* A line adds its value to the field it names (sse.c:53-72).
LEMMA ValuesMore ==
  ASSUME NEW b, NEW l, NEW f
  PROVE  b \in Seq(Seq(Byte)) /\ l \in Seq(Byte) =>
           /\ Values(b, f) \in Seq(Seq(Byte))
           /\ Value(Chomp(l)) \in Seq(Byte)
           /\ IsField(Chomp(l), f) =>
                Values(Append(b, l), f) = Append(Values(b, f), Value(Chomp(l)))
           /\ ~IsField(Chomp(l), f) => Values(Append(b, l), f) = Values(b, f)
<1>0. HAVE b \in Seq(Seq(Byte)) /\ l \in Seq(Byte)
<1> DEFINE Line == Seq(Byte)
           t == Append(b, l)
           at == FieldLines(b, f)
           n == Len(b)
           p == Picked(b, at)
<1>v. \A x \in Line : Value(Chomp(x)) \in Line
  BY LineTypes
<1> HIDE DEF Line
<1>1. b \in Seq(Line) /\ l \in Line
  BY <1>0 DEF Line
<1>2. /\ n \in Nat /\ DOMAIN b = 1..n /\ DOMAIN t = 1..n + 1 /\ t[n + 1] = l
      /\ \A i \in 1..n : t[i] = b[i]
      /\ \A i : i \in 1..n + 1 <=> i \in 1..n \/ i = n + 1
  <2>1. /\ Len(b) \in Nat /\ DOMAIN b = 1..Len(b)
        /\ Append(b, l) \in Seq(Line) /\ Len(Append(b, l)) = Len(b) + 1
        /\ DOMAIN Append(b, l) = 1..Len(b) + 1
        /\ Append(b, l)[Len(b) + 1] = l
        /\ \A i \in 1..Len(b) : Append(b, l)[i] = b[i]
        /\ \A i : i \in 1..Len(b) + 1 <=> i \in 1..Len(b) \/ i = Len(b) + 1
    BY <1>1, OneMore
  <2>2. QED
    BY <2>1
<1>3. \A i \in 1..n : b[i] \in Line
  BY <1>1, ElementOfSeq
<1> HIDE DEF n, t
<1>4. at \in SUBSET (1..n) /\ SameIn(b, t, at)
  BY <1>2 DEF FieldLines, SameIn
<1>5. AllIn(b, at, Line)
  BY <1>3, <1>4 DEF AllIn
<1>6. ~IsField(Chomp(l), f) => FieldLines(t, f) = at
  BY <1>2 DEF FieldLines
<1>7. IsField(Chomp(l), f) => FieldLines(t, f) = at \cup {n + 1}
  BY <1>2 DEF FieldLines
<1> HIDE DEF at
<1>8. p \in Seq(Line)
  BY <1>2, <1>4, <1>5, PickedIsList
<1>9. Picked(t, at) = p
  BY <1>2, <1>4, PickedSame
<1>10. Picked(t, at \cup {n + 1}) = Append(p, l)
  <2> DEFINE new == n + 1
  <2>1. n \in Nat /\ new = n + 1 /\ t[new] \in Line /\ t[new] = l
    BY <1>1, <1>2
  <2> HIDE DEF new
  <2> DEFINE all == at \cup {new}
  <2>2. Grows(b, at, t, all, new, Line)
    BY <1>4, <1>5, <2>1 DEF Grows
  <2> HIDE DEF all
  <2>3. Picked(t, all) = Append(Picked(b, at), t[new])
    BY <2>2, PickedMore
  <2>4. QED
    BY <2>1, <2>3 DEF new, all
<1>11. /\ Values(b, f) = [i \in DOMAIN p |-> Value(Chomp(p[i]))]
       /\ ~IsField(Chomp(l), f) =>
            Values(t, f) = [i \in DOMAIN p |-> Value(Chomp(p[i]))]
       /\ IsField(Chomp(l), f) =>
            Values(t, f) = [i \in DOMAIN Append(p, l) |-> Value(Chomp(Append(p, l)[i]))]
  BY <1>6, <1>7, <1>9, <1>10, Zenon DEF Values, at, p
<1> HIDE DEF p
<1> DEFINE vs == [i \in DOMAIN p |-> Value(Chomp(p[i]))]
           ws == [i \in DOMAIN Append(p, l) |-> Value(Chomp(Append(p, l)[i]))]
           m == Len(p)
<1>12. /\ m \in Nat /\ DOMAIN p = 1..m /\ DOMAIN Append(p, l) = 1..m + 1
       /\ Append(p, l) \in Seq(Line)
       /\ Append(p, l)[m + 1] = l /\ \A i \in 1..m : Append(p, l)[i] = p[i]
       /\ \A i : i \in 1..m + 1 <=> i \in 1..m \/ i = m + 1
  <2>1. /\ Len(p) \in Nat /\ DOMAIN p = 1..Len(p)
        /\ Append(p, l) \in Seq(Line) /\ Len(Append(p, l)) = Len(p) + 1
        /\ DOMAIN Append(p, l) = 1..Len(p) + 1
        /\ Append(p, l)[Len(p) + 1] = l
        /\ \A i \in 1..Len(p) : Append(p, l)[i] = p[i]
        /\ \A i : i \in 1..Len(p) + 1 <=> i \in 1..Len(p) \/ i = Len(p) + 1
    BY <1>1, <1>8, OneMore
  <2>2. QED
    BY <2>1
<1>13. \A i \in 1..m : p[i] \in Line
  BY <1>8, ElementOfSeq
<1> HIDE DEF m
<1>14. vs \in Seq(Line) /\ Len(vs) = m
  <2>1. vs \in [1..m -> Line]
    BY <1>12, <1>13, <1>v
  <2> HIDE DEF vs
  <2>2. QED
    BY <1>12, <2>1, FunctionIsList
<1>15. ws = Append(vs, Value(Chomp(l)))
  <2> DEFINE k == m + 1
  <2>1. \A i \in 1..k : Append(p, l)[i] \in Line
    BY <1>1, <1>12, <1>13
  <2>2. ws \in [1..k -> Line] /\ k \in Nat
    BY <1>12, <1>v, <2>1
  <2>3. /\ ws[m + 1] = Value(Chomp(l)) /\ \A i \in 1..m : ws[i] = vs[i]
    BY <1>12
  <2>4. Value(Chomp(l)) \in Line
    BY <1>1, <1>v
  <2> HIDE DEF vs, ws, k
  <2>5. ws \in Seq(Line) /\ Len(ws) = k
    BY <2>2, FunctionIsList
  <2>6. /\ Append(vs, Value(Chomp(l))) \in Seq(Line)
        /\ Len(Append(vs, Value(Chomp(l)))) = m + 1
        /\ Append(vs, Value(Chomp(l)))[m + 1] = Value(Chomp(l))
        /\ \A i \in 1..m : Append(vs, Value(Chomp(l)))[i] = vs[i]
    BY <1>14, <2>4, AppendProperties
  <2>7. \A i \in 1..k : ws[i] = Append(vs, Value(Chomp(l)))[i]
    BY <1>12, <2>3, <2>6 DEF k
  <2>8. QED
    BY <2>5, <2>6, <2>7, SeqEqual DEF k
<1>16. QED
  BY <1>1, <1>v, <1>11, <1>14, <1>15 DEF Line, t

\* A block without lines says nothing.
LEMMA ValuesOfNone == ASSUME NEW f PROVE Values(<<>>, f) = <<>>
<1>1. <<>> \in Seq({}) /\ Len(<<>>) = 0 /\ DOMAIN <<>> = {}
  <2>1. <<>> \in Seq({}) /\ Len(<<>>) = 0
    BY EmptySeq
  <2>2. QED
    BY <2>1, LenProperties
<1>2. FieldLines(<<>>, f) = {}
  BY <1>1 DEF FieldLines
<1> DEFINE p == Picked(<<>>, FieldLines(<<>>, f))
<1>3. DOMAIN p = {}
  BY <1>2, FS_EmptySet DEF Picked
<1>4. Values(<<>>, f) = [i \in DOMAIN p |-> Value(Chomp(p[i]))]
  BY Zenon DEF Values
<1> HIDE DEF p
<1>5. QED
  BY <1>3, <1>4

\* Every value of a list is empty.
AllEmpty(vs) == \A j \in 1..Len(vs) : vs[j] = <<>>
NextPiece(vs, v) == IF AllEmpty(vs) THEN v ELSE <<"LF">> \o v

\* One value more comes after the others, and after a newline unless nothing
\* comes before it (sse.c:94-98).
LEMMA SpacedMore ==
  ASSUME NEW vs, NEW v
  PROVE  vs \in Seq(Seq(Byte)) /\ v \in Seq(Byte) =>
           /\ Spaced(vs) \in Seq(Seq(Byte)) /\ NextPiece(vs, v) \in Seq(Byte)
           /\ Spaced(Append(vs, v)) = Append(Spaced(vs), NextPiece(vs, v))
<1>0. HAVE vs \in Seq(Seq(Byte)) /\ v \in Seq(Byte)
<1> DEFINE Line == Seq(Byte)
           n == Len(vs)
           m == n + 1
           t == Append(vs, v)
           p == Spaced(vs)
           q == Spaced(t)
           x == NextPiece(vs, v)
<1>1. /\ n \in Nat /\ DOMAIN vs = 1..n /\ t \in Seq(Line) /\ DOMAIN t = 1..m
      /\ t[m] = v /\ \A i \in 1..n : t[i] = vs[i]
      /\ \A i : i \in 1..m <=> i \in 1..n \/ i = m
  BY <1>0, OneMore
<1>2. \A y \in Line : <<"LF">> \o y \in Line
  <2>1. "LF" \in Byte
    BY DEF Byte
  <2>2. <<"LF">> \in Line
    BY <2>1
  <2>3. QED
    BY <2>2, ConcatProperties
<1>3. v \in Line /\ \A i \in 1..n : vs[i] \in Line
  BY <1>0, ElementOfSeq
<1> HIDE DEF Line, n, t
<1>4. x \in Line
  BY <1>2, <1>3 DEF NextPiece
<1>5. /\ p = [i \in 1..n |-> IF \A j \in 1..i - 1 : vs[j] = <<>> THEN vs[i] ELSE <<"LF">> \o vs[i]]
      /\ q = [i \in 1..m |-> IF \A j \in 1..i - 1 : t[j] = <<>> THEN t[i] ELSE <<"LF">> \o t[i]]
  BY <1>1, Zenon DEF Spaced
<1> HIDE DEF x
<1>6. p \in [1..n -> Line]
  <2>1. \A i \in 1..n : <<"LF">> \o vs[i] \in Line
    BY <1>2, <1>3
  <2> DEFINE w(i) == <<"LF">> \o vs[i]
  <2>2. \A i \in 1..n : w(i) \in Line
    BY <2>1
  <2>3. p = [i \in 1..n |-> IF \A j \in 1..i - 1 : vs[j] = <<>> THEN vs[i] ELSE w(i)]
    BY <1>5
  <2> HIDE DEF w, p
  <2>4. QED
    BY <1>3, <2>2, <2>3
<1>7. \A i \in 1..n : q[i] = p[i]
  <2> TAKE i \in 1..n
  <2>1. i \in 1..m /\ t[i] = vs[i] /\ \A j \in 1..i - 1 : t[j] = vs[j]
    BY <1>1
  <2>2. /\ p[i] = IF \A j \in 1..i - 1 : vs[j] = <<>> THEN vs[i] ELSE <<"LF">> \o vs[i]
        /\ q[i] = IF \A j \in 1..i - 1 : t[j] = <<>> THEN t[i] ELSE <<"LF">> \o t[i]
    BY <1>5, <2>1, Zenon
  <2>3. (\A j \in 1..i - 1 : vs[j] = <<>>) <=> (\A j \in 1..i - 1 : t[j] = <<>>)
    BY <2>1
  <2> HIDE DEF p, q
  <2>4. QED
    BY <2>1, <2>2, <2>3
<1>8. q[m] = x
  <2>1. m \in 1..m /\ m - 1 = n
    BY <1>1
  <2>2. q[m] = IF \A j \in 1..m - 1 : t[j] = <<>> THEN t[m] ELSE <<"LF">> \o t[m]
    BY <1>5, <2>1, Zenon
  <2>3. (\A j \in 1..m - 1 : t[j] = <<>>) <=> AllEmpty(vs)
    BY <1>1, <2>1 DEF AllEmpty, n
  <2> HIDE DEF q, m
  <2>4. QED
    BY <1>1, <2>2, <2>3 DEF x, NextPiece
<1> HIDE DEF p, q
<1>9. p \in Seq(Line) /\ Len(p) = n
  BY <1>1, <1>6, FunctionIsList
<1>10. q \in Seq(Line) /\ Len(q) = m
  <2>1. m \in Nat
    BY <1>1
  <2> HIDE DEF m
  <2>2. DOMAIN q = 1..m
    BY <1>5 DEF q
  <2>3. \A i \in 1..m : q[i] \in Line
    <3> TAKE i \in 1..m
    <3>1. i \in 1..n \/ i = m
      BY <1>1
    <3>2. \A k \in 1..n : p[k] \in Line
      BY <1>6
    <3>3. QED
      BY <1>4, <1>7, <1>8, <3>1, <3>2
  <2>4. q = [i \in 1..m |-> q[i]]
    BY <1>5 DEF q
  <2>5. q \in [1..m -> Line]
    BY <2>3, <2>4
  <2>6. QED
    BY <2>1, <2>5, FunctionIsList
<1>11. /\ Append(p, x) \in Seq(Line) /\ Len(Append(p, x)) = n + 1
       /\ Append(p, x)[n + 1] = x /\ \A i \in 1..n : Append(p, x)[i] = p[i]
  BY <1>4, <1>9, AppendProperties
<1>12. \A i \in 1..m : q[i] = Append(p, x)[i]
  BY <1>1, <1>7, <1>8, <1>11
<1>13. q = Append(p, x)
  BY <1>10, <1>11, <1>12, SeqEqual
<1>14. QED
  BY <1>4, <1>9, <1>13 DEF Line, p, q, t, x

Flat(vs) == FlattenSeq(Spaced(vs))

\* The data is what joining the values one after the other gives, and is empty
\* only if they all are: what data_len = 0 says (sse.c:85-98).
LEMMA FlatMore ==
  ASSUME NEW vs, NEW v
  PROVE  vs \in Seq(Seq(Byte)) /\ v \in Seq(Byte) =>
           /\ Flat(vs) \in Seq(Byte)
           /\ Flat(Append(vs, v)) = Joined(Flat(vs), v)
<1> DEFINE Line == Seq(Byte)
           T == {ws \in Seq(Line) : Flat(ws) \in Line /\ (Flat(ws) = <<>> <=> AllEmpty(ws))}
<1>1. <<"LF">> \in Line /\ <<"LF">> # <<>>
  <2>1. "LF" \in Byte
    BY DEF Byte
  <2>2. QED
    BY <2>1
<1>2. \A x, y \in Line : /\ x \o y \in Line /\ <<>> \o x = x
                         /\ (x \o y = <<>> <=> x = <<>> /\ y = <<>>)
  <2> TAKE x, y \in Line
  <2>1. x \o y \in Line
    BY ConcatProperties
  <2>2. <<>> \o x = x
    BY ConcatEmptySeq
  <2>3. x \o y = <<>> <=> x = <<>> /\ y = <<>>
    BY ConcatEqualIffEmpty
  <2>4. QED
    BY <2>1, <2>2, <2>3
<1>3. \A x, y, z \in Line : (x \o y) \o z = x \o (y \o z)
  BY ConcatAssociative
<1>4. \A ws \in Seq(Line), y \in Line :
        /\ Spaced(ws) \in Seq(Line) /\ NextPiece(ws, y) \in Line
        /\ Spaced(Append(ws, y)) = Append(Spaced(ws), NextPiece(ws, y))
  BY SpacedMore
<1> HIDE DEF Line
<1>5. \A ws \in Seq(Line), y \in Line : Flat(Append(ws, y)) = Flat(ws) \o NextPiece(ws, y)
  <2> TAKE ws \in Seq(Line), y \in Line
  <2>1. /\ Spaced(ws) \in Seq(Seq(Byte)) /\ NextPiece(ws, y) \in Seq(Byte)
    BY <1>4 DEF Line
  <2>2. FlattenSeq(Append(Spaced(ws), NextPiece(ws, y)))
          = FlattenSeq(Spaced(ws)) \o NextPiece(ws, y)
    BY <2>1, FlattenMore
  <2>3. QED
    BY <1>4, <2>2 DEF Flat
<1>6. \A ws \in Seq(Line), y \in Line : AllEmpty(Append(ws, y)) <=> AllEmpty(ws) /\ y = <<>>
  <2> TAKE ws \in Seq(Line), y \in Line
  <2> DEFINE t == Append(ws, y)
             n == Len(ws)
             m == n + 1
  <2>1. /\ n \in Nat /\ Len(t) = m /\ t[m] = y /\ \A i \in 1..n : t[i] = ws[i]
        /\ \A i : i \in 1..m <=> i \in 1..n \/ i = m
    BY OneMore
  <2> HIDE DEF t, m, n
  <2>2. (\A j \in 1..m : t[j] = <<>>) <=> (\A j \in 1..n : ws[j] = <<>>) /\ y = <<>>
    BY <2>1
  <2>3. QED
    BY <2>1, <2>2 DEF AllEmpty, t, n
<1>7. <<>> \in T
  <2> DEFINE none == <<>>
  <2>1. none \in Seq(Line) /\ Len(none) = 0 /\ DOMAIN none = {} /\ none \in Line
    <3>1. <<>> \in Seq(Line) /\ Len(<<>>) = 0 /\ <<>> \in Line
      BY EmptySeq DEF Line
    <3>2. QED
      BY <3>1, LenProperties
  <2>2. Spaced(none) = none
    BY <2>1 DEF Spaced
  <2>3. FlattenSeq(none) = none
    BY <2>1 DEF FlattenSeq
  <2>4. AllEmpty(none)
    BY <2>1 DEF AllEmpty
  <2>5. QED
    BY <2>1, <2>2, <2>3, <2>4 DEF Flat
<1>8. \A ws \in Seq(Line), y \in Line : ws \in T => Append(ws, y) \in T
  <2> SUFFICES ASSUME NEW ws \in Seq(Line), NEW y \in Line, ws \in T
               PROVE  Append(ws, y) \in T
    OBVIOUS
  <2>1. Append(ws, y) \in Seq(Line)
    BY AppendProperties
  <2>2. Flat(ws) \in Line /\ (Flat(ws) = <<>> <=> AllEmpty(ws)) /\ NextPiece(ws, y) \in Line
    BY <1>4
  <2>3. Flat(Append(ws, y)) \in Line
    <3>1. Flat(ws) \o NextPiece(ws, y) \in Line
      BY <1>2, <2>2
    <3>2. Flat(Append(ws, y)) = Flat(ws) \o NextPiece(ws, y)
      BY <1>5
    <3>3. QED
      BY <3>1, <3>2
  <2>4. Flat(Append(ws, y)) = <<>> <=> Flat(ws) = <<>> /\ NextPiece(ws, y) = <<>>
    BY <1>2, <1>5, <2>2
  <2>5. CASE AllEmpty(ws)
    BY <1>6, <2>1, <2>2, <2>3, <2>4, <2>5 DEF NextPiece
  <2>6. CASE ~AllEmpty(ws)
    BY <1>6, <2>1, <2>2, <2>3, <2>4, <2>6
  <2>7. QED
    BY <2>5, <2>6
<1> HIDE DEF T
<1>9. Seq(Line) \subseteq T
  BY <1>7, <1>8, ListInduction
<1>10. HAVE vs \in Seq(Seq(Byte)) /\ v \in Seq(Byte)
<1>11. vs \in Seq(Line) /\ v \in Line
  BY <1>10 DEF Line
<1>12. Flat(vs) \in Line /\ (Flat(vs) = <<>> <=> AllEmpty(vs))
  BY <1>9, <1>11 DEF T
<1>13. Flat(Append(vs, v)) = Joined(Flat(vs), v)
  <2>1. CASE AllEmpty(vs)
    <3>1. Flat(vs) = <<>> /\ NextPiece(vs, v) = v /\ <<>> \o v = v
      BY <1>2, <1>11, <1>12, <2>1 DEF NextPiece
    <3>2. QED
      BY <1>5, <1>11, <3>1 DEF Joined
  <2>2. CASE ~AllEmpty(vs)
    <3>1. Flat(vs) # <<>> /\ NextPiece(vs, v) = <<"LF">> \o v
      BY <1>12, <2>2 DEF NextPiece
    <3>2. (Flat(vs) \o <<"LF">>) \o v = Flat(vs) \o (<<"LF">> \o v)
      BY <1>1, <1>3, <1>11, <1>12
    <3>3. QED
      BY <1>5, <1>11, <3>1, <3>2 DEF Joined
  <2>3. QED
    BY <2>1, <2>2
<1>14. QED
  BY <1>12, <1>13 DEF Line

LongLine(b) == \E i \in DOMAIN b : Len(b[i]) >= LineCap
LongName(b) == \E v \in Range(Values(b, "event")) : Len(v) >= NameCap

\* What a block says with one line more, and whether it still fits (sse.c:41-105,
\* 129-133).
LEMMA BlockMore ==
  ASSUME NEW b, NEW l
  PROVE  b \in Seq(Seq(Byte)) /\ l \in Seq(Byte) =>
           LET t == Append(b, l)
               f == Chomp(l)
           IN  /\ NameOf(b) \in Seq(Byte) /\ Told(b) \in Seq(Byte)
               /\ IsField(f, "event") =>
                    ~IsField(f, "data") /\ NameOf(t) = Value(f) /\ IsEvent(t)
               /\ ~IsField(f, "event") => NameOf(t) = NameOf(b)
               /\ IsField(f, "data") => Told(t) = Joined(Told(b), Value(f)) /\ IsEvent(t)
               /\ ~IsField(f, "data") => Told(t) = Told(b)
               /\ ~IsField(f, "event") /\ ~IsField(f, "data") => (IsEvent(t) <=> IsEvent(b))
               /\ TooLong(b) <=> LongLine(b) \/ LongName(b) \/ Len(Told(b)) >= DataCap
               /\ TooLong(t) <=> \/ LongLine(b) \/ Len(l) >= LineCap
                                 \/ LongName(b)
                                 \/ IsField(f, "event") /\ Len(Value(f)) >= NameCap
                                 \/ Len(Told(t)) >= DataCap
<1>0. HAVE b \in Seq(Seq(Byte)) /\ l \in Seq(Byte)
<1> DEFINE t == Append(b, l)
           f == Chomp(l)
           v == Value(f)
           names == Values(b, "event")
           datas == Values(b, "data")
           Line == Seq(Byte)
<1>1. /\ names \in Seq(Line) /\ datas \in Seq(Line) /\ v \in Line
      /\ IsField(f, "event") => Values(t, "event") = Append(names, v)
      /\ ~IsField(f, "event") => Values(t, "event") = names
      /\ IsField(f, "data") => Values(t, "data") = Append(datas, v)
      /\ ~IsField(f, "data") => Values(t, "data") = datas
  <2>1. /\ Values(b, "event") \in Seq(Seq(Byte))
        /\ Value(Chomp(l)) \in Seq(Byte)
        /\ IsField(Chomp(l), "event") =>
             Values(Append(b, l), "event") = Append(Values(b, "event"), Value(Chomp(l)))
        /\ ~IsField(Chomp(l), "event") => Values(Append(b, l), "event") = Values(b, "event")
    BY <1>0, ValuesMore
  <2>2. /\ Values(b, "data") \in Seq(Seq(Byte))
        /\ Value(Chomp(l)) \in Seq(Byte)
        /\ IsField(Chomp(l), "data") =>
             Values(Append(b, l), "data") = Append(Values(b, "data"), Value(Chomp(l)))
        /\ ~IsField(Chomp(l), "data") => Values(Append(b, l), "data") = Values(b, "data")
    BY <1>0, ValuesMore
  <2>3. QED
    BY <2>1, <2>2
<1>2. IsField(f, "event") => ~IsField(f, "data")
  BY DEF IsField
<1>3. /\ Flat(datas) \in Line /\ Flat(Append(datas, v)) = Joined(Flat(datas), v)
  BY <1>1, FlatMore
<1>4. /\ DOMAIN t = 1..Len(b) + 1 /\ DOMAIN b = 1..Len(b) /\ t[Len(b) + 1] = l
      /\ \A i \in 1..Len(b) : t[i] = b[i]
      /\ \A i : i \in 1..Len(b) + 1 <=> i \in 1..Len(b) \/ i = Len(b) + 1
  BY <1>0, OneMore
<1>5. LongLine(t) <=> LongLine(b) \/ Len(l) >= LineCap
  <2> HIDE DEF t
  <2>1. QED
    BY <1>4 DEF LongLine
<1> HIDE DEF t, f, v, names, datas, Line
<1>6. /\ names # <<>> => names[Len(names)] \in Line
      /\ Append(names, v) # <<>> /\ Append(datas, v) # <<>>
      /\ Last(Append(names, v)) = v
      /\ Range(Append(names, v)) = Range(names) \cup {v}
  <2>1. names # <<>> => names[Len(names)] \in Line
    BY <1>1, LastElement
  <2>2. Append(names, v) # <<>> /\ Append(datas, v) # <<>>
    BY <1>1, AppendProperties
  <2>3. /\ Len(Append(names, v)) = Len(names) + 1 /\ Append(names, v)[Len(names) + 1] = v
    BY <1>1, AppendProperties
  <2>4. Range(Append(names, v)) = Range(names) \cup {v}
    BY <1>1, OneMore
  <2>5. QED
    BY <2>1, <2>2, <2>3, <2>4 DEF Last
<1>7. /\ Told(b) = Flat(datas)
      /\ IsField(f, "data") => Told(t) = Flat(Append(datas, v))
      /\ ~IsField(f, "data") => Told(t) = Flat(datas)
  BY <1>1, Zenon DEF Told, Flat, datas
<1>8. /\ NameOf(b) = IF names = <<>> THEN <<>> ELSE Last(names)
      /\ NameOf(t) = IF Values(t, "event") = <<>> THEN <<>> ELSE Last(Values(t, "event"))
  BY Zenon DEF NameOf, names
<1>9. NameOf(b) \in Line
  <2>1. <<>> \in Line
    BY EmptySeq DEF Line
  <2>2. QED
    BY <1>6, <1>8, <2>1 DEF Last
<1>10. /\ IsField(f, "event") => NameOf(t) = v
       /\ ~IsField(f, "event") => NameOf(t) = NameOf(b)
  BY <1>1, <1>6, <1>8, Zenon
<1>11. /\ IsEvent(b) <=> names # <<>> \/ datas # <<>>
       /\ IsEvent(t) <=> Values(t, "event") # <<>> \/ Values(t, "data") # <<>>
  BY Zenon DEF IsEvent, names, datas
<1>12. /\ IsField(f, "event") \/ IsField(f, "data") => IsEvent(t)
       /\ ~IsField(f, "event") /\ ~IsField(f, "data") => (IsEvent(t) <=> IsEvent(b))
  BY <1>1, <1>6, <1>11, Zenon
<1>13. LongName(t) <=> LongName(b) \/ (IsField(f, "event") /\ Len(v) >= NameCap)
  <2>1. LongName(b) <=> \E w \in Range(names) : Len(w) >= NameCap
    BY Zenon DEF LongName, names
  <2>2. LongName(t) <=> \E w \in Range(Values(t, "event")) : Len(w) >= NameCap
    BY Zenon DEF LongName
  <2>3. CASE IsField(f, "event")
    <3>1. Range(Values(t, "event")) = Range(names) \cup {v}
      BY <1>1, <1>6, <2>3
    <3>2. QED
      BY <2>1, <2>2, <2>3, <3>1
  <2>4. CASE ~IsField(f, "event")
    BY <1>1, <2>1, <2>2, <2>4, Zenon
  <2>5. QED
    BY <2>3, <2>4
<1>14. /\ TooLong(b) <=> LongLine(b) \/ LongName(b) \/ Len(Told(b)) >= DataCap
       /\ TooLong(t) <=> LongLine(t) \/ LongName(t) \/ Len(Told(t)) >= DataCap
  BY Zenon DEF TooLong, LongLine, LongName
<1>15. Told(b) \in Line /\ (IsField(f, "data") => Told(t) = Joined(Told(b), v))
       /\ (~IsField(f, "data") => Told(t) = Told(b))
  BY <1>3, <1>7
<1>16. QED
  BY <1>2, <1>5, <1>9, <1>10, <1>12, <1>13, <1>14, <1>15, Zenon DEF t, f, v, Line

\* Joining never makes the data shorter (sse.c:88-98).
LEMMA JoinedLonger ==
  ASSUME NEW d \in Seq(Byte), NEW v \in Seq(Byte)
  PROVE  Len(d) <= Len(Joined(d, v)) /\ Len(Joined(d, v)) \in Nat /\ Len(d) \in Nat
<1>1. Joined(d, v) \in Seq(Byte)
  BY JoinedType
<1>2. Len(d) \in Nat /\ Len(v) \in Nat /\ Len(Joined(d, v)) \in Nat
  BY <1>1, LenProperties
<1>3. CASE d = <<>>
  <2>1. Len(d) = 0
    BY <1>3, EmptySeq
  <2>2. QED
    BY <1>2, <2>1
<1>4. CASE d # <<>>
  <2> DEFINE nl == <<"LF">>
  <2>1. nl \in Seq(Byte) /\ Len(nl) = 1
    <3>1. "LF" \in Byte
      BY Zenon DEF Byte
    <3>2. QED
      BY <3>1
  <2> HIDE DEF nl
  <2> DEFINE first == d \o nl
  <2>2. first \in Seq(Byte) /\ Len(first) = Len(d) + 1
    BY <2>1, ConcatProperties, SMTT(30)
  <2>3. Joined(d, v) = first \o v
    BY <1>4 DEF Joined, nl
  <2> HIDE DEF first
  <2>4. Len(first \o v) = Len(first) + Len(v)
    BY <2>2, ConcatProperties
  <2>5. QED
    BY <1>2, <2>2, <2>3, <2>4
<1>5. QED
  BY <1>3, <1>4

\* What does not fit does not fit with more after it, and neither does a block
\* with a line that does not.
LEMMA StillTooLong ==
  ASSUME NEW b, NEW l
  PROVE  b \in Seq(Seq(Byte)) /\ l \in Seq(Byte) =>
           (TooLong(b) \/ Len(l) >= LineCap => TooLong(Append(b, l)))
<1>0. HAVE b \in Seq(Seq(Byte)) /\ l \in Seq(Byte)
<1> DEFINE t == Append(b, l)
           f == Chomp(l)
           d == Told(b)
           e == Told(t)
<1>1. /\ d \in Seq(Byte)
      /\ IsField(f, "data") => e = Joined(d, Value(f))
      /\ ~IsField(f, "data") => e = d
      /\ TooLong(b) <=> LongLine(b) \/ LongName(b) \/ Len(d) >= DataCap
      /\ TooLong(t) <=> \/ LongLine(b) \/ Len(l) >= LineCap
                        \/ LongName(b)
                        \/ IsField(f, "event") /\ Len(Value(f)) >= NameCap
                        \/ Len(e) >= DataCap
  BY <1>0, BlockMore, Zenon
<1>2. Value(f) \in Seq(Byte)
  BY <1>0, LineTypes
<1>3. DataCap \in Nat
  BY SseAssumption
<1> HIDE DEF t, f, d, e
<1>4. Len(d) \in Nat /\ Len(e) \in Nat /\ Len(d) <= Len(e)
  <2>1. CASE IsField(f, "data")
    BY <1>1, <1>2, <2>1, JoinedLonger
  <2>2. CASE ~IsField(f, "data")
    <3>1. e = d /\ Len(d) \in Nat
      BY <1>1, <2>2, LenProperties
    <3>2. QED
      BY <3>1
  <2>3. QED
    BY <2>1, <2>2
<1>5. Len(d) >= DataCap => Len(e) >= DataCap
  BY <1>3, <1>4
<1>6. QED
  BY <1>1, <1>5, Zenon DEF t

\* A block without lines is no event and fits.
LEMMA EmptyBlock ==
  /\ NameOf(<<>>) = <<>> /\ Told(<<>>) = <<>>
  /\ ~IsEvent(<<>>) /\ ~TooLong(<<>>)
<1> DEFINE none == <<>>
<1>1. /\ none \in Seq(Seq(Byte)) /\ Len(none) = 0 /\ DOMAIN none = {}
  <2>1. <<>> \in Seq(Seq(Byte)) /\ Len(<<>>) = 0
    BY EmptySeq
  <2>2. QED
    BY <2>1, LenProperties
<1>2. Values(none, "event") = none /\ Values(none, "data") = none
  BY ValuesOfNone
<1>3. Spaced(none) = none
  <2>1. none = [i \in {} |-> none[i]]
    OBVIOUS
  <2> HIDE DEF none
  <2>2. QED
    BY <1>1, <2>1 DEF Spaced
<1> HIDE DEF none
<1>4. Told(none) = none
  <2>1. Told(none) = FlattenSeq(none)
    BY <1>2, <1>3 DEF Told
  <2>2. QED
    BY <1>1, <2>1 DEF FlattenSeq
<1>5. NameOf(none) = none
  BY <1>2, Zenon DEF NameOf, none
<1>6. ~IsEvent(none)
  BY <1>2, Zenon DEF IsEvent, none
<1>7. ~TooLong(none)
  <2>1. 0 < DataCap /\ DataCap \in Nat
    BY SseAssumption
  <2>2. ~LongLine(none)
    BY <1>1 DEF LongLine
  <2>3. Range(none) = {}
    BY <1>1 DEF Range
  <2>4. ~LongName(none)
    BY <1>2, <2>3 DEF LongName
  <2>5. ~(Len(Told(none)) >= DataCap)
    BY <1>1, <1>4, <2>1
  <2>6. TooLong(none) <=> LongLine(none) \/ LongName(none) \/ Len(Told(none)) >= DataCap
    BY Zenon DEF TooLong, LongLine, LongName
  <2>7. QED
    BY <2>2, <2>4, <2>5, <2>6
<1>8. QED
  BY <1>4, <1>5, <1>6, <1>7 DEF none

-----------------------------------------------------------------------------
(* What the parser knows of the stream.                                    *)

\* What the code calls the callback with for a block.
EventOf(block) == [name |-> NameOf(block), data |-> Told(block)]

\* The events the callback is called for in the first n blocks.
Calls(blocks, n) ==
  LET events == Picked(blocks, {i \in 1..n : IsEvent(blocks[i])})
  IN  [i \in DOMAIN events |-> EventOf(events[i])]

\* What ssoossh_sse_feed has read of what it was given.
ReadSoFar == SubSeq(sent, 1, Len(sent) - Len(unread))

\* No block before the n-th makes the parser stop.
NoStopBefore(s, n) == \A i \in 1..n - 1 : ~StopsAt(Blocks(s)[i])

\* The n-th block ends with a terminal event, and nothing stopped the parser
\* before; or it does not fit, or the line begun in it does not.
EndedBy(s, n) ==
  /\ n \in 1..Len(Blocks(s)) - 1
  /\ EndsIn(Blocks(s)[n]) /\ ~TooLong(Blocks(s)[n])
  /\ NoStopBefore(s, n)
OverBy(s, n) ==
  /\ n \in 1..Len(Blocks(s))
  /\ \/ TooLong(Blocks(s)[n])
     \/ n = Len(Blocks(s)) /\ Len(LineBegun(s)) >= LineCap
  /\ NoStopBefore(s, n)

\* While it goes on, its buffers are the line and the block begun, everything
\* done fitted and was called back, and nothing done was terminal.
GoesOn(s) ==
  /\ line = LineBegun(s)
  /\ name = NameOf(BlockBegun(s)) /\ data = Told(BlockBegun(s))
  /\ haveEvent = IsEvent(BlockBegun(s))
  /\ ~TooLong(BlockBegun(s))
  /\ NoStopBefore(s, Len(Blocks(s)))
  /\ delivered = Calls(Blocks(s), Len(Blocks(s)) - 1)

StreamInv ==
  /\ sent = ReadSoFar \o unread
  /\ ~stopped /\ ~overflow => GoesOn(ReadSoFar)
  /\ stopped => ~overflow /\ \E n \in 1..Len(Blocks(sent)) :
                               EndedBy(sent, n) /\ delivered = Calls(Blocks(sent), n)
  /\ overflow => ~stopped /\ \E n \in 1..Len(Blocks(sent)) :
                               OverBy(sent, n) /\ delivered = Calls(Blocks(sent), n - 1)

-----------------------------------------------------------------------------
(* What more bytes change.                                                 *)

\* The calls for some blocks depend on those blocks only.
LEMMA CallsSame ==
  ASSUME NEW p, NEW q, NEW n \in Nat, \A i \in 1..n : q[i] = p[i]
  PROVE  Calls(p, n) = Calls(q, n)
<1> DEFINE at == {i \in 1..n : IsEvent(p[i])}
<1>1. {i \in 1..n : IsEvent(q[i])} = at
  <2>1. \A i \in 1..n : IsEvent(q[i]) <=> IsEvent(p[i])
    <3> TAKE i \in 1..n
    <3>1. q[i] = p[i]
      OBVIOUS
    <3>2. QED
      BY <3>1
  <2>2. QED
    BY <2>1
<1>2. at \in SUBSET (1..n) /\ SameIn(p, q, at)
  BY DEF SameIn
<1>3. /\ Calls(p, n) = [i \in DOMAIN Picked(p, at) |-> EventOf(Picked(p, at)[i])]
      /\ Calls(q, n) = [i \in DOMAIN Picked(q, at) |-> EventOf(Picked(q, at)[i])]
  BY <1>1, Zenon DEF Calls
<1> HIDE DEF at
<1>4. Picked(p, at) = Picked(q, at)
  BY <1>2, PickedSame
<1>5. QED
  BY <1>3, <1>4

\* A block more is called back after the others if it is an event, and is not
\* called back if it is none (sse.c:22-37).
LEMMA CallsMore ==
  ASSUME NEW R, NEW p, NEW n \in Nat \ {0}
  PROVE  p \in Seq(R) /\ n <= Len(p) =>
           /\ ~IsEvent(p[n]) => Calls(p, n) = Calls(p, n - 1)
           /\ IsEvent(p[n]) => Calls(p, n) = Append(Calls(p, n - 1), EventOf(p[n]))
<1>0. HAVE p \in Seq(R) /\ n <= Len(p)
<1> DEFINE m == n - 1
           at == {i \in 1..m : IsEvent(p[i])}
           all == {i \in 1..n : IsEvent(p[i])}
           s == Picked(p, at)
           t == Picked(p, all)
           V == {EventOf(x) : x \in R}
<1>1. m \in Nat /\ n = m + 1 /\ \A i : i \in 1..n <=> i \in 1..m \/ i = n
  OBVIOUS
<1>2. \A i \in 1..n : p[i] \in R
  BY <1>0, ElementOfSeq, LenProperties
<1>3. /\ Calls(p, m) = [i \in DOMAIN s |-> EventOf(s[i])]
      /\ Calls(p, n) = [i \in DOMAIN t |-> EventOf(t[i])]
  BY Zenon DEF Calls
<1> HIDE DEF m
<1>4. at \in SUBSET (1..m) /\ AllIn(p, at, R) /\ SameIn(p, p, at)
  BY <1>1, <1>2 DEF AllIn, SameIn
<1>5. CASE ~IsEvent(p[n])
  <2>1. all = at
    BY <1>1, <1>5
  <2>2. QED
    BY <1>3, <1>5, <2>1 DEF m
<1>6. CASE IsEvent(p[n])
  <2>1. Grows(p, at, p, all, n, R)
    <3>1. all = at \cup {n}
      BY <1>1, <1>6
    <3>2. n - 1 = m
      BY DEF m
    <3> HIDE DEF at, all
    <3>3. p[n] \in R
      BY <1>1, <1>2
    <3>4. QED
      BY <1>4, <3>1, <3>2, <3>3 DEF Grows
  <2> HIDE DEF at, all
  <2>2. t = Append(s, p[n])
    BY <2>1, PickedMore
  <2>3. s \in Seq(R) /\ p[n] \in R
    BY <1>1, <1>2, <1>4, PickedIsList
  <2> HIDE DEF s, t
  <2> DEFINE len == Len(s)
  <2>4. /\ len \in Nat /\ DOMAIN s = 1..len /\ DOMAIN t = 1..len + 1
        /\ t[len + 1] = p[n] /\ \A i \in 1..len : t[i] = s[i]
        /\ \A i : i \in 1..len + 1 <=> i \in 1..len \/ i = len + 1
    BY <2>2, <2>3, OneMore
  <2>5. \A i \in 1..len : s[i] \in R
    BY <2>3, ElementOfSeq
  <2> HIDE DEF len
  <2>6. Calls(p, m) \in [1..len -> V]
    BY <1>3, <2>4, <2>5
  <2>7. /\ DOMAIN Calls(p, n) = 1..len + 1
        /\ Calls(p, n)[len + 1] = EventOf(p[n])
        /\ \A i \in 1..len : Calls(p, n)[i] = Calls(p, m)[i]
    BY <1>3, <2>4
  <2>8. Calls(p, n) \in [1..len + 1 -> V]
    <3>1. Calls(p, n) = [i \in 1..len + 1 |-> Calls(p, n)[i]]
      BY <1>3, <2>7
    <3>2. EventOf(p[n]) \in V
      BY <2>3
    <3>3. \A i \in 1..len + 1 : Calls(p, n)[i] \in V
      BY <2>4, <2>6, <2>7, <3>2
    <3>4. QED
      BY <3>1, <3>3
  <2> DEFINE e == EventOf(p[n])
             c == Calls(p, m)
             d == Calls(p, n)
             k == len + 1
  <2>9. e \in V /\ k \in Nat /\ len \in Nat
    BY <2>3, <2>4
  <2>10. c \in [1..len -> V] /\ d \in [1..k -> V]
    BY <2>6, <2>8
  <2>11. d[k] = e /\ \A i \in 1..len : d[i] = c[i]
    BY <2>7
  <2>12. \A i : i \in 1..k <=> i \in 1..len \/ i = k
    BY <2>4
  <2>13. k = len + 1
    OBVIOUS
  <2> HIDE DEF e, c, d, k, V
  <2>14. c \in Seq(V) /\ Len(c) = len /\ d \in Seq(V) /\ Len(d) = k
    BY <2>9, <2>10, FunctionIsList
  <2>15. /\ Append(c, e) \in Seq(V) /\ Len(Append(c, e)) = len + 1
         /\ Append(c, e)[len + 1] = e /\ \A i \in 1..len : Append(c, e)[i] = c[i]
    BY <2>9, <2>14, AppendProperties
  <2>16. \A i \in 1..k : d[i] = Append(c, e)[i]
    BY <2>11, <2>12, <2>13, <2>15
  <2>17. d = Append(c, e)
    BY <2>13, <2>14, <2>15, <2>16, SeqEqual
  <2>18. QED
    BY <1>6, <2>17 DEF c, d, e, m
<1>7. QED
  BY <1>5, <1>6

\* A block done stays as it is, and a block or a line that does not fit is still
\* too long with more after it.
LEMMA BlocksStay ==
  ASSUME NEW s, NEW c
  PROVE  s \in Seq(Byte) /\ c \in Byte =>
           LET n == Len(Blocks(s))
               t == Append(s, c)
           IN  /\ n \in Nat \ {0} /\ Len(Blocks(t)) \in Nat /\ n <= Len(Blocks(t))
               /\ \A i \in 1..n - 1 : Blocks(t)[i] = Blocks(s)[i]
               /\ TooLong(Blocks(s)[n]) => TooLong(Blocks(t)[n])
               /\ Len(LineBegun(s)) >= LineCap =>
                    \/ TooLong(Blocks(t)[n])
                    \/ n = Len(Blocks(t)) /\ Len(LineBegun(t)) >= LineCap
<1>0. HAVE s \in Seq(Byte) /\ c \in Byte
<1> DEFINE Line == Seq(Byte)
           Block == Seq(Line)
           t == Append(s, c)
           n == Len(Blocks(s))
           done == BlocksDone(s)
           begun == BlockBegun(s)
           new == LineBegun(s)
<1>1. t \in Seq(Byte)
  BY <1>0, AppendProperties
<1>2. /\ done \in Seq(Block) /\ begun \in Block /\ Blocks(s) \in Seq(Block)
      /\ Blocks(s) = Append(done, begun) /\ new \in Line
  BY <1>0, StreamTypes
<1>3. /\ BlocksDone(t) \in Seq(Block) /\ BlockBegun(t) \in Block /\ Blocks(t) \in Seq(Block)
      /\ Blocks(t) = Append(BlocksDone(t), BlockBegun(t))
  BY <1>1, StreamTypes
<1>4. /\ c # "LF" => Blocks(t) = Blocks(s) /\ LineBegun(t) = Append(new, c)
      /\ c = "LF" /\ Chomp(new) = <<>> => BlocksDone(t) = Blocks(s) /\ BlockBegun(t) = <<>>
      /\ c = "LF" /\ Chomp(new) # <<>> =>
           BlocksDone(t) = done /\ BlockBegun(t) = Append(begun, new)
  BY <1>0, BlocksMore, LinesMore
<1>5. TooLong(begun) \/ Len(new) >= LineCap => TooLong(Append(begun, new))
  BY <1>2, StillTooLong
<1>6. Len(new) >= LineCap => Chomp(new) # <<>>
  <2>1. Len(new) \in Nat /\ LineCap \in Nat /\ LineCap >= 2
    BY <1>2, LenProperties, SseAssumption
  <2>2. SUFFICES ASSUME Len(new) >= LineCap PROVE Chomp(new) # <<>>
    OBVIOUS
  <2>3. Len(new) >= 2
    BY <2>1, <2>2
  <2> HIDE DEF new
  <2>4. new # <<>>
    BY <2>1, <2>3, EmptySeq
  <2>5. Len(SubSeq(new, 1, Len(new) - 1)) = Len(new) - 1
    BY <1>2, <2>4, LastElement DEF Line
  <2>6. Len(SubSeq(new, 1, Len(new) - 1)) # 0
    BY <2>1, <2>3, <2>5
  <2>7. SubSeq(new, 1, Len(new) - 1) # <<>>
    BY <2>6, EmptySeq
  <2>8. QED
    BY <2>4, <2>7 DEF Chomp
<1> DEFINE k == Len(done)
<1> HIDE DEF Block, Line, t, n, done, begun, new
<1>7. /\ k \in Nat /\ n = k + 1 /\ Blocks(s)[n] = begun /\ \A i \in 1..k : Blocks(s)[i] = done[i]
  <2>1. n = k + 1
    BY <1>2, AppendProperties DEF n
  <2>2. k \in Nat
    BY <1>2, LenProperties
  <2>3. Append(done, begun)[k + 1] = begun /\ \A i \in 1..k : Append(done, begun)[i] = done[i]
    BY <1>2, AppendProperties
  <2>4. QED
    BY <1>2, <2>1, <2>2, <2>3
<1> HIDE DEF k
<1>8. n - 1 = k /\ n \in Nat \ {0}
  BY <1>7
<1>9. CASE c # "LF"
  <2>1. Blocks(t) = Blocks(s) /\ Len(Blocks(t)) = n
    BY <1>4, <1>9 DEF n
  <2>2. Len(new) >= LineCap => Len(LineBegun(t)) >= LineCap
    <3>1. Len(Append(new, c)) = Len(new) + 1 /\ Len(new) \in Nat
      BY <1>0, <1>2, AppendProperties, LenProperties DEF Line
    <3>2. LineBegun(t) = Append(new, c) /\ LineCap \in Nat
      BY <1>4, <1>9, SseAssumption
    <3>3. QED
      BY <3>1, <3>2
  <2>3. QED
    BY <1>8, <2>1, <2>2 DEF t, n, new
<1>10. CASE c = "LF" /\ Chomp(new) = <<>>
  <2>1. Len(Append(Blocks(s), BlockBegun(t))) = n + 1
        /\ \A i \in 1..n : Append(Blocks(s), BlockBegun(t))[i] = Blocks(s)[i]
    BY <1>2, <1>3, AppendProperties DEF n
  <2>2. Blocks(t) = Append(Blocks(s), BlockBegun(t))
    BY <1>3, <1>4, <1>10
  <2>3. Len(Blocks(t)) = n + 1 /\ \A i \in 1..n : Blocks(t)[i] = Blocks(s)[i]
    BY <2>1, <2>2
  <2>4. n \in 1..n /\ \A i \in 1..n - 1 : i \in 1..n
    BY <1>8
  <2>5. /\ n <= Len(Blocks(t)) /\ Len(Blocks(t)) \in Nat
    BY <1>8, <2>3
  <2>6. Blocks(t)[n] = Blocks(s)[n] /\ \A i \in 1..n - 1 : Blocks(t)[i] = Blocks(s)[i]
    BY <2>3, <2>4
  <2>7. QED
    BY <1>6, <1>8, <1>10, <2>5, <2>6 DEF t, n, new
<1>11. CASE c = "LF" /\ Chomp(new) # <<>>
  <2> DEFINE grown == Append(begun, new)
  <2>1. BlocksDone(t) = done /\ BlockBegun(t) = grown
    BY <1>4, <1>11
  <2>2. Blocks(t) = Append(done, grown) /\ grown \in Block
    BY <1>3, <2>1
  <2>3. TooLong(begun) \/ Len(new) >= LineCap => TooLong(grown)
    BY <1>5
  <2> HIDE DEF grown
  <2>4. Len(Append(done, grown)) = k + 1 /\ Append(done, grown)[k + 1] = grown
        /\ \A i \in 1..k : Append(done, grown)[i] = done[i]
    BY <1>2, <2>2, AppendProperties DEF k
  <2>5. Len(Blocks(t)) = n /\ Blocks(t)[n] = grown /\ \A i \in 1..k : Blocks(t)[i] = Blocks(s)[i]
    BY <1>7, <2>2, <2>4
  <2>6. n <= n /\ n \in Nat
    BY <1>8
  <2>7. QED
    BY <1>7, <1>8, <2>3, <2>5, <2>6 DEF t, n, new
<1>12. QED
  BY <1>9, <1>10, <1>11

\* What made the parser stop is still there a byte later, and so are the calls
\* made up to then (sse.c:109-111).
LEMMA StopStays ==
  ASSUME NEW s, NEW c, NEW n
  PROVE  s \in Seq(Byte) /\ c \in Byte =>
           /\ EndedBy(s, n) => /\ EndedBy(Append(s, c), n)
                               /\ Calls(Blocks(Append(s, c)), n) = Calls(Blocks(s), n)
           /\ OverBy(s, n) => /\ OverBy(Append(s, c), n)
                              /\ Calls(Blocks(Append(s, c)), n - 1) = Calls(Blocks(s), n - 1)
<1>0. HAVE s \in Seq(Byte) /\ c \in Byte
<1> DEFINE t == Append(s, c)
           p == Blocks(s)
           q == Blocks(t)
           m == Len(p)
<1>1. /\ m \in Nat \ {0} /\ Len(q) \in Nat /\ m <= Len(q)
      /\ \A i \in 1..m - 1 : q[i] = p[i]
      /\ TooLong(p[m]) => TooLong(q[m])
      /\ Len(LineBegun(s)) >= LineCap =>
           TooLong(q[m]) \/ (m = Len(q) /\ Len(LineBegun(t)) >= LineCap)
  BY <1>0, BlocksStay
<1>2. /\ EndedBy(s, n) <=> /\ n \in 1..m - 1 /\ EndsIn(p[n]) /\ ~TooLong(p[n])
                           /\ \A i \in 1..n - 1 : ~StopsAt(p[i])
      /\ EndedBy(t, n) <=> /\ n \in 1..Len(q) - 1 /\ EndsIn(q[n]) /\ ~TooLong(q[n])
                           /\ \A i \in 1..n - 1 : ~StopsAt(q[i])
      /\ OverBy(s, n) <=> /\ n \in 1..m
                          /\ TooLong(p[n]) \/ (n = m /\ Len(LineBegun(s)) >= LineCap)
                          /\ \A i \in 1..n - 1 : ~StopsAt(p[i])
      /\ OverBy(t, n) <=> /\ n \in 1..Len(q)
                          /\ TooLong(q[n]) \/ (n = Len(q) /\ Len(LineBegun(t)) >= LineCap)
                          /\ \A i \in 1..n - 1 : ~StopsAt(q[i])
  BY Zenon DEF EndedBy, OverBy, NoStopBefore
<1> HIDE DEF p, q, m
<1>3. ASSUME EndedBy(s, n) PROVE EndedBy(t, n) /\ Calls(q, n) = Calls(p, n)
  <2>1. n \in 1..m - 1
    BY <1>2, <1>3
  <2>2. n \in Nat /\ n \in 1..Len(q) - 1 /\ \A i \in 1..n : i \in 1..m - 1
    BY <1>1, <2>1
  <2>3. \A i \in 1..n : q[i] = p[i]
    BY <1>1, <2>2
  <2>4. q[n] = p[n] /\ \A i \in 1..n - 1 : q[i] = p[i]
    BY <1>1, <2>1, <2>2
  <2>5. Calls(p, n) = Calls(q, n)
    BY <2>2, <2>3, CallsSame
  <2>6. QED
    BY <1>2, <1>3, <2>2, <2>4, <2>5, Zenon
<1>4. ASSUME OverBy(s, n) PROVE OverBy(t, n) /\ Calls(q, n - 1) = Calls(p, n - 1)
  <2>1. n \in 1..m
    BY <1>2, <1>4
  <2> DEFINE k == n - 1
  <2>2. k \in Nat /\ n \in 1..Len(q) /\ \A i \in 1..k : i \in 1..m - 1
    BY <1>1, <2>1
  <2>3. \A i \in 1..k : q[i] = p[i]
    BY <1>1, <2>2
  <2>4. TooLong(q[n]) \/ (n = Len(q) /\ Len(LineBegun(t)) >= LineCap)
    <3>1. CASE n = m
      BY <1>1, <1>2, <1>4, <3>1
    <3>2. CASE n # m
      <4>1. n \in 1..m - 1
        BY <1>1, <2>1, <3>2
      <4>2. TooLong(p[n]) /\ q[n] = p[n]
        BY <1>1, <1>2, <1>4, <3>2, <4>1
      <4>3. QED
        BY <4>2
    <3>3. QED
      BY <3>1, <3>2
  <2>5. \A i \in 1..k : ~StopsAt(q[i])
    BY <1>2, <1>4, <2>3
  <2>6. OverBy(t, n)
    BY <1>2, <2>2, <2>4, <2>5
  <2> HIDE DEF k
  <2>7. Calls(p, k) = Calls(q, k)
    BY <2>2, <2>3, CallsSame
  <2>8. QED
    BY <2>6, <2>7 DEF k
<1>5. QED
  BY <1>3, <1>4 DEF t, p, q

\* And so it is however much more was fed in the same chunk (sse.c:121-124: the
\* rest of the chunk is not read).
LEMMA StopStaysSaid ==
  ASSUME NEW s \in Seq(Byte), NEW n
  PROVE  \A r \in Seq(Byte) :
           /\ s \o r \in Seq(Byte)
           /\ EndedBy(s, n) => /\ EndedBy(s \o r, n)
                               /\ Calls(Blocks(s \o r), n) = Calls(Blocks(s), n)
           /\ OverBy(s, n) => /\ OverBy(s \o r, n)
                              /\ Calls(Blocks(s \o r), n - 1) = Calls(Blocks(s), n - 1)
<1> DEFINE Stays(t) == /\ t \in Seq(Byte)
                       /\ EndedBy(s, n) => /\ EndedBy(t, n)
                                           /\ Calls(Blocks(t), n) = Calls(Blocks(s), n)
                       /\ OverBy(s, n) => /\ OverBy(t, n)
                                          /\ Calls(Blocks(t), n - 1) = Calls(Blocks(s), n - 1)
           T == {r \in Seq(Byte) : Stays(s \o r)}
<1>1. <<>> \in T
  <2>1. <<>> \in Seq(Byte) /\ s \o <<>> = s
    BY EmptySeq, ConcatEmptySeq
  <2>2. Stays(s)
    OBVIOUS
  <2> HIDE DEF Stays
  <2>3. QED
    BY <2>1, <2>2
<1>2. ASSUME NEW r \in Seq(Byte), NEW c \in Byte, r \in T PROVE Append(r, c) \in T
  <2> DEFINE t == s \o r
  <2>1. Append(r, c) \in Seq(Byte)
    BY AppendProperties
  <2>2. t \in Seq(Byte) /\ Stays(t)
    BY <1>2
  <2>3. s \o Append(r, c) = Append(t, c)
    BY SMTT(30)
  <2> HIDE DEF t
  <2>4. Append(t, c) \in Seq(Byte)
    BY <2>2, AppendProperties
  <2>5. /\ EndedBy(t, n) => /\ EndedBy(Append(t, c), n)
                            /\ Calls(Blocks(Append(t, c)), n) = Calls(Blocks(t), n)
        /\ OverBy(t, n) => /\ OverBy(Append(t, c), n)
                           /\ Calls(Blocks(Append(t, c)), n - 1) = Calls(Blocks(t), n - 1)
    BY <2>2, StopStays
  <2>6. Stays(Append(t, c))
    BY <2>2, <2>4, <2>5, Zenon
  <2> HIDE DEF Stays
  <2>7. QED
    BY <2>1, <2>3, <2>6
<1> HIDE DEF T
<1>3. Seq(Byte) \subseteq T
  BY <1>1, <1>2, ListInduction
<1>4. QED
  BY <1>3 DEF T

\* What has been read, and the rest of the chunk, are what was fed.
LEMMA ReadThenUnread ==
  ASSUME NEW R, NEW s \in Seq(R), NEW u \in Seq(R)
  PROVE  SubSeq(s \o u, 1, Len(s \o u) - Len(u)) = s
<1> DEFINE t == s \o u
           n == Len(s)
<1>1. /\ t \in Seq(R) /\ Len(t) = n + Len(u) /\ \A i \in 1..n : t[i] = s[i]
      /\ n \in Nat /\ Len(u) \in Nat
  BY ConcatProperties, LenProperties
<1>2. Len(t) - Len(u) = n /\ 1 \in Int /\ n \in Int /\ n <= Len(t)
  BY <1>1
<1>3. \A i \in 1..n : t[i] \in R
  BY <1>1, ElementOfSeq
<1> HIDE DEF t, n
<1>4. /\ SubSeq(t, 1, n) \in Seq(R) /\ Len(SubSeq(t, 1, n)) = n
      /\ \A i \in 1..n : SubSeq(t, 1, n)[i] = t[i]
  <2>1. SubSeq(t, 1, n) \in Seq(R)
    BY <1>2, <1>3, SubSeqProperties
  <2>2. Len(SubSeq(t, 1, n)) = n
    BY <1>1, <1>2, <1>3, SubSeqProperties
  <2>3. \A i \in 1..n : SubSeq(t, 1, n)[i] = t[1 + i - 1]
    BY <1>1, <1>2, <1>3, SubSeqProperties
  <2>4. \A i \in 1..n : 1 + i - 1 = i
    BY <1>1
  <2>5. QED
    BY <2>1, <2>2, <2>3, <2>4
<1>5. SubSeq(t, 1, n) = s
  BY <1>1, <1>4, SeqEqual DEF n
<1>6. QED
  BY <1>2, <1>5 DEF t

\* One byte more has been read; or none is left to read, because all was read or
\* the rest of the chunk is dropped (sse.c:114, 121-124).
LEMMA ReadMore ==
  ASSUME TypeOK, sent = ReadSoFar \o unread, ReadSoFar \in Seq(Byte), unread # <<>>,
         sent' = sent
  PROVE  LET t == Append(ReadSoFar, Head(unread))
         IN  /\ Head(unread) \in Byte /\ t \in Seq(Byte)
             /\ GoOn => ReadSoFar' = t /\ sent' = ReadSoFar' \o unread'
             /\ Return => /\ ReadSoFar' = sent /\ sent' = ReadSoFar' \o unread'
                          /\ Tail(unread) \in Seq(Byte) /\ sent = t \o Tail(unread)
<1> DEFINE s == ReadSoFar
           c == Head(unread)
           r == Tail(unread)
           t == Append(s, c)
<1>1. c \in Byte /\ r \in Seq(Byte) /\ unread = <<c>> \o r
  <2>1. unread \in Seq(Byte)
    BY DEF TypeOK
  <2>2. QED
    BY <2>1, HeadTailProperties
<1>2. t \in Seq(Byte) /\ sent = t \o r
  <2>1. s \in Seq(Byte) /\ sent = s \o unread
    OBVIOUS
  <2> HIDE DEF s, c, r
  <2>2. t \in Seq(Byte)
    BY <1>1, <2>1, AppendProperties
  <2>3. s \o (<<c>> \o r) = Append(s, c) \o r
    <3> DEFINE h == <<c>>
    <3>1. h \in Seq(Byte) /\ s \o h = Append(s, c)
      BY <1>1, <2>1, AppendIsConcat
    <3> HIDE DEF h
    <3>2. s \in Seq(Byte) /\ h \in Seq(Byte) /\ r \in Seq(Byte)
      BY <1>1, <2>1, <3>1
    <3>3. (s \o h) \o r = s \o (h \o r)
      BY <3>2, ConcatAssociative, SMTT(30)
    <3>4. QED
      BY <3>1, <3>3 DEF h
  <2>4. QED
    BY <1>1, <2>1, <2>2, <2>3
<1> HIDE DEF s, c, r, t
<1>3. GoOn => ReadSoFar' = t /\ sent' = ReadSoFar' \o unread'
  <2>1. SUFFICES ASSUME GoOn PROVE ReadSoFar' = t /\ sent' = ReadSoFar' \o unread'
    OBVIOUS
  <2>2. unread' = r /\ sent' = t \o r
    BY <1>2, <2>1 DEF GoOn, r
  <2>3. ReadSoFar' = SubSeq(t \o r, 1, Len(t \o r) - Len(r))
    BY <2>2 DEF ReadSoFar
  <2>4. ReadSoFar' = t
    BY <1>1, <1>2, <2>3, ReadThenUnread
  <2>5. QED
    BY <2>2, <2>4
<1>4. Return => ReadSoFar' = sent /\ sent' = ReadSoFar' \o unread'
  <2>1. SUFFICES ASSUME Return PROVE ReadSoFar' = sent /\ sent' = ReadSoFar' \o unread'
    OBVIOUS
  <2>2. unread' = <<>> /\ <<>> \in Seq(Byte) /\ sent \in Seq(Byte) /\ sent' = sent
    BY <2>1, EmptySeq DEF Return, TypeOK
  <2>3. sent \o <<>> = sent
    BY <2>2, ConcatEmptySeq
  <2>4. ReadSoFar' = SubSeq(sent \o <<>>, 1, Len(sent \o <<>>) - Len(<<>>))
    BY <2>2, <2>3 DEF ReadSoFar
  <2>5. ReadSoFar' = sent
    BY <2>2, <2>4, ReadThenUnread
  <2>6. QED
    BY <2>2, <2>3, <2>5
<1>5. QED
  BY <1>1, <1>2, <1>3, <1>4 DEF s, c, r, t

\* Without anything unread everything fed has been read.
LEMMA AllRead ==
  ASSUME TypeOK, unread = <<>>
  PROVE  ReadSoFar = sent
<1>1. sent \in Seq(Byte) /\ <<>> \in Seq(Byte)
  BY EmptySeq DEF TypeOK
<1>2. sent \o <<>> = sent
  BY <1>1, ConcatEmptySeq
<1>3. SubSeq(sent \o <<>>, 1, Len(sent \o <<>>) - Len(<<>>)) = sent
  BY <1>1, ReadThenUnread
<1>4. QED
  BY <1>2, <1>3 DEF ReadSoFar

\* A blank line ends the block begun, and the events called back are those called
\* back so far and that block if it is one (sse.c:22-37, 46-48).
LEMMA BlankLine ==
  ASSUME NEW s, NEW c
  PROVE  s \in Seq(Byte) /\ c \in Byte /\ c = "LF" /\ Chomp(LineBegun(s)) = <<>> =>
           LET t == Append(s, c)
               n == Len(Blocks(s))
               b == BlockBegun(s)
               before == Calls(Blocks(s), n - 1)
           IN  /\ LineBegun(t) = <<>> /\ BlockBegun(t) = <<>>
               /\ n \in Nat \ {0} /\ Len(Blocks(t)) = n + 1 /\ Blocks(t)[n] = b
               /\ NoStopBefore(s, n) => NoStopBefore(t, n)
               /\ NoStopBefore(s, n) /\ ~StopsAt(b) => NoStopBefore(t, n + 1)
               /\ IsEvent(b) => Calls(Blocks(t), n) = Append(before, EventOf(b))
               /\ ~IsEvent(b) => Calls(Blocks(t), n) = before
<1>0. HAVE s \in Seq(Byte) /\ c \in Byte /\ c = "LF" /\ Chomp(LineBegun(s)) = <<>>
<1> DEFINE Block == Seq(Seq(Byte))
           t == Append(s, c)
           p == Blocks(s)
           q == Blocks(t)
           n == Len(p)
           done == BlocksDone(s)
           b == BlockBegun(s)
<1>1. t \in Seq(Byte)
  BY <1>0, AppendProperties
<1>2. done \in Seq(Block) /\ b \in Block /\ p \in Seq(Block) /\ p = Append(done, b)
  BY <1>0, StreamTypes
<1>3. q \in Seq(Block) /\ q = Append(BlocksDone(t), BlockBegun(t)) /\ BlockBegun(t) \in Block
  BY <1>1, StreamTypes
<1>4. BlocksDone(t) = p /\ BlockBegun(t) = <<>> /\ LineBegun(t) = <<>>
  BY <1>0, BlocksMore, LinesMore
<1> HIDE DEF Block, t, p, q, n, done, b
<1>5. n \in Nat \ {0} /\ p[n] = b
  <2>1. Len(done) \in Nat /\ Len(Append(done, b)) = Len(done) + 1
        /\ Append(done, b)[Len(done) + 1] = b
    BY <1>2, AppendProperties, LenProperties
  <2>2. QED
    BY <1>2, <2>1 DEF n
<1>6. Len(q) = n + 1 /\ \A i \in 1..n : q[i] = p[i]
  <2>1. q = Append(p, BlockBegun(t))
    BY <1>3, <1>4
  <2>2. Len(Append(p, BlockBegun(t))) = Len(p) + 1
        /\ \A i \in 1..Len(p) : Append(p, BlockBegun(t))[i] = p[i]
    BY <1>2, <1>3, AppendProperties
  <2>3. QED
    BY <2>1, <2>2 DEF n
<1>7. n \in 1..n /\ n + 1 - 1 = n /\ \A i : i \in 1..n <=> i \in 1..n - 1 \/ i = n
  BY <1>5
<1>8. Calls(p, n) = Calls(q, n)
  <2>1. n \in Nat
    BY <1>5
  <2>2. QED
    BY <1>6, <2>1, CallsSame
<1>9. /\ ~IsEvent(p[n]) => Calls(p, n) = Calls(p, n - 1)
      /\ IsEvent(p[n]) => Calls(p, n) = Append(Calls(p, n - 1), EventOf(p[n]))
  <2>1. n <= Len(p)
    BY <1>5 DEF n
  <2>2. QED
    BY <1>2, <1>5, <2>1, CallsMore
<1>10. /\ NoStopBefore(s, n) <=> \A i \in 1..n - 1 : ~StopsAt(p[i])
       /\ NoStopBefore(t, n) <=> \A i \in 1..n - 1 : ~StopsAt(q[i])
  BY Zenon DEF NoStopBefore, p, q
<1>11. NoStopBefore(t, n + 1) <=> \A i \in 1..n : ~StopsAt(q[i])
  <2> DEFINE next == n + 1
  <2>1. NoStopBefore(t, next) <=> \A i \in 1..next - 1 : ~StopsAt(q[i])
    <3> HIDE DEF next
    <3>1. QED
      BY Zenon DEF NoStopBefore, q
  <2>2. next - 1 = n
    BY <1>7
  <2>3. QED
    BY <2>1, <2>2
<1>12. q[n] = b
  BY <1>5, <1>6, <1>7
<1>13. NoStopBefore(s, n) => NoStopBefore(t, n)
  <2>1. \A i \in 1..n - 1 : q[i] = p[i]
    BY <1>6, <1>7
  <2>2. QED
    BY <1>10, <2>1
<1>14. NoStopBefore(t, n) /\ ~StopsAt(b) => NoStopBefore(t, n + 1)
  BY <1>7, <1>10, <1>11, <1>12
<1>15. /\ IsEvent(b) => Calls(q, n) = Append(Calls(p, n - 1), EventOf(b))
       /\ ~IsEvent(b) => Calls(q, n) = Calls(p, n - 1)
  BY <1>5, <1>8, <1>9
<1>16. QED
  BY <1>4, <1>5, <1>6, <1>12, <1>13, <1>14, <1>15, Zenon DEF t, p, q, n, b

\* Another line is added to the block begun and changes no other (sse.c:50-104).
LEMMA FieldLine ==
  ASSUME NEW s, NEW c
  PROVE  s \in Seq(Byte) /\ c \in Byte /\ c = "LF" /\ Chomp(LineBegun(s)) # <<>> =>
           LET t == Append(s, c)
               n == Len(Blocks(s))
           IN  /\ LineBegun(t) = <<>> /\ BlockBegun(t) = Append(BlockBegun(s), LineBegun(s))
               /\ n \in Nat \ {0} /\ Len(Blocks(t)) = n /\ Blocks(t)[n] = BlockBegun(t)
               /\ NoStopBefore(s, n) => NoStopBefore(t, n)
               /\ Calls(Blocks(t), n - 1) = Calls(Blocks(s), n - 1)
<1>0. HAVE s \in Seq(Byte) /\ c \in Byte /\ c = "LF" /\ Chomp(LineBegun(s)) # <<>>
<1> DEFINE Block == Seq(Seq(Byte))
           t == Append(s, c)
           p == Blocks(s)
           q == Blocks(t)
           n == Len(p)
           done == BlocksDone(s)
           b == BlockBegun(s)
           grown == BlockBegun(t)
           k == Len(done)
<1>1. t \in Seq(Byte)
  BY <1>0, AppendProperties
<1>2. done \in Seq(Block) /\ b \in Block /\ p \in Seq(Block) /\ p = Append(done, b)
  BY <1>0, StreamTypes
<1>3. q \in Seq(Block) /\ q = Append(BlocksDone(t), grown) /\ grown \in Block
  BY <1>1, StreamTypes
<1>4. BlocksDone(t) = done /\ grown = Append(b, LineBegun(s)) /\ LineBegun(t) = <<>>
  BY <1>0, BlocksMore, LinesMore
<1> HIDE DEF Block, t, p, q, n, done, b, grown
<1>5. k \in Nat /\ n = k + 1 /\ \A i \in 1..k : p[i] = done[i]
  <2>1. Len(Append(done, b)) = k + 1 /\ \A i \in 1..k : Append(done, b)[i] = done[i]
    BY <1>2, AppendProperties
  <2>2. k \in Nat
    BY <1>2, LenProperties
  <2>3. QED
    BY <1>2, <2>1, <2>2 DEF n
<1>6. Len(q) = n /\ q[n] = grown /\ \A i \in 1..k : q[i] = done[i]
  <2>1. Len(Append(done, grown)) = k + 1 /\ Append(done, grown)[k + 1] = grown
        /\ \A i \in 1..k : Append(done, grown)[i] = done[i]
    BY <1>2, <1>3, AppendProperties
  <2>2. q = Append(done, grown)
    BY <1>3, <1>4
  <2>3. QED
    BY <1>5, <2>1, <2>2
<1> HIDE DEF k
<1>7. n - 1 = k /\ n \in Nat \ {0} /\ \A i \in 1..k : q[i] = p[i]
  BY <1>5, <1>6
<1>8. Calls(p, k) = Calls(q, k)
  BY <1>5, <1>7, CallsSame
<1>9. NoStopBefore(s, n) => NoStopBefore(t, n)
  <2>1. /\ NoStopBefore(s, n) <=> \A i \in 1..n - 1 : ~StopsAt(p[i])
        /\ NoStopBefore(t, n) <=> \A i \in 1..n - 1 : ~StopsAt(q[i])
    BY Zenon DEF NoStopBefore, p, q
  <2>2. QED
    BY <1>7, <2>1
<1>10. QED
  BY <1>4, <1>6, <1>7, <1>8, <1>9 DEF t, p, q, n, b, grown

-----------------------------------------------------------------------------
(* Every step keeps the parser and the stream in agreement.                *)

\* What has been read is a sequence of bytes.
LEMMA ReadType == TypeOK => ReadSoFar \in Seq(Byte)
<1>1. HAVE TypeOK
<1> DEFINE n == Len(sent) - Len(unread)
<1>2. sent \in Seq(Byte) /\ Len(sent) \in Nat /\ Len(unread) \in Nat
  BY <1>1, LenProperties DEF TypeOK
<1>3. 1 \in Int /\ n \in Int /\ n <= Len(sent)
  BY <1>2
<1> HIDE DEF n
<1>4. \A i \in 1..n : sent[i] \in Byte
  BY <1>2, <1>3, ElementOfSeq
<1>5. SubSeq(sent, 1, n) \in Seq(Byte)
  BY <1>3, <1>4, SubSeqProperties
<1>6. QED
  BY <1>5 DEF ReadSoFar, n

\* While there is something to read the parser has not stopped.
LEMMA Reading ==
  ASSUME IInv, StreamInv, unread # <<>>
  PROVE  /\ TypeOK /\ BuffersFit /\ ~stopped /\ ~overflow
         /\ ReadSoFar \in Seq(Byte) /\ sent = ReadSoFar \o unread
         /\ GoesOn(ReadSoFar)
BY ReadType DEF IInv, StoppedReadsNothing, StreamInv

\* A step leaves the parser in one of three ways: going on, with its buffers the
\* line and the block begun (sse.c:114-137),
LEMMA StaysGoing ==
  ASSUME NEW t, ReadSoFar' = t, sent' = ReadSoFar' \o unread', ~stopped', ~overflow',
         line' = LineBegun(t), name' = NameOf(BlockBegun(t)),
         data' = Told(BlockBegun(t)), haveEvent' = IsEvent(BlockBegun(t)),
         ~TooLong(BlockBegun(t)), NoStopBefore(t, Len(Blocks(t))),
         delivered' = Calls(Blocks(t), Len(Blocks(t)) - 1)
  PROVE  StreamInv'
<1>1. GoesOn(ReadSoFar)'
  BY Zenon DEF GoesOn
<1>2. QED
  BY <1>1, Zenon DEF StreamInv

\* stopped by a terminal event in what it read, whatever it left unread
\* (sse.c:22-37, 121-124),
LEMMA IsStopped ==
  ASSUME NEW t \in Seq(Byte), NEW r \in Seq(Byte), NEW n \in Nat,
         sent' = t \o r, sent' = ReadSoFar' \o unread', stopped', ~overflow',
         EndedBy(t, n), delivered' = Calls(Blocks(t), n)
  PROVE  StreamInv'
<1>1. EndedBy(t \o r, n) /\ Calls(Blocks(t \o r), n) = Calls(Blocks(t), n) /\ t \o r \in Seq(Byte)
  BY StopStaysSaid, ZenonT(60)
<1>2. n \in 1..Len(Blocks(t \o r))
  <2>1. n \in 1..Len(Blocks(t \o r)) - 1
    BY <1>1, Zenon DEF EndedBy
  <2>2. Blocks(t \o r) \in Seq(Seq(Seq(Byte)))
    BY <1>1, StreamTypes
  <2>3. Len(Blocks(t \o r)) \in Nat
    BY <2>2, LenProperties
  <2>4. QED
    BY <2>1, <2>3
<1>3. (\E m \in 1..Len(Blocks(sent)) : EndedBy(sent, m) /\ delivered = Calls(Blocks(sent), m))'
  BY <1>1, <1>2, Zenon
<1>4. QED
  BY <1>3, Zenon DEF StreamInv

\* or stopped by something too long in what it read (sse.c:74-78, 85-93, 129-132).
LEMMA IsOver ==
  ASSUME NEW t \in Seq(Byte), NEW r \in Seq(Byte), NEW n \in Nat,
         sent' = t \o r, sent' = ReadSoFar' \o unread', overflow', ~stopped',
         OverBy(t, n), delivered' = Calls(Blocks(t), n - 1)
  PROVE  StreamInv'
<1>1. OverBy(t \o r, n) /\ Calls(Blocks(t \o r), n - 1) = Calls(Blocks(t), n - 1)
  BY StopStaysSaid, ZenonT(60)
<1>2. n \in 1..Len(Blocks(t \o r))
  BY <1>1, Zenon DEF OverBy
<1>3. (\E m \in 1..Len(Blocks(sent)) : OverBy(sent, m) /\ delivered = Calls(Blocks(sent), m - 1))'
  BY <1>1, <1>2, Zenon
<1>4. QED
  BY <1>3, Zenon DEF StreamInv

\* A byte inside a line, stored or the one that does not fit (sse.c:129-133).
LEMMA ByteStep ==
  ASSUME IInv, StreamInv, TakeByte \/ LineTooLong
  PROVE  StreamInv'
<1> DEFINE s == ReadSoFar
           c == Head(unread)
           r == Tail(unread)
           t == Append(s, c)
           n == Len(Blocks(s))
<1>1. unread # <<>> /\ c # "LF" /\ sent' = sent
  BY DEF TakeByte, LineTooLong
<1>2. /\ TypeOK /\ BuffersFit /\ ~stopped /\ ~overflow
      /\ s \in Seq(Byte) /\ sent = s \o unread
      /\ GoesOn(s)
  BY <1>1, Reading
<1>3. /\ c \in Byte /\ t \in Seq(Byte)
      /\ GoOn => ReadSoFar' = t /\ sent' = ReadSoFar' \o unread'
      /\ Return => /\ ReadSoFar' = sent /\ sent' = ReadSoFar' \o unread'
                   /\ r \in Seq(Byte) /\ sent = t \o r
  BY <1>1, <1>2, ReadMore
<1> HIDE DEF s, c, r
<1>4. Blocks(t) = Blocks(s) /\ LineBegun(t) = Append(LineBegun(s), c)
  BY <1>1, <1>2, <1>3, BlocksMore, LinesMore
<1>5. n \in Nat \ {0}
  BY <1>2, <1>3, BlocksStay
<1> HIDE DEF t, n
<1>6. BlockBegun(t) = BlockBegun(s)
  BY <1>4, Zenon DEF BlockBegun
<1>7. NoStopBefore(t, n) /\ delivered = Calls(Blocks(t), n - 1) /\ n = Len(Blocks(t))
  BY <1>2, <1>4, Zenon DEF GoesOn, NoStopBefore, n
<1>8. CASE TakeByte
  <2>1. /\ line' = Append(line, c) /\ GoOn
        /\ UNCHANGED <<name, data, haveEvent, overflow, stopped, delivered>>
    BY <1>8 DEF TakeByte, event, c
  <2>2. /\ line' = LineBegun(t) /\ name' = NameOf(BlockBegun(t))
        /\ data' = Told(BlockBegun(t)) /\ haveEvent' = IsEvent(BlockBegun(t))
        /\ ~TooLong(BlockBegun(t))
    BY <1>2, <1>4, <1>6, <2>1, Zenon DEF GoesOn
  <2>3. delivered' = Calls(Blocks(t), Len(Blocks(t)) - 1) /\ NoStopBefore(t, Len(Blocks(t)))
    BY <1>7, <2>1, Zenon
  <2>4. ~stopped' /\ ~overflow'
    BY <1>2, <2>1
  <2>5. QED
    BY <1>3, <2>1, <2>2, <2>3, <2>4, StaysGoing
<1>9. CASE LineTooLong
  <2>1. /\ Len(line) + 1 >= LineCap /\ overflow' /\ Return
        /\ UNCHANGED <<stopped, delivered>>
    BY <1>9 DEF LineTooLong
  <2>2. Len(LineBegun(t)) >= LineCap
    <3>1. line = LineBegun(s) /\ line \in Seq(Byte)
      BY <1>2, Zenon DEF GoesOn, TypeOK
    <3>2. Len(Append(line, c)) = Len(line) + 1
      BY <1>3, <3>1, AppendProperties
    <3>3. QED
      BY <1>4, <2>1, <3>1, <3>2
  <2>3. OverBy(t, n)
    <3>1. n \in 1..Len(Blocks(t)) /\ n = Len(Blocks(t))
      BY <1>5, <1>7
    <3>2. QED
      BY <1>7, <2>2, <3>1, Zenon DEF OverBy
  <2>4. delivered' = Calls(Blocks(t), n - 1) /\ ~stopped' /\ n \in Nat
    BY <1>2, <1>5, <1>7, <2>1
  <2>5. sent' = t \o r /\ r \in Seq(Byte) /\ sent' = ReadSoFar' \o unread'
    BY <1>1, <1>3, <2>1
  <2>6. QED
    BY <1>3, <2>1, <2>3, <2>4, <2>5, IsOver
<1>10. QED
  BY <1>8, <1>9

\* A blank line (sse.c:22-37, 46-48).
LEMMA BlankStep ==
  ASSUME IInv, StreamInv, Dispatch \/ DispatchNothing
  PROVE  StreamInv'
<1> DEFINE s == ReadSoFar
           c == Head(unread)
           r == Tail(unread)
           t == Append(s, c)
           n == Len(Blocks(s))
           b == BlockBegun(s)
           before == Calls(Blocks(s), n - 1)
<1>1. /\ unread # <<>> /\ c = "LF" /\ sent' = sent /\ Chomp(line) = <<>>
      /\ line' = <<>> /\ CleanEvent /\ UNCHANGED overflow
  BY DEF Dispatch, DispatchNothing, LineEnds
<1>2. /\ TypeOK /\ BuffersFit /\ ~stopped /\ ~overflow
      /\ s \in Seq(Byte) /\ sent = s \o unread
      /\ GoesOn(s)
  BY <1>1, Reading
<1>3. /\ c \in Byte /\ t \in Seq(Byte)
      /\ GoOn => ReadSoFar' = t /\ sent' = ReadSoFar' \o unread'
      /\ Return => /\ ReadSoFar' = sent /\ sent' = ReadSoFar' \o unread'
                   /\ r \in Seq(Byte) /\ sent = t \o r
  BY <1>1, <1>2, ReadMore
<1> HIDE DEF s, c, r
<1>4. /\ line = LineBegun(s) /\ name = NameOf(b) /\ data = Told(b)
      /\ haveEvent = IsEvent(b) /\ ~TooLong(b) /\ NoStopBefore(s, n) /\ delivered = before
  BY <1>2, Zenon DEF GoesOn
<1>5. Chomp(LineBegun(s)) = <<>>
  BY <1>1, <1>4
<1>6. /\ LineBegun(t) = <<>> /\ BlockBegun(t) = <<>>
      /\ n \in Nat \ {0} /\ Len(Blocks(t)) = n + 1 /\ Blocks(t)[n] = b
      /\ NoStopBefore(s, n) => NoStopBefore(t, n)
      /\ NoStopBefore(s, n) /\ ~StopsAt(b) => NoStopBefore(t, n + 1)
      /\ IsEvent(b) => Calls(Blocks(t), n) = Append(before, EventOf(b))
      /\ ~IsEvent(b) => Calls(Blocks(t), n) = before
  BY <1>1, <1>2, <1>3, <1>5, BlankLine
<1> HIDE DEF t, n, b, before
<1>7. IsEvent(b) <=> haveEvent
  BY <1>4
<1>8. delivered' = Calls(Blocks(t), n)
  <2>1. CASE Dispatch
    <3>1. EventOf(b) = [name |-> name, data |-> data]
      BY <1>4, Zenon DEF EventOf
    <3>2. IsEvent(b) /\ delivered' = Append(delivered, [name |-> name, data |-> data])
      BY <1>7, <2>1 DEF Dispatch
    <3>3. Calls(Blocks(t), n) = Append(before, EventOf(b))
      BY <1>6, <3>2
    <3>4. QED
      BY <1>4, <3>1, <3>2, <3>3
  <2>2. CASE DispatchNothing
    <3>1. ~IsEvent(b) /\ delivered' = delivered
      BY <1>7, <2>2 DEF DispatchNothing
    <3>2. QED
      BY <1>4, <1>6, <3>1
  <2>3. QED
    BY <2>1, <2>2
<1>9. StopsAt(b) <=> EndsIn(b)
  BY <1>4, Zenon DEF StopsAt
<1>10. EndsIn(b) <=> haveEvent /\ name \in Terminal
  BY <1>4, <1>7, Zenon DEF EndsIn
<1>11. CASE GoOn /\ ~stopped' /\ ~EndsIn(b)
  <2>1. NoStopBefore(t, Len(Blocks(t)))
    BY <1>4, <1>6, <1>9, <1>11
  <2>2. Len(Blocks(t)) - 1 = n
    BY <1>6
  <2>3. delivered' = Calls(Blocks(t), Len(Blocks(t)) - 1)
    BY <1>8, <2>2
  <2>4. line' = LineBegun(t) /\ ~overflow'
    BY <1>1, <1>2, <1>6
  <2>5. /\ name' = NameOf(BlockBegun(t)) /\ data' = Told(BlockBegun(t))
        /\ haveEvent' = IsEvent(BlockBegun(t)) /\ ~TooLong(BlockBegun(t))
    <3>1. name' = <<>> /\ data' = <<>> /\ haveEvent' = FALSE
      BY <1>1 DEF CleanEvent
    <3>2. IsEvent(<<>>) = FALSE
      <4>1. IsEvent(<<>>) \in BOOLEAN
        BY Zenon DEF IsEvent
      <4>2. QED
        BY <4>1, EmptyBlock
    <3>3. QED
      BY <1>6, <3>1, <3>2, EmptyBlock, Zenon
  <2>6. QED
    BY <1>3, <1>11, <2>1, <2>3, <2>4, <2>5, StaysGoing
<1>12. CASE Return /\ stopped' /\ EndsIn(b)
  <2>1. EndedBy(t, n)
    <3>1. n \in 1..Len(Blocks(t)) - 1
      BY <1>6
    <3>2. EndsIn(Blocks(t)[n]) /\ ~TooLong(Blocks(t)[n]) /\ NoStopBefore(t, n)
      BY <1>4, <1>6, <1>12, Zenon
    <3>3. QED
      BY <3>1, <3>2, Zenon DEF EndedBy
  <2>2. sent' = t \o r /\ r \in Seq(Byte) /\ sent' = ReadSoFar' \o unread'
    BY <1>1, <1>3, <1>12
  <2>3. ~overflow' /\ n \in Nat
    BY <1>1, <1>2, <1>6
  <2>4. QED
    BY <1>3, <1>8, <1>12, <2>1, <2>2, <2>3, IsStopped
<1>13. (GoOn /\ ~stopped' /\ ~EndsIn(b)) \/ (Return /\ stopped' /\ EndsIn(b))
  <2>1. CASE Dispatch
    BY <1>10, <2>1 DEF Dispatch
  <2>2. CASE DispatchNothing
    BY <1>2, <1>10, <2>2 DEF DispatchNothing
  <2>3. QED
    BY <2>1, <2>2
<1>14. QED
  BY <1>11, <1>12, <1>13

\* A field, a comment, or a value that does not fit (sse.c:50-104).
LEMMA FieldStep ==
  ASSUME IInv, StreamInv,
         NEW l, l = Chomp(line),
         IgnoreLine(l) \/ EventField(l) \/ DataField(l) \/ FieldTooLong(l)
  PROVE  StreamInv'
<1> DEFINE s == ReadSoFar
           c == Head(unread)
           r == Tail(unread)
           t == Append(s, c)
           n == Len(Blocks(s))
           b == BlockBegun(s)
           grown == Append(b, line)
<1>1. unread # <<>> /\ c = "LF" /\ sent' = sent /\ line' = <<>> /\ l # <<>>
  <2>1. \A field : IsField(<<>>, field) = FALSE
    BY EmptySeq DEF IsField
  <2>2. QED
    BY <2>1 DEF IgnoreLine, EventField, DataField, FieldTooLong, LineEnds
<1>2. /\ TypeOK /\ BuffersFit /\ ~stopped /\ ~overflow
      /\ s \in Seq(Byte) /\ sent = s \o unread
      /\ GoesOn(s)
  BY <1>1, Reading
<1>3. /\ c \in Byte /\ t \in Seq(Byte)
      /\ GoOn => ReadSoFar' = t /\ sent' = ReadSoFar' \o unread'
      /\ Return => /\ ReadSoFar' = sent /\ sent' = ReadSoFar' \o unread'
                   /\ r \in Seq(Byte) /\ sent = t \o r
  BY <1>1, <1>2, ReadMore
<1> HIDE DEF s, c, r
<1>4. /\ line = LineBegun(s) /\ name = NameOf(b) /\ data = Told(b)
      /\ haveEvent = IsEvent(b) /\ ~TooLong(b) /\ NoStopBefore(s, n)
      /\ delivered = Calls(Blocks(s), n - 1)
  BY <1>2, Zenon DEF GoesOn
<1>5. /\ LineBegun(t) = <<>> /\ BlockBegun(t) = grown
      /\ n \in Nat \ {0} /\ Len(Blocks(t)) = n /\ Blocks(t)[n] = BlockBegun(t)
      /\ NoStopBefore(s, n) => NoStopBefore(t, n)
      /\ Calls(Blocks(t), n - 1) = Calls(Blocks(s), n - 1)
  <2>1. Chomp(LineBegun(s)) # <<>>
    BY <1>1, <1>4
  <2>2. /\ LineBegun(t) = <<>> /\ BlockBegun(t) = Append(BlockBegun(s), LineBegun(s))
        /\ n \in Nat \ {0} /\ Len(Blocks(t)) = n /\ Blocks(t)[n] = BlockBegun(t)
        /\ NoStopBefore(s, n) => NoStopBefore(t, n)
        /\ Calls(Blocks(t), n - 1) = Calls(Blocks(s), n - 1)
    BY <1>1, <1>2, <1>3, <2>1, FieldLine
  <2>3. QED
    BY <1>4, <2>2
<1>6. b \in Seq(Seq(Byte)) /\ line \in Seq(Byte)
  BY <1>2, StreamTypes DEF TypeOK
<1> HIDE DEF t, n, b
<1>7. /\ IsField(l, "event") => /\ ~IsField(l, "data") /\ NameOf(grown) = Value(l)
                                /\ IsEvent(grown)
      /\ ~IsField(l, "event") => NameOf(grown) = NameOf(b)
      /\ IsField(l, "data") => Told(grown) = Joined(Told(b), Value(l)) /\ IsEvent(grown)
      /\ ~IsField(l, "data") => Told(grown) = Told(b)
      /\ ~IsField(l, "event") /\ ~IsField(l, "data") => (IsEvent(grown) <=> IsEvent(b))
      /\ TooLong(b) <=> LongLine(b) \/ LongName(b) \/ Len(Told(b)) >= DataCap
      /\ TooLong(grown) <=> \/ LongLine(b) \/ Len(line) >= LineCap
                            \/ LongName(b)
                            \/ IsField(l, "event") /\ Len(Value(l)) >= NameCap
                            \/ Len(Told(grown)) >= DataCap
  BY <1>6, BlockMore
<1> HIDE DEF grown
<1>8. /\ LineCap \in Nat /\ NameCap \in Nat /\ DataCap \in Nat
      /\ Len(line) \in Nat /\ Len(data) \in Nat
      /\ Len(line) < LineCap /\ Len(data) + 1 <= DataCap
      /\ l \in Seq(Byte) /\ Value(l) \in Seq(Byte) /\ Joined(data, Value(l)) \in Seq(Byte)
      /\ Len(Value(l)) \in Nat /\ Len(Joined(data, Value(l))) \in Nat
  <2>1. l \in Seq(Byte)
    BY <1>6, LineTypes
  <2>2. data \in Seq(Byte) /\ Value(l) \in Seq(Byte)
    BY <1>2, <2>1, LineTypes DEF TypeOK
  <2>3. Joined(data, Value(l)) \in Seq(Byte)
    BY <2>2, JoinedType
  <2>4. QED
    BY <1>2, <1>6, <2>1, <2>2, <2>3, LenProperties, SseAssumption DEF BuffersFit
<1>9. TooLong(grown) <=> \/ IsField(l, "event") /\ ~NameFits(Value(l))
                         \/ IsField(l, "data") /\ ~DataFits(data, Value(l))
  <2>1. ~NameFits(Value(l)) <=> Len(Value(l)) >= NameCap
    BY <1>8 DEF NameFits
  <2>2. ~DataFits(data, Value(l)) <=> Len(Joined(data, Value(l))) >= DataCap
    BY <1>8 DEF DataFits
  <2>3. ~(Len(data) >= DataCap) /\ ~(Len(line) >= LineCap)
    BY <1>8
  <2>4. Len(Told(grown)) >= DataCap <=> IsField(l, "data") /\ ~DataFits(data, Value(l))
    <3>1. CASE IsField(l, "data")
      BY <1>4, <1>7, <2>2, <3>1, Zenon
    <3>2. CASE ~IsField(l, "data")
      BY <1>4, <1>7, <2>3, <3>2, Zenon
    <3>3. QED
      BY <3>1, <3>2
  <2>5. QED
    BY <1>4, <1>7, <2>1, <2>3, <2>4, Zenon
<1>10. CASE FieldTooLong(l)
  <2>1. TooLong(grown) /\ overflow' /\ Return /\ UNCHANGED <<stopped, delivered>>
    BY <1>9, <1>10 DEF FieldTooLong
  <2>2. OverBy(t, n)
    <3>1. n \in 1..Len(Blocks(t))
      BY <1>5
    <3>2. TooLong(Blocks(t)[n]) /\ NoStopBefore(t, n)
      BY <1>4, <1>5, <2>1, Zenon
    <3>3. QED
      BY <3>1, <3>2, Zenon DEF OverBy
  <2>3. sent' = t \o r /\ r \in Seq(Byte) /\ sent' = ReadSoFar' \o unread'
    BY <1>1, <1>3, <2>1
  <2>4. ~stopped' /\ n \in Nat /\ delivered' = Calls(Blocks(t), n - 1)
    BY <1>2, <1>4, <1>5, <2>1
  <2>5. QED
    BY <1>3, <2>1, <2>2, <2>3, <2>4, IsOver
<1>11. CASE IgnoreLine(l) \/ EventField(l) \/ DataField(l)
  <2>1. GoOn /\ UNCHANGED <<overflow, stopped, delivered>>
    BY <1>11 DEF IgnoreLine, EventField, DataField
  <2>2. /\ name' = NameOf(grown) /\ data' = Told(grown)
        /\ haveEvent' = IsEvent(grown) /\ ~TooLong(grown)
    <3>1. CASE IgnoreLine(l)
      <4>1. /\ ~IsField(l, "event") /\ ~IsField(l, "data")
            /\ name' = name /\ data' = data /\ haveEvent' = haveEvent
        BY <3>1 DEF IgnoreLine, event
      <4>2. haveEvent' = IsEvent(grown)
        <5>1. IsEvent(grown) \in BOOLEAN /\ IsEvent(b) \in BOOLEAN
          BY Zenon DEF IsEvent
        <5>2. QED
          BY <1>4, <1>7, <4>1, <5>1
      <4>3. QED
        BY <1>4, <1>7, <1>9, <4>1, <4>2, Zenon
    <3>2. CASE EventField(l)
      <4>1. /\ IsField(l, "event") /\ NameFits(Value(l))
            /\ name' = Value(l) /\ data' = data /\ haveEvent' = TRUE
        BY <3>2 DEF EventField
      <4>2. haveEvent' = IsEvent(grown)
        <5>1. IsEvent(grown) \in BOOLEAN
          BY Zenon DEF IsEvent
        <5>2. QED
          BY <1>7, <4>1, <5>1
      <4>3. QED
        BY <1>4, <1>7, <1>9, <4>1, <4>2, Zenon
    <3>3. CASE DataField(l)
      <4>1. /\ IsField(l, "data") /\ DataFits(data, Value(l))
            /\ name' = name /\ data' = Joined(data, Value(l)) /\ haveEvent' = TRUE
        BY <3>3 DEF DataField
      <4>2. haveEvent' = IsEvent(grown)
        <5>1. IsEvent(grown) \in BOOLEAN
          BY Zenon DEF IsEvent
        <5>2. QED
          BY <1>7, <4>1, <5>1
      <4>3. QED
        BY <1>4, <1>7, <1>9, <4>1, <4>2, Zenon
    <3>4. QED
      BY <1>11, <3>1, <3>2, <3>3
  <2>3. /\ name' = NameOf(BlockBegun(t)) /\ data' = Told(BlockBegun(t))
        /\ haveEvent' = IsEvent(BlockBegun(t)) /\ ~TooLong(BlockBegun(t))
    BY <1>5, <2>2, Zenon
  <2>4. line' = LineBegun(t) /\ ~stopped' /\ ~overflow'
    BY <1>1, <1>2, <1>5, <2>1
  <2>5. NoStopBefore(t, Len(Blocks(t))) /\ delivered' = Calls(Blocks(t), Len(Blocks(t)) - 1)
    BY <1>4, <1>5, <2>1
  <2>6. QED
    BY <1>3, <2>1, <2>3, <2>4, <2>5, StaysGoing
<1>12. QED
  BY <1>10, <1>11

\* Before the first byte nothing is in the buffers and nothing was called back
\* (sse.c:9-18).
LEMMA AtTheStart ==
  LET t == <<>>
  IN  /\ LineBegun(t) = <<>> /\ NameOf(BlockBegun(t)) = <<>> /\ Told(BlockBegun(t)) = <<>>
      /\ IsEvent(BlockBegun(t)) = FALSE /\ ~TooLong(BlockBegun(t))
      /\ NoStopBefore(t, Len(Blocks(t))) /\ Calls(Blocks(t), Len(Blocks(t)) - 1) = <<>>
<1> DEFINE none == <<>>
           p == Blocks(none)
<1>1. none \in Seq(Byte) /\ Len(none) = 0
  BY EmptySeq
<1>2. LineBegun(none) = none /\ BlocksDone(none) = none /\ BlockBegun(none) = none
  BY StreamOfNone
<1>3. /\ BlocksDone(none) \in Seq(Seq(Seq(Byte))) /\ BlockBegun(none) \in Seq(Seq(Byte))
      /\ p = Append(BlocksDone(none), BlockBegun(none))
  BY <1>1, StreamTypes
<1> DEFINE done == BlocksDone(none)
           b == BlockBegun(none)
           n == Len(p)
<1>4. n = 1
  <2> HIDE DEF none, p, done, b
  <2>1. Len(Append(done, b)) = Len(done) + 1 /\ p = Append(done, b)
    BY <1>3, AppendProperties DEF done, b
  <2>2. Len(done) = 0
    BY <1>1, <1>2 DEF done
  <2>3. QED
    BY <2>1, <2>2
<1>5. /\ NameOf(none) = none /\ Told(none) = none /\ ~IsEvent(none) /\ ~TooLong(none)
  BY EmptyBlock
<1>6. IsEvent(none) = FALSE
  <2>1. IsEvent(none) \in BOOLEAN
    BY Zenon DEF IsEvent
  <2>2. QED
    BY <1>5, <2>1
<1> HIDE DEF none, p, n
<1>7. NoStopBefore(none, n)
  <2>1. \A i \in 1..n - 1 : FALSE
    BY <1>4
  <2>2. QED
    BY <2>1, Zenon DEF NoStopBefore
<1>8. Calls(p, n - 1) = none
  <2>1. Calls(p, 0) = [i \in DOMAIN Picked(p, {}) |-> EventOf(Picked(p, {})[i])]
    <3>1. {i \in 1..0 : IsEvent(p[i])} = {}
      OBVIOUS
    <3>2. QED
      BY <3>1, Zenon DEF Calls
  <2>2. DOMAIN Picked(p, {}) = {}
    <3>1. Cardinality({}) = 0
      BY FS_EmptySet
    <3>2. 1..0 = {}
      OBVIOUS
    <3>3. QED
      BY <3>1, <3>2 DEF Picked
  <2>3. Calls(p, 0) = none
    BY <2>1, <2>2 DEF none
  <2>4. n - 1 = 0
    BY <1>4
  <2>5. QED
    BY <2>3, <2>4
<1>9. QED
  BY <1>2, <1>5, <1>6, <1>7, <1>8, Zenon DEF p, n, none

\* A chunk is handed over, or a connection begins (sse.c:9-18, 106-112).
LEMMA FeedStep ==
  ASSUME IInv, StreamInv, (\E chunk \in Chunks : FeedCalled(chunk)) \/ Restart
  PROVE  StreamInv'
<1>0. TypeOK /\ ReadSoFar \in Seq(Byte) /\ <<>> \in Seq(Byte)
  BY ReadType, EmptySeq DEF IInv
<1>1. ASSUME NEW chunk \in Chunks, FeedCalled(chunk) PROVE StreamInv'
  <2> DEFINE t == sent
  <2>1. /\ unread = <<>> /\ ~overflow /\ ~stopped /\ unread' = chunk /\ sent' = t \o chunk
        /\ UNCHANGED <<line, name, data, haveEvent, overflow, stopped, delivered>>
    BY <1>1 DEF FeedCalled, parser
  <2>2. chunk \in Seq(Byte) /\ t \in Seq(Byte)
    BY <1>0, SseAssumption DEF TypeOK
  <2>3. ReadSoFar = t
    BY <1>0, <2>1, AllRead
  <2>4. ReadSoFar' = t
    <3>1. ReadSoFar' = SubSeq(t \o chunk, 1, Len(t \o chunk) - Len(chunk))
      BY <2>1 DEF ReadSoFar
    <3>2. QED
      BY <2>2, <3>1, ReadThenUnread
  <2>5. /\ line = LineBegun(t) /\ name = NameOf(BlockBegun(t))
        /\ data = Told(BlockBegun(t)) /\ haveEvent = IsEvent(BlockBegun(t))
        /\ ~TooLong(BlockBegun(t)) /\ NoStopBefore(t, Len(Blocks(t)))
        /\ delivered = Calls(Blocks(t), Len(Blocks(t)) - 1)
    <3>1. GoesOn(t)
      BY <2>1, <2>3 DEF StreamInv
    <3>2. QED
      BY <3>1, Zenon DEF GoesOn
  <2> HIDE DEF t
  <2>6. /\ line' = LineBegun(t) /\ name' = NameOf(BlockBegun(t))
        /\ data' = Told(BlockBegun(t)) /\ haveEvent' = IsEvent(BlockBegun(t))
        /\ delivered' = Calls(Blocks(t), Len(Blocks(t)) - 1)
        /\ ~stopped' /\ ~overflow' /\ sent' = ReadSoFar' \o unread'
    BY <2>1, <2>4, <2>5
  <2>7. QED
    BY <2>4, <2>5, <2>6, StaysGoing
<1>2. CASE Restart
  <2>1. /\ unread = <<>> /\ unread' = <<>> /\ sent' = <<>> /\ delivered' = <<>>
        /\ line' = <<>> /\ name' = <<>> /\ data' = <<>> /\ haveEvent' = FALSE
        /\ ~overflow' /\ ~stopped'
    BY <1>2 DEF Restart, CleanEvent
  <2>2. ReadSoFar' = <<>> /\ sent' = ReadSoFar' \o unread'
    <3>1. <<>> \o <<>> = <<>>
      BY <1>0, ConcatEmptySeq
    <3>2. SubSeq(<<>> \o <<>>, 1, Len(<<>> \o <<>>) - Len(<<>>)) = <<>>
      BY <1>0, ReadThenUnread
    <3>3. QED
      BY <2>1, <3>1, <3>2 DEF ReadSoFar
  <2>3. QED
    BY <2>1, <2>2, AtTheStart, StaysGoing
<1>3. QED
  BY <1>1, <1>2

\* Everything the parser knows of the stream it knows of what it has read so
\* far, and of no chunk (sse.h:45-51).
LEMMA StreamStep == IInv /\ StreamInv /\ [Next]_vars => StreamInv'
<1> SUFFICES ASSUME IInv, StreamInv, [Next]_vars PROVE StreamInv'
  OBVIOUS
<1> DEFINE l == Chomp(line)
<1>1. CASE (\E chunk \in Chunks : FeedCalled(chunk)) \/ Restart
  BY <1>1, FeedStep
<1>2. CASE TakeByte \/ LineTooLong
  BY <1>2, ByteStep
<1>3. CASE Dispatch \/ DispatchNothing
  BY <1>3, BlankStep
<1>4. CASE IgnoreLine(l) \/ EventField(l) \/ DataField(l) \/ FieldTooLong(l)
  <2> HIDE DEF l
  <2>1. l = Chomp(line)
    BY DEF l
  <2>2. QED
    BY <1>4, <2>1, FieldStep
<1>5. CASE UNCHANGED vars
  BY <1>5 DEF vars, StreamInv, GoesOn, ReadSoFar
<1>6. QED
  BY <1>1, <1>2, <1>3, <1>4, <1>5 DEF Next

\* The parser as ssoossh_sse_init leaves it (sse.c:9-18).
LEMMA StreamInit == Init => StreamInv
<1>1. HAVE Init
<1>2. /\ unread = <<>> /\ sent = <<>> /\ delivered = <<>> /\ line = <<>>
      /\ name = <<>> /\ data = <<>> /\ haveEvent = FALSE /\ ~overflow /\ ~stopped
  BY <1>1 DEF Init
<1>3. ReadSoFar = <<>> /\ sent = ReadSoFar \o unread
  <2>1. <<>> \in Seq(Byte)
    BY EmptySeq
  <2>2. <<>> \o <<>> = <<>>
    BY <2>1, ConcatEmptySeq
  <2>3. SubSeq(<<>> \o <<>>, 1, Len(<<>> \o <<>>) - Len(<<>>)) = <<>>
    BY <2>1, ReadThenUnread
  <2>4. QED
    BY <1>2, <2>2, <2>3 DEF ReadSoFar
<1>4. GoesOn(ReadSoFar)
  BY <1>2, <1>3, AtTheStart DEF GoesOn
<1>5. QED
  BY <1>2, <1>3, <1>4 DEF StreamInv

-----------------------------------------------------------------------------
(* What the agreement says of the callbacks and of the two verdicts.       *)

\* Of the numbers up to m there is one that is the first of a set, or else m.
LEMMA OneFirst ==
  ASSUME NEW m \in Nat, NEW k \in 1..m, NEW n \in 1..m, NEW S,
         k = m \/ k \in S, \A j \in 1..k - 1 : j \notin S,
         n = m \/ n \in S, \A j \in 1..n - 1 : j \notin S
  PROVE  k = n
<1>1. CASE k < n
  <2>1. k \in 1..n - 1 /\ k # m
    BY <1>1
  <2>2. QED
    BY <2>1
<1>2. CASE n < k
  <2>1. n \in 1..k - 1 /\ n # m
    BY <1>2
  <2>2. QED
    BY <2>1
<1>3. QED
  BY <1>1, <1>2

\* The n-th of m blocks is the last, or it stops the parser and none before does.
IsStop(p, m, n) == /\ n = m \/ StopsAt(p[n])
                   /\ \A i \in 1..n - 1 : ~StopsAt(p[i])

\* There is only one block to stop in: the first that stops the parser.
LEMMA StopIs ==
  ASSUME NEW p, NEW m \in Nat, m = Len(p), DOMAIN p = 1..m, NEW n \in 1..m, IsStop(p, m, n)
  PROVE  StopBlock(p) = n
<1> DEFINE S == {i \in 1..m : StopsAt(p[i])}
           Is(k) == /\ k = Len(p) \/ StopsAt(p[k])
                    /\ \A j \in 1..k - 1 : ~StopsAt(p[j])
           stop == CHOOSE k \in DOMAIN p : Is(k)
<1>1. stop = StopBlock(p)
  BY Zenon DEF StopBlock
<1>2. Is(n)
  BY Zenon DEF IsStop
<1>3. \A k \in 1..m : Is(k) => (k = m \/ k \in S) /\ \A j \in 1..k - 1 : j \notin S
  <2> TAKE k \in 1..m
  <2> HAVE Is(k)
  <2>1. k = m \/ StopsAt(p[k])
    BY Zenon
  <2>2. \A j \in 1..k - 1 : ~StopsAt(p[j])
    BY Zenon
  <2>3. k = m \/ k \in S
    BY <2>1, Zenon
  <2>4. \A j \in 1..k - 1 : j \notin S
    BY <2>2, Zenon
  <2>5. QED
    BY <2>3, <2>4, Zenon
<1> HIDE DEF Is, S
<1>4. stop \in 1..m /\ Is(stop)
  BY <1>2, Zenon
<1> HIDE DEF stop
<1>5. stop = m \/ stop \in S
  BY <1>3, <1>4, Zenon
<1>6. \A j \in 1..stop - 1 : j \notin S
  BY <1>3, <1>4, Zenon
<1>7. n = m \/ n \in S
  BY <1>2, <1>3, Zenon
<1>8. \A j \in 1..n - 1 : j \notin S
  BY <1>2, <1>3, Zenon
<1>9. stop = n
  BY <1>4, <1>5, <1>6, <1>7, <1>8, OneFirst, Zenon
<1>10. QED
  BY <1>1, <1>9, Zenon

\* Whenever ssoossh_sse_feed has returned: the block it stopped in or is in the
\* middle of, whether that fits, and the calls made.
LEMMA Verdict ==
  ASSUME IInv, StreamInv, unread = <<>>
  PROVE  LET p == Blocks(sent)
             stop == StopBlock(p)
             bad == TooLong(p[stop])
             last == IF stop < Len(p) /\ ~bad THEN stop ELSE stop - 1
         IN  /\ stopped <=> stop < Len(p) /\ ~bad
             /\ overflow <=> bad \/ (stop = Len(p) /\ Len(LineBegun(sent)) >= LineCap)
             /\ delivered = Calls(p, last)
             /\ stop \in 1..Len(p)
<1> DEFINE p == Blocks(sent)
           m == Len(p)
           stop == StopBlock(p)
           bad == TooLong(p[stop])
           last == IF stop < m /\ ~bad THEN stop ELSE stop - 1
           long == Len(LineBegun(sent)) >= LineCap
<1>1. TypeOK /\ BuffersFit /\ sent \in Seq(Byte) /\ ReadSoFar = sent
  BY AllRead DEF IInv, TypeOK
<1>2. /\ BlocksDone(sent) \in Seq(Seq(Seq(Byte))) /\ BlockBegun(sent) \in Seq(Seq(Byte))
      /\ p \in Seq(Seq(Seq(Byte))) /\ p = Append(BlocksDone(sent), BlockBegun(sent))
  BY <1>1, StreamTypes
<1>3. m \in Nat \ {0} /\ DOMAIN p = 1..m /\ p[m] = BlockBegun(sent)
  <2> DEFINE done == BlocksDone(sent)
             b == BlockBegun(sent)
             R == Seq(Seq(Byte))
  <2>1. done \in Seq(R) /\ b \in R /\ p \in Seq(R) /\ p = Append(done, b)
    BY <1>2
  <2> HIDE DEF done, b, R, p
  <2>2. /\ Len(Append(done, b)) = Len(done) + 1 /\ Append(done, b)[Len(done) + 1] = b
        /\ Len(done) \in Nat /\ DOMAIN p = 1..Len(p)
    BY <2>1, AppendProperties, LenProperties
  <2>3. QED
    BY <2>1, <2>2 DEF b
<1> HIDE DEF p, m
<1>4. CASE ~stopped /\ ~overflow
  <2>1. /\ line = LineBegun(sent) /\ ~TooLong(BlockBegun(sent)) /\ delivered = Calls(p, m - 1)
        /\ \A i \in 1..m - 1 : ~StopsAt(p[i])
    <3>1. GoesOn(sent)
      BY <1>1, <1>4 DEF StreamInv
    <3>2. QED
      BY <3>1, Zenon DEF GoesOn, NoStopBefore, p, m
  <2>2. stop = m
    <3>1. m \in 1..m /\ m \in Nat /\ DOMAIN p = 1..m
      BY <1>3
    <3>2. IsStop(p, m, m) /\ m = Len(p)
      BY <2>1, Zenon DEF IsStop, m
    <3>3. QED
      BY <3>1, <3>2, StopIs, Zenon
  <2>3. ~bad
    BY <1>3, <2>1, <2>2
  <2>4. ~long
    <3>1. Len(line) < LineCap /\ Len(line) \in Nat /\ LineCap \in Nat
      BY <1>1, LenProperties, SseAssumption DEF BuffersFit, TypeOK
    <3>2. QED
      BY <2>1, <3>1
  <2>5. ~(stop < m) /\ last = m - 1 /\ stop \in 1..m
    BY <1>3, <2>2
  <2> HIDE DEF stop, bad, last, long
  <2>6. QED
    BY <1>4, <2>1, <2>3, <2>4, <2>5 DEF stop, bad, last, long, p, m
<1>5. CASE stopped
  <2>1. ~overflow
    BY <1>5 DEF StreamInv
  <2>2. PICK n \in 1..m : EndedBy(sent, n) /\ delivered = Calls(p, n)
    BY <1>5, Zenon DEF StreamInv, p, m
  <2>3. /\ n \in 1..m - 1 /\ EndsIn(p[n]) /\ ~TooLong(p[n])
        /\ \A i \in 1..n - 1 : ~StopsAt(p[i])
    BY <2>2, Zenon DEF EndedBy, NoStopBefore, p, m
  <2>4. stop = n
    <3>1. n \in 1..m /\ m \in Nat /\ DOMAIN p = 1..m
      BY <1>3, <2>3
    <3>2. IsStop(p, m, n) /\ m = Len(p)
      BY <2>3, Zenon DEF IsStop, StopsAt, m
    <3>3. QED
      BY <3>1, <3>2, StopIs, Zenon
  <2>5. stop < m /\ ~(stop = m) /\ stop \in 1..m
    BY <1>3, <2>3, <2>4
  <2>6. ~bad
    BY <2>3, <2>4
  <2>7. last = n
    BY <2>4, <2>5, <2>6
  <2> HIDE DEF stop, bad, last, long
  <2>8. QED
    BY <1>5, <2>1, <2>2, <2>5, <2>6, <2>7 DEF stop, bad, last, long, p, m
<1>6. CASE overflow
  <2>1. ~stopped
    BY <1>6 DEF StreamInv
  <2>2. PICK n \in 1..m : OverBy(sent, n) /\ delivered = Calls(p, n - 1)
    BY <1>6, Zenon DEF StreamInv, p, m
  <2>3. TooLong(p[n]) \/ (n = m /\ long)
    <3> HIDE DEF long
    <3>1. TooLong(Blocks(sent)[n]) \/ (n = Len(Blocks(sent)) /\ Len(LineBegun(sent)) >= LineCap)
      BY <2>2, Zenon DEF OverBy
    <3>2. QED
      BY <3>1, Zenon DEF p, m, long
  <2>4. stop = n
    <3>1. n \in 1..m /\ m \in Nat /\ DOMAIN p = 1..m
      BY <1>3, <2>2
    <3>2. \A i \in 1..n - 1 : ~StopsAt(p[i])
      BY <2>2, Zenon DEF OverBy, NoStopBefore, p
    <3>3. n = m \/ StopsAt(p[n])
      BY <2>3, Zenon DEF StopsAt
    <3>4. IsStop(p, m, n) /\ m = Len(p)
      BY <3>2, <3>3, Zenon DEF IsStop, m
    <3>5. QED
      BY <3>1, <3>4, StopIs, Zenon
  <2>5. bad \/ (stop = m /\ long)
    BY <2>3, <2>4
  <2>6. ~(stop < m /\ ~bad)
    BY <1>3, <2>5
  <2>7. last = n - 1 /\ stop \in 1..m
    BY <2>2, <2>4, <2>6
  <2> HIDE DEF stop, bad, last, long
  <2>8. QED
    BY <1>6, <2>1, <2>2, <2>5, <2>6, <2>7 DEF stop, bad, last, long, p, m
<1>7. QED
  BY <1>4, <1>5, <1>6

\* The newline is missing only after empty values that nothing else precedes: a
\* list that has none in front is joined as the comment says (sse.c:85-94).
LEMMA JoinedAsSaid ==
  ASSUME NEW vs \in Seq(Seq(Byte)), ~(Len(vs) > 1 /\ vs[1] = <<>>)
  PROVE  Spaced(vs) = WithNewlines(vs)
<1> DEFINE n == Len(vs)
           Before(i) == \A j \in 1..i - 1 : vs[j] = <<>>
           With(i) == <<"LF">> \o vs[i]
<1>1. n \in Nat /\ DOMAIN vs = 1..n /\ (n > 1 => vs[1] # <<>>)
  BY LenProperties
<1>2. \A i \in 1..n : Before(i) <=> i = 1
  <2> TAKE i \in 1..n
  <2>1. CASE i = 1
    BY <2>1
  <2>2. CASE i # 1
    <3>1. 1 \in 1..i - 1 /\ n > 1
      BY <1>1, <2>2
    <3>2. QED
      BY <1>1, <2>2, <3>1
  <2>3. QED
    BY <2>1, <2>2
<1>3. /\ Spaced(vs) = [i \in 1..n |-> IF Before(i) THEN vs[i] ELSE With(i)]
      /\ WithNewlines(vs) = [i \in 1..n |-> IF i = 1 THEN vs[i] ELSE With(i)]
  BY <1>1, Zenon DEF Spaced, WithNewlines
<1> HIDE DEF n, Before, With
<1>4. QED
  BY <1>2, <1>3

\* So what is called back for a block is what the comment says of it, but for a
\* first data line that is empty.
LEMMA ToldAsSaid ==
  ASSUME NEW b \in Seq(Seq(Byte))
  PROVE  Told(b) = DataOf(b) \/ EmptyFirst(b)
<1> DEFINE vs == Values(b, "data")
<1>1. vs \in Seq(Seq(Byte))
  <2>1. <<>> \in Seq(Byte)
    BY EmptySeq
  <2>2. QED
    BY <2>1, ValuesMore
<1>2. EmptyFirst(b) <=> Len(vs) > 1 /\ vs[1] = <<>>
  BY Zenon DEF EmptyFirst
<1>3. Told(b) = FlattenSeq(Spaced(vs)) /\ DataOf(b) = FlattenSeq(WithNewlines(vs))
  BY Zenon DEF Told, DataOf
<1> HIDE DEF vs
<1>4. QED
  BY <1>1, <1>2, <1>3, JoinedAsSaid, Zenon

\* Together they are the two properties of the parser.
LEMMA SaysWhatWasSent == IInv /\ StreamInv => DeliveredAsSent /\ StopsForCause
<1> SUFFICES ASSUME IInv, StreamInv PROVE DeliveredAsSent /\ StopsForCause
  OBVIOUS
<1>1. CASE unread # <<>>
  BY <1>1, Zenon DEF DeliveredAsSent, StopsForCause
<1>2. CASE unread = <<>>
  <2> DEFINE p == Blocks(sent)
             stop == StopBlock(p)
             bad == TooLong(p[stop])
             last == IF stop < Len(p) /\ ~bad THEN stop ELSE stop - 1
  <2>1. /\ stopped <=> stop < Len(p) /\ ~bad
        /\ overflow <=> bad \/ (stop = Len(p) /\ Len(LineBegun(sent)) >= LineCap)
        /\ delivered = Calls(p, last)
        /\ stop \in 1..Len(p)
    BY <1>2, Verdict
  <2>3. CalledBack(p) = {i \in 1..last : IsEvent(p[i])}
    BY Zenon DEF CalledBack
  <2>4. Calls(p, last) = [i \in DOMAIN Picked(p, CalledBack(p)) |->
                            EventOf(Picked(p, CalledBack(p))[i])]
    BY <2>3, Zenon DEF Calls
  <2> DEFINE at == CalledBack(p)
             events == Picked(p, at)
             Block == Seq(Seq(Byte))
  <2>5. events \in Seq(Block)
    <3>1. p \in Seq(Block)
      <4>1. sent \in Seq(Byte)
        BY DEF IInv, TypeOK
      <4>2. QED
        BY <4>1, StreamTypes
    <3>2. Len(p) \in Nat /\ at \in SUBSET (1..Len(p))
      <4>1. Len(p) \in Nat
        BY <3>1, LenProperties
      <4> HIDE DEF p, stop, bad
      <4>2. last <= Len(p) /\ last \in Int
        BY <2>1, <4>1
      <4> HIDE DEF last, at
      <4>3. at = {i \in 1..last : IsEvent(p[i])}
        BY <2>3 DEF at
      <4>4. \A i \in 1..last : i \in 1..Len(p)
        BY <4>1, <4>2
      <4>5. QED
        BY <4>1, <4>3, <4>4, Zenon
    <3> HIDE DEF p, at, Block
    <3>3. AllIn(p, at, Block)
      BY <3>1, <3>2, ElementOfSeq, LenProperties DEF AllIn
    <3>4. QED
      BY <3>2, <3>3, PickedIsList
  <2>6. delivered = [i \in DOMAIN events |-> EventOf(events[i])]
    BY <2>1, <2>4, Zenon
  <2> HIDE DEF p, at, events, stop, bad, last
  <2>7. Len(events) \in Nat /\ DOMAIN events = 1..Len(events)
    BY <2>5, LenProperties
  <2>8. Len(delivered) = Len(events)
    <3>1. delivered \in Seq(Event)
      BY DEF IInv, TypeOK
    <3>2. DOMAIN delivered = 1..Len(delivered) /\ Len(delivered) \in Nat
      BY <3>1, LenProperties
    <3>3. DOMAIN delivered = 1..Len(events)
      BY <2>6, <2>7
    <3>4. \A m, n \in Nat : (\A i : i \in 1..m <=> i \in 1..n) => m = n
      <4> TAKE m, n \in Nat
      <4> HAVE \A i : i \in 1..m <=> i \in 1..n
      <4>1. (m \in 1..m <=> m \in 1..n) /\ (n \in 1..m <=> n \in 1..n)
        OBVIOUS
      <4>2. QED
        BY <4>1
    <3>5. QED
      BY <2>7, <3>2, <3>3, <3>4, Zenon
  <2>9. \A i \in DOMAIN events :
          /\ delivered[i].name = NameOf(events[i])
          /\ delivered[i].data = Told(events[i])
          /\ Told(events[i]) = DataOf(events[i]) \/ EmptyFirst(events[i])
    <3> TAKE i \in DOMAIN events
    <3>1. delivered[i] = EventOf(events[i])
      BY <2>6, Zenon
    <3>2. events[i] \in Seq(Seq(Byte))
      BY <2>5, <2>7, ElementOfSeq
    <3> HIDE DEF Block
    <3>3. Told(events[i]) = DataOf(events[i]) \/ EmptyFirst(events[i])
      BY <3>2, ToldAsSaid, Zenon
    <3>4. /\ EventOf(events[i]).name = NameOf(events[i])
          /\ EventOf(events[i]).data = Told(events[i])
      BY Zenon DEF EventOf
    <3>5. QED
      BY <3>1, <3>3, <3>4, Zenon
  <2>10. DeliveredAsSent
    BY <2>8, <2>9, Zenon DEF DeliveredAsSent, events, at, p
  <2>11. StopsForCause
    BY <2>1, Zenon DEF StopsForCause, LineBegun, p, stop, bad
  <2>12. QED
    BY <2>10, <2>11
<1>3. QED
  BY <1>1, <1>2

\* The parser and the stream agree at every step.
THEOREM StreamAgrees == Spec => []StreamInv
<1>1. IInv /\ StreamInv /\ [Next]_vars => StreamInv'
  BY StreamStep
<1>2. QED
  BY <1>1, StreamInit, Invariance, PTL DEF Spec

\* However the server's bytes are cut into chunks, the callback is called for the
\* events that were sent, each once, whole and in order, up to the terminal one or
\* the one that does not fit; and its data lines are joined with newlines, unless
\* the first is empty (sse.c:9-137, sse.h:45-59).
THEOREM EveryEventDelivered == Spec => []DeliveredAsSent
<1>1. IInv /\ StreamInv => DeliveredAsSent
  BY SaysWhatWasSent
<1>2. QED
  BY <1>1, Invariance, StreamAgrees, PTL

\* Of a terminal event and a limit exceeded, the parser stops for the one that
\* happened, says which, and stops for nothing else (sse.h:53-59, httpc.c:488-500).
THEOREM StopsOnlyForCause == Spec => []StopsForCause
<1>1. IInv /\ StreamInv => StopsForCause
  BY SaysWhatWasSent
<1>2. QED
  BY <1>1, Invariance, StreamAgrees, PTL
=============================================================================
