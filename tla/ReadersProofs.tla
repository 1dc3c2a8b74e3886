--------------------------- MODULE ReadersProofs ---------------------------
(***************************************************************************)
(* What an attempt takes from the files it reads and from the server,      *)
(* whatever they hold and whatever the limits are: the settings of the     *)
(* pam.d line (args.c), the trusted keys (sshkey.c), the principals map    *)
(* (principals_map.c) and the certificate (sshcert.c, sshwire.c); and what *)
(* the crypto library is handed of its key and its signature (der.c,       *)
(* crypto_openssl.c).                                                      *)
(***************************************************************************)
EXTENDS AttemptInputs, Loops

-----------------------------------------------------------------------------
(* The trusted keys.                                                       *)

UsableLines == {i \in DOMAIN caFile.lines : Usable(i)}
SkippedLines == {i \in DOMAIN caFile.lines : ~Usable(i) /\ ~IsBlank(caFile.lines[i])}
KeysIn(lines) == {lines[i].key : i \in DOMAIN lines}

CaTyped ==
  /\ Sequence(caFile.lines) /\ caLine \in 1..Len(caFile.lines) + 1
  /\ caStatus = "unread" => caLine = 1 /\ caKeys = <<>> /\ skipped = 0
  /\ caKeys \in Seq(KeysIn(caFile.lines))

\* What the lines before caLine have left in ssoossh_ca_keys.
CaSoFar ==
  /\ Len(caKeys) = CountTo(UsableLines, caLine - 1) /\ Len(caKeys) <= MaxCas
  /\ skipped = CountTo(SkippedLines, caLine - 1)
  /\ \A i \in 1..caLine - 1 :
       /\ IsBlank(caFile.lines[i]) \/ IsKey(caFile.lines[i])
       /\ Usable(i) => caKeys[CountTo(UsableLines, i)] = caFile.lines[i].key

\* The line the load has stopped at.
CaEnded ==
  caFile.read = "whole" =>
    /\ caStatus # "UNREADABLE"
    /\ caStatus = "MALFORMED" =>
         /\ caLine \in DOMAIN caFile.lines
         /\ ~IsBlank(caFile.lines[caLine]) /\ ~IsKey(caFile.lines[caLine])
    /\ caStatus \in {"OK", "NONE_USABLE"} =>
         /\ caStatus = CaVerdict(caKeys)
         /\ \/ caLine = Len(caFile.lines) + 1
            \/ caLine \in UsableLines /\ Len(caKeys) = MaxCas

CaInv == CaTyped /\ CaSoFar /\ CaEnded

\* What is read to its end has a length (the buffers of ssoossh_read_file and
\* pam's argv).
LEMMA SequenceHasLength ==
  ASSUME NEW s, Sequence(s)
  PROVE  Len(s) \in Nat /\ DOMAIN s = 1..Len(s)
BY LenProperties DEF Sequence

\* Before the file of trusted keys is opened (sshkey.c:195-200).
LEMMA CaInvInit == Init => CaInv
<1> SUFFICES ASSUME Init PROVE CaInv
  OBVIOUS
<1>1. caFile.lines = <<>> /\ caLine = 1 /\ caKeys = <<>> /\ skipped = 0 /\ caStatus = "unread"
  BY DEF Init, CaInit, Unreadable
<1>2. CaTyped
  BY <1>1 DEF CaTyped, Sequence
<1>3. CaSoFar
  <2>1. CountTo(UsableLines, 0) = 0 /\ CountTo(SkippedLines, 0) = 0
    BY Counting
  <2>2. QED
    BY <1>1, <2>1, CaFileAssumption DEF CaSoFar
<1>4. CaEnded
  BY <1>1 DEF CaEnded
<1>5. QED
  BY <1>2, <1>3, <1>4 DEF CaInv

\* The file is opened (sshkey.c:195-215).
LEMMA CaInvOpen ==
  ASSUME CaInv, LoadCas
  PROVE  CaInv'
<1> PICK f \in CaFiles \cup {Plain.ca} :
           OpenCaFile(FileAt(cfg["trusted-ca-file"], <<"ca">>, f))
  BY DEF LoadCas, May
<1> DEFINE file == FileAt(cfg["trusted-ca-file"], <<"ca">>, f)
<1>1. Sequence(file.lines) /\ file.read \in {"fails", "too large", "whole"}
  <2>1. Sequence(f.lines) /\ f.read \in {"fails", "too large", "whole"}
    BY AttemptInputsAssumption DEF Files
  <2>2. Sequence(Unreadable.lines) /\ Unreadable.read = "fails"
    BY DEF Unreadable, Sequence
  <2>3. QED
    BY <2>1, <2>2 DEF FileAt
<1>2. OpenCaFile(file)
  OBVIOUS
<1> HIDE DEF file
<1>3. /\ caFile' = file /\ caLine' = 1 /\ caKeys' = <<>> /\ skipped' = 0
      /\ caStatus' \in {"UNREADABLE", "MALFORMED", "reading"}
      /\ caFile'.read = "whole" => caStatus' = "reading"
  <2>1. caLine = 1 /\ caKeys = <<>> /\ skipped = 0
    BY <1>2 DEF CaInv, CaTyped, OpenCaFile
  <2>2. QED
    BY <1>1, <1>2, <2>1 DEF OpenCaFile
<1>4. CaTyped'
  <2>1. Len(caFile'.lines) \in Nat
    BY <1>1, <1>3, SequenceHasLength
  <2>2. caKeys' \in Seq(KeysIn(caFile'.lines))
    BY <1>3
  <2>3. caLine' \in 1..Len(caFile'.lines) + 1
    BY <1>3, <2>1
  <2>4. Sequence(caFile'.lines)
    BY <1>1, <1>3
  <2>5. caStatus' # "unread"
    BY <1>3
  <2>6. QED
    BY <2>2, <2>3, <2>4, <2>5 DEF CaTyped
<1>5. CaSoFar'
  <2>1. CountTo(UsableLines', 0) = 0 /\ CountTo(SkippedLines', 0) = 0
    BY Counting
  <2>2. QED
    BY <1>3, <2>1, CaFileAssumption DEF CaSoFar
<1>6. CaEnded'
  BY <1>3 DEF CaEnded
<1>7. QED
  BY <1>4, <1>5, <1>6 DEF CaInv

\* A line is read (sshkey.c:217-278).
LEMMA CaInvNext ==
  ASSUME CaInv, CaNext
  PROVE  CaInv'
<1> DEFINE lines == caFile.lines
           l == lines[caLine]
           u(i) == CountTo(UsableLines, i)
           s(i) == CountTo(SkippedLines, i)
<1>1. /\ Len(lines) \in Nat /\ DOMAIN lines = 1..Len(lines)
      /\ caLine \in 1..Len(lines) + 1 /\ caLine - 1 \in Nat
      /\ Len(caKeys) \in Nat /\ MaxCas \in Nat \ {0}
  <2>1. Len(lines) \in Nat /\ DOMAIN lines = 1..Len(lines)
    BY SequenceHasLength DEF CaInv, CaTyped
  <2>2. QED
    BY <2>1, LenProperties, CaFileAssumption DEF CaInv, CaTyped
<1>2. caFile' = caFile /\ UsableLines' = UsableLines /\ SkippedLines' = SkippedLines
  <2>1. caFile' = caFile
    BY DEF CaNext, ReadCaLine, PassBlank, RefuseCaFile, SkipKey, KeepKey, CaFileFull, CaFileRead
  <2>2. QED
    BY <2>1 DEF UsableLines, SkippedLines, Usable
<1>3. /\ \A i \in Nat : u(i) \in Nat /\ s(i) \in Nat
      /\ \A i, j \in Nat : i <= j => u(i) <= u(j)
      /\ caLine \in UsableLines => u(caLine) = u(caLine - 1) + 1
      /\ caLine \notin UsableLines => u(caLine) = u(caLine - 1)
      /\ caLine \in SkippedLines => s(caLine) = s(caLine - 1) + 1
      /\ caLine \notin SkippedLines => s(caLine) = s(caLine - 1)
  <2>1. caLine \in Nat \ {0}
    BY <1>1
  <2>2. QED
    BY <1>1, <2>1, Counting
<1>4. /\ Len(caKeys) = u(caLine - 1) /\ Len(caKeys) <= MaxCas /\ skipped = s(caLine - 1)
      /\ \A i \in 1..caLine - 1 :
           /\ IsBlank(lines[i]) \/ IsKey(lines[i])
           /\ Usable(i) => caKeys[u(i)] = lines[i].key
      /\ Sequence(lines) /\ caKeys \in Seq(KeysIn(lines))
  BY DEF CaInv, CaTyped, CaSoFar
<1> HIDE DEF u, s
<1>5. ASSUME caLine \in DOMAIN lines, caLine' = caLine + 1, caStatus' = caStatus,
             caStatus = "reading",
             IsBlank(l) \/ IsKey(l),
             caKeys' \in Seq(KeysIn(lines)), Len(caKeys') <= MaxCas,
             Len(caKeys') = u(caLine), skipped' = s(caLine),
             \A i \in 1..caLine - 1 : Usable(i) => caKeys'[u(i)] = lines[i].key,
             Usable(caLine) => caKeys'[u(caLine)] = l.key
      PROVE  CaInv'
  <2>1. CaTyped'
    BY <1>1, <1>2, <1>4, <1>5 DEF CaTyped
  <2>2. CaSoFar'
    <3>1. \A i \in 1..caLine :
            /\ IsBlank(lines[i]) \/ IsKey(lines[i])
            /\ Usable(i) => caKeys'[u(i)] = lines[i].key
      <4> SUFFICES ASSUME NEW i \in 1..caLine
                   PROVE  /\ IsBlank(lines[i]) \/ IsKey(lines[i])
                          /\ Usable(i) => caKeys'[u(i)] = lines[i].key
        OBVIOUS
      <4>1. CASE i = caLine
        BY <1>5, <4>1, Zenon
      <4>2. CASE i \in 1..caLine - 1
        BY <1>4, <1>5, <4>2, Zenon
      <4>3. QED
        BY <1>1, <4>1, <4>2
    <3>2. \A i : Usable(i)' <=> Usable(i)
      BY <1>2 DEF Usable
    <3>3. caLine' - 1 = caLine
      BY <1>1, <1>5
    <3>4. QED
      BY <1>2, <1>5, <3>1, <3>2, <3>3 DEF CaSoFar, u, s
  <2>3. CaEnded'
    BY <1>5 DEF CaEnded
  <2>4. QED
    BY <2>1, <2>2, <2>3 DEF CaInv
<1>6. ASSUME UNCHANGED <<caLine, caKeys, skipped>>, caStatus = "reading",
             caStatus' # "unread", CaEnded'
      PROVE  CaInv'
  BY <1>2, <1>6 DEF CaInv, CaTyped, CaSoFar, Usable
<1>7. caLine \in DOMAIN lines => (Usable(caLine) <=> IsKey(l) /\ l.algo \in Supported)
  BY DEF Usable
<1>8. ASSUME PassBlank(l) PROVE CaInv'
  <2>1. /\ caLine \in DOMAIN lines /\ caLine' = caLine + 1 /\ caStatus = "reading"
        /\ IsBlank(l) /\ UNCHANGED <<caKeys, skipped, caStatus>>
    BY <1>1, <1>8 DEF PassBlank, CaLine
  <2>2. ~Usable(caLine) /\ caLine \notin UsableLines /\ caLine \notin SkippedLines
    BY <2>1, <1>7 DEF IsBlank, IsKey, UsableLines, SkippedLines
  <2>3. QED
    BY <1>3, <1>4, <1>5, <2>1, <2>2
<1>9. ASSUME RefuseCaFile(l) PROVE CaInv'
  <2>1. CaEnded'
    BY <1>1, <1>2, <1>9 DEF RefuseCaFile, CaLine, CaEnded
  <2>2. QED
    BY <1>6, <1>9, <2>1 DEF RefuseCaFile, CaLine
<1>10. ASSUME SkipKey(l) PROVE CaInv'
  <2>1. /\ caLine \in DOMAIN lines /\ caLine' = caLine + 1 /\ caStatus = "reading"
        /\ IsKey(l) /\ l.algo \notin Supported
        /\ skipped' = skipped + 1 /\ UNCHANGED <<caKeys, caStatus>>
    BY <1>1, <1>10 DEF SkipKey, CaLine
  <2>2. ~Usable(caLine) /\ caLine \notin UsableLines /\ caLine \in SkippedLines
    BY <2>1, <1>7 DEF IsBlank, IsKey, UsableLines, SkippedLines
  <2>3. QED
    BY <1>3, <1>4, <1>5, <2>1, <2>2
<1>11. ASSUME KeepKey(l) PROVE CaInv'
  <2>1. /\ caLine \in DOMAIN lines /\ caLine' = caLine + 1 /\ caStatus = "reading"
        /\ IsKey(l) /\ l.algo \in Supported /\ Len(caKeys) < MaxCas
        /\ caKeys' = Append(caKeys, l.key) /\ UNCHANGED <<skipped, caStatus>>
    BY <1>1, <1>11 DEF KeepKey, CaLine
  <2>2. caLine \in UsableLines /\ caLine \notin SkippedLines
    BY <2>1, <1>7 DEF UsableLines, SkippedLines
  <2>3. /\ caKeys' \in Seq(KeysIn(lines)) /\ Len(caKeys') = Len(caKeys) + 1
        /\ \A k \in 1..Len(caKeys) : caKeys'[k] = caKeys[k]
        /\ caKeys'[Len(caKeys) + 1] = l.key
    <3>1. l.key \in KeysIn(lines)
      BY <2>1 DEF KeysIn
    <3>2. QED
      BY <1>4, <2>1, <3>1, AppendProperties
  <2>4. ASSUME NEW i \in 1..caLine - 1, Usable(i)
        PROVE  caKeys'[u(i)] = lines[i].key
    <3>1. i \in UsableLines /\ i - 1 \in Nat /\ i \in Nat \ {0}
      BY <1>1, <2>4 DEF UsableLines
    <3>2. u(i) = u(i - 1) + 1
      BY <3>1, Counting DEF u
    <3>3. u(i) \in 1..Len(caKeys)
      <4>1. u(i - 1) \in Nat /\ u(i) \in Nat /\ Len(caKeys) \in Nat
        BY <1>1, <1>3, <3>1
      <4>2. caLine - 1 \in Nat /\ i \in Nat /\ i <= caLine - 1
        BY <1>1, <3>1
      <4>3. u(i) <= u(caLine - 1)
        BY <1>3, <4>2
      <4>4. u(i) <= Len(caKeys) /\ u(i) >= 1
        BY <1>4, <3>2, <4>1, <4>3
      <4>5. QED
        BY <4>1, <4>4
    <3>4. QED
      BY <1>4, <2>3, <2>4, <3>3
  <2>5. /\ Len(caKeys') = u(caLine) /\ skipped' = s(caLine)
        /\ caKeys'[u(caLine)] = l.key /\ Len(caKeys') <= MaxCas
    <3>1. u(caLine) = Len(caKeys) + 1 /\ s(caLine) = skipped
      BY <1>3, <1>4, <2>2
    <3>2. Len(caKeys) + 1 <= MaxCas
      BY <1>1, <2>1
    <3>3. QED
      BY <2>1, <2>3, <3>1, <3>2
  <2>6. QED
    BY <1>5, <2>1, <2>3, <2>4, <2>5
<1>12. ASSUME CaFileFull(l) PROVE CaInv'
  <2>1. /\ caLine \in DOMAIN lines /\ caStatus = "reading"
        /\ caStatus' = CaVerdict(caKeys)
        /\ UNCHANGED <<caLine, caKeys, skipped>>
        /\ IsKey(l) /\ l.algo \in Supported /\ Len(caKeys) >= MaxCas
    BY <1>1, <1>12 DEF CaFileFull, CaLine
  <2>2. caLine \in UsableLines /\ Len(caKeys) = MaxCas
    BY <1>1, <1>4, <1>7, <2>1 DEF UsableLines
  <2>3. caStatus' \in {"OK", "NONE_USABLE"} /\ CaVerdict(caKeys)' = CaVerdict(caKeys)
    BY <2>1 DEF CaVerdict
  <2>4. CaEnded'
    BY <1>2, <2>1, <2>2, <2>3 DEF CaEnded
  <2>5. QED
    BY <1>6, <2>1, <2>3, <2>4
<1>13. ASSUME CaFileRead PROVE CaInv'
  <2>1. /\ caLine = Len(lines) + 1 /\ caStatus = "reading"
        /\ caStatus' = CaVerdict(caKeys)
        /\ UNCHANGED <<caLine, caKeys, skipped>>
    BY <1>1, <1>13 DEF CaFileRead
  <2>2. caStatus' \in {"OK", "NONE_USABLE"} /\ CaVerdict(caKeys)' = CaVerdict(caKeys)
    BY <2>1 DEF CaVerdict
  <2>3. CaEnded'
    BY <1>2, <2>1, <2>2 DEF CaEnded
  <2>4. QED
    BY <1>6, <2>1, <2>2, <2>3
<1>14. QED
  BY <1>8, <1>9, <1>10, <1>11, <1>12, <1>13 DEF CaNext, ReadCaLine

\* Where the load has stopped tells which lines of the file were to be read.
LEMMA KeysFromInv == CaInv => KeysAreTheFiles
<1> SUFFICES ASSUME CaInv, caStatus \in CaStatus, caFile.read = "whole"
             PROVE  KeysAreTheFiles
  BY DEF KeysAreTheFiles
<1> DEFINE lines == caFile.lines
           u(i) == CountTo(UsableLines, i)
           bad == {i \in DOMAIN lines : ~IsBlank(lines[i]) /\ ~IsKey(lines[i])}
           good == {i \in LinesRead : Usable(i)}
           skips == {i \in LinesRead : ~Usable(i) /\ ~IsBlank(lines[i])}
<1>1. /\ DOMAIN lines = 1..Len(lines) /\ Len(lines) \in Nat
      /\ caLine \in 1..Len(lines) + 1 /\ Len(caKeys) \in Nat /\ MaxCas \in Nat
  BY SequenceHasLength, LenProperties, CaFileAssumption DEF CaInv, CaTyped
<1>2. /\ Len(caKeys) = u(caLine - 1) /\ Len(caKeys) <= MaxCas
      /\ skipped = CountTo(SkippedLines, caLine - 1)
      /\ \A i \in 1..caLine - 1 :
           /\ IsBlank(lines[i]) \/ IsKey(lines[i])
           /\ Usable(i) => caKeys[u(i)] = lines[i].key
  BY DEF CaInv, CaSoFar
<1>3. ASSUME NEW i \in DOMAIN lines
      PROVE  {j \in 1..i : Usable(j)} = UsableLines \cap (1..i)
  BY <1>1 DEF UsableLines
<1>4. LinesRead = {i \in DOMAIN lines : u(i) <= MaxCas}
  BY <1>3 DEF LinesRead, CountTo
<1>5. /\ \A i \in Nat : u(i) \in Nat
      /\ \A i, j \in Nat : i <= j => u(i) <= u(j)
      /\ \A i \in Nat \ {0} : u(i) = IF i \in UsableLines THEN u(i - 1) + 1 ELSE u(i - 1)
  BY Counting
<1> HIDE DEF u
<1>6. \A i \in DOMAIN lines : Usable(i) => ~IsBlank(lines[i]) /\ IsKey(lines[i])
  BY DEF Usable, IsKey, IsBlank
<1>7. CASE caStatus = "MALFORMED"
  <2>1. caLine \in DOMAIN lines /\ ~IsBlank(lines[caLine]) /\ ~IsKey(lines[caLine])
    BY <1>7 DEF CaInv, CaEnded
  <2>2. caLine \in bad
    BY <2>1
  <2>3. QED
    BY <1>7, <2>2 DEF KeysAreTheFiles
<1>8. CASE caStatus \in {"OK", "NONE_USABLE"}
  <2>1. /\ caStatus = CaVerdict(caKeys)
        /\ caLine = Len(lines) + 1 \/ (caLine \in UsableLines /\ Len(caKeys) = MaxCas)
    BY <1>8 DEF CaInv, CaEnded
  <2>2. LinesRead = 1..caLine - 1
    <3>1. ASSUME NEW i \in 1..caLine - 1 PROVE i \in LinesRead
      <4>1. i \in DOMAIN lines /\ i \in Nat /\ caLine - 1 \in Nat /\ i <= caLine - 1
        BY <1>1
      <4>2. u(i) <= u(caLine - 1) /\ u(i) \in Nat
        BY <1>5, <4>1
      <4>3. QED
        BY <1>1, <1>2, <1>4, <4>1, <4>2
    <3>2. ASSUME NEW i \in LinesRead, i \notin 1..caLine - 1 PROVE FALSE
      <4>1. i \in 1..Len(lines) /\ i >= caLine /\ u(i) <= MaxCas
        BY <1>1, <1>4, <3>2
      <4>2. caLine \in UsableLines /\ Len(caKeys) = MaxCas
        BY <1>1, <2>1, <4>1
      <4>3. u(caLine) = MaxCas + 1 /\ u(caLine) <= u(i) /\ u(i) \in Nat
        <5>1. caLine \in Nat \ {0} /\ i \in Nat /\ caLine <= i
          BY <1>1, <4>1
        <5>2. u(caLine) = u(caLine - 1) + 1
          BY <1>5, <4>2, <5>1
        <5>3. QED
          BY <1>2, <1>5, <4>2, <5>1, <5>2
      <4>4. QED
        BY <1>1, <4>1, <4>3
    <3>3. QED
      BY <3>1, <3>2
  <2>3. bad \cap LinesRead = {}
    BY <1>2, <2>2
  <2>4. good = UsableLines \cap (1..caLine - 1) /\ skips = SkippedLines \cap (1..caLine - 1)
    BY <1>1, <2>2 DEF UsableLines, SkippedLines
  <2>5. Cardinality(good) = Len(caKeys) /\ Cardinality(skips) = skipped
    BY <1>2, <2>4 DEF CountTo, u
  <2>6. caStatus = "OK" <=> good # {}
    <3>1. IsFiniteSet(good)
      <4>1. IsFiniteSet(1..caLine - 1)
        BY <1>1, FS_Interval
      <4>2. QED
        BY <2>4, <4>1, FS_Subset
    <3>2. good = {} <=> Len(caKeys) = 0
      BY <2>5, <3>1, FS_EmptySet
    <3>3. caKeys = <<>> <=> Len(caKeys) = 0
      BY DEF CaInv, CaTyped
    <3>4. QED
      BY <1>8, <2>1, <3>2, <3>3 DEF CaVerdict
  <2>7. ASSUME NEW i \in good
        PROVE  caKeys[Cardinality({j \in good : j <= i})] = lines[i].key
    <3>1. i \in 1..caLine - 1 /\ Usable(i)
      BY <2>2
    <3>2. {j \in good : j <= i} = UsableLines \cap (1..i)
      BY <1>1, <2>4, <3>1
    <3>3. QED
      BY <1>2, <3>1, <3>2 DEF CountTo, u
  <2>8. QED
    BY <1>8, <2>3, <2>5, <2>6, <2>7 DEF KeysAreTheFiles
<1>9. caStatus # "UNREADABLE"
  BY DEF CaInv, CaEnded
<1>10. QED
  BY <1>7, <1>8, <1>9 DEF CaStatus

\* The attempt trusts the usable keys of the file that it was told to trust, in
\* their order and up to the limit, or it goes no further (sshkey.c:189-278).
THEOREM TrustsTheFile == Spec => []KeysAreTheFiles
<1>1. Init => CaInv
  BY CaInvInit
<1>2. CaInv /\ [Next]_vars => CaInv'
  <2> SUFFICES ASSUME CaInv, [Next]_vars PROVE CaInv'
    OBVIOUS
  <2>1. CASE LoadCas
    BY <2>1, CaInvOpen
  <2>2. CASE LoadingCas
    BY <2>2, CaInvNext DEF LoadingCas
  <2>3. CASE UNCHANGED caVars
    BY <2>3 DEF caVars, CaInv, CaTyped, CaSoFar, CaEnded, UsableLines, SkippedLines, Usable
  <2>4. QED
    BY <2>1, <2>2, <2>3 DEF Next, vars, Arguing, BuildingBody, ReadingReply, ShowingLinks,
       ReadingEnvelope, ParseCert, ParsingCert, Verifying, LoadMap, LoadingMap
<1>3. QED
  BY <1>1, <1>2, KeysFromInv, PTL DEF Spec

-----------------------------------------------------------------------------
(* The settings.                                                           *)

ArgTyped ==
  /\ Sequence(argv) /\ arg \in 1..Len(argv) + 1
  /\ \A i \in DOMAIN argv : Sequence(argv[i].value)
  /\ cfg = [s \in Settings |-> cfg[s]]

\* The arguments before arg are none that end the parse; the one it has ended
\* at is.
ArgEnded ==
  /\ \A i \in 1..arg - 1 : Refusal(argv[i]) = "OK"
  /\ argStatus = "OK" => arg = Len(argv) + 1
  /\ argStatus \notin {"reading", "OK"} =>
       arg \in DOMAIN argv /\ Refusal(argv[arg]) # "OK" /\ badArg = arg

\* What the arguments for s before arg, of which those after i need not have
\* said anything, have made of it.
Unread(s, i) == \A j \in 1..arg - 1 : argv[j].key = s /\ j > i => NotRead \in Stored(argv[j])
LastSo(s) ==
  \/ cfg[s] = Default[s] /\ Unread(s, 0)
  \/ \E i \in 1..arg - 1 :
       argv[i].key = s /\ Known(cfg[s]) \in Stored(argv[i]) /\ Unread(s, i)

ArgInv ==
  /\ ArgTyped /\ ArgEnded
  /\ \A s \in Settings : LastSo(s)
  /\ \A s \in Paths \cup {"server"} : Len(cfg[s]) < ValueCap

\* The first and the last of some places in a text (the loops of
\* normalize_server that pass over blanks and slashes, args.c:345-395).
LEMMA Smallest ==
  ASSUME NEW T \in SUBSET Nat, T # {}
  PROVE  \E m \in T : \A n \in T : m <= n
<1> SUFFICES ASSUME \A m \in T : \E n \in T : n < m PROVE FALSE
  OBVIOUS
<1> DEFINE S == {n \in Nat : \A m \in 0..n : m \notin T}
<1>1. 0 \in S
  OBVIOUS
<1>2. \A n \in Nat : n \in S => n + 1 \in S
  <2> SUFFICES ASSUME NEW n \in Nat, n \in S PROVE n + 1 \in S
    OBVIOUS
  <2>1. n + 1 \notin T
    OBVIOUS
  <2>2. \A m \in 0..n + 1 : m = n + 1 \/ m \in 0..n
    OBVIOUS
  <2>3. QED
    BY <2>1, <2>2
<1>3. Nat \subseteq S
  <2> HIDE DEF S
  <2>1. QED
    BY <1>1, <1>2, Iterations
<1>4. PICK n \in T : TRUE
  OBVIOUS
<1>5. n \in S
  <2> HIDE DEF S
  <2>1. QED
    BY <1>3
<1>6. QED
  BY <1>5

\* The first of them is one of them (args.c:345-371).
LEMMA MinIsThere ==
  ASSUME NEW T \in SUBSET Nat, T # {}
  PROVE  Min(T) \in T
BY Smallest DEF Min

\* So is the last, where they end (args.c:345-371).
LEMMA MaxIsThere ==
  ASSUME NEW n \in Nat, NEW T \in SUBSET 0..n, T # {}
  PROVE  Max(T) \in T /\ \A x \in T : x <= Max(T)
<1> DEFINE U == {n - t : t \in T}
<1>0. \A t \in T : t \in 0..n
  OBVIOUS
<1>1. U \in SUBSET Nat /\ U # {}
  <2>1. \A t \in T : n - t \in Nat
    BY <1>0
  <2>2. QED
    BY <2>1
<1>2. PICK m \in U : \A k \in U : m <= k
  <2> HIDE DEF U
  <2>1. QED
    BY <1>1, Smallest
<1>3. PICK t \in T : m = n - t
  OBVIOUS
<1>4. \A x \in T : t >= x
  <2> TAKE x \in T
  <2>1. m <= n - x
    BY <1>2
  <2>2. QED
    BY <1>0, <1>3, <2>1
<1>5. Max(T) \in T /\ \A x \in T : Max(T) >= x
  BY <1>4 DEF Max
<1>6. QED
  BY <1>0, <1>5

\* A server has a length whatever was cut off it (args.c:345-395).
LEMMA NormalizedHasLength ==
  ASSUME NEW v, Sequence(v)
  PROVE  Len(Normalized(v)) \in Nat
<1> DEFINE R == Range(v) \cup {"https:", "/"}
<1>1. Len(v) \in Nat /\ DOMAIN v = 1..Len(v)
  BY SequenceHasLength
<1>2. \A i \in DOMAIN v : v[i] \in R
  BY DEF Range
<1> HIDE DEF R
<1>3. Trimmed(v) \in Seq(R)
  <2> DEFINE text == {i \in DOMAIN v : v[i] # " "}
  <2>1. CASE text = {}
    <3>1. Trimmed(v) = <<>>
      BY <2>1 DEF Trimmed
    <3>2. QED
      BY <3>1
  <2>2. CASE text # {}
    <3>1. text \in SUBSET Nat /\ {0} \cup text \in SUBSET 0..Len(v)
      <4>1. \A i \in text : i \in 1..Len(v)
        BY <1>1
      <4> HIDE DEF text
      <4>2. QED
        BY <1>1, <4>1
    <3> DEFINE first == Min(text)
               last == Max({0} \cup text)
               kept == {0} \cup {i \in first..last : v[i] # "/"}
               end == Max(kept)
    <3>2. first \in text
      <4> HIDE DEF text
      <4>1. QED
        BY <2>2, <3>1, MinIsThere
    <3>3. last \in {0} \cup text
      <4> HIDE DEF text
      <4>1. QED
        BY <1>1, <3>1, MaxIsThere
    <3>4. first \in 1..Len(v) /\ last \in 0..Len(v)
      BY <1>1, <3>1, <3>2, <3>3
    <3>5. Trimmed(v) = SubSeq(v, first, end)
      BY <2>2 DEF Trimmed
    <3> HIDE DEF text, first, last
    <3>6. kept \in SUBSET 0..Len(v) /\ kept # {}
      BY <1>1, <3>4
    <3>7. end \in 0..Len(v)
      <4> HIDE DEF kept
      <4>1. QED
        BY <1>1, <3>6, MaxIsThere
    <3> HIDE DEF kept, end
    <3>8. first \in Int /\ end \in Int /\ \A i \in first..end : v[i] \in R
      BY <1>1, <1>2, <3>4, <3>7
    <3>9. QED
      BY <3>5, <3>8, SubSeqProperties
  <2>3. QED
    BY <2>1, <2>2
<1>4. <<"https:", "/", "/">> \in Seq(R)
  BY DEF R
<1>5. <<"https:", "/", "/">> \o Trimmed(v) \in Seq(R)
  BY <1>3, <1>4, ConcatProperties
<1>6. Normalized(v) \in Seq(R)
  BY <1>3, <1>5 DEF Normalized
<1>7. QED
  BY <1>6, LenProperties

\* What is read of an argument is a value of a setting (args.c:442-480).
LEMMA StoredIsKnown ==
  ASSUME NEW a, NEW r \in Stored(a), r.ok
  PROVE  r = Known(r.value) /\ a.key \in Settings
<1>1. ~NotRead.ok
  BY DEF NotRead
<1>2. CASE a.key \in Times
  <2>1. PICK kept \in SUBSET Tests : r = Parsed(a.value, kept)
    <3>1. Stored(a) = Readings(a.value)
      BY <1>2 DEF Stored, Times, Flags, Paths
    <3>2. QED
      BY <3>1 DEF Readings
  <2>2. \E n : r = Known(n)
    BY <1>1, <2>1 DEF Parsed, WithSign
  <2>3. QED
    BY <1>2, <2>2 DEF Known, Settings
<1>3. CASE a.key \in Flags
  <2>1. \E n : r = Known(n)
    BY <1>1, <1>3 DEF Stored, Times, Flags
  <2>2. QED
    BY <1>3, <2>1 DEF Known, Settings
<1>4. CASE a.key \in Paths \cup {"server", "debug", "mode"}
  <2>1. \E n : r = Known(n)
    BY <1>4 DEF Stored, Times, Flags, Paths
  <2>2. QED
    BY <1>4, <2>1 DEF Known, Settings
<1>5. CASE a.key \notin Settings
  <2>1. r = NotRead
    BY <1>5 DEF Stored, Settings, Times, Flags, Paths
  <2>2. QED
    BY <1>1, <2>1
<1>6. QED
  BY <1>2, <1>3, <1>4, <1>5 DEF Settings

\* Before the first argument: the defaults (args.c:397-409).
LEMMA ArgInvInit == Init => ArgInv
<1> SUFFICES ASSUME Init PROVE ArgInv
  OBVIOUS
<1>1. argv \in PamLines \cup {Plain.argv} /\ arg = 1 /\ cfg = Default /\ argStatus = "reading"
  BY DEF Init, ArgumentsInit, May
<1>2. ArgTyped
  <2>1. Sequence(argv) /\ \A i \in DOMAIN argv : Sequence(argv[i].value)
    BY <1>1, AttemptInputsAssumption
  <2>2. Len(argv) \in Nat
    BY <2>1, SequenceHasLength
  <2>3. arg \in 1..Len(argv) + 1
    BY <1>1, <2>2
  <2>4. cfg = [s \in Settings |-> cfg[s]]
    BY <1>1 DEF Default
  <2>5. QED
    BY <2>1, <2>3, <2>4 DEF ArgTyped
<1>3. 1..arg - 1 = {}
  BY <1>1
<1>4. ArgEnded
  BY <1>1, <1>3 DEF ArgEnded
<1>5. ASSUME NEW s \in Settings PROVE LastSo(s)
  BY <1>1, <1>3 DEF LastSo, Unread
<1>6. ASSUME NEW s \in Paths \cup {"server"} PROVE Len(cfg[s]) < ValueCap
  <2>1. s \in Settings /\ s \notin Flags \cup Times \cup {"debug", "mode"}
    BY DEF Settings, Paths, Times, Flags
  <2>2. Default[s] = <<>>
    BY <2>1 DEF Default, Times
  <2>3. QED
    BY <1>1, <2>2, ArgumentsAssumption
<1>7. QED
  BY <1>2, <1>4, <1>5, <1>6 DEF ArgInv

\* An argument that says nothing of s, or nothing that can be read, leaves it
\* what it was (args.c:431-440, 456-467, 496-501).
LEMMA OtherSettingStays ==
  ASSUME ArgTyped, arg \in DOMAIN argv, arg' = arg + 1, argv' = argv,
         NEW s \in Settings, LastSo(s), cfg'[s] = cfg[s],
         argv[arg].key = s => NotRead \in Stored(argv[arg])
  PROVE  LastSo(s)'
<1>1. /\ arg \in Nat /\ arg' - 1 = arg
      /\ \A j \in 1..arg : j = arg \/ j \in 1..arg - 1
  BY SequenceHasLength DEF ArgTyped
<1>2. \A i : Unread(s, i) => Unread(s, i)'
  BY <1>1 DEF Unread
<1>3. CASE cfg[s] = Default[s] /\ Unread(s, 0)
  BY <1>2, <1>3 DEF LastSo
<1>4. ASSUME NEW i \in 1..arg - 1,
             argv[i].key = s, Known(cfg[s]) \in Stored(argv[i]), Unread(s, i)
      PROVE  LastSo(s)'
  <2>1. i \in 1..arg' - 1
    BY <1>1
  <2>2. QED
    BY <1>2, <1>4, <2>1 DEF LastSo
<1>5. QED
  BY <1>3, <1>4 DEF LastSo

\* An argument is read (args.c:406-508).
LEMMA ArgInvNext ==
  ASSUME ArgInv, ArgumentsNext
  PROVE  ArgInv'
<1> DEFINE a == argv[arg]
<1>1. /\ Len(argv) \in Nat /\ DOMAIN argv = 1..Len(argv) /\ arg \in 1..Len(argv) + 1
      /\ \A i \in DOMAIN argv : Sequence(argv[i].value)
      /\ cfg = [s \in Settings |-> cfg[s]] /\ Sequence(argv)
  BY SequenceHasLength DEF ArgInv, ArgTyped
<1>2. argv' = argv
  BY DEF ArgumentsNext, TakeArgument, PassArgument, RefuseArgument, ArgumentsRead
<1>3. ASSUME Reading, Refusal(a) = "OK", arg' = arg + 1, UNCHANGED argStatus,
             cfg' = [s \in Settings |-> cfg'[s]]
      PROVE  ArgTyped' /\ ArgEnded' /\ arg \in DOMAIN argv
  <2>1. arg \in DOMAIN argv /\ argStatus = "reading"
    BY <1>1, <1>3 DEF Reading
  <2>2. arg' \in 1..Len(argv) + 1 /\ \A i \in 1..arg' - 1 : i \in 1..arg - 1 \/ i = arg
    BY <1>1, <1>3, <2>1
  <2>3. ArgTyped'
    BY <1>1, <1>2, <1>3, <2>2 DEF ArgTyped
  <2>4. ArgEnded'
    <3>1. \A i \in 1..arg' - 1 : Refusal(argv[i]) = "OK"
      BY <1>3, <2>2 DEF ArgInv, ArgEnded
    <3>2. QED
      BY <1>2, <1>3, <2>1, <3>1 DEF ArgEnded
  <2>5. QED
    BY <2>1, <2>3, <2>4
<1>4. ASSUME ArgEnded', UNCHANGED <<arg, cfg>> PROVE ArgInv'
  BY <1>2, <1>4 DEF ArgInv, ArgTyped, LastSo, Unread
<1>5. CASE TakeArgument
  <2> PICK r \in Stored(a) : r.ok /\ cfg' = Take(a.key, r.value)
    BY <1>5 DEF TakeArgument
  <2>1. /\ Reading /\ Refusal(a) = "OK" /\ arg' = arg + 1 /\ UNCHANGED argStatus
    BY <1>5 DEF TakeArgument
  <2>2. r = Known(r.value) /\ a.key \in Settings
    BY StoredIsKnown
  <2>3. /\ cfg' = [s \in Settings |-> cfg'[s]] /\ cfg'[a.key] = r.value
        /\ \A s \in Settings : s # a.key => cfg'[s] = cfg[s]
    BY <1>1, <2>2 DEF Take
  <2>4. ArgTyped' /\ ArgEnded' /\ arg \in DOMAIN argv
    BY <1>3, <2>1, <2>3
  <2>5. ASSUME NEW s \in Settings PROVE LastSo(s)'
    <3>1. CASE s = a.key
      <4> PICK i : i = arg
        OBVIOUS
      <4>1. i \in 1..arg' - 1 /\ \A j \in 1..arg' - 1 : ~(j > i)
        BY <1>1, <2>1
      <4>2. Unread(s, i)'
        BY <4>1 DEF Unread
      <4>3. argv'[i].key = s /\ Known(cfg'[s]) \in Stored(argv'[i])
        BY <1>2, <2>2, <2>3, <3>1
      <4>4. QED
        BY <4>1, <4>2, <4>3 DEF LastSo
    <3>2. CASE s # a.key
      <4>1. LastSo(s) /\ ArgTyped
        BY DEF ArgInv
      <4>2. QED
        BY <1>2, <2>1, <2>3, <2>4, <3>2, <4>1, OtherSettingStays
    <3>3. QED
      BY <3>1, <3>2
  <2>6. ASSUME NEW s \in Paths \cup {"server"} PROVE Len(cfg'[s]) < ValueCap
    <3>1. s \in Settings /\ s \notin Times \cup Flags \cup {"debug", "mode"} /\ ValueCap \in Nat
      BY ArgumentsAssumption DEF Settings, Paths, Times, Flags
    <3>2. CASE s # a.key
      BY <2>3, <3>1, <3>2 DEF ArgInv
    <3>3. CASE s = a.key /\ s \in Paths
      <4>1. r = Known(a.value)
        BY <3>1, <3>3 DEF Stored, Paths
      <4>2. r.value = a.value
        BY <4>1 DEF Known
      <4>3. ~(Len(a.value) >= ValueCap)
        BY <2>1, <3>3 DEF Refusal
      <4>4. Len(a.value) \in Nat
        BY <1>1, <2>4, SequenceHasLength
      <4>5. QED
        BY <2>3, <3>1, <3>3, <4>2, <4>3, <4>4
    <3>4. CASE s = a.key /\ s = "server"
      <4>1. r = Known(Normalized(a.value))
        <5>1. a.key = "server" /\ a.key \notin Times /\ a.key \notin Flags
          BY <3>1, <3>4
        <5> HIDE DEF a
        <5>2. Stored(a) = {Known(Normalized(a.value))}
          BY <5>1 DEF Stored, Paths
        <5>3. QED
          BY <5>2
      <4>2. r.value = Normalized(a.value)
        BY <4>1 DEF Known
      <4>3. ~(Len(Normalized(a.value)) >= ValueCap)
        BY <2>1, <3>4 DEF Refusal, Paths
      <4>4. Len(Normalized(a.value)) \in Nat
        BY <1>1, <2>4, NormalizedHasLength
      <4>5. QED
        BY <2>3, <3>1, <3>4, <4>2, <4>3, <4>4
    <3>5. QED
      BY <3>2, <3>3, <3>4
  <2>7. QED
    BY <2>4, <2>5, <2>6 DEF ArgInv
<1>6. CASE PassArgument
  <2>1. /\ Reading /\ Refusal(a) = "OK" /\ NotRead \in Stored(a)
        /\ arg' = arg + 1 /\ UNCHANGED <<argStatus, cfg>>
    BY <1>6 DEF PassArgument
  <2>2. ArgTyped' /\ ArgEnded' /\ arg \in DOMAIN argv
    BY <1>1, <1>3, <2>1
  <2>3. ASSUME NEW s \in Settings PROVE LastSo(s)'
    <3>1. LastSo(s) /\ ArgTyped
      BY DEF ArgInv
    <3>2. QED
      BY <1>2, <2>1, <2>2, <3>1, OtherSettingStays
  <2>4. QED
    BY <2>1, <2>2, <2>3 DEF ArgInv
<1>7. CASE RefuseArgument
  <2>1. /\ arg \in DOMAIN argv /\ Refusal(a) # "OK" /\ UNCHANGED <<arg, cfg>>
        /\ argStatus' = Refusal(a) /\ badArg' = arg
    BY <1>1, <1>7 DEF RefuseArgument, Reading
  <2>2. ArgEnded'
    BY <1>2, <2>1 DEF ArgInv, ArgEnded
  <2>3. QED
    BY <1>4, <2>1, <2>2
<1>8. CASE ArgumentsRead
  <2>1. arg = Len(argv) + 1 /\ argStatus' = "OK" /\ UNCHANGED <<arg, cfg>>
    BY <1>1, <1>8 DEF ArgumentsRead
  <2>2. ArgEnded'
    BY <1>2, <2>1 DEF ArgInv, ArgEnded
  <2>3. QED
    BY <1>4, <2>1, <2>2
<1>9. QED
  BY <1>5, <1>6, <1>7, <1>8 DEF ArgumentsNext

\* When the parse is over the arguments before arg are all there are, or those
\* before the first that may not be passed over.
LEMMA SettingsFromInv == ArgInv => LastArgumentHolds
<1> SUFFICES ASSUME ArgInv, argStatus # "reading" PROVE LastArgumentHolds
  BY DEF LastArgumentHolds
<1> DEFINE refused == {i \in DOMAIN argv : Refusal(argv[i]) # "OK"}
           For(s) == {i \in DOMAIN argv : argv[i].key = s /\ \A j \in refused : i < j}
           Later(s, i) == {j \in For(s) : j > i}
           Garbled(i) == NotRead \in Stored(argv[i])
           Says(s, i) == Known(cfg[s]) \in Stored(argv[i]) /\ \A j \in Later(s, i) : Garbled(j)
<1>0. ASSUME (argStatus = "OK" <=> refused = {}),
             argStatus # "OK" => badArg \in refused /\ \A j \in refused : badArg <= j,
             \A s \in Settings : \/ cfg[s] = Default[s] /\ \A i \in For(s) : Garbled(i)
                                 \/ \E i \in For(s) : Says(s, i)
      PROVE  LastArgumentHolds
  <2>1. \A s \in Settings : \/ \E i \in For(s) : Says(s, i)
                            \/ /\ cfg[s] = Default[s]
                               /\ \A i \in For(s) : Later(s, i) = {} => Garbled(i)
    BY <1>0
  <2>2. \A s \in Paths \cup {"server"} : Len(cfg[s]) < ValueCap
    BY DEF ArgInv
  <2>3. QED
    BY <1>0, <2>1, <2>2, Zenon DEF LastArgumentHolds
<1>1. Len(argv) \in Nat /\ DOMAIN argv = 1..Len(argv) /\ arg \in 1..Len(argv) + 1
  BY SequenceHasLength DEF ArgInv, ArgTyped
<1>2. \A i \in 1..arg - 1 : i \in DOMAIN argv /\ Refusal(argv[i]) = "OK"
  BY <1>1 DEF ArgInv, ArgEnded
<1>s. ASSUME NEW s \in Settings, For(s) = {i \in 1..arg - 1 : argv[i].key = s}
      PROVE  \/ cfg[s] = Default[s] /\ \A i \in For(s) : Garbled(i)
             \/ \E i \in For(s) : Says(s, i)
  <2>1. \A i : Unread(s, i) => \A j \in Later(s, i) : Garbled(j)
    BY <1>s DEF Unread
  <2>2. Unread(s, 0) => \A i \in For(s) : Garbled(i)
    BY <1>s DEF Unread
  <2>3. LastSo(s)
    BY DEF ArgInv
  <2> HIDE DEF For, Later, Garbled
  <2>4. QED
    BY <1>s, <2>1, <2>2, <2>3 DEF LastSo
<1>3. CASE argStatus = "OK"
  <2>1. arg = Len(argv) + 1
    BY <1>3 DEF ArgInv, ArgEnded
  <2>2. refused = {} /\ 1..arg - 1 = DOMAIN argv
    BY <1>1, <1>2, <2>1
  <2>3. ASSUME NEW s PROVE For(s) = {i \in 1..arg - 1 : argv[i].key = s}
    BY <2>2
  <2> HIDE DEF For, Later, Garbled, Says, refused
  <2>4. QED
    BY <1>3, <2>2, <2>3, <1>0, <1>s
<1>4. CASE argStatus # "OK"
  <2>1. arg \in refused /\ badArg = arg
    BY <1>4 DEF ArgInv, ArgEnded
  <2>2. \A j \in refused : arg <= j
    BY <1>1, <1>2
  <2>3. ASSUME NEW s PROVE For(s) = {i \in 1..arg - 1 : argv[i].key = s}
    BY <1>1, <1>2, <2>1, <2>2
  <2> HIDE DEF For, Later, Garbled, Says, refused
  <2>4. QED
    BY <1>4, <2>1, <2>2, <2>3, <1>0, <1>s
<1>5. QED
  BY <1>3, <1>4

\* The settings in force are those of the pam.d line: what the last argument for
\* each says and, when that cannot be read, its default or what an earlier one
\* said (args.c:397-512, args.h:84-106).
THEOREM SettingsAreTheLines == Spec => []LastArgumentHolds
<1>1. Init => ArgInv
  BY ArgInvInit
<1>2. ArgInv /\ [Next]_vars => ArgInv'
  <2> SUFFICES ASSUME ArgInv, [Next]_vars PROVE ArgInv'
    OBVIOUS
  <2>1. CASE Arguing
    BY <2>1, ArgInvNext DEF Arguing
  <2>2. CASE UNCHANGED argVars
    BY <2>2 DEF argVars, ArgInv, ArgTyped, ArgEnded, LastSo, Unread
  <2>3. QED
    BY <2>1, <2>2 DEF Next, vars, LoadCas, LoadingCas, BuildingBody, ReadingReply, ShowingLinks,
       ReadingEnvelope, ParseCert, ParsingCert, Verifying, LoadMap, LoadingMap
<1>3. QED
  BY <1>1, <1>2, SettingsFromInv, PTL DEF Spec

-----------------------------------------------------------------------------
(* The principals map.                                                     *)

MapTyped ==
  /\ Sequence(mapFile.lines) /\ mapLine \in 1..Len(mapFile.lines) + 1
  /\ \A i \in Accounts :
       mapFile.lines[i].value \notin Special => Sequence(mapFile.lines[i].value)
  /\ mapStatus = "unread" => mapLine = 1

\* The lines before mapLine, each seen with those.
FitsThere(i) ==
  LET l == mapFile.lines[i] IN
  /\ l.indent # "tab"
  /\ l.kind \in {"blank", "item", "account"}
  /\ l.kind = "item" =>
       /\ l.value \notin NotAName
       /\ Owner(i) # 0 /\ mapFile.lines[Owner(i)].value = <<"below">>
  /\ l.kind = "account" =>
       /\ l.indent = "none" /\ Name(l.key) \notin NotAName
       /\ \A j \in 1..mapLine - 1 :
            j \in Accounts /\ j # i => Name(mapFile.lines[j].key) # Name(l.key)
       /\ \/ l.value \in {<<"below">>, <<"null">>}
          \/ l.value \notin Special /\ NotAName \cap Range(l.value) = {}

\* The account that is open is the one of the nearest account line.
OpenOne ==
  \A i \in {mapLine} :
    /\ haveOpen <=> Owner(i) # 0 /\ mapFile.lines[Owner(i)].value = <<"below">>
    /\ openIsOurs <=> OwnLine(i)

MapEnded ==
  /\ mapStatus \in {"reading", "OK"} => mapFile.read = "whole"
  /\ mapStatus = "OK" => mapLine = Len(mapFile.lines) + 1
  /\ mapStatus = "UNREADABLE" => mapFile.read # "whole"
  /\ mapStatus = "MALFORMED" /\ mapFile.read = "whole" =>
       mapLine \in DOMAIN mapFile.lines /\ ~Fits(mapFile.lines[mapLine])
  /\ mapStatus \notin {"reading", "OK"} => ~found /\ principals = <<>>

\* The lines before mapLine have granted what they list.
AsManyAsFit(names) ==
  SubSeq(names, 1, IF Len(names) < MaxPrincipals THEN Len(names) ELSE MaxPrincipals)
ListedTo(n) == FlattenSeq([i \in 1..n |-> Lists(i)])
Granted ==
  mapStatus \in {"reading", "OK"} =>
    /\ found <=> \E i \in 1..mapLine - 1 :
                   i \in Accounts /\ Name(mapFile.lines[i].key) = Account
    /\ \A n \in {mapLine - 1} : principals = AsManyAsFit(NotTooLong(ListedTo(n)))

MapInv ==
  /\ MapTyped /\ OpenOne /\ MapEnded /\ Granted
  /\ \A i \in 1..mapLine - 1 : FitsThere(i)

-----------------------------------------------------------------------------
(* Lists of principals.                                                    *)

\* One name, unless it is too long.
Keep(names, p) == IF p \in TooLong THEN names ELSE Append(names, p)

\* Names are left out one by one (principals_map.c:133-142).
LEMMA NotTooLongLoop ==
  ASSUME NEW R, NEW s
  PROVE  s \in Seq(R) =>
           \E kept : /\ kept \in [0..Len(s) -> Seq(R)] /\ kept[0] = <<>>
                     /\ \A n \in 1..Len(s) : kept[n] = Keep(kept[n - 1], s[n])
                     /\ NotTooLong(s) = kept[Len(s)]
<1>0. HAVE s \in Seq(R)
<1> DEFINE len == Len(s)
           V == Seq(R)
           step == [n \in 1..len |-> [names \in V |-> Keep(names, s[n])]]
           Is(kept) == kept = [n \in 0..len |->
                                 IF n = 0 THEN <<>> ELSE Keep(kept[n - 1], s[n])]
           c == CHOOSE kept : Is(kept)
<1>1. len \in Nat /\ \A n \in 1..len : s[n] \in R
  BY <1>0, LenProperties, ElementOfSeq
<1>2. \A n \in 1..len, q \in V : Keep(q, s[n]) \in V
  BY <1>1, AppendProperties DEF Keep
<1>3. NotTooLong(s) = c[len]
  BY DEF NotTooLong, Keep
<1>4. <<>> \in V
  OBVIOUS
<1> HIDE DEF len, V, c
<1>5. DOMAIN step = 1..len /\ \A n \in 1..len, q \in V : step[n][q] \in V
  BY <1>2
<1>6. PICK g : /\ g \in [0..len -> V] /\ g[0] = <<>>
               /\ \A n \in 1..len : g[n] = step[n][g[n - 1]]
  <2> HIDE DEF step, Is
  <2>1. QED
    BY <1>1, <1>4, <1>5, LoopComputes
<1>7. \A n \in 1..len : g[n] = Keep(g[n - 1], s[n])
  <2> TAKE n \in 1..len
  <2>1. g[n - 1] \in V
    BY <1>1, <1>6
  <2>2. QED
    BY <1>6, <2>1
<1> HIDE DEF step
<1>8. Is(g)
  <2>1. g = [n \in 0..len |-> g[n]]
    BY <1>6
  <2>2. \A n \in 0..len : g[n] = IF n = 0 THEN <<>> ELSE Keep(g[n - 1], s[n])
    BY <1>1, <1>6, <1>7
  <2>3. QED
    BY <2>1, <2>2
<1>9. Is(c)
  <2> HIDE DEF Is
  <2>1. QED
    BY <1>8 DEF c
<1>10. c[0] = <<>> /\ \A n \in 1..len : c[n] = Keep(c[n - 1], s[n])
  <2>1. \A n \in 0..len : c[n] = IF n = 0 THEN <<>> ELSE Keep(c[n - 1], s[n])
    BY <1>9
  <2>2. QED
    BY <1>1, <2>1
<1>11. \A n \in 0..len : c[n] = g[n]
  <2>1. c[0] = g[0] /\ \A n \in 1..len : c[n - 1] = g[n - 1] => c[n] = g[n]
    BY <1>6, <1>7, <1>10
  <2>2. QED
    BY <1>1, <2>1, LoopsAgree
<1>12. NotTooLong(s) = g[len]
  BY <1>1, <1>3, <1>11
<1>13. QED
  BY <1>6, <1>7, <1>12 DEF V, len

\* One more name is kept or left out, those before it stay
\* (principals_map.c:133-142).
LEMMA NotTooLongOfMore ==
  ASSUME NEW R, NEW s, NEW p
  PROVE  s \in Seq(R) /\ p \in R =>
           /\ NotTooLong(s) \in Seq(R)
           /\ NotTooLong(Append(s, p)) = Keep(NotTooLong(s), p)
<1>0. HAVE s \in Seq(R) /\ p \in R
<1> DEFINE len == Len(s)
           more == Append(s, p)
<1>1. /\ len \in Nat /\ more \in Seq(R) /\ Len(more) = len + 1
      /\ \A n \in 1..len : more[n] = s[n]
      /\ more[len + 1] = p
  BY <1>0, LenProperties, AppendProperties
<1> HIDE DEF len, more
<1>2. PICK c : /\ c \in [0..len -> Seq(R)] /\ c[0] = <<>>
               /\ \A n \in 1..len : c[n] = Keep(c[n - 1], s[n])
               /\ NotTooLong(s) = c[len]
  BY <1>0, NotTooLongLoop DEF len
<1>3. PICK d : /\ d[0] = <<>>
               /\ \A n \in 1..len + 1 : d[n] = Keep(d[n - 1], more[n])
               /\ NotTooLong(more) = d[len + 1]
  BY <1>1, NotTooLongLoop
<1>4. \A n \in 0..len : c[n] = d[n]
  <2>1. \A n \in 1..len : c[n - 1] = d[n - 1] => c[n] = d[n]
    BY <1>1, <1>2, <1>3
  <2>2. len \in Nat /\ c[0] = d[0]
    BY <1>1, <1>2, <1>3
  <2>3. QED
    BY <2>1, <2>2, LoopsAgree
<1>5. c[len] = d[len] /\ d[len + 1] = Keep(d[len], p)
  BY <1>1, <1>3, <1>4
<1>6. QED
  BY <1>1, <1>2, <1>3, <1>5 DEF more

\* An empty list leaves nothing out.
LEMMA NotTooLongOfNone == NotTooLong(<<>>) = <<>>
<1>1. <<>> \in Seq({}) /\ Len(<<>>) = 0
  BY EmptySeq
<1>2. PICK c : c[0] = <<>> /\ NotTooLong(<<>>) = c[Len(<<>>)]
  BY <1>1, NotTooLongLoop
<1>3. QED
  BY <1>1, <1>2

\* Storing one more is keeping one more, until no more fit
\* (principals_map.c:133-142).
LEMMA StoreKeepsWhatFits ==
  ASSUME NEW R, NEW q, NEW p
  PROVE  q \in Seq(R) /\ p \in R =>
           /\ AsManyAsFit(q) \in Seq(R)
           /\ Store(AsManyAsFit(q), p) = AsManyAsFit(Keep(q, p))
<1>0. HAVE q \in Seq(R) /\ p \in R
<1> DEFINE len == Len(q)
           more == Append(q, p)
<1>1. /\ len \in Nat /\ more \in Seq(R) /\ Len(more) = len + 1 /\ MaxPrincipals \in Nat
      /\ \A n \in 1..len : q[n] \in R /\ more[n] = q[n]
  BY <1>0, LenProperties, ElementOfSeq, AppendProperties, PrincipalsMapAssumption
<1>2. SubSeq(q, 1, len) = q /\ SubSeq(more, 1, len + 1) = more
  BY <1>0, <1>1, SubSeqFull
<1>3. CASE len < MaxPrincipals
  <2>1. AsManyAsFit(q) = q
    BY <1>2, <1>3 DEF AsManyAsFit
  <2>2. AsManyAsFit(more) = more
    <3>1. CASE len + 1 < MaxPrincipals
      BY <1>1, <1>2, <3>1 DEF AsManyAsFit
    <3>2. CASE len + 1 = MaxPrincipals
      BY <1>1, <1>2, <3>2 DEF AsManyAsFit
    <3>3. QED
      BY <1>1, <1>3, <3>1, <3>2
  <2> HIDE DEF more
  <2>3. CASE p \in TooLong
    BY <1>0, <2>1, <2>3 DEF Keep, Store
  <2>4. CASE p \notin TooLong
    BY <1>0, <1>3, <2>1, <2>2, <2>4 DEF Keep, Store, more
  <2>5. QED
    BY <2>3, <2>4
<1>4. CASE ~(len < MaxPrincipals)
  <2> DEFINE all == SubSeq(q, 1, MaxPrincipals)
  <2>1. /\ AsManyAsFit(q) = all
        /\ AsManyAsFit(more) = SubSeq(more, 1, MaxPrincipals)
    BY <1>1, <1>4 DEF AsManyAsFit
  <2>2. /\ all \in Seq(R) /\ Len(all) = MaxPrincipals
        /\ \A n \in 1..MaxPrincipals : all[n] = q[n]
    <3>1. \A n \in 1..MaxPrincipals : q[n] \in R
      BY <1>1, <1>4
    <3> HIDE DEF more, len
    <3>2. /\ all \in Seq(R) /\ Len(all) = IF 1 <= MaxPrincipals THEN MaxPrincipals - 1 + 1 ELSE 0
          /\ \A i \in 1..MaxPrincipals - 1 + 1 : all[i] = q[1 + i - 1]
      BY <1>1, <3>1, SubSeqProperties
    <3> HIDE DEF all
    <3>3. QED
      BY <1>1, <3>2
  <2>3. /\ SubSeq(more, 1, MaxPrincipals) \in Seq(R)
        /\ Len(SubSeq(more, 1, MaxPrincipals)) = MaxPrincipals
        /\ \A n \in 1..MaxPrincipals : SubSeq(more, 1, MaxPrincipals)[n] = q[n]
    <3> DEFINE other == SubSeq(more, 1, MaxPrincipals)
    <3>1. \A n \in 1..MaxPrincipals : more[n] \in R /\ more[n] = q[n]
      BY <1>1, <1>4
    <3> HIDE DEF more, len
    <3>2. /\ other \in Seq(R)
          /\ Len(other) = IF 1 <= MaxPrincipals THEN MaxPrincipals - 1 + 1 ELSE 0
          /\ \A i \in 1..MaxPrincipals - 1 + 1 : other[i] = more[1 + i - 1]
      BY <1>1, <3>1, SubSeqProperties
    <3> HIDE DEF other
    <3>3. /\ other \in Seq(R) /\ Len(other) = MaxPrincipals
          /\ \A n \in 1..MaxPrincipals : other[n] = q[n]
      BY <1>1, <3>1, <3>2
    <3>4. QED
      BY <3>3 DEF other
  <2>4. all = SubSeq(more, 1, MaxPrincipals)
    <3> HIDE DEF all
    <3>1. QED
      BY <1>1, <2>2, <2>3, SeqEqual
  <2>5. Store(all, p) = all
    <3> HIDE DEF all
    <3>1. QED
      BY <1>1, <2>2 DEF Store
  <2> HIDE DEF all, more
  <2>6. QED
    BY <2>1, <2>2, <2>4, <2>5 DEF Keep, more
<1>5. QED
  BY <1>3, <1>4

\* What fits is still a list of them (principals_map.c:133-142).
LEMMA AsManyAreStill ==
  ASSUME NEW R, NEW q
  PROVE  q \in Seq(R) => AsManyAsFit(q) \in Seq(R)
<1>0. HAVE q \in Seq(R)
<1> DEFINE top == IF Len(q) < MaxPrincipals THEN Len(q) ELSE MaxPrincipals
<1>1. top \in Int /\ \A n \in 1..top : q[n] \in R
  <2>1. Len(q) \in Nat /\ MaxPrincipals \in Nat /\ \A n \in 1..Len(q) : q[n] \in R
    BY <1>0, LenProperties, ElementOfSeq, PrincipalsMapAssumption
  <2>2. QED
    BY <2>1
<1>2. AsManyAsFit(q) = SubSeq(q, 1, top)
  BY DEF AsManyAsFit
<1> HIDE DEF top
<1>3. QED
  BY <1>1, <1>2, SubSeqProperties

\* The list of one account line is stored name by name
\* (principals_map.c:161-188).
LEMMA StoreAllLoop ==
  ASSUME NEW R, NEW s, NEW t
  PROVE  s \in Seq(R) /\ t \in Seq(R) =>
           \E kept : /\ kept[0] = t
                     /\ \A n \in 1..Len(s) : kept[n] = Store(kept[n - 1], s[n])
                     /\ StoreAll(t, s) = kept[Len(s)]
<1>0. HAVE s \in Seq(R) /\ t \in Seq(R)
<1> DEFINE len == Len(s)
           V == Seq(R)
           step == [n \in 1..len |-> [names \in V |-> Store(names, s[n])]]
           Is(kept) == kept = [n \in 0..len |->
                                 IF n = 0 THEN t ELSE Store(kept[n - 1], s[n])]
           c == CHOOSE kept : Is(kept)
<1>1. len \in Nat /\ \A n \in 1..len : s[n] \in R
  BY <1>0, LenProperties, ElementOfSeq
<1>2. \A n \in 1..len, q \in V : Store(q, s[n]) \in V
  BY <1>1, AppendProperties DEF Store
<1>3. StoreAll(t, s) = c[len]
  BY DEF StoreAll
<1>4. t \in V
  BY <1>0
<1> HIDE DEF len, V, c
<1>5. DOMAIN step = 1..len /\ \A n \in 1..len, q \in V : step[n][q] \in V
  BY <1>2
<1>6. PICK g : /\ g \in [0..len -> V] /\ g[0] = t
               /\ \A n \in 1..len : g[n] = step[n][g[n - 1]]
  <2> HIDE DEF step, Is
  <2>1. QED
    BY <1>1, <1>4, <1>5, LoopComputes
<1>7. \A n \in 1..len : g[n] = Store(g[n - 1], s[n])
  <2> TAKE n \in 1..len
  <2>1. g[n - 1] \in V
    BY <1>1, <1>6
  <2>2. QED
    BY <1>6, <2>1
<1> HIDE DEF step
<1>8. Is(g)
  <2>1. g = [n \in 0..len |-> g[n]]
    BY <1>6
  <2>2. \A n \in 0..len : g[n] = IF n = 0 THEN t ELSE Store(g[n - 1], s[n])
    BY <1>1, <1>6, <1>7
  <2>3. QED
    BY <2>1, <2>2
<1>9. Is(c)
  <2> HIDE DEF Is
  <2>1. QED
    BY <1>8 DEF c
<1>10. c[0] = t /\ \A n \in 1..len : c[n] = Store(c[n - 1], s[n])
  <2>1. \A n \in 0..len : c[n] = IF n = 0 THEN t ELSE Store(c[n - 1], s[n])
    BY <1>9
  <2>2. QED
    BY <1>1, <2>1
<1>11. QED
  BY <1>3, <1>10 DEF len

\* What the account has after a line with a list is what it would have if the
\* list had followed what came before (principals_map.c:161-188).
LEMMA StoreAllKeepsWhatFits ==
  ASSUME NEW R, NEW s, NEW t
  PROVE  s \in Seq(R) /\ t \in Seq(R) =>
           StoreAll(AsManyAsFit(NotTooLong(t)), s) = AsManyAsFit(NotTooLong(t \o s))
<1>0. HAVE s \in Seq(R) /\ t \in Seq(R)
<1> DEFINE len == Len(s)
           after(n) == t \o SubSeq(s, 1, n)
           fits(n) == AsManyAsFit(NotTooLong(after(n)))
           d == [n \in 0..len |-> fits(n)]
<1>1. len \in Nat /\ \A n \in 1..len : s[n] \in R
  BY <1>0, LenProperties, ElementOfSeq
<1>2. \A n \in 0..len : SubSeq(s, 1, n) \in Seq(R)
  <2> TAKE n \in 0..len
  <2>1. \A i \in 1..n : s[i] \in R
    BY <1>1
  <2>2. n \in Int
    BY <1>1
  <2> HIDE DEF len
  <2>3. QED
    BY <2>1, <2>2, SubSeqProperties
<1>3. \A n \in 0..len : after(n) \in Seq(R)
  <2> TAKE n \in 0..len
  <2>1. SubSeq(s, 1, n) \in Seq(R)
    BY <1>2
  <2>2. QED
    BY <1>0, <2>1, ConcatProperties
<1>4. \A n \in 1..len : after(n) = Append(after(n - 1), s[n])
  <2> TAKE n \in 1..len
  <2>1. SubSeq(s, 1, n - 1) \in Seq(R) /\ n - 1 \in 0..len /\ 1 \in 1..len /\ n \in 1..len
    BY <1>1, <1>2
  <2>2. SubSeq(s, 1, n) = SubSeq(s, 1, n - 1) \o <<s[n]>>
    BY <1>0, <2>1, SubSeqRecursiveSecond
  <2>3. <<s[n]>> \in Seq(R)
    BY <1>1
  <2>4. after(n) = after(n - 1) \o <<s[n]>>
    BY <1>0, <2>1, <2>2, <2>3, ConcatAssociative
  <2>5. after(n - 1) \in Seq(R) /\ s[n] \in R
    BY <1>1, <1>3, <2>1
  <2> HIDE DEF after
  <2>6. QED
    BY <2>4, <2>5, AppendIsConcat
<1>5. PICK c : /\ c[0] = AsManyAsFit(NotTooLong(t))
               /\ \A n \in 1..len : c[n] = Store(c[n - 1], s[n])
               /\ StoreAll(AsManyAsFit(NotTooLong(t)), s) = c[len]
  <2>1. NotTooLong(t) \in Seq(R)
    <3>1. PICK kept : /\ kept \in [0..Len(t) -> Seq(R)]
                      /\ NotTooLong(t) = kept[Len(t)]
      BY <1>0, NotTooLongLoop
    <3>2. Len(t) \in 0..Len(t)
      BY <1>0, LenProperties
    <3>3. QED
      BY <3>1, <3>2
  <2>2. AsManyAsFit(NotTooLong(t)) \in Seq(R)
    BY <2>1, AsManyAreStill
  <2>3. QED
    BY <1>0, <2>2, StoreAllLoop
<1>6. c[0] = d[0]
  <2>1. SubSeq(s, 1, 0) = <<>>
    BY SubSeqEmpty
  <2>2. after(0) = t
    BY <1>0, <2>1, ConcatEmptySeq
  <2>3. d[0] = fits(0)
    BY <1>1
  <2> HIDE DEF d
  <2>4. QED
    BY <1>5, <2>2, <2>3
<1>7. \A n \in 1..len : c[n - 1] = d[n - 1] => c[n] = d[n]
  <2> SUFFICES ASSUME NEW n \in 1..len, c[n - 1] = d[n - 1] PROVE c[n] = d[n]
    OBVIOUS
  <2>1. /\ after(n - 1) \in Seq(R) /\ s[n] \in R /\ after(n) = Append(after(n - 1), s[n])
        /\ d[n] = fits(n) /\ d[n - 1] = fits(n - 1) /\ c[n] = Store(c[n - 1], s[n])
    <3>1. n - 1 \in 0..len /\ n \in 0..len
      BY <1>1
    <3>2. after(n - 1) \in Seq(R)
      BY <1>3, <3>1
    <3> HIDE DEF after
    <3>3. QED
      BY <1>1, <1>4, <1>5, <3>1, <3>2
  <2> HIDE DEF d, after
  <2>2. /\ NotTooLong(after(n - 1)) \in Seq(R)
        /\ NotTooLong(after(n)) = Keep(NotTooLong(after(n - 1)), s[n])
    BY <2>1, NotTooLongOfMore
  <2>3. Store(fits(n - 1), s[n]) = fits(n)
    BY <2>1, <2>2, StoreKeepsWhatFits
  <2>4. QED
    BY <2>1, <2>3
<1>8. c[len] = d[len]
  <2> HIDE DEF d, len
  <2>1. \A n \in 0..len : c[n] = d[n]
    BY <1>1, <1>6, <1>7, LoopsAgree
  <2>2. QED
    BY <1>1, <2>1
<1>9. after(len) = t \o s
  BY <1>0, SubSeqFull
<1>10. d[len] = fits(len)
  BY <1>1
<1> HIDE DEF d, len, after
<1>11. QED
  BY <1>5, <1>8, <1>9, <1>10 DEF len

\* The names the file may grant at all.
NamesThere == UNION {Range(Lists(i)) : i \in DOMAIN mapFile.lines}

\* What a line lists is a list (principals_map.c:147-190, 326-331).
LEMMA ListsAreLists ==
  ASSUME MapTyped
  PROVE  \A i \in DOMAIN mapFile.lines : Lists(i) \in Seq(NamesThere)
<1> TAKE i \in DOMAIN mapFile.lines
<1> DEFINE l == mapFile.lines[i]
<1>1. Lists(i) \in Seq(Range(Lists(i)))
  <2>1. CASE l.kind = "item" /\ OwnLine(i)
    <3>1. Lists(i) = <<l.value>>
      BY <2>1 DEF Lists
    <3>2. <<l.value>> \in Seq(Range(<<l.value>>))
      BY DEF Range
    <3>3. QED
      BY <3>1, <3>2
  <2>2. CASE l.kind = "account" /\ Name(l.key) = Account /\ l.value \notin Special
    <3>1. Lists(i) = l.value
      BY <2>2 DEF Lists
    <3>2. Sequence(l.value)
      BY <2>2 DEF MapTyped, Accounts
    <3>3. QED
      BY <3>1, <3>2 DEF Sequence
  <2>3. CASE ~(l.kind = "item" /\ OwnLine(i))
             /\ ~(l.kind = "account" /\ Name(l.key) = Account /\ l.value \notin Special)
    <3>1. Lists(i) = <<>>
      BY <2>3 DEF Lists
    <3>2. QED
      BY <3>1
  <2>4. QED
    BY <2>1, <2>2, <2>3
<1>2. Range(Lists(i)) \subseteq NamesThere
  BY DEF NamesThere
<1>3. QED
  BY <1>1, <1>2, SeqMonotonic

\* What the file lists up to a line is what it lists up to the one before, and
\* what that line lists.
LEMMA ListedToMore ==
  ASSUME MapTyped, NEW n, n \in DOMAIN mapFile.lines
  PROVE  /\ ListedTo(n - 1) \in Seq(NamesThere)
         /\ ListedTo(n) = ListedTo(n - 1) \o Lists(n)
<1> DEFINE one == [i \in 1..n - 1 |-> Lists(i)]
           two == [i \in 1..n |-> Lists(i)]
           m == n - 1
<1>1. /\ n \in Nat /\ m \in Nat /\ n \in 1..n /\ m \in 0..n - 1
      /\ \A i \in 1..n : i \in DOMAIN mapFile.lines
  <2>1. Len(mapFile.lines) \in Nat /\ DOMAIN mapFile.lines = 1..Len(mapFile.lines)
    BY SequenceHasLength DEF MapTyped
  <2>2. QED
    BY <2>1
<1>2. \A i \in 1..n : Lists(i) \in Seq(NamesThere)
  BY <1>1, ListsAreLists
<1>3. /\ one \in Seq(Seq(NamesThere)) /\ Len(one) = m
      /\ two \in Seq(Seq(NamesThere)) /\ Len(two) = n
  <2>1. one \in [1..m -> Seq(NamesThere)] /\ two \in [1..n -> Seq(NamesThere)]
    BY <1>1, <1>2
  <2>2. m \in Nat /\ n \in Nat
    BY <1>1
  <2> HIDE DEF one, two, m
  <2>3. QED
    BY <2>1, <2>2, FunctionIsList
<1>4. \A i \in 1..m : one[i] = two[i]
  BY <1>1
<1>5. two[n] = Lists(n)
  BY <1>1
<1>6. ListedTo(m) = FlattenSeq(one) /\ ListedTo(n) = FlattenSeq(two)
  BY DEF ListedTo
<1> HIDE DEF one, two
<1>7. two = Append(one, Lists(n))
  <2>1. Lists(n) \in Seq(NamesThere)
    BY <1>1, <1>2
  <2>2. /\ Append(one, Lists(n)) \in Seq(Seq(NamesThere))
        /\ Len(Append(one, Lists(n))) = m + 1
        /\ \A i \in 1..m : Append(one, Lists(n))[i] = one[i]
        /\ Append(one, Lists(n))[m + 1] = Lists(n)
    BY <1>3, <2>1, AppendProperties
  <2>3. n = m + 1 /\ m \in Nat
    BY <1>1
  <2> HIDE DEF m
  <2>4. \A i \in 1..n : two[i] = Append(one, Lists(n))[i]
    <3> TAKE i \in 1..n
    <3>1. i = m + 1 \/ i \in 1..m
      BY <2>3
    <3>2. QED
      BY <1>4, <1>5, <2>2, <2>3, <3>1
  <2>5. QED
    BY <1>3, <2>2, <2>3, <2>4, SeqEqual
<1>8. FlattenSeq(one) \in Seq(NamesThere) /\ FlattenSeq(two) = FlattenSeq(one) \o Lists(n)
  <2>1. Lists(n) \in Seq(NamesThere)
    BY <1>1, <1>2
  <2> HIDE DEF m
  <2>2. QED
    BY <1>3, <1>7, <2>1, FlattenMore
<1>9. QED
  BY <1>6, <1>8

\* Before the first line, nothing.
LEMMA ListedToNone == ListedTo(0) = <<>>
<1>1. [i \in 1..0 |-> Lists(i)] = <<>>
  OBVIOUS
<1>2. Len(<<>>) = 0
  BY EmptySeq
<1>3. QED
  BY <1>1, <1>2 DEF ListedTo, FlattenSeq

\* What a line adds to what the account has is what it lists
\* (principals_map.c:326-331, 360-372).
LEMMA WhatALineAdds ==
  ASSUME MapTyped, NEW n, n \in DOMAIN mapFile.lines
  PROVE  LET fit == AsManyAsFit(NotTooLong(ListedTo(n - 1)))
             now == AsManyAsFit(NotTooLong(ListedTo(n)))
         IN  /\ now = StoreAll(fit, Lists(n))
             /\ Lists(n) = <<>> => now = fit
             /\ \A p : Lists(n) = <<p>> => now = Store(fit, p)
<1> DEFINE so == ListedTo(n - 1)
           line == Lists(n)
           fit == AsManyAsFit(NotTooLong(so))
<1>1. so \in Seq(NamesThere) /\ line \in Seq(NamesThere) /\ ListedTo(n) = so \o line
  BY ListedToMore, ListsAreLists
<1>2. fit \in Seq(NamesThere)
  <2>1. PICK kept : /\ kept \in [0..Len(so) -> Seq(NamesThere)]
                    /\ NotTooLong(so) = kept[Len(so)]
    <3> HIDE DEF so
    <3>1. QED
      BY <1>1, NotTooLongLoop
  <2>2. Len(so) \in 0..Len(so)
    BY <1>1, LenProperties
  <2>3. NotTooLong(so) \in Seq(NamesThere)
    BY <2>1, <2>2
  <2> HIDE DEF so
  <2>4. QED
    BY <2>3, AsManyAreStill
<1> HIDE DEF so, line
<1>3. AsManyAsFit(NotTooLong(ListedTo(n))) = StoreAll(fit, line)
  BY <1>1, StoreAllKeepsWhatFits
<1> HIDE DEF fit
<1>4. PICK kept : /\ kept[0] = fit
                  /\ \A i \in 1..Len(line) : kept[i] = Store(kept[i - 1], line[i])
                  /\ StoreAll(fit, line) = kept[Len(line)]
  <2>1. line \in Seq(NamesThere) /\ fit \in Seq(NamesThere)
    BY <1>1, <1>2
  <2>2. QED
    BY <2>1, StoreAllLoop
<1>5. line = <<>> => StoreAll(fit, line) = fit
  BY <1>4, EmptySeq
<1>6. ASSUME NEW p, line = <<p>>
      PROVE  StoreAll(fit, line) = Store(fit, p)
  <2>1. Len(line) = 1 /\ line[1] = p
    BY <1>6
  <2>2. kept[1] = Store(kept[1 - 1], line[1])
    BY <1>4, <2>1
  <2>3. QED
    BY <1>4, <2>1, <2>2
<1>7. QED
  BY <1>3, <1>5, <1>6 DEF so, line, fit

-----------------------------------------------------------------------------
(* The map is read line by line.                                           *)

\* The lines of the map and where one of them is.
LEMMA LinesOfMap ==
  ASSUME MapTyped
  PROVE  /\ Len(mapFile.lines) \in Nat /\ DOMAIN mapFile.lines = 1..Len(mapFile.lines)
         /\ mapLine \in 1..Len(mapFile.lines) + 1
         /\ Accounts \subseteq 1..Len(mapFile.lines)
BY SequenceHasLength DEF MapTyped, Accounts

\* An item belongs to the last account line above it (principals_map.c:304-331
\* and 360-375).
LEMMA NearestAbove ==
  ASSUME MapTyped, NEW i, i \in 1..Len(mapFile.lines) + 1
  PROVE  \/ Owner(i) = 0 /\ \A j \in Accounts : ~(j < i)
         \/ /\ Owner(i) \in Accounts /\ Owner(i) < i
            /\ \A j \in Accounts : j < i => j <= Owner(i)
<1> DEFINE above == {j \in Accounts : j < i}
           len == Len(mapFile.lines)
<1>1. CASE above = {}
  BY <1>1 DEF Owner
<1>2. CASE above # {}
  <2>1. len \in Nat /\ above \in SUBSET (0..len)
    BY LinesOfMap
  <2>2. Max(above) \in above /\ \A j \in above : j <= Max(above)
    <3> HIDE DEF above, len
    <3>1. QED
      BY <1>2, <2>1, MaxIsThere
  <2>3. Owner(i) = CHOOSE j \in above : \A k \in above : k <= j
    BY <1>2 DEF Owner
  <2>4. Owner(i) \in above /\ \A k \in above : k <= Owner(i)
    <3> HIDE DEF above
    <3>1. QED
      BY <2>2, <2>3
  <2>5. QED
    BY <2>4
<1>3. QED
  BY <1>1, <1>2

\* An account line takes over from the one before, no other does
\* (principals_map.c:360-375).
LEMMA OwnerOfNext ==
  ASSUME MapTyped, NEW i, i \in 1..Len(mapFile.lines)
  PROVE  Owner(i + 1) = IF i \in Accounts THEN i ELSE Owner(i)
<1>1. /\ Accounts \subseteq Nat \ {0} /\ i \in Nat
      /\ i \in 1..Len(mapFile.lines) + 1 /\ i + 1 \in 1..Len(mapFile.lines) + 1
  BY LinesOfMap
<1> DEFINE now == Owner(i)
           next == Owner(i + 1)
<1>2. \/ now = 0 /\ \A j \in Accounts : ~(j < i)
      \/ now \in Accounts /\ now < i /\ \A j \in Accounts : j < i => j <= now
  BY <1>1, NearestAbove
<1>3. \/ next = 0 /\ \A j \in Accounts : ~(j < i + 1)
      \/ next \in Accounts /\ next < i + 1 /\ \A j \in Accounts : j < i + 1 => j <= next
  BY <1>1, NearestAbove
<1> HIDE DEF now, next
<1>4. next = IF i \in Accounts THEN i ELSE now
  <2>0. i \in Nat /\ \A j \in Accounts : j \in Nat /\ j # 0
    BY <1>1
  <2>1. CASE i \in Accounts
    <3>1. next # 0 /\ next \in Accounts /\ next < i + 1 /\ i <= next
      <4>1. i < i + 1
        BY <2>0
      <4>2. QED
        BY <1>3, <2>1, <4>1
    <3>2. next \in Nat
      BY <2>0, <3>1
    <3>3. QED
      BY <2>0, <2>1, <3>1, <3>2
  <2>2. CASE i \notin Accounts
    <3>1. \A j \in Accounts : j < i + 1 <=> j < i
      BY <2>0, <2>2
    <3>2. CASE now = 0
      BY <1>2, <1>3, <2>0, <2>2, <3>1, <3>2
    <3>3. CASE now # 0
      <4>1. now \in Accounts /\ now < i /\ next \in Accounts /\ next < i
        BY <1>2, <1>3, <3>1, <3>3
      <4>2. now <= next /\ next <= now /\ now \in Nat /\ next \in Nat
        BY <1>2, <1>3, <2>0, <3>1, <4>1
      <4>3. QED
        BY <2>2, <4>2
    <3>4. QED
      BY <3>2, <3>3
  <2>3. QED
    BY <2>1, <2>2
<1>5. QED
  BY <1>4 DEF now, next

\* Reading changes nothing of the file (principals_map.c:275-395).
LEMMA FileStays ==
  ASSUME mapFile' = mapFile
  PROVE  /\ Accounts' = Accounts
         /\ \A i : /\ Owner(i)' = Owner(i) /\ OwnLine(i)' = OwnLine(i)
                   /\ Lists(i)' = Lists(i) /\ ListedTo(i)' = ListedTo(i)
<1>1. Accounts' = Accounts
  BY DEF Accounts
<1>2. \A i : Owner(i)' = Owner(i)
  BY <1>1 DEF Owner
<1>3. \A i : OwnLine(i)' = OwnLine(i)
  BY <1>2 DEF OwnLine, Name
<1>4. \A i : Lists(i)' = Lists(i)
  BY <1>3 DEF Lists, Name
<1>5. \A i : ListedTo(i)' = ListedTo(i)
  BY <1>4 DEF ListedTo
<1>6. QED
  BY <1>1, <1>2, <1>3, <1>4, <1>5

\* Before any file, and before the map of this attempt.
LEMMA MapInvInit == Init => MapInv
<1> SUFFICES ASSUME Init PROVE MapInv
  OBVIOUS
<1>1. /\ mapFile.lines = <<>> /\ mapLine = 1 /\ mapStatus = "unread"
      /\ haveOpen = FALSE /\ openIsOurs = FALSE /\ found = FALSE /\ principals = <<>>
  BY DEF Init, MapInit, Unreadable
<1>2. Accounts = {}
  BY <1>1 DEF Accounts
<1>3. MapTyped
  BY <1>1, <1>2 DEF MapTyped, Sequence
<1>4. \A i : Owner(i) = 0 /\ ~OwnLine(i)
  BY <1>2 DEF Owner, OwnLine
<1>5. OpenOne
  BY <1>1, <1>4 DEF OpenOne
<1>6. MapEnded /\ Granted
  BY <1>1 DEF MapEnded, Granted
<1>7. 1..mapLine - 1 = {}
  BY <1>1
<1>8. QED
  BY <1>3, <1>5, <1>6, <1>7 DEF MapInv

\* How reading a file may go.
Reads == {"fails", "too large", "whole"}

\* The file is opened (principals_map.c:244-273).
LEMMA MapInvOpen ==
  ASSUME MapInv, LoadMap
  PROVE  MapInv'
<1> PICK f \in MapFiles \cup {Plain.map} :
           OpenMap(FileAt(cfg["principals-map"], <<"map">>, f))
  BY DEF LoadMap, May
<1> DEFINE file == FileAt(cfg["principals-map"], <<"map">>, f)
           lines == file.lines
<1>1. /\ Sequence(lines) /\ file.read \in Reads
      /\ \A i \in DOMAIN lines :
           lines[i].kind = "account" /\ lines[i].value \notin Special => Sequence(lines[i].value)
  <2>1. /\ Sequence(f.lines) /\ f.read \in Reads
        /\ \A i \in DOMAIN f.lines :
             f.lines[i].kind = "account" /\ f.lines[i].value \notin Special =>
               Sequence(f.lines[i].value)
    <3>1. f \in Files
      BY DEF Files
    <3>2. Sequence(f.lines) /\ f.read \in Reads
      BY <3>1, AttemptInputsAssumption, Zenon DEF Reads
    <3>3. QED
      BY <3>2, AttemptInputsAssumption, Zenon
  <2>2. /\ Sequence(Unreadable.lines) /\ Unreadable.read \in Reads
        /\ DOMAIN Unreadable.lines = {}
    <3>1. Unreadable.read = "fails" /\ Unreadable.lines = <<>>
      BY DEF Unreadable
    <3>2. Unreadable.read \in Reads
      BY <3>1, Zenon DEF Reads
    <3>3. QED
      BY <3>1, <3>2 DEF Sequence
  <2>3. file = f \/ file = Unreadable
    BY DEF FileAt
  <2> HIDE DEF file
  <2>4. CASE file = f
    BY <2>1, <2>4
  <2>5. CASE file = Unreadable
    BY <2>2, <2>5
  <2>6. QED
    BY <2>3, <2>4, <2>5
<1>2. OpenMap(file)
  OBVIOUS
<1> HIDE DEF file
<1>3. /\ mapFile' = file /\ mapLine' = 1 /\ haveOpen' = haveOpen /\ openIsOurs' = openIsOurs
      /\ found' = FALSE /\ principals' = <<>>
      /\ mapStatus' \in {"UNREADABLE", "MALFORMED", "reading"}
      /\ mapStatus' = "reading" => file.read = "whole"
      /\ mapStatus' # "reading" => file.read # "whole"
  <2>1. mapLine = 1 /\ mapStatus = "unread"
    <3>1. mapStatus = "unread"
      BY <1>2, Zenon DEF OpenMap
    <3>2. QED
      BY <3>1 DEF MapInv, MapTyped
  <2>2. found = FALSE /\ principals = <<>>
    BY <2>1 DEF MapInv, MapEnded
  <2>3. /\ mapFile' = file
        /\ UNCHANGED <<mapLine, haveOpen, openIsOurs, found, principals>>
    BY <1>2, Zenon DEF OpenMap
  <2>4. \/ file.read # "whole" /\ mapStatus' \in {"UNREADABLE", "MALFORMED"}
        \/ file.read = "whole" /\ mapStatus' = "reading"
    BY <1>1, <1>2, Zenon DEF OpenMap, Reads
  <2>5. QED
    BY <2>1, <2>2, <2>3, <2>4
<1>4. MapTyped'
  <2>1. Len(lines) \in Nat
    BY <1>1, SequenceHasLength
  <2>2. 1 \in 1..Len(lines) + 1
    BY <2>1
  <2>3. QED
    BY <1>1, <1>3, <2>2 DEF MapTyped, Accounts
<1>5. haveOpen = FALSE /\ openIsOurs = FALSE
  <2>1. mapLine = 1
    <3>1. mapStatus = "unread"
      BY <1>2, Zenon DEF OpenMap
    <3>2. QED
      BY <3>1 DEF MapInv, MapTyped
  <2>2. Owner(1) = 0
    <3>1. MapTyped /\ 1 \in 1..Len(mapFile.lines) + 1 /\ \A j \in Accounts : ~(j < 1)
      BY <2>1, LinesOfMap DEF MapInv
    <3>2. QED
      BY <3>1, NearestAbove
  <2>3. QED
    BY <2>1, <2>2 DEF MapInv, OpenOne, OwnLine
<1>6. OpenOne'
  <2>1. {j \in Accounts : j < 1}' = {}
    <3>1. Accounts' \subseteq 1..Len(lines) /\ Len(lines) \in Nat
      BY <1>1, <1>3, SequenceHasLength DEF Accounts
    <3>2. \A j \in Accounts' : ~(j < 1)
      BY <3>1
    <3>3. QED
      BY <3>2
  <2>2. Owner(1)' = 0
    BY <2>1 DEF Owner
  <2>3. OwnLine(1)' = FALSE
    BY <2>2 DEF OwnLine
  <2>4. QED
    BY <1>3, <1>5, <2>2, <2>3 DEF OpenOne
<1>7. MapEnded'
  BY <1>3 DEF MapEnded
<1>8. Granted'
  <2>1. mapLine' - 1 = 0 /\ 1..mapLine' - 1 = {}
    BY <1>3
  <2>2. ListedTo(0)' = <<>>
    <3>1. [i \in 1..0 |-> Lists(i)'] = <<>> /\ Len(<<>>) = 0
      BY EmptySeq
    <3>2. QED
      BY <3>1 DEF ListedTo, FlattenSeq
  <2>3. AsManyAsFit(NotTooLong(<<>>)) = <<>>
    <3>1. /\ NotTooLong(<<>>) = <<>> /\ Len(<<>>) = 0 /\ MaxPrincipals \in Nat
          /\ SubSeq(<<>>, 1, 0) = <<>>
      BY NotTooLongOfNone, EmptySeq, SubSeqEmpty, PrincipalsMapAssumption
    <3>2. QED
      BY <3>1 DEF AsManyAsFit
  <2>4. QED
    BY <1>3, <2>1, <2>2, <2>3 DEF Granted
<1>9. 1..mapLine' - 1 = {}
  BY <1>3
<1>10. QED
  BY <1>4, <1>6, <1>7, <1>8, <1>9 DEF MapInv

\* A line that is not refused belongs where the lines before it say
\* (principals_map.c:293-380).
LEMMA FitsMeans ==
  ASSUME MapInv, mapLine \in DOMAIN mapFile.lines, Fits(mapFile.lines[mapLine])
  PROVE  FitsThere(mapLine)
<1> DEFINE l == mapFile.lines[mapLine]
<1>1. Fits(l)
  OBVIOUS
<1>2. haveOpen <=> Owner(mapLine) # 0 /\ mapFile.lines[Owner(mapLine)].value = <<"below">>
  BY DEF MapInv, OpenOne
<1>3. l.indent # "tab" /\ l.kind \in {"blank", "item", "account"}
  BY DEF Fits
<1>4. ASSUME l.kind = "item"
      PROVE  /\ l.value \notin NotAName
             /\ Owner(mapLine) # 0 /\ mapFile.lines[Owner(mapLine)].value = <<"below">>
  BY <1>2, <1>4 DEF Fits, ItemFits
<1>5. ASSUME l.kind = "account"
      PROVE  /\ l.indent = "none" /\ Name(l.key) \notin NotAName
             /\ \A j \in 1..mapLine - 1 :
                  j \in Accounts /\ j # mapLine => Name(mapFile.lines[j].key) # Name(l.key)
             /\ \/ l.value \in {<<"below">>, <<"null">>}
                \/ l.value \notin Special /\ NotAName \cap Range(l.value) = {}
  <2>1. AccountFits(l)
    BY <1>1, <1>5 DEF Fits
  <2>2. l.indent = "none" /\ Name(l.key) \notin NotAName
    BY <2>1 DEF AccountFits
  <2>3. ~AccountSeen(mapLine, l.key)
    BY <2>1 DEF AccountFits
  <2>4. \A j \in 1..mapLine - 1 :
          j \in Accounts /\ j # mapLine => Name(mapFile.lines[j].key) # Name(l.key)
    <3> HIDE DEF l
    <3>1. QED
      BY <2>3 DEF AccountSeen, Accounts
  <2>5. \/ l.value \in {<<"below">>, <<"null">>}
        \/ l.value \notin Special /\ NotAName \cap Range(l.value) = {}
    <3>1. l.value \notin {<<"[">>, <<"text">>}
      BY <2>1 DEF AccountFits
    <3>2. CASE l.value \in Special
      BY <3>1, <3>2, Zenon DEF Special
    <3>3. CASE l.value \notin Special
      <4>1. \A i \in DOMAIN l.value : l.value[i] \notin NotAName
        BY <2>1, <3>3 DEF AccountFits
      <4>2. QED
        BY <3>3, <4>1 DEF Range
    <3>4. QED
      BY <3>2, <3>3
  <2>6. QED
    BY <2>2, <2>4, <2>5
<1>6. QED
  BY <1>3, <1>4, <1>5 DEF FitsThere

\* A line that is refused would have no place in the file, wherever it is
\* (principals_map.c:293-380).
LEMMA RefusedMeans ==
  ASSUME MapInv, mapLine \in DOMAIN mapFile.lines, WellFormed(mapLine)
  PROVE  Fits(mapFile.lines[mapLine])
<1> DEFINE l == mapFile.lines[mapLine]
<1>1. /\ l.indent # "tab" /\ l.kind \in {"blank", "item", "account"}
      /\ l.kind = "item" =>
           /\ l.value \notin NotAName
           /\ Owner(mapLine) # 0 /\ mapFile.lines[Owner(mapLine)].value = <<"below">>
  BY DEF WellFormed
<1>2. haveOpen <=> Owner(mapLine) # 0 /\ mapFile.lines[Owner(mapLine)].value = <<"below">>
  BY DEF MapInv, OpenOne
<1>3. ASSUME l.kind = "account"
      PROVE  AccountFits(l)
  <2>1. /\ l.indent = "none" /\ Name(l.key) \notin NotAName
        /\ \A j \in Accounts \ {mapLine} : Name(mapFile.lines[j].key) # Name(l.key)
        /\ \/ l.value \in {<<"below">>, <<"null">>}
           \/ l.value \notin Special /\ NotAName \cap Range(l.value) = {}
    BY <1>3 DEF WellFormed
  <2>2. ~AccountSeen(mapLine, l.key)
    <3>1. SUFFICES ASSUME NEW j \in 1..mapLine - 1, mapFile.lines[j].kind = "account",
                          Name(mapFile.lines[j].key) = Name(l.key)
                   PROVE  FALSE
      BY DEF AccountSeen
    <3>2. j \in DOMAIN mapFile.lines /\ j # mapLine
      BY LinesOfMap DEF MapInv
    <3>3. j \in Accounts \ {mapLine}
      BY <3>1, <3>2 DEF Accounts
    <3>4. QED
      BY <2>1, <3>1, <3>3
  <2>3. l.value \notin {<<"[">>, <<"text">>}
    <3>1. <<"[">> \in Special /\ <<"text">> \in Special
      BY Zenon DEF Special
    <3>2. <<"[">> # <<"below">> /\ <<"[">> # <<"null">>
          /\ <<"text">> # <<"below">> /\ <<"text">> # <<"null">>
      OBVIOUS
    <3>3. QED
      BY <2>1, <3>1, <3>2
  <2>4. l.value \notin Special => \A i \in DOMAIN l.value : l.value[i] \notin NotAName
    <3>1. SUFFICES ASSUME l.value \notin Special, NEW i \in DOMAIN l.value
                   PROVE  l.value[i] \notin NotAName
      OBVIOUS
    <3>2. l.value \notin {<<"below">>, <<"null">>}
      BY <3>1, Zenon DEF Special
    <3>3. NotAName \cap Range(l.value) = {} /\ l.value[i] \in Range(l.value)
      BY <2>1, <3>1, <3>2 DEF Range
    <3>4. QED
      BY <3>3
  <2>5. QED
    BY <2>1, <2>2, <2>3, <2>4 DEF AccountFits
<1>4. QED
  BY <1>1, <1>2, <1>3 DEF Fits, ItemFits

\* A line that is not refused has been read, whatever it is: the account that is
\* open, and what the account has (principals_map.c:300-380).
LEMMA MapInvLine ==
  ASSUME MapInv, mapStatus = "reading", mapLine \in DOMAIN mapFile.lines,
         Fits(mapFile.lines[mapLine]), NextLine,
         haveOpen' = IF mapLine \in Accounts THEN Opens(mapFile.lines[mapLine].value)
                                             ELSE haveOpen,
         openIsOurs' = IF mapLine \in Accounts THEN Ours(mapFile.lines[mapLine])
                                               ELSE openIsOurs,
         found' <=> found \/ (mapLine \in Accounts /\ Ours(mapFile.lines[mapLine])),
         \A n \in {mapLine} : principals' = AsManyAsFit(NotTooLong(ListedTo(n)))
  PROVE  MapInv'
<1> DEFINE p == mapLine
<1>1. /\ mapFile' = mapFile /\ mapLine' = p + 1 /\ mapStatus' = "reading"
      /\ mapStatus = "reading"
  BY DEF NextLine
<1>2. /\ Len(mapFile.lines) \in Nat /\ DOMAIN mapFile.lines = 1..Len(mapFile.lines)
      /\ p \in 1..Len(mapFile.lines) /\ p + 1 \in 1..Len(mapFile.lines) + 1
      /\ p \in Nat /\ (p + 1) - 1 = p
      /\ Accounts \subseteq 1..Len(mapFile.lines)
  BY LinesOfMap DEF MapInv
<1>3. Accounts' = Accounts /\ \A i : Owner(i)' = Owner(i) /\ OwnLine(i)' = OwnLine(i)
                                     /\ ListedTo(i)' = ListedTo(i)
  BY <1>1, FileStays
<1>4. MapTyped'
  <2>1. /\ Sequence(mapFile.lines)
        /\ \A i \in Accounts :
             mapFile.lines[i].value \notin Special => Sequence(mapFile.lines[i].value)
    BY DEF MapInv, MapTyped
  <2>2. QED
    BY <1>1, <1>2, <1>3, <2>1 DEF MapTyped
<1>5. OpenOne'
  <2>1. Owner(p + 1) = IF p \in Accounts THEN p ELSE Owner(p)
    BY <1>2, OwnerOfNext DEF MapInv
  <2>2. /\ haveOpen <=> Owner(p) # 0 /\ mapFile.lines[Owner(p)].value = <<"below">>
        /\ openIsOurs <=> OwnLine(p)
    BY DEF MapInv, OpenOne
  <2>3. /\ haveOpen' <=> Owner(p + 1) # 0 /\ mapFile.lines[Owner(p + 1)].value = <<"below">>
        /\ openIsOurs' <=> OwnLine(p + 1)
    <3>1. CASE p \in Accounts
      <4>1. Owner(p + 1) = p /\ p # 0
        BY <1>2, <2>1, <3>1
      <4>2. /\ haveOpen' <=> mapFile.lines[p].value = <<"below">>
            /\ openIsOurs' <=> Name(mapFile.lines[p].key) = Account
        BY <3>1 DEF Opens, Ours
      <4>3. QED
        BY <4>1, <4>2 DEF OwnLine
    <3>2. CASE p \notin Accounts
      BY <2>1, <2>2, <3>2 DEF OwnLine
    <3>3. QED
      BY <3>1, <3>2
  <2> SUFFICES ASSUME NEW i, i = p + 1
               PROVE  /\ haveOpen' <=> Owner(i)' # 0
                                       /\ mapFile'.lines[Owner(i)'].value = <<"below">>
                      /\ openIsOurs' <=> OwnLine(i)'
    BY <1>1 DEF OpenOne
  <2>4. Owner(i)' = Owner(p + 1) /\ OwnLine(i)' = OwnLine(p + 1)
    BY <1>3
  <2>5. QED
    BY <1>1, <2>3, <2>4
<1>6. MapEnded'
  BY <1>1 DEF MapInv, MapEnded
<1>7. Granted'
  <2>1. found' <=> \E i \in 1..p : i \in Accounts /\ Name(mapFile.lines[i].key) = Account
    <3>1. found <=> \E i \in 1..p - 1 :
                      i \in Accounts /\ Name(mapFile.lines[i].key) = Account
      BY <1>1 DEF MapInv, Granted
    <3>2. \A i \in 1..p : i = p \/ i \in 1..p - 1
      BY <1>2
    <3>3. \A i \in 1..p - 1 : i \in 1..p
      BY <1>2
    <3>4. p \in 1..p
      BY <1>2
    <3>5. QED
      BY <3>1, <3>2, <3>3, <3>4 DEF Ours
  <2>2. principals' = AsManyAsFit(NotTooLong(ListedTo(p)))
    OBVIOUS
  <2>3. mapLine' - 1 = p
    BY <1>1, <1>2
  <2>4. ASSUME NEW n, n = p
        PROVE  principals' = AsManyAsFit(NotTooLong(ListedTo(n)'))
    BY <1>3, <2>2, <2>4
  <2>5. Granted' <=>
          (mapStatus' \in {"reading", "OK"} =>
             /\ found' <=> \E i \in 1..mapLine' - 1 :
                             i \in Accounts' /\ Name(mapFile'.lines[i].key) = Account
             /\ \A n \in {mapLine' - 1} :
                  principals' = AsManyAsFit(NotTooLong(ListedTo(n)')))
    BY DEF Granted, Name, AsManyAsFit, NotTooLong
  <2>6. \A n \in {mapLine' - 1} : principals' = AsManyAsFit(NotTooLong(ListedTo(n)'))
    BY <2>3, <2>4
  <2>7. found' <=> \E i \in 1..mapLine' - 1 :
                     i \in Accounts' /\ Name(mapFile'.lines[i].key) = Account
    BY <1>1, <1>3, <2>1, <2>3
  <2>8. QED
    BY <2>5, <2>6, <2>7
<1>8. \A i \in 1..mapLine' - 1 : FitsThere(i)'
  <2> SUFFICES ASSUME NEW i \in 1..p PROVE FitsThere(i)'
    BY <1>1, <1>2
  <2>1. FitsThere(i)
    <3>1. CASE i = p
      BY <3>1, FitsMeans
    <3>2. CASE i # p
      <4>1. i \in 1..p - 1
        BY <1>2, <3>2
      <4>2. QED
        BY <4>1 DEF MapInv
    <3>3. QED
      BY <3>1, <3>2
  <2>2. FitsThere(p)
    BY FitsMeans
  <2>3. ASSUME i \in Accounts, NEW j \in 1..p, j \in Accounts, j # i
        PROVE  Name(mapFile.lines[j].key) # Name(mapFile.lines[i].key)
    <3>1. \A k \in Accounts : mapFile.lines[k].kind = "account"
      BY DEF Accounts
    <3>2. CASE j \in 1..p - 1
      BY <2>1, <2>3, <3>1, <3>2 DEF FitsThere
    <3>3. CASE j \notin 1..p - 1
      <4>1. j = p /\ i \in 1..p - 1
        BY <1>2, <2>3, <3>3
      <4>2. p \in Accounts
        BY <2>3, <4>1
      <4>3. Name(mapFile.lines[i].key) # Name(mapFile.lines[p].key)
        BY <2>2, <2>3, <3>1, <4>1, <4>2 DEF FitsThere
      <4>4. QED
        BY <4>1, <4>3
    <3>4. QED
      BY <3>2, <3>3
  <2>4. mapFile.lines[i].kind = "account" => i \in Accounts
    BY <1>2 DEF Accounts
  <2> DEFINE l == mapFile.lines[i]
  <2>5. /\ l.indent # "tab"
        /\ l.kind \in {"blank", "item", "account"}
        /\ l.kind = "item" =>
             /\ l.value \notin NotAName
             /\ Owner(i) # 0 /\ mapFile.lines[Owner(i)].value = <<"below">>
        /\ l.kind = "account" =>
             /\ l.indent = "none" /\ Name(l.key) \notin NotAName
             /\ \A j \in 1..p :
                  j \in Accounts /\ j # i => Name(mapFile.lines[j].key) # Name(l.key)
             /\ \/ l.value \in {<<"below">>, <<"null">>}
                \/ l.value \notin Special /\ NotAName \cap Range(l.value) = {}
    BY <2>1, <2>3, <2>4 DEF FitsThere
  <2>6. mapLine' - 1 = p /\ mapFile' = mapFile /\ Accounts' = Accounts /\ Owner(i)' = Owner(i)
    BY <1>1, <1>2, <1>3
  <2>7. QED
    BY <2>5, <2>6 DEF FitsThere, Name
<1>9. QED
  BY <1>4, <1>5, <1>6, <1>7, <1>8 DEF MapInv

\* What was granted stays so between the lines (principals_map.c:275-395).
LEMMA StillGranted ==
  ASSUME Granted, mapFile' = mapFile, mapLine' = mapLine, found' = found,
         principals' = principals,
         mapStatus' \in {"reading", "OK"} => mapStatus \in {"reading", "OK"}
  PROVE  Granted'
<1> SUFFICES ASSUME mapStatus' \in {"reading", "OK"} PROVE Granted'
  BY DEF Granted
<1>1. Accounts' = Accounts /\ \A i : ListedTo(i)' = ListedTo(i)
  BY FileStays
<1>2. /\ found <=> \E i \in 1..mapLine - 1 :
                     i \in Accounts /\ Name(mapFile.lines[i].key) = Account
      /\ \A n \in {mapLine - 1} : principals = AsManyAsFit(NotTooLong(ListedTo(n)))
  BY DEF Granted
<1>3. Granted' <=>
        (mapStatus' \in {"reading", "OK"} =>
           /\ found' <=> \E i \in 1..mapLine' - 1 :
                           i \in Accounts' /\ Name(mapFile'.lines[i].key) = Account
           /\ \A n \in {mapLine' - 1} :
                principals' = AsManyAsFit(NotTooLong(ListedTo(n)')))
  BY DEF Granted, Name, AsManyAsFit, NotTooLong
<1>4. \A n \in {mapLine - 1} : principals' = AsManyAsFit(NotTooLong(ListedTo(n)'))
  BY <1>1, <1>2
<1>5. QED
  BY <1>1, <1>2, <1>3, <1>4

\* A line is read, the first that is refused or the end of the file
\* (principals_map.c:275-395).
LEMMA MapInvNext ==
  ASSUME MapInv, MapNext
  PROVE  MapInv'
<1> DEFINE p == mapLine
           l == mapFile.lines[p]
           had == AsManyAsFit(NotTooLong(ListedTo(p - 1)))
           now == AsManyAsFit(NotTooLong(ListedTo(p)))
<1>0. MapTyped
  BY DEF MapInv
<1>1. ASSUME mapStatus = "reading", p \in DOMAIN mapFile.lines
      PROVE  /\ principals = had
             /\ now = StoreAll(had, Lists(p))
             /\ Lists(p) = <<>> => now = had
             /\ \A q : Lists(p) = <<q>> => now = Store(had, q)
             /\ openIsOurs <=> OwnLine(p)
             /\ p \in Accounts <=> l.kind = "account"
  <2>1. principals = had
    BY <1>1 DEF MapInv, Granted
  <2>2. openIsOurs <=> OwnLine(p)
    BY DEF MapInv, OpenOne
  <2>3. p \in Accounts <=> l.kind = "account"
    BY <1>1 DEF Accounts
  <2>4. /\ now = StoreAll(had, Lists(p))
        /\ Lists(p) = <<>> => now = had
        /\ \A q : Lists(p) = <<q>> => now = Store(had, q)
    BY <1>0, <1>1, WhatALineAdds
  <2> HIDE DEF had, now, l
  <2>5. QED
    BY <2>1, <2>2, <2>3, <2>4
<1>2. ASSUME p \in DOMAIN mapFile.lines, BlankLine(l)
      PROVE  MapInv'
  <2>1. mapStatus = "reading" /\ l.kind = "blank" /\ Fits(l) /\ NextLine
    BY <1>2 DEF BlankLine, MapLine
  <2>2. /\ haveOpen' = haveOpen /\ openIsOurs' = openIsOurs /\ found' = found
        /\ principals' = principals
    BY <1>2 DEF BlankLine
  <2>3. p \notin Accounts
    BY <2>1 DEF Accounts
  <2>4. Lists(p) = <<>>
    BY <2>1 DEF Lists
  <2>5. principals' = now
    <3> HIDE DEF had, now, l
    <3>1. QED
      BY <1>1, <1>2, <2>1, <2>2, <2>4
  <2> HIDE DEF had, l
  <2>6. Fits(mapFile.lines[mapLine])
    BY <2>1 DEF l
  <2>7. \A n \in {mapLine} : principals' = AsManyAsFit(NotTooLong(ListedTo(n)))
    BY <2>5
  <2>8. QED
    BY <1>2, <2>1, <2>2, <2>3, <2>6, <2>7, MapInvLine
<1>3. ASSUME p \in DOMAIN mapFile.lines, ItemLine(l)
      PROVE  MapInv'
  <2>1. mapStatus = "reading" /\ l.kind = "item" /\ Fits(l) /\ NextLine
    BY <1>3 DEF ItemLine, MapLine
  <2>2. /\ haveOpen' = haveOpen /\ openIsOurs' = openIsOurs /\ found' = found
        /\ principals' = IF openIsOurs THEN Store(principals, l.value) ELSE principals
    BY <1>3 DEF ItemLine
  <2>3. p \notin Accounts
    BY <2>1 DEF Accounts
  <2>4. Lists(p) = IF OwnLine(p) THEN <<l.value>> ELSE <<>>
    BY <2>1 DEF Lists
  <2>5. principals' = now
    <3> HIDE DEF had, now, l
    <3>1. CASE OwnLine(p)
      BY <1>1, <1>3, <2>1, <2>2, <2>4, <3>1
    <3>2. CASE ~OwnLine(p)
      BY <1>1, <1>3, <2>1, <2>2, <2>4, <3>2
    <3>3. QED
      BY <3>1, <3>2
  <2> HIDE DEF had, l
  <2>6. Fits(mapFile.lines[mapLine])
    BY <2>1 DEF l
  <2>7. \A n \in {mapLine} : principals' = AsManyAsFit(NotTooLong(ListedTo(n)))
    BY <2>5
  <2>8. QED
    BY <1>3, <2>1, <2>2, <2>3, <2>6, <2>7, MapInvLine
<1>4. ASSUME p \in DOMAIN mapFile.lines, AccountLine(l)
      PROVE  MapInv'
  <2>1. mapStatus = "reading" /\ l.kind = "account" /\ Fits(l) /\ NextLine
    BY <1>4 DEF AccountLine, MapLine
  <2>2. /\ haveOpen' = Opens(l.value) /\ openIsOurs' = Ours(l) /\ found' = (found \/ Ours(l))
        /\ principals' = IF Ours(l) /\ l.value \notin Special
                           THEN StoreAll(principals, l.value) ELSE principals
    BY <1>4 DEF AccountLine
  <2>3. p \in Accounts
    BY <1>4, <2>1 DEF Accounts
  <2>4. Lists(p) = IF Ours(l) /\ l.value \notin Special THEN l.value ELSE <<>>
    BY <2>1 DEF Lists, Ours
  <2>5. principals' = now
    <3> HIDE DEF had, now, l
    <3>1. CASE Ours(l) /\ l.value \notin Special
      BY <1>1, <1>4, <2>1, <2>2, <2>4, <3>1
    <3>2. CASE ~(Ours(l) /\ l.value \notin Special)
      BY <1>1, <1>4, <2>1, <2>2, <2>4, <3>2
    <3>3. QED
      BY <3>1, <3>2
  <2> HIDE DEF had
  <2>6. /\ Fits(mapFile.lines[mapLine])
        /\ haveOpen' = Opens(mapFile.lines[mapLine].value)
        /\ openIsOurs' = Ours(mapFile.lines[mapLine])
        /\ found' = (found \/ Ours(mapFile.lines[mapLine]))
    BY <2>1, <2>2
  <2>7. \A n \in {mapLine} : principals' = AsManyAsFit(NotTooLong(ListedTo(n)))
    BY <2>5
  <2> HIDE DEF l
  <2>8. QED
    BY <1>4, <2>1, <2>3, <2>6, <2>7, MapInvLine
<1>5. ASSUME p \in DOMAIN mapFile.lines, MapFails(l)
      PROVE  MapInv'
  <2>1. /\ mapStatus = "reading" /\ ~Fits(l)
        /\ mapStatus' = "MALFORMED" /\ found' = FALSE /\ principals' = <<>>
        /\ UNCHANGED <<mapFile, mapLine, haveOpen, openIsOurs>>
    BY <1>5 DEF MapFails, MapLine, GiveUp
  <2>2. MapTyped'
    BY <2>1 DEF MapInv, MapTyped, Accounts
  <2>3. Accounts' = Accounts /\ \A i : Owner(i)' = Owner(i) /\ OwnLine(i)' = OwnLine(i)
    BY <2>1, FileStays
  <2>4. OpenOne'
    BY <2>1, <2>3 DEF MapInv, OpenOne
  <2>5. MapEnded'
    <3>1. (~Fits(mapFile.lines[mapLine]))'
      BY <2>1 DEF Fits, ItemFits, AccountFits, AccountSeen, Name
    <3>2. mapFile'.read = "whole"
      BY <2>1 DEF MapInv, MapEnded
    <3>3. QED
      BY <1>5, <2>1, <3>1, <3>2 DEF MapEnded
  <2>6. Granted'
    BY <2>1 DEF Granted
  <2>7. \A i \in 1..mapLine' - 1 : FitsThere(i)'
    BY <2>1, <2>3 DEF MapInv, FitsThere, Name
  <2>8. QED
    BY <2>2, <2>4, <2>5, <2>6, <2>7 DEF MapInv
<1>6. ASSUME MapRead
      PROVE  MapInv'
  <2>1. /\ mapStatus = "reading" /\ mapLine > Len(mapFile.lines) /\ mapStatus' = "OK"
        /\ UNCHANGED <<mapFile, mapLine, haveOpen, openIsOurs, found, principals>>
    BY <1>6 DEF MapRead
  <2>2. mapLine = Len(mapFile.lines) + 1
    BY <1>0, <2>1, LinesOfMap
  <2>3. Accounts' = Accounts /\ \A i : Owner(i)' = Owner(i) /\ OwnLine(i)' = OwnLine(i)
                                       /\ ListedTo(i)' = ListedTo(i)
    BY <2>1, FileStays
  <2>4. MapTyped'
    BY <2>1, <2>3 DEF MapInv, MapTyped
  <2>5. OpenOne'
    BY <2>1, <2>3 DEF MapInv, OpenOne
  <2>6. MapEnded'
    BY <2>1, <2>2 DEF MapInv, MapEnded
  <2>7. Granted'
    BY <2>1, StillGranted DEF MapInv
  <2>8. \A i \in 1..mapLine' - 1 : FitsThere(i)'
    BY <2>1, <2>3 DEF MapInv, FitsThere, Name
  <2>9. QED
    BY <2>4, <2>5, <2>6, <2>7, <2>8 DEF MapInv
<1>7. QED
  BY <1>2, <1>3, <1>4, <1>5, <1>6 DEF MapNext, ReadMapLine

\* A map that was read granted what it lists and one that was refused nothing.
LEMMA BrokenFromInv == MapInv => BrokenMapGrantsNothing
<1> SUFFICES ASSUME MapInv, mapStatus \in {"OK", "MALFORMED", "UNREADABLE"}
             PROVE  /\ mapStatus = "OK" <=>
                         mapFile.read = "whole" /\ \A i \in DOMAIN mapFile.lines : WellFormed(i)
                    /\ mapStatus # "OK" => ~found /\ principals = <<>>
  BY DEF BrokenMapGrantsNothing
<1>1. /\ Len(mapFile.lines) \in Nat /\ DOMAIN mapFile.lines = 1..Len(mapFile.lines)
      /\ Accounts \subseteq 1..Len(mapFile.lines)
  BY LinesOfMap DEF MapInv
<1>2. ASSUME mapStatus = "OK"
      PROVE  mapFile.read = "whole" /\ \A i \in DOMAIN mapFile.lines : WellFormed(i)
  <2>1. mapFile.read = "whole" /\ mapLine = Len(mapFile.lines) + 1
    BY <1>2 DEF MapInv, MapEnded
  <2>2. mapLine - 1 = Len(mapFile.lines)
    BY <1>1, <2>1
  <2>3. ASSUME NEW i \in DOMAIN mapFile.lines
        PROVE  WellFormed(i)
    <3>1. FitsThere(i)
      BY <1>1, <2>2 DEF MapInv
    <3>2. \A j \in Accounts \ {i} : j \in 1..mapLine - 1 /\ j \in Accounts /\ j # i
      BY <1>1, <2>2
    <3>3. QED
      BY <3>1, <3>2 DEF FitsThere, WellFormed
  <2>4. QED
    BY <2>1, <2>3
<1>3. ASSUME mapStatus # "OK", mapFile.read = "whole",
             \A i \in DOMAIN mapFile.lines : WellFormed(i)
      PROVE  FALSE
  <2>1. mapLine \in DOMAIN mapFile.lines /\ ~Fits(mapFile.lines[mapLine])
    BY <1>3 DEF MapInv, MapEnded
  <2>2. QED
    BY <1>3, <2>1, RefusedMeans
<1>4. mapStatus # "OK" => ~found /\ principals = <<>>
  BY DEF MapInv, MapEnded
<1>5. QED
  BY <1>2, <1>3, <1>4

\* The same, of what it granted.
LEMMA MeansFromInv == MapInv => MapMeansItsFile
<1> SUFFICES ASSUME MapInv, mapStatus = "OK" PROVE MapMeansItsFile
  BY DEF MapMeansItsFile
<1> DEFINE len == Len(mapFile.lines)
<1>1. len \in Nat /\ DOMAIN mapFile.lines = 1..len /\ Accounts \subseteq 1..len
  BY LinesOfMap DEF MapInv
<1>2. mapLine - 1 = len
  BY <1>1 DEF MapInv, MapEnded
<1>3. found <=> \E i \in Accounts : Name(mapFile.lines[i].key) = Account
  <2>1. found <=> \E i \in 1..len : i \in Accounts /\ Name(mapFile.lines[i].key) = Account
    BY <1>2 DEF MapInv, Granted
  <2>2. QED
    BY <1>1, <2>1
<1>4. principals = AsManyAsFit(NotTooLong(ListedTo(len)))
  BY <1>2 DEF MapInv, Granted
<1>5. NotTooLong(ListedTo(len)) = Listed
  BY <1>1 DEF ListedTo, Listed
<1>6. principals = AsManyAsFit(Listed)
  BY <1>4, <1>5
<1>7. QED
  BY <1>3, <1>6 DEF MapMeansItsFile, AsManyAsFit

\* Nothing else of an attempt touches what the map left.
LEMMA MapInvKept == Spec => []MapInv
<1>1. Init => MapInv
  BY MapInvInit
<1>2. MapInv /\ [Next]_vars => MapInv'
  <2> SUFFICES ASSUME MapInv, [Next]_vars PROVE MapInv'
    OBVIOUS
  <2>1. CASE LoadMap
    BY <2>1, MapInvOpen
  <2>2. CASE LoadingMap
    BY <2>2, MapInvNext DEF LoadingMap
  <2>3. CASE UNCHANGED mapVars
    <3>1. /\ mapFile' = mapFile /\ mapLine' = mapLine /\ haveOpen' = haveOpen
          /\ openIsOurs' = openIsOurs /\ found' = found /\ principals' = principals
          /\ mapStatus' = mapStatus
      BY <2>3 DEF mapVars
    <3>2. Accounts' = Accounts /\ \A i : Owner(i)' = Owner(i) /\ OwnLine(i)' = OwnLine(i)
                                         /\ ListedTo(i)' = ListedTo(i)
      BY <3>1, FileStays
    <3>3. MapTyped' /\ OpenOne'
      BY <3>1, <3>2 DEF MapInv, MapTyped, OpenOne
    <3>4. MapEnded'
      BY <3>1 DEF MapInv, MapEnded, Fits, ItemFits, AccountFits, AccountSeen, Name
    <3>5. Granted'
      BY <3>1, StillGranted DEF MapInv
    <3>6. \A i \in 1..mapLine' - 1 : FitsThere(i)'
      BY <3>1, <3>2 DEF MapInv, FitsThere, Name
    <3>7. QED
      BY <3>3, <3>4, <3>5, <3>6 DEF MapInv
  <2>4. QED
    BY <2>1, <2>2, <2>3 DEF Next, vars, Arguing, LoadCas, LoadingCas, BuildingBody, ReadingReply,
       ShowingLinks, ReadingEnvelope, ParseCert, ParsingCert, Verifying
<1>3. QED
  BY <1>1, <1>2, PTL DEF Spec

\* BrokenMapGrantsNothing, for every map, every spelling of a name and every
\* limit: one wrong line anywhere and the file grants nothing
\* (principals_map.c:16-21, 389-394).
THEOREM BrokenMapNeverGrants == Spec => []BrokenMapGrantsNothing
BY MapInvKept, BrokenFromInv, PTL

\* MapMeansItsFile, for the same: the account is granted what the file lists
\* for it, in the file's order, and nothing it lists for another
\* (principals_map.c:133-190, 311-380).
THEOREM GrantsWhatIsListed == Spec => []MapMeansItsFile
BY MapInvKept, MeansFromInv, PTL


-----------------------------------------------------------------------------
(* The certificate: the parser of sshcert.c and sshwire.c stays inside     *)
(* what the server sent, whatever that is and whatever the limits are.     *)

Slice == [from : Nat, to : Nat]

\* What the cursor of an ssh_rd may be, and a borrowed slice.
ReaderOK(r) ==
  /\ r \in [at : Nat, end : Nat, bad : BOOLEAN]
  /\ r.at <= r.end /\ r.end <= Len(blob)
SliceOK(s) == s \in Slice /\ s.from <= s.to /\ s.to <= Len(blob)

CertRecord ==
  [algo : Seq(Nat), keyBlob : Seq(Nat), serial : Nat \X Nat, class : Nat,
   keyId : Slice, principals : Seq(Slice), after : Nat \X Nat, before : Nat \X Nat,
   signatureKey : Slice, signedLen : Nat, signatureAlgo : Seq(Nat), signature : Slice]

ReadersInv == blob \in Seq(Nat) /\ ReaderOK(rd) /\ ReaderOK(inner)

SlicesInv ==
  /\ cert \in CertRecord
  /\ SliceOK(cert.keyId) /\ SliceOK(cert.signatureKey) /\ SliceOK(cert.signature)
  /\ \A i \in DOMAIN cert.principals : SliceOK(cert.principals[i])
  /\ cert.signedLen <= Len(blob)

\* The number of key fields is known by the time they are skipped.
AlgoInv ==
  certStatus = "reading" /\ field \in {"nonce", "key"} =>
    IsCertName(cert.algo) /\ KeyFields(cert.algo) # 0

\* Before anything is read there is nothing to slice.
UnreadInv == certStatus = "unread" => inner = Reader(None) /\ cert = Blank /\ field = "algo"

CertInv == ReadersInv /\ SlicesInv /\ AlgoInv /\ UnreadInv

-----------------------------------------------------------------------------
\* A part of a sequence of cells is one (ssh_rd_cstr's memcpy, sshwire.c:79).
LEMMA PartOfCells ==
  ASSUME NEW s \in Seq(Nat), NEW m \in Nat \ {0}, NEW n \in Nat, n <= Len(s)
  PROVE  SubSeq(s, m, n) \in Seq(Nat)
<1>1. \A i \in m..n : s[i] \in Nat
  BY ElementOfSeq, LenProperties
<1>2. QED
  BY <1>1, SubSeqProperties

\* A number is read only where there is one (sshwire.c:31-43).
LEMMA NumberRead ==
  ASSUME blob \in Seq(Nat), NEW r, ReaderOK(r)
  PROVE  /\ U32(r) \in Nat
         /\ ReaderOK(After32(r))
         /\ After32(r).end = r.end
         /\ ~After32(r).bad => After32(r).at = r.at + 1
<1>1. Len(blob) \in Nat
  BY LenProperties
<1>2. CASE Have(r, 1)
  <2>1. r.at + 1 \in 1..Len(blob)
    BY <1>1, <1>2 DEF Have, ReaderOK
  <2>2. blob[r.at + 1] \in Nat
    BY <2>1, ElementOfSeq
  <2>3. r.at + 1 <= r.end
    BY <1>2 DEF Have, ReaderOK
  <2>4. QED
    BY <1>2, <2>2, <2>3 DEF U32, After32, ReaderOK
<1>3. CASE ~Have(r, 1)
  BY <1>3 DEF U32, After32, Bad, ReaderOK
<1>4. QED
  BY <1>2, <1>3

\* A string is stepped over only if it ends inside, and then it is a slice of
\* the blob (sshwire.c:53-69).
LEMMA StringRead ==
  ASSUME blob \in Seq(Nat), NEW r, ReaderOK(r)
  PROVE  /\ ReaderOK(AfterStr(r))
         /\ AfterStr(r).end = r.end
         /\ ~AfterStr(r).bad => SliceOK(Str(r))
<1> DEFINE s == After32(r)
<1>1. /\ U32(r) \in Nat
      /\ ReaderOK(s) /\ s.end = r.end
      /\ ~s.bad => s.at = r.at + 1
  BY NumberRead
<1>2. Len(blob) \in Nat
  BY LenProperties
<1> HIDE DEF s
<1>3. CASE Have(s, U32(r))
  <2>1. AfterStr(r) = [s EXCEPT !.at = @ + U32(r)]
    BY <1>3 DEF AfterStr, s
  <2>2. s.at + U32(r) <= s.end /\ ~s.bad
    BY <1>1, <1>3 DEF Have, ReaderOK
  <2>3. ReaderOK(AfterStr(r)) /\ AfterStr(r).end = r.end
    <3> DEFINE at == s.at + U32(r)
    <3>1. at \in Nat /\ at <= s.end
      BY <1>1, <2>2 DEF ReaderOK
    <3>2. AfterStr(r) = [s EXCEPT !.at = at]
      BY <2>1
    <3> HIDE DEF at
    <3>3. QED
      BY <1>1, <3>1, <3>2 DEF ReaderOK
  <2>4. SliceOK(Str(r))
    BY <1>1, <1>2, <2>2 DEF SliceOK, Str, Slice, ReaderOK
  <2>5. QED
    BY <2>3, <2>4
<1>4. CASE ~Have(s, U32(r))
  <2>1. AfterStr(r) = [s EXCEPT !.bad = TRUE]
    BY <1>4 DEF AfterStr, Bad, s
  <2>2. QED
    BY <1>1, <2>1 DEF ReaderOK
<1>5. QED
  BY <1>3, <1>4

\* A name is copied out of the blob (sshwire.c:71-82).
LEMMA NameRead ==
  ASSUME blob \in Seq(Nat), NEW r, ReaderOK(r), ~AfterStr(r).bad
  PROVE  Text(Str(r)) \in Seq(Nat)
<1>1. SliceOK(Str(r))
  BY StringRead
<1>2. QED
  BY <1>1, PartOfCells DEF Text, SliceOK, Slice

\* A uint64 is two numbers (sshwire.c:45-51).
LEMMA LongNumberRead ==
  ASSUME blob \in Seq(Nat), NEW r, ReaderOK(r)
  PROVE  U64(r) \in Nat \X Nat /\ ReaderOK(AfterU64(r))
<1>1. ReaderOK(After32(r)) /\ U32(r) \in Nat
  BY NumberRead
<1>2. ReaderOK(After32(After32(r))) /\ U32(After32(r)) \in Nat
  BY <1>1, NumberRead
<1>3. QED
  BY <1>1, <1>2 DEF U64, AfterU64

\* Up to three strings are skipped the same way (sshwire.c:84-87).
LEMMA StringsRead ==
  ASSUME blob \in Seq(Nat), NEW r, ReaderOK(r), NEW n \in 1..3
  PROVE  ReaderOK(AfterStrs(r, n))
<1>1. ReaderOK(AfterStr(r))
  BY StringRead
<1>2. ReaderOK(AfterStr(AfterStr(r)))
  BY <1>1, StringRead
<1>3. ReaderOK(AfterStr(AfterStr(AfterStr(r))))
  BY <1>2, StringRead
<1>4. n = 1 \/ n = 2 \/ n = 3
  OBVIOUS
<1>5. CASE n = 1
  BY <1>1, <1>5 DEF AfterStrs
<1>6. CASE n = 2
  BY <1>2, <1>6 DEF AfterStrs
<1>7. CASE n = 3
  BY <1>3, <1>7 DEF AfterStrs
<1>8. QED
  BY <1>4, <1>5, <1>6, <1>7

\* A slice of the blob is where a nested reader starts (sshwire.c:5-11).
LEMMA NestedReader ==
  ASSUME NEW s, SliceOK(s)
  PROVE  ReaderOK(Reader(s))
BY DEF Reader, ReaderOK, SliceOK, Slice

-----------------------------------------------------------------------------
\* Before a certificate is parsed (sshcert.c:204-221).
LEMMA CertInvInit == Init => CertInv
<1> SUFFICES ASSUME Init PROVE CertInv
  OBVIOUS
<1>1. <<>> \in Seq(Nat) /\ Len(<<>>) = 0 /\ <<>> \in Seq(Slice)
  OBVIOUS
<1>2. ReadersInv
  BY <1>1 DEF Init, CertInit, ReadersInv, ReaderOK, Reader, None
<1>3. SlicesInv
  <2>1. cert = Blank /\ Len(blob) = 0
    BY <1>1 DEF Init, CertInit
  <2>2. Blank \in CertRecord
    BY <1>1 DEF Blank, CertRecord, None, Slice
  <2>3. QED
    BY <2>1, <2>2, <1>1 DEF SlicesInv, SliceOK, Blank, None, Slice
<1>4. AlgoInv /\ UnreadInv
  BY DEF Init, CertInit, AlgoInv, UnreadInv
<1>5. QED
  BY <1>2, <1>3, <1>4 DEF CertInv

\* A step that leaves the certificate alone.
LEMMA CertInvElsewhere ==
  ASSUME CertInv, UNCHANGED certVars
  PROVE  CertInv'
BY DEF CertInv, ReadersInv, SlicesInv, AlgoInv, UnreadInv, certVars,
       ReaderOK, SliceOK, IsCertName, KeyFields

\* A new line: whatever it is, the reader is at its start (sshcert.c:86-93).
LEMMA CertInvOpen ==
  ASSUME CertInv, ParseCert
  PROVE  CertInv'
<1> PICK l \in IssuedLines \cup {Plain.line} :
           OpenCert(IF certText = Plain.text THEN l ELSE NotALine)
  BY DEF ParseCert, May
<1> DEFINE line == IF certText = Plain.text THEN l ELSE NotALine
<1>0. line.blob \in Seq(Nat)
  <2>1. l.blob \in Seq(Nat)
    BY AttemptInputsAssumption
  <2>2. NotALine.blob = <<>> /\ <<>> \in Seq(Nat)
    BY DEF NotALine
  <2>3. QED
    BY <2>1, <2>2
<1>p. OpenCert(line)
  OBVIOUS
<1> HIDE DEF line
<1>1. /\ blob' = line.blob /\ blob' \in Seq(Nat)
      /\ certStatus' \in {"reading", "MALFORMED"}
      /\ certStatus = "unread" /\ UNCHANGED <<inner, field, cert>>
  BY <1>0, <1>p DEF ParseCert, OpenCert
<1>2. rd' = [at |-> 0, end |-> Len(blob'), bad |-> FALSE]
  BY <1>p DEF OpenCert, Reader, All
<1>3. Len(blob') \in Nat
  BY <1>1, LenProperties
<1>4. inner = [at |-> 0, end |-> 0, bad |-> FALSE] /\ cert = Blank /\ field = "algo"
  BY <1>1 DEF CertInv, UnreadInv, Reader, None
<1>5. ReadersInv'
  BY <1>1, <1>2, <1>3, <1>4 DEF ReadersInv, ReaderOK
<1>6. SlicesInv'
  <2>1. cert' \in CertRecord /\ cert' = Blank
    BY <1>1, <1>4 DEF CertInv, SlicesInv
  <2>2. QED
    BY <1>3, <2>1 DEF SlicesInv, SliceOK, Blank, None, Slice
<1>7. (AlgoInv /\ UnreadInv)'
  BY <1>1, <1>4 DEF CertInv, AlgoInv, UnreadInv
<1>8. QED
  BY <1>5, <1>6, <1>7 DEF CertInv

-----------------------------------------------------------------------------
\* The parser's own steps: what they have in common.
LEMMA CertInvRefuse ==
  ASSUME CertInv, NEW status \in CertStatus, Refuse(status)
  PROVE  CertInv'
BY DEF CertInv, Refuse, CertStatus, ReadersInv, SlicesInv, AlgoInv, UnreadInv,
       ReaderOK, SliceOK

\* A field was read: the readers are where they may be, and so is what was
\* taken.
LEMMA CertInvRead ==
  ASSUME CertInv, certStatus = "reading", blob' = blob,
         certStatus' \in {"reading", "OK"},
         ReaderOK(rd'), ReaderOK(inner'),
         cert' \in CertRecord,
         SliceOK(cert'.keyId), SliceOK(cert'.signatureKey), SliceOK(cert'.signature),
         \A i \in DOMAIN cert'.principals : SliceOK(cert'.principals[i]),
         cert'.signedLen <= Len(blob),
         AlgoInv'
  PROVE  CertInv'
<1>1. ReadersInv' /\ SlicesInv'
  BY DEF CertInv, ReadersInv, SlicesInv, ReaderOK, SliceOK
<1>2. UnreadInv'
  BY DEF CertInv, UnreadInv
<1>3. QED
  BY <1>1, <1>2 DEF CertInv

\* The same for a field that is passed over.
LEMMA CertInvPassed ==
  ASSUME CertInv, certStatus = "reading", UNCHANGED <<blob, cert, certStatus>>,
         ReaderOK(rd'), ReaderOK(inner'),
         field' \in {"nonce", "key"} => field \in {"nonce", "key"}
  PROVE  CertInv'
<1>1. AlgoInv'
  BY DEF CertInv, AlgoInv, IsCertName, KeyFields
<1>2. QED
  BY <1>1, CertInvRead DEF CertInv, SlicesInv

\* Every return and every field of ssoossh_cert_parse keeps the readers
\* inside the blob (sshcert.c:75-202).
LEMMA CertInvNext ==
  ASSUME CertInv, ParsingCert
  PROVE  CertInv'
<1>1. /\ blob \in Seq(Nat) /\ Len(blob) \in Nat
      /\ ReaderOK(rd) /\ ReaderOK(inner) /\ cert \in CertRecord
  BY LenProperties DEF CertInv, ReadersInv, SlicesInv
<1>2. /\ SliceOK(cert.keyId) /\ SliceOK(cert.signatureKey) /\ SliceOK(cert.signature)
      /\ \A i \in DOMAIN cert.principals : SliceOK(cert.principals[i])
      /\ cert.signedLen <= Len(blob)
  BY DEF CertInv, SlicesInv
<1>3. ReaderOK(AfterStr(rd)) /\ (~AfterStr(rd).bad => SliceOK(Str(rd)))
  BY <1>1, StringRead
<1>4. \A s : SliceOK(s) => s \in Slice
  BY DEF SliceOK
<1>r. ASSUME NEW status \in CertStatus, Refuse(status)
      PROVE  CertInv'
  BY <1>r, <1>1, CertInvRefuse
<1>s. {"MALFORMED", "UNSUPPORTED", "NOT_USER"} \subseteq CertStatus
  BY DEF CertStatus
<1>5. CASE ReadAlgo
  <2> DEFINE name == Text(Str(rd))
  <2>1. CASE IsCstr(rd) /\ IsCertName(name) /\ KeyFields(name) # 0
    <3>1. /\ cert' = [cert EXCEPT !.algo = name] /\ rd' = AfterStr(rd)
          /\ GoTo("nonce") /\ inner' = inner /\ certStatus = "reading"
      BY <1>5, <2>1 DEF ReadAlgo, At
    <3>2. name \in Seq(Nat)
      BY <1>1, <2>1, NameRead DEF IsCstr
    <3> HIDE DEF name
    <3>3. /\ cert' \in CertRecord /\ cert'.algo = name
          /\ cert'.keyId = cert.keyId /\ cert'.signatureKey = cert.signatureKey
          /\ cert'.signature = cert.signature /\ cert'.principals = cert.principals
          /\ cert'.signedLen = cert.signedLen
      BY <1>1, <3>1, <3>2 DEF CertRecord
    <3>4. AlgoInv'
      BY <2>1, <3>3 DEF AlgoInv, IsCertName, KeyFields
    <3>5. QED
      BY <1>1, <1>2, <1>3, <3>1, <3>3, <3>4, CertInvRead DEF GoTo
  <2>2. CASE ~IsCstr(rd) \/ ~IsCertName(name)
    <3>1. Refuse("MALFORMED")
      BY <1>5, <2>2 DEF ReadAlgo
    <3>2. QED
      BY <3>1, <1>r, <1>s
  <2>3. CASE IsCstr(rd) /\ IsCertName(name) /\ KeyFields(name) = 0
    <3>1. Refuse("UNSUPPORTED")
      BY <1>5, <2>3 DEF ReadAlgo
    <3>2. QED
      BY <3>1, <1>r, <1>s
  <2>4. QED
    BY <2>1, <2>2, <2>3
<1>6. CASE SkipNonce
  <2>1. ReaderOK(AfterStrs(rd, 1))
    BY <1>1, StringsRead
  <2>2. CASE AfterStrs(rd, 1).bad
    BY <1>6, <2>2, <1>r, <1>s DEF SkipNonce, Skip
  <2>3. CASE ~AfterStrs(rd, 1).bad
    BY <1>6, <2>1, <2>3, <1>1, CertInvPassed DEF SkipNonce, Skip, GoTo, At
  <2>4. QED
    BY <2>2, <2>3
<1>7. CASE SkipOptions
  <2>1. ReaderOK(AfterStrs(rd, 3))
    BY <1>1, StringsRead
  <2>2. CASE AfterStrs(rd, 3).bad
    BY <1>7, <2>2, <1>r, <1>s DEF SkipOptions, Skip
  <2>3. CASE ~AfterStrs(rd, 3).bad
    BY <1>7, <2>1, <2>3, <1>1, CertInvPassed DEF SkipOptions, Skip, GoTo, At
  <2>4. QED
    BY <2>2, <2>3
<1>8. CASE ReadKey
  <2> DEFINE n == KeyFields(cert.algo)
             base == CertAlgo[cert.algo].base
             after == AfterStrs(rd, n)
             key == Prefixed(base, rd.at, after.at)
  <2>1. base \in Seq(Nat) /\ n \in 1..2
    BY <1>8, CertificateAssumption DEF CertInv, AlgoInv, ReadKey, At, IsCertName, KeyFields
  <2>2. ReaderOK(after)
    BY <1>1, <2>1, StringsRead
  <2>3. key \in Seq(Nat)
    <3>1. SubSeq(blob, rd.at + 1, after.at) \in Seq(Nat)
      <4>1. rd.at + 1 \in Nat \ {0} /\ after.at \in Nat /\ after.at <= Len(blob)
        BY <1>1, <2>2 DEF ReaderOK
      <4>2. QED
        BY <4>1, <1>1, PartOfCells
    <3>2. <<Len(base)>> \in Seq(Nat)
      BY <2>1, LenProperties
    <3> HIDE DEF base, after
    <3>3. <<Len(base)>> \o base \in Seq(Nat)
      BY <2>1, <3>2, ConcatProperties
    <3>4. QED
      BY <3>1, <3>3, ConcatProperties DEF Prefixed
  <2>4. CASE after.bad \/ Len(key) > KeyCap
    <3>1. Refuse("MALFORMED")
      BY <1>8, <2>4 DEF ReadKey
    <3>2. QED
      BY <3>1, <1>r, <1>s
  <2>5. CASE ~(after.bad \/ Len(key) > KeyCap)
    <3>1. /\ cert' = [cert EXCEPT !.keyBlob = key] /\ rd' = after
          /\ GoTo("class") /\ inner' = inner /\ certStatus = "reading"
      BY <1>8, <2>5 DEF ReadKey, At
    <3> HIDE DEF key, after
    <3>3. /\ cert' \in CertRecord
          /\ cert'.keyId = cert.keyId /\ cert'.signatureKey = cert.signatureKey
          /\ cert'.signature = cert.signature /\ cert'.principals = cert.principals
          /\ cert'.signedLen = cert.signedLen
      BY <1>1, <3>1, <2>3 DEF CertRecord
    <3>4. AlgoInv'
      BY <3>1 DEF AlgoInv, GoTo
    <3>5. QED
      BY <1>1, <1>2, <2>2, <3>1, <3>3, <3>4, CertInvRead DEF GoTo
  <2>6. QED
    BY <2>4, <2>5
<1>9. CASE ReadClass
  <2> DEFINE r == AfterU64(rd)
  <2>1. U64(rd) \in Nat \X Nat /\ ReaderOK(r)
    BY <1>1, LongNumberRead
  <2>2. U32(r) \in Nat /\ ReaderOK(After32(r))
    BY <1>1, <2>1, NumberRead
  <2>3. CASE U32(r) # User
    <3>1. Refuse("NOT_USER")
      BY <1>9, <2>3 DEF ReadClass
    <3>2. QED
      BY <3>1, <1>r, <1>s
  <2>4. CASE U32(r) = User
    <3>1. /\ cert' = [cert EXCEPT !.serial = U64(rd), !.class = U32(r)]
          /\ rd' = After32(r) /\ GoTo("key id") /\ inner' = inner
          /\ certStatus = "reading"
      BY <1>9, <2>4 DEF ReadClass, At
    <3> HIDE DEF r
    <3>3. /\ cert' \in CertRecord
          /\ cert'.keyId = cert.keyId /\ cert'.signatureKey = cert.signatureKey
          /\ cert'.signature = cert.signature /\ cert'.principals = cert.principals
          /\ cert'.signedLen = cert.signedLen
      BY <1>1, <3>1, <2>1, <2>2 DEF CertRecord
    <3>4. AlgoInv'
      BY <3>1 DEF AlgoInv, GoTo
    <3>5. QED
      BY <1>1, <1>2, <2>2, <3>1, <3>3, <3>4, CertInvRead DEF GoTo
  <2>5. QED
    BY <2>3, <2>4
<1>10. CASE ReadKeyId
  <2>1. CASE AfterStr(rd).bad
    BY <1>10, <2>1, <1>r, <1>s DEF ReadKeyId
  <2>2. CASE ~AfterStr(rd).bad
    <3>1. /\ cert' = [cert EXCEPT !.keyId = Str(rd)] /\ rd' = AfterStr(rd)
          /\ GoTo("principals") /\ inner' = inner /\ certStatus = "reading"
      BY <1>10, <2>2 DEF ReadKeyId, At
    <3>2. SliceOK(Str(rd)) /\ Str(rd) \in Slice
      BY <1>3, <1>4, <2>2
    <3>3. /\ cert' \in CertRecord
          /\ cert'.keyId = Str(rd) /\ cert'.signatureKey = cert.signatureKey
          /\ cert'.signature = cert.signature /\ cert'.principals = cert.principals
          /\ cert'.signedLen = cert.signedLen
      BY <1>1, <3>1, <3>2 DEF CertRecord
    <3>4. AlgoInv'
      BY <3>1 DEF AlgoInv, GoTo
    <3>5. QED
      BY <1>1, <1>2, <1>3, <3>1, <3>2, <3>3, <3>4, CertInvRead DEF GoTo
  <2>3. QED
    BY <2>1, <2>2
<1>11. CASE ReadPrincipals
  <2>1. CASE AfterStr(rd).bad
    BY <1>11, <2>1, <1>r, <1>s DEF ReadPrincipals
  <2>2. CASE ~AfterStr(rd).bad
    <3>1. ReaderOK(Reader(Str(rd)))
      BY <1>3, <2>2, NestedReader
    <3>2. QED
      BY <1>1, <1>3, <1>11, <2>2, <3>1, CertInvPassed DEF ReadPrincipals, At, GoTo
  <2>3. QED
    BY <2>1, <2>2
<1>12. CASE ReadName
  <2>1. CASE AfterStr(inner).bad \/ TooMany
    BY <1>12, <2>1, <1>r, <1>s DEF ReadName
  <2>2. CASE ~(AfterStr(inner).bad \/ TooMany)
    <3>1. /\ cert' = [cert EXCEPT !.principals = Append(@, Str(inner))]
          /\ inner' = AfterStr(inner)
          /\ GoTo("name") /\ rd' = rd /\ certStatus = "reading"
      BY <1>12, <2>2 DEF ReadName, At
    <3>2. SliceOK(Str(inner)) /\ Str(inner) \in Slice /\ ReaderOK(AfterStr(inner))
      BY <1>1, <1>4, <2>2, StringRead
    <3>3. cert.principals \in Seq(Slice)
      BY <1>1 DEF CertRecord
    <3> DEFINE names == Append(cert.principals, Str(inner))
    <3>4. /\ names \in Seq(Slice)
          /\ \A i \in DOMAIN names : SliceOK(names[i])
      BY <1>2, <3>2, <3>3, AppendProperties
    <3>5. cert' = [cert EXCEPT !.principals = names]
      BY <1>1, <3>1 DEF CertRecord
    <3> HIDE DEF names
    <3>6. /\ cert' \in CertRecord
          /\ cert'.keyId = cert.keyId /\ cert'.signatureKey = cert.signatureKey
          /\ cert'.signature = cert.signature /\ cert'.principals = names
          /\ cert'.signedLen = cert.signedLen
      BY <1>1, <3>5, <3>4 DEF CertRecord
    <3>7. AlgoInv'
      BY <3>1 DEF AlgoInv, GoTo
    <3>8. QED
      BY <1>1, <1>2, <3>1, <3>2, <3>4, <3>6, <3>7, CertInvRead DEF GoTo
  <2>3. QED
    BY <2>1, <2>2
<1>13. CASE NamesRead
  BY <1>1, <1>13, CertInvPassed DEF NamesRead, At, GoTo
<1>14. CASE ReadValidity
  <2>1. U64(rd) \in Nat \X Nat /\ ReaderOK(AfterU64(rd))
    BY <1>1, LongNumberRead
  <2>2. U64(AfterU64(rd)) \in Nat \X Nat /\ ReaderOK(AfterU64(AfterU64(rd)))
    BY <1>1, <2>1, LongNumberRead
  <2>3. /\ cert' = [cert EXCEPT !.after = U64(rd), !.before = U64(AfterU64(rd))]
        /\ rd' = AfterU64(AfterU64(rd)) /\ GoTo("options") /\ inner' = inner
        /\ certStatus = "reading"
    BY <1>14 DEF ReadValidity, At
  <2>4. /\ cert' \in CertRecord
        /\ cert'.keyId = cert.keyId /\ cert'.signatureKey = cert.signatureKey
        /\ cert'.signature = cert.signature /\ cert'.principals = cert.principals
        /\ cert'.signedLen = cert.signedLen
    BY <1>1, <2>1, <2>2, <2>3 DEF CertRecord
  <2>5. AlgoInv'
    BY <2>3 DEF AlgoInv, GoTo
  <2>6. QED
    BY <1>1, <1>2, <2>2, <2>3, <2>4, <2>5, CertInvRead DEF GoTo
<1>15. CASE ReadSignatureKey
  <2>1. CASE AfterStr(rd).bad
    BY <1>15, <2>1, <1>r, <1>s DEF ReadSignatureKey
  <2>2. CASE ~AfterStr(rd).bad
    <3>1. /\ cert' = [cert EXCEPT !.signatureKey = Str(rd), !.signedLen = AfterStr(rd).at]
          /\ rd' = AfterStr(rd) /\ GoTo("signature") /\ inner' = inner
          /\ certStatus = "reading"
      BY <1>15, <2>2 DEF ReadSignatureKey, At, SignedTo
    <3>2. /\ SliceOK(Str(rd)) /\ Str(rd) \in Slice
          /\ AfterStr(rd).at \in Nat /\ AfterStr(rd).at <= Len(blob)
      BY <1>1, <1>3, <1>4, <2>2 DEF ReaderOK
    <3>3. /\ cert' \in CertRecord
          /\ cert'.keyId = cert.keyId /\ cert'.signatureKey = Str(rd)
          /\ cert'.signature = cert.signature /\ cert'.principals = cert.principals
          /\ cert'.signedLen = AfterStr(rd).at
      BY <1>1, <3>1, <3>2 DEF CertRecord
    <3>4. AlgoInv'
      BY <3>1 DEF AlgoInv, GoTo
    <3>5. QED
      BY <1>1, <1>2, <1>3, <3>1, <3>2, <3>3, <3>4, CertInvRead DEF GoTo
  <2>3. QED
    BY <2>1, <2>2
<1>16. CASE ReadSignature
  <2>1. CASE AfterStr(rd).bad \/ ~Done(AfterStr(rd))
    BY <1>16, <2>1, <1>r, <1>s DEF ReadSignature
  <2>2. CASE ~(AfterStr(rd).bad \/ ~Done(AfterStr(rd)))
    <3>1. ReaderOK(Reader(Str(rd)))
      BY <1>3, <2>2, NestedReader
    <3>2. QED
      BY <1>1, <1>3, <1>16, <2>2, <3>1, CertInvPassed DEF ReadSignature, At, GoTo
  <2>3. QED
    BY <2>1, <2>2
<1>17. CASE ReadSignatureFields
  <2> DEFINE r == AfterStr(inner)
  <2>1. ReaderOK(r)
    BY <1>1, StringRead
  <2>2. CASE ~IsCstr(inner) \/ AfterStr(r).bad \/ ~Done(AfterStr(r))
    <3>1. Refuse("MALFORMED")
      BY <1>17, <2>2 DEF ReadSignatureFields
    <3>2. QED
      BY <3>1, <1>r, <1>s
  <2>3. CASE ~(~IsCstr(inner) \/ AfterStr(r).bad \/ ~Done(AfterStr(r)))
    <3>1. /\ cert' = [cert EXCEPT !.signatureAlgo = Text(Str(inner)), !.signature = Str(r)]
          /\ inner' = AfterStr(r) /\ certStatus' = "OK" /\ certStatus = "reading"
          /\ UNCHANGED <<blob, rd, field>>
      BY <1>17, <2>3 DEF ReadSignatureFields, At
    <3>2. Text(Str(inner)) \in Seq(Nat)
      BY <1>1, <2>3, NameRead DEF IsCstr
    <3>3. SliceOK(Str(r)) /\ Str(r) \in Slice /\ ReaderOK(AfterStr(r))
      BY <1>1, <1>4, <2>1, <2>3, StringRead
    <3> HIDE DEF r
    <3>4. /\ cert' \in CertRecord
          /\ cert'.keyId = cert.keyId /\ cert'.signatureKey = cert.signatureKey
          /\ cert'.signature = Str(r) /\ cert'.principals = cert.principals
          /\ cert'.signedLen = cert.signedLen
      BY <1>1, <3>1, <3>2, <3>3 DEF CertRecord
    <3>5. AlgoInv'
      BY <3>1 DEF AlgoInv
    <3>6. QED
      BY <1>1, <1>2, <3>1, <3>3, <3>4, <3>5, CertInvRead
  <2>4. QED
    BY <2>2, <2>3
<1>18. QED
  BY <1>5, <1>6, <1>7, <1>8, <1>9, <1>10, <1>11, <1>12, <1>13, <1>14, <1>15, <1>16,
     <1>17 DEF ParsingCert, CertNext

\* So does every step of an attempt: only the parser moves its readers.
LEMMA CertInvStep == CertInv /\ [Next]_vars => CertInv'
<1> SUFFICES ASSUME CertInv, [Next]_vars PROVE CertInv'
  OBVIOUS
<1>1. CASE UNCHANGED certVars
  BY <1>1, CertInvElsewhere
<1>2. CASE ParseCert
  BY <1>2, CertInvOpen
<1>3. CASE ParsingCert
  BY <1>3, CertInvNext
<1>4. QED
  BY <1>1, <1>2, <1>3
     DEF Next, vars, Arguing, LoadCas, LoadingCas, BuildingBody, ReadingReply,
         ShowingLinks, ReadingEnvelope, Verifying, LoadMap, LoadingMap

-----------------------------------------------------------------------------
\* Whatever a server sends, and however long the lengths in it, no reader
\* leaves what it was given and no slice reaches outside (sshwire.c:13-69,
\* sshcert.h:6-8).
THEOREM StaysInside == Spec => []ReadsInside
<1>1. CertInv => ReadsInside
  <2> SUFFICES ASSUME CertInv PROVE ReadsInside
    OBVIOUS
  <2>1. Len(blob) \in Nat
    BY LenProperties DEF CertInv, ReadersInv
  <2>2. QED
    BY <2>1 DEF CertInv, ReadersInv, SlicesInv, ReadsInside, ReaderOK, SliceOK, Slice
<1>2. QED
  BY <1>1, CertInvInit, CertInvStep, PTL DEF Spec

-----------------------------------------------------------------------------
(* What the format says of a blob: its fields end one after the other, and *)
(* once one has not ended inside none after it does.                       *)

\* Two loops that keep agreeing, and that agree throughout.
KeepAgreeing(len, c, d) ==
  /\ len \in Nat /\ c[0] = d[0]
  /\ \A k \in 1..len : c[k - 1] = d[k - 1] => c[k] = d[k]
AgreeThroughout(len, c, d) == \A k \in 0..len : c[k] = d[k]

\* The ends of the fields are what such a loop computes.
LEMMA EndsAgree ==
  ASSUME NEW len, NEW c, NEW d
  PROVE  KeepAgreeing(len, c, d) => AgreeThroughout(len, c, d)
<1> SUFFICES ASSUME KeepAgreeing(len, c, d) PROVE AgreeThroughout(len, c, d)
  OBVIOUS
<1>1. /\ len \in Nat /\ c[0] = d[0]
      /\ \A k \in 1..len : c[k - 1] = d[k - 1] => c[k] = d[k]
  BY DEF KeepAgreeing
<1>2. \A k \in 0..len : c[k] = d[k]
  BY <1>1, LoopsAgree
<1>3. QED
  BY <1>2 DEF AgreeThroughout

\* What never falls from one to the next never falls.
LEMMA Rising ==
  ASSUME NEW len \in Nat, NEW c, \A k \in 0..len : c[k] \in Int,
         \A k \in 1..len : c[k - 1] <= c[k]
  PROVE  \A i, j \in 0..len : i <= j => c[i] <= c[j]
<1> DEFINE S == {d \in Nat : \A i \in 0..len : i + d <= len => c[i] <= c[i + d]}
<1>1. 0 \in S
  OBVIOUS
<1>2. \A d \in Nat : d \in S => d + 1 \in S
  <2> SUFFICES ASSUME NEW d \in Nat, d \in S, NEW i \in 0..len, i + (d + 1) <= len
               PROVE  c[i] <= c[i + (d + 1)]
    OBVIOUS
  <2> DEFINE k == i + (d + 1)
  <2>1. k \in 1..len /\ k - 1 = i + d /\ i + d <= len /\ i + d \in 0..len /\ k \in 0..len
    OBVIOUS
  <2>2. c[i] <= c[i + d]
    BY <2>1
  <2> HIDE DEF k
  <2>3. c[k - 1] <= c[k] /\ c[i] \in Int /\ c[k] \in Int /\ c[k - 1] \in Int
    BY <2>1
  <2>4. c[i] <= c[k]
    BY <2>1, <2>2, <2>3
  <2>5. QED
    BY <2>4 DEF k
<1> HIDE DEF S
<1>3. Nat \subseteq S
  BY <1>1, <1>2, Iterations
<1>4. TAKE i, j \in 0..len
<1>5. HAVE i <= j
<1> DEFINE d == j - i
<1>6. d \in Nat /\ i + d = j /\ i + d <= len
  BY <1>5
<1> HIDE DEF d
<1>7. c[i] <= c[i + d]
  BY <1>3, <1>6 DEF S
<1>8. QED
  BY <1>6, <1>7

\* A field ends after it begins, or past the end, and there it stays
\* (sshwire.c:17-20, 53-69).
LEMMA EndOfOne ==
  ASSUME NEW b \in Seq(Nat), NEW to \in Nat, to <= Len(b), NEW p \in 0..to + 1
  PROVE  /\ StrEnd(b, p, to) \in 0..to + 1 /\ p <= StrEnd(b, p, to)
         /\ p <= to => p < StrEnd(b, p, to)
         /\ NumEnd(p, to) \in 0..to + 1 /\ p <= NumEnd(p, to)
<1>1. CASE p < to
  <2>1. p + 1 \in 1..Len(b)
    BY <1>1, LenProperties
  <2>2. b[p + 1] \in Nat
    BY <2>1, ElementOfSeq
  <2>3. QED
    BY <1>1, <2>2 DEF StrEnd, NumEnd
<1>2. CASE ~(p < to)
  BY <1>2 DEF StrEnd, NumEnd
<1>3. QED
  BY <1>1, <1>2

\* The ends of the fields of a blob, one after the other (sshcert.c:86-183).
LEMMA FormatEnds ==
  ASSUME NEW b, NEW n
  PROVE  b \in Seq(Nat) /\ n \in 1..2 =>
           LET end == Ends(b, n) IN
           /\ end[0] = 0
           /\ \A k \in 0..n + 16 : end[k] \in 0..Len(b) + 1
           /\ \A k \in 1..n + 16 :
                end[k] = IF k \in Numbers(n) THEN NumEnd(end[k - 1], Len(b))
                         ELSE StrEnd(b, end[k - 1], Len(b))
           /\ \A i, j \in 0..n + 16 : i <= j => end[i] <= end[j]
<1>0. HAVE b \in Seq(Nat) /\ n \in 1..2
<1> DEFINE to == Len(b)
           len == n + 16
           V == 0..to + 1
           Next1(k, x) == IF k \in Numbers(n) THEN NumEnd(x, to) ELSE StrEnd(b, x, to)
           step == [k \in 1..len |-> [x \in V |-> Next1(k, x)]]
           Is(f) == f = [k \in 0..len |-> IF k = 0 THEN 0
                                          ELSE IF k \in Numbers(n) THEN NumEnd(f[k - 1], to)
                                          ELSE StrEnd(b, f[k - 1], to)]
           end == CHOOSE f : Is(f)
<1>1. Ends(b, n) = end
  BY Zenon DEF Ends
<1>2. to \in Nat /\ to <= Len(b) /\ len \in Nat
  BY <1>0, LenProperties
<1> HIDE DEF to, len
<1>3. \A k \in 1..len, x \in V : Next1(k, x) \in V /\ x <= Next1(k, x)
  <2> TAKE k \in 1..len, x \in V
  <2>1. StrEnd(b, x, to) \in V /\ x <= StrEnd(b, x, to) /\ NumEnd(x, to) \in V /\ x <= NumEnd(x, to)
    BY <1>0, <1>2, EndOfOne
  <2>2. QED
    BY <2>1
<1>4. 0 \in V
  BY <1>2
<1> HIDE DEF V, Next1
<1>5. DOMAIN step = 1..len /\ \A k \in 1..len, x \in V : step[k][x] = Next1(k, x)
  OBVIOUS
<1> HIDE DEF step
<1>6. \E g : /\ g \in [0..len -> V] /\ g[0] = 0
             /\ \A k \in 1..len : g[k] = step[k][g[k - 1]]
  <2>1. \A k \in 1..len, x \in V : step[k][x] \in V
    BY <1>3, <1>5
  <2> DEFINE zero == 0
  <2>2. zero \in V
    BY <1>4
  <2>z. zero = 0
    OBVIOUS
  <2> HIDE DEF zero
  <2>3. len \in Nat /\ DOMAIN step = 1..len
    BY <1>2, <1>5
  <2>4. \E g : /\ g \in [0..len -> V] /\ g[0] = zero
               /\ \A k \in 1..len : g[k] = step[k][g[k - 1]]
    <3> HIDE DEF Is
    <3>1. QED
      BY <2>1, <2>2, <2>3, LoopComputes
  <2>5. QED
    BY <2>z, <2>4, Zenon
<1>7. PICK g : /\ g \in [0..len -> V] /\ g[0] = 0
               /\ \A k \in 1..len : g[k] = step[k][g[k - 1]]
  BY <1>6
<1>8. \A k \in 1..len : k - 1 \in 0..len /\ g[k - 1] \in V
  BY <1>2, <1>7
<1>9. \A k \in 1..len : g[k] = Next1(k, g[k - 1])
  BY <1>5, <1>7, <1>8
<1>10. Is(g)
  <2>1. \A k \in 0..len : k # 0 => k \in 1..len
    BY <1>2
  <2>2. g = [k \in 0..len |-> g[k]]
    BY <1>7
  <2>3. \A k \in 0..len : g[k] = IF k = 0 THEN 0
                                 ELSE IF k \in Numbers(n) THEN NumEnd(g[k - 1], to)
                                 ELSE StrEnd(b, g[k - 1], to)
    BY <1>7, <1>9, <2>1 DEF Next1
  <2>4. QED
    BY <2>2, <2>3
<1>11. Is(end)
  <2> HIDE DEF Is
  <2>1. QED
    BY <1>10
<1> HIDE DEF end
<1>12. /\ end[0] = 0
       /\ \A k \in 1..len : end[k] = Next1(k, end[k - 1])
  <2>1. 0 \in 0..len /\ \A k \in 1..len : k \in 0..len /\ k # 0
    BY <1>2
  <2>2. QED
    BY <1>11, <2>1 DEF Next1
<1> HIDE DEF Is
<1>13. \A k \in 0..len : end[k] = g[k]
  <2>1. \A k \in 1..len : end[k - 1] = g[k - 1] => end[k] = g[k]
    BY <1>9, <1>12
  <2>2. len \in Nat /\ end[0] = g[0]
    BY <1>2, <1>7, <1>12
  <2>3. KeepAgreeing(len, end, g)
    BY <2>1, <2>2, Zenon DEF KeepAgreeing
  <2>4. AgreeThroughout(len, end, g)
    BY <2>3, EndsAgree, Zenon
  <2>5. QED
    BY <2>4, Zenon DEF AgreeThroughout
<1>14. \A k \in 0..len : end[k] \in V
  BY <1>7, <1>13
<1>15. \A k \in 1..len : end[k - 1] <= end[k]
  BY <1>2, <1>3, <1>8, <1>12, <1>13
<1>16. \A i, j \in 0..len : i <= j => end[i] <= end[j]
  <2>1. \A k \in 0..len : end[k] \in Int
    BY <1>14 DEF V
  <2>2. QED
    BY <1>2, <1>15, <2>1, Rising
<1>17. QED
  BY <1>1, <1>12, <1>14, <1>16 DEF V, Next1, to, len

\* The ends of the names in a slice, one after the other (sshcert.c:50-73).
LEMMA NamesEnd ==
  ASSUME NEW b, NEW s
  PROVE  /\ b \in Seq(Nat) /\ s.from \in Nat /\ s.to \in Nat
         /\ s.from <= s.to /\ s.to <= Len(b)
         => LET c == NameEnds(b, s)
                len == s.to - s.from
            IN  /\ DOMAIN c = 0..len /\ c[0] = s.from
                /\ \A k \in 0..len : c[k] \in 0..s.to + 1
                /\ \A k \in 1..len : c[k] = StrEnd(b, c[k - 1], s.to)
                /\ \A i, j \in 0..len : i < j => c[i] < c[j] \/ s.to < c[j]
                /\ \A k \in 0..len : s.from + k <= c[k] \/ s.to < c[k]
<1>0. HAVE /\ b \in Seq(Nat) /\ s.from \in Nat /\ s.to \in Nat
           /\ s.from <= s.to /\ s.to <= Len(b)
<1> DEFINE to == s.to
           from == s.from
           len == to - from
           V == 0..to + 1
           step == [k \in 1..len |-> [x \in V |-> StrEnd(b, x, to)]]
           Is(f) == f = [k \in 0..len |-> IF k = 0 THEN from ELSE StrEnd(b, f[k - 1], to)]
           c == CHOOSE f : Is(f)
<1>1. NameEnds(b, s) = c
  BY Zenon DEF NameEnds
<1>2. to \in Nat /\ from \in Nat /\ to <= Len(b) /\ len \in Nat /\ from \in V /\ from + len = to
  BY <1>0
<1> HIDE DEF to, from, len
<1>3. \A x \in V : /\ StrEnd(b, x, to) \in V /\ x <= StrEnd(b, x, to)
                   /\ x <= to => x < StrEnd(b, x, to)
  BY <1>0, <1>2, EndOfOne
<1> HIDE DEF V
<1>5. DOMAIN step = 1..len /\ \A k \in 1..len, x \in V : step[k][x] = StrEnd(b, x, to)
  OBVIOUS
<1> HIDE DEF step
<1>6. \E g : /\ g \in [0..len -> V] /\ g[0] = from
             /\ \A k \in 1..len : g[k] = step[k][g[k - 1]]
  <2>1. \A k \in 1..len, x \in V : step[k][x] \in V
    BY <1>3, <1>5
  <2>2. len \in Nat /\ DOMAIN step = 1..len /\ from \in V
    BY <1>2, <1>5
  <2>3. QED
    <3> HIDE DEF Is
    <3>1. QED
      BY <2>1, <2>2, LoopComputes
<1>7. PICK g : /\ g \in [0..len -> V] /\ g[0] = from
               /\ \A k \in 1..len : g[k] = step[k][g[k - 1]]
  BY <1>6
<1>8. \A k \in 1..len : k - 1 \in 0..len /\ g[k - 1] \in V
  BY <1>2, <1>7
<1>9. \A k \in 1..len : g[k] = StrEnd(b, g[k - 1], to)
  BY <1>5, <1>7, <1>8
<1>10. Is(g)
  <2>1. \A k \in 0..len : k # 0 => k \in 1..len
    BY <1>2
  <2>2. g = [k \in 0..len |-> g[k]]
    BY <1>7
  <2>3. \A k \in 0..len : g[k] = IF k = 0 THEN from ELSE StrEnd(b, g[k - 1], to)
    BY <1>7, <1>9, <2>1
  <2>4. QED
    BY <2>2, <2>3
<1>11. Is(c)
  <2> HIDE DEF Is
  <2>1. QED
    BY <1>10
<1> HIDE DEF c
<1>12. /\ DOMAIN c = 0..len /\ c[0] = from
       /\ \A k \in 1..len : c[k] = StrEnd(b, c[k - 1], to)
  <2>1. 0 \in 0..len /\ \A k \in 1..len : k \in 0..len /\ k # 0
    BY <1>2
  <2>2. QED
    BY <1>11, <2>1
<1> HIDE DEF Is
<1>13. \A k \in 0..len : c[k] = g[k]
  <2>1. \A k \in 1..len : c[k - 1] = g[k - 1] => c[k] = g[k]
    BY <1>9, <1>12
  <2>2. len \in Nat /\ c[0] = g[0]
    BY <1>2, <1>7, <1>12
  <2>3. KeepAgreeing(len, c, g)
    BY <2>1, <2>2, Zenon DEF KeepAgreeing
  <2>4. AgreeThroughout(len, c, g)
    BY <2>3, EndsAgree, Zenon
  <2>5. QED
    BY <2>4, Zenon DEF AgreeThroughout
<1>14. \A k \in 0..len : c[k] \in V /\ c[k] \in Int
  BY <1>7, <1>13 DEF V
<1>15. \A k \in 1..len : /\ c[k - 1] <= c[k]
                         /\ c[k - 1] <= to => c[k - 1] < c[k]
  BY <1>3, <1>8, <1>12, <1>13
<1>16. \A i, j \in 0..len : i <= j => c[i] <= c[j]
  BY <1>2, <1>14, <1>15, Rising
<1>17. \A i, j \in 0..len : i < j => c[i] < c[j] \/ to < c[j]
  <2> SUFFICES ASSUME NEW i \in 0..len, NEW j \in 0..len, i < j PROVE c[i] < c[j] \/ to < c[j]
    OBVIOUS
  <2> DEFINE k == i + 1
  <2>1. k \in 1..len /\ k \in 0..len /\ k <= j /\ k - 1 = i
    BY <1>2
  <2> HIDE DEF k
  <2>2. c[i] <= to => c[i] < c[k]
    BY <1>15, <2>1
  <2>3. c[k] <= c[j] /\ c[i] <= c[j] /\ c[i] \in Int /\ c[j] \in Int /\ c[k] \in Int
    BY <1>14, <1>16, <2>1
  <2>4. QED
    BY <1>2, <2>2, <2>3
<1>18. \A k \in 0..len : from + k <= c[k] \/ to < c[k]
  <2> DEFINE S == {k \in Nat : k <= len => (from + k <= c[k] \/ to < c[k])}
  <2>1. 0 \in S
    BY <1>2, <1>12
  <2>2. ASSUME NEW k \in Nat, k \in S PROVE k + 1 \in S
    <3> SUFFICES ASSUME k + 1 <= len PROVE from + (k + 1) <= c[k + 1] \/ to < c[k + 1]
      OBVIOUS
    <3> DEFINE m == k + 1
    <3>1. m \in 1..len /\ k \in 0..len /\ m \in 0..len /\ m - 1 = k
      BY <1>2
    <3>2. from + k <= c[k] \/ to < c[k]
      BY <2>2, <3>1
    <3> HIDE DEF m
    <3>3. c[k] <= c[m] /\ (c[k] <= to => c[k] < c[m]) /\ c[k] \in Int /\ c[m] \in Int
      BY <1>14, <1>15, <3>1
    <3>4. from + (k + 1) <= c[m] \/ to < c[m]
      BY <1>2, <3>2, <3>3
    <3>5. QED
      BY <3>4 DEF m
  <2> HIDE DEF S
  <2>3. Nat \subseteq S
    BY <2>1, <2>2, Iterations
  <2>4. TAKE k \in 0..len
  <2>5. k \in Nat /\ k <= len
    BY <1>2
  <2>6. QED
    BY <2>3, <2>5 DEF S
<1>19. QED
  BY <1>1, <1>12, <1>14, <1>17, <1>18 DEF V, to, from, len

-----------------------------------------------------------------------------
(* What the reader does at a field: it stands where the format says that   *)
(* the field before ends, or is bad from the first that does not.          *)

\* Where a reader is that has read what ends at e: there, or bad if that is past
\* its end (sshwire.c:31-69).
Stands(r, e) == /\ e <= r.end => ~r.bad /\ r.at = e
                /\ e > r.end => r.bad

\* What the cursor of an ssh_rd over b may be: ReaderOK, of any blob.
Cursor(b, r) ==
  /\ r \in [at : Nat, end : Nat, bad : BOOLEAN]
  /\ r.at <= r.end /\ r.end <= Len(b)

\* What moving the cursor or giving up leaves alone (sshwire.c:24-43).
LEMMA Moves ==
  ASSUME NEW r, NEW x, r = [at |-> r.at, end |-> r.end, bad |-> r.bad]
  PROVE  /\ [r EXCEPT !.at = x] = [at |-> x, end |-> r.end, bad |-> r.bad]
         /\ Bad(r) = [at |-> r.at, end |-> r.end, bad |-> TRUE]
<1>1. DOMAIN r = {"at", "end", "bad"}
  OBVIOUS
<1>2. [r EXCEPT !.at = x] = [at |-> x, end |-> r.end, bad |-> r.bad]
  BY <1>1
<1>3. Bad(r) = [at |-> r.at, end |-> r.end, bad |-> TRUE]
  <2>1. \A y : [r EXCEPT !.bad = y] = [at |-> r.at, end |-> r.end, bad |-> y]
    BY <1>1
  <2>2. QED
    BY <2>1, Zenon DEF Bad
<1>4. QED
  BY <1>2, <1>3

\* The string between e and next read with r: where the reader is afterwards,
\* and the slice it has taken.
StepsOver(r, e, next) ==
  /\ Cursor(blob, AfterStr(r)) /\ AfterStr(r).end = r.end
  /\ Stands(AfterStr(r), next)
  /\ ~AfterStr(r).bad => /\ Str(r) = [from |-> e + 1, to |-> next]
                         /\ U32(r) = next - e - 1 /\ U32(r) \in Nat
                         /\ next <= r.end /\ AfterStr(r).at = next
  /\ AfterStr(r).bad => next > r.end

\* What a string read takes (sshwire.c:53-69).
LEMMA StringStands ==
  ASSUME NEW r, NEW e, NEW next
  PROVE  /\ blob \in Seq(Nat) /\ Cursor(blob, r) /\ e \in Nat
         /\ Stands(r, e) /\ next = StrEnd(blob, e, r.end)
         => StepsOver(r, e, next)
<1>0. HAVE /\ blob \in Seq(Nat) /\ Cursor(blob, r) /\ e \in Nat
           /\ Stands(r, e) /\ next = StrEnd(blob, e, r.end)
<1>1. /\ r.at \in Nat /\ r.end \in Nat /\ r.bad \in BOOLEAN
      /\ r = [at |-> r.at, end |-> r.end, bad |-> r.bad]
      /\ r.at <= r.end /\ r.end <= Len(blob) /\ Len(blob) \in Nat
  BY <1>0, LenProperties DEF Cursor
<1>2. CASE ~r.bad /\ r.at < r.end
  <2> DEFINE n == blob[r.at + 1]
  <2>1. r.at + 1 \in 1..Len(blob) /\ e = r.at /\ e < r.end
    BY <1>0, <1>1, <1>2 DEF Stands
  <2>2. n \in Nat
    BY <1>0, <2>1, ElementOfSeq
  <2>3. U32(r) = n /\ After32(r) = [at |-> r.at + 1, end |-> r.end, bad |-> FALSE]
    <3>1. Have(r, 1)
      BY <1>1, <1>2 DEF Have
    <3>2. U32(r) = n /\ After32(r) = [r EXCEPT !.at = r.at + 1]
      BY <3>1, Zenon DEF U32, After32
    <3> DEFINE to == r.at + 1
    <3>3. [r EXCEPT !.at = to] = [at |-> to, end |-> r.end, bad |-> r.bad]
      BY <1>1, Moves, Zenon
    <3>4. QED
      BY <1>1, <1>2, <3>2, <3>3, Zenon
  <2>4. next = IF e + 1 + n <= r.end THEN e + 1 + n ELSE r.end + 1
    BY <1>0, <1>1, <2>1 DEF StrEnd
  <2> HIDE DEF n
  <2>5. CASE e + 1 + n <= r.end
    <3>1. AfterStr(r) = [at |-> e + 1 + n, end |-> r.end, bad |-> FALSE]
      <4> DEFINE s == [at |-> r.at + 1, end |-> r.end, bad |-> FALSE]
      <4>1. s.at = r.at + 1 /\ s.end = r.end /\ s.bad = FALSE /\ s = [at |-> s.at, end |-> s.end, bad |-> s.bad]
        OBVIOUS
      <4>2. After32(r) = s
        BY <2>3
      <4> HIDE DEF s
      <4>3. Have(s, n) /\ s.at + n = e + 1 + n
        BY <1>1, <2>1, <2>2, <2>5, <4>1 DEF Have
      <4>4. AfterStr(r) = [s EXCEPT !.at = s.at + n]
        BY <2>3, <4>2, <4>3, Zenon DEF AfterStr
      <4> DEFINE to == s.at + n
      <4>5. [s EXCEPT !.at = to] = [at |-> to, end |-> s.end, bad |-> s.bad]
        BY <4>1, Moves, Zenon
      <4>6. QED
        BY <4>1, <4>3, <4>4, <4>5, Zenon
    <3>2. next = e + 1 + n /\ Str(r) = [from |-> e + 1, to |-> e + 1 + n]
      BY <2>1, <2>3, <2>4, <2>5 DEF Str
    <3>3. e + 1 + n \in Nat /\ next - e - 1 = n
      BY <1>0, <2>2, <3>2
    <3>4. QED
      BY <1>0, <1>1, <2>2, <2>3, <2>5, <3>1, <3>2, <3>3 DEF Cursor, Stands, StepsOver
  <2>6. CASE ~(e + 1 + n <= r.end)
    <3>1. AfterStr(r) = [at |-> r.at + 1, end |-> r.end, bad |-> TRUE]
      <4> DEFINE s == [at |-> r.at + 1, end |-> r.end, bad |-> FALSE]
      <4>1. s.at = r.at + 1 /\ s.end = r.end /\ s.bad = FALSE /\ s = [at |-> s.at, end |-> s.end, bad |-> s.bad]
        OBVIOUS
      <4>2. After32(r) = s
        BY <2>3
      <4> HIDE DEF s
      <4>3. ~Have(s, n)
        BY <1>1, <2>1, <2>2, <2>6, <4>1 DEF Have
      <4>4. AfterStr(r) = Bad(s)
        BY <2>3, <4>2, <4>3, Zenon DEF AfterStr
      <4>5. Bad(s) = [at |-> s.at, end |-> s.end, bad |-> TRUE]
        BY <4>1, Moves, Zenon
      <4>6. QED
        BY <4>1, <4>4, <4>5, Zenon
    <3>2. next = r.end + 1 /\ r.at + 1 \in Nat /\ r.at + 1 <= r.end
      BY <1>1, <2>1, <2>4, <2>6
    <3>3. QED
      BY <1>0, <1>1, <3>1, <3>2 DEF Cursor, Stands, StepsOver
  <2>7. QED
    BY <2>5, <2>6
<1>3. CASE ~(~r.bad /\ r.at < r.end)
  <2>1. ~Have(r, 1)
    BY <1>1, <1>3 DEF Have
  <2> DEFINE s == [at |-> r.at, end |-> r.end, bad |-> TRUE]
  <2>2. Bad(r) = s /\ After32(r) = Bad(r)
    BY <1>1, <2>1, Moves, Zenon DEF After32
  <2>s. s.at = r.at /\ s.end = r.end /\ s.bad = TRUE /\ s = [at |-> s.at, end |-> s.end, bad |-> s.bad]
    OBVIOUS
  <2>3. AfterStr(r) = [at |-> r.at, end |-> r.end, bad |-> TRUE]
    <3> HIDE DEF s
    <3>1. ~Have(s, U32(r))
      BY <2>s DEF Have
    <3>2. AfterStr(r) = Bad(s)
      BY <2>2, <3>1, Zenon DEF AfterStr
    <3>3. Bad(s) = [at |-> s.at, end |-> s.end, bad |-> TRUE]
      BY <2>s, Moves, Zenon
    <3>4. QED
      BY <2>s, <3>2, <3>3, Zenon
  <2> HIDE DEF s
  <2>4. ~(e < r.end)
    BY <1>0, <1>1, <1>3 DEF Stands
  <2>5. next = r.end + 1
    BY <1>0, <2>4 DEF StrEnd
  <2>6. QED
    BY <1>0, <1>1, <2>3, <2>5 DEF Cursor, Stands, StepsOver
<1>4. QED
  BY <1>2, <1>3

\* A number read: 0 if there is none (sshwire.c:31-43).
LEMMA NumberStands ==
  ASSUME NEW r, NEW e, NEW next
  PROVE  /\ blob \in Seq(Nat) /\ Cursor(blob, r) /\ e \in Nat
         /\ Stands(r, e) /\ next = NumEnd(e, r.end)
         => /\ Cursor(blob, After32(r)) /\ After32(r).end = r.end
            /\ Stands(After32(r), next)
            /\ next <= r.end => next = e + 1 /\ U32(r) = blob[next]
            /\ next > r.end => U32(r) = 0
<1>0. HAVE /\ blob \in Seq(Nat) /\ Cursor(blob, r) /\ e \in Nat
           /\ Stands(r, e) /\ next = NumEnd(e, r.end)
<1>1. /\ r.at \in Nat /\ r.end \in Nat /\ r.bad \in BOOLEAN
      /\ r = [at |-> r.at, end |-> r.end, bad |-> r.bad]
      /\ r.at <= r.end /\ r.end <= Len(blob) /\ Len(blob) \in Nat
  BY <1>0, LenProperties DEF Cursor
<1>2. CASE ~r.bad /\ r.at < r.end
  <2>1. e = r.at /\ e < r.end
    BY <1>0, <1>1, <1>2 DEF Stands
  <2>2. U32(r) = blob[r.at + 1] /\ After32(r) = [at |-> r.at + 1, end |-> r.end, bad |-> FALSE]
    <3>1. Have(r, 1)
      BY <1>1, <1>2 DEF Have
    <3>2. U32(r) = blob[r.at + 1] /\ After32(r) = [r EXCEPT !.at = r.at + 1]
      BY <3>1, Zenon DEF U32, After32
    <3> DEFINE to == r.at + 1
    <3>3. [r EXCEPT !.at = to] = [at |-> to, end |-> r.end, bad |-> r.bad]
      BY <1>1, Moves, Zenon
    <3>4. QED
      BY <1>1, <1>2, <3>2, <3>3, Zenon
  <2>3. next = e + 1
    BY <1>0, <2>1 DEF NumEnd
  <2>4. QED
    BY <1>0, <1>1, <2>1, <2>2, <2>3 DEF Cursor, Stands
<1>3. CASE ~(~r.bad /\ r.at < r.end)
  <2>1. ~Have(r, 1)
    BY <1>1, <1>3 DEF Have
  <2>2. U32(r) = 0 /\ After32(r) = [at |-> r.at, end |-> r.end, bad |-> TRUE]
    BY <1>1, <2>1 DEF U32, After32, Bad
  <2>4. ~(e < r.end)
    BY <1>0, <1>1, <1>3 DEF Stands
  <2>5. next = r.end + 1
    BY <1>0, <2>4 DEF NumEnd
  <2>6. QED
    BY <1>0, <1>1, <2>2, <2>5 DEF Cursor, Stands
<1>4. QED
  BY <1>2, <1>3

\* The reader over b stands where field k of a format with n fields for the key
\* ends.
OnField(b, r, n, k) ==
  /\ n \in 1..2 /\ k \in 0..n + 16
  /\ Cursor(b, r) /\ r.end = Len(b)
  /\ Stands(r, Ends(b, n)[k])

\* Field j has been read as a string with r, or as a number.
StringTaken(r, n, j) ==
  /\ OnField(blob, AfterStr(r), n, j)
  /\ ~AfterStr(r).bad => /\ Str(r) = FieldOf(Ends(blob, n), j)
                         /\ AfterStr(r).at = Ends(blob, n)[j]
                         /\ Ends(blob, n)[j] <= Len(blob)
  /\ AfterStr(r).bad => Ends(blob, n)[j] > Len(blob)
NumberTaken(r, n, j) ==
  /\ OnField(blob, After32(r), n, j)
  /\ Ends(blob, n)[j] <= Len(blob) =>
       U32(r) = blob[Ends(blob, n)[j]] /\ Ends(blob, n)[j] = Ends(blob, n)[j - 1] + 1
  /\ Ends(blob, n)[j] > Len(blob) => U32(r) = 0

\* A string of the format read (sshwire.c:53-69).
LEMMA StringField ==
  ASSUME NEW r, NEW n, NEW k, NEW j
  PROVE  /\ blob \in Seq(Nat) /\ OnField(blob, r, n, k)
         /\ j = k + 1 /\ j \in 1..n + 16 /\ j \notin Numbers(n)
         => StringTaken(r, n, j)
<1>0. HAVE /\ blob \in Seq(Nat) /\ OnField(blob, r, n, k)
           /\ j = k + 1 /\ j \in 1..n + 16 /\ j \notin Numbers(n)
<1> DEFINE end == Ends(blob, n)
           e == end[k]
           next == end[j]
<1>1. n \in 1..2 /\ k \in 0..n + 16 /\ j - 1 = k
  BY <1>0 DEF OnField
<1>2. /\ \A i \in 0..n + 16 : end[i] \in 0..Len(blob) + 1
      /\ \A i \in 1..n + 16 :
           end[i] = IF i \in Numbers(n) THEN NumEnd(end[i - 1], Len(blob))
                    ELSE StrEnd(blob, end[i - 1], Len(blob))
  BY <1>0, <1>1, FormatEnds, Zenon
<1> HIDE DEF end
<1>3. e \in Nat /\ next = StrEnd(blob, e, r.end)
  <2>1. r.end = Len(blob)
    BY <1>0 DEF OnField
  <2>2. e \in Nat
    BY <1>1, <1>2
  <2>3. end[j] = StrEnd(blob, end[j - 1], Len(blob))
    BY <1>0, <1>2, Zenon
  <2>4. QED
    BY <1>1, <2>1, <2>2, <2>3
<1>4. Cursor(blob, r) /\ Stands(r, e) /\ r.end = Len(blob)
  BY <1>0, Zenon DEF OnField, end
<1> HIDE DEF e, next
<1>5. /\ Cursor(blob, AfterStr(r)) /\ AfterStr(r).end = r.end
      /\ Stands(AfterStr(r), next)
      /\ ~AfterStr(r).bad => /\ Str(r) = [from |-> e + 1, to |-> next]
                             /\ U32(r) = next - e - 1 /\ U32(r) \in Nat
                             /\ next <= r.end /\ AfterStr(r).at = next
      /\ AfterStr(r).bad => next > r.end
  <2>1. /\ blob \in Seq(Nat) /\ Cursor(blob, r) /\ e \in Nat
        /\ Stands(r, e) /\ next = StrEnd(blob, e, r.end)
    BY <1>0, <1>3, <1>4, Zenon
  <2>2. StepsOver(r, e, next)
    BY <2>1, StringStands, Zenon
  <2>3. QED
    BY <2>2, Zenon DEF StepsOver
<1>6. OnField(blob, AfterStr(r), n, j)
  <2>1. j \in 0..n + 16
    BY <1>0
  <2>2. QED
    BY <1>1, <1>4, <1>5, <2>1, Zenon DEF OnField, next, end
<1>7. FieldOf(end, j) = [from |-> e + 1, to |-> next]
  BY <1>1 DEF FieldOf, e, next
<1>8. QED
  BY <1>4, <1>5, <1>6, <1>7, Zenon DEF next, end, StringTaken

\* A number of the format read (sshwire.c:31-43).
LEMMA NumberField ==
  ASSUME NEW r, NEW n, NEW k, NEW j
  PROVE  /\ blob \in Seq(Nat) /\ OnField(blob, r, n, k)
         /\ j = k + 1 /\ j \in 1..n + 16 /\ j \in Numbers(n)
         => NumberTaken(r, n, j)
<1>0. HAVE /\ blob \in Seq(Nat) /\ OnField(blob, r, n, k)
           /\ j = k + 1 /\ j \in 1..n + 16 /\ j \in Numbers(n)
<1> DEFINE end == Ends(blob, n)
           e == end[k]
           next == end[j]
<1>1. n \in 1..2 /\ k \in 0..n + 16 /\ j - 1 = k
  BY <1>0 DEF OnField
<1>2. /\ \A i \in 0..n + 16 : end[i] \in 0..Len(blob) + 1
      /\ \A i \in 1..n + 16 :
           end[i] = IF i \in Numbers(n) THEN NumEnd(end[i - 1], Len(blob))
                    ELSE StrEnd(blob, end[i - 1], Len(blob))
  BY <1>0, <1>1, FormatEnds, Zenon
<1> HIDE DEF end
<1>3. e \in Nat /\ next = NumEnd(e, r.end)
  <2>1. r.end = Len(blob)
    BY <1>0 DEF OnField
  <2>2. e \in Nat
    BY <1>1, <1>2
  <2>3. end[j] = NumEnd(end[j - 1], Len(blob))
    BY <1>0, <1>2, Zenon
  <2>4. QED
    BY <1>1, <2>1, <2>2, <2>3
<1>4. Cursor(blob, r) /\ Stands(r, e) /\ r.end = Len(blob)
  BY <1>0, Zenon DEF OnField, end
<1> HIDE DEF e, next
<1>5. /\ Cursor(blob, After32(r)) /\ After32(r).end = r.end
      /\ Stands(After32(r), next)
      /\ next <= r.end => next = e + 1 /\ U32(r) = blob[next]
      /\ next > r.end => U32(r) = 0
  BY <1>0, <1>3, <1>4, NumberStands, Zenon
<1>6. OnField(blob, After32(r), n, j)
  <2>1. j \in 0..n + 16
    BY <1>0
  <2>2. QED
    BY <1>1, <1>4, <1>5, <2>1, Zenon DEF OnField, next, end
<1>7. QED
  BY <1>1, <1>4, <1>5, <1>6, Zenon DEF next, e, end, NumberTaken

\* No field ends inside after one that does not.
LEMMA EarlierFields ==
  ASSUME NEW b, NEW n, NEW i, NEW j
  PROVE  /\ b \in Seq(Nat) /\ n \in 1..2 /\ i \in 0..n + 16 /\ j \in 0..n + 16 /\ i <= j
         => /\ Ends(b, n)[i] \in Nat /\ Ends(b, n)[j] \in Nat
            /\ Ends(b, n)[i] <= Ends(b, n)[j]
            /\ Ends(b, n)[j] <= Len(b) => Ends(b, n)[i] <= Len(b)
<1>0. HAVE b \in Seq(Nat) /\ n \in 1..2 /\ i \in 0..n + 16 /\ j \in 0..n + 16 /\ i <= j
<1> DEFINE end == Ends(b, n)
<1>2. /\ \A k \in 0..n + 16 : end[k] \in 0..Len(b) + 1
      /\ \A k, m \in 0..n + 16 : k <= m => end[k] <= end[m]
  BY <1>0, FormatEnds, Zenon
<1>3. Len(b) \in Nat
  BY <1>0, LenProperties
<1> HIDE DEF end
<1>4. end[i] \in 0..Len(b) + 1 /\ end[j] \in 0..Len(b) + 1 /\ end[i] <= end[j]
  BY <1>0, <1>2, Zenon
<1>5. end[i] \in Nat /\ end[j] \in Nat /\ (end[j] <= Len(b) => end[i] <= Len(b))
  BY <1>3, <1>4
<1>6. QED
  BY <1>4, <1>5 DEF end

-----------------------------------------------------------------------------
(* What is known of a blob b and of the certificate c taken from it when    *)
(* the reader r, and i over the parts of a field, have come to field f.     *)

HasAlgo(b, c) == Handled(b) /\ Len(b) <= MaxCert /\ c.algo = FirstName(b)

HasKey(b, c) ==
  /\ c.keyBlob = <<Len(BaseName(b))>> \o BaseName(b) \o KeyOf(b)
  /\ 1 + Len(BaseName(b)) + Len(KeyOf(b)) <= KeyCap

HasId(b, c) == c.keyId = FieldOf(Ends(b, Fields(b)), Fields(b) + 6)

HasTimes(b, c) ==
  LET n == Fields(b)
      end == Ends(b, n)
  IN  end[n + 11] <= Len(b) => /\ c.after = SubSeq(b, end[n + 7] + 1, end[n + 9])
                               /\ c.before = SubSeq(b, end[n + 9] + 1, end[n + 11])

HasSigner(b, c) ==
  LET n == Fields(b)
      end == Ends(b, n)
  IN  c.signatureKey = FieldOf(end, n + 15) /\ c.signedLen = end[n + 15]

\* A part of b that is parsed by itself.
Within(b, s) == s.from \in Nat /\ s.to \in Nat /\ s.from <= s.to /\ s.to <= Len(b)

\* The part s has k strings and maybe more, and these are the slices in list.
Reaches(b, s, k) == k \in 0..s.to - s.from /\ NameEnds(b, s)[k] <= s.to
Taken(b, s, k, list) ==
  /\ Reaches(b, s, k)
  /\ \A j \in 1..k : list[j] = FieldOf(NameEnds(b, s), j)

HasNames(b, c) ==
  /\ Within(b, NamesOf(b))
  /\ Len(c.principals) <= MaxCertPrincipals
  /\ Taken(b, NamesOf(b), Len(c.principals), c.principals)
AllNames(b, c) ==
  HasNames(b, c) /\ NameEnds(b, NamesOf(b))[Len(c.principals)] = NamesOf(b).to

ToClass(b, c) == HasAlgo(b, c) /\ HasKey(b, c)
ToId(b, c) == ToClass(b, c) /\ IsUser(b)
ToNames(b, c) == ToId(b, c) /\ HasId(b, c)
ToValidity(b, c) == ToNames(b, c) /\ AllNames(b, c)
ToOptions(b, c) == ToValidity(b, c) /\ HasTimes(b, c)
ToSignature(b, c) == ToOptions(b, c) /\ HasSigner(b, c)

Come(f, b, c, r, i) ==
  LET n == Fields(b) IN
  \/ f = "algo" /\ Len(b) <= MaxCert /\ r = [at |-> 0, end |-> Len(b), bad |-> FALSE]
  \/ f = "nonce" /\ HasAlgo(b, c) /\ OnField(b, r, n, 1)
  \/ f = "key" /\ HasAlgo(b, c) /\ OnField(b, r, n, 2)
  \/ f = "class" /\ ToClass(b, c) /\ OnField(b, r, n, n + 2)
  \/ f = "key id" /\ ToId(b, c) /\ OnField(b, r, n, n + 5)
  \/ f = "principals" /\ ToNames(b, c) /\ OnField(b, r, n, n + 6)
  \/ /\ f = "name" /\ ToNames(b, c) /\ HasNames(b, c) /\ OnField(b, r, n, n + 7)
     /\ i = [at |-> NameEnds(b, NamesOf(b))[Len(c.principals)], end |-> NamesOf(b).to,
             bad |-> FALSE]
  \/ f = "validity" /\ ToValidity(b, c) /\ OnField(b, r, n, n + 7)
  \/ f = "options" /\ ToOptions(b, c) /\ OnField(b, r, n, n + 11)
  \/ f = "signature key" /\ ToOptions(b, c) /\ OnField(b, r, n, n + 14)
  \/ f = "signature" /\ ToSignature(b, c) /\ OnField(b, r, n, n + 15)
  \/ /\ f = "signature fields" /\ ToSignature(b, c)
     /\ Ends(b, n)[n + 16] = Len(b)
     /\ Within(b, SignatureOf(b)) /\ i = Reader(SignatureOf(b))

\* No principal is taken before they are come to.
NamesKnown ==
  {"name", "validity", "options", "signature key", "signature", "signature fields"}

ReadingInv ==
  certStatus = "reading" =>
    /\ lineType = FirstName(blob)
    /\ Come(field, blob, cert, rd, inner)
    /\ field \notin NamesKnown => cert.principals = <<>>
AcceptInv == AcceptsCertificates /\ ReadingInv

-----------------------------------------------------------------------------
\* String j of a part, after k of them, has been read with r; if there is none
\* and something is left, the part does not come out even.
NameTaken(r, s, k, j) ==
  /\ ~AfterStr(r).bad =>
       /\ Reaches(blob, s, j)
       /\ AfterStr(r) = [at |-> NameEnds(blob, s)[j], end |-> s.to, bad |-> FALSE]
       /\ Str(r) = FieldOf(NameEnds(blob, s), j)
       /\ U32(r) = NameEnds(blob, s)[j] - NameEnds(blob, s)[k] - 1
       /\ U32(r) \in Nat
  /\ AfterStr(r).bad /\ NameEnds(blob, s)[k] # s.to => \A m : ~ComesOutAfter(blob, s, m)

\* A string of a part read (sshwire.c:53-69, sshcert.c:56-73).
LEMMA NameString ==
  ASSUME NEW s, NEW k, NEW j, NEW r
  PROVE  /\ blob \in Seq(Nat) /\ Within(blob, s) /\ Reaches(blob, s, k) /\ j = k + 1
         /\ r = [at |-> NameEnds(blob, s)[k], end |-> s.to, bad |-> FALSE]
         => NameTaken(r, s, k, j)
<1>0. HAVE /\ blob \in Seq(Nat) /\ Within(blob, s) /\ Reaches(blob, s, k) /\ j = k + 1
           /\ r = [at |-> NameEnds(blob, s)[k], end |-> s.to, bad |-> FALSE]
<1> DEFINE c == NameEnds(blob, s)
           len == s.to - s.from
           e == c[k]
           next == StrEnd(blob, e, s.to)
<1>1. /\ s.from \in Nat /\ s.to \in Nat /\ s.from <= s.to /\ s.to <= Len(blob)
      /\ len \in Nat /\ s.from + len = s.to
  BY <1>0 DEF Within
<1>2. /\ DOMAIN c = 0..len
      /\ \A i \in 0..len : c[i] \in 0..s.to + 1
      /\ \A i \in 1..len : c[i] = StrEnd(blob, c[i - 1], s.to)
      /\ \A i, m \in 0..len : i < m => c[i] < c[m] \/ s.to < c[m]
      /\ \A i \in 0..len : s.from + i <= c[i] \/ s.to < c[i]
  BY <1>0, <1>1, NamesEnd, Zenon
<1> HIDE DEF c, len
<1>3. k \in 0..len /\ e <= s.to
  BY <1>0, Zenon DEF Reaches, c, len
<1>4. e \in Nat /\ (e < s.to => j \in 1..len /\ j - 1 = k)
  <2>1. e \in 0..s.to + 1 /\ (s.from + k <= e \/ s.to < e)
    BY <1>2, <1>3, Zenon
  <2>2. QED
    BY <1>0, <1>1, <1>3, <2>1
<1>5. /\ Cursor(blob, r) /\ Stands(r, e) /\ r.end = s.to
      /\ r.at = e /\ r.bad = FALSE
  <2>1. r = [at |-> e, end |-> s.to, bad |-> FALSE]
    BY <1>0 DEF c
  <2> HIDE DEF e
  <2>2. QED
    BY <1>1, <1>3, <1>4, <2>1 DEF Cursor, Stands
<1>6. next <= s.to => e < s.to /\ c[j] = next
  <2>1. next <= s.to => e < s.to
    BY <1>1, <1>4 DEF StrEnd
  <2>2. e < s.to => c[j] = next
    BY <1>2, <1>4
  <2>3. QED
    BY <2>1, <2>2
<1>7. e < s.to => c[j] = next
  BY <1>2, <1>4
<1> HIDE DEF next, e
<1>8. /\ Cursor(blob, AfterStr(r)) /\ AfterStr(r).end = r.end
      /\ ~AfterStr(r).bad => /\ Str(r) = [from |-> e + 1, to |-> next]
                             /\ U32(r) = next - e - 1 /\ U32(r) \in Nat
                             /\ next <= r.end /\ AfterStr(r).at = next
      /\ AfterStr(r).bad => next > r.end
  <2>1. next = StrEnd(blob, e, r.end)
    BY <1>5 DEF next
  <2>2. /\ blob \in Seq(Nat) /\ Cursor(blob, r) /\ e \in Nat
        /\ Stands(r, e) /\ next = StrEnd(blob, e, r.end)
    BY <1>0, <1>4, <1>5, <2>1, Zenon
  <2>3. StepsOver(r, e, next)
    BY <2>2, StringStands, Zenon
  <2>4. QED
    BY <2>3, Zenon DEF StepsOver
<1>9. ASSUME ~AfterStr(r).bad
      PROVE  /\ Reaches(blob, s, j)
             /\ AfterStr(r) = [at |-> c[j], end |-> s.to, bad |-> FALSE]
             /\ Str(r) = FieldOf(c, j)
             /\ U32(r) = c[j] - e - 1
             /\ U32(r) \in Nat
  <2>1. next <= s.to /\ e < s.to /\ c[j] = next /\ j \in 1..len /\ j - 1 = k
    BY <1>4, <1>5, <1>6, <1>8, <1>9
  <2>2. Reaches(blob, s, j)
    <3>1. j \in 0..len
      BY <1>1, <2>1
    <3>2. QED
      BY <2>1, <3>1, Zenon DEF Reaches, c, len
  <2>3. AfterStr(r) = [at |-> c[j], end |-> s.to, bad |-> FALSE]
    <3>1. AfterStr(r) \in [at : Nat, end : Nat, bad : BOOLEAN]
      BY <1>8 DEF Cursor
    <3>2. AfterStr(r).at = c[j] /\ AfterStr(r).end = s.to /\ AfterStr(r).bad = FALSE
      BY <1>5, <1>8, <1>9, <2>1, <3>1
    <3>3. QED
      BY <3>1, <3>2
  <2>4. Str(r) = FieldOf(c, j)
    BY <1>8, <1>9, <2>1 DEF FieldOf, e
  <2>5. QED
    BY <1>8, <1>9, <2>1, <2>2, <2>3, <2>4
<1>10. ASSUME AfterStr(r).bad, e # s.to, NEW m, ComesOutAfter(blob, s, m)
       PROVE  FALSE
  <2>1. m \in 0..len /\ c[m] = s.to
    BY <1>2, <1>10, Zenon DEF ComesOutAfter, c
  <2>2. e < s.to /\ next > s.to /\ c[j] = next /\ j \in 0..len /\ k \in 0..len
    BY <1>1, <1>3, <1>4, <1>5, <1>7, <1>8, <1>10
  <2>3. e \in Nat /\ next \in Int
    BY <1>2, <1>4, <2>2
  <2>4. CASE m < k
    <3>1. c[m] < e \/ s.to < e
      BY <1>2, <1>3, <2>1, <2>4 DEF e
    <3>2. QED
      BY <1>1, <2>1, <2>2, <2>3, <3>1
  <2>5. CASE m = k
    BY <2>1, <2>5, <1>10 DEF e
  <2>6. CASE m = j
    BY <1>1, <2>1, <2>2, <2>3, <2>6
  <2>7. CASE j < m
    <3>1. next < c[m] \/ s.to < c[m]
      BY <1>2, <2>1, <2>2, <2>7
    <3>2. QED
      BY <1>1, <2>1, <2>2, <2>3, <3>1
  <2>8. QED
    BY <1>0, <1>3, <2>1, <2>4, <2>5, <2>6, <2>7
<1>11. QED
  BY <1>9, <1>10, Zenon DEF c, e, NameTaken

\* Where the strings of a part are: it ends after one number of them at most.
LEMMA ComesOutOnce ==
  ASSUME NEW s, NEW k
  PROVE  /\ blob \in Seq(Nat) /\ Within(blob, s) /\ Reaches(blob, s, k)
         => /\ NameEnds(blob, s)[k] \in Nat /\ NameEnds(blob, s)[0] = s.from
            /\ NameEnds(blob, s)[k] = s.to => ComesOutAfter(blob, s, k)
            /\ \A m : ComesOutAfter(blob, s, m) =>
                 /\ m \in 0..s.to - s.from
                 /\ NameEnds(blob, s)[k] = s.to => m = k
                 /\ NameEnds(blob, s)[k] # s.to => m > k
<1>0. HAVE blob \in Seq(Nat) /\ Within(blob, s) /\ Reaches(blob, s, k)
<1> DEFINE c == NameEnds(blob, s)
           len == s.to - s.from
<1>1. /\ s.from \in Nat /\ s.to \in Nat /\ s.from <= s.to /\ s.to <= Len(blob)
      /\ len \in Nat
  BY <1>0 DEF Within
<1>2. /\ DOMAIN c = 0..len /\ c[0] = s.from
      /\ \A i \in 0..len : c[i] \in 0..s.to + 1
      /\ \A i, m \in 0..len : i < m => c[i] < c[m] \/ s.to < c[m]
  BY <1>0, <1>1, NamesEnd, Zenon
<1> HIDE DEF c, len
<1>3. k \in 0..len /\ c[k] <= s.to
  BY <1>0, Zenon DEF Reaches, c, len
<1>4. c[k] \in Nat
  BY <1>1, <1>2, <1>3
<1>5. ASSUME NEW m, m \in 0..len, c[m] = s.to
      PROVE  (c[k] = s.to => m = k) /\ (c[k] # s.to => m > k)
  <2>1. CASE m < k
    <3>1. c[m] < c[k] \/ s.to < c[k]
      BY <1>2, <1>3, <1>5, <2>1
    <3>2. QED
      BY <1>1, <1>3, <1>4, <1>5, <3>1
  <2>2. CASE k < m
    <3>1. c[k] < c[m] \/ s.to < c[m]
      BY <1>2, <1>3, <1>5, <2>2
    <3>2. QED
      BY <1>1, <1>3, <1>4, <1>5, <2>2, <3>1
  <2>3. CASE m = k
    BY <1>5, <2>3
  <2>4. QED
    BY <1>3, <1>5, <2>1, <2>2, <2>3
<1>6. \A m : ComesOutAfter(blob, s, m) <=> m \in 0..len /\ c[m] = s.to
  BY <1>2, Zenon DEF ComesOutAfter, c
<1>7. QED
  BY <1>2, <1>3, <1>4, <1>5, <1>6, Zenon DEF c, len

\* An algorithm that is handled has one or two fields for its key, and a name
\* that fits (sshcert.c:13-45).
LEMMA HandledNames ==
  ASSUME NEW b
  PROVE  Handled(b) => /\ Fields(b) \in 1..2 /\ Len(FirstName(b)) \in 1..NameCap - 1
                       /\ BaseName(b) \in Seq(Nat) /\ NameCap \in Nat
<1> HAVE Handled(b)
<1> DEFINE a == FirstName(b)
<1>1. a \in DOMAIN CertAlgo /\ CertAlgo[a].fields > 0
  BY Zenon DEF Handled, IsCertName, Fields, KeyFields
<1>2. CertAlgo[a] \in [base : Seq(Nat), fields : 0..2] /\ Len(a) \in 1..NameCap - 1
  BY <1>1, CertificateAssumption
<1> HIDE DEF a
<1>3. CertAlgo[a].fields \in 1..2 /\ CertAlgo[a].base \in Seq(Nat)
  BY <1>1, <1>2
<1>4. NameCap \in Nat
  BY CertificateAssumption
<1>5. QED
  BY <1>2, <1>3, <1>4, Zenon DEF a, Fields, KeyFields, BaseName

\* The name in front is the first field, if the parser can read one
\* (sshwire.c:71-82, sshcert.c:92-96).
FirstFits ==
  blob \in Seq(Nat) /\ rd = [at |-> 0, end |-> Len(blob), bad |-> FALSE] =>
    /\ IsCstr(rd) => Text(Str(rd)) = FirstName(blob)
    /\ ~IsCstr(rd) => ~Handled(blob)
LEMMA FirstNameRead == FirstFits
<1> SUFFICES ASSUME blob \in Seq(Nat), rd = [at |-> 0, end |-> Len(blob), bad |-> FALSE]
             PROVE  /\ IsCstr(rd) => Text(Str(rd)) = FirstName(blob)
                    /\ ~IsCstr(rd) => ~Handled(blob)
  BY Zenon DEF FirstFits
<1> DEFINE len == Len(blob)
           e == 0
           next == StrEnd(blob, e, len)
<1>1. len \in Nat
  BY LenProperties
<1>2. Cursor(blob, rd) /\ Stands(rd, e) /\ rd.end = len /\ e \in Nat
  BY <1>1 DEF Cursor, Stands
<1>3. /\ ~AfterStr(rd).bad => /\ Str(rd) = [from |-> e + 1, to |-> next]
                              /\ U32(rd) = next - e - 1 /\ U32(rd) \in Nat
                              /\ next <= rd.end /\ AfterStr(rd).at = next
      /\ AfterStr(rd).bad => next > rd.end
  <2> HIDE DEF next, e
  <2>1. next = StrEnd(blob, e, rd.end)
    BY <1>2 DEF next
  <2>2. /\ blob \in Seq(Nat) /\ Cursor(blob, rd) /\ e \in Nat
        /\ Stands(rd, e) /\ next = StrEnd(blob, e, rd.end)
    BY <1>2, <2>1, Zenon
  <2>3. StepsOver(rd, e, next)
    BY <2>2, StringStands, Zenon
  <2>4. QED
    BY <2>3, Zenon DEF StepsOver
<1>n. next = StrEnd(blob, 0, len) /\ e = 0
  OBVIOUS
<1> HIDE DEF next, e, len
<1>4. ASSUME ~AfterStr(rd).bad
      PROVE  Text(Str(rd)) = FirstName(blob) /\ Len(FirstName(blob)) = U32(rd)
  <2>1. /\ Str(rd).from = 1 /\ Str(rd).to = next /\ next <= len /\ U32(rd) = next - 1
        /\ U32(rd) \in Nat
    <3>1. Str(rd) = [from |-> e + 1, to |-> next]
      BY <1>3, <1>4, Zenon
    <3>2. U32(rd) = next - e - 1 /\ U32(rd) \in Nat /\ next <= len
      BY <1>2, <1>3, <1>4, Zenon
    <3>3. next \in Int
      BY <1>1, <1>n, <3>2 DEF StrEnd
    <3>4. QED
      BY <1>n, <3>1, <3>2, <3>3
  <2>2. 0 < len /\ next = 1 + blob[1]
    BY <1>1, <1>n, <2>1 DEF StrEnd
  <2>3. blob[1] \in Nat /\ blob[1] + 1 <= len
    <3>1. 1 \in 1..len
      BY <1>1, <2>2
    <3>2. blob[1] \in Nat
      BY <3>1, ElementOfSeq DEF len
    <3>3. QED
      BY <2>1, <2>2, <3>2
  <2>4. FirstName(blob) = SubSeq(blob, 2, blob[1] + 1)
    <3>1. blob # <<>>
      BY <2>2 DEF len
    <3>2. StrEnd(blob, 0, Len(blob)) <= Len(blob)
      BY <1>n, <2>1 DEF len
    <3>3. QED
      BY <3>1, <3>2, Zenon DEF FirstName
  <2>5. Text(Str(rd)) = SubSeq(blob, 2, blob[1] + 1)
    <3>1. Text(Str(rd)) = SubSeq(blob, 1 + 1, next)
      BY <2>1, Zenon DEF Text
    <3>2. next = blob[1] + 1
      BY <2>2, <2>3
    <3>3. 1 + 1 = 2
      OBVIOUS
    <3>4. QED
      BY <3>1, <3>2, <3>3, Zenon
  <2>6. Len(SubSeq(blob, 2, blob[1] + 1)) = blob[1]
    <3> DEFINE m == blob[1] + 1
    <3>1. m \in Int /\ 2 \in Nat \ {0} /\ m <= len
      BY <2>3
    <3> HIDE DEF m
    <3>2. \A i \in 2..m : i \in 1..Len(blob)
      BY <1>1, <3>1 DEF len
    <3>3. Len(SubSeq(blob, 2, m)) = IF 2 <= m THEN m - 2 + 1 ELSE 0
      BY <3>1, <3>2, SubSeqProperties
    <3>4. QED
      BY <2>3, <3>3 DEF m
  <2>7. QED
    <3>1. U32(rd) = blob[1]
      BY <2>1, <2>2, <2>3
    <3>2. QED
      BY <2>4, <2>5, <2>6, <3>1, Zenon
<1>5. ASSUME AfterStr(rd).bad PROVE ~Handled(blob)
  <2>1. ~(StrEnd(blob, 0, Len(blob)) <= Len(blob))
    BY <1>1, <1>2, <1>3, <1>5, <1>n DEF StrEnd, len
  <2>2. FirstName(blob) = <<>>
    BY <2>1, Zenon DEF FirstName
  <2>3. Len(FirstName(blob)) = 0
    BY <2>2
  <2>4. 0 \notin 1..NameCap - 1
    OBVIOUS
  <2>5. QED
    BY <2>3, <2>4, HandledNames, Zenon
<1>6. ASSUME ~AfterStr(rd).bad, ~IsCstr(rd) PROVE ~Handled(blob)
  <2>1. ~(U32(rd) > 0 /\ U32(rd) < NameCap)
    BY <1>6 DEF IsCstr
  <2>2. U32(rd) \in Nat /\ Len(FirstName(blob)) = U32(rd)
    BY <1>3, <1>4, <1>6
  <2>3. ASSUME Handled(blob) PROVE FALSE
    <3>1. Len(FirstName(blob)) \in 1..NameCap - 1 /\ NameCap \in Nat
      BY <2>3, HandledNames, Zenon
    <3>2. QED
      BY <2>1, <2>2, <3>1
  <2>4. QED
    BY <2>3
<1>7. QED
  BY <1>4, <1>5, <1>6 DEF IsCstr

\* The same after a step.
LEMMA FirstNameReadNext == FirstFits'
BY FirstNameRead, PTL

\* A blob with a field that does not end inside is not whole.
LEMMA PastTheEnd ==
  ASSUME NEW b, NEW j
  PROVE  /\ b \in Seq(Nat) /\ Handled(b) /\ j \in 0..Fields(b) + 16
         /\ Ends(b, Fields(b))[j] > Len(b)
         => ~IsWhole(b)
<1>0. HAVE /\ b \in Seq(Nat) /\ Handled(b) /\ j \in 0..Fields(b) + 16
           /\ Ends(b, Fields(b))[j] > Len(b)
<1> DEFINE n == Fields(b)
           m == n + 16
<1>1. n \in 1..2
  BY <1>0, HandledNames, Zenon
<1> HIDE DEF n
<1>2. j \in 0..n + 16 /\ m \in 0..n + 16 /\ j <= m
  BY <1>0, <1>1 DEF n
<1>3. /\ Ends(b, n)[j] \in Nat /\ Ends(b, n)[m] \in Nat
      /\ Ends(b, n)[m] <= Len(b) => Ends(b, n)[j] <= Len(b)
  <2> HIDE DEF m
  <2>1. b \in Seq(Nat) /\ n \in 1..2 /\ j \in 0..n + 16 /\ m \in 0..n + 16 /\ j <= m
    BY <1>0, <1>1, <1>2, Zenon
  <2>2. QED
    BY <2>1, EarlierFields, Zenon
<1>4. Len(b) \in Nat
  BY <1>0, LenProperties
<1>5. Ends(b, n)[m] # Len(b)
  <2>1. Ends(b, n)[j] > Len(b)
    BY <1>0 DEF n
  <2> DEFINE x == Ends(b, n)[m]
             y == Ends(b, n)[j]
  <2> HIDE DEF x, y, m
  <2>2. x \in Nat /\ y \in Nat /\ (x <= Len(b) => y <= Len(b)) /\ y > Len(b)
    BY <1>3, <2>1 DEF x, y
  <2>3. x # Len(b)
    BY <1>4, <2>2
  <2>4. QED
    BY <2>3 DEF x
<1>6. QED
  BY <1>5, Zenon DEF IsWhole, n, m

-----------------------------------------------------------------------------
(* What the steps of the parser have in common.                            *)

\* A refusal, of what is not an acceptable certificate (sshcert.c:40-46,
\* 95-201): another class is told apart.
LEMMA AcceptRefuse ==
  ASSUME AcceptInv, certStatus = "reading",
         NEW status \in {"MALFORMED", "UNSUPPORTED", "NOT_USER"}, Refuse(status),
         ~(IsWhole(blob) /\ IsUser(blob) /\ EvenInside(blob)),
         IsWhole(blob) /\ ~IsUser(blob) => status = "NOT_USER",
         status = "NOT_USER" =>
           lineType = FirstName(blob) /\ Handled(blob) /\ ~SaysUser(blob)
  PROVE  AcceptInv'
<1>1. /\ certStatus' = status /\ status # "OK" /\ status # "reading"
      /\ lineType' = lineType /\ blob' = blob /\ cert' = cert
  BY DEF Refuse
<1>2. AcceptsCertificates'
  BY <1>1, Zenon DEF AcceptsCertificates
<1>3. ReadingInv'
  BY <1>1, Zenon DEF ReadingInv
<1>4. QED
  BY <1>2, <1>3, Zenon DEF AcceptInv

\* A field read.
LEMMA AcceptGoOn ==
  ASSUME UNCHANGED <<lineType, blob, certStatus>>, certStatus = "reading",
         lineType = FirstName(blob), Come(field', blob, cert', rd', inner'),
         field' \notin NamesKnown => cert'.principals = <<>>
  PROVE  AcceptInv'
<1>1. certStatus' = "reading" /\ certStatus' \notin CertStatus
  BY DEF CertStatus
<1>2. AcceptsCertificates'
  BY <1>1, Zenon DEF AcceptsCertificates
<1>3. Come(field', blob', cert', rd', inner') /\ lineType' = FirstName(blob')
  BY Zenon
<1>4. ReadingInv'
  BY <1>3, Zenon DEF ReadingInv
<1>5. QED
  BY <1>2, <1>4, Zenon DEF AcceptInv

\* Broken: not whole, or a user's whose parts do not come out even.
LEMMA AcceptMalformed ==
  ASSUME AcceptInv, certStatus = "reading", Refuse("MALFORMED"),
         ~IsWhole(blob) \/ (IsUser(blob) /\ ~EvenInside(blob))
  PROVE  AcceptInv'
<1>1. /\ "MALFORMED" \in {"MALFORMED", "UNSUPPORTED", "NOT_USER"}
      /\ "MALFORMED" # "NOT_USER"
  OBVIOUS
<1>2. QED
  BY <1>1, AcceptRefuse, Zenon

\* What is known at field f.
Arrived(f) ==
  /\ certStatus = "reading" /\ lineType = FirstName(blob)
  /\ blob \in Seq(Nat) /\ Len(blob) \in Nat /\ cert \in CertRecord
  /\ ReaderOK(rd) /\ ReaderOK(inner)
  /\ Come(f, blob, cert, rd, inner)
  /\ f \notin NamesKnown => cert.principals = <<>>

\* The invariant, at a field.
LEMMA ComeTo ==
  ASSUME CertInv, AcceptInv, NEW f, At(f)
  PROVE  Arrived(f)
<1>1. certStatus = "reading" /\ field = f /\ ReadingInv
  BY Zenon DEF At, AcceptInv
<1>2. /\ Come(f, blob, cert, rd, inner) /\ lineType = FirstName(blob)
      /\ f \notin NamesKnown => cert.principals = <<>>
  BY <1>1, Zenon DEF ReadingInv
<1>3. /\ blob \in Seq(Nat) /\ Len(blob) \in Nat /\ cert \in CertRecord
      /\ ReaderOK(rd) /\ ReaderOK(inner)
  BY LenProperties DEF CertInv, ReadersInv, SlicesInv
<1>4. QED
  BY <1>1, <1>2, <1>3, Zenon DEF Arrived

\* What a step leaves alone when field f has been read.
LEMMA AcceptField ==
  ASSUME certStatus = "reading", lineType = FirstName(blob), NEW f, GoTo(f),
         Come(f, blob, cert', rd', inner'), f \notin NamesKnown => cert'.principals = <<>>
  PROVE  AcceptInv'
<1>1. field' = f /\ UNCHANGED <<lineType, blob, certStatus>>
  BY DEF GoTo
<1>2. QED
  BY <1>1, AcceptGoOn, Zenon

-----------------------------------------------------------------------------
(* One field per step, as the parser goes (sshcert.c:75-202).              *)

\* The certificate type (sshcert.c:95-105).
LEMMA AcceptAlgo ==
  ASSUME CertInv, AcceptInv, ReadAlgo
  PROVE  AcceptInv'
<1> DEFINE name == Text(Str(rd))
           n == Fields(blob)
<1>1. /\ certStatus = "reading" /\ lineType = FirstName(blob)
      /\ Len(blob) <= MaxCert /\ rd = [at |-> 0, end |-> Len(blob), bad |-> FALSE]
      /\ cert.principals = <<>>
  <2>1. At("algo")
    BY Zenon DEF ReadAlgo
  <2>2. Arrived("algo")
    BY <2>1, ComeTo, Zenon
  <2>3. "algo" \notin NamesKnown
    BY DEF NamesKnown
  <2>4. QED
    BY <2>2, <2>3, Zenon DEF Arrived, Come
<1>2. blob \in Seq(Nat) /\ cert \in CertRecord /\ Len(blob) \in Nat
  BY LenProperties DEF CertInv, ReadersInv, SlicesInv
<1>3. /\ IsCstr(rd) => name = FirstName(blob)
      /\ ~IsCstr(rd) => ~Handled(blob)
  BY <1>1, <1>2, FirstNameRead, Zenon DEF FirstFits
<1> HIDE DEF name
<1>4. CASE ~(IsCstr(rd) /\ IsCertName(name) /\ KeyFields(name) # 0)
  <2>1. PICK status \in {"MALFORMED", "UNSUPPORTED"} : Refuse(status)
    BY <1>4 DEF ReadAlgo, name
  <2>2. ~Handled(blob)
    <3>1. ~IsCstr(rd) \/ ~IsCertName(FirstName(blob)) \/ KeyFields(FirstName(blob)) = 0
      BY <1>3, <1>4, Zenon
    <3>2. ~(0 > 0)
      OBVIOUS
    <3>3. QED
      BY <1>3, <3>1, <3>2, Zenon DEF Handled, Fields
  <2>3. ~IsWhole(blob)
    BY <2>2, Zenon DEF IsWhole
  <2>4. status \in {"MALFORMED", "UNSUPPORTED", "NOT_USER"} /\ status # "NOT_USER"
    BY <2>1
  <2>5. QED
    BY <1>1, <2>1, <2>3, <2>4, AcceptRefuse, Zenon
<1>5. CASE IsCstr(rd) /\ IsCertName(name) /\ KeyFields(name) # 0
  <2>1. /\ cert' = [cert EXCEPT !.algo = name] /\ rd' = AfterStr(rd)
        /\ GoTo("nonce") /\ inner' = inner
    BY <1>5 DEF ReadAlgo, name
  <2>2. Handled(blob)
    <3>1. CertAlgo[name].fields \in 0..2
      BY <1>5, CertificateAssumption DEF IsCertName
    <3>2. KeyFields(name) > 0
      BY <1>5, <3>1 DEF KeyFields
    <3>3. QED
      BY <1>3, <1>5, <3>2, Zenon DEF Handled, Fields
  <2>3. cert'.algo = name /\ cert'.principals = cert.principals
    BY <1>2, <2>1 DEF CertRecord
  <2>4. HasAlgo(blob, cert')
    BY <1>1, <1>3, <1>5, <2>2, <2>3, Zenon DEF HasAlgo
  <2>5. n \in 1..2
    BY <2>2, HandledNames, Zenon
  <2> HIDE DEF n
  <2>6. OnField(blob, AfterStr(rd), n, 1)
    <3>1. Ends(blob, n)[0] = 0
      BY <1>2, <2>5, FormatEnds, Zenon
    <3>2. Cursor(blob, rd) /\ rd.end = Len(blob)
      BY <1>1, <1>2 DEF Cursor
    <3>3. Stands(rd, 0)
      BY <1>1, <1>2 DEF Stands
    <3>4. 0 \in 0..n + 16 /\ 1 = 0 + 1 /\ 1 \in 1..n + 16 /\ 1 \notin Numbers(n)
      BY <2>5 DEF Numbers
    <3>5. OnField(blob, rd, n, 0)
      BY <2>5, <3>1, <3>2, <3>3, <3>4, Zenon DEF OnField
    <3>6. /\ blob \in Seq(Nat) /\ OnField(blob, rd, n, 0)
          /\ 1 = 0 + 1 /\ 1 \in 1..n + 16 /\ 1 \notin Numbers(n)
      BY <1>2, <3>4, <3>5, Zenon
    <3>7. StringTaken(rd, n, 1)
      BY <3>6, StringField, Zenon
    <3>8. QED
      BY <3>7, Zenon DEF StringTaken
  <2>7. Come("nonce", blob, cert', rd', inner')
    BY <2>1, <2>4, <2>6, Zenon DEF Come, n
  <2>8. QED
    BY <1>1, <2>1, <2>3, <2>7, AcceptField, Zenon
<1>6. QED
  BY <1>4, <1>5

\* The nonce (sshcert.c:107-112).
LEMMA AcceptNonce ==
  ASSUME CertInv, AcceptInv, SkipNonce
  PROVE  AcceptInv'
<1> DEFINE n == Fields(blob)
<1>1. /\ certStatus = "reading" /\ lineType = FirstName(blob)
      /\ HasAlgo(blob, cert) /\ OnField(blob, rd, n, 1) /\ cert.principals = <<>>
  <2>1. At("nonce")
    BY Zenon DEF SkipNonce, Skip
  <2>2. Arrived("nonce")
    BY <2>1, ComeTo, Zenon
  <2>3. "nonce" \notin NamesKnown
    BY DEF NamesKnown
  <2>4. QED
    BY <2>2, <2>3, Zenon DEF Arrived, Come
<1>2. blob \in Seq(Nat)
  BY DEF CertInv, ReadersInv
<1>3. Handled(blob) /\ n \in 1..2
  BY <1>1, HandledNames, Zenon DEF HasAlgo
<1> HIDE DEF n
<1>4. AfterStrs(rd, 1) = AfterStr(rd)
  BY DEF AfterStrs
<1>5. StringTaken(rd, n, 2)
  <2>1. 2 = 1 + 1 /\ 2 \in 1..n + 16 /\ 2 \notin Numbers(n)
    BY <1>3 DEF Numbers
  <2>2. /\ blob \in Seq(Nat) /\ OnField(blob, rd, n, 1)
        /\ 2 = 1 + 1 /\ 2 \in 1..n + 16 /\ 2 \notin Numbers(n)
    BY <1>1, <1>2, <2>1, Zenon
  <2>3. QED
    BY <2>2, StringField, Zenon
<1>6. CASE AfterStr(rd).bad
  <2>1. Refuse("MALFORMED")
    BY <1>4, <1>6, Zenon DEF SkipNonce, Skip
  <2>2. Ends(blob, n)[2] > Len(blob) /\ 2 \in 0..n + 16
    BY <1>3, <1>5, <1>6 DEF StringTaken
  <2>3. ~IsWhole(blob)
    BY <1>2, <1>3, <2>2, PastTheEnd, Zenon DEF n
  <2>4. QED
    BY <1>1, <2>1, <2>3, AcceptMalformed, Zenon
<1>7. CASE ~AfterStr(rd).bad
  <2>1. rd' = AfterStr(rd) /\ GoTo("key") /\ inner' = inner /\ cert' = cert
    BY <1>4, <1>7, Zenon DEF SkipNonce, Skip
  <2>2. OnField(blob, AfterStr(rd), n, 2)
    BY <1>5, Zenon DEF StringTaken
  <2>3. Come("key", blob, cert', rd', inner')
    BY <1>1, <2>1, <2>2, Zenon DEF Come, n
  <2>4. QED
    BY <1>1, <2>1, <2>3, AcceptField, Zenon
<1>8. QED
  BY <1>6, <1>7

\* The fields of a key, one or two (sshcert.c:118-121).
LEMMA KeyFieldsRead ==
  ASSUME NEW r, NEW n, NEW j
  PROVE  blob \in Seq(Nat) /\ n \in 1..2 /\ j = n + 2 /\ OnField(blob, r, n, 2)
         => /\ OnField(blob, AfterStrs(r, n), n, j)
            /\ ~AfterStrs(r, n).bad => /\ AfterStrs(r, n).at = Ends(blob, n)[j]
                                       /\ Ends(blob, n)[j] <= Len(blob)
            /\ AfterStrs(r, n).bad => Ends(blob, n)[j] > Len(blob)
<1>0. HAVE blob \in Seq(Nat) /\ n \in 1..2 /\ j = n + 2 /\ OnField(blob, r, n, 2)
<1>1. StringTaken(r, n, 3)
  <2>1. 3 = 2 + 1 /\ 3 \in 1..n + 16 /\ 3 \notin Numbers(n)
    BY <1>0 DEF Numbers
  <2>2. /\ blob \in Seq(Nat) /\ OnField(blob, r, n, 2)
        /\ 3 = 2 + 1 /\ 3 \in 1..n + 16 /\ 3 \notin Numbers(n)
    BY <1>0, <2>1, Zenon
  <2>3. QED
    BY <2>2, StringField, Zenon
<1>2. CASE n = 1
  <2>1. j = 3
    BY <1>0, <1>2
  <2>2. AfterStrs(r, n) = AfterStr(r)
    BY <1>2 DEF AfterStrs
  <2>3. QED
    BY <1>1, <2>1, <2>2, Zenon DEF StringTaken
<1>3. CASE n = 2
  <2> DEFINE s == AfterStr(r)
  <2>1. j = 4 /\ 4 = 3 + 1 /\ 4 \in 1..n + 16 /\ 4 \notin Numbers(n)
    BY <1>0, <1>3 DEF Numbers
  <2>2. AfterStrs(r, n) = AfterStr(s)
    BY <1>3 DEF AfterStrs
  <2>3. OnField(blob, s, n, 3)
    BY <1>1, Zenon DEF StringTaken
  <2> HIDE DEF s
  <2>4. /\ blob \in Seq(Nat) /\ OnField(blob, s, n, 3)
        /\ 4 = 3 + 1 /\ 4 \in 1..n + 16 /\ 4 \notin Numbers(n)
    BY <1>0, <2>1, <2>3, Zenon
  <2>5. StringTaken(s, n, 4)
    BY <2>4, StringField, Zenon
  <2>6. QED
    BY <2>1, <2>2, <2>5, Zenon DEF StringTaken
<1>4. QED
  BY <1>0, <1>2, <1>3

\* The key the certificate is for (sshcert.c:114-132).
LEMMA AcceptKey ==
  ASSUME CertInv, AcceptInv, ReadKey
  PROVE  AcceptInv'
<1> DEFINE n == Fields(blob)
           base == BaseName(blob)
           after == AfterStrs(rd, n)
           key == Prefixed(base, rd.at, after.at)
           j == n + 2
<1>1. /\ certStatus = "reading" /\ lineType = FirstName(blob)
      /\ HasAlgo(blob, cert) /\ OnField(blob, rd, n, 2) /\ cert.principals = <<>>
      /\ blob \in Seq(Nat) /\ Len(blob) \in Nat /\ cert \in CertRecord
  <2>1. At("key")
    BY Zenon DEF ReadKey
  <2>2. Arrived("key")
    BY <2>1, ComeTo, Zenon
  <2>3. "key" \notin NamesKnown
    BY DEF NamesKnown
  <2>4. QED
    BY <2>2, <2>3, Zenon DEF Arrived, Come
<1>2. Handled(blob) /\ n \in 1..2 /\ base \in Seq(Nat) /\ cert.algo = FirstName(blob)
  BY <1>1, HandledNames, Zenon DEF HasAlgo
<1>3. KeyFields(cert.algo) = n /\ CertAlgo[cert.algo].base = base
  BY <1>2, Zenon DEF Fields, BaseName
<1> HIDE DEF n, base
<1>4. j \in 0..n + 16 /\ 2 \in 0..n + 16 /\ 2 <= j
  BY <1>2
<1> HIDE DEF j
<1>5. /\ OnField(blob, after, n, j)
      /\ ~after.bad => after.at = Ends(blob, n)[j] /\ Ends(blob, n)[j] <= Len(blob)
      /\ after.bad => Ends(blob, n)[j] > Len(blob)
  <2>1. blob \in Seq(Nat) /\ n \in 1..2 /\ j = n + 2 /\ OnField(blob, rd, n, 2)
    BY <1>1, <1>2, Zenon DEF j
  <2>2. QED
    BY <2>1, KeyFieldsRead, Zenon
<1> HIDE DEF after
<1>6. CASE after.bad
  <2>1. Refuse("MALFORMED")
    BY <1>3, <1>6, Zenon DEF ReadKey, after
  <2>2. ~IsWhole(blob)
    BY <1>1, <1>2, <1>4, <1>5, <1>6, PastTheEnd, Zenon DEF n
  <2>3. QED
    BY <1>1, <2>1, <2>2, AcceptMalformed, Zenon
<1>7. ASSUME ~after.bad
      PROVE  /\ key = <<Len(base)>> \o base \o KeyOf(blob)
             /\ Len(key) = 1 + Len(base) + Len(KeyOf(blob))
             /\ Len(key) \in Nat
  <2>1. rd.at = Ends(blob, n)[2] /\ Ends(blob, n)[2] \in Nat
    <3>1. blob \in Seq(Nat) /\ n \in 1..2 /\ 2 \in 0..n + 16 /\ j \in 0..n + 16 /\ 2 <= j
      BY <1>1, <1>2, <1>4, Zenon
    <3>2. Ends(blob, n)[2] <= Len(blob) /\ Ends(blob, n)[2] \in Nat
      BY <1>5, <1>7, <3>1, EarlierFields, Zenon
    <3>3. Stands(rd, Ends(blob, n)[2]) /\ rd.end = Len(blob)
      BY <1>1, Zenon DEF OnField
    <3>4. QED
      BY <3>2, <3>3, Zenon DEF Stands
  <2> DEFINE cells == SubSeq(blob, rd.at + 1, after.at)
  <2>2. cells = KeyOf(blob)
    BY <1>5, <1>7, <2>1, Zenon DEF KeyOf, n, j
  <2>3. cells \in Seq(Nat)
    <3> DEFINE m == rd.at + 1
               l == after.at
    <3>1. m \in Nat \ {0}
      BY <2>1
    <3>2. l \in Nat /\ l <= Len(blob)
      BY <1>5, <1>7 DEF OnField, Cursor
    <3> HIDE DEF m, l
    <3>3. SubSeq(blob, m, l) \in Seq(Nat)
      BY <1>1, <3>1, <3>2, PartOfCells
    <3>4. QED
      BY <3>3 DEF m, l
  <2> HIDE DEF cells
  <2> DEFINE head == <<Len(base)>>
  <2>4. head \in Seq(Nat) /\ Len(head) = 1 /\ Len(base) \in Nat
    BY <1>2, LenProperties
  <2> HIDE DEF head
  <2>5. head \o base \in Seq(Nat) /\ Len(head \o base) = 1 + Len(base)
    <3>1. base \in Seq(Nat)
      BY <1>2
    <3>2. head \o base \in Seq(Nat) /\ Len(head \o base) = Len(head) + Len(base)
      BY <2>4, <3>1, ConcatProperties
    <3>3. QED
      BY <2>4, <3>2
  <2> DEFINE front == head \o base
  <2> HIDE DEF front
  <2>6. front \in Seq(Nat) /\ Len(front) = 1 + Len(base)
    BY <2>5 DEF front
  <2>7. Len(front \o cells) = Len(front) + Len(cells) /\ Len(cells) \in Nat
    BY <2>3, <2>6, ConcatProperties, LenProperties
  <2>8. key = front \o cells
    BY Zenon DEF Prefixed, front, head, cells
  <2> HIDE DEF key
  <2>9. Len(key) = 1 + Len(base) + Len(cells) /\ Len(key) \in Nat
    BY <2>4, <2>6, <2>7, <2>8
  <2>10. QED
    BY <2>2, <2>8, <2>9, Zenon DEF front, head
<1>8. CASE ~after.bad /\ Len(key) > KeyCap
  <2>1. Refuse("MALFORMED")
    BY <1>3, <1>8, Zenon DEF ReadKey, after
  <2>2. ~(1 + Len(base) + Len(KeyOf(blob)) <= KeyCap)
    <3>1. KeyCap \in Nat
      BY CertificateAssumption
    <3> HIDE DEF key
    <3>2. Len(key) = 1 + Len(base) + Len(KeyOf(blob)) /\ Len(key) \in Nat /\ Len(key) > KeyCap
      BY <1>7, <1>8, Zenon
    <3>3. ~(Len(key) <= KeyCap)
      BY <3>1, <3>2
    <3>4. QED
      BY <3>2, <3>3, Zenon
  <2>3. ~IsWhole(blob)
    BY <2>2, Zenon DEF IsWhole, base
  <2>4. QED
    BY <1>1, <2>1, <2>3, AcceptMalformed, Zenon
<1>9. CASE ~after.bad /\ ~(Len(key) > KeyCap)
  <2>1. /\ cert' = [cert EXCEPT !.keyBlob = key] /\ rd' = after
        /\ GoTo("class") /\ inner' = inner
    BY <1>3, <1>9, Zenon DEF ReadKey, after
  <2> HIDE DEF key
  <2>2. cert'.keyBlob = key /\ cert'.algo = cert.algo /\ cert'.principals = cert.principals
    BY <1>1, <2>1 DEF CertRecord
  <2>3. HasKey(blob, cert')
    <3>1. KeyCap \in Nat
      BY CertificateAssumption
    <3>2. Len(key) = 1 + Len(base) + Len(KeyOf(blob)) /\ Len(key) \in Nat /\ ~(Len(key) > KeyCap)
      BY <1>7, <1>9, Zenon
    <3>3. Len(key) <= KeyCap
      BY <3>1, <3>2
    <3>4. key = <<Len(base)>> \o base \o KeyOf(blob)
      BY <1>7, <1>9, Zenon
    <3>5. QED
      BY <2>2, <3>2, <3>3, <3>4, Zenon DEF HasKey, base
  <2>4. ToClass(blob, cert')
    BY <1>1, <2>2, <2>3, Zenon DEF ToClass, HasAlgo
  <2>5. OnField(blob, rd', n, n + 2)
    BY <1>5, <2>1, Zenon DEF j
  <2>6. Come("class", blob, cert', rd', inner')
    BY <2>4, <2>5, Zenon DEF Come, n
  <2>7. QED
    BY <1>1, <2>1, <2>2, <2>6, AcceptField, Zenon
<1>10. QED
  BY <1>6, <1>8, <1>9

\* Two cells of a blob, as a sequence (sshwire.c:45-51).
LEMMA TwoCells ==
  ASSUME NEW b \in Seq(Nat), NEW p \in Nat, NEW q, q = p + 2, q <= Len(b)
  PROVE  SubSeq(b, p + 1, q) = <<b[p + 1], b[p + 2]>>
<1>1. Len(b) \in Nat /\ p + 1 \in 1..Len(b) /\ p + 2 \in 1..Len(b)
  BY LenProperties
<1>2. b[p + 1] \in Nat /\ b[p + 2] \in Nat
  BY <1>1, ElementOfSeq
<1> DEFINE m == p + 1
<1>3. m \in Nat \ {0} /\ q \in Nat /\ \A i \in m..q : i \in 1..Len(b)
  BY <1>1
<1> HIDE DEF m
<1>4. /\ SubSeq(b, m, q) \in Seq(Nat)
      /\ Len(SubSeq(b, m, q)) = IF m <= q THEN q - m + 1 ELSE 0
      /\ \A i \in 1..q - m + 1 : SubSeq(b, m, q)[i] = b[m + i - 1]
  <2>1. \A i \in m..q : b[i] \in Nat
    BY <1>3, ElementOfSeq
  <2>2. SubSeq(b, m, q) \in Seq(Nat)
    BY <1>3, PartOfCells
  <2>3. /\ Len(SubSeq(b, m, q)) = IF m <= q THEN q - m + 1 ELSE 0
        /\ \A i \in 1..q - m + 1 : SubSeq(b, m, q)[i] = b[m + i - 1]
    BY <1>3, <2>1, SubSeqProperties
  <2>4. QED
    BY <2>2, <2>3
<1> DEFINE s == SubSeq(b, m, q)
<1>5. m = p + 1 /\ q = p + 2
  BY DEF m
<1> HIDE DEF s
<1>6. s \in Seq(Nat) /\ Len(s) = 2 /\ s[1] = b[p + 1] /\ s[2] = b[p + 2]
  <2>1. s \in Seq(Nat) /\ Len(s) = 2
    BY <1>3, <1>4, <1>5 DEF s
  <2>2. 1 \in 1..q - m + 1 /\ 2 \in 1..q - m + 1 /\ m + 1 - 1 = p + 1 /\ m + 2 - 1 = p + 2
    BY <1>5
  <2>3. s[1] = b[m + 1 - 1] /\ s[2] = b[m + 2 - 1]
    BY <1>4, <2>2 DEF s
  <2>4. QED
    BY <2>1, <2>2, <2>3
<1>7. s = <<b[p + 1], b[p + 2]>>
  BY <1>6, <1>2
<1>8. QED
  BY <1>7 DEF s, m

\* Fields k + 1 to m have been read as a uint64 with r.
LongTaken(r, n, k, m) ==
  /\ OnField(blob, AfterU64(r), n, m)
  /\ Ends(blob, n)[m] <= Len(blob) =>
       U64(r) = SubSeq(blob, Ends(blob, n)[k] + 1, Ends(blob, n)[m])

\* A uint64 of the format read: two numbers (sshwire.c:45-51).
LEMMA LongNumberField ==
  ASSUME NEW r, NEW n, NEW k, NEW m
  PROVE  /\ blob \in Seq(Nat) /\ OnField(blob, r, n, k) /\ m = k + 2
         /\ m \in 1..n + 16 /\ m \in Numbers(n) /\ k + 1 \in Numbers(n)
         => LongTaken(r, n, k, m)
<1>0. HAVE /\ blob \in Seq(Nat) /\ OnField(blob, r, n, k) /\ m = k + 2
           /\ m \in 1..n + 16 /\ m \in Numbers(n) /\ k + 1 \in Numbers(n)
<1> DEFINE j == k + 1
           s == After32(r)
           end == Ends(blob, n)
<1>1. n \in 1..2 /\ k \in 0..n + 16
  BY <1>0, Zenon DEF OnField
<1>2. /\ j = k + 1 /\ m = j + 1 /\ j \in 1..n + 16 /\ j \in 0..n + 16 /\ m \in 0..n + 16
      /\ j <= m /\ k <= m /\ j - 1 = k /\ m - 1 = j /\ j \in Numbers(n)
  BY <1>0, <1>1
<1> HIDE DEF j
<1>3. NumberTaken(r, n, j)
  <2>1. /\ blob \in Seq(Nat) /\ OnField(blob, r, n, k)
        /\ j = k + 1 /\ j \in 1..n + 16 /\ j \in Numbers(n)
    BY <1>0, <1>2, Zenon
  <2>2. QED
    BY <2>1, NumberField, Zenon
<1>4. OnField(blob, s, n, j)
  BY <1>3, Zenon DEF NumberTaken
<1> HIDE DEF s
<1>5. NumberTaken(s, n, m)
  <2>1. /\ blob \in Seq(Nat) /\ OnField(blob, s, n, j)
        /\ m = j + 1 /\ m \in 1..n + 16 /\ m \in Numbers(n)
    BY <1>0, <1>2, <1>4, Zenon
  <2>2. QED
    BY <2>1, NumberField, Zenon
<1>6. OnField(blob, AfterU64(r), n, m)
  BY <1>5, Zenon DEF NumberTaken, AfterU64, s
<1>7. ASSUME Ends(blob, n)[m] <= Len(blob)
      PROVE  U64(r) = SubSeq(blob, Ends(blob, n)[k] + 1, Ends(blob, n)[m])
  <2> HIDE DEF end
  <2>0. blob \in Seq(Nat) /\ n \in 1..2 /\ j \in 0..n + 16 /\ m \in 0..n + 16 /\ j <= m
    BY <1>0, <1>1, <1>2, Zenon
  <2>1. end[j] <= Len(blob) /\ end[j] \in Nat /\ end[m] \in Nat /\ end[m] <= Len(blob)
    BY <1>7, <2>0, EarlierFields, Zenon DEF end
  <2>k. blob \in Seq(Nat) /\ n \in 1..2 /\ k \in 0..n + 16 /\ m \in 0..n + 16 /\ k <= m
    BY <1>0, <1>1, <1>2, Zenon
  <2>2. end[k] \in Nat
    BY <2>k, EarlierFields, Zenon DEF end
  <2>3. U32(r) = blob[end[j]] /\ end[j] = end[j - 1] + 1
    BY <1>3, <2>1, Zenon DEF NumberTaken, end
  <2>4. U32(s) = blob[end[m]] /\ end[m] = end[m - 1] + 1
    BY <1>5, <2>1, Zenon DEF NumberTaken, end
  <2>5. end[j] = end[k] + 1 /\ end[m] = end[j] + 1
    BY <1>2, <2>3, <2>4, Zenon
  <2>6. U64(r) = <<blob[end[j]], blob[end[m]]>>
    BY <2>3, <2>4, Zenon DEF U64, s
  <2> DEFINE p == end[k]
             q == end[m]
  <2>7. p \in Nat /\ q = p + 2 /\ q <= Len(blob) /\ end[j] = p + 1 /\ q = p + 2
    BY <2>1, <2>2, <2>5
  <2>8. SubSeq(blob, p + 1, q) = <<blob[p + 1], blob[p + 2]>>
    <3> HIDE DEF p, q
    <3>1. QED
      BY <1>0, <2>7, TwoCells
  <2>9. QED
    BY <2>6, <2>7, <2>8, Zenon DEF end
<1>8. QED
  BY <1>6, <1>7, Zenon DEF LongTaken

\* The serial, passed over by what is checked, and the class (sshcert.c:134-146).
LEMMA AcceptClass ==
  ASSUME CertInv, AcceptInv, ReadClass
  PROVE  AcceptInv'
<1> DEFINE n == Fields(blob)
           r == AfterU64(rd)
           k == n + 2
           m == n + 4
           j == n + 5
<1>1. /\ certStatus = "reading" /\ lineType = FirstName(blob)
      /\ ToClass(blob, cert) /\ OnField(blob, rd, n, k) /\ cert.principals = <<>>
      /\ blob \in Seq(Nat) /\ Len(blob) \in Nat /\ cert \in CertRecord
  <2>1. At("class")
    BY Zenon DEF ReadClass
  <2>2. Arrived("class")
    BY <2>1, ComeTo, Zenon
  <2>3. "class" \notin NamesKnown
    BY DEF NamesKnown
  <2>4. QED
    BY <2>2, <2>3, Zenon DEF Arrived, Come
<1>2. Handled(blob) /\ n \in 1..2
  BY <1>1, HandledNames, Zenon DEF ToClass, HasAlgo
<1> HIDE DEF n
<1>3. /\ m = k + 2 /\ m \in 1..n + 16 /\ m \in Numbers(n) /\ k + 1 \in Numbers(n)
      /\ j = m + 1 /\ j \in 1..n + 16 /\ j \in Numbers(n) /\ j \in 0..n + 16
  BY <1>2 DEF Numbers
<1> HIDE DEF k, m, j
<1>4. OnField(blob, r, n, m)
  <2>1. /\ blob \in Seq(Nat) /\ OnField(blob, rd, n, k) /\ m = k + 2
        /\ m \in 1..n + 16 /\ m \in Numbers(n) /\ k + 1 \in Numbers(n)
    BY <1>1, <1>3, Zenon
  <2>2. LongTaken(rd, n, k, m)
    BY <2>1, LongNumberField, Zenon
  <2>3. QED
    BY <2>2, Zenon DEF LongTaken, r
<1> HIDE DEF r
<1>5. NumberTaken(r, n, j)
  <2>1. /\ blob \in Seq(Nat) /\ OnField(blob, r, n, m)
        /\ j = m + 1 /\ j \in 1..n + 16 /\ j \in Numbers(n)
    BY <1>1, <1>3, <1>4, Zenon
  <2>2. QED
    BY <2>1, NumberField, Zenon
<1>6. CASE U32(r) # User
  <2>1. Refuse("NOT_USER")
    BY <1>6, Zenon DEF ReadClass, r
  <2>2. ~SaysUser(blob)
    <3> SUFFICES ASSUME SaysUser(blob) PROVE FALSE
      OBVIOUS
    <3>1. Ends(blob, n)[j] <= Len(blob) /\ blob[Ends(blob, n)[j]] = User
      BY Zenon DEF SaysUser, IsUser, n, j
    <3>2. U32(r) = blob[Ends(blob, n)[j]]
      BY <1>5, <3>1, Zenon DEF NumberTaken
    <3>3. QED
      BY <1>6, <3>1, <3>2, Zenon
  <2>3. ~(IsWhole(blob) /\ IsUser(blob))
    <3> SUFFICES ASSUME IsWhole(blob), IsUser(blob) PROVE FALSE
      OBVIOUS
    <3> DEFINE e == Ends(blob, n)[j]
    <3>1. ~(e > Len(blob))
      BY <1>1, <1>2, <1>3, PastTheEnd, Zenon DEF n
    <3>2. e \in Nat
      <4>1. blob \in Seq(Nat) /\ n \in 1..2 /\ j \in 0..n + 16 /\ j \in 0..n + 16 /\ j <= j
        BY <1>1, <1>2, <1>3
      <4>2. QED
        BY <4>1, EarlierFields, Zenon
    <3> HIDE DEF e
    <3>3. e <= Len(blob)
      BY <1>1, <3>1, <3>2
    <3>4. QED
      BY <2>2, <3>3, Zenon DEF SaysUser, e, n, j
  <2>4. "NOT_USER" \in {"MALFORMED", "UNSUPPORTED", "NOT_USER"}
    OBVIOUS
  <2>5. QED
    BY <1>1, <1>2, <2>1, <2>2, <2>3, <2>4, AcceptRefuse, Zenon
<1>7. CASE U32(r) = User
  <2>1. /\ cert' = [cert EXCEPT !.serial = U64(rd), !.class = U32(r)]
        /\ rd' = After32(r) /\ GoTo("key id") /\ inner' = inner
    BY <1>7, Zenon DEF ReadClass, r
  <2>2. IsUser(blob)
    <3>1. ~(Ends(blob, n)[j] > Len(blob))
      <4>1. User # 0
        BY DEF User
      <4>2. QED
        BY <1>5, <1>7, <4>1, Zenon DEF NumberTaken
    <3>2. Ends(blob, n)[j] \in Nat
      <4>1. blob \in Seq(Nat) /\ n \in 1..2 /\ j \in 0..n + 16 /\ j \in 0..n + 16 /\ j <= j
        BY <1>1, <1>2, <1>3
      <4>2. QED
        BY <4>1, EarlierFields, Zenon
    <3>3. Ends(blob, n)[j] <= Len(blob)
      <4> DEFINE e == Ends(blob, n)[j]
      <4>1. e \in Nat /\ ~(e > Len(blob))
        BY <3>1, <3>2
      <4> HIDE DEF e
      <4>2. e <= Len(blob)
        BY <1>1, <4>1
      <4>3. QED
        BY <4>2 DEF e
    <3>4. U32(r) = blob[Ends(blob, n)[j]]
      BY <1>5, <3>3, Zenon DEF NumberTaken
    <3>5. QED
      BY <1>7, <3>4, Zenon DEF IsUser, n, j
  <2>3. /\ cert'.algo = cert.algo /\ cert'.keyBlob = cert.keyBlob
        /\ cert'.principals = cert.principals
    BY <1>1, <2>1 DEF CertRecord
  <2>4. ToId(blob, cert')
    BY <1>1, <2>2, <2>3, Zenon DEF ToId, ToClass, HasAlgo, HasKey
  <2>5. OnField(blob, rd', n, n + 5)
    BY <1>5, <2>1, Zenon DEF NumberTaken, j
  <2>6. Come("key id", blob, cert', rd', inner')
    BY <2>4, <2>5, Zenon DEF Come, n
  <2>7. QED
    BY <1>1, <2>1, <2>3, <2>6, AcceptField, Zenon
<1>8. QED
  BY <1>6, <1>7

\* The key id (sshcert.c:148-150).
LEMMA AcceptKeyId ==
  ASSUME CertInv, AcceptInv, ReadKeyId
  PROVE  AcceptInv'
<1> DEFINE n == Fields(blob)
           k == n + 5
           j == n + 6
<1>1. /\ certStatus = "reading" /\ lineType = FirstName(blob)
      /\ ToId(blob, cert) /\ OnField(blob, rd, n, k) /\ cert.principals = <<>>
      /\ blob \in Seq(Nat) /\ Len(blob) \in Nat /\ cert \in CertRecord
  <2>1. At("key id")
    BY Zenon DEF ReadKeyId
  <2>2. Arrived("key id")
    BY <2>1, ComeTo, Zenon
  <2>3. "key id" \notin NamesKnown
    BY DEF NamesKnown
  <2>4. QED
    BY <2>2, <2>3, Zenon DEF Arrived, Come
<1>2. Handled(blob) /\ n \in 1..2
  BY <1>1, HandledNames, Zenon DEF ToId, ToClass, HasAlgo
<1> HIDE DEF n
<1>3. j = k + 1 /\ j \in 1..n + 16 /\ j \notin Numbers(n) /\ j \in 0..n + 16
  BY <1>2 DEF Numbers
<1> HIDE DEF k, j
<1>4. StringTaken(rd, n, j)
  <2>1. /\ blob \in Seq(Nat) /\ OnField(blob, rd, n, k)
        /\ j = k + 1 /\ j \in 1..n + 16 /\ j \notin Numbers(n)
    BY <1>1, <1>3, Zenon
  <2>2. QED
    BY <2>1, StringField, Zenon
<1>5. CASE AfterStr(rd).bad
  <2>1. Refuse("MALFORMED")
    BY <1>5, Zenon DEF ReadKeyId
  <2>2. Ends(blob, n)[j] > Len(blob)
    BY <1>4, <1>5, Zenon DEF StringTaken
  <2>3. ~IsWhole(blob)
    BY <1>1, <1>2, <1>3, <2>2, PastTheEnd, Zenon DEF n
  <2>4. QED
    BY <1>1, <2>1, <2>3, AcceptMalformed, Zenon
<1>6. CASE ~AfterStr(rd).bad
  <2>1. /\ cert' = [cert EXCEPT !.keyId = Str(rd)] /\ rd' = AfterStr(rd)
        /\ GoTo("principals") /\ inner' = inner
    BY <1>6, Zenon DEF ReadKeyId
  <2>2. /\ cert'.algo = cert.algo /\ cert'.keyBlob = cert.keyBlob
        /\ cert'.principals = cert.principals /\ cert'.keyId = Str(rd)
    BY <1>1, <2>1 DEF CertRecord
  <2>3. HasId(blob, cert')
    BY <1>4, <1>6, <2>2, Zenon DEF HasId, StringTaken, n, j
  <2>4. ToNames(blob, cert')
    BY <1>1, <2>2, <2>3, Zenon DEF ToNames, ToId, ToClass, HasAlgo, HasKey
  <2>5. OnField(blob, rd', n, n + 6)
    BY <1>4, <2>1, Zenon DEF StringTaken, j
  <2>6. Come("principals", blob, cert', rd', inner')
    BY <2>4, <2>5, Zenon DEF Come, n
  <2>7. QED
    BY <1>1, <2>1, <2>2, <2>6, AcceptField, Zenon
<1>7. QED
  BY <1>5, <1>6

\* A string that was taken is a part of the blob.
LEMMA SliceWithin ==
  ASSUME NEW s, SliceOK(s)
  PROVE  Within(blob, s)
BY DEF SliceOK, Slice, Within

\* Before the first string of a part.
LEMMA NoStringYet ==
  ASSUME NEW b, NEW s
  PROVE  b \in Seq(Nat) /\ Within(b, s) => Reaches(b, s, 0) /\ NameEnds(b, s)[0] = s.from
<1>0. HAVE b \in Seq(Nat) /\ Within(b, s)
<1>1. s.from \in Nat /\ s.to \in Nat /\ s.from <= s.to /\ s.to <= Len(b)
  BY <1>0, Zenon DEF Within
<1>2. NameEnds(b, s)[0] = s.from
  BY <1>0, <1>1, NamesEnd, Zenon
<1>3. 0 \in 0..s.to - s.from
  BY <1>1
<1>4. QED
  BY <1>1, <1>2, <1>3, Zenon DEF Reaches

\* The principals, as one string (sshcert.c:151-153, 50-55).
LEMMA AcceptPrincipals ==
  ASSUME CertInv, AcceptInv, ReadPrincipals
  PROVE  AcceptInv'
<1> DEFINE n == Fields(blob)
           k == n + 6
           j == n + 7
           s == NamesOf(blob)
<1>1. /\ certStatus = "reading" /\ lineType = FirstName(blob)
      /\ ToNames(blob, cert) /\ OnField(blob, rd, n, k) /\ cert.principals = <<>>
      /\ blob \in Seq(Nat) /\ Len(blob) \in Nat /\ ReaderOK(rd)
  <2>1. At("principals")
    BY Zenon DEF ReadPrincipals
  <2>2. Arrived("principals")
    BY <2>1, ComeTo, Zenon
  <2>3. "principals" \notin NamesKnown
    BY DEF NamesKnown
  <2>4. QED
    BY <2>2, <2>3, Zenon DEF Arrived, Come
<1>2. Handled(blob) /\ n \in 1..2
  BY <1>1, HandledNames, Zenon DEF ToNames, ToId, ToClass, HasAlgo
<1>s. s = FieldOf(Ends(blob, n), j)
  BY Zenon DEF NamesOf
<1> HIDE DEF n, s
<1>3. j = k + 1 /\ j \in 1..n + 16 /\ j \notin Numbers(n) /\ j \in 0..n + 16
  BY <1>2 DEF Numbers
<1> HIDE DEF k, j
<1>4. StringTaken(rd, n, j)
  <2>1. /\ blob \in Seq(Nat) /\ OnField(blob, rd, n, k)
        /\ j = k + 1 /\ j \in 1..n + 16 /\ j \notin Numbers(n)
    BY <1>1, <1>3, Zenon
  <2>2. QED
    BY <2>1, StringField, Zenon
<1>5. CASE AfterStr(rd).bad
  <2>1. Refuse("MALFORMED")
    BY <1>5, Zenon DEF ReadPrincipals
  <2>2. Ends(blob, n)[j] > Len(blob)
    BY <1>4, <1>5, Zenon DEF StringTaken
  <2>3. ~IsWhole(blob)
    BY <1>1, <1>2, <1>3, <2>2, PastTheEnd, Zenon DEF n
  <2>4. QED
    BY <1>1, <2>1, <2>3, AcceptMalformed, Zenon
<1>6. CASE ~AfterStr(rd).bad
  <2>1. /\ inner' = Reader(Str(rd)) /\ rd' = AfterStr(rd) /\ GoTo("name") /\ cert' = cert
    BY <1>6, Zenon DEF ReadPrincipals
  <2>2. Str(rd) = s
    BY <1>4, <1>6, <1>s, Zenon DEF StringTaken
  <2>3. Within(blob, s)
    <3>1. SliceOK(Str(rd))
      BY <1>1, <1>6, StringRead
    <3>2. QED
      BY <2>2, <3>1, SliceWithin, Zenon
  <2>4. Reaches(blob, s, 0) /\ NameEnds(blob, s)[0] = s.from
    BY <1>1, <2>3, NoStringYet, Zenon
  <2>5. Len(cert.principals) = 0
    BY <1>1
  <2>6. inner' = [at |-> NameEnds(blob, s)[Len(cert.principals)], end |-> s.to, bad |-> FALSE]
    BY <2>1, <2>2, <2>4, <2>5, Zenon DEF Reader
  <2>7. HasNames(blob, cert)
    <3>1. 0 <= MaxCertPrincipals /\ 1..0 = {}
      BY CertificateAssumption
    <3>2. Taken(blob, s, 0, cert.principals)
      BY <2>4, <3>1, Zenon DEF Taken
    <3>3. QED
      BY <2>3, <2>5, <3>1, <3>2, Zenon DEF HasNames, s
  <2>8. OnField(blob, rd', n, n + 7)
    BY <1>4, <2>1, Zenon DEF StringTaken, j
  <2>9. Come("name", blob, cert', rd', inner')
    BY <1>1, <2>1, <2>6, <2>7, <2>8, Zenon DEF Come, n, s
  <2>10. QED
    BY <1>1, <2>1, <2>9, AcceptField, Zenon
<1>7. QED
  BY <1>5, <1>6

\* One principal (sshcert.c:56-71): a list that is too long is refused.
LEMMA AcceptName ==
  ASSUME CertInv, AcceptInv, ReadName
  PROVE  AcceptInv'
<1> DEFINE n == Fields(blob)
           s == NamesOf(blob)
           list == cert.principals
           k == Len(list)
           j == k + 1
<1>1. /\ certStatus = "reading" /\ lineType = FirstName(blob)
      /\ ToNames(blob, cert) /\ HasNames(blob, cert) /\ OnField(blob, rd, n, n + 7)
      /\ inner = [at |-> NameEnds(blob, s)[k], end |-> s.to, bad |-> FALSE]
      /\ blob \in Seq(Nat) /\ Len(blob) \in Nat /\ cert \in CertRecord
  <2>1. At("name")
    BY Zenon DEF ReadName
  <2>2. Arrived("name")
    BY <2>1, ComeTo, Zenon
  <2>3. QED
    BY <2>2, Zenon DEF Arrived, Come
<1>2. /\ Within(blob, s) /\ Reaches(blob, s, k) /\ k <= MaxCertPrincipals
      /\ \A i \in 1..k : list[i] = FieldOf(NameEnds(blob, s), i)
  BY <1>1, Zenon DEF HasNames, Taken
<1>3. list \in Seq(Slice) /\ k \in Nat /\ MaxCertPrincipals \in Nat
  <2>1. list \in Seq(Slice)
    BY <1>1 DEF CertRecord
  <2>2. k \in Nat
    BY <2>1, LenProperties
  <2>3. QED
    BY <2>1, <2>2, CertificateAssumption
<1>4. IsUser(blob)
  BY <1>1, Zenon DEF ToNames, ToId
<1> HIDE DEF n, s
<1>5. NameEnds(blob, s)[k] # s.to
  <2>1. ~Done(inner)
    BY Zenon DEF ReadName
  <2>2. ~inner.bad /\ inner.at = NameEnds(blob, s)[k] /\ inner.end = s.to
    BY <1>1
  <2>3. QED
    BY <2>1, <2>2, Zenon DEF Done
<1>6. /\ ~AfterStr(inner).bad =>
           /\ Reaches(blob, s, j)
           /\ AfterStr(inner) = [at |-> NameEnds(blob, s)[j], end |-> s.to, bad |-> FALSE]
           /\ Str(inner) = FieldOf(NameEnds(blob, s), j)
      /\ AfterStr(inner).bad => \A m : ~ComesOutAfter(blob, s, m)
  <2> HIDE DEF k, j
  <2>1. /\ blob \in Seq(Nat) /\ Within(blob, s) /\ Reaches(blob, s, k) /\ j = k + 1
        /\ inner = [at |-> NameEnds(blob, s)[k], end |-> s.to, bad |-> FALSE]
    BY <1>1, <1>2, Zenon DEF j
  <2>2. NameTaken(inner, s, k, j)
    BY <2>1, NameString, Zenon
  <2>3. QED
    BY <1>5, <2>2, Zenon DEF NameTaken
<1>7. CASE AfterStr(inner).bad \/ TooMany
  <2>1. Refuse("MALFORMED")
    BY <1>7, Zenon DEF ReadName
  <2>2. \A m \in 0..MaxCertPrincipals : ~ComesOutAfter(blob, s, m)
    <3>1. CASE AfterStr(inner).bad
      BY <1>6, <3>1, Zenon
    <3>2. CASE TooMany
      <4>1. k >= MaxCertPrincipals
        BY <3>2, Zenon DEF TooMany
      <4>2. \A m : ComesOutAfter(blob, s, m) => m > k /\ m \in 0..s.to - s.from
        BY <1>1, <1>2, <1>5, ComesOutOnce, Zenon
      <4>3. \A m \in 0..MaxCertPrincipals : ~(m > k)
        BY <1>3, <4>1
      <4>4. QED
        BY <4>2, <4>3, Zenon
    <3>3. QED
      BY <1>7, <3>1, <3>2
  <2>3. ~EvenInside(blob)
    BY <2>2, Zenon DEF EvenInside, s
  <2>4. QED
    BY <1>1, <1>4, <2>1, <2>3, AcceptMalformed, Zenon
<1>8. CASE ~(AfterStr(inner).bad \/ TooMany)
  <2> DEFINE more == Append(list, Str(inner))
  <2>1. /\ cert' = [cert EXCEPT !.principals = more]
        /\ inner' = AfterStr(inner) /\ GoTo("name") /\ rd' = rd
    <3>1. /\ cert' = [cert EXCEPT !.principals = Append(@, Str(inner))]
          /\ inner' = AfterStr(inner) /\ GoTo("name") /\ rd' = rd
      BY <1>8, Zenon DEF ReadName
    <3>2. [cert EXCEPT !.principals = Append(@, Str(inner))] = [cert EXCEPT !.principals = more]
      BY <1>1 DEF CertRecord
    <3>3. QED
      BY <3>1, <3>2, Zenon
  <2>2. Str(inner) \in Slice
    <3>1. ReaderOK(inner)
      BY DEF CertInv, ReadersInv
    <3>2. SliceOK(Str(inner))
      BY <1>1, <1>8, <3>1, StringRead
    <3>3. QED
      BY <3>2 DEF SliceOK
  <2>3. /\ Len(more) = j /\ more[j] = Str(inner) /\ j \in Nat
        /\ \A i \in 1..k : more[i] = list[i]
    BY <1>3, <2>2, AppendProperties
  <2> HIDE DEF more
  <2>4. /\ cert'.algo = cert.algo /\ cert'.keyBlob = cert.keyBlob /\ cert'.keyId = cert.keyId
        /\ cert'.principals = more
    BY <1>1, <2>1 DEF CertRecord
  <2>5. j <= MaxCertPrincipals
    <3>1. ~(k >= MaxCertPrincipals)
      BY <1>8, Zenon DEF TooMany
    <3>2. QED
      BY <1>3, <3>1
  <2>6. Taken(blob, s, j, more)
    <3>1. \A i \in 1..j : i \in 1..k \/ i = j
      BY <1>3
    <3>2. \A i \in 1..j : more[i] = FieldOf(NameEnds(blob, s), i)
      <4> HIDE DEF j, k
      <4> TAKE i \in 1..j
      <4>1. CASE i \in 1..k
        BY <1>2, <2>3, <4>1, Zenon
      <4>2. CASE i = j
        BY <1>6, <1>8, <2>3, <4>2, Zenon
      <4>3. QED
        BY <3>1, <4>1, <4>2, Zenon
    <3>3. QED
      BY <1>6, <1>8, <3>2, Zenon DEF Taken
  <2>7. HasNames(blob, cert')
    BY <1>2, <2>3, <2>4, <2>5, <2>6, Zenon DEF HasNames, s
  <2>8. ToNames(blob, cert')
    BY <1>1, <2>4, Zenon DEF ToNames, ToId, ToClass, HasAlgo, HasKey, HasId
  <2>9. inner' = [at |-> NameEnds(blob, s)[Len(cert'.principals)], end |-> s.to, bad |-> FALSE]
    BY <1>6, <1>8, <2>1, <2>3, <2>4, Zenon
  <2>10. Come("name", blob, cert', rd', inner')
    BY <1>1, <2>1, <2>7, <2>8, <2>9, Zenon DEF Come, n, s
  <2>11. "name" \in NamesKnown
    BY DEF NamesKnown
  <2>12. QED
    BY <1>1, <2>1, <2>10, <2>11, AcceptField, Zenon
<1>9. QED
  BY <1>7, <1>8

\* The last principal read (sshcert.c:56, 71-73).
LEMMA AcceptNames ==
  ASSUME CertInv, AcceptInv, NamesRead
  PROVE  AcceptInv'
<1> DEFINE n == Fields(blob)
           s == NamesOf(blob)
           k == Len(cert.principals)
<1>1. /\ certStatus = "reading" /\ lineType = FirstName(blob)
      /\ ToNames(blob, cert) /\ HasNames(blob, cert) /\ OnField(blob, rd, n, n + 7)
      /\ inner = [at |-> NameEnds(blob, s)[k], end |-> s.to, bad |-> FALSE]
  <2>1. At("name")
    BY Zenon DEF NamesRead
  <2>2. Arrived("name")
    BY <2>1, ComeTo, Zenon
  <2>3. QED
    BY <2>2, Zenon DEF Arrived, Come
<1>2. GoTo("validity") /\ rd' = rd /\ inner' = inner /\ cert' = cert /\ Done(inner)
  BY Zenon DEF NamesRead
<1>3. NameEnds(blob, s)[k] = s.to
  <2>1. inner.at = NameEnds(blob, s)[k] /\ inner.end = s.to
    BY <1>1
  <2>2. QED
    BY <1>2, <2>1, Zenon DEF Done
<1>4. ToValidity(blob, cert)
  BY <1>1, <1>3, Zenon DEF ToValidity, AllNames
<1>5. Come("validity", blob, cert', rd', inner')
  BY <1>1, <1>2, <1>4, Zenon DEF Come
<1>6. "validity" \in NamesKnown
  BY DEF NamesKnown
<1>7. QED
  BY <1>1, <1>2, <1>5, <1>6, AcceptField, Zenon

\* The validity, read without asking whether it was there (sshcert.c:155-156).
LEMMA AcceptValidity ==
  ASSUME CertInv, AcceptInv, ReadValidity
  PROVE  AcceptInv'
<1> DEFINE n == Fields(blob)
           r == AfterU64(rd)
           k == n + 7
           m == n + 9
           j == n + 11
           end == Ends(blob, n)
<1>1. /\ certStatus = "reading" /\ lineType = FirstName(blob)
      /\ ToValidity(blob, cert) /\ OnField(blob, rd, n, k)
      /\ blob \in Seq(Nat) /\ Len(blob) \in Nat /\ cert \in CertRecord
  <2>1. At("validity")
    BY Zenon DEF ReadValidity
  <2>2. Arrived("validity")
    BY <2>1, ComeTo, Zenon
  <2>3. QED
    BY <2>2, Zenon DEF Arrived, Come
<1>2. Handled(blob) /\ n \in 1..2
  BY <1>1, HandledNames, Zenon DEF ToValidity, ToNames, ToId, ToClass, HasAlgo
<1> HIDE DEF n, end
<1>3. /\ m = k + 2 /\ m \in 1..n + 16 /\ m \in Numbers(n) /\ k + 1 \in Numbers(n)
      /\ j = m + 2 /\ j \in 1..n + 16 /\ j \in Numbers(n) /\ m + 1 \in Numbers(n)
      /\ m \in 0..n + 16 /\ j \in 0..n + 16 /\ m <= j
  BY <1>2 DEF Numbers
<1> HIDE DEF k, m, j
<1>4. /\ OnField(blob, r, n, m)
      /\ end[m] <= Len(blob) => U64(rd) = SubSeq(blob, end[k] + 1, end[m])
  <2>1. /\ blob \in Seq(Nat) /\ OnField(blob, rd, n, k) /\ m = k + 2
        /\ m \in 1..n + 16 /\ m \in Numbers(n) /\ k + 1 \in Numbers(n)
    BY <1>1, <1>3, Zenon
  <2>2. LongTaken(rd, n, k, m)
    BY <2>1, LongNumberField, Zenon
  <2>3. QED
    BY <2>2, Zenon DEF LongTaken, end
<1> HIDE DEF r
<1>5. /\ OnField(blob, AfterU64(r), n, j)
      /\ end[j] <= Len(blob) => U64(r) = SubSeq(blob, end[m] + 1, end[j])
  <2>1. /\ blob \in Seq(Nat) /\ OnField(blob, r, n, m) /\ j = m + 2
        /\ j \in 1..n + 16 /\ j \in Numbers(n) /\ m + 1 \in Numbers(n)
    BY <1>1, <1>3, <1>4, Zenon
  <2>2. LongTaken(r, n, m, j)
    BY <2>1, LongNumberField, Zenon
  <2>3. QED
    BY <2>2, Zenon DEF LongTaken, end
<1>6. /\ cert' = [cert EXCEPT !.after = U64(rd), !.before = U64(r)]
      /\ rd' = AfterU64(r) /\ GoTo("options") /\ inner' = inner
  BY Zenon DEF ReadValidity, r
<1>7. /\ cert'.algo = cert.algo /\ cert'.keyBlob = cert.keyBlob /\ cert'.keyId = cert.keyId
      /\ cert'.principals = cert.principals /\ cert'.after = U64(rd) /\ cert'.before = U64(r)
  BY <1>1, <1>6 DEF CertRecord
<1>8. HasTimes(blob, cert')
  <2>1. /\ end[j] <= Len(blob) => end[m] <= Len(blob)
    <3>1. blob \in Seq(Nat) /\ n \in 1..2 /\ m \in 0..n + 16 /\ j \in 0..n + 16 /\ m <= j
      BY <1>1, <1>2, <1>3, Zenon
    <3>2. QED
      BY <3>1, EarlierFields, Zenon DEF end
  <2>2. end[j] <= Len(blob) => /\ cert'.after = SubSeq(blob, end[k] + 1, end[m])
                               /\ cert'.before = SubSeq(blob, end[m] + 1, end[j])
    BY <1>4, <1>5, <1>7, <2>1, Zenon
  <2>3. QED
    BY <2>2, Zenon DEF HasTimes, end, n, k, m, j
<1>9. ToOptions(blob, cert')
  BY <1>1, <1>7, <1>8, Zenon
     DEF ToOptions, ToValidity, AllNames, HasNames, ToNames, ToId, ToClass, HasAlgo, HasKey, HasId
<1>10. OnField(blob, rd', n, n + 11)
  BY <1>5, <1>6, Zenon DEF j
<1>11. Come("options", blob, cert', rd', inner')
  BY <1>9, <1>10, Zenon DEF Come, n
<1>12. "options" \in NamesKnown
  BY DEF NamesKnown
<1>13. QED
  BY <1>1, <1>6, <1>11, <1>12, AcceptField, Zenon

\* Options, extensions and reserved (sshcert.c:158-165).
LEMMA AcceptOptions ==
  ASSUME CertInv, AcceptInv, SkipOptions
  PROVE  AcceptInv'
<1> DEFINE n == Fields(blob)
           r == AfterStr(rd)
           s == AfterStr(r)
           k == n + 11
           a == n + 12
           b == n + 13
           j == n + 14
<1>1. /\ certStatus = "reading" /\ lineType = FirstName(blob)
      /\ ToOptions(blob, cert) /\ OnField(blob, rd, n, k)
      /\ blob \in Seq(Nat) /\ Len(blob) \in Nat
  <2>1. At("options")
    BY Zenon DEF SkipOptions, Skip
  <2>2. Arrived("options")
    BY <2>1, ComeTo, Zenon
  <2>3. QED
    BY <2>2, Zenon DEF Arrived, Come
<1>2. Handled(blob) /\ n \in 1..2
  BY <1>1, HandledNames, Zenon DEF ToOptions, ToValidity, ToNames, ToId, ToClass, HasAlgo
<1> HIDE DEF n
<1>3. /\ a = k + 1 /\ a \in 1..n + 16 /\ a \notin Numbers(n)
      /\ b = a + 1 /\ b \in 1..n + 16 /\ b \notin Numbers(n)
      /\ j = b + 1 /\ j \in 1..n + 16 /\ j \notin Numbers(n) /\ j \in 0..n + 16
  BY <1>2 DEF Numbers
<1>4. AfterStrs(rd, 3) = AfterStr(s)
  BY DEF AfterStrs
<1> HIDE DEF k, a, b, j
<1>5. StringTaken(rd, n, a)
  <2>1. /\ blob \in Seq(Nat) /\ OnField(blob, rd, n, k)
        /\ a = k + 1 /\ a \in 1..n + 16 /\ a \notin Numbers(n)
    BY <1>1, <1>3, Zenon
  <2>2. QED
    BY <2>1, StringField, Zenon
<1>6. OnField(blob, r, n, a)
  BY <1>5, Zenon DEF StringTaken
<1> HIDE DEF r
<1>7. StringTaken(r, n, b)
  <2>1. /\ blob \in Seq(Nat) /\ OnField(blob, r, n, a)
        /\ b = a + 1 /\ b \in 1..n + 16 /\ b \notin Numbers(n)
    BY <1>1, <1>3, <1>6, Zenon
  <2>2. QED
    BY <2>1, StringField, Zenon
<1>8. OnField(blob, s, n, b)
  BY <1>7, Zenon DEF StringTaken
<1> HIDE DEF s
<1>9. StringTaken(s, n, j)
  <2>1. /\ blob \in Seq(Nat) /\ OnField(blob, s, n, b)
        /\ j = b + 1 /\ j \in 1..n + 16 /\ j \notin Numbers(n)
    BY <1>1, <1>3, <1>8, Zenon
  <2>2. QED
    BY <2>1, StringField, Zenon
<1>10. CASE AfterStr(s).bad
  <2>1. Refuse("MALFORMED")
    BY <1>4, <1>10, Zenon DEF SkipOptions, Skip
  <2>2. Ends(blob, n)[j] > Len(blob)
    BY <1>9, <1>10, Zenon DEF StringTaken
  <2>3. ~IsWhole(blob)
    BY <1>1, <1>2, <1>3, <2>2, PastTheEnd, Zenon DEF n
  <2>4. QED
    BY <1>1, <2>1, <2>3, AcceptMalformed, Zenon
<1>11. CASE ~AfterStr(s).bad
  <2>1. rd' = AfterStr(s) /\ GoTo("signature key") /\ inner' = inner /\ cert' = cert
    BY <1>4, <1>11, Zenon DEF SkipOptions, Skip
  <2>2. OnField(blob, rd', n, n + 14)
    BY <1>9, <2>1, Zenon DEF StringTaken, j
  <2>3. Come("signature key", blob, cert', rd', inner')
    BY <1>1, <2>1, <2>2, Zenon DEF Come, n
  <2>4. "signature key" \in NamesKnown
    BY DEF NamesKnown
  <2>5. QED
    BY <1>1, <2>1, <2>3, <2>4, AcceptField, Zenon
<1>12. QED
  BY <1>10, <1>11

\* The key of the authority (sshcert.c:167-174).
LEMMA AcceptSigner ==
  ASSUME CertInv, AcceptInv, ReadSignatureKey
  PROVE  AcceptInv'
<1> DEFINE n == Fields(blob)
           k == n + 14
           j == n + 15
<1>1. /\ certStatus = "reading" /\ lineType = FirstName(blob)
      /\ ToOptions(blob, cert) /\ OnField(blob, rd, n, k)
      /\ blob \in Seq(Nat) /\ Len(blob) \in Nat /\ cert \in CertRecord
  <2>1. At("signature key")
    BY Zenon DEF ReadSignatureKey
  <2>2. Arrived("signature key")
    BY <2>1, ComeTo, Zenon
  <2>3. QED
    BY <2>2, Zenon DEF Arrived, Come
<1>2. Handled(blob) /\ n \in 1..2
  BY <1>1, HandledNames, Zenon DEF ToOptions, ToValidity, ToNames, ToId, ToClass, HasAlgo
<1> HIDE DEF n
<1>3. j = k + 1 /\ j \in 1..n + 16 /\ j \notin Numbers(n) /\ j \in 0..n + 16
  BY <1>2 DEF Numbers
<1> HIDE DEF k, j
<1>4. StringTaken(rd, n, j)
  <2>1. /\ blob \in Seq(Nat) /\ OnField(blob, rd, n, k)
        /\ j = k + 1 /\ j \in 1..n + 16 /\ j \notin Numbers(n)
    BY <1>1, <1>3, Zenon
  <2>2. QED
    BY <2>1, StringField, Zenon
<1>5. CASE AfterStr(rd).bad
  <2>1. Refuse("MALFORMED")
    BY <1>5, Zenon DEF ReadSignatureKey
  <2>2. Ends(blob, n)[j] > Len(blob)
    BY <1>4, <1>5, Zenon DEF StringTaken
  <2>3. ~IsWhole(blob)
    BY <1>1, <1>2, <1>3, <2>2, PastTheEnd, Zenon DEF n
  <2>4. QED
    BY <1>1, <2>1, <2>3, AcceptMalformed, Zenon
<1>6. CASE ~AfterStr(rd).bad
  <2>1. /\ cert' = [cert EXCEPT !.signatureKey = Str(rd), !.signedLen = SignedTo(rd)]
        /\ rd' = AfterStr(rd) /\ GoTo("signature") /\ inner' = inner
    BY <1>6, Zenon DEF ReadSignatureKey
  <2>2. /\ cert'.algo = cert.algo /\ cert'.keyBlob = cert.keyBlob /\ cert'.keyId = cert.keyId
        /\ cert'.principals = cert.principals /\ cert'.after = cert.after
        /\ cert'.before = cert.before
        /\ cert'.signatureKey = Str(rd) /\ cert'.signedLen = SignedTo(rd)
    BY <1>1, <2>1 DEF CertRecord
  <2>3. HasSigner(blob, cert')
    BY <1>4, <1>6, <2>2, Zenon DEF HasSigner, StringTaken, SignedTo, n, j
  <2>4. ToSignature(blob, cert')
    BY <1>1, <2>2, <2>3, Zenon
       DEF ToSignature, ToOptions, HasTimes, ToValidity, AllNames, HasNames, ToNames, ToId,
           ToClass, HasAlgo, HasKey, HasId
  <2>5. OnField(blob, rd', n, n + 15)
    BY <1>4, <2>1, Zenon DEF StringTaken, j
  <2>6. Come("signature", blob, cert', rd', inner')
    BY <2>4, <2>5, Zenon DEF Come, n
  <2>7. "signature" \in NamesKnown
    BY DEF NamesKnown
  <2>8. QED
    BY <1>1, <2>1, <2>6, <2>7, AcceptField, Zenon
<1>7. QED
  BY <1>5, <1>6

\* The signature, the last field (sshcert.c:176-183).
LEMMA AcceptSignature ==
  ASSUME CertInv, AcceptInv, ReadSignature
  PROVE  AcceptInv'
<1> DEFINE n == Fields(blob)
           k == n + 15
           j == n + 16
           s == SignatureOf(blob)
<1>1. /\ certStatus = "reading" /\ lineType = FirstName(blob)
      /\ ToSignature(blob, cert) /\ OnField(blob, rd, n, k)
      /\ blob \in Seq(Nat) /\ Len(blob) \in Nat /\ ReaderOK(rd)
  <2>1. At("signature")
    BY Zenon DEF ReadSignature
  <2>2. Arrived("signature")
    BY <2>1, ComeTo, Zenon
  <2>3. QED
    BY <2>2, Zenon DEF Arrived, Come
<1>2. Handled(blob) /\ n \in 1..2
  BY <1>1, HandledNames, Zenon
     DEF ToSignature, ToOptions, ToValidity, ToNames, ToId, ToClass, HasAlgo
<1>s. s = FieldOf(Ends(blob, n), j)
  BY Zenon DEF SignatureOf
<1> HIDE DEF n, s
<1>3. j = k + 1 /\ j \in 1..n + 16 /\ j \notin Numbers(n) /\ j \in 0..n + 16
  BY <1>2 DEF Numbers
<1> HIDE DEF k, j
<1>4. StringTaken(rd, n, j)
  <2>1. /\ blob \in Seq(Nat) /\ OnField(blob, rd, n, k)
        /\ j = k + 1 /\ j \in 1..n + 16 /\ j \notin Numbers(n)
    BY <1>1, <1>3, Zenon
  <2>2. QED
    BY <2>1, StringField, Zenon
<1>5. CASE AfterStr(rd).bad
  <2>1. Refuse("MALFORMED")
    BY <1>5, Zenon DEF ReadSignature
  <2>2. Ends(blob, n)[j] > Len(blob)
    BY <1>4, <1>5, Zenon DEF StringTaken
  <2>3. ~IsWhole(blob)
    BY <1>1, <1>2, <1>3, <2>2, PastTheEnd, Zenon DEF n
  <2>4. QED
    BY <1>1, <2>1, <2>3, AcceptMalformed, Zenon
<1>6. ASSUME ~AfterStr(rd).bad
      PROVE  Done(AfterStr(rd)) <=> Ends(blob, n)[j] = Len(blob)
  BY <1>4, <1>6, Zenon DEF Done, StringTaken, OnField
<1>7. CASE ~AfterStr(rd).bad /\ ~Done(AfterStr(rd))
  <2>1. Refuse("MALFORMED")
    BY <1>7, Zenon DEF ReadSignature
  <2>2. ~IsWhole(blob)
    BY <1>6, <1>7, Zenon DEF IsWhole, n, j
  <2>3. QED
    BY <1>1, <2>1, <2>2, AcceptMalformed, Zenon
<1>8. CASE ~AfterStr(rd).bad /\ Done(AfterStr(rd))
  <2>1. /\ inner' = Reader(Str(rd)) /\ rd' = AfterStr(rd)
        /\ GoTo("signature fields") /\ cert' = cert
    BY <1>8, Zenon DEF ReadSignature
  <2>2. Str(rd) = s
    BY <1>4, <1>8, <1>s, Zenon DEF StringTaken
  <2>3. Within(blob, s)
    <3>1. SliceOK(Str(rd))
      BY <1>1, <1>8, StringRead
    <3>2. QED
      BY <2>2, <3>1, SliceWithin, Zenon
  <2>4. Come("signature fields", blob, cert', rd', inner')
    BY <1>1, <1>6, <1>8, <2>1, <2>2, <2>3, Zenon DEF Come, n, j, s
  <2>5. "signature fields" \in NamesKnown
    BY DEF NamesKnown
  <2>6. QED
    BY <1>1, <2>1, <2>4, <2>5, AcceptField, Zenon
<1>9. QED
  BY <1>5, <1>7, <1>8

\* What a signature has in it: the two strings, read one after the other
\* (sshcert.c:185-201).
SignatureRead(s, r) ==
  /\ IsCstr(inner) /\ ~AfterStr(r).bad /\ Done(AfterStr(r)) <=>
       ComesOutAfter(blob, s, 2) /\ NameEnds(blob, s)[1] - s.from \in 2..NameCap
  /\ IsCstr(inner) /\ ~AfterStr(r).bad => Str(r) = FieldOf(NameEnds(blob, s), 2)
LEMMA SignatureOfTwo ==
  ASSUME NEW s, NEW r
  PROVE  blob \in Seq(Nat) /\ Within(blob, s) /\ inner = Reader(s) /\ r = AfterStr(inner)
         => SignatureRead(s, r)
<1>0. HAVE blob \in Seq(Nat) /\ Within(blob, s) /\ inner = Reader(s) /\ r = AfterStr(inner)
<1> DEFINE c == NameEnds(blob, s)
<1>1. Reaches(blob, s, 0) /\ c[0] = s.from
  BY <1>0, NoStringYet, Zenon
<1>2. NameTaken(inner, s, 0, 1)
  <2>1. inner = [at |-> c[0], end |-> s.to, bad |-> FALSE]
    BY <1>0, <1>1, Zenon DEF Reader
  <2>2. 1 = 0 + 1
    OBVIOUS
  <2>3. QED
    BY <1>0, <1>1, <2>1, <2>2, NameString, Zenon
<1> HIDE DEF c
<1>3. s.from \in Nat /\ NameCap \in Nat
  BY <1>0, CertificateAssumption DEF Within
<1>4. /\ c[0] = s.to => \A m : ComesOutAfter(blob, s, m) => m = 0
      /\ c[0] = s.to => ComesOutAfter(blob, s, 0)
  BY <1>0, <1>1, ComesOutOnce, Zenon DEF c
<1>n. 2 # 0 /\ 2 # 1 /\ 2 = 1 + 1
  OBVIOUS
<1>5. CASE r.bad
  <2>1. ~IsCstr(inner)
    BY <1>0, <1>5, Zenon DEF IsCstr
  <2>2. ~ComesOutAfter(blob, s, 2)
    <3>1. CASE c[0] = s.to
      BY <1>4, <1>n, <3>1, Zenon
    <3>2. CASE c[0] # s.to
      BY <1>0, <1>2, <1>5, <3>2, Zenon DEF NameTaken, c
    <3>3. QED
      BY <3>1, <3>2
  <2>3. QED
    BY <2>1, <2>2, Zenon DEF SignatureRead
<1>6. CASE ~r.bad
  <2>1. /\ Reaches(blob, s, 1) /\ r = [at |-> c[1], end |-> s.to, bad |-> FALSE]
        /\ U32(inner) = c[1] - c[0] - 1 /\ U32(inner) \in Nat
    BY <1>0, <1>2, <1>6, Zenon DEF NameTaken, c
  <2>2. IsCstr(inner) <=> c[1] - s.from \in 2..NameCap
    <3>1. IsCstr(inner) <=> U32(inner) > 0 /\ U32(inner) < NameCap
      BY <1>0, <1>6, Zenon DEF IsCstr
    <3>2. c[1] \in Nat
      BY <1>0, <2>1, ComesOutOnce, Zenon DEF c
    <3> HIDE DEF c
    <3> DEFINE x == c[1]
               u == U32(inner)
               y == c[0]
    <3>3. u = x - y - 1 /\ u \in Nat /\ x \in Nat /\ y = s.from
      BY <1>1, <2>1, <3>2
    <3>4. (IsCstr(inner) <=> u > 0 /\ u < NameCap)
      BY <3>1
    <3> HIDE DEF x, u, y
    <3>5. (u > 0 /\ u < NameCap) <=> x - s.from \in 2..NameCap
      BY <1>3, <3>3
    <3>6. QED
      BY <3>4, <3>5 DEF x
  <2>3. NameTaken(r, s, 1, 2)
    BY <1>0, <1>n, <2>1, NameString, Zenon DEF c
  <2>4. c[1] = s.to => \A m : ComesOutAfter(blob, s, m) => m = 1
    BY <1>0, <2>1, ComesOutOnce, Zenon DEF c
  <2>5. CASE AfterStr(r).bad
    <3>1. ~ComesOutAfter(blob, s, 2)
      <4>1. CASE c[1] = s.to
        BY <1>n, <2>4, <4>1, Zenon
      <4>2. CASE c[1] # s.to
        BY <2>3, <2>5, <4>2, Zenon DEF NameTaken, c
      <4>3. QED
        BY <4>1, <4>2
    <3>2. QED
      BY <2>5, <3>1, Zenon DEF SignatureRead
  <2>6. CASE ~AfterStr(r).bad
    <3>1. /\ Reaches(blob, s, 2) /\ Str(r) = FieldOf(c, 2)
          /\ AfterStr(r) = [at |-> c[2], end |-> s.to, bad |-> FALSE]
      BY <2>3, <2>6, Zenon DEF NameTaken, c
    <3>2. Done(AfterStr(r)) <=> c[2] = s.to
      <4>1. AfterStr(r).at = c[2] /\ AfterStr(r).end = s.to
        BY <3>1
      <4>2. QED
        BY <2>6, <4>1, Zenon DEF Done
    <3>3. c[2] = s.to <=> ComesOutAfter(blob, s, 2)
      BY <1>0, <3>1, ComesOutOnce, Zenon DEF c, ComesOutAfter
    <3>4. QED
      BY <2>2, <2>6, <3>1, <3>2, <3>3, Zenon DEF SignatureRead, c
  <2>7. QED
    BY <2>5, <2>6
<1>7. QED
  BY <1>5, <1>6

\* The principals are in the slices that were taken, and come out even.
LEMMA NamesComeOut ==
  ASSUME blob \in Seq(Nat), cert \in CertRecord, AllNames(blob, cert)
  PROVE  /\ ComesOutAfter(blob, NamesOf(blob), Len(cert.principals))
         /\ \E k \in 0..MaxCertPrincipals : ComesOutAfter(blob, NamesOf(blob), k)
         /\ \A i \in DOMAIN cert.principals :
              cert.principals[i] = FieldOf(NameEnds(blob, NamesOf(blob)), i)
<1> DEFINE s == NamesOf(blob)
           list == cert.principals
           k == Len(list)
<1>1. /\ Within(blob, s) /\ k <= MaxCertPrincipals /\ Reaches(blob, s, k)
      /\ \A i \in 1..k : list[i] = FieldOf(NameEnds(blob, s), i)
      /\ NameEnds(blob, s)[k] = s.to
  BY Zenon DEF AllNames, HasNames, Taken
<1>2. list \in Seq(Slice) /\ k \in Nat /\ DOMAIN list = 1..k
  <2>1. list \in Seq(Slice)
    BY DEF CertRecord
  <2>2. QED
    BY <2>1, LenProperties
<1> HIDE DEF s, k
<1>3. ComesOutAfter(blob, s, k)
  BY <1>1, ComesOutOnce, Zenon
<1>4. k \in 0..MaxCertPrincipals
  BY <1>1, <1>2, CertificateAssumption
<1>5. QED
  BY <1>1, <1>2, <1>3, <1>4, Zenon DEF s, k

\* The fields of the signature (sshcert.c:185-201): what is accepted is whole,
\* and what is not is broken.
LEMMA AcceptSignatureFields ==
  ASSUME CertInv, AcceptInv, ReadSignatureFields
  PROVE  AcceptInv'
<1> DEFINE n == Fields(blob)
           j == n + 11
           m == n + 16
           s == SignatureOf(blob)
           r == AfterStr(inner)
           even == /\ ComesOutAfter(blob, s, 2)
                   /\ NameEnds(blob, s)[1] - s.from \in 2..NameCap
<1>1. /\ certStatus = "reading" /\ lineType = FirstName(blob)
      /\ ToSignature(blob, cert) /\ Ends(blob, n)[m] = Len(blob)
      /\ Within(blob, s) /\ inner = Reader(s)
      /\ blob \in Seq(Nat) /\ Len(blob) \in Nat /\ cert \in CertRecord
  <2>1. At("signature fields")
    BY Zenon DEF ReadSignatureFields
  <2>2. Arrived("signature fields")
    BY <2>1, ComeTo, Zenon
  <2>3. QED
    BY <2>2, Zenon DEF Arrived, Come
<1>2. /\ ToOptions(blob, cert) /\ HasSigner(blob, cert) /\ HasTimes(blob, cert)
      /\ AllNames(blob, cert) /\ HasId(blob, cert) /\ IsUser(blob) /\ HasKey(blob, cert)
      /\ HasAlgo(blob, cert) /\ Handled(blob) /\ Len(blob) <= MaxCert
  BY <1>1, Zenon DEF ToSignature, ToOptions, ToValidity, ToNames, ToId, ToClass, HasAlgo
<1>3. n \in 1..2
  BY <1>2, HandledNames, Zenon
<1>4. SignatureRead(s, r)
  BY <1>1, SignatureOfTwo, Zenon
<1>e. EvenInside(blob) <=> even
  BY <1>1, <1>2, NamesComeOut, Zenon DEF EvenInside
<1>5. CASE ~IsCstr(inner) \/ AfterStr(r).bad \/ ~Done(AfterStr(r))
  <2>1. Refuse("MALFORMED")
    BY <1>5, Zenon DEF ReadSignatureFields
  <2>2. ~EvenInside(blob)
    BY <1>4, <1>5, <1>e, Zenon DEF SignatureRead
  <2>3. QED
    BY <1>1, <1>2, <2>1, <2>2, AcceptMalformed, Zenon
<1>6. CASE ~(~IsCstr(inner) \/ AfterStr(r).bad \/ ~Done(AfterStr(r)))
  <2>1. /\ cert' = [cert EXCEPT !.signatureAlgo = Text(Str(inner)), !.signature = Str(r)]
        /\ certStatus' = "OK" /\ lineType' = lineType /\ blob' = blob
    BY <1>6, Zenon DEF ReadSignatureFields
  <2>2. /\ cert'.keyBlob = cert.keyBlob /\ cert'.keyId = cert.keyId
        /\ cert'.principals = cert.principals /\ cert'.after = cert.after
        /\ cert'.before = cert.before /\ cert'.signatureKey = cert.signatureKey
        /\ cert'.signedLen = cert.signedLen /\ cert'.signature = Str(r)
    BY <1>1, <2>1 DEF CertRecord
  <2>3. EvenInside(blob) /\ Str(r) = FieldOf(NameEnds(blob, s), 2)
    BY <1>4, <1>6, <1>e, Zenon DEF SignatureRead
  <2>4. IsWhole(blob)
    BY <1>1, <1>2, Zenon DEF IsWhole, HasKey
  <2>5. Ends(blob, n)[j] <= Len(blob)
    <3>1. j \in 0..n + 16 /\ m \in 0..n + 16 /\ j <= m
      BY <1>3
    <3>2. Ends(blob, n)[m] <= Len(blob)
      <4> HIDE DEF m, n
      <4>1. Ends(blob, n)[m] \in Nat
        BY <1>1
      <4>2. QED
        BY <1>1
    <3> HIDE DEF j, m, n
    <3>3. QED
      BY <1>1, <1>3, <3>1, <3>2, EarlierFields, Zenon
  <2>6. /\ cert'.after = SubSeq(blob, Ends(blob, n)[n + 7] + 1, Ends(blob, n)[n + 9])
        /\ cert'.before = SubSeq(blob, Ends(blob, n)[n + 9] + 1, Ends(blob, n)[n + 11])
    BY <1>2, <2>2, <2>5, Zenon DEF HasTimes
  <2>7. /\ ComesOutAfter(blob, NamesOf(blob), Len(cert'.principals))
        /\ \A i \in DOMAIN cert'.principals :
             cert'.principals[i] = FieldOf(NameEnds(blob, NamesOf(blob)), i)
    BY <1>1, <1>2, <2>2, NamesComeOut, Zenon
  <2>8. TakenApart(blob)'
    <3>1. /\ cert'.keyBlob = <<Len(BaseName(blob))>> \o BaseName(blob) \o KeyOf(blob)
          /\ cert'.keyId = FieldOf(Ends(blob, n), n + 6)
          /\ cert'.signatureKey = FieldOf(Ends(blob, n), n + 15)
          /\ cert'.signedLen = Ends(blob, n)[n + 15]
          /\ cert'.signature = FieldOf(NameEnds(blob, SignatureOf(blob)), 2)
      BY <1>2, <2>2, <2>3, Zenon DEF HasKey, HasId, HasSigner
    <3>2. QED
      BY <2>1, <2>6, <2>7, <3>1, Zenon DEF TakenApart
  <2>9. AcceptsCertificates'
    <3>1. certStatus' = "OK" /\ certStatus' # "NOT_USER"
      BY <2>1
    <3>2. QED
      BY <1>1, <1>2, <2>1, <2>3, <2>4, <2>8, <3>1, Zenon DEF AcceptsCertificates
  <2>10. ReadingInv'
    BY <2>1 DEF ReadingInv
  <2>11. QED
    BY <2>9, <2>10, Zenon DEF AcceptInv
<1>7. QED
  BY <1>5, <1>6

-----------------------------------------------------------------------------
(* The whole of it.                                                        *)

\* A line opened (sshkey.c:174-186, sshcert.c:86-93): refused here is none whose
\* type is the name in front of a blob that is whole.
LEMMA AcceptOpen ==
  ASSUME CertInv, ParseCert
  PROVE  AcceptInv'
<1> PICK l \in IssuedLines \cup {Plain.line} :
           OpenCert(IF certText = Plain.text THEN l ELSE NotALine)
  BY DEF ParseCert, May
<1> DEFINE line == IF certText = Plain.text THEN l ELSE NotALine
<1>p. OpenCert(line)
  OBVIOUS
<1> HIDE DEF line
<1>1. /\ lineType' = line.type /\ blob' = line.blob
      /\ certStatus = "unread" /\ UNCHANGED <<inner, field, cert>>
      /\ certStatus' = IF IsCstr(rd)' /\ Text(Str(rd))' = line.type /\ Len(line.blob) <= MaxCert
                         THEN "reading" ELSE "MALFORMED"
  BY <1>p, Zenon DEF OpenCert
<1>2. blob' \in Seq(Nat)
  BY CertInvOpen, Zenon DEF CertInv, ReadersInv
<1>3. rd' = [at |-> 0, end |-> Len(blob'), bad |-> FALSE]
  BY <1>p DEF OpenCert, Reader, All
<1>4. cert = Blank /\ field = "algo"
  BY <1>1, Zenon DEF CertInv, UnreadInv
<1>5. /\ IsCstr(rd)' => Text(Str(rd))' = FirstName(blob')
      /\ ~IsCstr(rd)' => ~Handled(blob')
  BY <1>2, <1>3, FirstNameReadNext, Zenon DEF FirstFits
<1>6. CASE IsCstr(rd)' /\ Text(Str(rd))' = line.type /\ Len(line.blob) <= MaxCert
  <2>1. certStatus' = "reading" /\ lineType' = FirstName(blob') /\ Len(blob') <= MaxCert
    BY <1>1, <1>5, <1>6, Zenon
  <2>2. certStatus' \notin CertStatus
    BY <2>1 DEF CertStatus
  <2>3. Come("algo", blob', cert', rd', inner')
    BY <1>3, <2>1, Zenon DEF Come
  <2>4. cert'.principals = <<>> /\ field' = "algo"
    BY <1>1, <1>4 DEF Blank
  <2>5. ReadingInv'
    BY <2>1, <2>3, <2>4, Zenon DEF ReadingInv
  <2>6. AcceptsCertificates'
    BY <2>2, Zenon DEF AcceptsCertificates
  <2>7. QED
    BY <2>5, <2>6, Zenon DEF AcceptInv
<1>7. CASE ~(IsCstr(rd)' /\ Text(Str(rd))' = line.type /\ Len(line.blob) <= MaxCert)
  <2>1. certStatus' = "MALFORMED"
    BY <1>1, <1>7, Zenon
  <2>2. certStatus' # "OK" /\ certStatus' # "reading" /\ certStatus' # "NOT_USER"
    BY <2>1
  <2>3. ~(lineType' = FirstName(blob') /\ IsWhole(blob'))
    BY <1>1, <1>5, <1>7, Zenon DEF IsWhole
  <2>4. ReadingInv'
    BY <2>2, Zenon DEF ReadingInv
  <2>5. AcceptsCertificates'
    BY <2>2, <2>3, Zenon DEF AcceptsCertificates
  <2>6. QED
    BY <2>4, <2>5, Zenon DEF AcceptInv
<1>8. QED
  BY <1>6, <1>7

\* A step that leaves the certificate alone.
LEMMA AcceptElsewhere ==
  ASSUME AcceptInv, UNCHANGED certVars
  PROVE  AcceptInv'
<1>1. /\ lineType' = lineType /\ blob' = blob /\ rd' = rd /\ inner' = inner
      /\ field' = field /\ cert' = cert /\ certStatus' = certStatus
  BY DEF certVars
<1>2. TakenApart(blob)' <=> TakenApart(blob)
  BY <1>1, Zenon DEF TakenApart
<1>3. AcceptsCertificates' /\ ReadingInv'
  BY <1>1, <1>2, Zenon DEF AcceptInv, AcceptsCertificates, ReadingInv
<1>4. QED
  BY <1>3, Zenon DEF AcceptInv

\* Every step of an attempt.
LEMMA AcceptStep == CertInv /\ AcceptInv /\ [Next]_vars => AcceptInv'
<1> SUFFICES ASSUME CertInv, AcceptInv, [Next]_vars PROVE AcceptInv'
  OBVIOUS
<1>1. CASE UNCHANGED certVars
  BY <1>1, AcceptElsewhere
<1>2. CASE ParseCert
  BY <1>2, AcceptOpen
<1>3. ASSUME ParsingCert PROVE AcceptInv'
  <2>1. CertNext
    BY <1>3 DEF ParsingCert
  <2>2. QED
    BY <2>1, AcceptAlgo, AcceptNonce, AcceptKey, AcceptClass, AcceptKeyId, AcceptPrincipals,
       AcceptName, AcceptNames, AcceptValidity, AcceptOptions, AcceptSigner,
       AcceptSignature, AcceptSignatureFields, Zenon
       DEF CertNext
<1>4. QED
  BY <1>1, <1>2, <1>3
     DEF Next, vars, Arguing, LoadCas, LoadingCas, BuildingBody, ReadingReply,
         ShowingLinks, ReadingEnvelope, Verifying, LoadMap, LoadingMap

\* Whatever the server sends for a certificate, it is accepted if and only if
\* it is one the format describes, of class user, and is taken apart to the
\* byte; one that is sound but of another class is refused for that, and no
\* certificate of class user is (sshcert.c:75-202, sshkey.c:178-185).
THEOREM AcceptsWhatIsOne == Spec => []AcceptsCertificates
<1>1. Init => AcceptInv
  <2> SUFFICES ASSUME Init PROVE AcceptInv
    OBVIOUS
  <2>1. certStatus = "unread"
    BY DEF Init, CertInit
  <2>2. certStatus \notin CertStatus /\ certStatus # "reading"
    BY <2>1 DEF CertStatus
  <2>3. QED
    BY <2>2, Zenon DEF AcceptInv, AcceptsCertificates, ReadingInv
<1>2. AcceptInv => AcceptsCertificates
  BY Zenon DEF AcceptInv
<1>3. QED
  BY <1>1, <1>2, AcceptStep, CertInvInit, CertInvStep, PTL DEF Spec

-----------------------------------------------------------------------------
(* The numbers in DER: without their leading zeros, behind a tag and a     *)
(* length (der.c).                                                         *)

Octets == Seq(0..255)

\* A byte string has a length and consists of bytes (sshwire.h).
LEMMA OctetsHaveLength ==
  ASSUME NEW p \in Octets
  PROVE  /\ Len(p) \in Nat /\ DOMAIN p = 1..Len(p)
         /\ \A i \in 1..Len(p) : p[i] \in 0..255
<1>1. p \in Seq(0..255)
  BY DEF Octets
<1>2. QED
  BY <1>1, ElementOfSeq, LenProperties

\* Where the leading zeros of a number end (der.c:45-48).
ZerosEnd(p, z) ==
  /\ z \in 0..Len(p)
  /\ \A k \in 1..z : p[k] = 0
  /\ z < Len(p) => p[z + 1] # 0

\* They end in one place (der.c:45-48).
LEMMA ZerosEndOnce ==
  ASSUME NEW p \in Octets
  PROVE  /\ \E z \in 0..Len(p) : ZerosEnd(p, z)
         /\ \A y, z \in 0..Len(p) : ZerosEnd(p, y) /\ ZerosEnd(p, z) => y = z
<1>1. Len(p) \in Nat
  BY LenProperties DEF Octets
<1>2. \A y, z \in 0..Len(p) : ZerosEnd(p, y) /\ ZerosEnd(p, z) => y = z
  <2> SUFFICES ASSUME NEW y \in 0..Len(p), NEW z \in 0..Len(p),
                      ZerosEnd(p, y), ZerosEnd(p, z), y # z
               PROVE  FALSE
    OBVIOUS
  <2>1. CASE y < z
    <3>1. y + 1 \in 1..z /\ y < Len(p)
      BY <1>1, <2>1
    <3>2. QED
      BY <3>1 DEF ZerosEnd
  <2>2. CASE z < y
    <3>1. z + 1 \in 1..y /\ z < Len(p)
      BY <1>1, <2>2
    <3>2. QED
      BY <3>1 DEF ZerosEnd
  <2>3. QED
    BY <1>1, <2>1, <2>2
<1>3. \E z \in 0..Len(p) : ZerosEnd(p, z)
  <2> DEFINE S == {z \in 0..Len(p) : z < Len(p) => p[z + 1] # 0}
  <2>1. Len(p) \in S /\ S \subseteq Nat
    BY <1>1
  <2>2. PICK z \in S : \A y \in S : z <= y
    <3> HIDE DEF S
    <3>1. QED
      BY <2>1, Smallest
  <2>3. z \in 0..Len(p) /\ (z < Len(p) => p[z + 1] # 0)
    BY <2>2
  <2>4. \A k \in 1..z : p[k] = 0
    <3> SUFFICES ASSUME NEW k \in 1..z, p[k] # 0 PROVE FALSE
      OBVIOUS
    <3>1. k - 1 \in 0..Len(p) /\ (k - 1) + 1 = k /\ k - 1 < z
      BY <1>1, <2>3
    <3>2. k - 1 \in S
      BY <3>1
    <3>3. z <= k - 1
      <4> HIDE DEF S
      <4>1. QED
        BY <2>2, <3>2
    <3>4. QED
      BY <2>3, <3>1, <3>3
  <2>5. QED
    BY <2>3, <2>4 DEF ZerosEnd
<1>4. QED
  BY <1>2, <1>3

\* What is left of a number is what comes after them (der.c:49-64).
LEMMA MagnitudeAfter ==
  ASSUME NEW p \in Octets, NEW z, ZerosEnd(p, z)
  PROVE  Magnitude(p) = SubSeq(p, z + 1, Len(p))
<1> DEFINE Z(i) == /\ \A k \in 1..i : p[k] = 0
                   /\ i < Len(p) => p[i + 1] # 0
           zeros == CHOOSE i \in 0..Len(p) : Z(i)
<1>1. z \in 0..Len(p) /\ Z(z)
  BY DEF ZerosEnd
<1>2. zeros \in 0..Len(p) /\ Z(zeros)
  <2> HIDE DEF Z
  <2>1. QED
    BY <1>1
<1>3. ZerosEnd(p, zeros)
  BY <1>2 DEF ZerosEnd
<1>4. Magnitude(p) = SubSeq(p, zeros + 1, Len(p))
  BY Zenon DEF Magnitude
<1> HIDE DEF zeros
<1>5. zeros = z
  BY <1>1, <1>2, <1>3, ZerosEndOnce
<1>6. QED
  BY <1>4, <1>5

\* A number without leading zeros.
IsPlain(m) == m \in Octets /\ (m # <<>> => m[1] # 0)

\* That is no more than the number, and without leading zeros (der.c:45-64).
LEMMA MagnitudeIsPlain ==
  ASSUME NEW p \in Octets
  PROVE  /\ IsPlain(Magnitude(p))
         /\ Len(Magnitude(p)) <= Len(p)
<1>1. PICK z \in 0..Len(p) : ZerosEnd(p, z)
  BY ZerosEndOnce
<1>2. Magnitude(p) = SubSeq(p, z + 1, Len(p))
  BY <1>1, MagnitudeAfter
<1>3. Len(p) \in Nat /\ \A i \in z + 1 .. Len(p) : p[i] \in 0..255
  BY OctetsHaveLength
<1> DEFINE m == SubSeq(p, z + 1, Len(p))
<1>4. /\ m \in Octets
      /\ Len(m) = IF z + 1 <= Len(p) THEN Len(p) - (z + 1) + 1 ELSE 0
      /\ \A i \in 1..Len(p) - (z + 1) + 1 : m[i] = p[z + 1 + i - 1]
  <2>1. z + 1 \in Int /\ Len(p) \in Int
    BY <1>3
  <2>2. QED
    BY <1>3, <2>1, SubSeqProperties DEF Octets
<1> HIDE DEF m
<1>5. Len(m) <= Len(p)
  BY <1>3, <1>4
<1>6. ASSUME m # <<>> PROVE m[1] # 0
  <2>1. z + 1 <= Len(p)
    BY <1>3, <1>4, <1>6, EmptySeq DEF Octets
  <2>2. m[1] = p[z + 1]
    BY <1>3, <1>4, <2>1
  <2>3. QED
    BY <1>1, <1>3, <2>1, <2>2 DEF ZerosEnd
<1>7. QED
  BY <1>2, <1>4, <1>5, <1>6 DEF IsPlain, m

\* A number without leading zeros is itself, and with one before it the same
\* (der.c:45-64).
LEMMA PlainMagnitude ==
  ASSUME NEW m, IsPlain(m)
  PROVE  Magnitude(m) = m /\ Magnitude(<<0>> \o m) = m
<1>1. m \in Octets /\ Len(m) \in Nat
  BY LenProperties DEF IsPlain, Octets
<1>2. m = <<>> <=> Len(m) = 0
  BY <1>1, EmptySeq DEF Octets
<1>3. ZerosEnd(m, 0)
  BY <1>1, <1>2 DEF IsPlain, ZerosEnd
<1>4. Magnitude(m) = m
  <2>1. Magnitude(m) = SubSeq(m, 0 + 1, Len(m))
    BY <1>1, <1>3, MagnitudeAfter, Zenon
  <2>2. m \in Seq(0..255)
    BY <1>1 DEF Octets
  <2>3. SubSeq(m, 1, Len(m)) = m
    BY <2>2, SubSeqFull
  <2>4. QED
    BY <2>1, <2>3
<1> DEFINE p == <<0>> \o m
<1>5. <<0>> \in Octets /\ Len(<<0>>) = 1 /\ <<0>>[1] = 0
  BY DEF Octets
<1>6. /\ p \in Octets /\ Len(p) = 1 + Len(m)
      /\ \A i \in 1 .. 1 + Len(m) : p[i] = IF i <= 1 THEN <<0>>[i] ELSE m[i - 1]
  BY <1>1, <1>5, ConcatProperties DEF Octets
<1> HIDE DEF p
<1>7. ZerosEnd(p, 1)
  BY <1>1, <1>2, <1>5, <1>6 DEF ZerosEnd, IsPlain
<1>8. Magnitude(p) = SubSeq(p, 2, Len(p))
  <2>1. p \in Octets /\ 1 \in 0..Len(p)
    BY <1>1, <1>6
  <2>2. Magnitude(p) = SubSeq(p, 1 + 1, Len(p))
    BY <1>7, <2>1, MagnitudeAfter, Zenon
  <2>3. QED
    BY <2>2
<1>9. SubSeq(p, 2, Len(p)) = m
  <2>0. p \in Octets
    BY <1>6
  <2>b. Len(p) \in Nat /\ \A i \in 1..Len(p) : p[i] \in 0..255
    BY <2>0, OctetsHaveLength, Zenon
  <2>1. \A i \in 2..Len(p) : p[i] \in 0..255
    BY <2>b
  <2>2. /\ SubSeq(p, 2, Len(p)) \in Octets
        /\ Len(SubSeq(p, 2, Len(p))) = IF 2 <= Len(p) THEN Len(p) - 2 + 1 ELSE 0
        /\ \A i \in 1..Len(p) - 2 + 1 : SubSeq(p, 2, Len(p))[i] = p[2 + i - 1]
    <3>1. 2 \in Int /\ Len(p) \in Int
      BY <1>1, <1>6
    <3>2. QED
      BY <2>1, <3>1, SubSeqProperties DEF Octets
  <2>3. Len(SubSeq(p, 2, Len(p))) = Len(m)
    BY <1>1, <1>6, <2>2
  <2>4. \A i \in 1..Len(m) : SubSeq(p, 2, Len(p))[i] = m[i]
    BY <1>1, <1>6, <2>2
  <2>5. QED
    BY <1>1, <2>2, <2>3, <2>4, SeqEqual DEF Octets
<1>10. QED
  BY <1>4, <1>8, <1>9 DEF p

\* d is how DER says a length.
SaysLength(n, d) ==
  /\ d \in Seq(Nat) /\ Len(d) \in 1..3
  /\ n < 128 => d = <<n>> /\ Len(d) = 1
  /\ n >= 128 /\ n <= 255 => d = <<129, n>> /\ Len(d) = 2
  /\ n > 255 => d = <<130, n \div 256, n % 256>> /\ Len(d) = 3
  /\ n <= MaxDerLen => d \in Octets

\* That is what is written in front of a content of that size (der.c:17-31).
LEMMA DerLenSays ==
  ASSUME NEW n \in Nat
  PROVE  SaysLength(n, DerLen(n))
<1>1. CASE n < 128
  BY <1>1 DEF DerLen, Octets, SaysLength
<1>2. CASE n >= 128 /\ n <= 255
  <2>1. DerLen(n) = <<129, n>>
    BY <1>2 DEF DerLen
  <2>2. <<129, n>> \in Seq(Nat) /\ <<129, n>> \in Octets /\ Len(<<129, n>>) = 2
    BY <1>2 DEF Octets
  <2>3. QED
    BY <1>2, <2>1, <2>2 DEF SaysLength
<1>3. CASE n > 255
  <2>1. n \div 256 \in Nat /\ n % 256 \in 0..255
    OBVIOUS
  <2>2. n <= MaxDerLen => n \div 256 \in 0..255
    BY DEF MaxDerLen
  <2>3. DerLen(n) = <<130, n \div 256, n % 256>>
    BY <1>3 DEF DerLen
  <2> DEFINE q == n \div 256
             k == n % 256
  <2> HIDE DEF q, k
  <2>4. q \in Nat /\ k \in 0..255 /\ (n <= MaxDerLen => q \in 0..255)
    BY <2>1, <2>2 DEF q, k
  <2>5. DerLen(n) = <<130, q, k>>
    BY <2>3 DEF q, k
  <2>6. <<130, q, k>> \in Seq(Nat) /\ Len(<<130, q, k>>) = 3
    BY <2>4
  <2>7. n <= MaxDerLen => <<130, q, k>> \in Octets
    BY <2>4 DEF Octets
  <2>8. QED
    BY <1>3, <2>3, <2>5, <2>6, <2>7 DEF SaysLength
<1>4. QED
  BY <1>1, <1>2, <1>3

\* s is two byte strings, one after the other.
Joined(p, q, s) ==
  /\ s \in Octets /\ Len(s) = Len(p) + Len(q)
  /\ \A i \in 1..Len(p) : s[i] = p[i]
  /\ \A i \in 1..Len(q) : s[Len(p) + i] = q[i]

\* Byte strings written one after the other are that (ssh_wr_bytes, sshwire.c).
LEMMA OctetsJoined ==
  ASSUME NEW p \in Octets, NEW q \in Octets
  PROVE  Joined(p, q, p \o q)
<1>1. p \in Seq(0..255) /\ q \in Seq(0..255) /\ Len(p) \in Nat /\ Len(q) \in Nat
  BY OctetsHaveLength DEF Octets
<1> DEFINE s == p \o q
<1>2. /\ s \in Seq(0..255) /\ Len(s) = Len(p) + Len(q)
      /\ \A i \in 1..Len(p) + Len(q) : s[i] = IF i <= Len(p) THEN p[i] ELSE q[i - Len(p)]
  BY <1>1, ConcatProperties
<1> HIDE DEF s
<1>3. \A i \in 1..Len(p) : s[i] = p[i]
  BY <1>1, <1>2
<1>4. \A i \in 1..Len(q) : s[Len(p) + i] = q[i]
  <2> TAKE i \in 1..Len(q)
  <2>1. Len(p) + i \in 1..Len(p) + Len(q) /\ ~(Len(p) + i <= Len(p)) /\ Len(p) + i - Len(p) = i
    BY <1>1
  <2>2. QED
    BY <1>2, <2>1
<1>5. QED
  BY <1>2, <1>3, <1>4 DEF s, Octets, Joined

\* How long an element is (der.c:33-38).
LEMMA TlvLength ==
  ASSUME NEW tag \in 0..255, NEW c \in Octets
  PROVE  /\ Tlv(tag, c) \in Seq(Nat)
         /\ Len(Tlv(tag, c)) = 1 + Len(DerLen(Len(c))) + Len(c)
         /\ Len(DerLen(Len(c))) \in 1..3
         /\ Len(c) <= MaxDerLen => Tlv(tag, c) \in Octets
<1>1. Len(c) \in Nat /\ c \in Seq(Nat)
  <2>1. c \in Seq(0..255) /\ 0..255 \subseteq Nat
    BY DEF Octets
  <2>2. QED
    BY <2>1, OctetsHaveLength, SeqMonotonic
<1> DEFINE d == DerLen(Len(c))
<1>2. d \in Seq(Nat) /\ Len(d) \in 1..3 /\ (Len(c) <= MaxDerLen => d \in Octets)
  <2>1. SaysLength(Len(c), d)
    BY <1>1, DerLenSays
  <2> HIDE DEF d
  <2>2. QED
    BY <2>1 DEF SaysLength
<1> HIDE DEF d
<1>3. <<tag>> \in Seq(Nat) /\ <<tag>> \in Octets /\ Len(<<tag>>) = 1
  BY DEF Octets
<1>4. <<tag>> \o d \in Seq(Nat) /\ Len(<<tag>> \o d) = 1 + Len(d)
  BY <1>2, <1>3, ConcatProperties
<1>5. /\ <<tag>> \o d \o c \in Seq(Nat)
      /\ Len(<<tag>> \o d \o c) = 1 + Len(d) + Len(c)
  BY <1>1, <1>4, ConcatProperties
<1>6. ASSUME Len(c) <= MaxDerLen PROVE <<tag>> \o d \o c \in Octets
  <2>1. <<tag>> \o d \in Octets
    BY <1>2, <1>3, <1>6, ConcatProperties DEF Octets
  <2>2. QED
    BY <2>1, ConcatProperties DEF Octets
<1>7. QED
  BY <1>2, <1>5, <1>6 DEF Tlv, d

\* Where the bytes of an element are, and those of what follows it.
LaidOut(b, tag, d, c, r) ==
  /\ b \in Octets /\ Len(b) = 1 + Len(d) + Len(c) + Len(r)
  /\ b[1] = tag
  /\ \A i \in 1..Len(d) : b[1 + i] = d[i]
  /\ \A i \in 1..Len(c) : b[1 + Len(d) + i] = c[i]
  /\ \A i \in 1..Len(r) : b[1 + Len(d) + Len(c) + i] = r[i]

\* An element and what follows it are laid out so (der.c:33-38).
LEMMA TlvLaidOut ==
  ASSUME NEW tag \in 0..255, NEW c \in Octets, NEW r \in Octets, Len(c) <= MaxDerLen
  PROVE  LaidOut(Tlv(tag, c) \o r, tag, DerLen(Len(c)), c, r)
<1> DEFINE d == DerLen(Len(c))
<1>1. Len(c) \in Nat /\ Len(r) \in Nat
  BY OctetsHaveLength
<1>2. d \in Octets /\ Len(d) \in 1..3
  <2>1. SaysLength(Len(c), d)
    BY <1>1, DerLenSays
  <2> HIDE DEF d
  <2>2. QED
    BY <2>1 DEF SaysLength
<1> HIDE DEF d
<1>3. <<tag>> \in Octets /\ Len(<<tag>>) = 1 /\ <<tag>>[1] = tag
  BY DEF Octets
<1> DEFINE td == <<tag>> \o d
           tdc == td \o c
           b == tdc \o r
<1>4. Joined(<<tag>>, d, td)
  BY <1>2, <1>3, OctetsJoined
<1> HIDE DEF td
<1>5. td \in Octets /\ td[1] = tag /\ Len(td) = 1 + Len(d) /\ \A i \in 1..Len(d) : td[1 + i] = d[i]
  BY <1>3, <1>4 DEF Joined
<1>t. Joined(td, c, tdc)
  BY <1>5, OctetsJoined
<1> HIDE DEF tdc
<1>6. /\ tdc \in Octets /\ Len(tdc) = Len(td) + Len(c)
      /\ \A i \in 1..Len(td) : tdc[i] = td[i]
      /\ \A i \in 1..Len(c) : tdc[Len(td) + i] = c[i]
  BY <1>t DEF Joined
<1>b. Joined(tdc, r, b)
  BY <1>6, OctetsJoined
<1> HIDE DEF b
<1>7. /\ b \in Octets /\ Len(b) = Len(tdc) + Len(r)
      /\ \A i \in 1..Len(tdc) : b[i] = tdc[i]
      /\ \A i \in 1..Len(r) : b[Len(tdc) + i] = r[i]
  BY <1>b DEF Joined
<1> HIDE DEF b
<1>8. Len(tdc) = 1 + Len(d) + Len(c)
  BY <1>5, <1>6
<1>9. b[1] = tag
  <2>1. 1 \in 1..Len(td) /\ 1 \in 1..Len(tdc)
    BY <1>1, <1>2, <1>5, <1>8
  <2>2. QED
    BY <1>5, <1>6, <1>7, <2>1
<1>10. \A i \in 1..Len(d) : b[1 + i] = d[i]
  <2> TAKE i \in 1..Len(d)
  <2>1. 1 + i \in 1..Len(td) /\ 1 + i \in 1..Len(tdc)
    BY <1>1, <1>2, <1>5, <1>8
  <2>2. QED
    BY <1>5, <1>6, <1>7, <2>1
<1>11. \A i \in 1..Len(c) : b[1 + Len(d) + i] = c[i]
  <2> TAKE i \in 1..Len(c)
  <2>1. 1 + Len(d) + i = Len(td) + i /\ Len(td) + i \in 1..Len(tdc)
    BY <1>1, <1>2, <1>5, <1>8
  <2>2. QED
    BY <1>6, <1>7, <2>1
<1>12. \A i \in 1..Len(r) : b[1 + Len(d) + Len(c) + i] = r[i]
  BY <1>7, <1>8
<1>13. LaidOut(b, tag, d, c, r)
  BY <1>7, <1>8, <1>9, <1>10, <1>11, <1>12 DEF LaidOut
<1>14. b = Tlv(tag, c) \o r
  BY DEF b, tdc, td, d, Tlv
<1>15. QED
  BY <1>13, <1>14 DEF d

\* A part of a byte string (ssh_rd_take, sshwire.c).
LEMMA OctetsPart ==
  ASSUME NEW b \in Octets, NEW c \in Octets, NEW at \in Nat, at + Len(c) <= Len(b),
         \A i \in 1..Len(c) : b[at + i] = c[i]
  PROVE  SubSeq(b, at + 1, at + Len(c)) = c
<1>1. Len(b) \in Nat /\ Len(c) \in Nat /\ \A i \in 1..Len(b) : b[i] \in 0..255
  <2>1. Len(b) \in Nat /\ \A i \in 1..Len(b) : b[i] \in 0..255
    BY OctetsHaveLength
  <2>2. Len(c) \in Nat
    BY OctetsHaveLength
  <2>3. QED
    BY <2>1, <2>2
<1> DEFINE s == SubSeq(b, at + 1, at + Len(c))
<1>2. \A i \in at + 1 .. at + Len(c) : b[i] \in 0..255
  <2> TAKE i \in at + 1 .. at + Len(c)
  <2>1. i \in 1..Len(b)
    BY <1>1
  <2>2. QED
    BY <1>1, <2>1
<1>3. /\ s \in Seq(0..255)
      /\ Len(s) = IF at + 1 <= at + Len(c) THEN at + Len(c) - (at + 1) + 1 ELSE 0
      /\ \A i \in 1..at + Len(c) - (at + 1) + 1 : s[i] = b[at + 1 + i - 1]
  <2>1. at + 1 \in Int /\ at + Len(c) \in Int
    BY <1>1
  <2>2. QED
    BY <1>2, <2>1, SubSeqProperties
<1> HIDE DEF s
<1>4. Len(s) = Len(c)
  BY <1>1, <1>3
<1>5. \A i \in 1..Len(c) : s[i] = c[i]
  <2> TAKE i \in 1..Len(c)
  <2>1. s[i] = b[at + i]
    BY <1>1, <1>3
  <2>2. QED
    BY <2>1
<1>6. s = c
  BY <1>3, <1>4, <1>5, SeqEqual DEF Octets
<1>7. QED
  BY <1>6 DEF s

\* What a library reads at the beginning of a byte string laid out like that:
\* the element, and what follows it (der.c:17-38).
LEMMA ElementRead ==
  ASSUME NEW tag \in 0..255, NEW c \in Octets, NEW r \in Octets, NEW d, NEW b,
         Len(c) <= MaxDerLen, SaysLength(Len(c), d), LaidOut(b, tag, d, c, r)
  PROVE  Element(b) = [tag |-> tag, content |-> c, rest |-> r]
<1> DEFINE n == Len(c)
           long == CASE b[2] = 129 -> 1 [] b[2] = 130 -> 2 [] OTHER -> 0
           size == CASE b[2] = 129 -> b[3] [] b[2] = 130 -> 256 * b[3] + b[4] [] OTHER -> b[2]
<1>0. \A k \in Nat : k < 128 => k # 129 /\ k # 130
  OBVIOUS
<1>1. n \in Nat /\ Len(r) \in Nat
  BY OctetsHaveLength
<1>2. /\ b \in Octets /\ Len(b) = 1 + Len(d) + n + Len(r) /\ b[1] = tag
      /\ \A i \in 1..Len(d) : b[1 + i] = d[i]
  BY DEF LaidOut
<1>3. long = Len(d) - 1 /\ size = n /\ Len(d) \in 1..3
  <2>1. CASE n < 128
    <3>1. d = <<n>> /\ Len(d) = 1
      BY <2>1 DEF SaysLength
    <3>2. 1 \in 1..Len(d) /\ 1 + 1 = 2
      BY <3>1
    <3>3. b[2] = n
      BY <1>2, <3>1, <3>2
    <3>n. n # 129 /\ n # 130
      BY <1>0, <1>1, <2>1, Zenon
    <3>4. b[2] # 129 /\ b[2] # 130
      BY <3>n, <3>3, Zenon
    <3>5. QED
      BY <3>1, <3>3, <3>4
  <2>2. CASE n >= 128 /\ n <= 255
    <3>1. d = <<129, n>> /\ Len(d) = 2
      BY <2>2 DEF SaysLength
    <3>2. 1 \in 1..Len(d) /\ 2 \in 1..Len(d) /\ 1 + 1 = 2 /\ 1 + 2 = 3
      BY <3>1
    <3>3. b[2] = 129 /\ b[3] = n
      BY <1>2, <3>1, <3>2
    <3>4. QED
      BY <3>1, <3>3
  <2>3. CASE n > 255
    <3> DEFINE q == n \div 256
               k == n % 256
    <3>0. n = 256 * q + k
      BY <1>1
    <3> HIDE DEF q, k
    <3>1. d = <<130, q, k>> /\ Len(d) = 3
      BY <2>3 DEF SaysLength, q, k
    <3>2. /\ 1 \in 1..Len(d) /\ 2 \in 1..Len(d) /\ 3 \in 1..Len(d)
          /\ 1 + 1 = 2 /\ 1 + 2 = 3 /\ 1 + 3 = 4
      BY <3>1
    <3>3. b[2] = 130 /\ b[3] = q /\ b[4] = k
      BY <1>2, <3>1, <3>2
    <3>4. QED
      BY <3>0, <3>1, <3>3
  <2>4. QED
    BY <1>1, <2>1, <2>2, <2>3
<1>4. Element(b) =
        IF Len(b) < 2 \/ Len(b) < 2 + long \/ Len(b) < 2 + long + size THEN NoElement
        ELSE [tag |-> b[1], content |-> SubSeq(b, 3 + long, 2 + long + size),
              rest |-> SubSeq(b, 3 + long + size, Len(b))]
  BY DEF Element
<1> HIDE DEF long, size
<1>5. ~(Len(b) < 2 \/ Len(b) < 2 + long \/ Len(b) < 2 + long + size)
  BY <1>1, <1>2, <1>3
<1> DEFINE at == 1 + Len(d)
<1>6. 3 + long = at + 1 /\ 2 + long + size = at + Len(c) /\ at \in Nat /\ at + Len(c) <= Len(b)
  BY <1>1, <1>2, <1>3
<1>7. SubSeq(b, at + 1, at + Len(c)) = c
  <2>1. \A i \in 1..Len(c) : b[at + i] = c[i]
    BY DEF LaidOut
  <2> HIDE DEF at
  <2>2. QED
    BY <1>2, <1>6, <2>1, OctetsPart
<1> DEFINE to == 1 + Len(d) + Len(c)
<1>8. /\ 3 + long + size = to + 1 /\ Len(b) = to + Len(r) /\ to \in Nat
      /\ to + Len(r) <= Len(b)
  BY <1>1, <1>2, <1>3
<1>9. SubSeq(b, to + 1, to + Len(r)) = r
  <2>1. \A i \in 1..Len(r) : b[to + i] = r[i]
    BY DEF LaidOut
  <2> HIDE DEF to
  <2>2. QED
    BY <1>2, <1>8, <2>1, OctetsPart
<1> HIDE DEF at, to
<1>10. Element(b) = [tag |-> b[1], content |-> SubSeq(b, 3 + long, 2 + long + size),
                     rest |-> SubSeq(b, 3 + long + size, Len(b))]
  BY <1>4, <1>5
<1>11. SubSeq(b, 3 + long, 2 + long + size) = c
  BY <1>6, <1>7
<1>12. SubSeq(b, 3 + long + size, Len(b)) = r
  BY <1>8, <1>9
<1>13. QED
  BY <1>2, <1>10, <1>11, <1>12

\* An element in front of something is read as what it is (der.c:33-38).
LEMMA ElementOfTlv ==
  ASSUME NEW tag \in 0..255, NEW c \in Octets, NEW r \in Octets, Len(c) <= MaxDerLen
  PROVE  Element(Tlv(tag, c) \o r) = [tag |-> tag, content |-> c, rest |-> r]
<1>1. Len(c) \in Nat
  BY OctetsHaveLength
<1>2. SaysLength(Len(c), DerLen(Len(c)))
  BY <1>1, DerLenSays
<1>3. LaidOut(Tlv(tag, c) \o r, tag, DerLen(Len(c)), c, r)
  BY TlvLaidOut
<1>4. QED
  BY <1>2, <1>3, ElementRead, Zenon

\* So is one with nothing behind it (der.c:33-38).
LEMMA ElementAlone ==
  ASSUME NEW tag \in 0..255, NEW c \in Octets, Len(c) <= MaxDerLen
  PROVE  Element(Tlv(tag, c)) = [tag |-> tag, content |-> c, rest |-> <<>>]
<1>1. <<>> \in Octets /\ Tlv(tag, c) \in Octets
  <2>1. <<>> \in Octets
    BY DEF Octets
  <2>2. QED
    BY <2>1, TlvLength
<1>2. Tlv(tag, c) \o <<>> = Tlv(tag, c)
  BY <1>1, ConcatEmptySeq DEF Octets
<1>3. Element(Tlv(tag, c) \o <<>>) = [tag |-> tag, content |-> c, rest |-> <<>>]
  BY <1>1, ElementOfTlv
<1>4. QED
  BY <1>2, <1>3

\* What was put in a sequence is read in it (der.c:77-86).
LEMMA InsideOfSequence ==
  ASSUME NEW c \in Octets, Len(c) <= MaxDerLen
  PROVE  Inside(Tlv(SequenceTag, c)) = c
<1>1. SequenceTag \in 0..255
  BY DEF SequenceTag
<1> DEFINE e == Element(Tlv(SequenceTag, c))
<1>2. e = [tag |-> SequenceTag, content |-> c, rest |-> <<>>]
  BY <1>1, ElementAlone
<1>3. Inside(Tlv(SequenceTag, c)) =
        IF e.tag = SequenceTag /\ e.rest = <<>> THEN e.content ELSE <<>>
  BY DEF Inside
<1> HIDE DEF e
<1>4. QED
  BY <1>2, <1>3

\* Two elements, one after the other, are read as the two (der.c:98-99, 140-141).
LEMMA PairOfTlvs ==
  ASSUME NEW tag1 \in 0..255, NEW tag2 \in 0..255, NEW c \in Octets, NEW d \in Octets,
         Len(c) <= MaxDerLen, Len(d) <= MaxDerLen
  PROVE  PairIn(Tlv(tag1, c) \o Tlv(tag2, d), tag1, tag2) = <<c, d>>
<1> DEFINE b == Tlv(tag1, c) \o Tlv(tag2, d)
           e == Element(b)
           f == Element(e.rest)
<1>1. Tlv(tag2, d) \in Octets
  BY TlvLength
<1>2. e = [tag |-> tag1, content |-> c, rest |-> Tlv(tag2, d)]
  BY <1>1, ElementOfTlv
<1>3. f = [tag |-> tag2, content |-> d, rest |-> <<>>]
  <2>1. e.rest = Tlv(tag2, d)
    <3> HIDE DEF e
    <3>1. QED
      BY <1>2
  <2>2. f = Element(Tlv(tag2, d))
    BY <2>1, Zenon
  <2>3. QED
    BY <2>2, ElementAlone
<1>4. PairIn(b, tag1, tag2) =
        IF e.tag = tag1 /\ f.tag = tag2 /\ f.rest = <<>> THEN <<e.content, f.content>> ELSE <<>>
  BY DEF PairIn
<1> HIDE DEF e, f
<1>5. QED
  BY <1>2, <1>3, <1>4

\* c is the content of a DER INTEGER for the number p.
SaysNumber(p, c) ==
  /\ DerInteger(p) = Tlv(IntegerTag, c)
  /\ c \in Octets /\ IsNumber(c) /\ Magnitude(c) = Magnitude(p)
  /\ Len(c) <= Len(p) + 1

\* An INTEGER is the number, whatever zeros stood before it: not negative, not
\* padded for nothing (der.c:40-65).
LEMMA DerIntegerSays ==
  ASSUME NEW p \in Octets
  PROVE  \E c : SaysNumber(p, c)
<1> DEFINE m == Magnitude(p)
<1>1. IsPlain(m) /\ Len(m) <= Len(p)
  BY MagnitudeIsPlain
<1>2. DerInteger(p) =
        Tlv(IntegerTag, IF m = <<>> THEN <<0>> ELSE IF m[1] >= 128 THEN <<0>> \o m ELSE m)
  BY DEF DerInteger
<1>3. Magnitude(m) = m /\ Magnitude(<<0>> \o m) = m
  BY <1>1, PlainMagnitude
<1> HIDE DEF m
<1>4. m \in Octets /\ (m # <<>> => m[1] # 0)
  BY <1>1 DEF IsPlain
<1>5. Len(m) \in Nat /\ Len(p) \in Nat /\ \A i \in 1..Len(m) : m[i] \in 0..255
  BY <1>4, OctetsHaveLength
<1>z. <<0>> \in Octets /\ Len(<<0>>) = 1 /\ <<0>>[1] = 0 /\ <<0>> # <<>>
  BY DEF Octets
<1>6. CASE m = <<>>
  <2>1. <<0>> \o m = <<0>>
    BY <1>6, <1>z, ConcatEmptySeq DEF Octets
  <2>2. Magnitude(<<0>>) = m
    BY <1>3, <2>1
  <2>3. IsNumber(<<0>>)
    BY <1>z DEF IsNumber
  <2>4. DerInteger(p) = Tlv(IntegerTag, <<0>>)
    BY <1>2, <1>6
  <2>5. SaysNumber(p, <<0>>)
    BY <1>5, <1>z, <2>2, <2>3, <2>4 DEF SaysNumber, m
  <2>6. QED
    BY <2>5
<1>7. CASE m # <<>> /\ m[1] >= 128
  <2> DEFINE c == <<0>> \o m
  <2>1. Joined(<<0>>, m, c)
    BY <1>4, <1>z, OctetsJoined
  <2>2. Magnitude(c) = m
    BY <1>3
  <2>3. DerInteger(p) = Tlv(IntegerTag, c)
    BY <1>2, <1>7
  <2> HIDE DEF c
  <2>4. 1 <= Len(m)
    BY <1>4, <1>5, <1>7, EmptySeq DEF Octets
  <2>5. c \in Octets /\ Len(c) = 1 + Len(m) /\ c[1] = 0 /\ c[2] = m[1]
    <3>1. 1 \in 1..1 /\ 1 \in 1..Len(m) /\ 1 + 1 = 2
      BY <1>5, <2>4
    <3>2. c \in Octets /\ Len(c) = 1 + Len(m) /\ c[1] = 0
      BY <1>z, <2>1, <3>1 DEF Joined
    <3>3. c[Len(<<0>>) + 1] = m[1]
      BY <2>1, <3>1 DEF Joined
    <3>4. c[2] = m[1]
      BY <1>z, <3>3
    <3>5. QED
      BY <3>2, <3>4
  <2>6. IsNumber(c)
    <3>1. c # <<>>
      BY <1>5, <2>4, <2>5
    <3>2. QED
      BY <1>7, <2>5, <3>1 DEF IsNumber
  <2>7. Len(c) <= Len(p) + 1
    BY <1>1, <1>5, <2>5 DEF m
  <2>8. SaysNumber(p, c)
    BY <2>2, <2>3, <2>5, <2>6, <2>7 DEF SaysNumber, m
  <2>9. QED
    BY <2>8
<1>8. CASE m # <<>> /\ ~(m[1] >= 128)
  <2>1. DerInteger(p) = Tlv(IntegerTag, m)
    BY <1>2, <1>8
  <2>2. 1 <= Len(m)
    BY <1>4, <1>5, <1>8, EmptySeq DEF Octets
  <2>3. m[1] \in 0..255 /\ m[1] # 0
    BY <1>4, <1>5, <1>8, <2>2
  <2>4. IsNumber(m)
    <3>0. \A x \in 0..255 : ~(x >= 128) => x < 128
      OBVIOUS
    <3>1. m[1] < 128 /\ m[1] # 0
      BY <1>8, <2>3, <3>0, Zenon
    <3>2. m # <<>>
      BY <1>8
    <3>3. QED
      BY <3>1, <3>2 DEF IsNumber
  <2>5. Len(m) <= Len(p) + 1
    BY <1>1, <1>5 DEF m
  <2>6. SaysNumber(p, m)
    BY <1>3, <1>4, <2>1, <2>4, <2>5 DEF SaysNumber, m
  <2>7. QED
    BY <2>6
<1>9. QED
  BY <1>6, <1>7, <1>8

\* How long the length is of what is short (der.c:17-31).
LEMMA ShortDerLen ==
  ASSUME NEW n \in Nat, NEW d, SaysLength(n, d)
  PROVE  /\ Len(d) \in 1..3
         /\ n < 128 => Len(d) = 1
         /\ n <= 255 => Len(d) <= 2
<1>1. n < 128 \/ (n >= 128 /\ n <= 255) \/ n > 255
  OBVIOUS
<1>2. /\ Len(d) \in 1..3
      /\ n < 128 => Len(d) = 1
      /\ n >= 128 /\ n <= 255 => Len(d) = 2
  BY DEF SaysLength
<1> DEFINE l == Len(d)
<1> HIDE DEF l
<1>3. l \in 1..3 /\ (n < 128 => l = 1) /\ (n >= 128 /\ n <= 255 => l = 2)
  BY <1>2 DEF l
<1>4. n <= 255 => l <= 2
  BY <1>1, <1>3
<1>5. QED
  BY <1>3, <1>4 DEF l

\* b says two numbers, one after the other.
SaysTwo(p, q, b) ==
  /\ b \in Seq(Nat) /\ b # <<>> /\ Len(b) \in Nat
  /\ Len(b) <= Len(p) + Len(q) + 10
  /\ Len(p) + Len(q) <= 250 => Len(b) <= Len(p) + Len(q) + 8
  /\ Len(b) <= MaxDerLen => b \in Octets /\ IntegersIn(b) = <<Magnitude(p), Magnitude(q)>>

\* Two INTEGERs are read as the two numbers (der.c:98-99, 204-205).
LEMMA TwoIntegers ==
  ASSUME NEW p \in Octets, NEW q \in Octets
  PROVE  SaysTwo(p, q, DerInteger(p) \o DerInteger(q))
<1>1. PICK c : SaysNumber(p, c)
  BY DerIntegerSays
<1>2. PICK d : SaysNumber(q, d)
  BY DerIntegerSays
<1>3. c \in Octets /\ d \in Octets
  BY <1>1, <1>2 DEF SaysNumber
<1>4. Len(p) \in Nat /\ Len(q) \in Nat /\ Len(c) \in Nat /\ Len(d) \in Nat
  BY <1>3, OctetsHaveLength
<1>5. Len(c) <= Len(p) + 1 /\ Len(d) <= Len(q) + 1
  BY <1>1, <1>2 DEF SaysNumber
<1>i. IntegerTag \in 0..255
  BY DEF IntegerTag
<1> DEFINE s == Tlv(IntegerTag, c)
           t == Tlv(IntegerTag, d)
           ls == Len(DerLen(Len(c)))
           lt == Len(DerLen(Len(d)))
           b == s \o t
<1>6. s \in Seq(Nat) /\ Len(s) = 1 + ls + Len(c) /\ (Len(c) <= MaxDerLen => s \in Octets)
  BY <1>3, <1>i, TlvLength
<1>7. t \in Seq(Nat) /\ Len(t) = 1 + lt + Len(d) /\ (Len(d) <= MaxDerLen => t \in Octets)
  BY <1>3, <1>i, TlvLength
<1>8. ls \in 1..3 /\ (Len(c) <= 255 => ls <= 2)
  <2>1. SaysLength(Len(c), DerLen(Len(c)))
    BY <1>4, DerLenSays
  <2>2. QED
    BY <1>4, <2>1, ShortDerLen
<1>9. lt \in 1..3 /\ (Len(d) <= 255 => lt <= 2)
  <2>1. SaysLength(Len(d), DerLen(Len(d)))
    BY <1>4, DerLenSays
  <2>2. QED
    BY <1>4, <2>1, ShortDerLen
<1>10. DerInteger(p) \o DerInteger(q) = b
  BY <1>1, <1>2 DEF SaysNumber
<1>11. ASSUME Len(c) <= MaxDerLen, Len(d) <= MaxDerLen
       PROVE  b \in Octets /\ IntegersIn(b) = <<Magnitude(p), Magnitude(q)>>
  <2>1. PairIn(b, IntegerTag, IntegerTag) = <<c, d>>
    BY <1>3, <1>i, <1>11, PairOfTlvs, Zenon
  <2>2. s \in Octets /\ t \in Octets
    BY <1>6, <1>7, <1>11
  <2>3. b \in Octets
    <3>1. Joined(s, t, b)
      <4> HIDE DEF s, t
      <4>1. QED
        BY <2>2, OctetsJoined
    <3>2. QED
      BY <3>1, Zenon DEF Joined
  <2>4. IntegersIn(b) = NumbersOf(<<c, d>>)
    BY <2>1 DEF IntegersIn
  <2>5. IsNumber(c) /\ IsNumber(d) /\ Magnitude(c) = Magnitude(p) /\ Magnitude(d) = Magnitude(q)
    BY <1>1, <1>2 DEF SaysNumber
  <2>6. NumbersOf(<<c, d>>) = <<Magnitude(p), Magnitude(q)>>
    <3>1. DOMAIN <<c, d>> = 1..2 /\ <<c, d>>[1] = c /\ <<c, d>>[2] = d
      OBVIOUS
    <3>2. \A k \in DOMAIN <<c, d>> : IsNumber(<<c, d>>[k])
      BY <2>5, <3>1
    <3>3. NumbersOf(<<c, d>>) = [k \in 1..2 |-> Magnitude(<<c, d>>[k])]
      BY <3>1, <3>2 DEF NumbersOf
    <3>4. [k \in 1..2 |-> Magnitude(<<c, d>>[k])] = <<Magnitude(p), Magnitude(q)>>
      BY <2>5, <3>1
    <3>5. QED
      BY <3>3, <3>4
  <2>7. QED
    BY <2>3, <2>4, <2>6, Zenon
<1> HIDE DEF s, t, ls, lt
<1>12. b \in Seq(Nat) /\ Len(b) = Len(s) + Len(t)
  BY <1>6, <1>7, ConcatProperties
<1> HIDE DEF b
<1>13. b # <<>> /\ Len(b) \in Nat
  BY <1>4, <1>6, <1>7, <1>8, <1>9, <1>12
<1>l. Len(b) = 2 + ls + lt + Len(c) + Len(d)
  BY <1>4, <1>6, <1>7, <1>8, <1>9, <1>12
<1>14. Len(b) <= Len(p) + Len(q) + 10
  BY <1>4, <1>5, <1>8, <1>9, <1>l
<1>15. Len(p) + Len(q) <= 250 => Len(b) <= Len(p) + Len(q) + 8
  BY <1>4, <1>5, <1>8, <1>9, <1>l
<1>16. Len(b) <= MaxDerLen => Len(c) <= MaxDerLen /\ Len(d) <= MaxDerLen
  <2>1. MaxDerLen \in Int
    BY DEF MaxDerLen
  <2>2. QED
    BY <1>4, <1>8, <1>9, <1>l, <2>1
<1>17. SaysTwo(p, q, b)
  BY <1>11, <1>12, <1>13, <1>14, <1>15, <1>16 DEF SaysTwo
<1>18. QED
  BY <1>10, <1>17

-----------------------------------------------------------------------------
(* The three buffers, one in the other.                                    *)

\* The buffers are no larger than a length can say (der.c:94, 137, 200, 219).
LEMMA CapsAre ==
  /\ SpkiCap \in Nat /\ InnerCap \in Nat /\ RsaKeyCap \in Nat /\ EcdsaCap \in Nat
  /\ SpkiCap <= MaxDerLen /\ InnerCap <= MaxDerLen /\ RsaKeyCap <= MaxDerLen
  /\ EcdsaCap <= MaxDerLen /\ EcdsaCap <= 256 /\ MaxDerLen \in Nat
  /\ 44 <= SpkiCap /\ InnerCap + 4 <= RsaKeyCap /\ RsaKeyCap + 24 <= SpkiCap
<1>1. MaxDerLen \in Nat /\ 256 <= MaxDerLen
  BY DEF MaxDerLen
<1>2. /\ SpkiCap \in 0..MaxDerLen /\ InnerCap \in 0..MaxDerLen /\ RsaKeyCap \in 0..MaxDerLen
      /\ EcdsaCap \in 0..256
      /\ 44 <= SpkiCap /\ InnerCap + 4 <= RsaKeyCap /\ RsaKeyCap + 24 <= SpkiCap
  BY DerAssumption
<1>3. QED
  BY <1>1, <1>2

\* s is b in a sequence, if both fit.
Boxes(room, cap, b, s) ==
  /\ s # <<>> => s = Tlv(SequenceTag, b) /\ Inside(s) = b /\ b # <<>> /\ Len(b) <= room
  /\ Len(b) <= room /\ Len(b) + 4 <= cap => s # <<>>
  /\ Len(b) <= room /\ Len(b) <= 255 /\ Len(b) + 3 <= cap => s # <<>>
  /\ Len(b) <= room /\ Len(b) < 128 /\ Len(b) + 2 <= cap => s # <<>>
  /\ s \in Octets /\ Len(s) <= cap

\* What is written into one buffer and from there into a sequence in another is
\* there, or nothing is (der.c:96-107, 143-152, 202-214).
LEMMA Boxed ==
  ASSUME NEW room \in Nat, NEW cap \in Nat, NEW b, b \in Seq(Nat), b # <<>>,
         room <= MaxDerLen, Len(b) <= MaxDerLen => b \in Octets
  PROVE  Boxes(room, cap, b, InSequence(cap, Fitting(room, b)))
<1> DEFINE s == InSequence(cap, Fitting(room, b))
           t == Tlv(SequenceTag, b)
<1>0. Len(b) \in Nat /\ MaxDerLen \in Nat
  BY CapsAre, LenProperties
<1>e. <<>> \in Octets /\ Len(<<>>) = 0 /\ SequenceTag \in 0..255
  BY DEF Octets, SequenceTag
<1>1. CASE ~(Len(b) <= room)
  <2>1. s = <<>>
    BY <1>1 DEF Fitting, InSequence
  <2> HIDE DEF s
  <2>2. s \in Octets /\ Len(s) <= cap
    BY <1>e, <2>1
  <2>3. Boxes(room, cap, b, s)
    BY <1>1, <2>1, <2>2, Zenon DEF Boxes
  <2>4. QED
    BY <2>3 DEF s
<1>2. CASE Len(b) <= room
  <2>1. Fitting(room, b) = b
    BY <1>2 DEF Fitting
  <2>2. s = IF Len(t) <= cap THEN t ELSE <<>>
    BY <2>1 DEF InSequence, Fitting
  <2>3. b \in Octets /\ Len(b) <= MaxDerLen
    BY <1>0, <1>2
  <2> DEFINE l == Len(DerLen(Len(b)))
  <2>4. t \in Octets /\ Len(t) = 1 + l + Len(b)
    BY <1>e, <2>3, TlvLength
  <2>5. Inside(t) = b
    BY <2>3, InsideOfSequence
  <2>6. l \in 1..3 /\ (Len(b) < 128 => l = 1) /\ (Len(b) <= 255 => l <= 2)
    <3>1. SaysLength(Len(b), DerLen(Len(b)))
      BY <1>0, DerLenSays
    <3>2. QED
      BY <1>0, <3>1, ShortDerLen
  <2> HIDE DEF l, t, s
  <2>7. /\ Len(b) + 4 <= cap => Len(t) <= cap
        /\ Len(b) <= 255 /\ Len(b) + 3 <= cap => Len(t) <= cap
        /\ Len(b) < 128 /\ Len(b) + 2 <= cap => Len(t) <= cap
    BY <1>0, <2>4, <2>6
  <2>8. t # <<>>
    BY <1>0, <1>e, <2>4, <2>6
  <2>9. CASE Len(t) <= cap
    <3>1. s = t
      BY <2>2, <2>9
    <3>2. s # <<>> /\ s \in Octets /\ Len(s) <= cap
      BY <2>4, <2>8, <2>9, <3>1
    <3>3. s = Tlv(SequenceTag, b) /\ Inside(s) = b
      BY <2>5, <3>1 DEF t
    <3>4. Boxes(room, cap, b, s)
      BY <1>2, <3>2, <3>3, Zenon DEF Boxes
    <3>5. QED
      BY <3>4 DEF s
  <2>10. CASE ~(Len(t) <= cap)
    <3>1. s = <<>>
      BY <2>2, <2>10
    <3>2. s \in Octets /\ Len(s) <= cap
      BY <1>e, <3>1
    <3>3. /\ ~(Len(b) + 4 <= cap)
          /\ ~(Len(b) <= 255 /\ Len(b) + 3 <= cap)
          /\ ~(Len(b) < 128 /\ Len(b) + 2 <= cap)
      BY <2>7, <2>10, Zenon
    <3>4. Boxes(room, cap, b, s)
      BY <3>1, <3>2, <3>3, Zenon DEF Boxes
    <3>5. QED
      BY <3>4 DEF s
  <2>11. QED
    BY <2>9, <2>10
<1>3. QED
  BY <1>1, <1>2

\* The DER of an ECDSA signature is read as its two numbers, and is there if they
\* are no larger than the buffer (der.c:88-108).
EcdsaSigSays(r, s, der) ==
  /\ der # <<>> => IntegersIn(Inside(der)) = <<Magnitude(r), Magnitude(s)>>
  /\ Len(r) + Len(s) + 13 <= EcdsaCap => der # <<>>

\* EcdsaSig is that of every two numbers (der.c:88-108).
LEMMA EcdsaSigIs ==
  ASSUME NEW r \in Octets, NEW s \in Octets
  PROVE  EcdsaSigSays(r, s, EcdsaSig(r, s))
<1> DEFINE b == DerInteger(r) \o DerInteger(s)
           der == EcdsaSig(r, s)
<1>1. SaysTwo(r, s, b)
  BY TwoIntegers
<1>2. der = InSequence(EcdsaCap, Fitting(EcdsaCap, b))
  BY DEF EcdsaSig
<1> HIDE DEF b, der
<1>3. Len(r) \in Nat /\ Len(s) \in Nat /\ Len(b) \in Nat /\ EcdsaCap \in Nat /\ EcdsaCap <= 256
  BY <1>1, CapsAre, OctetsHaveLength DEF SaysTwo
<1>4. /\ b \in Seq(Nat) /\ b # <<>> /\ (Len(b) <= MaxDerLen => b \in Octets)
      /\ EcdsaCap <= MaxDerLen
  BY <1>1, CapsAre DEF SaysTwo
<1>5. Boxes(EcdsaCap, EcdsaCap, b, der)
  BY <1>2, <1>3, <1>4, Boxed
<1>6. ASSUME der # <<>> PROVE IntegersIn(Inside(der)) = <<Magnitude(r), Magnitude(s)>>
  <2>1. Inside(der) = b /\ Len(b) <= EcdsaCap
    BY <1>5, <1>6, Zenon DEF Boxes
  <2>2. Len(b) <= MaxDerLen
    BY <1>3, <2>1, CapsAre
  <2>3. IntegersIn(b) = <<Magnitude(r), Magnitude(s)>>
    BY <1>1, <2>2, Zenon DEF SaysTwo
  <2>4. QED
    BY <2>1, <2>3, Zenon
<1>7. ASSUME Len(r) + Len(s) + 13 <= EcdsaCap PROVE der # <<>>
  <2>1. Len(r) + Len(s) <= 250
    BY <1>3, <1>7
  <2>2. Len(b) <= Len(r) + Len(s) + 8
    BY <1>1, <2>1, Zenon DEF SaysTwo
  <2>3. Len(b) <= EcdsaCap /\ Len(b) <= 255 /\ Len(b) + 3 <= EcdsaCap
    BY <1>3, <1>7, <2>2
  <2>4. QED
    BY <1>5, <2>3, Zenon DEF Boxes
<1>8. EcdsaSigSays(r, s, der)
  BY <1>6, <1>7, Zenon DEF EcdsaSigSays
<1>9. QED
  BY <1>8 DEF der

\* So is an RSA key's, the modulus before the exponent (der.c:190-215).
RsaPkcs1Says(e, n, key) ==
  /\ key # <<>> => IntegersIn(Inside(key)) = <<Magnitude(n), Magnitude(e)>>
  /\ Len(e) + Len(n) + 10 <= InnerCap => key # <<>>
  /\ key \in Octets /\ Len(key) <= RsaKeyCap

\* RsaPkcs1 is that of every two numbers (der.c:190-215).
LEMMA RsaPkcs1Is ==
  ASSUME NEW e \in Octets, NEW n \in Octets
  PROVE  RsaPkcs1Says(e, n, RsaPkcs1(e, n))
<1> DEFINE b == DerInteger(n) \o DerInteger(e)
           key == RsaPkcs1(e, n)
<1>1. SaysTwo(n, e, b)
  BY TwoIntegers
<1>2. key = InSequence(RsaKeyCap, Fitting(InnerCap, b))
  BY DEF RsaPkcs1
<1> HIDE DEF b, key
<1>3. /\ Len(e) \in Nat /\ Len(n) \in Nat /\ Len(b) \in Nat
      /\ InnerCap \in Nat /\ RsaKeyCap \in Nat /\ InnerCap + 4 <= RsaKeyCap
  BY <1>1, CapsAre, OctetsHaveLength DEF SaysTwo
<1>4. /\ b \in Seq(Nat) /\ b # <<>> /\ (Len(b) <= MaxDerLen => b \in Octets)
      /\ InnerCap <= MaxDerLen
  BY <1>1, CapsAre DEF SaysTwo
<1>5. Boxes(InnerCap, RsaKeyCap, b, key)
  BY <1>2, <1>3, <1>4, Boxed
<1>6. ASSUME key # <<>> PROVE IntegersIn(Inside(key)) = <<Magnitude(n), Magnitude(e)>>
  <2>1. Inside(key) = b /\ Len(b) <= InnerCap
    BY <1>5, <1>6, Zenon DEF Boxes
  <2>2. Len(b) <= MaxDerLen
    BY <1>3, <2>1, CapsAre
  <2>3. IntegersIn(b) = <<Magnitude(n), Magnitude(e)>>
    BY <1>1, <2>2, Zenon DEF SaysTwo
  <2>4. QED
    BY <2>1, <2>3, Zenon
<1>7. ASSUME Len(e) + Len(n) + 10 <= InnerCap PROVE key # <<>>
  <2>1. Len(b) <= Len(n) + Len(e) + 10
    BY <1>1, Zenon DEF SaysTwo
  <2>2. Len(b) <= InnerCap /\ Len(b) + 4 <= RsaKeyCap
    BY <1>3, <1>7, <2>1
  <2>3. QED
    BY <1>5, <2>2, Zenon DEF Boxes
<1>8. key \in Octets /\ Len(key) <= RsaKeyCap
  BY <1>5, Zenon DEF Boxes
<1>9. RsaPkcs1Says(e, n, key)
  BY <1>6, <1>7, <1>8, Zenon DEF RsaPkcs1Says
<1>10. QED
  BY <1>9 DEF key

\* A key in a SubjectPublicKeyInfo is read as that key with that algorithm, and
\* is there if both are no larger than the buffer (der.c:125-153).
SpkiSays(alg, key, s) ==
  /\ s # <<>> => KeyIn(s) = KeyInBits(alg, key)
  /\ Len(alg) + Len(key) + 11 <= SpkiCap => s # <<>>
  /\ Len(alg) + Len(key) < 100 /\ Len(alg) + Len(key) + 7 <= SpkiCap => s # <<>>

\* Spki is that of every algorithm and every key (der.c:125-153).
LEMMA SpkiIs ==
  ASSUME NEW alg \in Octets, NEW key \in Octets, Len(alg) < 100
  PROVE  SpkiSays(alg, key, Spki(alg, key))
<1> DEFINE bits == <<0>> \o key
           a == Tlv(SequenceTag, alg)
           k == Tlv(BitStringTag, bits)
           b == a \o k
           s == Spki(alg, key)
           la == Len(DerLen(Len(alg)))
           lk == Len(DerLen(Len(bits)))
<1>1. Len(alg) \in Nat /\ Len(key) \in Nat /\ <<0>> \in Octets /\ Len(<<0>>) = 1
  BY OctetsHaveLength DEF Octets
<1>t. SequenceTag \in 0..255 /\ BitStringTag \in 0..255
  BY DEF SequenceTag, BitStringTag
<1>c. MaxDerLen \in Nat /\ 100 <= MaxDerLen
  BY CapsAre DEF MaxDerLen
<1>2. Joined(<<0>>, key, bits)
  BY <1>1, OctetsJoined
<1>3. s = InSequence(SpkiCap, Fitting(SpkiCap, b))
  BY DEF Spki, DerBitString
<1>4. Tail(bits) = key
  <2> HIDE DEF bits
  <2>1. bits \in Octets /\ Len(bits) = 1 + Len(key) /\ \A i \in 1..Len(key) : bits[1 + i] = key[i]
    BY <1>1, <1>2 DEF Joined
  <2>2. bits # <<>>
    BY <1>1, <2>1
  <2>3. /\ Tail(bits) \in Octets /\ Len(Tail(bits)) = Len(bits) - 1
        /\ \A i \in 1..Len(Tail(bits)) : Tail(bits)[i] = bits[i + 1]
    BY <2>1, <2>2, HeadTailProperties DEF Octets
  <2>4. Len(Tail(bits)) = Len(key)
    BY <1>1, <2>1, <2>3
  <2>5. \A i \in 1..Len(key) : Tail(bits)[i] = key[i]
    <3> TAKE i \in 1..Len(key)
    <3>1. Tail(bits)[i] = bits[i + 1] /\ i + 1 = 1 + i
      BY <1>1, <2>3, <2>4
    <3>2. QED
      BY <2>1, <3>1
  <2>6. QED
    BY <2>3, <2>4, <2>5, SeqEqual DEF Octets
<1>5. bits \in Octets /\ Len(bits) = 1 + Len(key)
  <2> HIDE DEF bits
  <2>1. QED
    BY <1>1, <1>2 DEF Joined
<1>6. a \in Seq(Nat) /\ Len(a) = 1 + la + Len(alg) /\ (Len(alg) <= MaxDerLen => a \in Octets)
  BY <1>t, TlvLength
<1>7. k \in Seq(Nat) /\ Len(k) = 1 + lk + Len(bits) /\ (Len(bits) <= MaxDerLen => k \in Octets)
  <2> HIDE DEF bits
  <2>1. QED
    BY <1>t, <1>5, TlvLength
<1>8. la = 1
  <2>1. SaysLength(Len(alg), DerLen(Len(alg)))
    BY <1>1, DerLenSays
  <2>2. Len(alg) < 128
    BY <1>1
  <2>3. QED
    BY <1>1, <2>1, <2>2, ShortDerLen
<1>9. lk \in 1..3 /\ (Len(bits) < 128 => lk = 1)
  <2> HIDE DEF bits
  <2>0. Len(bits) \in Nat
    BY <1>1, <1>5
  <2>1. SaysLength(Len(bits), DerLen(Len(bits)))
    BY <2>0, DerLenSays
  <2>2. QED
    BY <2>0, <2>1, ShortDerLen
<1>10. ASSUME Len(bits) <= MaxDerLen
       PROVE  b \in Octets /\ PairIn(b, SequenceTag, BitStringTag) = <<alg, bits>>
  <2>1. Len(alg) <= MaxDerLen
    BY <1>1, <1>c
  <2> HIDE DEF bits
  <2>2. PairIn(b, SequenceTag, BitStringTag) = <<alg, bits>>
    BY <1>t, <1>5, <1>10, <2>1, PairOfTlvs, Zenon
  <2>3. Joined(a, k, b)
    <3>1. a \in Octets /\ k \in Octets
      BY <1>6, <1>7, <1>10, <2>1
    <3> HIDE DEF a, k
    <3>2. QED
      BY <3>1, OctetsJoined
  <2>4. b \in Octets
    BY <2>3, Zenon DEF Joined
  <2>5. QED
    BY <2>2, <2>4
<1> HIDE DEF a, k, la, lk, s, bits
<1>11. b \in Seq(Nat) /\ Len(b) = Len(a) + Len(k)
  BY <1>6, <1>7, ConcatProperties
<1> HIDE DEF b
<1>12. Len(b) = 4 + lk + Len(alg) + Len(key) /\ Len(b) \in Nat
  BY <1>1, <1>5, <1>6, <1>7, <1>8, <1>9, <1>11
<1>13. b # <<>>
  BY <1>1, <1>9, <1>12
<1>14. Len(b) <= MaxDerLen => Len(bits) <= MaxDerLen
  BY <1>1, <1>5, <1>9, <1>12, <1>c
<1>15. Boxes(SpkiCap, SpkiCap, b, s)
  <2>1. Len(b) <= MaxDerLen => b \in Octets
    BY <1>10, <1>14
  <2>2. SpkiCap \in Nat /\ SpkiCap <= MaxDerLen
    BY CapsAre
  <2>3. QED
    BY <1>3, <1>11, <1>13, <2>1, <2>2, Boxed
<1>16. ASSUME s # <<>> PROVE KeyIn(s) = KeyInBits(alg, key)
  <2>1. Inside(s) = b /\ Len(b) <= SpkiCap
    BY <1>15, <1>16, Zenon DEF Boxes
  <2>2. Len(b) <= MaxDerLen
    BY <1>12, <2>1, CapsAre
  <2>3. PairIn(b, SequenceTag, BitStringTag) = <<alg, bits>>
    BY <1>10, <1>14, <2>2
  <2>4. KeyIn(s) = KeyInParts(<<alg, bits>>)
    BY <2>1, <2>3, Zenon DEF KeyIn
  <2>5. KeyInParts(<<alg, bits>>) = KeyInBits(alg, Tail(bits))
    BY DEF KeyInParts
  <2>6. QED
    BY <1>4, <2>4, <2>5, Zenon
<1>c2. SpkiCap \in Nat
  BY CapsAre
<1>17. Len(alg) + Len(key) + 11 <= SpkiCap => Len(b) <= SpkiCap /\ Len(b) + 4 <= SpkiCap
  BY <1>1, <1>9, <1>12, <1>c2
<1>18. Len(alg) + Len(key) < 100 /\ Len(alg) + Len(key) + 7 <= SpkiCap
         => Len(b) <= SpkiCap /\ Len(b) < 128 /\ Len(b) + 2 <= SpkiCap
  <2> SUFFICES ASSUME Len(alg) + Len(key) < 100, Len(alg) + Len(key) + 7 <= SpkiCap
               PROVE  Len(b) <= SpkiCap /\ Len(b) < 128 /\ Len(b) + 2 <= SpkiCap
    OBVIOUS
  <2>1. lk <= 3
    BY <1>9
  <2>2. Len(b) < 128
    BY <1>1, <1>12, <2>1, <1>9
  <2>3. Len(bits) < 128
    BY <1>1, <1>5
  <2>4. lk = 1
    BY <1>9, <2>3
  <2>5. QED
    BY <1>1, <1>12, <1>c2, <2>2, <2>4
<1>19. SpkiSays(alg, key, s)
  BY <1>15, <1>16, <1>17, <1>18, Zenon DEF SpkiSays, Boxes
<1>20. QED
  BY <1>19 DEF s

\* The names of the algorithms are byte strings, each another (der.c:110-123).
LEMMA Oids ==
  /\ OidRsa \o Null \in Octets /\ Len(OidRsa \o Null) = 13
  /\ OidEd25519 \in Octets /\ Len(OidEd25519) = 5
  /\ \A c \in DOMAIN OidOf : OidEc \o OidOf[c] \in Octets /\ Len(OidEc \o OidOf[c]) <= 19
  /\ OidRsa \o Null # OidEd25519
  /\ \A c \in DOMAIN OidOf : OidEc \o OidOf[c] \notin {OidRsa \o Null, OidEd25519}
  /\ \A c, d \in DOMAIN OidOf : OidEc \o OidOf[c] = OidEc \o OidOf[d] => c = d
<1> DEFINE ec == <<42, 134, 72, 206, 61, 2, 1>>
           rsa == <<42, 134, 72, 134, 247, 13, 1, 1, 1>>
           ed == <<43, 101, 112>>
           p256 == <<42, 134, 72, 206, 61, 3, 1, 7>>
           p384 == <<43, 129, 4, 0, 34>>
           p521 == <<43, 129, 4, 0, 35>>
           curves == {"nistp256", "nistp384", "nistp521"}
           name(c) == IF c = "nistp256" THEN p256 ELSE IF c = "nistp384" THEN p384 ELSE p521
<1>1. /\ ec \in Octets /\ Len(ec) = 7 /\ rsa \in Octets /\ Len(rsa) = 9
      /\ ed \in Octets /\ Len(ed) = 3 /\ <<>> \in Octets /\ Len(<<>>) = 0
  BY DEF Octets
<1>2. /\ p256 \in Octets /\ Len(p256) = 8 /\ p384 \in Octets /\ Len(p384) = 5
      /\ p521 \in Octets /\ Len(p521) = 5 /\ p384[5] = 34 /\ p521[5] = 35
  BY DEF Octets
<1>3. DOMAIN OidOf = curves /\ \A c \in curves : OidOf[c] = Tlv(OidTag, name(c))
  BY DEF OidOf
<1>4. \A c \in curves : name(c) \in Octets /\ (Len(name(c)) = 8 \/ Len(name(c)) = 5)
  BY <1>2
<1>5. \A c, d \in curves : name(c) = name(d) => c = d
  <2>1. name("nistp256") # name("nistp384") /\ name("nistp256") # name("nistp521")
    BY <1>2
  <2>2. name("nistp384") # name("nistp521")
    BY <1>2
  <2>3. QED
    BY <2>1, <2>2
<1>6. /\ OidEc = Tlv(OidTag, ec) /\ OidRsa = Tlv(OidTag, rsa) /\ OidEd25519 = Tlv(OidTag, ed)
      /\ Null = Tlv(NullTag, <<>>) /\ OidTag \in 0..255 /\ NullTag \in 0..255
  BY DEF OidEc, OidRsa, OidEd25519, Null, OidTag, NullTag
<1> HIDE DEF ec, rsa, ed, p256, p384, p521, name, curves
<1>7. \A n \in 0..9 : n < 128 /\ n <= MaxDerLen
  <2>1. MaxDerLen \in Nat /\ 9 <= MaxDerLen
    BY CapsAre DEF MaxDerLen
  <2>2. QED
    BY <2>1
<1>8. ASSUME NEW tag \in 0..255, NEW c \in Octets, NEW n \in 0..9, Len(c) = n
      PROVE  Tlv(tag, c) \in Octets /\ Len(Tlv(tag, c)) = 2 + n
  <2>1. n \in Nat /\ n < 128 /\ n <= MaxDerLen
    BY <1>7
  <2>2. SaysLength(n, DerLen(n))
    BY <2>1, DerLenSays
  <2>3. Len(DerLen(n)) = 1
    BY <2>1, <2>2, ShortDerLen
  <2>4. Tlv(tag, c) \in Octets /\ Len(Tlv(tag, c)) = 1 + Len(DerLen(n)) + n
    BY <1>8, <2>1, TlvLength
  <2>5. QED
    BY <2>1, <2>3, <2>4
<1>9. /\ OidEc \in Octets /\ Len(OidEc) = 9 /\ OidRsa \in Octets /\ Len(OidRsa) = 11
      /\ OidEd25519 \in Octets /\ Len(OidEd25519) = 5 /\ Null \in Octets /\ Len(Null) = 2
  <2>1. 0 \in 0..9 /\ 3 \in 0..9 /\ 7 \in 0..9 /\ 9 \in 0..9
    OBVIOUS
  <2>2. OidEc \in Octets /\ Len(OidEc) = 2 + 7
    <3>1. Tlv(OidTag, ec) \in Octets /\ Len(Tlv(OidTag, ec)) = 2 + 7
      BY <1>1, <1>6, <1>8, <2>1
    <3>2. QED
      BY <1>6, <3>1, Zenon
  <2>3. OidRsa \in Octets /\ Len(OidRsa) = 2 + 9
    <3>1. Tlv(OidTag, rsa) \in Octets /\ Len(Tlv(OidTag, rsa)) = 2 + 9
      BY <1>1, <1>6, <1>8, <2>1
    <3>2. QED
      BY <1>6, <3>1, Zenon
  <2>4. OidEd25519 \in Octets /\ Len(OidEd25519) = 2 + 3
    <3>1. Tlv(OidTag, ed) \in Octets /\ Len(Tlv(OidTag, ed)) = 2 + 3
      BY <1>1, <1>6, <1>8, <2>1
    <3>2. QED
      BY <1>6, <3>1, Zenon
  <2>5. Null \in Octets /\ Len(Null) = 2 + 0
    <3>1. Tlv(NullTag, <<>>) \in Octets /\ Len(Tlv(NullTag, <<>>)) = 2 + 0
      BY <1>1, <1>6, <1>8, <2>1
    <3>2. QED
      BY <1>6, <3>1, Zenon
  <2>6. QED
    BY <2>2, <2>3, <2>4, <2>5
<1>10. ASSUME NEW c \in curves
       PROVE  /\ OidOf[c] \in Octets
              /\ Len(OidOf[c]) = 10 \/ Len(OidOf[c]) = 7
  <2>1. name(c) \in Octets /\ (Len(name(c)) = 8 \/ Len(name(c)) = 5)
    BY <1>4
  <2>2. 8 \in 0..9 /\ 5 \in 0..9 /\ 2 + 8 = 10 /\ 2 + 5 = 7
    OBVIOUS
  <2>3. OidOf[c] = Tlv(OidTag, name(c))
    BY <1>3
  <2>4. CASE Len(name(c)) = 8
    <3>0. Tlv(OidTag, name(c)) \in Octets /\ Len(Tlv(OidTag, name(c))) = 2 + 8
      BY <1>6, <1>8, <2>1, <2>2, <2>4
    <3>1. OidOf[c] \in Octets /\ Len(OidOf[c]) = 10
      BY <2>2, <2>3, <3>0, Zenon
    <3>2. QED
      BY <3>1, Zenon
  <2>5. CASE Len(name(c)) = 5
    <3>0. Tlv(OidTag, name(c)) \in Octets /\ Len(Tlv(OidTag, name(c))) = 2 + 5
      BY <1>6, <1>8, <2>1, <2>2, <2>5
    <3>1. OidOf[c] \in Octets /\ Len(OidOf[c]) = 7
      BY <2>2, <2>3, <3>0, Zenon
    <3>2. QED
      BY <3>1, Zenon
  <2>6. QED
    BY <2>1, <2>4, <2>5, Zenon
<1>11. OidRsa \o Null \in Octets /\ Len(OidRsa \o Null) = 13
  <2>1. Joined(OidRsa, Null, OidRsa \o Null)
    BY <1>9, OctetsJoined
  <2>2. QED
    BY <1>9, <2>1 DEF Joined
<1>12. ASSUME NEW c \in curves
       PROVE  /\ OidEc \o OidOf[c] \in Octets
              /\ Len(OidEc \o OidOf[c]) = 19 \/ Len(OidEc \o OidOf[c]) = 16
  <2>1. OidOf[c] \in Octets /\ (Len(OidOf[c]) = 10 \/ Len(OidOf[c]) = 7)
    BY <1>10
  <2>2. Joined(OidEc, OidOf[c], OidEc \o OidOf[c])
    BY <1>9, <2>1, OctetsJoined
  <2>3. OidEc \o OidOf[c] \in Octets /\ Len(OidEc \o OidOf[c]) = Len(OidEc) + Len(OidOf[c])
    BY <2>2, Zenon DEF Joined
  <2>4. 9 + 10 = 19 /\ 9 + 7 = 16
    OBVIOUS
  <2>5. QED
    BY <1>9, <2>1, <2>3, <2>4, Zenon
<1>13. \A c, d \in curves : OidEc \o OidOf[c] = OidEc \o OidOf[d] => c = d
  <2> TAKE c, d \in curves
  <2>1. ASSUME NEW e \in curves
        PROVE  Element(OidEc \o OidOf[e]).rest = OidOf[e] /\ Element(OidOf[e]).content = name(e)
    <3>1. OidOf[e] \in Octets /\ name(e) \in Octets
      BY <1>4, <1>10
    <3>n. 5 \in 0..9 /\ 7 \in 0..9 /\ 8 \in 0..9
      OBVIOUS
    <3>2. Len(ec) <= MaxDerLen /\ Len(name(e)) <= MaxDerLen
      BY <1>1, <1>4, <1>7, <3>n, Zenon
    <3>3. Element(OidEc \o OidOf[e]) = [tag |-> OidTag, content |-> ec, rest |-> OidOf[e]]
      BY <1>1, <1>6, <3>1, <3>2, ElementOfTlv
    <3>4. Element(OidOf[e]) = [tag |-> OidTag, content |-> name(e), rest |-> <<>>]
      BY <1>3, <1>6, <3>1, <3>2, ElementAlone
    <3>5. QED
      BY <3>3, <3>4
  <2>2. HAVE OidEc \o OidOf[c] = OidEc \o OidOf[d]
  <2>3. OidOf[c] = OidOf[d]
    BY <2>1, <2>2
  <2>4. name(c) = name(d)
    BY <2>1, <2>3
  <2>5. QED
    BY <1>5, <2>4
<1>14. OidRsa \o Null # OidEd25519
  BY <1>9, <1>11
<1>15. ASSUME NEW c \in curves
       PROVE  /\ OidEc \o OidOf[c] \notin {OidRsa \o Null, OidEd25519}
              /\ Len(OidEc \o OidOf[c]) <= 19
  <2> DEFINE alg == OidEc \o OidOf[c]
  <2>1. Len(alg) = 19 \/ Len(alg) = 16
    BY <1>12
  <2> HIDE DEF alg
  <2>n. /\ 19 <= 19 /\ 19 # 13 /\ 19 # 5
        /\ 16 <= 19 /\ 16 # 13 /\ 16 # 5
    OBVIOUS
  <2>2. Len(alg) <= 19 /\ Len(alg) # 13 /\ Len(alg) # 5
    BY <2>1, <2>n, Zenon
  <2>3. alg # OidRsa \o Null /\ alg # OidEd25519
    BY <1>9, <1>11, <2>2, Zenon
  <2>4. QED
    BY <2>2, <2>3 DEF alg
<1>16. QED
  BY <1>3, <1>9, <1>11, <1>12, <1>13, <1>14, <1>15, Zenon

\* Which key it is, is told by its algorithm (der.c:110-123, 184, 227, 237).
LEMMA KeysTold ==
  ASSUME NEW bits
  PROVE  /\ KeyInBits(OidRsa \o Null, bits) = RsaNumbers(IntegersIn(Inside(bits)))
         /\ KeyInBits(OidEd25519, bits) = [kind |-> "ed25519", nums |-> <<bits>>]
         /\ \A c \in DOMAIN OidOf :
              KeyInBits(OidEc \o OidOf[c], bits) = [kind |-> c, nums |-> <<bits>>]
<1>1. KeyInBits(OidRsa \o Null, bits) = RsaNumbers(IntegersIn(Inside(bits)))
  BY DEF KeyInBits
<1>2. KeyInBits(OidEd25519, bits) = [kind |-> "ed25519", nums |-> <<bits>>]
  BY Oids DEF KeyInBits
<1>3. ASSUME NEW c \in DOMAIN OidOf
      PROVE  KeyInBits(OidEc \o OidOf[c], bits) = [kind |-> c, nums |-> <<bits>>]
  <2> DEFINE alg == OidEc \o OidOf[c]
             it == CHOOSE d \in DOMAIN OidOf : alg = OidEc \o OidOf[d]
  <2>1. alg # OidRsa \o Null /\ alg # OidEd25519
    BY Oids
  <2>2. \E d \in DOMAIN OidOf : alg = OidEc \o OidOf[d]
    OBVIOUS
  <2>3. it \in DOMAIN OidOf /\ alg = OidEc \o OidOf[it]
    <3> HIDE DEF alg
    <3>1. QED
      BY <2>2
  <2>4. KeyInBits(alg, bits) = [kind |-> it, nums |-> <<bits>>]
    <3> HIDE DEF alg
    <3>1. QED
      BY <2>1, <2>2 DEF KeyInBits
  <2>5. it = c
    <3> HIDE DEF it
    <3>1. QED
      BY <2>3, Oids
  <2> HIDE DEF it
  <2>6. QED
    BY <2>4, <2>5
<1>4. QED
  BY <1>1, <1>2, <1>3

-----------------------------------------------------------------------------
(* A key and whose it is (crypto_openssl.c:214-277).                       *)

\* The key of a type with these byte strings.
KeyHeld(type, curve, nums) ==
  CASE type = TypeRsa -> [kind |-> "rsa", nums |-> <<Magnitude(nums[1]), Magnitude(nums[2])>>]
    [] type = TypeEd -> [kind |-> "ed25519", nums |-> nums]
    [] OTHER -> [kind |-> curve, nums |-> nums]

\* s is what the library reads this key in, or <<>>.
HoldsKey(key, s) ==
  /\ s # <<>> =>
       /\ \/ key.type = TypeRsa /\ Len(key.nums) = 2
          \/ key.type = TypeEd /\ Len(key.nums) = 1
          \/ key.type \in Ecdsa /\ Len(key.nums) = 1 /\ key.curve = CurveOf[key.type]
       /\ KeyIn(s) = KeyHeld(key.type, key.curve, key.nums)
  /\ key.type = TypeRsa /\ Len(key.nums) = 2 /\ Bytes(key.nums) + 10 <= InnerCap => s # <<>>
  /\ key.type = TypeEd /\ Len(key.nums) = 1 /\ Len(key.nums[1]) = 32 => s # <<>>
  /\ key.type \in Ecdsa /\ Len(key.nums) = 1 /\ key.curve = CurveOf[key.type] =>
       (Len(key.nums[1]) \in 1..SpkiCap - 30 /\ key.nums[1][1] = 4 => s # <<>>)

\* An Ed25519 key of 32 bytes is read as those, another is refused (der.c:231-239).
LEMMA SpkiEd25519Is ==
  ASSUME NEW key \in Octets
  PROVE  /\ SpkiEd25519(key) # <<>> => KeyIn(SpkiEd25519(key)) = [kind |-> "ed25519", nums |-> <<key>>]
         /\ SpkiEd25519(key) # <<>> <=> Len(key) = 32
<1> DEFINE s == Spki(OidEd25519, key)
<1>1. OidEd25519 \in Octets /\ Len(OidEd25519) = 5
  BY Oids
<1>2. SpkiSays(OidEd25519, key, s)
  <2>1. Len(OidEd25519) < 100
    BY <1>1
  <2>2. QED
    BY <1>1, <2>1, SpkiIs
<1>3. SpkiEd25519(key) = IF Len(key) = 32 THEN s ELSE <<>>
  BY DEF SpkiEd25519
<1> HIDE DEF s
<1>4. s # <<>> => KeyIn(s) = [kind |-> "ed25519", nums |-> <<key>>]
  BY <1>2, KeysTold DEF SpkiSays
<1>5. Len(key) = 32 => s # <<>>
  <2> SUFFICES ASSUME Len(key) = 32 PROVE s # <<>>
    OBVIOUS
  <2>1. Len(OidEd25519) + Len(key) < 100 /\ Len(OidEd25519) + Len(key) + 7 <= SpkiCap
    BY <1>1, CapsAre
  <2>2. QED
    BY <1>2, <2>1, Zenon DEF SpkiSays
<1>6. QED
  BY <1>3, <1>4, <1>5

\* An uncompressed point is read as that point of that curve (der.c:155-188).
LEMMA SpkiEcIs ==
  ASSUME NEW c \in DOMAIN OidOf, NEW point \in Octets
  PROVE  /\ SpkiEc(c, point) # <<>> => KeyIn(SpkiEc(c, point)) = [kind |-> c, nums |-> <<point>>]
         /\ Len(point) \in 1..SpkiCap - 30 /\ point[1] = 4 => SpkiEc(c, point) # <<>>
<1> DEFINE alg == OidEc \o OidOf[c]
           s == Spki(alg, point)
<1>1. alg \in Octets /\ Len(alg) <= 19
  BY Oids
<1>2. KeyInBits(alg, point) = [kind |-> c, nums |-> <<point>>]
  BY KeysTold
<1>3. SpkiEc(c, point) = IF point = <<>> THEN <<>> ELSE IF point[1] # 4 THEN <<>> ELSE s
  BY DEF SpkiEc
<1> HIDE DEF alg
<1>4. Len(alg) \in Nat /\ Len(point) \in Nat /\ SpkiCap \in Nat
  BY <1>1, OctetsHaveLength, CapsAre
<1>5. SpkiSays(alg, point, s)
  <2>1. Len(alg) < 100
    BY <1>1, <1>4
  <2>2. QED
    BY <1>1, <2>1, SpkiIs
<1> HIDE DEF s
<1>6. s # <<>> => KeyIn(s) = [kind |-> c, nums |-> <<point>>]
  BY <1>2, <1>5, Zenon DEF SpkiSays
<1>7. ASSUME Len(point) \in 1..SpkiCap - 30, point[1] = 4 PROVE s # <<>> /\ point # <<>>
  <2>1. Len(alg) + Len(point) + 11 <= SpkiCap
    BY <1>1, <1>4, <1>7
  <2>2. s # <<>>
    BY <1>5, <2>1, Zenon DEF SpkiSays
  <2>3. point # <<>>
    BY <1>7
  <2>4. QED
    BY <2>2, <2>3
<1>8. QED
  BY <1>3, <1>6, <1>7

\* An RSA key is read as its numbers, which change places twice (der.c:190-229).
LEMMA SpkiRsaIs ==
  ASSUME NEW e \in Octets, NEW n \in Octets
  PROVE  /\ SpkiRsa(e, n) # <<>> =>
              KeyIn(SpkiRsa(e, n)) = [kind |-> "rsa", nums |-> <<Magnitude(e), Magnitude(n)>>]
         /\ Len(e) + Len(n) + 10 <= InnerCap => SpkiRsa(e, n) # <<>>
<1> DEFINE key == RsaPkcs1(e, n)
           alg == OidRsa \o Null
           s == Spki(alg, key)
<1>1. RsaPkcs1Says(e, n, key)
  BY RsaPkcs1Is
<1>2. alg \in Octets /\ Len(alg) = 13
  BY Oids
<1>3. KeyInBits(alg, key) = RsaNumbers(IntegersIn(Inside(key)))
  BY KeysTold
<1>4. SpkiRsa(e, n) = IF key = <<>> THEN <<>> ELSE s
  BY DEF SpkiRsa, SpkiOfPkcs1
<1> HIDE DEF key, alg
<1>5. key \in Octets /\ Len(key) <= RsaKeyCap /\ Len(key) \in Nat
  <2>1. key \in Octets /\ Len(key) <= RsaKeyCap
    BY <1>1, Zenon DEF RsaPkcs1Says
  <2>2. QED
    BY <2>1, OctetsHaveLength
<1>6. SpkiSays(alg, key, s)
  <2>1. Len(alg) < 100
    BY <1>2
  <2>2. QED
    BY <1>2, <1>5, <2>1, SpkiIs
<1> HIDE DEF s
<1>7. s # <<>>
  <2>1. Len(alg) + Len(key) + 11 <= SpkiCap
    BY <1>2, <1>5, CapsAre
  <2>2. QED
    BY <1>6, <2>1, Zenon DEF SpkiSays
<1>8. ASSUME key # <<>>
      PROVE  KeyIn(s) = [kind |-> "rsa", nums |-> <<Magnitude(e), Magnitude(n)>>]
  <2>1. IntegersIn(Inside(key)) = <<Magnitude(n), Magnitude(e)>>
    BY <1>1, <1>8, Zenon DEF RsaPkcs1Says
  <2>2. KeyIn(s) = RsaNumbers(<<Magnitude(n), Magnitude(e)>>)
    BY <1>3, <1>6, <1>7, <2>1, Zenon DEF SpkiSays
  <2>3. \A x, y : RsaNumbers(<<x, y>>) = [kind |-> "rsa", nums |-> <<y, x>>]
    BY DEF RsaNumbers
  <2>4. QED
    BY <2>2, <2>3, Zenon
<1>9. Len(e) + Len(n) + 10 <= InnerCap => key # <<>>
  BY <1>1, Zenon DEF RsaPkcs1Says
<1>10. QED
  BY <1>4, <1>7, <1>8, <1>9

\* The byte strings of a key, one or two of them, one by one (crypto_openssl.c:214-277).
LEMMA StringsAre ==
  ASSUME NEW nums \in Strings
  PROVE  /\ Len(nums) \in Nat /\ DOMAIN nums = 1..Len(nums)
         /\ \A k \in 1..Len(nums) : nums[k] \in Octets
         /\ Len(nums) = 1 => nums = <<nums[1]>> /\ nums[1] \in Octets
         /\ Len(nums) = 2 => nums = <<nums[1], nums[2]>> /\ nums[1] \in Octets /\ nums[2] \in Octets
<1>1. nums \in Seq(Octets)
  BY DEF Strings, Octets
<1>2. /\ Len(nums) \in Nat /\ DOMAIN nums = 1..Len(nums)
      /\ \A k \in 1..Len(nums) : nums[k] \in Octets
  BY <1>1, ElementOfSeq, LenProperties
<1>3. ASSUME Len(nums) = 1 PROVE nums = <<nums[1]>> /\ nums[1] \in Octets
  <2>1. nums[1] \in Octets
    BY <1>2, <1>3
  <2>2. <<nums[1]>> \in Seq(Octets) /\ Len(<<nums[1]>>) = 1
    BY <2>1
  <2>3. \A k \in 1..Len(nums) : nums[k] = <<nums[1]>>[k]
    BY <1>3
  <2>4. QED
    BY <1>1, <1>3, <2>1, <2>2, <2>3, SeqEqual
<1>4. ASSUME Len(nums) = 2
      PROVE  nums = <<nums[1], nums[2]>> /\ nums[1] \in Octets /\ nums[2] \in Octets
  <2>1. nums[1] \in Octets /\ nums[2] \in Octets
    BY <1>2, <1>4
  <2>2. <<nums[1], nums[2]>> \in Seq(Octets) /\ Len(<<nums[1], nums[2]>>) = 2
    BY <2>1
  <2>3. \A k \in 1..Len(nums) : nums[k] = <<nums[1], nums[2]>>[k]
    BY <1>4
  <2>4. QED
    BY <1>1, <1>4, <2>1, <2>2, <2>3, SeqEqual
<1>5. QED
  BY <1>2, <1>3, <1>4

\* The types a key may have are not each other (crypto_openssl.c:214-277).
LEMMA KeyTypes ==
  /\ TypeRsa # TypeEd /\ TypeRsa \notin Ecdsa /\ TypeEd \notin Ecdsa
  /\ \A t \in Ecdsa : CurveOf[t] \in DOMAIN OidOf
  /\ TypeEd \notin {"rsa-sha2-256", "rsa-sha2-512"}
  /\ {"rsa", "ed25519", "none"} \cap DOMAIN OidOf = {}
BY DEF TypeRsa, TypeEd, Ecdsa, CurveOf, OidOf

\* Sequences are as long as each other if they have the same places.
LEMMA TwoPlaces ==
  ASSUME NEW p \in Strings, NEW q \in Strings, DOMAIN p = DOMAIN q, Len(p) = 2
  PROVE  Len(q) = 2
<1> DEFINE n == Len(q)
<1>1. n \in Nat /\ 1..n = 1..2
  BY StringsAre
<1> HIDE DEF n
<1>2. 2 \in 1..n /\ \A k \in 1..n : k \in 1..2
  BY <1>1
<1>3. n \in 1..n
  BY <1>1, <1>2
<1>4. n = 2
  BY <1>1, <1>2, <1>3
<1>5. QED
  BY <1>4 DEF n

\* The SubjectPublicKeyInfo of a key that is one is read as that key
\* (crypto_openssl.c:214-277).
LEMMA SpkiOfIs ==
  ASSUME NEW key, key.nums \in Strings
  PROVE  HoldsKey(key, SpkiOf(key))
<1> DEFINE s == SpkiOf(key)
           nums == key.nums
<1>1. /\ Len(nums) \in Nat
      /\ Len(nums) = 1 => nums = <<nums[1]>> /\ nums[1] \in Octets
      /\ Len(nums) = 2 => nums = <<nums[1], nums[2]>> /\ nums[1] \in Octets /\ nums[2] \in Octets
  BY StringsAre
<1>2. CASE key.type = TypeRsa /\ Len(nums) = 2
  <2>1. s = SpkiRsa(nums[1], nums[2])
    BY <1>2, KeyTypes DEF SpkiOf
  <2>2. /\ s # <<>> => KeyIn(s) = [kind |-> "rsa", nums |-> <<Magnitude(nums[1]), Magnitude(nums[2])>>]
        /\ Len(nums[1]) + Len(nums[2]) + 10 <= InnerCap => s # <<>>
    BY <1>1, <1>2, <2>1, SpkiRsaIs
  <2> HIDE DEF s
  <2>3. KeyHeld(key.type, key.curve, nums)
          = [kind |-> "rsa", nums |-> <<Magnitude(nums[1]), Magnitude(nums[2])>>]
    BY <1>2, KeyTypes DEF KeyHeld
  <2>4. Bytes(nums) + 10 <= InnerCap => s # <<>>
    BY <1>2, <2>2 DEF Bytes
  <2>5. key.type # TypeEd /\ key.type \notin Ecdsa
    BY <1>2, KeyTypes
  <2>a. s # <<>> => KeyIn(s) = KeyHeld(key.type, key.curve, nums)
    BY <2>2, <2>3
  <2>6. HoldsKey(key, s)
    BY <1>2, <2>4, <2>5, <2>a DEF HoldsKey
  <2>7. QED
    BY <2>6 DEF s
<1>3. CASE key.type = TypeEd /\ Len(nums) = 1
  <2>1. s = SpkiEd25519(nums[1])
    BY <1>3, KeyTypes DEF SpkiOf
  <2>2. /\ s # <<>> => KeyIn(s) = [kind |-> "ed25519", nums |-> <<nums[1]>>]
        /\ s # <<>> <=> Len(nums[1]) = 32
    BY <1>1, <1>3, <2>1, SpkiEd25519Is
  <2> HIDE DEF s
  <2>3. KeyHeld(key.type, key.curve, nums) = [kind |-> "ed25519", nums |-> <<nums[1]>>]
    BY <1>1, <1>3, KeyTypes DEF KeyHeld
  <2>5. key.type # TypeRsa /\ key.type \notin Ecdsa
    BY <1>3, KeyTypes
  <2>a. s # <<>> => KeyIn(s) = KeyHeld(key.type, key.curve, nums)
    BY <2>2, <2>3
  <2>6. HoldsKey(key, s)
    BY <1>3, <2>2, <2>5, <2>a DEF HoldsKey
  <2>7. QED
    BY <2>6 DEF s
<1>4. CASE key.type \in Ecdsa /\ Len(nums) = 1 /\ key.curve = CurveOf[key.type]
  <2>1. s = SpkiEc(key.curve, nums[1])
    BY <1>4, KeyTypes DEF SpkiOf
  <2>2. /\ s # <<>> => KeyIn(s) = [kind |-> key.curve, nums |-> <<nums[1]>>]
        /\ Len(nums[1]) \in 1..SpkiCap - 30 /\ nums[1][1] = 4 => s # <<>>
    BY <1>1, <1>4, <2>1, SpkiEcIs, KeyTypes
  <2> HIDE DEF s
  <2>3. KeyHeld(key.type, key.curve, nums) = [kind |-> key.curve, nums |-> <<nums[1]>>]
    BY <1>1, <1>4, KeyTypes DEF KeyHeld
  <2>5. key.type # TypeRsa /\ key.type # TypeEd
    BY <1>4, KeyTypes
  <2>a. s # <<>> => KeyIn(s) = KeyHeld(key.type, key.curve, nums)
    BY <2>2, <2>3
  <2>6. HoldsKey(key, s)
    BY <1>4, <2>2, <2>5, <2>a DEF HoldsKey
  <2>7. QED
    BY <2>6 DEF s
<1>5. CASE /\ ~(key.type = TypeRsa /\ Len(nums) = 2) /\ ~(key.type = TypeEd /\ Len(nums) = 1)
           /\ ~(key.type \in Ecdsa /\ Len(nums) = 1 /\ key.curve = CurveOf[key.type])
  <2>1. s = <<>>
    BY <1>5 DEF SpkiOf
  <2> HIDE DEF s
  <2>2. HoldsKey(key, s)
    BY <1>5, <2>1 DEF HoldsKey
  <2>3. QED
    BY <2>2 DEF s
<1>6. QED
  BY <1>2, <1>3, <1>4, <1>5

\* Two numbers without leading zeros are the same as two byte strings exactly if
\* they are what is left of those (der.c:45-52).
LEMMA SameTwo ==
  ASSUME NEW p \in Strings, TwoNumbers(p), NEW q \in Strings, Len(q) = 2
  PROVE  SameNumbers(p, q) <=> p = <<Magnitude(q[1]), Magnitude(q[2])>>
<1>1. Len(p) = 2 /\ \A k \in 1..2 : Magnitude(p[k]) = p[k]
  BY DEF TwoNumbers
<1>2. DOMAIN p = 1..2 /\ DOMAIN q = 1..2 /\ p = <<p[1], p[2]>>
  BY <1>1, StringsAre
<1> DEFINE f == [k \in 1..2 |-> Magnitude(p[k])]
           g == [k \in 1..2 |-> Magnitude(q[k])]
<1>3. SameNumbers(p, q) <=> f = g
  BY <1>2 DEF SameNumbers
<1>4. \A k \in 1..2 : f[k] = p[k] /\ g[k] = Magnitude(q[k])
  BY <1>1
<1>5. f = <<f[1], f[2]>> /\ g = <<g[1], g[2]>>
  OBVIOUS
<1> HIDE DEF f, g
<1>6. f = p /\ g = <<Magnitude(q[1]), Magnitude(q[2])>>
  BY <1>2, <1>4, <1>5
<1>7. QED
  BY <1>3, <1>6

\* That key is somebody's exactly if its numbers are theirs (crypto_openssl.c:214-277).
LEMMA HeldIsOwned ==
  ASSUME NEW key, key.nums \in Strings, SpkiOf(key) # <<>>, NEW by, IsMaker(by)
  PROVE  KeyIn(SpkiOf(key)) = by <=> Owns(by, key)
<1> DEFINE nums == key.nums
           held == KeyIn(SpkiOf(key))
<1>1. /\ \/ key.type = TypeRsa /\ Len(nums) = 2
         \/ key.type = TypeEd /\ Len(nums) = 1
         \/ key.type \in Ecdsa /\ Len(nums) = 1 /\ key.curve = CurveOf[key.type]
      /\ held = KeyHeld(key.type, key.curve, nums)
  BY SpkiOfIs, Zenon DEF HoldsKey
<1> HIDE DEF held
<1>2. by = [kind |-> by.kind, nums |-> by.nums] /\ by.nums \in Strings
  BY DEF IsMaker
<1>3. CASE key.type = TypeRsa /\ Len(nums) = 2
  <2>1. held = [kind |-> "rsa", nums |-> <<Magnitude(nums[1]), Magnitude(nums[2])>>]
    BY <1>1, <1>3, KeyTypes DEF KeyHeld
  <2>2. Owns(by, key) <=> by.kind = "rsa" /\ SameNumbers(by.nums, nums)
    BY <1>3, KeyTypes DEF Owns
  <2>3. by.kind = "rsa" =>
          (SameNumbers(by.nums, nums) <=> by.nums = <<Magnitude(nums[1]), Magnitude(nums[2])>>)
    BY <1>2, <1>3, SameTwo DEF IsMaker
  <2>4. QED
    BY <1>2, <2>1, <2>2, <2>3 DEF held
<1>4. CASE key.type = TypeEd /\ Len(nums) = 1
  <2>1. held = [kind |-> "ed25519", nums |-> nums]
    BY <1>1, <1>4, KeyTypes DEF KeyHeld
  <2>2. Owns(by, key) <=> by.kind = "ed25519" /\ by.nums = nums
    BY <1>4, KeyTypes DEF Owns
  <2>3. QED
    BY <1>2, <2>1, <2>2 DEF held
<1>5. CASE key.type \in Ecdsa /\ Len(nums) = 1 /\ key.curve = CurveOf[key.type]
  <2>1. held = [kind |-> key.curve, nums |-> nums]
    BY <1>1, <1>5, KeyTypes DEF KeyHeld
  <2>2. Owns(by, key) <=> by.kind = key.curve /\ by.nums = nums
    BY <1>5, KeyTypes DEF Owns
  <2>3. QED
    BY <1>2, <2>1, <2>2 DEF held
<1>6. QED
  BY <1>1, <1>3, <1>4, <1>5

-----------------------------------------------------------------------------
(* The verdict (crypto_openssl.c:289-471).                                 *)

\* The signature is by this key over these bytes.
Genuine(key, digest, given, sig) ==
  key = sig.by /\ digest = sig.digest /\ sig.made # <<>> /\ given = sig.made

\* The library's answer on a host whose Ed25519 is right, or to another key
\* (crypto_openssl.c:365-417).
LEMMA VerifyWithSays ==
  ASSUME NEW key, NEW host, NEW digest, NEW given, NEW sig,
         key.kind = "ed25519" => host = "strict"
  PROVE  /\ VerifyWith(key, host, digest, given, sig) \in {"OK", "BAD", "ERROR"}
         /\ VerifyWith(key, host, digest, given, sig) = "OK"
              <=> key # Nobody /\ Genuine(key, digest, given, sig)
<1>1. EdVerdict("strict", Genuine(key, digest, given, sig), key = sig.by /\ sig.alias)
        = IF Genuine(key, digest, given, sig) THEN "OK" ELSE "BAD"
  BY DEF EdVerdict
<1>2. VerifyWith(key, host, digest, given, sig) =
        IF key = Nobody THEN "ERROR"
        ELSE IF Genuine(key, digest, given, sig) THEN "OK" ELSE "BAD"
  <2>1. CASE key.kind = "ed25519"
    BY <1>1, <2>1 DEF VerifyWith, Genuine
  <2>2. CASE key.kind # "ed25519"
    BY <2>2 DEF VerifyWith, Genuine
  <2>3. QED
    BY <2>1, <2>2
<1>3. QED
  BY <1>2

\* The three known answers tell a library that is right from the others
\* (crypto_openssl.c:289-339).
LEMMA UsableHosts ==
  ASSUME NEW host \in Hosts
  PROVE  Ed25519Usable(host) <=> host = "strict"
<1> DEFINE key == [kind |-> "ed25519", nums |-> <<KnownKey>>]
<1>1. KnownKey \in Octets /\ Len(KnownKey) = 32
  BY DEF KnownKey, Octets
<1>2. KeyIn(SpkiEd25519(KnownKey)) = key
  BY <1>1, SpkiEd25519Is
<1>3. key # Nobody /\ key.kind = "ed25519"
  BY DEF Nobody
<1> DEFINE answer == KnownAnswer.made
<1>4. /\ KnownAnswer.by = key /\ KnownAnswer.digest = "none" /\ KnownAnswer.body = answer
      /\ KnownAnswer.alias = FALSE
  BY DEF KnownAnswer
<1>5. /\ Flipped.by = key /\ Flipped.digest = "none" /\ Flipped.made = answer
      /\ Flipped.body # answer /\ Flipped.alias = FALSE
  BY DEF KnownAnswer, Flipped
<1>6. /\ BigS.by = key /\ BigS.digest = "none" /\ BigS.made = answer
      /\ BigS.body # answer /\ BigS.alias = TRUE
  BY DEF KnownAnswer, BigS
<1>7. answer # <<>>
  BY DEF KnownAnswer
<1> HIDE DEF key
<1>8. ASSUME NEW sig, sig.by = key, sig.digest = "none", sig.made = answer
      PROVE  /\ host = "without" => Probe(host, sig) = "ERROR"
             /\ host = "credulous" => Probe(host, sig) = "OK"
             /\ host = "blind" => Probe(host, sig) = "BAD"
             /\ host = "strict" /\ sig.body = answer => Probe(host, sig) = "OK"
             /\ host = "strict" /\ sig.body # answer => Probe(host, sig) = "BAD"
             /\ host = "malleable" /\ sig.alias => Probe(host, sig) = "OK"
  <2>1. Probe(host, sig) = VerifyWith(key, host, "none", sig.body, sig)
    BY <1>2 DEF Probe, VerifySpki
  <2>2. QED
    BY <1>3, <1>7, <1>8, <2>1 DEF VerifyWith, EdVerdict
<1>9. CASE host = "strict"
  <2>1. Probe(host, KnownAnswer) = "OK"
    BY <1>4, <1>8, <1>9
  <2>2. Probe(host, Flipped) = "BAD"
    BY <1>5, <1>8, <1>9
  <2>3. Probe(host, BigS) = "BAD"
    BY <1>6, <1>8, <1>9
  <2>4. QED
    BY <1>9, <2>1, <2>2, <2>3 DEF Ed25519Usable
<1>10. CASE host \in {"without", "blind"}
  <2>1. Probe(host, KnownAnswer) # "OK"
    BY <1>4, <1>8, <1>10
  <2>2. QED
    BY <1>10, <2>1 DEF Ed25519Usable
<1>11. CASE host = "credulous"
  <2>1. Probe(host, Flipped) # "BAD"
    BY <1>5, <1>8, <1>11
  <2>2. QED
    BY <1>11, <2>1 DEF Ed25519Usable
<1>12. CASE host = "malleable"
  <2>1. Probe(host, BigS) # "BAD"
    BY <1>6, <1>8, <1>12
  <2>2. QED
    BY <1>12, <2>1 DEF Ed25519Usable
<1>13. QED
  BY <1>9, <1>10, <1>11, <1>12 DEF Hosts

\* What the library is asked for: an algorithm has its key type, or none
\* (crypto_common.c:22-38).
LEMMA TypeOfAlgorithm ==
  ASSUME NEW host \in Hosts, NEW algo
  PROVE  /\ KeyTypeOf(algo, host) = ""
              <=> \/ algo = TypeEd /\ host # "strict"
                  \/ algo \notin {TypeEd, "rsa-sha2-256", "rsa-sha2-512"} \cup Ecdsa
         /\ KeyTypeOf(algo, host) # "" =>
              \/ algo = TypeEd /\ KeyTypeOf(algo, host) = TypeEd /\ host = "strict"
              \/ algo \in {"rsa-sha2-256", "rsa-sha2-512"} /\ KeyTypeOf(algo, host) = TypeRsa
              \/ algo \in Ecdsa /\ KeyTypeOf(algo, host) = algo
BY UsableHosts DEF KeyTypeOf, TypeEd, TypeRsa, Ecdsa, CurveOf

\* A converted signature is read as the one that was made exactly if the numbers
\* are the same (der.c:88-108).
LEMMA ConvertedIs ==
  ASSUME NEW body \in Strings, Len(body) = 2
  PROVE  /\ EcdsaSig(body[1], body[2]) # <<>> =>
              \A made \in Strings : TwoNumbers(made) =>
                (IntegersIn(Inside(EcdsaSig(body[1], body[2]))) = made <=> SameNumbers(made, body))
         /\ Bytes(body) + 13 <= EcdsaCap => EcdsaSig(body[1], body[2]) # <<>>
<1> DEFINE der == EcdsaSig(body[1], body[2])
<1>1. body[1] \in Octets /\ body[2] \in Octets
  BY StringsAre
<1>2. EcdsaSigSays(body[1], body[2], der)
  BY <1>1, EcdsaSigIs
<1> HIDE DEF der
<1>3. Bytes(body) = Len(body[1]) + Len(body[2])
  BY DEF Bytes
<1>4. /\ der # <<>> => IntegersIn(Inside(der)) = <<Magnitude(body[1]), Magnitude(body[2])>>
      /\ Bytes(body) + 13 <= EcdsaCap => der # <<>>
  BY <1>2, <1>3 DEF EcdsaSigSays
<1>5. \A made \in Strings : TwoNumbers(made) =>
        (SameNumbers(made, body) <=> made = <<Magnitude(body[1]), Magnitude(body[2])>>)
  BY SameTwo
<1>6. QED
  BY <1>4, <1>5 DEF der

\* What makes a signature good leaves no doubt about its key: it is there, of the
\* algorithm's type (der.c:155-239, crypto_openssl.c:444-452).
LEMMA MadeIsReadable ==
  ASSUME NEW s, IsSigned(s), Made(s), FitsTheBuffers(s), KeyTypeOf(s.algo, s.host) # ""
  PROVE  SpkiOf(s.key) # <<>> /\ s.key.type = KeyTypeOf(s.algo, s.host)
<1> DEFINE key == s.key
           nums == s.key.nums
           by == s.sig.by
           spki == SpkiOf(s.key)
<1>1. IsMaker(by) /\ nums \in Strings /\ s.host \in Hosts
  BY DEF IsSigned
<1>2. key.type = KeyTypeOf(s.algo, s.host)
  BY <1>1, TypeOfAlgorithm, KeyTypes DEF Made, TypeEd, TypeRsa, Ecdsa, CurveOf
<1>3. Owns(by, key)
  BY DEF Made
<1>4. HoldsKey(key, spki)
  BY <1>1, SpkiOfIs
<1> HIDE DEF spki
<1>5. CASE key.type = TypeRsa
  <2>1. by.kind = "rsa" /\ SameNumbers(by.nums, nums)
    BY <1>3, <1>5, KeyTypes DEF Owns
  <2>2. by.nums \in Strings /\ Len(by.nums) = 2
    BY <1>1, <2>1 DEF IsMaker, TwoNumbers
  <2>3. DOMAIN by.nums = DOMAIN nums
    BY <2>1 DEF SameNumbers
  <2>4. Len(nums) = 2
    BY <1>1, <2>2, <2>3, TwoPlaces
  <2>5. Bytes(nums) + 10 <= InnerCap
    BY <1>5 DEF FitsTheBuffers
  <2>6. spki # <<>>
    BY <1>4, <1>5, <2>4, <2>5 DEF HoldsKey
  <2>7. QED
    BY <1>2, <2>6 DEF spki
<1>6. CASE key.type = TypeEd
  <2>1. by.kind = "ed25519" /\ by.nums = nums
    BY <1>3, <1>6, KeyTypes DEF Owns
  <2>2. Len(nums) = 1 /\ Len(nums[1]) = 32
    BY <1>1, <2>1 DEF IsMaker
  <2>3. spki # <<>>
    BY <1>4, <1>6, <2>2 DEF HoldsKey
  <2>4. QED
    BY <1>2, <2>3 DEF spki
<1>7. CASE key.type \in Ecdsa
  <2>1. key.curve = CurveOf[key.type] /\ by.kind = key.curve /\ by.nums = nums
    BY <1>3, <1>7, KeyTypes DEF Owns
  <2>2. by.kind \in DOMAIN OidOf
    BY <1>7, <2>1, KeyTypes
  <2>3. Len(nums) = 1 /\ Len(nums[1]) \in 1..SpkiCap - 30 /\ nums[1][1] = 4
    BY <1>1, <2>1, <2>2 DEF IsMaker
  <2>4. spki # <<>>
    BY <1>4, <1>7, <2>1, <2>3 DEF HoldsKey
  <2>5. QED
    BY <1>2, <2>4 DEF spki
<1>8. QED
  BY <1>3, <1>5, <1>6, <1>7 DEF Owns

\* The digest this algorithm's signature is over.
RightDigest(algo, digest) ==
  <<algo, digest>> \in
    {<<TypeEd, "none">>, <<"rsa-sha2-256", "sha256">>, <<"rsa-sha2-512", "sha512">>,
     <<"ecdsa-sha2-nistp256", "sha256">>, <<"ecdsa-sha2-nistp384", "sha384">>,
     <<"ecdsa-sha2-nistp521", "sha512">>}

\* An algorithm has one digest (crypto_openssl.c:344-363).
LEMMA DigestsAre ==
  ASSUME NEW algo, NEW digest,
         algo \in {TypeEd, "rsa-sha2-256", "rsa-sha2-512"} \cup Ecdsa
  PROVE  RightDigest(algo, digest) <=> digest = DigestOf(algo)
<1>1. \A a, b, c, d : <<a, b>> = <<c, d>> <=> a = c /\ b = d
  OBVIOUS
<1>2. algo \in {TypeEd, "rsa-sha2-256", "rsa-sha2-512", "ecdsa-sha2-nistp256",
                "ecdsa-sha2-nistp384", "ecdsa-sha2-nistp521"}
  BY DEF Ecdsa, CurveOf
<1>3. CASE algo = TypeEd
  BY <1>3 DEF DigestOf, RightDigest, TypeEd
<1>4. CASE algo = "rsa-sha2-256"
  BY <1>4 DEF DigestOf, RightDigest, TypeEd
<1>5. CASE algo = "rsa-sha2-512"
  BY <1>5 DEF DigestOf, RightDigest, TypeEd
<1>6. CASE algo = "ecdsa-sha2-nistp256"
  BY <1>6 DEF DigestOf, RightDigest, TypeEd
<1>7. CASE algo = "ecdsa-sha2-nistp384"
  BY <1>7 DEF DigestOf, RightDigest, TypeEd
<1>8. CASE algo = "ecdsa-sha2-nistp521"
  BY <1>8 DEF DigestOf, RightDigest, TypeEd
<1>9. QED
  BY <1>2, <1>3, <1>4, <1>5, <1>6, <1>7, <1>8

\* What is asked of a key that is there and of the algorithm's type: three
\* answers, and good only the signature that was made (crypto_openssl.c:444-461).
LEMMA ReadableIsJudged ==
  ASSUME NEW s, IsSigned(s), KeyTypeOf(s.algo, s.host) # "",
         SpkiOf(s.key) # <<>>, s.key.type = KeyTypeOf(s.algo, s.host)
  PROVE  /\ CryptoVerify(s) \in {"OK", "BAD", "ERROR"}
         /\ CryptoVerify(s) = "OK" => Made(s)
         /\ Made(s) /\ FitsTheBuffers(s) => CryptoVerify(s) = "OK"
<1> DEFINE spki == SpkiOf(s.key)
           key == KeyIn(spki)
           by == s.sig.by
           made == s.sig.made
           body == s.sig.body
           digest == DigestOf(s.algo)
           v == CryptoVerify(s)
<1>1. /\ IsMaker(by) /\ s.key.nums \in Strings /\ body \in Strings /\ made \in Strings
      /\ s.host \in Hosts
  BY DEF IsSigned
<1>2. key = by <=> Owns(by, s.key)
  BY <1>1, HeldIsOwned
<1>3. HoldsKey(s.key, spki)
  BY <1>1, SpkiOfIs
<1>4. /\ \/ s.key.type = TypeRsa /\ Len(s.key.nums) = 2
         \/ s.key.type = TypeEd /\ Len(s.key.nums) = 1
         \/ s.key.type \in Ecdsa /\ Len(s.key.nums) = 1 /\ s.key.curve = CurveOf[s.key.type]
      /\ key = KeyHeld(s.key.type, s.key.curve, s.key.nums)
  BY <1>3, Zenon DEF HoldsKey
<1>5. v = VerdictOn(spki, s)
  BY DEF CryptoVerify
<1> HIDE DEF spki, v
<1>6. s.algo \in {TypeEd, "rsa-sha2-256", "rsa-sha2-512"} \cup Ecdsa
  BY <1>1, TypeOfAlgorithm
<1>d. RightDigest(s.algo, s.sig.digest) <=> s.sig.digest = digest
  BY <1>6, DigestsAre
<1> HIDE DEF key, digest
<1>7. \A given : VerifySpki(spki, s.host, digest, given, s.sig)
                   = VerifyWith(key, s.host, digest, given, s.sig)
  BY DEF VerifySpki, key
<1>a. CASE s.algo = TypeEd
  <2>1. s.key.type = TypeEd /\ s.host = "strict" /\ TypeEd \notin Ecdsa /\ TypeEd # TypeRsa
    BY <1>1, <1>a, TypeOfAlgorithm, KeyTypes
  <2>2. key.kind = "ed25519" /\ key # Nobody
    BY <1>4, <2>1, KeyTypes DEF KeyHeld, Nobody
  <2>3. v = IF Len(body[1]) # 64 THEN "ERROR" ELSE VerifyWith(key, s.host, digest, body, s.sig)
    BY <1>5, <1>7, <1>a, <2>1 DEF VerdictOn, spki, digest
  <2>4. /\ v \in {"OK", "BAD", "ERROR"}
        /\ v = "OK" => Genuine(key, digest, body, s.sig)
        /\ Len(body[1]) = 64 /\ Genuine(key, digest, body, s.sig) => v = "OK"
    BY <2>1, <2>2, <2>3, VerifyWithSays
  <2>5. Made(s) <=> Genuine(key, digest, body, s.sig)
    BY <1>2, <1>a, <1>d, <2>1 DEF Made, Genuine, RightDigest
  <2>6. Made(s) => Len(body[1]) = 64
    <3>1. Made(s) => by.kind = "ed25519" /\ made # <<>> /\ made = body
      BY <1>a, <2>1 DEF Made, Owns
    <3>2. made # <<>> /\ by.kind = "ed25519" => Len(made[1]) = 64
      BY DEF IsSigned
    <3>3. QED
      BY <3>1, <3>2
  <2>7. QED
    BY <2>4, <2>5, <2>6 DEF v
<1>b. CASE s.algo \in {"rsa-sha2-256", "rsa-sha2-512"}
  <2>1. s.key.type = TypeRsa /\ s.algo \notin Ecdsa /\ s.algo # TypeEd
    BY <1>1, <1>b, TypeOfAlgorithm DEF TypeEd, Ecdsa, CurveOf
  <2>2. key.kind = "rsa" /\ key # Nobody
    BY <1>4, <2>1, KeyTypes DEF KeyHeld, Nobody
  <2>3. v = VerifyWith(key, s.host, digest, body, s.sig)
    BY <1>5, <1>7, <2>1 DEF VerdictOn, spki, digest
  <2>4. /\ v \in {"OK", "BAD", "ERROR"}
        /\ v = "OK" <=> Genuine(key, digest, body, s.sig)
    BY <2>2, <2>3, VerifyWithSays
  <2>5. Made(s) <=> Genuine(key, digest, body, s.sig)
    BY <1>2, <1>d, <2>1 DEF Made, Genuine, RightDigest
  <2>6. QED
    BY <2>4, <2>5 DEF v
<1>c. CASE s.algo \in Ecdsa
  <2>1. s.key.type = s.algo /\ s.algo # TypeEd /\ s.key.type # TypeRsa
    BY <1>1, <1>c, TypeOfAlgorithm, KeyTypes DEF TypeEd, Ecdsa, CurveOf
  <2>2. key.kind \in DOMAIN OidOf /\ key.kind # "ed25519" /\ key # Nobody
    <3>1. s.key.curve \in DOMAIN OidOf
      BY <1>4, <1>c, <2>1, KeyTypes
    <3>2. key = [kind |-> s.key.curve, nums |-> s.key.nums]
      BY <1>4, <1>c, <2>1, KeyTypes DEF KeyHeld
    <3>3. QED
      BY <3>1, <3>2, KeyTypes DEF Nobody
  <2> DEFINE der == EcdsaSig(body[1], body[2])
             given == IntegersIn(Inside(der))
  <2>3. Len(body) = 2 =>
          /\ der # <<>> => \A m \in Strings : TwoNumbers(m) => (given = m <=> SameNumbers(m, body))
          /\ Bytes(body) + 13 <= EcdsaCap => der # <<>>
    BY <1>1, ConvertedIs
  <2>4. v = IF Len(body) # 2 \/ der = <<>> THEN "ERROR"
            ELSE VerifyWith(key, s.host, digest, given, s.sig)
    BY <1>5, <1>7, <1>c DEF VerdictOn, VerifyDer, spki, digest
  <2> HIDE DEF der, given
  <2>5. /\ v \in {"OK", "BAD", "ERROR"}
        /\ v = "OK" => Len(body) = 2 /\ der # <<>> /\ Genuine(key, digest, given, s.sig)
        /\ Len(body) = 2 /\ der # <<>> /\ Genuine(key, digest, given, s.sig) => v = "OK"
    BY <2>2, <2>4, VerifyWithSays
  <2>6. ASSUME key = by, made # <<>>, Len(body) = 2, der # <<>>
        PROVE  given = made <=> SameNumbers(made, body)
    <3>1. TwoNumbers(made)
      BY <2>2, <2>6 DEF IsSigned
    <3>2. QED
      BY <1>1, <2>3, <2>6, <3>1
  <2>7. Made(s) <=> /\ key = by /\ made # <<>> /\ SameNumbers(made, body)
                    /\ digest = s.sig.digest
    BY <1>2, <1>c, <1>d, <2>1 DEF Made, RightDigest
  <2>8. Made(s) /\ FitsTheBuffers(s) => Len(body) = 2 /\ der # <<>>
    <3> SUFFICES ASSUME Made(s), FitsTheBuffers(s) PROVE Len(body) = 2 /\ der # <<>>
      OBVIOUS
    <3>1. TwoNumbers(made) /\ DOMAIN made = DOMAIN body
      BY <2>2, <2>7 DEF IsSigned, SameNumbers
    <3>2. Len(body) = 2
      BY <1>1, <3>1, TwoPlaces DEF TwoNumbers
    <3>3. Bytes(body) + 13 <= EcdsaCap
      BY <1>c DEF FitsTheBuffers
    <3>4. QED
      BY <2>3, <3>2, <3>3
  <2>9. QED
    BY <2>5, <2>6, <2>7, <2>8 DEF v, Genuine
<1>8. QED
  BY <1>6, <1>a, <1>b, <1>c

\* A signature of those, judged, is judged as VerdictIsTheMakers says.
RightOf(s, v) ==
  /\ v = "OK" => Made(s)
  /\ v = "UNSUPPORTED"
       <=> \/ s.algo = TypeEd /\ s.host # "strict"
           \/ s.algo \notin {TypeEd, "rsa-sha2-256", "rsa-sha2-512"} \cup Ecdsa
  /\ Made(s) /\ FitsTheBuffers(s) => v \in {"OK", "UNSUPPORTED"}

\* Whatever is to be verified, the answer is right (crypto_openssl.c:419-471).
LEMMA CryptoVerifyIsRight ==
  ASSUME NEW s, IsSigned(s)
  PROVE  RightOf(s, CryptoVerify(s))
<1> DEFINE v == CryptoVerify(s)
           type == KeyTypeOf(s.algo, s.host)
<1>1. type = ""
        <=> \/ s.algo = TypeEd /\ s.host # "strict"
            \/ s.algo \notin {TypeEd, "rsa-sha2-256", "rsa-sha2-512"} \cup Ecdsa
  BY TypeOfAlgorithm DEF IsSigned
<1>2. CASE type = ""
  <2>1. v = "UNSUPPORTED"
    BY <1>2 DEF CryptoVerify
  <2>2. QED
    BY <1>1, <1>2, <2>1 DEF RightOf
<1>3. CASE type # "" /\ (SpkiOf(s.key) = <<>> \/ s.key.type # type)
  <2>1. v = "ERROR"
    BY <1>3 DEF CryptoVerify, VerdictOn
  <2>2. ~(Made(s) /\ FitsTheBuffers(s))
    BY <1>3, MadeIsReadable
  <2> HIDE DEF v, type
  <2>3. QED
    BY <1>1, <1>3, <2>1, <2>2 DEF RightOf, v
<1>4. CASE type # "" /\ SpkiOf(s.key) # <<>> /\ s.key.type = type
  <2>1. /\ v \in {"OK", "BAD", "ERROR"} /\ (v = "OK" => Made(s))
        /\ Made(s) /\ FitsTheBuffers(s) => v = "OK"
    BY <1>4, ReadableIsJudged
  <2> HIDE DEF v, type
  <2>2. QED
    BY <1>1, <1>4, <2>1 DEF RightOf, v
<1>5. QED
  BY <1>2, <1>3, <1>4

\* What has been verified is one of those, and judged by what it is.
VerdictInv ==
  verdict # "unread" => IsSigned(signed) /\ verdict = CryptoVerify(signed)

\* Only Verifying verifies, one that may have to be (checks.c:64-65).
LEMMA VerdictStep == VerdictInv /\ [Next]_vars => VerdictInv'
<1> SUFFICES ASSUME VerdictInv, [Next]_vars PROVE VerdictInv'
  OBVIOUS
<1>1. CASE Verifying
  <2>1. PICK s \in May("signature", Signatures, Plain.signed) : VerifySignature(s)
    BY <1>1 DEF Verifying
  <2>2. s \in Signatures \cup {Plain.signed}
    BY DEF May
  <2>3. IsSigned(s)
    BY <2>2, AttemptInputsAssumption
  <2>4. signed' = s /\ verdict' = CryptoVerify(s)
    BY <2>1 DEF VerifySignature
  <2>5. QED
    BY <2>3, <2>4 DEF VerdictInv
<1>2. CASE ~Verifying
  <2>1. UNCHANGED verifyVars
    BY <1>2 DEF Next, vars, Arguing, LoadCas, LoadingCas, BuildingBody, ReadingReply,
                ShowingLinks, ReadingEnvelope, ParseCert, ParsingCert, LoadMap, LoadingMap
  <2>2. QED
    BY <2>1 DEF verifyVars, VerdictInv
<1>3. QED
  BY <1>1, <1>2

\* A signature is good exactly when this key made it over these bytes with this
\* algorithm, for every signature and every key, whatever the sizes of the
\* buffers: the conversions of der.c lose nothing and forge nothing, and Ed25519
\* is refused on every host whose library is not strict (crypto_openssl.c:214-471).
THEOREM GoodIsTheMakers == Spec => []VerdictIsTheMakers
<1>1. Init => VerdictInv
  BY DEF Init, VerifyInit, VerdictInv
<1>2. VerdictInv => VerdictIsTheMakers
  <2>1. ASSUME VerdictInv, verdict # "unread" PROVE RightOf(signed, verdict)
    BY <2>1, CryptoVerifyIsRight DEF VerdictInv
  <2>2. QED
    BY <2>1 DEF RightOf, VerdictIsTheMakers
<1>3. QED
  BY <1>1, <1>2, VerdictStep, PTL DEF Spec
=============================================================================
