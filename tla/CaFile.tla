------------------------------- MODULE CaFile -------------------------------
(***************************************************************************)
(* ssoossh_ca_load (src/src/sshkey.c): the trusted-ca-file, one key per    *)
(* line, one line per step.                                                *)
(*                                                                         *)
(* A line is [kind, algo, names, key]: algo is the type the line starts    *)
(* with, names the one its blob starts with.  MaxCas scales                *)
(* SSOOSSH_MAX_CAS.                                                        *)
(***************************************************************************)
EXTENDS Integers, Sequences, FiniteSets

CONSTANTS
  Supported,   \* algorithms ssoossh_crypto_supports_key accepts: external
  MaxCas       \* the most keys that are kept

ASSUME CaFileAssumption == MaxCas \in Nat \ {0}

VARIABLES
  caFile,      \* the file: how reading it goes, and its lines
  caLine,      \* the line being read
  caKeys,      \* out->keys
  skipped,     \* out->skipped
  caStatus     \* what ssoossh_ca_load returned; "unread" and "reading" before

caVars == <<caFile, caLine, caKeys, skipped, caStatus>>

CaStatus == {"OK", "UNREADABLE", "MALFORMED", "NONE_USABLE"}

\* sshkey.c:121-187: blank lines and comments are told apart from lines that
\* are not a key, or one whose blob names another type than the line does.
IsBlank(l) == l.kind = "blank"
IsKey(l) == l.kind = "key" /\ l.algo = l.names

CaInit ==
  /\ caLine = 1 /\ caKeys = <<>> /\ skipped = 0 /\ caStatus = "unread"

\* sshkey.c:195-215: the file is read whole before its first line is looked at.
OpenCaFile(file) ==
  /\ caStatus = "unread"
  /\ caFile' = file
  /\ caStatus' = CASE file.read = "fails" -> "UNREADABLE"
                   [] file.read = "too large" -> "MALFORMED"
                   [] file.read = "whole" -> "reading"
  /\ UNCHANGED <<caLine, caKeys, skipped>>

CaLine(l) ==
  /\ caStatus = "reading" /\ caLine <= Len(caFile.lines)
  /\ l = caFile.lines[caLine]

\* sshkey.c:225-241.
PassBlank(l) ==
  /\ CaLine(l)
  /\ IsBlank(l)
  /\ caLine' = caLine + 1
  /\ UNCHANGED <<caFile, caKeys, skipped, caStatus>>

\* sshkey.c:237-245.  What was read before stays in out.
RefuseCaFile(l) ==
  /\ CaLine(l)
  /\ ~IsBlank(l) /\ ~IsKey(l)
  /\ caStatus' = "MALFORMED"
  /\ UNCHANGED <<caFile, caLine, caKeys, skipped>>

\* sshkey.c:247-258: a key this build cannot verify with.
SkipKey(l) ==
  /\ CaLine(l)
  /\ IsKey(l) /\ l.algo \notin Supported
  /\ skipped' = skipped + 1
  /\ caLine' = caLine + 1
  /\ UNCHANGED <<caFile, caKeys, caStatus>>

\* sshkey.c:267-271.
KeepKey(l) ==
  /\ CaLine(l)
  /\ IsKey(l) /\ l.algo \in Supported
  /\ Len(caKeys) < MaxCas
  /\ caKeys' = Append(caKeys, l.key)
  /\ caLine' = caLine + 1
  /\ UNCHANGED <<caFile, skipped, caStatus>>

\* sshkey.c:274-277.
CaVerdict_SkippedCounts(keys) ==
  IF keys = <<>> /\ skipped = 0 THEN "NONE_USABLE" ELSE "OK"
CaVerdict(keys) == IF keys = <<>> THEN "NONE_USABLE" ELSE "OK"

\* sshkey.c:260-265 and 274-277: one key more than can be kept, and the rest of
\* the file is not read.
CaFileFull(l) ==
  /\ CaLine(l)
  /\ IsKey(l) /\ l.algo \in Supported
  /\ Len(caKeys) >= MaxCas
  /\ caStatus' = CaVerdict(caKeys)
  /\ UNCHANGED <<caFile, caLine, caKeys, skipped>>

\* sshkey.c:217-235 and 274-277.
CaFileRead ==
  /\ caStatus = "reading" /\ caLine > Len(caFile.lines)
  /\ caStatus' = CaVerdict(caKeys)
  /\ UNCHANGED <<caFile, caLine, caKeys, skipped>>

ReadCaLine(l) ==
  PassBlank(l) \/ RefuseCaFile(l) \/ SkipKey(l) \/ KeepKey(l) \/ CaFileFull(l)
CaNext ==
  \/ caLine \in DOMAIN caFile.lines /\ ReadCaLine(caFile.lines[caLine])
  \/ CaFileRead

-----------------------------------------------------------------------------
Usable(i) == IsKey(caFile.lines[i]) /\ caFile.lines[i].algo \in Supported

\* Lines up to the first key that can no longer be kept.
LinesRead ==
  {i \in DOMAIN caFile.lines :
     Cardinality({j \in 1..i : Usable(j)}) <= MaxCas}

\* The keys an attempt trusts are the usable keys of the file, in its order, up
\* to the limit: an attempt goes on only with a key, a line that is not a key
\* refuses the whole file however many good ones stand before it, and a key
\* this build cannot verify with neither refuses it nor counts
\* (sshkey.c:189-278, sshkey.h:72-84).  "Anything actually malformed still fails
\* the whole file" (sshkey.h:84-86), but the code does not look behind the key
\* past the limit: whether a line it never reads refuses the file is left open.
KeysAreTheFiles ==
  caStatus \in CaStatus /\ caFile.read = "whole" =>
    LET bad == {i \in DOMAIN caFile.lines :
                  ~IsBlank(caFile.lines[i]) /\ ~IsKey(caFile.lines[i])}
        good == {i \in LinesRead : Usable(i)}
    IN  /\ caStatus = "MALFORMED" => bad # {}
        /\ bad \cap LinesRead # {} => caStatus = "MALFORMED"
        /\ bad = {} => (caStatus = "OK" <=> good # {})
        /\ caStatus = "OK" =>
             /\ good # {} /\ Len(caKeys) = Cardinality(good)
             /\ \A i \in good :
                  caKeys[Cardinality({j \in good : j <= i})] = caFile.lines[i].key
             /\ skipped = Cardinality({i \in LinesRead : ~Usable(i) /\
                                          ~IsBlank(caFile.lines[i])})
=============================================================================
