----------------------------- MODULE Arguments -----------------------------
(***************************************************************************)
(* ssoossh_args_parse (src/src/args.c): the arguments of the pam.d line,   *)
(* one iteration of its loop per step.                                     *)
(*                                                                         *)
(* A value is a sequence of pieces of text, for a time of characters; its  *)
(* length stands for strlen, and ValueCap for SSOOSSH_MAX_URL and          *)
(* SSOOSSH_MAX_PATH.  An argument without `=' has the value <<"true">>     *)
(* (args.c:420-429).                                                       *)
(***************************************************************************)
EXTENDS Duration

CONSTANTS
  ValueCap,       \* the size of the buffers for a URL and for a path
  ConsoleBuilt    \* ssoossh_console_flow_supported: the build has the flow

ASSUME ArgumentsAssumption ==
  /\ ValueCap \in Nat \ {0} /\ ConsoleBuilt \in BOOLEAN
  /\ <<"s">> \in DOMAIN Unit

VARIABLES
  argv,        \* the pam.d line: a sequence of [key, value]
  arg,         \* index of the argument being read
  cfg,         \* the ssoossh_config, a value per setting
  argStatus,   \* what ssoossh_args_parse returned, "reading" before
  badArg       \* *bad_arg: an index into argv, 0 for NULL

argVars == <<argv, arg, cfg, argStatus, badArg>>

Paths == {"trusted-ca-file", "principals-map"}
Times == {"skew-tolerance", "timeout"}
Flags == {"insecure-skip-verify", "ssh-only"}
Settings == Paths \cup Times \cup Flags \cup {"server", "debug", "mode"}

\* args.c:401-404, args.h:24-30.
Default ==
  [s \in Settings |->
     CASE s = "skew-tolerance" -> 2 * Unit[<<"s">>]
       [] s = "timeout" -> 60 * Unit[<<"s">>]
       [] s = "mode" -> <<"auto">>
       [] s \in Flags \cup {"debug"} -> <<"false">>
       [] OTHER -> <<>>]

-----------------------------------------------------------------------------
(* What a value means.                                                     *)

\* args.c:345-395: a server without the blanks around it and the slashes behind
\* it; one without a scheme is an https one.
Trimmed(v) ==
  LET text == {i \in DOMAIN v : v[i] # " "}
      last == Max({0} \cup text)
  IN  IF text = {} THEN <<>> ELSE
      LET end == Max({0} \cup {i \in Min(text)..last : v[i] # "/"})
      IN  SubSeq(v, Min(text), end)
HasScheme(v) ==
  Len(v) > 2 /\ v[1] \in {"http:", "HTTP:", "https:"} /\ v[2] = "/" /\ v[3] = "/"
Normalized(v) ==
  LET t == Trimmed(v) IN
  IF t = <<>> \/ HasScheme(t) THEN t ELSE <<"https:", "/", "/">> \o t

\* args.c:294-315 (parse_bool).
Yes == {<<"1">>, <<"t">>, <<"T">>, <<"true">>, <<"TRUE">>, <<"True">>}
No == {<<"0">>, <<"f">>, <<"F">>, <<"false">>, <<"FALSE">>, <<"False">>}

\* args.c:317-330, 468-473: any spelling of `false' turns debug off, and so
\* does nothing at all.
DebugOff == {<<>>, <<"false">>, <<"FALSE">>, <<"False">>}

\* args.c:442-480: what an argument may be read as; one that cannot be read
\* leaves the setting as it is.
Stored(a) ==
  CASE a.key \in Times -> Readings(a.value)
    [] a.key \in Flags -> {IF a.value \in Yes THEN Known(<<"true">>)
                           ELSE IF a.value \in No THEN Known(<<"false">>) ELSE NotRead}
    [] a.key = "server" -> {Known(Normalized(a.value))}
    [] a.key = "debug" -> {Known(IF a.value \in DebugOff THEN <<"false">> ELSE <<"true">>)}
    [] a.key \in Paths \cup {"mode"} -> {Known(a.value)}
    [] OTHER -> {NotRead}

\* args.c:442-455, 474-495, 504-508: which arguments end the parse, and how.
Refusal(a) ==
  CASE a.key \in Paths /\ Len(a.value) >= ValueCap -> "VALUE_TOO_LONG"
    [] a.key = "server" /\ Len(Normalized(a.value)) >= ValueCap -> "VALUE_TOO_LONG"
    [] a.key = "mode" /\ a.value = <<"console">> /\ ~ConsoleBuilt
         -> "CONSOLE_UNSUPPORTED"
    [] a.key = "mode" /\ a.value \notin {<<"auto">>, <<"sudo">>, <<"console">>}
         -> "BAD_MODE"
    [] OTHER -> "OK"

-----------------------------------------------------------------------------
ArgumentsInit ==
  /\ arg = 1 /\ cfg = Default /\ argStatus = "reading" /\ badArg = 0

Reading == argStatus = "reading" /\ arg <= Len(argv)

\* args.c:442-491: the settings; the last argument for one holds.
Take_FirstWins(key, value) ==
  IF cfg[key] = Default[key] THEN [cfg EXCEPT ![key] = value] ELSE cfg
Take(key, value) == [cfg EXCEPT ![key] = value]

TakeArgument ==
  /\ Reading
  /\ Refusal(argv[arg]) = "OK"
  /\ \E r \in Stored(argv[arg]) : r.ok /\ cfg' = Take(argv[arg].key, r.value)
  /\ arg' = arg + 1
  /\ UNCHANGED <<argv, argStatus, badArg>>

\* args.c:431-440, 456-467 and 496-501: unknown arguments and unreadable values.
PassArgument ==
  /\ Reading
  /\ Refusal(argv[arg]) = "OK" /\ NotRead \in Stored(argv[arg])
  /\ arg' = arg + 1
  /\ UNCHANGED <<argv, cfg, argStatus, badArg>>

\* args.c:482-495 and 504-508: what was read before stays in cfg.
RefuseArgument ==
  /\ Reading
  /\ Refusal(argv[arg]) # "OK"
  /\ argStatus' = Refusal(argv[arg]) /\ badArg' = arg
  /\ UNCHANGED <<argv, arg, cfg>>

ArgumentsRead ==
  /\ argStatus = "reading" /\ arg > Len(argv)
  /\ argStatus' = "OK"
  /\ UNCHANGED <<argv, arg, cfg, badArg>>

ArgumentsNext == TakeArgument \/ PassArgument \/ RefuseArgument \/ ArgumentsRead

-----------------------------------------------------------------------------
\* A setting is what the last argument for it says.  If that one cannot be read it
\* is its default, "a bad duration becomes the default; a bad bool becomes false"
\* (args.h:85-88, args.c:457-460), or what an earlier argument for it said: the
\* code goes on as if the bad one were not there, and which of the two is right is
\* left open.  No value is cut, also with the scheme this module adds itself; the
\* parse fails exactly for an argument that may not be passed over, at the first of
\* them, with everything before it in place for the caller's log (args.c:280-292,
\* 371-394, 397-512, args.h:84-106).
LastArgumentHolds ==
  argStatus # "reading" =>
    LET refused == {i \in DOMAIN argv : Refusal(argv[i]) # "OK"}
        For(s) == {i \in DOMAIN argv : argv[i].key = s /\ \A j \in refused : i < j}
        Later(s, i) == {j \in For(s) : j > i}
        Garbled(i) == NotRead \in Stored(argv[i])
    IN  /\ argStatus = "OK" <=> refused = {}
        /\ argStatus # "OK" => badArg \in refused /\ \A j \in refused : badArg <= j
        /\ \A s \in Settings :
             \/ \E i \in For(s) :
                  Known(cfg[s]) \in Stored(argv[i]) /\ \A j \in Later(s, i) : Garbled(j)
             \/ /\ cfg[s] = Default[s]
                /\ \A i \in For(s) : Later(s, i) = {} => Garbled(i)
        /\ \A s \in Paths \cup {"server"} : Len(cfg[s]) < ValueCap

\* Every time in a pam.d line is read to the nanosecond or not at all, up to the
\* two sums whose overflow the build may not notice (args.c:58-61, 90-185).
DurationsAreExact ==
  argStatus # "reading" =>
    \A i \in DOMAIN argv : argv[i].key \in Times => ReadExactly(argv[i].value)

-----------------------------------------------------------------------------
\* "Digits past the point where the accumulator would overflow are consumed and
\* discarded" (args.c:58-61) and "the sign check below catches the sum that can"
\* overflow (args.c:171-172): every time in force is one the line spells.
OverflowIsCaught ==
  \A s \in Times :
    cfg[s] = Default[s] \/ \E i \in DOMAIN argv : argv[i].key = s /\ Means(argv[i].value, cfg[s])
=============================================================================
