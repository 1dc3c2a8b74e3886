--------------------------- MODULE PrincipalsMap ---------------------------
(***************************************************************************)
(* ssoossh_principals_map_load (src/src/principals_map.c): which           *)
(* principals may assume the account PAM is authenticating, one line of    *)
(* the file per step.                                                      *)
(*                                                                         *)
(* A line is [kind, indent, key, value].  The lexer (comments, quotes,     *)
(* trimming, the colon after a key) is abstracted to what it finds:        *)
(*   blank                                                                 *)
(*   item     "- value": value is a name, "" or "?", a bad quote           *)
(*   dash     "-value", without the space                                  *)
(*   account  "key: value": key like an item's value; value is a sequence  *)
(*            of them for "[...]", or <<"below">>, <<"null">>, <<"[">>     *)
(*            without its end, <<"text">>                                  *)
(*   text     neither                                                      *)
(* indent is "none", "spaces" or "tab".  A key in quotes is another        *)
(* spelling of the name: Name(key) is the name itself.                     *)
(***************************************************************************)
EXTENDS Integers, Sequences, SequencesExt

CONSTANTS
  Account,         \* the local account
  Spelling,        \* keys as written: a function to the names they stand for
  TooLong,         \* names of SSOOSSH_MAX_PRINCIPAL_LEN bytes and more
  MaxPrincipals    \* SSOOSSH_MAX_MAP_PRINCIPALS, scaled

ASSUME PrincipalsMapAssumption == MaxPrincipals \in Nat

VARIABLES
  mapFile,      \* the file: how reading it goes, and its lines
  mapLine,      \* the line being read
  haveOpen,     \* an account is open: items belong to it
  openIsOurs,   \* and it is Account
  found,        \* out->found
  principals,   \* out->principals
  mapStatus     \* what the load returned; "unread" and "reading" before

mapVars == <<mapFile, mapLine, haveOpen, openIsOurs, found, principals, mapStatus>>

\* principals_map.c:46-131 (strip_comment, trim, split_key).
Kinds == {"blank", "item", "dash", "account", "text"}

\* principals_map.c:285-297.
Indents == {"none", "spaces", "tab"}

Special == {<<"below">>, <<"null">>, <<"[">>, <<"text">>}
NotAName == {"", "?"}

MapInit ==
  /\ mapLine = 1 /\ haveOpen = FALSE /\ openIsOurs = FALSE
  /\ found = FALSE /\ principals = <<>> /\ mapStatus = "unread"

\* principals_map.c:82-109 (unquote).
Name(key) == Spelling[key]

\* principals_map.c:133-142: no more than fit, none that is cut.
Store(ps, p) ==
  IF Len(ps) < MaxPrincipals /\ p \notin TooLong THEN Append(ps, p) ELSE ps

\* principals_map.c:161-188: the entries of "[a, b]" from the first.
StoreAll(ps, entries) ==
  LET kept[n \in 0..Len(entries)] ==
        IF n = 0 THEN ps ELSE Store(kept[n - 1], entries[n])
  IN  kept[Len(entries)]

\* principals_map.c:196-226: the accounts of the lines before.
AccountSeen_AsWritten(line, key) ==
  \E i \in 1..(line - 1) :
    mapFile.lines[i].kind = "account" /\ mapFile.lines[i].key = key
AccountSeen(line, key) ==
  \E i \in 1..(line - 1) :
    mapFile.lines[i].kind = "account" /\ Name(mapFile.lines[i].key) = Name(key)

-----------------------------------------------------------------------------
(* The lines that are not refused.                                         *)

\* principals_map.c:304-327.
ItemFits(l) == l.value \notin NotAName /\ haveOpen

\* principals_map.c:338-358, 376-380 and 147-190.
AccountFits(l) ==
  /\ l.indent = "none"
  /\ Name(l.key) \notin NotAName
  /\ ~AccountSeen(mapLine, l.key)
  /\ l.value \notin {<<"[">>, <<"text">>}
  /\ l.value \notin Special => \A i \in DOMAIN l.value : l.value[i] \notin NotAName

\* principals_map.c:293-380: MAP_FAIL is for every other line.
Fits(l) ==
  /\ l.indent # "tab"
  /\ \/ l.kind = "blank"
     \/ l.kind = "item" /\ ItemFits(l)
     \/ l.kind = "account" /\ AccountFits(l)

-----------------------------------------------------------------------------
\* principals_map.c:244-273: the file is read whole first.
OpenMap(file) ==
  /\ mapStatus = "unread"
  /\ mapFile' = file
  /\ mapStatus' = CASE file.read = "fails" -> "UNREADABLE"
                    [] file.read = "too large" -> "MALFORMED"
                    [] file.read = "whole" -> "reading"
  /\ UNCHANGED <<mapLine, haveOpen, openIsOurs, found, principals>>

MapLine(l) ==
  /\ mapStatus = "reading" /\ mapLine <= Len(mapFile.lines)
  /\ l = mapFile.lines[mapLine]

NextLine == mapLine' = mapLine + 1 /\ UNCHANGED <<mapFile, mapStatus>>

\* principals_map.c:300-302.
BlankLine(l) ==
  /\ MapLine(l)
  /\ l.kind = "blank" /\ Fits(l)
  /\ NextLine
  /\ UNCHANGED <<haveOpen, openIsOurs, found, principals>>

\* principals_map.c:304-332.
ItemLine(l) ==
  /\ MapLine(l)
  /\ l.kind = "item" /\ Fits(l)
  /\ principals' = IF openIsOurs THEN Store(principals, l.value) ELSE principals
  /\ NextLine
  /\ UNCHANGED <<haveOpen, openIsOurs, found>>

\* principals_map.c:360-375: an account with its list on the lines below, or
\* with it on the line, or with none.
Opens(value) == value = <<"below">>
Ours_StaysOpen(l) == openIsOurs \/ Name(l.key) = Account
Ours(l) == Name(l.key) = Account

AccountLine(l) ==
  /\ MapLine(l)
  /\ l.kind = "account" /\ Fits(l)
  /\ openIsOurs' = Ours(l)
  /\ found' = (found \/ openIsOurs')
  /\ haveOpen' = Opens(l.value)
  /\ principals' = IF openIsOurs' /\ l.value \notin Special
                     THEN StoreAll(principals, l.value) ELSE principals
  /\ NextLine

\* principals_map.c:16-21 and 389-394: the whole file is given up.
GiveUp == mapStatus' = "MALFORMED" /\ found' = FALSE /\ principals' = <<>>

MapFails(l) ==
  /\ MapLine(l)
  /\ ~Fits(l)
  /\ GiveUp
  /\ UNCHANGED <<mapFile, mapLine, haveOpen, openIsOurs>>

\* principals_map.c:275 and 389-395.
MapRead ==
  /\ mapStatus = "reading" /\ mapLine > Len(mapFile.lines)
  /\ mapStatus' = "OK"
  /\ UNCHANGED <<mapFile, mapLine, haveOpen, openIsOurs, found, principals>>

ReadMapLine(l) == BlankLine(l) \/ ItemLine(l) \/ AccountLine(l) \/ MapFails(l)
MapNext ==
  \/ mapLine \in DOMAIN mapFile.lines /\ ReadMapLine(mapFile.lines[mapLine])
  \/ MapRead

-----------------------------------------------------------------------------
(* The file read as a whole.                                               *)

Accounts == {i \in DOMAIN mapFile.lines : mapFile.lines[i].kind = "account"}

\* The account line an item on line i belongs to, 0 if there is none before it.
Owner(i) ==
  LET above == {j \in Accounts : j < i}
  IN  IF above = {} THEN 0 ELSE CHOOSE j \in above : \A k \in above : k <= j

WellFormed(i) ==
  LET l == mapFile.lines[i] IN
  /\ l.indent # "tab"
  /\ l.kind \in {"blank", "item", "account"}
  /\ l.kind = "item" =>
       /\ l.value \notin NotAName
       /\ Owner(i) # 0 /\ mapFile.lines[Owner(i)].value = <<"below">>
  /\ l.kind = "account" =>
       /\ l.indent = "none" /\ Name(l.key) \notin NotAName
       /\ \A j \in Accounts \ {i} : Name(mapFile.lines[j].key) # Name(l.key)
       /\ \/ l.value \in {<<"below">>, <<"null">>}
          \/ l.value \notin Special /\ NotAName \cap Range(l.value) = {}

\* What the file lists for Account, wherever it does.
OwnLine(i) == Owner(i) # 0 /\ Name(mapFile.lines[Owner(i)].key) = Account
Lists(i) ==
  LET l == mapFile.lines[i] IN
  CASE l.kind = "item" /\ OwnLine(i) -> <<l.value>>
    [] l.kind = "account" /\ Name(l.key) = Account /\ l.value \notin Special -> l.value
    [] OTHER -> <<>>
NotTooLong(names) ==
  LET kept[n \in 0..Len(names)] ==
        IF n = 0 THEN <<>>
        ELSE IF names[n] \in TooLong THEN kept[n - 1] ELSE Append(kept[n - 1], names[n])
  IN  kept[Len(names)]
Listed == NotTooLong(FlattenSeq([i \in DOMAIN mapFile.lines |-> Lists(i)]))

\* A map that loads grants the account what the file lists for it and nothing
\* it lists for another: no line appends to the account before, and what does
\* not fit is left out, never cut (principals_map.c:133-190, 311-380,
\* principals_map.h:18-31).
MapMeansItsFile ==
  mapStatus = "OK" =>
    /\ found <=> \E i \in Accounts : Name(mapFile.lines[i].key) = Account
    /\ LET all == Listed IN
       principals = SubSeq(all, 1, IF Len(all) < MaxPrincipals
                                     THEN Len(all) ELSE MaxPrincipals)

\* One wrong line anywhere, the account's or not, before it or after, and the
\* file grants nothing: not even what had been read (principals_map.h:14-17 and
\* 38-41, principals_map.c:16-21, 389-394).
BrokenMapGrantsNothing ==
  mapStatus \in {"OK", "MALFORMED", "UNREADABLE"} =>
    /\ mapStatus = "OK" <=>
         mapFile.read = "whole" /\ \A i \in DOMAIN mapFile.lines : WellFormed(i)
    /\ mapStatus # "OK" => ~found /\ principals = <<>>
=============================================================================
