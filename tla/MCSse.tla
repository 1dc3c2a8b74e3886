------------------------------- MODULE MCSse -------------------------------
(***************************************************************************)
(* Streams to check Sse with: what the chunks may be.                      *)
(***************************************************************************)
EXTENDS SseStream

-----------------------------------------------------------------------------
(* Values of the constants.                                                *)

MCText == {"x", "done"}
MCTerminal == {<<"done">>}

\* Whole lines, pieces of a line, blank lines of both kinds, the end of one
\* event with the beginning of the next, and more after a terminal event.
MCChunks ==
  {<<"event", ":", "x", "LF">>,
   <<"event", ":", " ">>,
   <<"data", ":", "x", "CR", "LF">>,
   <<"data", ":">>,
   <<"x">>,
   <<"LF">>,
   <<"CR", "LF">>,
   <<":", "x", "LF">>,
   <<"LF", "LF", "data", ":", "x", "x", "LF">>,
   <<"done", "LF", "LF", "data", ":", "x", "LF", "LF">>}

=============================================================================
