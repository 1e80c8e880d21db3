--------------------------- MODULE MCChatSessions ---------------------------
(***************************************************************************)
(* ChatSessions for TLC: two messages and a delete that meet on one        *)
(* session ID, with as many stops and client disconnects as fit.           *)
(***************************************************************************)
EXTENDS ChatSessions, TLC
=============================================================================
