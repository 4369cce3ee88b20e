---------------------------- MODULE MCContextGuard ----------------------------
(* The instance of ContextGuard for TLC: two chats, the first one with a     *)
(* system message, and a window of three entries.                            *)
EXTENDS ContextGuard

LinesC == <<1>>
FirstC ==
  [c \in Chats |->
     IF c = 1 THEN <<Entry(Number(1, 1), "system"), Entry(Number(1, 2), "user"),
                     Entry(Number(1, 3), "assistant")>>
     ELSE <<Entry(Number(2, 1), "user"), Entry(Number(2, 2), "assistant")>>]
CountC == [window |-> 6, entry |-> 2, summary |-> 1]
================================================================================
