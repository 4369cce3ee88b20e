---------------------------- MODULE MCChatSessions ----------------------------
(* The instance of ChatSessions for TLC: every kind of call.                 *)
EXTENDS ChatSessions

MadeUp == {-4, -3, -2, -1}

AllKinds == {"rename", "clear", "wipe", "delete", "edit", "remove",
             "import", "create", "duplicate"}
================================================================================
