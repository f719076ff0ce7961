---------------------------- MODULE MC_CommandFlow ----------------------------
(***************************************************************************)
(* Three users: an admin and a reader on the mesh, and the Telegram chat.  *)
(* Rooms: one that is open, one without commands, one for admins, and the  *)
(* chat.  A room without a policy is refused like "quiet".                 *)
(***************************************************************************)
EXTENDS CommandFlow

MCUsers == [boss |-> admin, reader |-> readonly, chat |-> admin]
MCPolicies == [lora |-> [enabled |-> TRUE, minimum_role |-> readonly, allow_commands |-> TRUE],
               quiet |-> [enabled |-> TRUE, minimum_role |-> readonly, allow_commands |-> FALSE],
               strict |-> [enabled |-> TRUE, minimum_role |-> admin, allow_commands |-> TRUE],
               private |-> [enabled |-> TRUE, minimum_role |-> readonly, allow_commands |-> TRUE]]

Mesh(identity, sender, word) ==
  [task |-> "mesh", identity |-> identity, channel |-> TRUE, room |-> "lora",
   sender |-> sender, word |-> word]
FromTelegram(word) ==
  [task |-> "telegram", identity |-> "update", channel |-> TRUE, room |-> "private",
   sender |-> "chat", word |-> word]

(* Every way through process_message and the router is some message's. *)
AllRequests ==
  {Mesh("a", "boss", "on"), Mesh("b", "reader", "query"),
   Mesh("b", "reader", "off"),
   Mesh("b", "stranger", "query"), Mesh("b", "stranger", "text"),
   Mesh("b", "reader", "text"), Mesh("b", "reader", "unknown"),
   [Mesh("b", "reader", "query") EXCEPT !.room = "strict"],
   [Mesh("b", "reader", "query") EXCEPT !.room = "quiet"],
   [Mesh("b", "reader", "query") EXCEPT !.channel = FALSE],
   FromTelegram("reset"), FromTelegram("query"), FromTelegram("unknown")}
=============================================================================
