----------------------------- MODULE MCPollChat -----------------------------
(* The instance of PollChat that PollChat.cfg describes. *)
EXTENDS PollChat
=============================================================================
