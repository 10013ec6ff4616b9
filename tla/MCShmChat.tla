------------------------------ MODULE MCShmChat ----------------------------
(* The instance of ShmChat that ShmChat.cfg describes. *)
EXTENDS ShmChat
=============================================================================
