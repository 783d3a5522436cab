----------------------------- MODULE MCChatMessages -----------------------------
(* One client over the WebSocket that sends its message twice, and no failures at all. *)
EXTENDS ChatMessages, TLC

CONSTANTS c1

MCContent == c1 :> "text"
MCTrouble == [faults |-> 0, crashes |-> 0, deferrals |-> 1]
===============================================================================
