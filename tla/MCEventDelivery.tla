---------------------------- MODULE MCEventDelivery ----------------------------
(* Two mails, evaluated alone or together, in groups that change between two   *)
(* attempts.                                                                   *)
EXTENDS EventDelivery
===============================================================================
