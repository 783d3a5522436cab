--------------------------- MODULE MCSecretaryReview ---------------------------
(* Two messages of the correspondent, one after the other. *)
EXTENDS SecretaryReview
===============================================================================
