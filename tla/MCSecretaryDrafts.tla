--------------------------- MODULE MCSecretaryDrafts ---------------------------
(* A message of the correspondent, which is edited, and a deletion: the edit   *)
(* is drafted for as well, and both may come at any step of the other's reply. *)
EXTENDS SecretaryDrafts
===============================================================================
