-------------------------- MODULE MCAuthorization --------------------------
(* Small instances of Authorization. *)
EXTENDS Authorization
=============================================================================
