---------------------------- MODULE MCPermCache ----------------------------
(***************************************************************************)
(* Small instances of PermCache: one role or menu write (global counter)   *)
(* and one user-role write (user counter), concurrent requests of the user.*)
(***************************************************************************)
EXTENDS PermCache, TLC

CONSTANTS role, binding

MCScopeOf == role :> "global" @@ binding :> "user"

=============================================================================
