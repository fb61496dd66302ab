-------------------------- MODULE MCDisplaySession --------------------------
(* One window against one guest: two sessions, a few commits, one fault. *)
EXTENDS DisplaySession

=============================================================================
