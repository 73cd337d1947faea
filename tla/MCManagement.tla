---------------------------- MODULE MCManagement ----------------------------
(* Two clients that share one key or follow one another on it, and two     *)
(* controllers, the second created after the first has gone.               *)
EXTENDS Management
=============================================================================
