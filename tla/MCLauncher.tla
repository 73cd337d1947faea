----------------------------- MODULE MCLauncher -----------------------------
(* Three runs of vnsee: one that outlives its stop, or whose end is heard  *)
(* late, one started while its connection is still served, one after both. *)
EXTENDS Launcher
=============================================================================
