------------------------------- MODULE MCLauncher ------------------------------
(***************************************************************************)
(* Launcher for TLC: three signals are enough for one during startup, one  *)
(* that stops the server and one after the default was restored, and for   *)
(* the SIGINT that follows another signal.                                 *)
(***************************************************************************)
EXTENDS Launcher
=============================================================================
