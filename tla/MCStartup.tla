------------------------------ MODULE MCStartup -------------------------------
(* The daemon and one command line for TLC.                                   *)
EXTENDS Startup

CONSTANTS daemon, cli
=============================================================================
