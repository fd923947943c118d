---------------------------- MODULE MCJobCleanup ----------------------------
(* Small instances of JobCleanup for TLC.                                  *)
EXTENDS JobCleanup, TLC

CONSTANTS x1, x2, x3, a, b  (* rows and cleaners                           *)

=============================================================================
