------------------------------- MODULE MCBundle -------------------------------
(* Instances of Bundle: the clock has two seconds and two readings within   *)
(* a second, one of them whole.                                             *)
EXTENDS Bundle

Clock == 0..1

=============================================================================
