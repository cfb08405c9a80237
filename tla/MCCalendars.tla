----------------------------- MODULE MCCalendars -----------------------------
(* Two calendars and a URI off the allowlist; two handlers share the slots. *)
EXTENDS Calendars, TLC

Symmetric == Permutations(Call)

=============================================================================
