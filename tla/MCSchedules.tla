----------------------------- MODULE MCSchedules -----------------------------
(* Model checking of Schedules: one expression that names every time and one *)
(* that names a single time.                                               *)
EXTENDS Schedules

MCCrons == {1..MaxTime, {2}}

=============================================================================
