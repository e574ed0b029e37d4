---------------------------- MODULE MCBenchSuite -----------------------------
(* Sweeps of two points: no service and some, one consumer and two.          *)
EXTENDS BenchSuite

MCSweep == <<0, 1>>
MCDegrees == <<1, 2>>
=============================================================================
