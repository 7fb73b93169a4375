------------------------ MODULE MCMetricPersistence ------------------------
(* MetricPersistence for TLC: every constant has its value in a cfg. *)
EXTENDS MetricPersistence
=============================================================================
