-------------------------- MODULE MCFilterTelemetry --------------------------
(* Small instances of FilterTelemetry for TLC.                             *)
EXTENDS FilterTelemetry

CONSTANTS c1, c2, f1, f2, v1, v2

TwoCallers == {c1, c2}
TwoFilters == {f1, f2}
OneFilter == {f1}
TwoSummaries == {v1, v2}
OneSummary == {v1}
=============================================================================
