--------------------------- MODULE MCReportScreens --------------------------
(* Instances of ReportScreens for TLC: the cfg gives the constants.         *)
EXTENDS ReportScreens
=============================================================================
