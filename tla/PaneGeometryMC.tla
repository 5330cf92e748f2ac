---- MODULE PaneGeometryMC ----
(* PaneGeometry for TLC.                                                   *)
EXTENDS PaneGeometry, TLC
====
