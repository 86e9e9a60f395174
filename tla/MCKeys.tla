-------------------------------- MODULE MCKeys ---------------------------------
(* The keys of the panel with a long press of three scans, for TLC.             *)
EXTENDS PanelKeys
================================================================================
