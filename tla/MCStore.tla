-------------------------------- MODULE MCStore --------------------------------
(* The parameter store with two threads on pages of four bytes, for TLC.        *)
EXTENDS ParamStore
================================================================================
