------------------------------- MODULE MCModbus -------------------------------
(* Instances of the bus master for TLC.                                        *)
EXTENDS ModbusMaster, TLC

\* The sensors are interchangeable, and so are the two display threads of the run with
\* the firmware's threads: both compose vendor frames with the mutex, at one priority.
Alike == Permutations(Slaves) \cup Permutations(Raw \cap Locked)
===============================================================================
