------------------------------- MODULE MCDisplay -------------------------------
(* The link to the display board with two settings, two keys and two faults.    *)
EXTENDS DisplayLink

\* Power and mode.
Settings == <<2, 3>>

\* Manual mode, whose function frame the display takes for a power command.
PhoneCommands == {<<3, 2>>}

\* A start code within an exchange, and one at its end.
Exchanges == {<<F1, 3>>, <<3, F2>>}
================================================================================
