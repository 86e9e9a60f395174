------------------------------- MODULE MCDevice -------------------------------
(* Instances of the device control for TLC.                                    *)
EXTENDS DeviceControl

\* The phone: power, ESD off and a timer.
PhoneCommands == {2} \X {0, 1} \cup {<<4, 0>>, <<6, 2>>}
\* The keys of the display board: power off, automatic mode, ESD on.
KeyCommands == {<<2, 0>>, <<3, 1>>, <<4, 1>>}
\* Air for a high and the lowest level, in two rooms of which one may have no sensor.
AirSamples ==
    {[h \in 1..2 |-> IF h = 1 THEN [pm |-> p, co2 |-> 700] ELSE [pm |-> 0, co2 |-> 0]] :
        p \in {20, 140}}
\* A timer that is set and cancelled.
TimerCommands == {6} \X {0, 1}
\* The power key switches the device off.
OffCommand == {<<2, 0>>}
===============================================================================
