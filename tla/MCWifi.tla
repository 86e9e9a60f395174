-------------------------------- MODULE MCWifi ---------------------------------
(* The Wi-Fi link with the codes of the program, for TLC.                       *)
EXTENDS WifiLink

\* The longest timer, and the question for the identity.
PhoneCommands == {<<6, 12>>, <<247, 0>>}

\* The answer to an AT command, shortened to two bytes.
ModuleAnswer == <<65, 84>>
================================================================================
