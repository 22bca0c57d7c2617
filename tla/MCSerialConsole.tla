-------------------------- MODULE MCSerialConsole --------------------------
(* Two commands; root without password, with the one the script types, and *)
(* with another one; the three tries of the script.                        *)
EXTENDS SerialConsole

MCCmds == <<"uname", "uptime">>
=============================================================================
