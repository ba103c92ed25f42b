--------------------------- MODULE MCVoiceSession ---------------------------
(* Small instances of VoiceSession for TLC. *)
EXTENDS VoiceSession

Off == [voice |-> FALSE, mic |-> FALSE, wake |-> FALSE, single |-> FALSE]
Talk == [voice |-> TRUE, mic |-> TRUE, wake |-> FALSE, single |-> TRUE]
Wake == [voice |-> TRUE, mic |-> TRUE, wake |-> TRUE, single |-> FALSE]
Mute == [voice |-> TRUE, mic |-> FALSE, wake |-> FALSE, single |-> FALSE]
Refused == [voice |-> FALSE, mic |-> FALSE, wake |-> TRUE, single |-> FALSE]
AllSettings == {Off, Talk, Wake, Mute, Refused}
=============================================================================
