-------------------------- MODULE MCConfigCommand --------------------------
(* ConfigCommand for TLC: what the POSTs carry, and which commands come    *)
(* from elsewhere.                                                         *)
EXTENDS ConfigCommand

(* A POST with nothing to do, one that restarts the MCU, two sections on   *)
(* one waiter, a command for the LAN MCU, a whole LAN configuration.       *)
PostBodies == {{}, {"internet_type"}, {"lte", "wifi"}, {"fota"}, {"lan"}}

(* One that replaces the cached command, one that is only passed on.       *)
Commands == {<<"UART", "MCU_LAN">>, <<"MQTT", "UPDATE_FIRMWARE">>}
=============================================================================
