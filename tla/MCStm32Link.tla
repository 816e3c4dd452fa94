----------------------------- MODULE MCStm32Link -----------------------------
(* Commands of one and of several data bytes, and some the STM32 refuses:      *)
(* bulk_congestion checks no level and takes fewer than eight, play_wav takes   *)
(* an empty name.                                                               *)
EXTENDS Stm32Link

MCCommands == [kind : {"LED"}, len : {8}, head : {TRUE}, tail : BOOLEAN]
              \cup [kind : {"LED", "DEST"}, len : {1}, head : {TRUE}, tail : {TRUE}]
              \cup [kind : {"WAV"}, len : {0}, head : {TRUE}, tail : {TRUE}]
=============================================================================
