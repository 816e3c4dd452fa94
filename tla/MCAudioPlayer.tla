---------------------------- MODULE MCAudioPlayer ----------------------------
(* Two zones and a queue of five slots (four usable): one full guide and a   *)
(* part of a second.  The opening cannot be opened, a zone's file ends       *)
(* inside a half, the closing on a half boundary, the warning is empty; each *)
(* of them may also fail to open or to be read to its end.                   *)
EXTENDS AudioPlayer

MCFiles == {"guide_start", "guide_n", "guide_end", "warning"}
MCFileLen == [f \in MCFiles |->
                CASE f = "guide_start" -> -1
                  [] f = "guide_n"     -> 5
                  [] f = "guide_end"   -> 4
                  [] f = "warning"     -> 0]

(* A broadcast has no end, so its chunk numbers have none.  No action and no *)
(* property looks at more than their distance from the last chunk heard:     *)
(* states that agree on the distances are one state to TLC.                  *)
RelativeView ==
  <<s_audioQueue, playVars, s_bufferEvent, avail, quiet, fresh, pc, seen, inVars,
    dmaOn, playing, late, i2sError, chunks - heard,
    [h \in Halves |-> IF h \in fresh THEN half[h] - heard ELSE 0]>>
=============================================================================
