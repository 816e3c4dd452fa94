------------------------------- MODULE Stm32Link -------------------------------
(***************************************************************************)
(* The serial line between the Raspberry Pi (drivers/src/communication.cpp)*)
(* and the STM32 (features/protocol/uart_handler.c).                       *)
(*                                                                         *)
(* Several threads of the Pi write frames under g_uart_mutex; only GET_CO, *)
(* GET_CO2 and GET_WAVS wait for an answer, up to a timeout.  The STM32's  *)
(* receive interrupt leaves each good frame in one mailbox, pendingPkt,    *)
(* which the main loop copies field by field while further interrupts may  *)
(* arrive, and answers every frame, also those nobody waits for.           *)
(*                                                                         *)
(* Frames are numbered in the order they are written.  The four parts of a *)
(* Packet_t - command, length, first data byte, further data bytes - are   *)
(* represented by the number of the frame they came from, so that a packet *)
(* made of two frames can be told from a whole one.                        *)
(***************************************************************************)
EXTENDS Integers, Sequences, SequencesExt

CONSTANTS
  Commands,   \* frames of the Pi that expect no answer, see Frame below
  ListLens,   \* lengths of the list of files on the SD card
  MaxFrames,  \* bound: frames written
  MaxLost     \* bound: frames and answers lost on the line

None == "none"
Requests == {"CO", "CO2", "WAVS"}
CommandKinds == {"LED", "DEST", "TEMP", "DISP", "WAV"}

\* len: number of data bytes; head, tail: the first of them / the others are
\* congestion levels, 0 to 2.
Frame == [kind : Requests \cup CommandKinds, len : 0 .. 255, head : BOOLEAN, tail : BOOLEAN]

ASSUME LinkAssumption ==
  /\ Commands \subseteq {frame \in Frame : frame.kind \in CommandKinds}
  /\ ListLens \subseteq 0 .. 255 /\ MaxFrames \in Nat /\ MaxLost \in Nat

VARIABLES
  sent,         \* history: the frames written by the Pi
  toStm,        \* numbers of the frames on their way to the STM32
  rxPkt,        \* the packet being received, <<cmd, len, head, tail>>
  pendingPkt, pktReady,
  pc,           \* the main loop in UART_Handler_Process
  copied,       \* parts of pendingPkt copied to pkt
  pkt,
  panel,        \* the levels given to MatrixRun_SetCongestionBulk: head and tail
  taken,        \* history: the newest frame handled
  out,          \* the answer being transmitted
  runs,         \* answers so far
  rxq,          \* answers in the Pi's receive buffer
  holder,       \* the request that holds g_uart_mutex, or None
  asked,        \* it has flushed and written, and reads
  floor,        \* history: answers that had come in when the holder flushed
  got,          \* what the last successful request accepted
  lost

piVars == <<sent, holder, asked, floor, got>>
stmVars == <<rxPkt, pendingPkt, pktReady, pc, copied, pkt, panel, taken, runs>>
vars == <<sent, toStm, rxPkt, pendingPkt, pktReady, pc, copied, pkt, panel, taken, out, runs,
          rxq, holder, asked, floor, got, lost>>

NoPacket == <<0, 0, 0, 0>>
NoAnswer == [type |-> None, echo |-> None, size |-> 0, run |-> 0]

Init ==
  /\ sent = <<>> /\ toStm = <<>> /\ rxq = <<>>
  /\ rxPkt = NoPacket /\ pendingPkt = NoPacket /\ pkt = NoPacket
  /\ pktReady = FALSE /\ pc = "idle" /\ copied = 0 /\ panel = <<0, 0>> /\ taken = 0
  /\ out = NoAnswer /\ runs = 0
  /\ holder = None /\ asked = FALSE /\ floor = 0
  /\ got = [kind |-> None, answer |-> NoAnswer, floor |-> 0]
  /\ lost = 0

-----------------------------------------------------------------------------
(* The Pi. *)
Write(frame) ==
  /\ Len(sent) < MaxFrames
  /\ sent' = Append(sent, frame)
  /\ toStm' = Append(toStm, Len(sent'))

\* send_to_stm32_temp_humi, _play_wav, _bulk_congestion, _display_control and
\* _train_dest: lock, write, unlock; the STM32's answer stays unread.
Command(frame) ==
  /\ holder = None
  /\ Write(frame)
  /\ UNCHANGED <<stmVars, out, rxq, holder, asked, floor, got, lost>>

\* tcflush(TCIFLUSH).
Flushed_Not == rxq
Flushed == <<>>

\* send_to_stm32_get_co, _get_co2 and _get_wavs: lock and flush.  The flush may
\* cut off the front of an answer that is just coming in.
Request(kind) ==
  /\ holder = None /\ Len(sent) < MaxFrames
  /\ holder' = kind /\ asked' = FALSE
  /\ rxq' = Flushed
  /\ floor' = IF pc = "reply" THEN runs - 1 ELSE runs
  /\ \/ UNCHANGED out
     \/ out.type # None /\ out' = [out EXCEPT !.type = "junk"]
  /\ UNCHANGED <<sent, toStm, stmVars, got, lost>>

\* The write of the request; answers may have come in since the flush.
Ask ==
  /\ holder # None /\ ~asked
  /\ Write([kind |-> holder, len |-> 0, head |-> TRUE, tail |-> TRUE])
  /\ asked' = TRUE
  /\ UNCHANGED <<stmVars, out, rxq, holder, floor, got, lost>>

\* The tests of the callers on rx: a sensor value is told by its size, rx[2] and
\* rx[4] alone, only get_wavs looks at the command rx[1].
Accepts_AnySize(kind, a) ==
  IF kind = "WAVS" THEN a.type \in {"RESP_WAVS", "STACK"} ELSE a.echo = kind
Accepts(kind, a) ==
  IF kind = "WAVS" THEN a.type \in {"RESP_WAVS", "STACK"}
                   ELSE a.size >= 9 /\ a.echo = kind

Release ==
  /\ holder' = None /\ asked' = FALSE /\ floor' = 0
  /\ UNCHANGED <<sent, toStm, stmVars, out, lost>>

\* read_packet returns a frame: the caller accepts it or gives up.
ReadAnswer ==
  /\ asked /\ rxq # <<>> /\ Head(rxq).type # "junk"
  /\ rxq' = Tail(rxq)
  /\ got' = IF Accepts(holder, Head(rxq))
            THEN [kind |-> holder, answer |-> Head(rxq), floor |-> floor]
            ELSE got
  /\ Release

\* The rest of a cut frame: no STX in it, or one that starts no good frame.
ReadJunk ==
  /\ asked /\ rxq # <<>> /\ Head(rxq).type = "junk"
  /\ rxq' = Tail(rxq)
  /\ UNCHANGED got
  /\ \/ Release
     \/ UNCHANGED <<sent, toStm, stmVars, out, holder, asked, floor, lost>>

\* 300 ms, or 10 s for the list.
Timeout ==
  /\ asked
  /\ UNCHANGED <<rxq, got>>
  /\ Release

-----------------------------------------------------------------------------
(* The STM32. *)
Kind(id) == IF id = 0 THEN None ELSE sent[id].kind
DataLen(id) == IF id = 0 THEN 0 ELSE sent[id].len

\* UART_RxCallback writes a frame over rxPkt; data beyond its length stays.
Received(id) ==
  LET n == DataLen(id)
  IN  <<id, id, IF n > 0 THEN id ELSE rxPkt[3], IF n > 1 THEN id ELSE rxPkt[4]>>

\* The last byte of a good frame, in the interrupt.
Arrive ==
  /\ toStm # <<>>
  /\ toStm' = Tail(toStm)
  /\ rxPkt' = Received(Head(toStm))
  /\ pktReady' = TRUE
  /\ pendingPkt' = rxPkt'
  /\ UNCHANGED <<piVars, pc, copied, pkt, panel, taken, out, runs, rxq, lost>>

\* Bytes changed or lost: no STX is seen, or the CRC or the ETX is wrong.
Garbled ==
  /\ toStm # <<>> /\ lost < MaxLost
  /\ lost' = lost + 1
  /\ toStm' = Tail(toStm)
  /\ rxPkt' \in {rxPkt, Received(Head(toStm))}
  /\ UNCHANGED <<piVars, pendingPkt, pktReady, pc, copied, pkt, panel, taken, out, runs, rxq>>

\* pktReady after a step of the handler: cleared before the copy is made.
FlagAfter_ClearLast(step) == IF step = "copied" THEN FALSE ELSE pktReady
FlagAfter(step) == IF step = "taken" THEN FALSE ELSE pktReady

Take ==
  /\ pc = "idle" /\ pktReady
  /\ pktReady' = FlagAfter("taken")
  /\ pc' = "copy" /\ copied' = 0
  /\ UNCHANGED <<piVars, toStm, rxPkt, pendingPkt, pkt, panel, taken, out, runs, rxq, lost>>

\* Packet_t pkt = pendingPkt, part by part.
CopyPart ==
  /\ pc = "copy"
  /\ copied' = copied + 1
  /\ pkt' = [pkt EXCEPT ![copied + 1] = pendingPkt[copied + 1]]
  /\ IF copied' = Len(pkt)
       THEN pc' = "check" /\ taken' = pkt[1] /\ pktReady' = FlagAfter("copied")
       ELSE UNCHANGED <<pc, taken, pktReady>>
  /\ UNCHANGED <<piVars, toStm, rxPkt, pendingPkt, panel, out, runs, rxq, lost>>

\* The packet the handler works on.
InHand_NoCopy == pendingPkt
InHand == pkt

Low(id, part) == id = 0 \/ sent[id][part]

\* SendPacket counts the frame's bytes in a uint8_t.
Transmitted_Wide(len) == len + 5
Transmitted(len) == (len + 5) % 256

\* Transmits an answer; the loop waits in HAL_UART_Transmit.
Answer(type, echo, size) ==
  /\ out' = [type |-> type, echo |-> echo, size |-> size, run |-> runs + 1]
  /\ runs' = runs + 1
  /\ pc' = "reply"

\* The byte of the answer that the Pi reads as rx[4]: the sensor's number in a
\* value, the error code in a NACK - ERR_INVALID_DATA is the number of GET_CO2,
\* the 1 that refuses a PLAY_WAV the number of GET_CO.
Nack(p) == Answer("NACK", IF Kind(p[1]) = "WAV" THEN "CO" ELSE "CO2", 7)

\* The length the command must have.
LengthOk(p) ==
  LET n == DataLen(p[2])
  IN  CASE Kind(p[1]) = "LED" -> n = 8 [] Kind(p[1]) = "TEMP" -> n = 4
        [] Kind(p[1]) = "DEST" -> n = 1 [] OTHER -> n > 0

\* A text that is no screen number, in the parts a DISPLAY_CTRL is read from.
Refused(p) ==
  IF Kind(p[1]) = "LED" THEN ~(Low(p[3], "head") /\ Low(p[4], "tail"))
                        ELSE Kind(p[1]) = "DISP" /\ ~Low(p[3], "head")

\* What rx[4] may read as.
Echoes == {None, "CO", "CO2"}

\* sd_read_files and SendPacket(CMD_RESP_WAVS): names of files, whose second
\* character is no number of a sensor, or, when the directory cannot be opened,
\* whatever data[] and len held before ("STACK").
List(type, echo, len) ==
  IF Transmitted(len) = len + 5 THEN Answer(type, echo, len + 5)
                                ELSE Answer("junk", None, Transmitted(len))

\* The switch on pkt.cmd, up to a command's effect.
Check ==
  LET p == InHand  kind == Kind(p[1])
  IN  /\ pc = "check"
      /\ \/ kind \in {"CO", "CO2"} /\ Answer("RESP_SENSOR", kind, 9)
         \/ kind = "WAVS" /\ \E len \in ListLens : \/ List("RESP_WAVS", None, len)
                                                 \/ \E echo \in Echoes : List("STACK", echo, len)
         \/ kind \in CommandKinds /\ (~LengthOk(p) \/ Refused(p)) /\ Nack(p)
         \/ kind \in CommandKinds /\ LengthOk(p) /\ ~Refused(p) /\ pc' = "apply"
                                  /\ UNCHANGED <<out, runs>>
      /\ UNCHANGED <<piVars, toStm, rxPkt, pendingPkt, pktReady, copied, pkt, panel, taken,
                     rxq, lost>>

\* The effect and its ACK; PLAY_WAV answers with a NACK frame of error code 0.
Apply ==
  LET kind == Kind(InHand[1])
  IN  /\ pc = "apply"
      /\ panel' = IF kind = "LED" THEN <<InHand[3], InHand[4]>> ELSE panel
      /\ IF kind = "WAV" THEN Answer("NACK", None, 7) ELSE Answer("ACK", None, 6)
      /\ UNCHANGED <<piVars, toStm, rxPkt, pendingPkt, pktReady, copied, pkt, taken, rxq, lost>>

\* HAL_UART_Transmit ends; the answer is in the Pi's buffer, or damaged, or
\* nothing of it is.  The handler returns and its local pkt is gone.
Transmit ==
  /\ pc = "reply"
  /\ pc' = "idle" /\ out' = NoAnswer
  /\ pkt' = NoPacket /\ copied' = 0
  /\ \/ rxq' = (IF out.size = 0 THEN rxq ELSE Append(rxq, out)) /\ UNCHANGED lost
     \/ lost < MaxLost /\ lost' = lost + 1
        /\ rxq' \in {rxq, Append(rxq, [out EXCEPT !.type = "junk"])}
  /\ UNCHANGED <<piVars, toStm, rxPkt, pendingPkt, pktReady, panel, taken, runs>>

Process == Take \/ CopyPart \/ Check \/ Apply \/ Transmit

Next ==
  \/ \E frame \in Commands : Command(frame)
  \/ \E kind \in Requests : Request(kind)
  \/ Ask \/ ReadAnswer \/ ReadJunk \/ Timeout
  \/ Arrive \/ Garbled
  \/ Process

(* The main loop goes round for ever. *)
Spec == Init /\ [][Next]_vars /\ WF_vars(Process)

-----------------------------------------------------------------------------
Answers ==
  [type : {None, "junk", "RESP_SENSOR", "RESP_WAVS", "STACK", "ACK", "NACK"},
   echo : Echoes, size : 0 .. 255, run : Nat]

Numbers == 0 .. Len(sent)

(* Type invariant: the parts of every packet come from frames that were sent,  *)
(* and the number of bytes given to HAL_UART_Transmit is a uint8_t.            *)
TypeOK ==
  /\ sent \in Seq(Frame) /\ toStm \in Seq(Numbers \ {0}) /\ rxq \in Seq(Answers)
  /\ {rxPkt, pendingPkt, pkt} \subseteq Numbers \X Numbers \X Numbers \X Numbers
  /\ pktReady \in BOOLEAN /\ pc \in {"idle", "copy", "check", "apply", "reply"}
  /\ copied \in 0 .. 4 /\ panel \in Numbers \X Numbers /\ taken \in Numbers
  /\ out \in Answers /\ runs \in Nat /\ floor \in 0 .. runs
  /\ holder \in Requests \cup {None} /\ asked \in BOOLEAN
  /\ got.kind \in Requests \cup {None} /\ got.answer \in Answers
  /\ lost \in 0 .. MaxLost

(* The callers of get_co and get_co2 never look at the command of what they     *)
(* read, and a NACK's error code stands where a value has the number of its     *)
(* sensor; still whatever acknowledgements, refusals, lists and late answers    *)
(* lie in the way, the value taken was measured by the sensor asked for, and    *)
(* the list of get_wavs is a list.  The one exception has no defence in the     *)
(* code: the unset memory sent for a directory that could not be opened.        *)
AnswerOfItsKind ==
  got.kind # None =>
    \/ got.answer.type = "STACK"
    \/ IF got.kind = "WAVS" THEN got.answer.type = "RESP_WAVS"
                            ELSE got.answer.type = "RESP_SENSOR" /\ got.answer.echo = got.kind

(* An answer that came in after its request had timed out is never taken for   *)
(* the answer to a later one: what is accepted was still under way when the    *)
(* line was flushed, or sent after that.                                       *)
AnswerIsNew == got.kind # None => got.answer.run > got.floor

(* The interrupt may put a new frame into pendingPkt while the handler copies  *)
(* it, and the copy may mix two frames; still no number that is not a level    *)
(* gets past the test of CMD_SET_LED to the panel.                             *)
LevelsInRange == Low(panel[1], "head") /\ Low(panel[2], "tail")

(* The newest frame received is handled, wherever in the handler the interrupt *)
(* struck: only a frame that a newer one has overwritten is ever missed.       *)
NewestHandled ==
  \A id \in 1 .. MaxFrames : (pktReady /\ pendingPkt[1] = id) ~> taken >= id

=============================================================================
