----------------------------- MODULE AudioPlayer -----------------------------
(***************************************************************************)
(* The STM32's player (services/audio/audio_player.c): announcements       *)
(* queued as WAV files on the SD card and the live broadcast received over *)
(* SPI share one circular I2S DMA of two half-buffers.  The DMA interrupts *)
(* set bits in s_bufferEvent; Audio_Process, called from the main loop,    *)
(* refills the halves, ends playback and starts the next source.           *)
(*                                                                         *)
(* Main-loop code is cut where an interrupt can be seen: around the        *)
(* read-modify-write that clears an event bit and between the tests of     *)
(* s_bufferEvent.  Sound is counted in units of one received block; a half *)
(* holds HalfLen of them.  Every fill that reads data gets the next chunk  *)
(* number, so order, repetition and loss are visible.  Time is counted in  *)
(* half-buffer periods (4096 frames at 48 kHz, 85 ms).                     *)
(*                                                                         *)
(* The refill of one half is one step: it runs in the main loop, its data  *)
(* come from the file or the ring, which no interrupt touches, and a half  *)
(* whose DMA turn comes during the refill is a missed period (MaxMissed).  *)
(***************************************************************************)
EXTENDS Integers, Sequences, FiniteSets

CONSTANTS
  Zones,        \* number of platform zones (8)
  QueueMax,     \* AUDIO_PLAYER_QUEUE_MAX (16)
  HalfLen,      \* blocks read by one fill (8192 / 1920, rounded)
  Prebuffer,    \* AUDIO_STREAM_PREBUFFER_BYTES in blocks (4)
  RingLen,      \* blocks the broadcast ring holds (32768 / 1920)
  TimeoutHalves,\* AUDIO_STREAM_TIMEOUT_MS in half-buffer periods (500 / 85: 5)
  Files,        \* names of files somebody asks for
  FileLen,      \* their lengths in blocks; -1: there is no such file
  MaxGuides,    \* bound: calls of Audio_Guide
  MaxMissed,    \* bound: half-buffer periods the main loop misses
  DmaMayFail    \* HAL_I2S_Transmit_DMA may return an error

ASSUME PlayerAssumption ==
  /\ Zones \in Nat \ {0} /\ QueueMax \in Nat \ {0, 1}
  /\ HalfLen \in Nat \ {0} /\ Prebuffer \in Nat \ {0} /\ RingLen \in Nat
  /\ TimeoutHalves \in Nat \ {0}
  /\ {"guide_start", "guide_n", "guide_end", "warning"} \subseteq Files
  /\ FileLen \in [Files -> Nat \cup {-1}]
  /\ MaxGuides \in Nat /\ MaxMissed \in Nat /\ DmaMayFail \in BOOLEAN

\* For StreamPlayedOut: 500 ms are more than four periods of 85 ms.
ASSUME TimeoutAssumption == TimeoutHalves >= 4

VARIABLES
  s_audioQueue,   \* file names waiting
  s_audioSource,  \* "NONE", "WAV" or "STREAM"
  s_bufferEvent,  \* subset of {0, 1}: halves that have been played
  s_wavEof, s_isPlaying, s_stopPending,
  fileOpen, wavLeft,   \* s_wavFile: open, blocks left to read
  avail,               \* AudioStreamRx_Available, in blocks
  quiet,               \* periods since s_streamLastDataTick
  half,                \* s_i2sBuf: chunk in each half, 0 for silence
  fresh,               \* halves filled and not played yet
  dmaOn, playing,      \* the I2S DMA and the half it plays
  pc, seen,            \* main loop: point in Audio_Process, value read
  chunks, heard,       \* history: chunks read, last chunk played
  late,                \* history: a period was missed in this playback
  i2sError,            \* history: the I2S DMA broke in this playback
  guides, missed       \* inputs so far

playVars == <<s_audioSource, s_wavEof, s_isPlaying, s_stopPending, fileOpen, wavLeft>>
hwVars   == <<dmaOn, playing, heard, late, i2sError>>
bufVars  == <<half, fresh, chunks>>
inVars   == <<guides, missed>>
vars     == <<s_audioQueue, playVars, s_bufferEvent, avail, quiet, bufVars, hwVars,
              pc, seen, inVars>>

Halves == {0, 1}
Least(a, b) == IF a <= b THEN a ELSE b

(* Audio_Init. *)
Init ==
  /\ s_audioQueue = <<>> /\ s_audioSource = "NONE" /\ s_bufferEvent = {}
  /\ s_wavEof = FALSE /\ s_isPlaying = FALSE /\ s_stopPending = FALSE
  /\ fileOpen = FALSE /\ wavLeft = 0
  /\ avail = 0 /\ quiet = 0
  /\ half = [h \in Halves |-> 0] /\ fresh = {}
  /\ dmaOn = FALSE /\ playing = 0
  /\ pc = "idle" /\ seen = {}
  /\ chunks = 0 /\ heard = 0 /\ late = FALSE
  /\ i2sError = FALSE
  /\ guides = 0 /\ missed = 0

-----------------------------------------------------------------------------
(* The queue of file names. *)
\* A ring with head = tail when empty keeps one slot free.
Room_AllSlots == QueueMax - Len(s_audioQueue)
Room == QueueMax - 1 - Len(s_audioQueue)

\* AudioPlayer_Enqueue on each name in turn: what does not fit is dropped.
Enqueued(names) == s_audioQueue \o SubSeq(names, 1, Least(Room, Len(names)))

\* The names Audio_Guide enqueues for a vector of zone states: the zones that
\* are free between an opening and a closing, a warning if all are crowded.
GuideNames(congestion) ==
  LET free == {z \in 1 .. Zones : congestion[z] = 0}
  IN  IF free # {}
      THEN <<"guide_start">> \o [k \in 1 .. Cardinality(free) |-> "guide_n"] \o <<"guide_end">>
      ELSE IF \A z \in 1 .. Zones : congestion[z] = 2 THEN <<"warning">> ELSE <<>>

-----------------------------------------------------------------------------
(* Filling a half-buffer (AudioPlayer_FillHalfBuffer).  st is the record of *)
(* what a fill works on: half, fresh, chunks, left (blocks the source can   *)
(* still give) and eof.                                                     *)
\* A WAV has ended when it cannot fill a half.
AtEof_Partial(source, n) == source = "WAV" /\ 0 < n /\ n < HalfLen
AtEof(source, n) == source = "WAV" /\ n < HalfLen

Fill(st, h, source) ==
  LET silent == source = "WAV" /\ st.eof
      n      == IF silent THEN 0 ELSE Least(HalfLen, st.left)
  IN  [half   |-> [st.half EXCEPT ![h] = IF n > 0 THEN st.chunks + 1 ELSE 0],
       fresh  |-> IF n > 0 THEN st.fresh \cup {h} ELSE st.fresh \ {h},
       chunks |-> IF n > 0 THEN st.chunks + 1 ELSE st.chunks,
       left   |-> st.left - n,
       eof    |-> st.eof \/ (~silent /\ AtEof(source, n))]

Filled(st) ==
  half' = st.half /\ fresh' = st.fresh /\ chunks' = st.chunks

\* Both halves, before the DMA is started.
Blank(left) == [half |-> [h \in Halves |-> 0], fresh |-> {}, chunks |-> 0,
                left |-> left, eof |-> FALSE]
Prefill_Swapped(left, source) == Fill(Fill(Blank(left), 1, source), 0, source)
Prefill(left, source) == Fill(Fill(Blank(left), 0, source), 1, source)

\* HAL_I2S_Transmit_DMA on the prefilled buffer, and what the caller sets.
StartDma(source) ==
  /\ s_isPlaying' = TRUE /\ s_audioSource' = source
  /\ dmaOn' = TRUE /\ playing' = 0 /\ heard' = 0 /\ late' = FALSE /\ i2sError' = FALSE

DmaFails ==
  /\ DmaMayFail
  /\ s_isPlaying' = FALSE /\ s_audioSource' = "NONE"
  /\ heard' = 0
  /\ UNCHANGED <<dmaOn, playing, late, i2sError>>

(* Audio_StartWav(name) while nothing plays.  Any call of the file system may *)
(* fail: opening and seeking (-1), or a later read, whose short count is      *)
(* taken for the end of the file; the file then gives only `readable` blocks. *)
StartWav(name) ==
  \E readable \in -1 .. FileLen[name] :
    /\ s_bufferEvent' = {} /\ s_stopPending' = FALSE
    /\ quiet' = TimeoutHalves   \* s_streamLastDataTick = 0
    /\ UNCHANGED avail
    /\ \/ /\ readable = -1
          /\ s_wavEof' = FALSE
          /\ s_audioSource' = "NONE"
          /\ UNCHANGED <<s_isPlaying, fileOpen, wavLeft, bufVars, hwVars>>
       \/ /\ readable # -1
          /\ LET st == Prefill(readable, "WAV")
             IN  /\ Filled(st) /\ wavLeft' = st.left /\ s_wavEof' = st.eof
                 /\ \/ StartDma("WAV") /\ fileOpen' = TRUE
                    \/ DmaFails /\ fileOpen' = FALSE

(* Audio_StartStream while nothing plays. *)
StartStream ==
  IF avail < Prebuffer
  THEN UNCHANGED <<playVars, s_bufferEvent, avail, quiet, bufVars, hwVars>>
  ELSE LET st == Prefill(avail, "STREAM")
       IN  /\ Filled(st) /\ avail' = st.left
           /\ s_bufferEvent' = {} /\ s_wavEof' = FALSE /\ s_stopPending' = FALSE
           /\ quiet' = 0
           /\ StartDma("STREAM") \/ DmaFails
           /\ UNCHANGED <<fileOpen, wavLeft>>

\* The queue after the name at its head has been tried.
Dequeued_IfOpens(q) == IF FileLen[Head(q)] = -1 THEN q ELSE Tail(q)
Dequeued(q) == Tail(q)

(* AudioPlayer_PlayNextFromQueue on a queue q. *)
PlayNext(q) ==
  IF s_isPlaying \/ q = <<>>
  THEN s_audioQueue' = q /\ UNCHANGED <<playVars, s_bufferEvent, avail, quiet, bufVars, hwVars>>
  ELSE s_audioQueue' = Dequeued(q) /\ StartWav(Head(q))

-----------------------------------------------------------------------------
(* Calls from the main loop, before Audio_Process. *)

\* matrix_run.c calls Audio_Guide when the dashboard comes round.
Audio_Guide(congestion) ==
  /\ pc = "idle" /\ guides < MaxGuides
  /\ guides' = guides + 1
  /\ PlayNext(Enqueued(GuideNames(congestion)))
  /\ UNCHANGED <<pc, seen, missed>>

\* CMD_PLAY_WAV calls Audio_StartWav, which returns 0 while something plays.
PlayWav(name) ==
  /\ pc = "idle" /\ ~s_isPlaying
  /\ StartWav(name)
  /\ UNCHANGED <<s_audioQueue, pc, seen, inVars>>

-----------------------------------------------------------------------------
(* Audio_Process. *)

\* AudioStreamRx_Process may add one block; data in the ring renews the tick.
ProcessRx ==
  /\ pc = "idle"
  /\ \/ avail < RingLen /\ avail' = avail + 1
     \/ UNCHANGED avail
  /\ quiet' = IF avail' > 0 THEN 0 ELSE quiet
  /\ pc' = IF s_isPlaying THEN "test0" ELSE "start"
  /\ UNCHANGED <<s_audioQueue, playVars, s_bufferEvent, bufVars, hwVars, seen, inVars>>

Test(h) == IF h = 0 THEN "test0" ELSE "test1"
Clear(h) == IF h = 0 THEN "clear0" ELSE "clear1"
After(h) == IF h = 0 THEN "test1" ELSE "stop"

Due_Always(h) == TRUE
Due(h) == h \in s_bufferEvent

\* if (s_bufferEvent & bit), and the read of "s_bufferEvent &= ~bit".
TestEvent(h) ==
  /\ pc = Test(h)
  /\ seen' = IF Due(h) THEN s_bufferEvent ELSE {}
  /\ pc' = IF Due(h) THEN Clear(h) ELSE After(h)
  /\ UNCHANGED <<s_audioQueue, playVars, s_bufferEvent, avail, quiet, bufVars, hwVars, inVars>>

\* The write of "s_bufferEvent &= ~bit", which forgets a bit set since the
\* read, the refill of the half, and stopPending at the end of a file.
ServeEvent(h) ==
  LET left == IF s_audioSource = "WAV" THEN wavLeft ELSE avail
      st   == Fill([half |-> half, fresh |-> fresh, chunks |-> chunks, left |-> left,
                    eof |-> s_wavEof], h, s_audioSource)
  IN  /\ pc = Clear(h)
      /\ s_bufferEvent' = seen \ {h}
      /\ Filled(st)
      /\ s_wavEof' = st.eof
      /\ wavLeft' = IF s_audioSource = "WAV" THEN st.left ELSE wavLeft
      /\ avail' = IF s_audioSource = "WAV" THEN avail ELSE st.left
      /\ s_stopPending' = (s_stopPending \/ (s_audioSource = "WAV" /\ st.eof))
      /\ pc' = After(h)
      /\ seen' = {}
      /\ UNCHANGED <<s_audioQueue, s_audioSource, s_isPlaying, fileOpen, quiet, hwVars,
                     inVars>>

\* f_close comes before the source is reset.
OpenAfterStop_LateTest == fileOpen
OpenAfterStop == IF s_audioSource = "WAV" THEN FALSE ELSE fileOpen

\* Audio_Stop.  What the buffers hold is dead: both starters clear them.
Stop ==
  /\ s_isPlaying' = FALSE /\ s_wavEof' = FALSE /\ s_stopPending' = FALSE
  /\ s_bufferEvent' = {} /\ s_audioSource' = "NONE"
  /\ quiet' = TimeoutHalves
  /\ dmaOn' = FALSE
  /\ fileOpen' = OpenAfterStop
  /\ wavLeft' = 0 /\ half' = [h \in Halves |-> 0] /\ fresh' = {}
  /\ chunks' = 0 /\ heard' = 0 /\ late' = FALSE /\ i2sError' = FALSE /\ playing' = 0

WavOver == s_audioSource = "WAV" /\ s_stopPending /\ s_wavEof /\ s_bufferEvent = {}
StreamOver_NoTimeout == s_audioSource = "STREAM" /\ avail = 0 /\ s_bufferEvent = {}
StreamOver ==
  /\ s_audioSource = "STREAM" /\ avail = 0 /\ s_bufferEvent = {}
  /\ quiet >= TimeoutHalves

ProcessStop ==
  /\ pc = "stop"
  /\ \/ (WavOver \/ StreamOver) /\ Stop
     \/ ~(WavOver \/ StreamOver) /\ UNCHANGED <<playVars, s_bufferEvent, quiet, bufVars, hwVars>>
  /\ pc' = "start"
  /\ UNCHANGED <<s_audioQueue, avail, seen, inVars>>

\* Nothing playing: the queue first, then the broadcast.
ProcessStart ==
  /\ pc = "start"
  /\ \/ s_isPlaying /\ UNCHANGED <<s_audioQueue, playVars, s_bufferEvent, avail, quiet,
                                   bufVars, hwVars>>
     \/ ~s_isPlaying /\ s_audioQueue # <<>> /\ PlayNext(s_audioQueue)
     \/ ~s_isPlaying /\ s_audioQueue = <<>> /\ StartStream /\ UNCHANGED s_audioQueue
  /\ pc' = "idle"
  /\ UNCHANGED <<seen, inVars>>

-----------------------------------------------------------------------------
(* HAL_I2S_TxHalfCpltCallback and HAL_I2S_TxCpltCallback: a half has been   *)
(* played, the circular DMA goes on with the other one.                     *)
HalfDone ==
  /\ dmaOn
  /\ s_bufferEvent' = s_bufferEvent \cup {playing}
  /\ heard' = IF playing \in fresh THEN half[playing] ELSE heard
  /\ fresh' = fresh \ {playing}
  /\ \/ s_bufferEvent = {} /\ UNCHANGED <<late, missed>>
     \/ s_bufferEvent # {} /\ missed < MaxMissed /\ late' = TRUE /\ missed' = missed + 1
  /\ playing' = 1 - playing
  /\ quiet' = Least(quiet + 1, TimeoutHalves)
  /\ UNCHANGED <<s_audioQueue, playVars, avail, half, chunks, dmaOn, i2sError, pc, seen,
                 guides>>

(* HAL_I2S_ErrorCallback: the HAL has switched the DMA off before it calls   *)
(* back, and the callback only prints.  s_isPlaying stays 1 and no half is   *)
(* announced any more.                                                       *)
I2sError ==
  /\ dmaOn
  /\ dmaOn' = FALSE /\ i2sError' = TRUE
  /\ UNCHANGED <<s_audioQueue, playVars, s_bufferEvent, avail, quiet, bufVars, playing, heard,
                 late, pc, seen, inVars>>

\* HAL_GetTick goes on without the DMA.
Elapse ==
  /\ i2sError /\ quiet < TimeoutHalves
  /\ quiet' = quiet + 1
  /\ UNCHANGED <<s_audioQueue, playVars, s_bufferEvent, avail, bufVars, hwVars, pc, seen, inVars>>

Process ==
  \/ ProcessRx
  \/ \E h \in Halves : TestEvent(h) \/ ServeEvent(h)
  \/ ProcessStop
  \/ ProcessStart

Next ==
  \/ \E congestion \in [1 .. Zones -> 0 .. 2] : Audio_Guide(congestion)
  \/ \E name \in Files : PlayWav(name)
  \/ Process
  \/ HalfDone
  \/ I2sError
  \/ Elapse

(* The main loop runs for ever (main.c:154), is late only now and then       *)
(* (MaxMissed), and time and, unless it breaks, the I2S clock do not stop.   *)
(* An interrupt every 85 ms cannot hit the few instructions between the test *)
(* of the second bit and the test for zero each time they run.               *)
Spec ==
  /\ Init /\ [][Next]_vars
  /\ WF_vars(Process) /\ WF_vars(HalfDone) /\ WF_vars(Elapse)
  /\ SF_vars(ProcessStop /\ (WavOver \/ StreamOver))

-----------------------------------------------------------------------------
(* Type invariant. *)
TypeOK ==
  /\ s_audioQueue \in Seq(Files) /\ Len(s_audioQueue) < QueueMax
  /\ s_audioSource \in {"NONE", "WAV", "STREAM"}
  /\ s_bufferEvent \subseteq Halves /\ seen \subseteq Halves
  /\ {s_wavEof, s_isPlaying, s_stopPending, fileOpen, dmaOn, late, i2sError} \subseteq BOOLEAN
  /\ wavLeft \in Nat /\ avail \in 0 .. RingLen /\ quiet \in 0 .. TimeoutHalves
  /\ half \in [Halves -> Nat] /\ fresh \subseteq Halves /\ playing \in Halves
  /\ pc \in {"idle", "test0", "clear0", "test1", "clear1", "stop", "start"}
  /\ chunks \in Nat /\ heard \in 0 .. chunks
  /\ guides \in 0 .. MaxGuides /\ missed \in 0 .. MaxMissed

(* Whatever fails on the way (open, seek, read, DMA start), the player's     *)
(* view of itself and the hardware agree: it plays exactly when a source is  *)
(* set, the DMA of whatever plays runs unless an I2S error has broken it,    *)
(* and the WAV file is open exactly while it is the source - no handle       *)
(* leaks, no DMA runs on without an owner.                                   *)
OwnsOutput ==
  /\ s_isPlaying <=> (dmaOn \/ i2sError)
  /\ ~(dmaOn /\ i2sError)
  /\ s_isPlaying <=> s_audioSource # "NONE"
  /\ fileOpen <=> s_audioSource = "WAV"

(* As long as the main loop serves each half within its period, the sound   *)
(* leaves in the order it was read, nothing skipped and nothing repeated.   *)
InOrder ==
  [][(~late' /\ heard' \notin {heard, 0}) => heard' = heard + 1]_vars

(* Sound that was read is not thrown away, whatever events are lost or late: *)
(* a half is filled again only after it has been played.  The exception are  *)
(* the two halves in the DMA buffer when a WAV ends: Audio_Process stops the *)
(* DMA in the same call that reads the end of the file, so up to two chunks  *)
(* are never heard.                                                          *)
WavTailBound ==
  [][/\ s_isPlaying /\ s_isPlaying' => \A h \in fresh : half'[h] = half[h]
     /\ s_audioSource = "WAV" /\ s_audioSource' = "NONE" /\ ~late
          => chunks - heard <= 2]_vars

(* The broadcast is stopped only after its last sound has been played: the   *)
(* 500 ms timeout outlasts the two halves still in the DMA buffer.  (After   *)
(* an I2S error nothing is played any more.)                                 *)
StreamPlayedOut ==
  [][s_audioSource = "STREAM" /\ s_audioSource' = "NONE" /\ ~late /\ ~i2sError
       => fresh = {}]_vars

(* A playing WAV ends, whatever events the interrupts lose and wherever its  *)
(* reading fails, unless an I2S error stops the DMA: then s_isPlaying stays  *)
(* 1 for ever.                                                               *)
WavEnds == s_audioSource = "WAV" ~> (s_audioSource # "WAV" \/ i2sError)

(* Announcements queued behind other files, files that cannot be opened or   *)
(* read, or a broadcast are worked off, on two conditions the code does not  *)
(* ensure: the broadcast ends (while blocks keep coming the stream keeps the *)
(* output, and the queue is not looked at), and no I2S error leaves the      *)
(* player waiting for a DMA that has stopped.                                *)
QueueDrains ==
  (<>[][avail' <= avail]_vars /\ []<>~i2sError)
    => (s_audioQueue # <<>> ~> s_audioQueue = <<>>)
=============================================================================
