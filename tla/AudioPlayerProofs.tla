--------------------------- MODULE AudioPlayerProofs ---------------------------
(***************************************************************************)
(* Proofs about the player, for any files, sizes and failures: the file    *)
(* handle, the source and the DMA belong together; the state is typed; the *)
(* sound is played in order, each chunk once; no half is filled before it  *)
(* has been played; and a broadcast is played out before it is stopped.    *)
(***************************************************************************)
EXTENDS AudioPlayer, FiniteSetTheorems, TLAPS

Flags ==
  /\ s_audioSource \in {"NONE", "WAV", "STREAM"}
  /\ s_isPlaying \in BOOLEAN /\ dmaOn \in BOOLEAN /\ fileOpen \in BOOLEAN
  /\ i2sError \in BOOLEAN

IInv == Flags /\ OwnsOutput

LEMMA InitHolds == Init => IInv
BY DEF Init, IInv, Flags, OwnsOutput

(* A DMA start that fails leaves the player as silent as it was.                *)
LEMMA FailedStart ==
  ASSUME IInv, ~s_isPlaying, DmaFails, fileOpen' = FALSE
  PROVE  IInv'
<1>1. s_isPlaying' = FALSE /\ s_audioSource' = "NONE" /\ UNCHANGED <<dmaOn, i2sError>>
  BY DEF DmaFails
<1>2. dmaOn = FALSE /\ i2sError = FALSE
  BY Zenon DEF IInv, Flags, OwnsOutput
<1> QED BY <1>1, <1>2 DEF IInv, Flags, OwnsOutput

(* A WAV that cannot be opened leaves nothing set; one whose DMA start fails is *)
(* closed again.                                                                *)
LEMMA StartWavHolds ==
  ASSUME IInv, ~s_isPlaying, NEW name, StartWav(name)
  PROVE  IInv'
<1> USE DEF IInv, Flags, OwnsOutput
<1>1. \/ s_audioSource' = "NONE" /\ UNCHANGED <<s_isPlaying, fileOpen, hwVars>>
      \/ StartDma("WAV") /\ fileOpen' = TRUE
      \/ DmaFails /\ fileOpen' = FALSE
  BY DEF StartWav
<1>2. CASE s_audioSource' = "NONE" /\ UNCHANGED <<s_isPlaying, fileOpen, hwVars>>
  BY <1>2 DEF hwVars
<1>3. CASE StartDma("WAV") /\ fileOpen' = TRUE
  BY <1>3 DEF StartDma
<1>4. CASE DmaFails /\ fileOpen' = FALSE
  BY <1>4, FailedStart
<1> QED BY <1>1, <1>2, <1>3, <1>4

(* The broadcast has no file; a failed start leaves the player silent.          *)
LEMMA StartStreamHolds ==
  ASSUME IInv, ~s_isPlaying, StartStream
  PROVE  IInv'
<1> USE DEF IInv, Flags, OwnsOutput
<1>1. CASE avail < Prebuffer
  BY <1>1 DEF StartStream, playVars, hwVars
<1>2. CASE ~(avail < Prebuffer)
  <2>1. (StartDma("STREAM") \/ DmaFails) /\ UNCHANGED <<fileOpen, wavLeft>>
    BY <1>2 DEF StartStream
  <2>2. fileOpen = FALSE /\ fileOpen' = FALSE
    BY <2>1, Zenon
  <2>3. CASE StartDma("STREAM")
    BY <2>2, <2>3 DEF StartDma
  <2>4. CASE DmaFails
    BY <2>2, <2>4, FailedStart
  <2> QED BY <2>1, <2>3, <2>4
<1> QED BY <1>1, <1>2

LEMMA PlayNextHolds ==
  ASSUME IInv, NEW q, PlayNext(q)
  PROVE  IInv'
<1>1. CASE s_isPlaying \/ q = <<>>
  BY <1>1 DEF PlayNext, playVars, hwVars, IInv, Flags, OwnsOutput
<1>2. CASE ~(s_isPlaying \/ q = <<>>)
  BY <1>2, StartWavHolds DEF PlayNext
<1> QED BY <1>1, <1>2

LEMMA StopHolds ==
  ASSUME IInv, Stop
  PROVE  IInv'
BY DEF IInv, Flags, OwnsOutput, Stop, OpenAfterStop

LEMMA ProcessHolds ==
  ASSUME IInv, Process
  PROVE  IInv'
<1>1. CASE ProcessRx
  BY <1>1 DEF ProcessRx, playVars, hwVars, IInv, Flags, OwnsOutput
<1>2. ASSUME NEW h \in Halves, TestEvent(h) PROVE IInv'
  BY <1>2 DEF TestEvent, playVars, hwVars, IInv, Flags, OwnsOutput
<1>3. ASSUME NEW h \in Halves, ServeEvent(h) PROVE IInv'
  <2>1. UNCHANGED <<s_audioSource, s_isPlaying, fileOpen, dmaOn, i2sError>>
    BY <1>3 DEF ServeEvent, hwVars
  <2> QED BY <2>1 DEF IInv, Flags, OwnsOutput
<1>4. CASE ProcessStop
  <2>1. Stop \/ UNCHANGED <<playVars, s_bufferEvent, quiet, bufVars, hwVars>>
    BY <1>4 DEF ProcessStop
  <2>2. CASE UNCHANGED <<playVars, s_bufferEvent, quiet, bufVars, hwVars>>
    BY <2>2 DEF playVars, hwVars, IInv, Flags, OwnsOutput
  <2> QED BY <2>1, <2>2, StopHolds
<1>5. CASE ProcessStart
  <2>1. \/ UNCHANGED <<playVars, hwVars>>
        \/ PlayNext(s_audioQueue)
        \/ ~s_isPlaying /\ StartStream
    BY <1>5 DEF ProcessStart
  <2>2. CASE UNCHANGED <<playVars, hwVars>>
    BY <2>2 DEF playVars, hwVars, IInv, Flags, OwnsOutput
  <2> QED BY <2>1, <2>2, PlayNextHolds, StartStreamHolds
<1> QED BY <1>1, <1>2, <1>3, <1>4, <1>5 DEF Process

LEMMA StepHolds == IInv /\ [Next]_vars => IInv'
<1> SUFFICES ASSUME IInv, [Next]_vars PROVE IInv'
  OBVIOUS
<1>1. ASSUME NEW congestion \in [1 .. Zones -> 0 .. 2], Audio_Guide(congestion) PROVE IInv'
  BY <1>1, PlayNextHolds DEF Audio_Guide
<1>2. ASSUME NEW name \in Files, PlayWav(name) PROVE IInv'
  BY <1>2, StartWavHolds DEF PlayWav
<1>3. CASE HalfDone
  BY <1>3 DEF HalfDone, playVars, IInv, Flags, OwnsOutput
<1>4. CASE I2sError
  BY <1>4 DEF I2sError, playVars, IInv, Flags, OwnsOutput
<1>5. CASE Elapse \/ UNCHANGED vars
  BY <1>5 DEF Elapse, vars, playVars, hwVars, IInv, Flags, OwnsOutput
<1> QED BY <1>1, <1>2, <1>3, <1>4, <1>5, ProcessHolds DEF Next

(* Whatever fails, and whenever the interrupts come: the player plays exactly   *)
(* while a source is set, its DMA runs unless an I2S error broke it, and the    *)
(* file is open exactly while it is the source.                                 *)
THEOREM OutputOwned == Spec => []OwnsOutput
<1>1. IInv => OwnsOutput
  BY DEF IInv
<1> QED BY <1>1, InitHolds, StepHolds, PTL DEF Spec
-----------------------------------------------------------------------------
FillState == [half : [Halves -> Nat], fresh : SUBSET Halves, chunks : Nat, left : Nat,
              eof : BOOLEAN]

\* What a fill of half h may do: leave silence, or read the next chunk.
Silenced(st, h, r) ==
  /\ r.half = [st.half EXCEPT ![h] = 0] /\ r.fresh = st.fresh \ {h} /\ r.chunks = st.chunks

ChunkRead(st, h, r) ==
  /\ st.left > 0
  /\ r.half = [st.half EXCEPT ![h] = st.chunks + 1] /\ r.fresh = st.fresh \cup {h}
  /\ r.chunks = st.chunks + 1

LEMMA Filling ==
  ASSUME NEW st \in FillState, NEW h \in Halves, NEW source
  PROVE  LET r == Fill(st, h, source)
         IN  /\ r \in FillState /\ r.left <= st.left
             /\ Silenced(st, h, r) \/ ChunkRead(st, h, r)
<1> DEFINE r == Fill(st, h, source)
           silent == source = "WAV" /\ st.eof
           n == IF silent THEN 0 ELSE Least(HalfLen, st.left)
<1>1. /\ st.half \in [Halves -> Nat] /\ st.fresh \in SUBSET Halves
      /\ st.chunks \in Nat /\ st.left \in Nat /\ st.eof \in BOOLEAN
  BY DEF FillState
<1>2. n \in Nat /\ n <= st.left /\ (n > 0 => st.left > 0)
  BY <1>1, PlayerAssumption DEF Least
<1> HIDE DEF n
<1>3. /\ r.half = [st.half EXCEPT ![h] = IF n > 0 THEN st.chunks + 1 ELSE 0]
      /\ r.fresh = IF n > 0 THEN st.fresh \cup {h} ELSE st.fresh \ {h}
      /\ r.chunks = IF n > 0 THEN st.chunks + 1 ELSE st.chunks
      /\ r.left = st.left - n
      /\ r.eof = (st.eof \/ (~silent /\ AtEof(source, n)))
      /\ r = [half |-> r.half, fresh |-> r.fresh, chunks |-> r.chunks, left |-> r.left,
              eof |-> r.eof]
  BY DEF Fill, n
<1>4. /\ r.half \in [Halves -> Nat] /\ r.fresh \in SUBSET Halves
      /\ r.chunks \in Nat /\ r.left \in Nat /\ r.left <= st.left
  BY <1>1, <1>2, <1>3
<1>5. r.eof \in BOOLEAN
  BY <1>3
<1> HIDE DEF r
<1>6. r \in FillState
  BY <1>3, <1>4, <1>5 DEF FillState
<1>7. Silenced(st, h, r) \/ ChunkRead(st, h, r)
  BY <1>2, <1>3 DEF Silenced, ChunkRead
<1> QED BY <1>4, <1>6, <1>7 DEF r

\* Chunks are numbered from 1 to the count.
Numbered(st) == \A h \in Halves : st.half[h] <= st.chunks

LEMMA FillNumbered ==
  ASSUME NEW st \in FillState, Numbered(st), NEW h \in Halves, NEW source
  PROVE  Numbered(Fill(st, h, source))
<1> DEFINE r == Fill(st, h, source)
<1>1. r \in FillState /\ (Silenced(st, h, r) \/ ChunkRead(st, h, r))
  BY Filling
<1> HIDE DEF r
<1>2. Numbered(r)
  BY <1>1 DEF Numbered, Silenced, ChunkRead, FillState
<1> QED BY <1>2 DEF r

\* The four ways in which both halves can be filled before the start.
Prefilled(st) ==
  \/ st.fresh = {} /\ st.chunks = 0
  \/ st.fresh = {0} /\ st.chunks = 1 /\ st.half[0] = 1
  \/ st.fresh = {1} /\ st.chunks = 1 /\ st.half[1] = 1
  \/ st.fresh = {0, 1} /\ st.chunks = 2 /\ st.half[0] = 1 /\ st.half[1] = 2

LEMMA Prefilling ==
  ASSUME NEW left \in Nat, NEW source
  PROVE  LET st == Prefill(left, source)
         IN  /\ st \in FillState /\ st.left <= left
             /\ Numbered(st) /\ Prefilled(st)
<1> DEFINE b == Blank(left)
           r == Fill(b, 0, source)
           st == Fill(r, 1, source)
<1>1. /\ b \in FillState /\ b.left = left /\ Numbered(b)
      /\ b.fresh = {} /\ b.chunks = 0
  BY DEF Blank, FillState, Numbered
<1> HIDE DEF b
<1>2. /\ r \in FillState /\ r.left <= b.left /\ Numbered(r)
      /\ Silenced(b, 0, r) \/ ChunkRead(b, 0, r)
  BY <1>1, Filling, FillNumbered DEF Halves
<1> HIDE DEF r
<1>3. /\ st \in FillState /\ st.left <= r.left /\ Numbered(st)
      /\ Silenced(r, 1, st) \/ ChunkRead(r, 1, st)
  BY <1>2, Filling, FillNumbered DEF Halves
<1> HIDE DEF st
<1>4. Prefilled(st)
  BY <1>1, <1>2, <1>3 DEF Prefilled, Silenced, ChunkRead, FillState, Halves
<1>5. st.left <= left
  BY <1>1, <1>2, <1>3 DEF FillState
<1>6. st = Prefill(left, source)
  BY DEF st, r, b, Prefill
<1> QED BY <1>3, <1>4, <1>5, <1>6
-----------------------------------------------------------------------------
(* Typing, in three parts: the queue, the control of the main loop with the     *)
(* bounds, and what starters, fills and interrupts share.                       *)
QueueType == s_audioQueue \in Seq(Files) /\ Len(s_audioQueue) < QueueMax

ControlType ==
  /\ seen \subseteq Halves
  /\ pc \in {"idle", "test0", "clear0", "test1", "clear1", "stop", "start"}
  /\ guides \in 0 .. MaxGuides /\ missed \in 0 .. MaxMissed

PlayType ==
  /\ s_audioSource \in {"NONE", "WAV", "STREAM"} /\ s_bufferEvent \subseteq Halves
  /\ s_wavEof \in BOOLEAN /\ s_isPlaying \in BOOLEAN /\ s_stopPending \in BOOLEAN
  /\ fileOpen \in BOOLEAN /\ dmaOn \in BOOLEAN /\ late \in BOOLEAN /\ i2sError \in BOOLEAN
  /\ wavLeft \in Nat /\ avail \in 0 .. RingLen /\ quiet \in 0 .. TimeoutHalves
  /\ half \in [Halves -> Nat] /\ fresh \subseteq Halves /\ playing \in Halves
  /\ chunks \in Nat /\ heard \in 0 .. chunks /\ \A h \in Halves : half[h] <= chunks

TypeInv == QueueType /\ ControlType /\ PlayType

LEMMA TypeInvIsEnough == TypeInv => TypeOK
<1> SUFFICES ASSUME TypeInv PROVE TypeOK
  OBVIOUS
<1>1. {s_wavEof, s_isPlaying, s_stopPending, fileOpen, dmaOn, late, i2sError} \subseteq BOOLEAN
  BY Zenon DEF TypeInv, PlayType
<1> QED BY <1>1 DEF TypeInv, QueueType, ControlType, PlayType, TypeOK

LEMMA InitTyped == Init => TypeInv
<1> SUFFICES ASSUME Init PROVE TypeInv
  OBVIOUS
<1>1. QueueType
  BY PlayerAssumption DEF Init, QueueType
<1>2. ControlType
  BY PlayerAssumption DEF Init, ControlType
<1>3. PlayType
  <2>1. /\ s_audioSource = "NONE" /\ s_bufferEvent = {} /\ s_wavEof = FALSE
        /\ s_isPlaying = FALSE /\ s_stopPending = FALSE /\ fileOpen = FALSE /\ dmaOn = FALSE
        /\ late = FALSE /\ i2sError = FALSE /\ wavLeft = 0 /\ fresh = {} /\ playing \in Halves
    BY DEF Init, Halves
  <2>2. avail \in 0 .. RingLen /\ quiet \in 0 .. TimeoutHalves
    BY PlayerAssumption DEF Init
  <2>3. /\ half \in [Halves -> Nat] /\ chunks \in Nat /\ heard \in 0 .. chunks
        /\ \A h \in Halves : half[h] <= chunks
    BY DEF Init
  <2> QED BY <2>1, <2>2, <2>3 DEF PlayType
<1> QED BY <1>1, <1>2, <1>3 DEF TypeInv

LEMMA PlayTypeKept ==
  ASSUME PlayType, UNCHANGED <<playVars, s_bufferEvent, avail, quiet, bufVars, hwVars>>
  PROVE  PlayType'
BY DEF PlayType, playVars, bufVars, hwVars

(* Both halves are prefilled from a source that holds left blocks, and the DMA  *)
(* starts on them or does not.                                                  *)
LEMMA StartedTyped ==
  ASSUME PlayType, NEW left \in Nat, NEW source \in {"WAV", "STREAM"},
         Filled(Prefill(left, source)),
         StartDma(source) \/ DmaFails
  PROVE  /\ half' \in [Halves -> Nat] /\ fresh' \subseteq Halves /\ chunks' \in Nat
         /\ \A h \in Halves : half'[h] <= chunks'
         /\ heard' \in 0 .. chunks' /\ playing' \in Halves /\ late' \in BOOLEAN
         /\ s_isPlaying' \in BOOLEAN /\ dmaOn' \in BOOLEAN /\ i2sError' \in BOOLEAN
         /\ s_audioSource' \in {"NONE", "WAV", "STREAM"}
<1> DEFINE st == Prefill(left, source)
<1>1. st \in FillState /\ Numbered(st)
  BY Prefilling
<1>2. half' = st.half /\ fresh' = st.fresh /\ chunks' = st.chunks
  BY DEF Filled
<1> HIDE DEF st
<1>3. /\ half' \in [Halves -> Nat] /\ fresh' \subseteq Halves /\ chunks' \in Nat
      /\ \A h \in Halves : half'[h] <= chunks'
  BY <1>1, <1>2 DEF FillState, Numbered
<1>4. /\ heard' = 0 /\ playing' \in Halves /\ late' \in BOOLEAN
      /\ s_isPlaying' \in BOOLEAN /\ dmaOn' \in BOOLEAN /\ i2sError' \in BOOLEAN
      /\ s_audioSource' \in {"NONE", "WAV", "STREAM"}
  BY DEF PlayType, StartDma, DmaFails, Halves
<1> QED BY <1>3, <1>4

LEMMA StartWavTyped ==
  ASSUME PlayType, NEW name \in Files, StartWav(name)
  PROVE  PlayType'
<1>1. /\ s_bufferEvent' = {} /\ s_stopPending' = FALSE /\ quiet' = TimeoutHalves
      /\ avail' = avail /\ quiet' \in 0 .. TimeoutHalves
  BY PlayerAssumption DEF StartWav
<1>2. PICK readable \in -1 .. FileLen[name] :
        \/ /\ s_wavEof' = FALSE /\ s_audioSource' = "NONE"
           /\ UNCHANGED <<s_isPlaying, fileOpen, wavLeft, bufVars, hwVars>>
        \/ /\ readable # -1
           /\ LET st == Prefill(readable, "WAV")
              IN  Filled(st) /\ wavLeft' = st.left /\ s_wavEof' = st.eof
           /\ StartDma("WAV") \/ DmaFails
           /\ fileOpen' \in BOOLEAN
  BY DEF StartWav
<1>3. CASE /\ s_wavEof' = FALSE /\ s_audioSource' = "NONE"
           /\ UNCHANGED <<s_isPlaying, fileOpen, wavLeft, bufVars, hwVars>>
  BY <1>1, <1>3 DEF PlayType, bufVars, hwVars
<1>4. CASE /\ readable # -1
           /\ LET st == Prefill(readable, "WAV")
              IN  Filled(st) /\ wavLeft' = st.left /\ s_wavEof' = st.eof
           /\ StartDma("WAV") \/ DmaFails
           /\ fileOpen' \in BOOLEAN
  <2> DEFINE st == Prefill(readable, "WAV")
  <2>1. readable \in Nat
    BY <1>4, PlayerAssumption
  <2>2. /\ Filled(st) /\ wavLeft' = st.left /\ s_wavEof' = st.eof
        /\ StartDma("WAV") \/ DmaFails
        /\ fileOpen' \in BOOLEAN
    BY <1>4
  <2>3. st \in FillState
    BY <2>1, Prefilling
  <2>4. wavLeft' \in Nat /\ s_wavEof' \in BOOLEAN
    BY <2>2, <2>3 DEF FillState
  <2>5. /\ half' \in [Halves -> Nat] /\ fresh' \subseteq Halves /\ chunks' \in Nat
        /\ \A h \in Halves : half'[h] <= chunks'
        /\ heard' \in 0 .. chunks' /\ playing' \in Halves /\ late' \in BOOLEAN
        /\ s_isPlaying' \in BOOLEAN /\ dmaOn' \in BOOLEAN /\ i2sError' \in BOOLEAN
        /\ s_audioSource' \in {"NONE", "WAV", "STREAM"}
    BY <2>1, <2>2, StartedTyped
  <2> QED BY <1>1, <2>2, <2>4, <2>5 DEF PlayType
<1> QED BY <1>2, <1>3, <1>4

LEMMA StartStreamTyped ==
  ASSUME PlayType, StartStream
  PROVE  PlayType'
<1>1. CASE avail < Prebuffer
  BY <1>1, PlayTypeKept DEF StartStream
<1>2. CASE ~(avail < Prebuffer)
  <2> DEFINE st == Prefill(avail, "STREAM")
  <2>1. /\ Filled(st) /\ avail' = st.left
        /\ s_bufferEvent' = {} /\ s_wavEof' = FALSE /\ s_stopPending' = FALSE /\ quiet' = 0
        /\ StartDma("STREAM") \/ DmaFails
        /\ UNCHANGED <<fileOpen, wavLeft>>
    BY <1>2 DEF StartStream
  <2>2. avail \in Nat /\ avail <= RingLen /\ TimeoutHalves \in Nat /\ RingLen \in Nat
    BY PlayerAssumption DEF PlayType
  <2>3. st \in FillState /\ st.left <= avail
    BY <2>2, Prefilling
  <2>4. avail' \in 0 .. RingLen /\ quiet' \in 0 .. TimeoutHalves
    BY <2>1, <2>2, <2>3 DEF FillState
  <2>5. /\ half' \in [Halves -> Nat] /\ fresh' \subseteq Halves /\ chunks' \in Nat
        /\ \A h \in Halves : half'[h] <= chunks'
        /\ heard' \in 0 .. chunks' /\ playing' \in Halves /\ late' \in BOOLEAN
        /\ s_isPlaying' \in BOOLEAN /\ dmaOn' \in BOOLEAN /\ i2sError' \in BOOLEAN
        /\ s_audioSource' \in {"NONE", "WAV", "STREAM"}
    BY <2>1, <2>2, StartedTyped
  <2> QED BY <2>1, <2>4, <2>5 DEF PlayType
<1> QED BY <1>1, <1>2

(* What Audio_Guide enqueues are names of files, and the ring of names keeps    *)
(* one slot free.                                                               *)
LEMMA EnqueuedTyped ==
  ASSUME QueueType, NEW congestion
  PROVE  LET q == Enqueued(GuideNames(congestion))
         IN  q \in Seq(Files) /\ Len(q) < QueueMax
<1> DEFINE free == {z \in 1 .. Zones : congestion[z] = 0}
           names == GuideNames(congestion)
           guides1 == [k \in 1 .. Cardinality(free) |-> "guide_n"]
<1>1. Cardinality(free) \in Nat
  <2>1. Zones \in Int
    BY PlayerAssumption
  <2>2. IsFiniteSet(1 .. Zones)
    BY <2>1, FS_Interval
  <2>3. IsFiniteSet(free)
    BY <2>2, FS_Subset
  <2> QED BY <2>3, FS_CardinalityType
<1>2. guides1 \in Seq(Files)
  BY <1>1, PlayerAssumption
<1>3. names \in Seq(Files)
  <2>1. /\ <<"guide_start">> \in Seq(Files) /\ <<"guide_end">> \in Seq(Files)
        /\ <<"warning">> \in Seq(Files) /\ <<>> \in Seq(Files)
    BY PlayerAssumption
  <2>2. <<"guide_start">> \o guides1 \o <<"guide_end">> \in Seq(Files)
    BY <1>2, <2>1
  <2> QED BY <2>1, <2>2 DEF GuideNames
<1> HIDE DEF names
<1>4. /\ Room \in Nat /\ Room = QueueMax - 1 - Len(s_audioQueue) /\ Len(names) \in Nat
      /\ s_audioQueue \in Seq(Files) /\ Len(s_audioQueue) \in Nat /\ QueueMax \in Nat
  BY <1>3, PlayerAssumption DEF QueueType, Room
<1> DEFINE n == Least(Room, Len(names))
<1>5. n \in 0 .. Len(names) /\ n <= Room
  BY <1>4 DEF Least
<1> HIDE DEF n
<1>6. SubSeq(names, 1, n) \in Seq(Files) /\ Len(SubSeq(names, 1, n)) = n
  BY <1>3, <1>5
<1>7. /\ s_audioQueue \o SubSeq(names, 1, n) \in Seq(Files)
      /\ Len(s_audioQueue \o SubSeq(names, 1, n)) = Len(s_audioQueue) + n
  BY <1>4, <1>6
<1> QED BY <1>4, <1>5, <1>7 DEF Enqueued, n, names

LEMMA PlayNextTyped ==
  ASSUME PlayType, NEW q, q \in Seq(Files), Len(q) < QueueMax, PlayNext(q)
  PROVE  QueueType' /\ PlayType'
<1>1. CASE s_isPlaying \/ q = <<>>
  <2>1. /\ s_audioQueue' = q
        /\ UNCHANGED <<playVars, s_bufferEvent, avail, quiet, bufVars, hwVars>>
    BY <1>1 DEF PlayNext
  <2> QED BY <2>1, PlayTypeKept DEF QueueType
<1>2. CASE ~(s_isPlaying \/ q = <<>>)
  <2>1. s_audioQueue' = Tail(q) /\ StartWav(Head(q))
    BY <1>2 DEF PlayNext, Dequeued
  <2>2. Head(q) \in Files /\ Tail(q) \in Seq(Files) /\ Len(Tail(q)) = Len(q) - 1
    BY <1>2
  <2>3. Len(Tail(q)) < QueueMax
    BY <2>2, PlayerAssumption
  <2> QED BY <2>1, <2>2, <2>3, StartWavTyped DEF QueueType
<1> QED BY <1>1, <1>2

LEMMA ServeEventTyped ==
  ASSUME TypeInv, NEW h \in Halves, ServeEvent(h)
  PROVE  TypeInv'
<1> DEFINE left == IF s_audioSource = "WAV" THEN wavLeft ELSE avail
           old == [half |-> half, fresh |-> fresh, chunks |-> chunks, left |-> left,
                   eof |-> s_wavEof]
           st == Fill(old, h, s_audioSource)
<1>1. /\ s_bufferEvent' = seen \ {h} /\ Filled(st) /\ s_wavEof' = st.eof
      /\ wavLeft' = IF s_audioSource = "WAV" THEN st.left ELSE wavLeft
      /\ avail' = IF s_audioSource = "WAV" THEN avail ELSE st.left
      /\ s_stopPending' = (s_stopPending \/ (s_audioSource = "WAV" /\ st.eof))
      /\ pc' = After(h) /\ seen' = {}
      /\ UNCHANGED <<s_audioQueue, s_audioSource, s_isPlaying, fileOpen, quiet, hwVars, inVars>>
  BY DEF ServeEvent
<1>2. old \in FillState /\ Numbered(old) /\ old.left = left /\ old.chunks = chunks
  BY DEF TypeInv, PlayType, FillState, Numbered
<1> HIDE DEF old
<1>3a. /\ st \in FillState /\ st.left <= old.left
       /\ Silenced(old, h, st) \/ ChunkRead(old, h, st)
  BY <1>2, Filling
<1>3b. Numbered(st)
  BY <1>2, FillNumbered
<1> HIDE DEF st
<1>3. /\ st \in FillState /\ st.left <= left /\ Numbered(st)
      /\ st.chunks = chunks \/ st.chunks = chunks + 1
  BY <1>2, <1>3a, <1>3b DEF Silenced, ChunkRead
<1>4. /\ half' \in [Halves -> Nat] /\ fresh' \subseteq Halves /\ chunks' \in Nat
      /\ \A k \in Halves : half'[k] <= chunks'
      /\ s_wavEof' \in BOOLEAN
  BY <1>1, <1>3 DEF Filled, FillState, Numbered
<1>5. heard' \in 0 .. chunks' /\ UNCHANGED <<dmaOn, playing, late, i2sError>>
  BY <1>1, <1>3 DEF Filled, hwVars, TypeInv, PlayType
<1>6. wavLeft' \in Nat /\ avail' \in 0 .. RingLen
  BY <1>1, <1>3, PlayerAssumption DEF FillState, TypeInv, PlayType
<1>7. s_stopPending' \in BOOLEAN
  BY <1>1
<1>8. PlayType'
  BY <1>1, <1>4, <1>5, <1>6, <1>7 DEF PlayType, TypeInv, ControlType
<1>9. ControlType'
  BY <1>1 DEF ControlType, TypeInv, After, inVars
<1> QED BY <1>1, <1>8, <1>9 DEF TypeInv, QueueType

LEMMA ProcessTyped ==
  ASSUME TypeInv, Process
  PROVE  TypeInv'
<1> USE DEF TypeInv
<1>1. CASE ProcessRx
  <2>1. /\ UNCHANGED <<s_audioQueue, playVars, s_bufferEvent, bufVars, hwVars, seen, inVars>>
        /\ quiet' = 0 \/ quiet' = quiet
        /\ pc' = "test0" \/ pc' = "start"
        /\ (avail < RingLen /\ avail' = avail + 1) \/ UNCHANGED avail
    BY <1>1 DEF ProcessRx
  <2>2. avail' \in 0 .. RingLen /\ quiet' \in 0 .. TimeoutHalves
    BY <2>1, PlayerAssumption DEF PlayType, ControlType
  <2>3. QueueType' /\ ControlType'
    BY <2>1, <2>2 DEF QueueType, ControlType, inVars
  <2>4. PlayType'
    BY <2>1, <2>2 DEF PlayType, playVars, bufVars, hwVars
  <2> QED BY <2>3, <2>4
<1>2. ASSUME NEW h \in Halves, TestEvent(h) PROVE TypeInv'
  <2>1. /\ UNCHANGED <<s_audioQueue, playVars, s_bufferEvent, avail, quiet, bufVars, hwVars, inVars>>
        /\ seen' = s_bufferEvent \/ seen' = {}
        /\ pc' = Clear(h) \/ pc' = After(h)
    BY <1>2 DEF TestEvent
  <2>2. PlayType'
    BY <2>1, PlayTypeKept
  <2> QED BY <2>1, <2>2 DEF QueueType, ControlType, PlayType, inVars, Clear, After
<1>3. ASSUME NEW h \in Halves, ServeEvent(h) PROVE TypeInv'
  BY <1>3, ServeEventTyped
<1>4. CASE ProcessStop
  <2>1. /\ Stop \/ UNCHANGED <<playVars, s_bufferEvent, quiet, bufVars, hwVars>>
        /\ pc' = "start" /\ UNCHANGED <<s_audioQueue, avail, seen, inVars>>
    BY <1>4 DEF ProcessStop
  <2>2. ASSUME Stop PROVE PlayType'
    <3>1. /\ s_isPlaying' = FALSE /\ s_wavEof' = FALSE /\ s_stopPending' = FALSE
          /\ s_bufferEvent' = {} /\ s_audioSource' = "NONE" /\ quiet' = TimeoutHalves
          /\ dmaOn' = FALSE /\ wavLeft' = 0 /\ fresh' = {} /\ late' = FALSE /\ i2sError' = FALSE
          /\ fileOpen' \in BOOLEAN /\ playing' \in Halves
      BY <2>2 DEF Stop, OpenAfterStop, PlayType, Halves
    <3>2. half' \in [Halves -> Nat] /\ \A h \in Halves : half'[h] = 0
      BY <2>2 DEF Stop
    <3>3. /\ chunks' \in Nat /\ heard' \in 0 .. chunks' /\ quiet' \in 0 .. TimeoutHalves
          /\ \A h \in Halves : half'[h] <= chunks'
      BY <2>2, PlayerAssumption DEF Stop
    <3> QED BY <2>1, <3>1, <3>2, <3>3 DEF PlayType
  <2>3. ASSUME UNCHANGED <<playVars, s_bufferEvent, quiet, bufVars, hwVars>> PROVE PlayType'
    BY <2>1, <2>3, PlayTypeKept
  <2>4. PlayType'
    BY <2>1, <2>2, <2>3
  <2> QED BY <2>1, <2>4 DEF QueueType, ControlType, inVars
<1>5. CASE ProcessStart
  <2>1. pc' = "idle" /\ UNCHANGED <<seen, inVars>>
    BY <1>5 DEF ProcessStart
  <2>2. ControlType'
    BY <2>1 DEF ControlType, inVars
  <2>3. CASE UNCHANGED <<s_audioQueue, playVars, s_bufferEvent, avail, quiet, bufVars, hwVars>>
    BY <2>2, <2>3, PlayTypeKept DEF QueueType
  <2>4. CASE PlayNext(s_audioQueue)
    BY <2>2, <2>4, PlayNextTyped DEF QueueType
  <2>5. CASE StartStream /\ UNCHANGED s_audioQueue
    BY <2>2, <2>5, StartStreamTyped DEF QueueType
  <2> QED BY <1>5, <2>3, <2>4, <2>5 DEF ProcessStart
<1> QED BY <1>1, <1>2, <1>3, <1>4, <1>5 DEF Process

LEMMA TypeStep == TypeInv /\ [Next]_vars => TypeInv'
<1> SUFFICES ASSUME TypeInv, [Next]_vars PROVE TypeInv'
  OBVIOUS
<1> USE DEF TypeInv
<1>1. ASSUME NEW congestion \in [1 .. Zones -> 0 .. 2], Audio_Guide(congestion) PROVE TypeInv'
  <2> DEFINE q == Enqueued(GuideNames(congestion))
  <2>1. guides < MaxGuides /\ guides' = guides + 1 /\ PlayNext(q)
        /\ UNCHANGED <<pc, seen, missed>>
    BY <1>1 DEF Audio_Guide
  <2>2. q \in Seq(Files) /\ Len(q) < QueueMax
    BY EnqueuedTyped
  <2> HIDE DEF q
  <2>3. QueueType' /\ PlayType'
    BY <2>1, <2>2, PlayNextTyped
  <2>4. ControlType'
    BY <2>1, PlayerAssumption DEF ControlType
  <2> QED BY <2>3, <2>4
<1>2. ASSUME NEW name \in Files, PlayWav(name) PROVE TypeInv'
  BY <1>2, StartWavTyped DEF PlayWav, QueueType, ControlType, inVars
<1>3. CASE HalfDone
  <2>1. /\ s_bufferEvent' = s_bufferEvent \cup {playing}
        /\ heard' = IF playing \in fresh THEN half[playing] ELSE heard
        /\ fresh' = fresh \ {playing} /\ playing' = 1 - playing
        /\ quiet' = Least(quiet + 1, TimeoutHalves)
        /\ late' = TRUE \/ late' = late
        /\ missed' = missed \/ (missed < MaxMissed /\ missed' = missed + 1)
        /\ UNCHANGED <<s_audioQueue, playVars, avail, half, chunks, dmaOn, i2sError, pc, seen,
                       guides>>
    BY <1>3 DEF HalfDone
  <2>2. playing' \in Halves
    BY <2>1 DEF PlayType, Halves
  <2>3. heard' \in 0 .. chunks'
    BY <2>1 DEF PlayType
  <2>4. quiet' \in 0 .. TimeoutHalves /\ missed' \in 0 .. MaxMissed
    BY <2>1, PlayerAssumption DEF PlayType, ControlType, Least
  <2>5. PlayType'
    BY <2>1, <2>2, <2>3, <2>4 DEF PlayType, playVars
  <2> QED BY <2>1, <2>4, <2>5 DEF QueueType, ControlType
<1>4. CASE UNCHANGED vars
  <2>1. PlayType'
    BY <1>4, PlayTypeKept DEF vars
  <2> QED BY <1>4, <2>1 DEF vars, QueueType, ControlType, inVars
<1>5. CASE I2sError
  <2>1. PlayType'
    BY <1>5 DEF I2sError, PlayType, playVars, bufVars
  <2> QED BY <1>5, <2>1 DEF I2sError, QueueType, ControlType, inVars
<1>6. CASE Elapse
  <2>1. quiet' \in 0 .. TimeoutHalves
    BY <1>6, PlayerAssumption DEF Elapse, PlayType
  <2>2. PlayType'
    BY <1>6, <2>1 DEF Elapse, PlayType, playVars, bufVars, hwVars
  <2> QED BY <1>6, <2>2 DEF Elapse, QueueType, ControlType, inVars
<1> QED BY <1>1, <1>2, <1>3, <1>4, <1>5, <1>6, ProcessTyped DEF Next

(* Typing of the player for any files, sizes and failures: the ring of names    *)
(* never overflows its one free slot, and no chunk is played that was not read. *)
THEOREM TypeCorrect == Spec => []TypeOK
BY InitTyped, TypeStep, TypeInvIsEnough, PTL DEF Spec
-----------------------------------------------------------------------------
(* An event bit means that the half has been played since it was filled; the    *)
(* main loop fills a half whose bit it has seen, and clears no other bit that   *)
(* it has seen.  This holds although setting a bit may be lost.                 *)
KeptInv ==
  /\ \A h \in s_bufferEvent \cup seen : h \notin fresh
  /\ \A h \in Halves : pc = Clear(h) => h \in seen
  /\ (\A h \in Halves : pc # Clear(h)) => seen = {}

\* Chunks in the buffer that have not been played.
Unheard == (IF 0 \in fresh THEN 1 ELSE 0) + (IF 1 \in fresh THEN 1 ELSE 0)

(* Without a missed period only the half that is not playing waits for a fill,  *)
(* and what has been read is what has been heard and what the halves hold, the  *)
(* playing one first.                                                           *)
OrderInv ==
  (dmaOn \/ i2sError) /\ ~late =>
    /\ s_bufferEvent \subseteq {1 - playing} /\ seen \subseteq s_bufferEvent
    /\ chunks = heard + Unheard
    /\ playing \in fresh => half[playing] = heard + 1
    /\ 1 - playing \in fresh => half[1 - playing] = chunks

(* The last fill from the broadcast comes at most two periods after the tick    *)
(* was renewed - one of the two halves may end before each test of an event -   *)
(* and two halves later it has been played.                                     *)
QuietInv ==
  s_audioSource = "STREAM" /\ ~late /\ ~i2sError =>
    /\ fresh # {} => quiet <= 3
    /\ 1 - playing \in fresh => quiet <= 2
    /\ avail > 0 /\ pc \in {"test0", "clear0"}
         => quiet <= 1 /\ (s_bufferEvent = {} => quiet = 0)
    /\ avail > 0 /\ pc \in {"test1", "clear1"}
         => quiet <= 2 /\ (s_bufferEvent = {} => quiet <= 1)

SoundInv == KeptInv /\ OrderInv /\ QuietInv

LEMMA InitSound == Init => SoundInv
BY DEF Init, SoundInv, KeptInv, OrderInv, QuietInv, Clear, Halves

\* What every start and every failure to start leaves behind.
AtStart == s_bufferEvent = {} /\ seen = {} /\ \A h \in Halves : pc # Clear(h)


(* Without a running DMA and a broadcast nothing is claimed of what was filled.  *)
LEMMA StartKeeps ==
  ASSUME AtStart', ~dmaOn', ~i2sError', s_audioSource' # "STREAM"
  PROVE  SoundInv'
BY DEF AtStart, SoundInv, KeptInv, OrderInv, QuietInv

LEMMA StartedSound ==
  ASSUME AtStart', NEW left \in Nat, NEW source \in {"WAV", "STREAM"},
         Filled(Prefill(left, source)), StartDma(source), pc' = "idle",
         source = "STREAM" => quiet' = 0
  PROVE  SoundInv'
<1> DEFINE st == Prefill(left, source)
<1>1. st \in FillState /\ Prefilled(st) /\ half' = st.half /\ fresh' = st.fresh /\ chunks' = st.chunks
  BY Prefilling DEF Filled
<1> HIDE DEF st
<1>2. s_audioSource' = source /\ playing' = 0 /\ heard' = 0 /\ late' = FALSE
  BY DEF StartDma
<1>3. KeptInv'
  BY DEF AtStart, KeptInv
<1>4. OrderInv'
  BY <1>1, <1>2 DEF AtStart, OrderInv, Prefilled, Unheard, FillState
<1>5. QuietInv'
  BY <1>2 DEF QuietInv
<1> QED BY <1>3, <1>4, <1>5 DEF SoundInv

LEMMA StartWavSound ==
  ASSUME IInv, NEW name \in Files, ~s_isPlaying, StartWav(name),
         seen = {}, seen' = {}, pc' = "idle"
  PROVE  SoundInv'
<1>1. AtStart'
  BY DEF StartWav, AtStart, Clear
<1>2. ~dmaOn /\ ~i2sError
  BY Zenon DEF IInv, OwnsOutput
<1>3. CASE UNCHANGED <<dmaOn, i2sError>> /\ s_audioSource' = "NONE"
  BY <1>1, <1>2, <1>3, StartKeeps
<1>4. ASSUME NEW readable \in -1 .. FileLen[name], readable # -1,
             Filled(Prefill(readable, "WAV")), StartDma("WAV")
      PROVE  SoundInv'
  <2>1. readable \in Nat
    BY <1>4, PlayerAssumption
  <2> QED BY <1>1, <1>4, <2>1, StartedSound
<1> QED BY <1>3, <1>4 DEF StartWav, DmaFails, hwVars

LEMMA PlayNextSound ==
  ASSUME IInv, SoundInv, NEW q, q \in Seq(Files), PlayNext(q),
         pc = "idle" \/ (~s_isPlaying /\ pc = "start"), seen' = seen, pc' = "idle"
  PROVE  SoundInv'
<1>1. seen = {}
  BY DEF SoundInv, KeptInv, Clear
<1>2. CASE s_isPlaying \/ q = <<>>
  <2>1. UNCHANGED <<playVars, s_bufferEvent, avail, quiet, bufVars, hwVars>>
    BY <1>2 DEF PlayNext
  <2>2. KeptInv'
    BY <1>1, <2>1 DEF SoundInv, KeptInv, Clear, bufVars
  <2>3. OrderInv'
    BY <1>1, <2>1 DEF SoundInv, OrderInv, Unheard, bufVars, hwVars
  <2>4. QuietInv'
    BY <2>1 DEF SoundInv, QuietInv, bufVars, hwVars, playVars
  <2> QED BY <2>2, <2>3, <2>4 DEF SoundInv
<1>3. CASE ~(s_isPlaying \/ q = <<>>)
  BY <1>1, <1>3, StartWavSound DEF PlayNext
<1> QED BY <1>2, <1>3

LEMMA HalfDoneSound ==
  ASSUME TypeInv, IInv, SoundInv, HalfDone
  PROVE  SoundInv'
<1>1. /\ dmaOn /\ s_bufferEvent' = s_bufferEvent \cup {playing}
      /\ heard' = IF playing \in fresh THEN half[playing] ELSE heard
      /\ fresh' = fresh \ {playing} /\ playing' = 1 - playing
      /\ quiet' = Least(quiet + 1, TimeoutHalves)
      /\ UNCHANGED <<avail, half, chunks, dmaOn, i2sError, pc, seen, s_audioSource>>
      /\ ~late' => ~late /\ s_bufferEvent = {}
  BY DEF HalfDone, playVars
<1>2. /\ playing \in {0, 1} /\ fresh \subseteq {0, 1} /\ quiet \in Nat /\ quiet' \in Nat
      /\ quiet' <= quiet + 1 /\ half \in [Halves -> Nat] /\ chunks \in Nat /\ heard \in Nat
      /\ seen \subseteq {0, 1} /\ s_bufferEvent \subseteq {0, 1}
  BY <1>1, PlayerAssumption DEF TypeInv, PlayType, ControlType, Halves, Least
<1>3. KeptInv'
  <2>1. /\ \A h \in s_bufferEvent \cup seen : h \notin fresh
        /\ \A h \in Halves : pc = Clear(h) => h \in seen
        /\ (\A h \in Halves : pc # Clear(h)) => seen = {}
    BY DEF SoundInv, KeptInv
  <2>2. \A h \in s_bufferEvent' \cup seen' : h \notin fresh'
    BY <1>1, <2>1
  <2> QED BY <1>1, <2>1, <2>2 DEF KeptInv
<1>4. OrderInv'
  <2> SUFFICES ASSUME ~late'
               PROVE  /\ s_bufferEvent' \subseteq {1 - playing'} /\ seen' \subseteq s_bufferEvent'
                      /\ chunks' = heard' + Unheard'
                      /\ playing' \in fresh' => half'[playing'] = heard' + 1
                      /\ 1 - playing' \in fresh' => half'[1 - playing'] = chunks'
    BY DEF OrderInv
  <2>1. /\ seen = {} /\ s_bufferEvent = {}
        /\ chunks = heard + Unheard
        /\ playing \in fresh => half[playing] = heard + 1
        /\ 1 - playing \in fresh => half[1 - playing] = chunks
    BY <1>1 DEF SoundInv, OrderInv
  <2>2. s_bufferEvent' \subseteq {1 - playing'} /\ seen' \subseteq s_bufferEvent'
    BY <1>1, <1>2, <2>1
  <2>3. CASE playing = 0
    BY <1>1, <1>2, <2>1, <2>2, <2>3 DEF Unheard, Halves
  <2>4. CASE playing = 1
    BY <1>1, <1>2, <2>1, <2>2, <2>4 DEF Unheard, Halves
  <2> QED BY <1>2, <2>3, <2>4
<1>5. QuietInv'
  <2> SUFFICES ASSUME s_audioSource = "STREAM", ~late', ~i2sError
               PROVE  QuietInv'
    BY <1>1 DEF QuietInv
  <2>1. /\ s_bufferEvent = {} /\ s_bufferEvent' # {}
        /\ 1 - playing \in fresh => quiet <= 2
        /\ avail > 0 /\ pc \in {"test0", "clear0"} => quiet = 0
        /\ avail > 0 /\ pc \in {"test1", "clear1"} => quiet <= 1
    BY <1>1 DEF SoundInv, QuietInv
  <2>2. ASSUME NEW h \in fresh' PROVE quiet' <= 3 /\ 1 - playing' \notin fresh'
    <3>1. h = 1 - playing /\ h \in fresh /\ 1 - playing' = playing /\ playing \notin fresh'
      BY <1>1, <1>2, <2>2
    <3> QED BY <1>2, <2>1, <3>1
  <2>3. /\ avail' > 0 /\ pc' \in {"test0", "clear0"} => quiet' <= 1
        /\ avail' > 0 /\ pc' \in {"test1", "clear1"} => quiet' <= 2
    BY <1>1, <1>2, <2>1
  <2> QED BY <2>1, <2>2, <2>3 DEF QuietInv
<1> QED BY <1>3, <1>4, <1>5 DEF SoundInv

LEMMA RxSound ==
  ASSUME TypeInv, SoundInv, ProcessRx
  PROVE  SoundInv'
<1>1. /\ pc = "idle" /\ pc' \in {"test0", "start"}
      /\ quiet' = IF avail' > 0 THEN 0 ELSE quiet
      /\ UNCHANGED <<playVars, s_bufferEvent, bufVars, hwVars, seen>>
  BY DEF ProcessRx
<1>2. KeptInv'
  BY <1>1 DEF SoundInv, KeptInv, Clear, bufVars
<1>3. OrderInv'
  BY <1>1 DEF SoundInv, OrderInv, Unheard, bufVars, hwVars
<1>4. quiet \in Nat /\ quiet' \in Nat /\ quiet' <= quiet
  BY <1>1, PlayerAssumption DEF TypeInv, PlayType
<1>5. QuietInv'
  BY <1>1, <1>4 DEF SoundInv, QuietInv, bufVars, hwVars, playVars
<1> QED BY <1>2, <1>3, <1>5 DEF SoundInv

LEMMA TestSound ==
  ASSUME TypeInv, SoundInv, NEW h \in Halves, TestEvent(h)
  PROVE  SoundInv'
<1>1. /\ pc = Test(h) /\ UNCHANGED <<playVars, s_bufferEvent, avail, quiet, bufVars, hwVars>>
      /\ \/ h \in s_bufferEvent /\ seen' = s_bufferEvent /\ pc' = Clear(h)
         \/ h \notin s_bufferEvent /\ seen' = {} /\ pc' = After(h)
  BY DEF TestEvent, Due
<1>2. h \in {0, 1} /\ s_bufferEvent \subseteq {0, 1} /\ quiet \in Nat
  BY PlayerAssumption DEF Halves, TypeInv, PlayType
<1>3. KeptInv'
  BY <1>1, <1>2 DEF SoundInv, KeptInv, Clear, After, Halves, bufVars
<1>4. OrderInv'
  BY <1>1 DEF SoundInv, OrderInv, Unheard, bufVars, hwVars
<1>5. QuietInv'
  <2>1. UNCHANGED <<s_audioSource, s_bufferEvent, avail, quiet, fresh, late, i2sError, playing>>
    BY <1>1 DEF playVars, bufVars, hwVars
  <2>2. CASE h = 0
    BY <1>1, <1>2, <2>1, <2>2 DEF SoundInv, QuietInv, Test, Clear, After
  <2>3. CASE h = 1
    BY <1>1, <1>2, <2>1, <2>3 DEF SoundInv, QuietInv, Test, Clear, After
  <2> QED BY <1>2, <2>2, <2>3
<1> QED BY <1>3, <1>4, <1>5 DEF SoundInv

LEMMA ServeSound ==
  ASSUME TypeInv, SoundInv, NEW h \in Halves, ServeEvent(h)
  PROVE  SoundInv'
<1> DEFINE left == IF s_audioSource = "WAV" THEN wavLeft ELSE avail
           old == [half |-> half, fresh |-> fresh, chunks |-> chunks, left |-> left,
                   eof |-> s_wavEof]
           st == Fill(old, h, s_audioSource)
<1>1. /\ pc = Clear(h) /\ pc' = After(h) /\ s_bufferEvent' = seen \ {h} /\ seen' = {}
      /\ Filled(st) /\ avail' = IF s_audioSource = "WAV" THEN avail ELSE st.left
      /\ UNCHANGED <<s_audioSource, quiet, hwVars>>
  BY DEF ServeEvent
<1>2. /\ old \in FillState /\ old.half = half /\ old.fresh = fresh /\ old.chunks = chunks
      /\ old.left = left
  BY DEF TypeInv, PlayType, FillState
<1> HIDE DEF old
<1>3. st.left <= old.left /\ (Silenced(old, h, st) \/ ChunkRead(old, h, st))
  BY <1>2, Filling
<1> HIDE DEF st
<1>4. /\ h \in {0, 1} /\ seen \subseteq {0, 1} /\ s_bufferEvent \subseteq {0, 1}
      /\ fresh \subseteq {0, 1} /\ playing \in {0, 1} /\ half \in [{0, 1} -> Nat]
      /\ chunks \in Nat /\ heard \in Nat /\ quiet \in Nat /\ avail \in Nat /\ wavLeft \in Nat
  BY PlayerAssumption DEF TypeInv, PlayType, ControlType, Halves
<1>5. h \in seen /\ h \notin fresh
  BY <1>1 DEF SoundInv, KeptInv
<1>6. \/ UNCHANGED <<fresh, chunks>> /\ half' = [half EXCEPT ![h] = 0]
      \/ /\ left > 0 /\ fresh' = fresh \cup {h} /\ chunks' = chunks + 1
         /\ half' = [half EXCEPT ![h] = chunks + 1]
  BY <1>1, <1>2, <1>3, <1>5 DEF Filled, Silenced, ChunkRead
<1>7. KeptInv'
  <2>1. \A k \in seen : k \notin fresh
    BY DEF SoundInv, KeptInv
  <2>2. \A k \in Halves : After(h) # Clear(k)
    BY <1>4 DEF After, Clear
  <2> QED BY <1>1, <1>6, <2>1, <2>2 DEF KeptInv
<1>8. OrderInv'
  <2> SUFFICES ASSUME dmaOn \/ i2sError, ~late
               PROVE  /\ s_bufferEvent' \subseteq {1 - playing} /\ seen' \subseteq s_bufferEvent'
                      /\ chunks' = heard + Unheard'
                      /\ playing \in fresh' => half'[playing] = heard + 1
                      /\ 1 - playing \in fresh' => half'[1 - playing] = chunks'
    BY <1>1 DEF OrderInv, hwVars
  <2>1. /\ seen \subseteq {1 - playing} /\ h = 1 - playing
        /\ chunks = heard + Unheard
        /\ playing \in fresh => half[playing] = heard + 1
    BY <1>5 DEF SoundInv, OrderInv
  <2>2. s_bufferEvent' = {}
    BY <1>1, <2>1
  <2>3. chunks' = heard + Unheard'
    BY <1>4, <1>5, <1>6, <2>1 DEF Unheard
  <2>4. playing # h /\ playing \in DOMAIN half /\ h \in DOMAIN half
    BY <1>4, <2>1
  <2>5. /\ playing \in fresh' => half'[playing] = heard + 1
        /\ 1 - playing \in fresh' => half'[1 - playing] = chunks'
    BY <1>5, <1>6, <2>1, <2>4
  <2> QED BY <1>1, <2>2, <2>3, <2>5
<1>9. QuietInv'
  <2> SUFFICES ASSUME s_audioSource = "STREAM", ~late, ~i2sError
               PROVE  QuietInv'
    BY <1>1 DEF QuietInv, hwVars
  <2>1. UNCHANGED <<quiet, playing, late, i2sError, s_audioSource>> /\ left = avail /\ avail' <= avail
    BY <1>1, <1>2, <1>3 DEF hwVars
  <2>2. /\ fresh # {} => quiet <= 3
        /\ 1 - playing \in fresh => quiet <= 2
        /\ avail > 0 /\ pc = "clear0" => quiet <= 1
        /\ avail > 0 /\ pc = "clear1" => quiet <= 2
    BY DEF SoundInv, QuietInv
  <2>4. avail > 0 => quiet <= 2
    BY <1>1, <1>4, <2>2 DEF Clear
  <2>5. /\ fresh' # {} => quiet' <= 3
        /\ 1 - playing' \in fresh' => quiet' <= 2
    <3>1. CASE UNCHANGED fresh
      BY <2>1, <2>2, <3>1
    <3>2. CASE left > 0
      BY <1>4, <2>1, <2>4, <3>2
    <3> QED BY <1>6, <3>1, <3>2
  <2>6. avail' > 0 => avail > 0
    <3>1. avail' \in Int
      BY <1>1, <1>2, Filling DEF FillState, st
    <3> QED BY <1>4, <2>1, <3>1
  <2>7. \/ pc = "clear0" /\ pc' = "test1"
        \/ pc = "clear1" /\ pc' = "stop"
    BY <1>1, <1>4 DEF Clear, After
  <2>8. avail' > 0 /\ pc' \in {"test0", "clear0", "test1", "clear1"} => pc' = "test1" /\ quiet' <= 1
    BY <2>1, <2>2, <2>6, <2>7
  <2> QED BY <1>4, <2>1, <2>5, <2>8 DEF QuietInv
<1> QED BY <1>7, <1>8, <1>9 DEF SoundInv

LEMMA StopSound ==
  ASSUME SoundInv, ProcessStop
  PROVE  SoundInv'
<1>1. pc = "stop" /\ pc' = "start" /\ UNCHANGED <<avail, seen>>
  BY DEF ProcessStop
<1>2. seen = {} /\ \A h \in Halves : pc' # Clear(h)
  BY <1>1 DEF SoundInv, KeptInv, Clear
<1>3. CASE Stop
  <2>1. s_bufferEvent' = {} /\ dmaOn' = FALSE /\ i2sError' = FALSE /\ s_audioSource' = "NONE"
    BY <1>3 DEF Stop
  <2> QED BY <1>1, <1>2, <2>1, StartKeeps DEF AtStart
<1>4. CASE UNCHANGED <<playVars, s_bufferEvent, quiet, bufVars, hwVars>>
  <2>1. KeptInv'
    BY <1>1, <1>2, <1>4 DEF SoundInv, KeptInv, bufVars
  <2>2. OrderInv'
    BY <1>1, <1>4 DEF SoundInv, OrderInv, Unheard, bufVars, hwVars
  <2>3. QuietInv'
    BY <1>1, <1>4 DEF SoundInv, QuietInv, bufVars, hwVars, playVars
  <2> QED BY <2>1, <2>2, <2>3 DEF SoundInv
<1> QED BY <1>3, <1>4 DEF ProcessStop

LEMMA StartStreamSound ==
  ASSUME TypeInv, IInv, SoundInv, ~s_isPlaying, StartStream, pc = "start", pc' = "idle",
         UNCHANGED seen
  PROVE  SoundInv'
<1>1. /\ seen = {} /\ seen' = {} /\ \A h \in Halves : pc' # Clear(h)
      /\ ~dmaOn /\ ~i2sError /\ s_audioSource = "NONE"
  <2>1. ~dmaOn /\ ~i2sError
    BY Zenon DEF IInv, OwnsOutput
  <2>2. s_audioSource = "NONE"
    BY Zenon DEF IInv, OwnsOutput
  <2> QED BY <2>1, <2>2 DEF SoundInv, KeptInv, Clear
<1>2. CASE avail < Prebuffer
  <2>1. UNCHANGED <<playVars, s_bufferEvent, avail, quiet, bufVars, hwVars>>
    BY <1>2 DEF StartStream
  <2>2. KeptInv'
    BY <1>1, <2>1 DEF SoundInv, KeptInv, bufVars
  <2>3. OrderInv' /\ QuietInv'
    BY <1>1, <2>1 DEF OrderInv, QuietInv, hwVars, playVars
  <2> QED BY <2>2, <2>3 DEF SoundInv
<1>3. CASE ~(avail < Prebuffer)
  <2>1. /\ Filled(Prefill(avail, "STREAM")) /\ s_bufferEvent' = {} /\ quiet' = 0
        /\ StartDma("STREAM") \/ DmaFails
    BY <1>3 DEF StartStream
  <2>2. AtStart'
    BY <1>1, <2>1 DEF AtStart
  <2>3. avail \in Nat
    BY PlayerAssumption DEF TypeInv, PlayType
  <2>4. CASE StartDma("STREAM")
    BY <2>1, <2>2, <2>3, <2>4, StartedSound
  <2>5. CASE DmaFails
    <3>1. UNCHANGED <<dmaOn, i2sError>> /\ s_audioSource' = "NONE"
      BY <2>5 DEF DmaFails
    <3> QED BY <1>1, <2>2, <3>1, StartKeeps
  <2> QED BY <2>1, <2>4, <2>5
<1> QED BY <1>2, <1>3

LEMMA SoundStep == TypeInv /\ IInv /\ SoundInv /\ [Next]_vars => SoundInv'
<1> SUFFICES ASSUME TypeInv, IInv, SoundInv, [Next]_vars PROVE SoundInv'
  OBVIOUS
<1>1. ASSUME NEW congestion \in [1 .. Zones -> 0 .. 2], Audio_Guide(congestion) PROVE SoundInv'
  <2>1. Enqueued(GuideNames(congestion)) \in Seq(Files)
    BY EnqueuedTyped DEF TypeInv
  <2>2. PlayNext(Enqueued(GuideNames(congestion)))
    BY <1>1 DEF Audio_Guide
  <2>3. PICK q \in Seq(Files) : PlayNext(q)
    BY <2>1, <2>2
  <2>4. pc = "idle" /\ pc' = "idle" /\ seen' = seen
    BY <1>1 DEF Audio_Guide
  <2> QED BY <2>3, <2>4, PlayNextSound
<1>2. ASSUME NEW name \in Files, PlayWav(name) PROVE SoundInv'
  <2>1. StartWav(name) /\ ~s_isPlaying /\ pc = "idle" /\ UNCHANGED <<pc, seen>>
    BY <1>2 DEF PlayWav
  <2>2. seen = {}
    BY <2>1 DEF SoundInv, KeptInv, Clear
  <2> QED BY <2>1, <2>2, StartWavSound
<1>3. CASE ProcessRx
  BY <1>3, RxSound
<1>4. ASSUME NEW h \in Halves, TestEvent(h) \/ ServeEvent(h) PROVE SoundInv'
  BY <1>4, TestSound, ServeSound
<1>5. CASE ProcessStop
  BY <1>5, StopSound
<1>6. CASE ProcessStart
  <2>1. pc = "start" /\ pc' = "idle" /\ UNCHANGED seen
    BY <1>6 DEF ProcessStart
  <2>2. CASE UNCHANGED <<playVars, s_bufferEvent, avail, quiet, bufVars, hwVars>>
    <3>1. KeptInv'
      BY <2>1, <2>2 DEF SoundInv, KeptInv, Clear, bufVars
    <3>2. OrderInv'
      BY <2>1, <2>2 DEF SoundInv, OrderInv, Unheard, bufVars, hwVars
    <3>3. QuietInv'
      BY <2>1, <2>2 DEF SoundInv, QuietInv, bufVars, hwVars, playVars
    <3> QED BY <3>1, <3>2, <3>3 DEF SoundInv
  <2>3. CASE ~s_isPlaying /\ PlayNext(s_audioQueue)
    BY <2>1, <2>3, PlayNextSound DEF TypeInv, QueueType
  <2>4. CASE ~s_isPlaying /\ StartStream
    BY <2>1, <2>4, StartStreamSound
  <2> QED BY <1>6, <2>2, <2>3, <2>4 DEF ProcessStart
<1>7. CASE HalfDone
  BY <1>7, HalfDoneSound
<1>8. CASE UNCHANGED vars
  <2>1. KeptInv'
    BY <1>8 DEF vars, SoundInv, KeptInv, bufVars
  <2>2. OrderInv'
    BY <1>8 DEF vars, SoundInv, OrderInv, Unheard, bufVars, hwVars
  <2>3. QuietInv'
    BY <1>8 DEF vars, SoundInv, QuietInv, bufVars, hwVars, playVars
  <2> QED BY <2>1, <2>2, <2>3 DEF SoundInv
<1>9. CASE I2sError
  <2>1. UNCHANGED <<pc, seen, s_bufferEvent, bufVars, playing, heard, late>> /\ dmaOn /\ i2sError'
    BY <1>9 DEF I2sError
  <2>2. KeptInv'
    BY <2>1 DEF SoundInv, KeptInv, bufVars
  <2>3. OrderInv' /\ QuietInv'
    BY <2>1 DEF SoundInv, OrderInv, QuietInv, Unheard, bufVars
  <2> QED BY <2>2, <2>3 DEF SoundInv
<1>10. CASE Elapse
  <2>1. UNCHANGED <<pc, seen, s_bufferEvent, bufVars, hwVars>> /\ i2sError
    BY <1>10 DEF Elapse
  <2>2. KeptInv'
    BY <2>1 DEF SoundInv, KeptInv, bufVars
  <2>3. OrderInv' /\ QuietInv'
    BY <2>1 DEF SoundInv, OrderInv, QuietInv, Unheard, bufVars, hwVars
  <2> QED BY <2>2, <2>3 DEF SoundInv
<1> QED BY <1>1, <1>2, <1>3, <1>4, <1>5, <1>6, <1>7, <1>8, <1>9, <1>10 DEF Next, Process

LEMMA SoundHolds == Spec => [](TypeInv /\ IInv /\ SoundInv)
BY InitTyped, TypeStep, InitHolds, StepHolds, InitSound, SoundStep, PTL DEF Spec

-----------------------------------------------------------------------------
(* Who changes the source, the halves and what has been heard: the interrupt,   *)
(* a fill, a start while nothing plays, and the end of playback.                *)
LEMMA StepKinds ==
  ASSUME IInv, [Next]_vars
  PROVE  \/ HalfDone
         \/ \E h \in Halves : ServeEvent(h)
         \/ ~s_isPlaying /\ s_audioSource = "NONE" /\ heard' \in {heard, 0}
         \/ (WavOver \/ StreamOver) /\ Stop
         \/ UNCHANGED <<s_audioSource, s_isPlaying, half, heard>>
<1> DEFINE starts == ~s_isPlaying /\ heard' \in {heard, 0}
<1>1. ~s_isPlaying => s_audioSource = "NONE"
  BY Zenon DEF IInv, OwnsOutput
<1>2. ASSUME NEW name, StartWav(name) PROVE heard' \in {heard, 0}
  BY <1>2 DEF StartWav, StartDma, DmaFails, hwVars
<1>3. ASSUME NEW q, PlayNext(q)
      PROVE  starts \/ UNCHANGED <<s_audioSource, s_isPlaying, half, heard>>
  BY <1>2, <1>3 DEF PlayNext, playVars, bufVars, hwVars
<1>4. StartStream => heard' \in {heard, 0}
  BY DEF StartStream, StartDma, DmaFails, hwVars
<1>5. ASSUME NEW congestion \in [1 .. Zones -> 0 .. 2], Audio_Guide(congestion)
      PROVE  starts \/ UNCHANGED <<s_audioSource, s_isPlaying, half, heard>>
  BY <1>3, <1>5 DEF Audio_Guide
<1>6. ASSUME NEW name \in Files, PlayWav(name) PROVE starts
  BY <1>2, <1>6 DEF PlayWav
<1>7. ProcessStart => starts \/ UNCHANGED <<s_audioSource, s_isPlaying, half, heard>>
  BY <1>3, <1>4 DEF ProcessStart, playVars, bufVars, hwVars
<1>8. ASSUME ProcessRx \/ (\E h \in Halves : TestEvent(h)) \/ I2sError \/ Elapse \/ UNCHANGED vars
      PROVE  UNCHANGED <<s_audioSource, s_isPlaying, half, heard>>
  BY <1>8 DEF ProcessRx, TestEvent, I2sError, Elapse, vars, playVars, bufVars, hwVars
<1>9. ProcessStop => \/ (WavOver \/ StreamOver) /\ Stop
                     \/ UNCHANGED <<s_audioSource, s_isPlaying, half, heard>>
  BY DEF ProcessStop, playVars, bufVars, hwVars
<1> QED BY <1>1, <1>5, <1>6, <1>7, <1>8, <1>9 DEF Next, Process

(* The interrupts and Audio_Process, as long as no period is missed, play the   *)
(* chunks in the order in which they were read, each once: for any lengths of   *)
(* files, sizes and failures, and a broadcast without end.                      *)
THEOREM PlayedInOrder == Spec => InOrder
<1>1. TypeInv /\ IInv /\ SoundInv /\ [Next]_vars
        => [(~late' /\ heard' \notin {heard, 0}) => heard' = heard + 1]_vars
  <2> SUFFICES ASSUME TypeInv, IInv, SoundInv, [Next]_vars, ~late', heard' \notin {heard, 0}
               PROVE  heard' = heard + 1
    OBVIOUS
  <2>1. CASE HalfDone
    <3>1. dmaOn /\ ~late /\ playing \in fresh /\ heard' = half[playing]
      BY <2>1 DEF HalfDone
    <3> QED BY <3>1 DEF SoundInv, OrderInv
  <2>2. ASSUME NEW h \in Halves, ServeEvent(h) PROVE heard' = heard
    BY <2>2 DEF ServeEvent, hwVars
  <2>3. Stop => heard' = 0
    BY DEF Stop
  <2> QED BY <2>1, <2>2, <2>3, StepKinds
<1> QED BY <1>1, SoundHolds, PTL DEF Spec, InOrder

(* A half is filled again only when the interrupt has announced that it has     *)
(* been played, also when announcements come late or are lost; and when         *)
(* Audio_Process stops a WAV at most the two halves are unheard.                *)
THEOREM TailBounded == Spec => WavTailBound
<1>1. TypeInv /\ IInv /\ SoundInv /\ [Next]_vars
        => [/\ s_isPlaying /\ s_isPlaying' => \A h \in fresh : half'[h] = half[h]
            /\ s_audioSource = "WAV" /\ s_audioSource' = "NONE" /\ ~late
                 => chunks - heard <= 2]_vars
  <2> SUFFICES ASSUME TypeInv, IInv, SoundInv, [Next]_vars
               PROVE  /\ s_isPlaying /\ s_isPlaying' => \A h \in fresh : half'[h] = half[h]
                      /\ s_audioSource = "WAV" /\ s_audioSource' = "NONE" /\ ~late
                           => chunks - heard <= 2
    OBVIOUS
  <2>1. ASSUME s_isPlaying, s_isPlaying', NEW h \in fresh PROVE half'[h] = half[h]
    <3>1. CASE HalfDone
      BY <3>1 DEF HalfDone
    <3>2. ASSUME NEW k \in Halves, ServeEvent(k) PROVE half'[h] = half[h]
      <4> DEFINE left == IF s_audioSource = "WAV" THEN wavLeft ELSE avail
                 old == [half |-> half, fresh |-> fresh, chunks |-> chunks, left |-> left,
                         eof |-> s_wavEof]
                 st == Fill(old, k, s_audioSource)
      <4>1. old \in FillState /\ old.half = half
        BY DEF TypeInv, PlayType, FillState
      <4>2. Filled(st) /\ pc = Clear(k)
        BY <3>2 DEF ServeEvent
      <4> HIDE DEF old
      <4>3. Silenced(old, k, st) \/ ChunkRead(old, k, st)
        BY <4>1, Filling
      <4>4. k # h /\ h \in Halves
        BY <4>2 DEF SoundInv, KeptInv, TypeInv, PlayType
      <4> HIDE DEF st
      <4>5. \E n : half' = [half EXCEPT ![k] = n]
        BY <4>1, <4>2, <4>3 DEF Filled, Silenced, ChunkRead
      <4> QED BY <4>4, <4>5 DEF TypeInv, PlayType
    <3>3. Stop => ~s_isPlaying'
      BY DEF Stop
    <3> QED BY <2>1, <3>1, <3>2, <3>3, StepKinds
  <2>2. ASSUME s_audioSource = "WAV", ~late PROVE chunks - heard <= 2
    <3>1. dmaOn \/ i2sError
      BY <2>2, Zenon DEF IInv, OwnsOutput
    <3>2. chunks = heard + Unheard /\ heard \in Nat
      BY <2>2, <3>1 DEF SoundInv, OrderInv, TypeInv, PlayType
    <3> QED BY <3>2 DEF Unheard
  <2> QED BY <2>1, <2>2
<1> QED BY <1>1, SoundHolds, PTL DEF Spec, WavTailBound

(* When AUDIO_STREAM_TIMEOUT_MS has passed without data, the two halves that    *)
(* were still to be played have been played: the broadcast is never cut, as     *)
(* long as the time-out is longer than four halves.                             *)
THEOREM BroadcastPlayedOut == Spec => StreamPlayedOut
<1>1. TypeInv /\ IInv /\ SoundInv /\ [Next]_vars
        => [s_audioSource = "STREAM" /\ s_audioSource' = "NONE" /\ ~late /\ ~i2sError
              => fresh = {}]_vars
  <2> SUFFICES ASSUME TypeInv, IInv, SoundInv, [Next]_vars,
                      s_audioSource = "STREAM", s_audioSource' = "NONE", ~late, ~i2sError
               PROVE  fresh = {}
    OBVIOUS
  <2>1. WavOver \/ StreamOver
    BY StepKinds DEF HalfDone, ServeEvent, playVars
  <2>2. quiet >= TimeoutHalves /\ quiet \in Nat
    BY <2>1, PlayerAssumption DEF WavOver, StreamOver, TypeInv, PlayType
  <2>3. fresh # {} => quiet <= 3
    BY DEF SoundInv, QuietInv
  <2> QED BY <2>2, <2>3, TimeoutAssumption, PlayerAssumption
<1> QED BY <1>1, SoundHolds, PTL DEF Spec, StreamPlayedOut
=============================================================================
