------------------------- MODULE AudioStreamRxProofs -------------------------
(***************************************************************************)
(* Proofs for every ring, block and read size, any number of bytes, errors *)
(* and failed restarts: typing, the ring invariant, whole samples,         *)
(* that an unread byte is never touched, and that the receiver implements  *)
(* PcmFifo.                                                                *)
(***************************************************************************)
EXTENDS AudioStreamRx, TLAPS, FiniteSetTheorems, SequenceTheorems

(* Typing of every variable, for every constant.  The range of s_count rests *)
(* on the clamp of PushBlock, so RingInv is part of the induction.           *)
IInv == TypeOK /\ RingInv

(* It holds after AudioStreamRx_Init and AudioStreamRx_Start. *)
LEMMA InitIInv == Init => IInv
<1> SUFFICES ASSUME Init PROVE IInv
    OBVIOUS
<1> USE RxAssumption
<1>1. RingInv
  BY DEF Init, RingInv, Wrap
<1>2. s_spiRxBuf \in [Bufs -> [0 .. BlockSize - 1 -> Nat]] /\ s_ringBuf \in [Slots -> Nat]
  BY DEF Init
<1>3. s_readyFlags \in [Bufs -> {0, 1}]
  BY DEF Init
<1>4. TypeOK
  BY <1>2, <1>3 DEF Init, TypeOK, Slots, Bufs
<1>5. QED
  BY <1>1, <1>4 DEF IInv

(* Every interrupt and every step of the main loop keeps it. *)
LEMMA NextIInv == IInv /\ [Next]_vars => IInv'
<1> SUFFICES ASSUME IInv, [Next]_vars PROVE IInv'
    OBVIOUS
<1> USE RxAssumption DEF IInv
<1>1. CASE SpiByte \/ RxCplt \/ SpiError
  <2>1. UNCHANGED <<s_ringBuf, s_write, s_read, s_count, s_overflowDropCount,
                    pc, bufIndex, pushLen, copyPos>>
    BY <1>1 DEF SpiByte, RxCplt, SpiError, ringVars, mainVars
  <2>2. RingInv'
    BY <2>1 DEF RingInv, Wrap
  <2>3. /\ sent' \in 0 .. MaxSent
        /\ s_spiRxBuf' \in [Bufs -> [0 .. BlockSize - 1 -> Nat]]
        /\ s_dmaBufIndex' \in Bufs /\ s_readyFlags' \in [Bufs -> {0, 1}]
        /\ dmaOn' \in BOOLEAN /\ dmaPos' \in 0 .. BlockSize
        /\ s_rxBlockCount' \in Nat /\ s_spiErrorCount' \in Nat
        /\ stopped' \in 0 .. MaxStopped /\ disturbed' \in BOOLEAN
    <3>1. CASE SpiByte
      <4>1. sent' = sent + 1 /\ sent < MaxSent
        BY <3>1 DEF SpiByte
      <4>2. /\ s_spiRxBuf' \in [Bufs -> [0 .. BlockSize - 1 -> Nat]]
            /\ dmaPos' \in 0 .. BlockSize /\ disturbed' \in BOOLEAN
        <5>1. CASE dmaOn /\ dmaPos < BlockSize
          <6>1. /\ s_spiRxBuf' = [s_spiRxBuf EXCEPT ![s_dmaBufIndex][dmaPos] = sent + 1]
                /\ dmaPos' = dmaPos + 1 /\ disturbed' = disturbed
            BY <3>1, <5>1 DEF SpiByte
          <6>2. sent + 1 \in Nat /\ dmaPos \in 0 .. BlockSize - 1 /\ s_dmaBufIndex \in Bufs
            BY <5>1 DEF TypeOK
          <6>3. [s_spiRxBuf[s_dmaBufIndex] EXCEPT ![dmaPos] = sent + 1]
                  \in [0 .. BlockSize - 1 -> Nat]
            BY <6>2 DEF TypeOK
          <6>4. QED
            BY <5>1, <6>1, <6>2, <6>3 DEF TypeOK
        <5>2. CASE ~(dmaOn /\ dmaPos < BlockSize)
          BY <3>1, <5>2 DEF SpiByte, TypeOK
        <5>3. QED
          BY <5>1, <5>2
      <4>3. UNCHANGED <<s_dmaBufIndex, s_readyFlags, dmaOn, s_rxBlockCount,
                        s_spiErrorCount, stopped>>
        BY <3>1 DEF SpiByte
      <4>4. QED
        BY <4>1, <4>2, <4>3 DEF TypeOK
    <3>2. ASSUME StartDma
          PROVE  dmaOn' \in BOOLEAN /\ dmaPos' \in 0 .. BlockSize /\ stopped' \in 0 .. MaxStopped
      <4>1. dmaPos' = 0 /\ dmaOn' \in BOOLEAN
        BY <3>2 DEF StartDma
      <4>2. stopped' = stopped \/ (stopped < MaxStopped /\ stopped' = stopped + 1)
        BY <3>2 DEF StartDma
      <4>3. stopped' \in 0 .. MaxStopped
        BY <4>2 DEF TypeOK
      <4>4. QED
        BY <4>1, <4>3
    <3>3. CASE RxCplt
      <4>1. /\ s_dmaBufIndex' = 1 - s_dmaBufIndex /\ s_rxBlockCount' = s_rxBlockCount + 1
            /\ s_readyFlags' = [s_readyFlags EXCEPT ![s_dmaBufIndex] = 1]
            /\ s_spiErrorCount' \in {s_spiErrorCount, s_spiErrorCount + 1}
            /\ disturbed' = (disturbed \/ InUse(1 - s_dmaBufIndex))
            /\ StartDma
            /\ UNCHANGED <<sent, s_spiRxBuf>>
        BY <3>3 DEF RxCplt, OtherBuf
      <4>2. disturbed' \in BOOLEAN
        BY <4>1
      <4>3. QED
        BY <4>1, <4>2, <3>2 DEF TypeOK, Bufs
    <3>4. CASE SpiError
      <4>1. /\ s_dmaBufIndex' = 0 /\ s_rxBlockCount' = s_rxBlockCount
            /\ s_readyFlags' = [b \in Bufs |-> 0]
            /\ s_spiErrorCount' = s_spiErrorCount + 1
            /\ disturbed' = TRUE
            /\ StartDma
            /\ UNCHANGED <<sent, s_spiRxBuf>>
        BY <3>4 DEF SpiError
      <4>2. QED
        BY <4>1, <3>2 DEF TypeOK, Bufs
    <3>5. QED
      BY <1>1, <3>1, <3>3, <3>4
  <2>4. TypeOK'
    BY <2>1, <2>3 DEF TypeOK, Bufs, Slots
  <2>5. QED
    BY <2>2, <2>4
<1>4. CASE TakeReadyBlock
  <2>1. /\ s_readyFlags' \in [Bufs -> {0, 1}] /\ bufIndex' \in Bufs
        /\ pc' = "copy" /\ copyPos' = 0
        /\ pushLen' \in 0 .. BlockSize /\ pushLen' <= RingSize - s_count
    BY <1>4 DEF TakeReadyBlock, Takeable, PushLen, Least, TypeOK, Bufs
  <2>2. UNCHANGED <<sent, s_spiRxBuf, s_dmaBufIndex, dmaOn, dmaPos, s_rxBlockCount,
                    s_spiErrorCount, stopped, s_ringBuf, s_write, s_read, s_count,
                    s_overflowDropCount, disturbed>>
    BY <1>4 DEF TakeReadyBlock, ringVars
  <2>3. TypeOK'
    BY <2>1, <2>2 DEF TypeOK, Bufs, Slots
  <2>4. RingInv'
    BY <2>1, <2>2 DEF RingInv, Wrap
  <2>5. QED
    BY <2>3, <2>4
<1>5. CASE CopyByte
  <2>1. /\ copyPos' = copyPos + 1 /\ copyPos < pushLen
        /\ UNCHANGED <<s_write, s_read, s_count, pc, pushLen>>
    BY <1>5 DEF CopyByte
  <2>2. s_ringBuf' \in [Slots -> Nat]
    <3>1. s_spiRxBuf[bufIndex][copyPos] \in Nat
      BY <2>1 DEF TypeOK
    <3>2. s_ringBuf' = [s_ringBuf EXCEPT ![Wrap(s_write + copyPos)] =
                                            s_spiRxBuf[bufIndex][copyPos]]
      BY <1>5 DEF CopyByte
    <3>3. QED
      BY <3>1, <3>2 DEF TypeOK
  <2>3. TypeOK'
    BY <1>5, <2>1, <2>2 DEF CopyByte, TypeOK, spiVars, Bufs, Slots
  <2>4. RingInv'
    BY <2>1 DEF TypeOK, RingInv, Wrap
  <2>5. QED
    BY <2>3, <2>4
<1>6. CASE PushDone
  <2>1. /\ s_write' = Wrap(s_write + pushLen) /\ s_count' = s_count + pushLen
        /\ pc = "copy" /\ pc' = "loop" /\ s_read' = s_read
        /\ s_overflowDropCount' = s_overflowDropCount + (BlockSize - pushLen)
    BY <1>6 DEF PushDone
  <2>2. RingInv' /\ s_write' \in Slots /\ s_count' \in 0 .. RingSize
    BY <2>1 DEF TypeOK, RingInv, Wrap, Slots
  <2>3. s_overflowDropCount' \in Nat
    BY <2>1 DEF TypeOK
  <2>4. TypeOK'
    BY <1>6, <2>1, <2>2, <2>3 DEF PushDone, TypeOK, spiVars, Bufs, Slots
  <2>5. QED
    BY <2>2, <2>4
<1>7. CASE Read
  <2> DEFINE n == Least(ReadLen, s_count)
  <2>1. n \in 0 .. s_count
    BY DEF Least, TypeOK
  <2>2. /\ s_read' = Wrap(s_read + n) /\ s_count' = s_count - n
        /\ UNCHANGED <<sent, s_spiRxBuf, s_dmaBufIndex, s_readyFlags, dmaOn, dmaPos,
             s_rxBlockCount, s_spiErrorCount, stopped, s_ringBuf, s_write,
             s_overflowDropCount, pc, bufIndex, pushLen, copyPos, disturbed>>
        /\ pc = "loop"
    BY <1>7 DEF Read, spiVars, mainVars
  <2> HIDE DEF n
  <2>3. TypeOK'
    BY <2>1, <2>2 DEF TypeOK, Bufs, Slots, Wrap
  <2>4. RingInv'
    BY <2>1, <2>2 DEF TypeOK, RingInv, Slots, Wrap
  <2>5. QED
    BY <2>3, <2>4
<1>8. CASE UNCHANGED vars
  BY <1>8 DEF vars, spiVars, ringVars, mainVars, TypeOK, RingInv, Bufs, Slots, Wrap
<1>9. QED
  BY <1>1, <1>4, <1>5, <1>6, <1>7, <1>8 DEF Next, Main

(* Every variable of the receiver keeps its type. *)
THEOREM TypeCorrect == Spec => []TypeOK
<1>1. IInv => TypeOK
  BY DEF IInv
<1>2. QED
  BY InitIInv, NextIInv, <1>1, PTL DEF Spec

(* The three ring variables agree in every reachable state. *)
THEOREM RingCorrect == Spec => []RingInv
<1>1. IInv => RingInv
  BY DEF IInv
<1>2. QED
  BY InitIInv, NextIInv, <1>1, PTL DEF Spec

-----------------------------------------------------------------------------
(* Whole samples: the length of a push is even because it is either a block *)
(* or the free space, and both are even as long as the fill count is.       *)
SampleInv == WholeSamples /\ pushLen % 2 = 0

(* Sums, differences and wrapped indices of even numbers are even. *)
LEMMA EvenSum ==
  ASSUME NEW a \in Nat, NEW b \in Nat, a % 2 = 0, b % 2 = 0
  PROVE  (a + b) % 2 = 0
OBVIOUS

(* See above. *)
LEMMA EvenDiff ==
  ASSUME NEW a \in Nat, NEW b \in Nat, a % 2 = 0, b % 2 = 0, b <= a
  PROVE  (a - b) % 2 = 0
OBVIOUS

(* See above; the ring size is even. *)
LEMMA EvenWrap ==
  ASSUME NEW a \in Nat, a % 2 = 0
  PROVE  Wrap(a) % 2 = 0
BY RxAssumption, SampleAssumption, EvenDiff DEF Wrap

(* Pushing and reading whole samples keeps the ring sample-aligned. *)
LEMMA NextSampleInv == IInv /\ SampleInv /\ [Next]_vars => SampleInv'
<1> SUFFICES ASSUME IInv, SampleInv, [Next]_vars PROVE SampleInv'
    OBVIOUS
<1>0. /\ s_count \in Nat /\ s_read \in Nat /\ pushLen \in Nat /\ s_count <= RingSize
      /\ s_count % 2 = 0 /\ s_read % 2 = 0 /\ pushLen % 2 = 0
  BY RxAssumption DEF IInv, TypeOK, Slots, SampleInv, WholeSamples
<1>1. CASE TakeReadyBlock
  <2>1. /\ pushLen' \in {BlockSize, RingSize - s_count}
        /\ UNCHANGED <<s_count, s_read>>
    BY <1>1 DEF TakeReadyBlock, PushLen, Least, ringVars
  <2>2. BlockSize % 2 = 0 /\ (RingSize - s_count) % 2 = 0
    BY <1>0, EvenDiff, RxAssumption, SampleAssumption
  <2>3. QED
    BY <1>0, <2>1, <2>2 DEF SampleInv, WholeSamples
<1>2. CASE PushDone
  BY <1>0, <1>2, EvenSum DEF PushDone, SampleInv, WholeSamples
<1>3. CASE Read
  <2> DEFINE n == Least(ReadLen, s_count)
  <2>1. n \in Nat /\ n <= s_count /\ n % 2 = 0
    BY <1>0, RxAssumption, SampleAssumption DEF Least
  <2>2. s_read' = Wrap(s_read + n) /\ s_count' = s_count - n /\ UNCHANGED pushLen
    BY <1>3 DEF Read, mainVars
  <2> HIDE DEF n
  <2>3. s_count' % 2 = 0
    BY <1>0, <2>1, <2>2, EvenDiff
  <2>4. s_read' % 2 = 0
    BY <1>0, <2>1, <2>2, EvenSum, EvenWrap
  <2>5. QED
    BY <1>0, <2>2, <2>3, <2>4 DEF SampleInv, WholeSamples
<1>4. CASE SpiByte \/ RxCplt \/ SpiError \/ CopyByte \/ UNCHANGED vars
  <2>1. UNCHANGED <<s_count, s_read, pushLen>>
    BY <1>4 DEF SpiByte, RxCplt, SpiError, CopyByte, vars, ringVars, mainVars
  <2>2. QED
    BY <1>0, <2>1 DEF SampleInv, WholeSamples
<1>5. QED
  BY <1>1, <1>2, <1>3, <1>4 DEF Next, Main

(* The ring never holds half a sample. *)
THEOREM SamplesWhole == Spec => []WholeSamples
<1>1. Init => SampleInv
  BY DEF Init, SampleInv, WholeSamples
<1>2. SampleInv => WholeSamples
  BY DEF SampleInv
<1>3. QED
  BY InitIInv, NextIInv, NextSampleInv, <1>1, <1>2, PTL DEF Spec

-----------------------------------------------------------------------------
(* Unread bytes are kept.                                                   *)
(* A copy in progress writes outside the unread region. *)
LEMMA CopyOutside ==
  ASSUME IInv, CopyByte, NEW k \in 1 .. s_count
  PROVE  /\ Wrap(s_read + k - 1) \in Slots
         /\ Wrap(s_read + k - 1) # Wrap(s_write + copyPos)
BY RxAssumption DEF IInv, TypeOK, RingInv, CopyByte, Wrap, Slots

UnreadStep ==
  LET gone == IF s_count' < s_count THEN s_count - s_count' ELSE 0
  IN  \A k \in 1 .. s_count - gone : Unread'[k] = Unread[k + gone]

(* Each step leaves the unread bytes that are not taken by Read alone. *)
LEMMA NextUnread == IInv /\ [Next]_vars => UnreadStep
<1> SUFFICES ASSUME IInv, [Next]_vars PROVE UnreadStep
    OBVIOUS
<1> USE RxAssumption DEF IInv
<1>1. CASE CopyByte
  <2>1. /\ UNCHANGED <<s_read, s_count>>
        /\ s_ringBuf' = [s_ringBuf EXCEPT ![Wrap(s_write + copyPos)] =
                                             s_spiRxBuf[bufIndex][copyPos]]
    BY <1>1 DEF CopyByte
  <2>2. \A k \in 1 .. s_count : Unread'[k] = Unread[k]
    BY <1>1, <2>1, CopyOutside DEF Unread, TypeOK, Wrap
  <2>3. QED
    BY <2>1, <2>2 DEF UnreadStep, TypeOK
<1>2. CASE PushDone
  <2>1. s_read' = s_read /\ s_ringBuf' = s_ringBuf /\ s_count' = s_count + pushLen
    BY <1>2 DEF PushDone
  <2>2. \A k \in 1 .. s_count : Unread'[k] = Unread[k]
    BY <2>1 DEF Unread, TypeOK, Wrap
  <2>3. QED
    BY <2>1, <2>2 DEF UnreadStep, TypeOK
<1>3. CASE Read
  <2> DEFINE n == Least(ReadLen, s_count)
  <2>1. n \in 0 .. s_count
    BY DEF Least, TypeOK
  <2>2. s_read' = Wrap(s_read + n) /\ s_count' = s_count - n /\ s_ringBuf' = s_ringBuf
    BY <1>3 DEF Read
  <2> HIDE DEF n
  <2>3. \A k \in 1 .. s_count - n : Wrap(s_read' + k - 1) = Wrap(s_read + (k + n) - 1)
    BY <2>1, <2>2 DEF TypeOK, Wrap, Slots
  <2>4. \A k \in 1 .. s_count - n : Unread'[k] = Unread[k + n]
    BY <2>1, <2>2, <2>3 DEF Unread, TypeOK, Wrap
  <2>5. (IF s_count' < s_count THEN s_count - s_count' ELSE 0) = n
    BY <2>1, <2>2 DEF TypeOK
  <2>6. QED
    BY <2>4, <2>5 DEF UnreadStep
<1>4. CASE SpiByte \/ RxCplt \/ SpiError \/ TakeReadyBlock \/ UNCHANGED vars
  <2>1. UNCHANGED <<s_read, s_count, s_ringBuf>>
    BY <1>4 DEF SpiByte, RxCplt, SpiError, TakeReadyBlock, vars, ringVars
  <2>2. Unread' = Unread
    BY <2>1 DEF Unread, Wrap
  <2>3. QED
    BY <2>1, <2>2 DEF UnreadStep, TypeOK
<1>5. QED
  BY <1>1, <1>2, <1>3, <1>4 DEF Next, Main

(* No interrupt, error or copy ever alters a byte that waits in the ring. *)
THEOREM UnreadKept == Spec => UnreadBytesKept
<1>1. IInv /\ [Next]_vars => [UnreadStep]_vars
  BY NextUnread
<1>2. QED
  BY InitIInv, NextIInv, <1>1, PTL DEF Spec, UnreadBytesKept, UnreadStep

-----------------------------------------------------------------------------
(* The receiver implements PcmFifo: the DMA and the main loop never work on  *)
(* the same block buffer.  The buffer that the DMA does not fill holds the   *)
(* last complete block for as long as it is ready or being copied, and a     *)
(* copy ends before the next block is complete.                              *)

\* Where block n (0, 1, ...) begins in the Pi's stream.
Base(n) == n * BlockSize

Other == OtherBuf(s_dmaBufIndex)

\* The buffer being filled is not in use; the other one is ready or being
\* copied, not both.
Apart ==
  /\ s_readyFlags[s_dmaBufIndex] = 0
  /\ pc = "copy" => bufIndex = Other /\ s_readyFlags[Other] = 0

Paced == sent = Base(s_rxBlockCount) + dmaPos

Incoming ==
  \A k \in 0 .. BlockSize - 1 :
    k < dmaPos => s_spiRxBuf[s_dmaBufIndex][k] = Base(s_rxBlockCount) + k + 1

Complete ==
  InUse(Other) =>
    /\ s_rxBlockCount >= 1
    /\ \A k \in 0 .. BlockSize - 1 :
         s_spiRxBuf[Other][k] = Base(s_rxBlockCount - 1) + k + 1

Copied ==
  pc = "copy" =>
    /\ pushLen = PushLen
    /\ \A k \in 0 .. BlockSize - 1 :
         k < copyPos => s_ringBuf[Wrap(s_write + k)] = Base(s_rxBlockCount - 1) + k + 1

FifoInv == ~disturbed => Apart /\ Paced /\ Incoming /\ Complete /\ Copied

LEMMA BaseNext ==
  ASSUME NEW n \in Nat
  PROVE  Base(n) \in Nat /\ Base(n + 1) = Base(n) + BlockSize
BY RxAssumption DEF Base

LEMMA InitFifo == Init => FifoInv
<1> SUFFICES ASSUME Init PROVE Apart /\ Paced /\ Incoming /\ Complete /\ Copied
  BY DEF FifoInv
<1>1. Base(0) = 0
  BY RxAssumption DEF Base
<1>2. Other = 1 /\ ~InUse(Other)
  BY DEF Init, Other, OtherBuf, InUse, Bufs
<1>3. Apart
  BY DEF Init, Apart, Bufs
<1>4. Paced /\ Incoming
  BY <1>1 DEF Init, Paced, Incoming
<1> QED BY <1>2, <1>3, <1>4 DEF Init, Complete, Copied

(* A byte goes into the buffer nobody else uses. *)
LEMMA SpiByteFifo ==
  ASSUME IInv, FifoInv, SpiByte
  PROVE  FifoInv'
<1> SUFFICES ASSUME ~disturbed' PROVE (Apart /\ Paced /\ Incoming /\ Complete /\ Copied)'
  BY DEF FifoInv
<1> USE RxAssumption
<1>1. /\ dmaOn /\ dmaPos < BlockSize /\ ~disturbed /\ sent' = sent + 1 /\ dmaPos' = dmaPos + 1
      /\ s_spiRxBuf' = [s_spiRxBuf EXCEPT ![s_dmaBufIndex][dmaPos] = sent']
      /\ UNCHANGED <<s_dmaBufIndex, s_readyFlags, s_rxBlockCount, s_ringBuf, s_write, s_count,
                     pc, bufIndex, pushLen, copyPos>>
  BY DEF SpiByte, ringVars, mainVars
<1>2. Apart /\ Paced /\ Incoming /\ Complete /\ Copied
  BY <1>1 DEF FifoInv
<1>3. /\ s_dmaBufIndex \in Bufs /\ Other \in Bufs /\ Other # s_dmaBufIndex
      /\ dmaPos \in 0 .. BlockSize - 1 /\ s_rxBlockCount \in Nat
      /\ s_spiRxBuf \in [Bufs -> [0 .. BlockSize - 1 -> Nat]]
  BY <1>1 DEF IInv, TypeOK, Other, OtherBuf, Bufs
<1>4. /\ s_spiRxBuf'[Other] = s_spiRxBuf[Other]
      /\ s_spiRxBuf'[s_dmaBufIndex] = [s_spiRxBuf[s_dmaBufIndex] EXCEPT ![dmaPos] = sent']
  BY <1>1, <1>3
<1>5. Base(s_rxBlockCount) \in Nat
  BY <1>3, BaseNext
<1>6. Paced'
  BY <1>1, <1>2, <1>3, <1>5 DEF Paced
<1>7. Incoming'
  <2> SUFFICES ASSUME NEW k \in 0 .. BlockSize - 1, k < dmaPos + 1
               PROVE  s_spiRxBuf'[s_dmaBufIndex][k] = Base(s_rxBlockCount) + k + 1
    BY <1>1 DEF Incoming
  <2>1. CASE k = dmaPos
    <3>1. s_spiRxBuf'[s_dmaBufIndex][k] = sent'
      BY <1>3, <1>4, <2>1
    <3> QED BY <1>1, <1>2, <1>3, <1>5, <2>1, <3>1 DEF Paced
  <2>2. CASE k # dmaPos
    <3>1. s_spiRxBuf'[s_dmaBufIndex][k] = s_spiRxBuf[s_dmaBufIndex][k] /\ k < dmaPos
      BY <1>3, <1>4, <2>2
    <3> QED BY <1>2, <3>1 DEF Incoming
  <2> QED BY <2>1, <2>2
<1>8. Other' = Other /\ InUse(Other)' = InUse(Other)
  BY <1>1 DEF Other, InUse
<1>9. Apart' /\ Complete' /\ Copied'
  BY <1>1, <1>2, <1>4, <1>8 DEF Apart, Complete, Copied, PushLen
<1> QED BY <1>6, <1>7, <1>9

(* The block just completed becomes the last one; the other buffer is filled   *)
(* next, and is free of the main loop, or the step disturbs.                   *)
LEMMA RxCpltFifo ==
  ASSUME IInv, FifoInv, RxCplt
  PROVE  FifoInv'
<1> SUFFICES ASSUME ~disturbed' PROVE (Apart /\ Paced /\ Incoming /\ Complete /\ Copied)'
  BY DEF FifoInv
<1> USE RxAssumption
<1>1. /\ dmaPos = BlockSize /\ s_rxBlockCount' = s_rxBlockCount + 1 /\ dmaPos' = 0
      /\ s_readyFlags' = [s_readyFlags EXCEPT ![s_dmaBufIndex] = 1]
      /\ s_dmaBufIndex' = Other /\ ~disturbed /\ ~InUse(Other)
      /\ UNCHANGED <<sent, s_spiRxBuf, pc, bufIndex, s_ringBuf, s_write>>
  BY DEF RxCplt, StartDma, Other, ringVars, mainVars
<1>2. Apart /\ Paced /\ Incoming /\ Complete /\ Copied
  BY <1>1 DEF FifoInv
<1>3. /\ s_dmaBufIndex \in Bufs /\ Other \in Bufs /\ Other # s_dmaBufIndex
      /\ s_rxBlockCount \in Nat /\ s_readyFlags \in [Bufs -> {0, 1}]
      /\ OtherBuf(Other) = s_dmaBufIndex
  BY DEF IInv, TypeOK, Other, OtherBuf, Bufs
<1>4. Other' = s_dmaBufIndex
  BY <1>1, <1>3 DEF Other
<1>5. pc # "copy" /\ s_readyFlags[Other] = 0
  BY <1>1, <1>2, <1>3 DEF Apart, InUse
<1>6. Apart'
  BY <1>1, <1>3, <1>5 DEF Apart
<1>7. Paced' /\ Incoming'
  <2>1. Base(s_rxBlockCount + 1) = Base(s_rxBlockCount) + BlockSize
    BY <1>3, BaseNext
  <2>2. Base(s_rxBlockCount) \in Nat
    BY <1>3, BaseNext
  <2>3. Paced'
    BY <1>1, <1>2, <2>1, <2>2 DEF Paced
  <2>4. Incoming'
    BY <1>1 DEF Incoming
  <2> QED BY <2>3, <2>4
<1>8. Complete'
  <2>1. s_rxBlockCount' >= 1 /\ s_rxBlockCount' - 1 = s_rxBlockCount
    BY <1>1, <1>3
  <2>2. \A k \in 0 .. BlockSize - 1 :
          s_spiRxBuf'[s_dmaBufIndex][k] = Base(s_rxBlockCount) + k + 1
    BY <1>1, <1>2 DEF Incoming
  <2> QED BY <1>4, <2>1, <2>2 DEF Complete
<1>9. Copied'
  BY <1>1, <1>5 DEF Copied
<1> QED BY <1>6, <1>7, <1>8, <1>9

(* The block taken is the other buffer's, since the one being filled is not    *)
(* ready: the preference for buffer 0 makes no difference.                     *)
LEMMA TakeFifo ==
  ASSUME IInv, FifoInv, ~disturbed, TakeReadyBlock
  PROVE  /\ FifoInv'
         /\ pc = "loop" /\ s_readyFlags[Other] = 1
         /\ pc' = "copy" /\ \A b \in Bufs : s_readyFlags'[b] = 0
<1> USE RxAssumption
<1>1. Apart /\ Paced /\ Incoming /\ Complete /\ Copied
  BY DEF FifoInv
<1>2. /\ pc = "loop" /\ pc' = "copy" /\ pushLen' = PushLen /\ copyPos' = 0
      /\ UNCHANGED <<sent, s_spiRxBuf, s_dmaBufIndex, dmaPos, s_rxBlockCount, s_ringBuf, s_write,
                     s_count>>
  BY DEF TakeReadyBlock, ringVars
<1>3. /\ s_dmaBufIndex \in Bufs /\ Other \in Bufs /\ Other # s_dmaBufIndex
      /\ s_readyFlags \in [Bufs -> {0, 1}] /\ Bufs = {s_dmaBufIndex, Other}
  BY DEF IInv, TypeOK, Other, OtherBuf, Bufs
<1>4. PICK b \in Bufs : /\ s_readyFlags[b] = 1 /\ bufIndex' = b
                        /\ s_readyFlags' = [s_readyFlags EXCEPT ![b] = 0]
  BY DEF TakeReadyBlock, Takeable
<1>5. b = Other
  BY <1>1, <1>3, <1>4 DEF Apart
<1>6. s_readyFlags[Other] = 1 /\ \A c \in Bufs : s_readyFlags'[c] = 0
  BY <1>1, <1>3, <1>4, <1>5 DEF Apart
<1>7. Other' = Other /\ InUse(Other)
  BY <1>2, <1>6 DEF Other, InUse
<1>8. Apart' /\ Paced' /\ Incoming' /\ Complete'
  BY <1>1, <1>2, <1>3, <1>4, <1>5, <1>6, <1>7 DEF Apart, Paced, Incoming, Complete
<1>9. Copied'
  BY <1>2 DEF Copied, PushLen
<1> QED BY <1>2, <1>6, <1>8, <1>9 DEF FifoInv

(* A byte of the last complete block goes behind those already copied.         *)
LEMMA CopyFifo ==
  ASSUME IInv, FifoInv, ~disturbed, CopyByte
  PROVE  FifoInv'
<1> USE RxAssumption
<1>1. Apart /\ Paced /\ Incoming /\ Complete /\ Copied
  BY DEF FifoInv
<1>2. /\ pc = "copy" /\ copyPos < pushLen /\ copyPos' = copyPos + 1
      /\ s_ringBuf' = [s_ringBuf EXCEPT ![Wrap(s_write + copyPos)] = s_spiRxBuf[bufIndex][copyPos]]
      /\ UNCHANGED <<sent, s_spiRxBuf, s_dmaBufIndex, s_readyFlags, dmaPos, s_rxBlockCount, s_write,
                     s_count, pc, bufIndex, pushLen>>
  BY DEF CopyByte, spiVars
<1>3. /\ copyPos \in 0 .. BlockSize - 1 /\ pushLen <= RingSize /\ s_write \in Slots
      /\ s_ringBuf \in [Slots -> Nat]
  BY <1>2 DEF IInv, TypeOK, RingInv
<1>4. Other' = Other /\ InUse(Other)' = InUse(Other)
  BY <1>2 DEF Other, InUse
<1>5. Apart' /\ Paced' /\ Incoming' /\ Complete'
  BY <1>1, <1>2, <1>4 DEF Apart, Paced, Incoming, Complete
<1>6. s_spiRxBuf[bufIndex][copyPos] = Base(s_rxBlockCount - 1) + copyPos + 1
  BY <1>1, <1>2, <1>3 DEF Apart, Complete, InUse
<1>7. \A k \in 0 .. BlockSize - 1 :
        k <= copyPos => /\ Wrap(s_write + k) \in Slots
                        /\ k # copyPos => Wrap(s_write + k) # Wrap(s_write + copyPos)
  BY <1>2, <1>3 DEF Wrap, Slots, IInv, TypeOK
<1>8. Copied'
  <2>1. pushLen' = PushLen'
    BY <1>1, <1>2 DEF Copied, PushLen
  <2>2. ASSUME NEW k \in 0 .. BlockSize - 1, k < copyPos + 1
        PROVE  s_ringBuf'[Wrap(s_write + k)] = Base(s_rxBlockCount - 1) + k + 1
    <3>1. CASE k = copyPos
      BY <1>2, <1>3, <1>6, <1>7, <3>1
    <3>2. CASE k # copyPos
      <4>1. k < copyPos
        BY <1>3, <2>2, <3>2
      <4>2. s_ringBuf'[Wrap(s_write + k)] = s_ringBuf[Wrap(s_write + k)]
        BY <1>2, <1>3, <1>7, <3>2, <4>1
      <4> QED BY <1>1, <1>2, <4>1, <4>2 DEF Copied
    <3> QED BY <3>1, <3>2
  <2> QED BY <1>2, <2>1, <2>2 DEF Copied
<1> QED BY <1>5, <1>8 DEF FifoInv

LEMMA PushFifo ==
  ASSUME IInv, FifoInv, ~disturbed, PushDone
  PROVE  FifoInv'
<1>1. Apart /\ Paced /\ Incoming /\ Complete /\ Copied
  BY DEF FifoInv
<1>2. /\ pc = "copy" /\ pc' = "loop"
      /\ UNCHANGED <<sent, s_spiRxBuf, s_dmaBufIndex, s_readyFlags, dmaPos, s_rxBlockCount>>
  BY DEF PushDone, spiVars
<1>3. Other' = Other /\ s_readyFlags[Other] = 0 /\ ~InUse(Other)'
  BY <1>1, <1>2 DEF Other, Apart, InUse
<1> QED BY <1>1, <1>2, <1>3 DEF FifoInv, Apart, Paced, Incoming, Complete, Copied

LEMMA ReadFifo ==
  ASSUME IInv, FifoInv, Read
  PROVE  FifoInv'
<1>1. /\ pc = "loop"
      /\ UNCHANGED <<sent, s_spiRxBuf, s_dmaBufIndex, s_readyFlags, dmaPos, s_rxBlockCount, pc,
                     bufIndex, disturbed>>
  BY DEF Read, spiVars, mainVars
<1>2. Other' = Other /\ InUse(Other)' = InUse(Other)
  BY <1>1 DEF Other, InUse
<1> QED BY <1>1, <1>2 DEF FifoInv, Apart, Paced, Incoming, Complete, Copied

LEMMA NextFifo == IInv /\ FifoInv /\ [Next]_vars => FifoInv'
<1> SUFFICES ASSUME IInv, FifoInv, [Next]_vars PROVE FifoInv'
  OBVIOUS
<1>1. CASE SpiError
  BY <1>1 DEF SpiError, FifoInv
<1>2. CASE Main
  <2>1. disturbed' = disturbed
    BY <1>2 DEF Main, TakeReadyBlock, CopyByte, PushDone
  <2>2. CASE disturbed
    BY <2>1, <2>2 DEF FifoInv
  <2> QED BY <1>2, <2>2, TakeFifo, CopyFifo, PushFifo DEF Main
<1>3. CASE UNCHANGED vars
  BY <1>3 DEF vars, spiVars, ringVars, mainVars, FifoInv, Apart, Paced, Incoming, Complete, Copied,
              Other, InUse, PushLen
<1> QED BY <1>1, <1>2, <1>3, SpiByteFifo, RxCpltFifo, ReadFifo DEF Next

-----------------------------------------------------------------------------
(* The mapping to the FIFO: what it sees of a step. *)

\* Between two block ends the number of blocks pushed is that of the blocks
\* received, less the one that waits or is being copied.
PushedRight == Pushed = s_rxBlockCount - (IF InUse(Other) THEN 1 ELSE 0)

LEMMA PushedCount == IInv /\ Apart => PushedRight
<1> SUFFICES ASSUME IInv, Apart PROVE Pushed = s_rxBlockCount - (IF InUse(Other) THEN 1 ELSE 0)
  BY DEF PushedRight
<1> DEFINE Ready == {b \in Bufs : s_readyFlags[b] = 1}
<1>1. /\ s_dmaBufIndex \in Bufs /\ Other \in Bufs /\ Other # s_dmaBufIndex
      /\ s_readyFlags \in [Bufs -> {0, 1}] /\ Bufs = {s_dmaBufIndex, Other}
      /\ s_rxBlockCount \in Nat
  BY DEF IInv, TypeOK, Other, OtherBuf, Bufs
<1>2. CASE s_readyFlags[Other] = 1
  <2>1. Ready = {Other}
    BY <1>1, <1>2 DEF Apart
  <2>2. Cardinality(Ready) = 1
    BY <2>1, FS_Singleton
  <2>3. pc # "copy" /\ InUse(Other)
    BY <1>2 DEF Apart, InUse
  <2> QED BY <1>1, <2>2, <2>3 DEF Pushed
<1>3. CASE s_readyFlags[Other] # 1
  <2>1. Ready = {}
    BY <1>1, <1>3 DEF Apart
  <2>2. Cardinality(Ready) = 0
    BY <2>1, FS_EmptySet
  <2>3. InUse(Other) <=> pc = "copy"
    BY <1>3 DEF Apart, InUse
  <2> QED BY <1>1, <2>2, <2>3 DEF Pushed
<1> QED BY <1>2, <1>3

UnreadRight ==
  /\ Unread \in Seq(Nat) /\ Len(Unread) = s_count
  /\ \A k \in 1 .. s_count : /\ Wrap(s_read + k - 1) \in Slots
                              /\ Unread[k] = s_ringBuf[Wrap(s_read + k - 1)]

LEMMA UnreadSeq == IInv => UnreadRight
<1> SUFFICES ASSUME IInv PROVE UnreadRight
  OBVIOUS
<1>1. \A k \in 1 .. s_count : Wrap(s_read + k - 1) \in Slots
  BY RxAssumption DEF IInv, TypeOK, Wrap, Slots
<1>2. s_count \in Nat /\ s_ringBuf \in [Slots -> Nat]
  BY RxAssumption DEF IInv, TypeOK
<1>3. Unread \in [1 .. s_count -> Nat]
  BY <1>1, <1>2 DEF Unread
<1> QED BY <1>1, <1>2, <1>3 DEF Unread, UnreadRight

LEMMA InitRefines == Init => Fifo!Init
<1> SUFFICES ASSUME Init PROVE Fifo!Init
  OBVIOUS
<1>1. IInv
  BY InitIInv
<1>2. Unread = <<>>
  BY <1>1, UnreadSeq, EmptySeq DEF Init, UnreadRight
<1>3. Apart /\ ~InUse(Other)
  BY DEF Init, Apart, InUse, Other, OtherBuf, Bufs
<1>4. Pushed = 0
  <2>1. PushedRight /\ s_rxBlockCount = 0
    BY <1>1, <1>3, PushedCount DEF Init
  <2>2. (IF InUse(Other) THEN 1 ELSE 0) = 0
    BY <1>3, Zenon
  <2>3. Pushed = s_rxBlockCount - (IF InUse(Other) THEN 1 ELSE 0)
    BY <2>1, Zenon DEF PushedRight
  <2>4. Pushed = 0 - 0
    BY <2>1, <2>2, <2>3, Zenon
  <2> QED BY <2>4
<1> QED BY <1>2, <1>4 DEF Init, Fifo!Init

(* SPI bytes and interrupts before a deadline is missed, and all but the end   *)
(* of a push: nothing the reader can see.                                      *)
LEMMA HiddenRefines ==
  ASSUME IInv, IInv', FifoInv, FifoInv', ~disturbed',
         SpiByte \/ RxCplt \/ TakeReadyBlock \/ CopyByte
  PROVE  UNCHANGED Fifo!vars
<1> USE RxAssumption
<1>1. ~disturbed /\ UNCHANGED <<disturbed, delivered, s_read, s_count>>
  BY DEF SpiByte, RxCplt, TakeReadyBlock, CopyByte, ringVars, IInv, TypeOK
<1>2. Apart /\ Apart'
  BY <1>1 DEF FifoInv
<1>3. Unread' = Unread
  <2>1. CASE CopyByte
    <3>1. \A k \in 1 .. s_count : Unread'[k] = Unread[k]
      <4>1. UnreadStep
        BY <2>1, NextUnread DEF Next, Main
      <4>2. ~(s_count' < s_count) /\ s_count - 0 = s_count /\ \A k \in 1 .. s_count : k + 0 = k
        BY <1>1 DEF IInv, TypeOK
      <4> QED BY <4>1, <4>2 DEF UnreadStep
    <3>2. UnreadRight /\ UnreadRight'
      BY UnreadSeq, PTL
    <3> QED BY <1>1, <3>1, <3>2, SeqEqual DEF UnreadRight
  <2>2. CASE SpiByte \/ RxCplt \/ TakeReadyBlock
    <3>1. s_ringBuf' = s_ringBuf
      BY <2>2 DEF SpiByte, RxCplt, TakeReadyBlock, ringVars
    <3> QED BY <1>1, <3>1 DEF Unread, Wrap
  <2> QED BY <2>1, <2>2
<1>4. Pushed' = Pushed
  <2>1. /\ Pushed = s_rxBlockCount - (IF InUse(Other) THEN 1 ELSE 0)
        /\ Pushed' = s_rxBlockCount' - (IF InUse(Other)' THEN 1 ELSE 0)
    <3>1. PushedRight /\ PushedRight'
      BY <1>2, PushedCount, PTL
    <3> QED BY <3>1 DEF PushedRight
  <2>2. CASE SpiByte \/ CopyByte
    <3>1. UNCHANGED <<s_rxBlockCount, s_readyFlags, s_dmaBufIndex, pc, bufIndex>>
      BY <2>2 DEF SpiByte, CopyByte, spiVars, mainVars
    <3>2. InUse(Other)' = InUse(Other)
      BY <3>1 DEF InUse, Other
    <3> QED BY <2>1, <3>1, <3>2
  <2>3. CASE RxCplt
    <3>1. /\ s_rxBlockCount' = s_rxBlockCount + 1 /\ ~InUse(Other)
          /\ s_dmaBufIndex' = Other /\ s_readyFlags' = [s_readyFlags EXCEPT ![s_dmaBufIndex] = 1]
      BY <1>1, <2>3 DEF RxCplt, Other
    <3>2. Other' = s_dmaBufIndex /\ s_readyFlags'[s_dmaBufIndex] = 1
      BY <3>1 DEF Other, OtherBuf, IInv, TypeOK, Bufs
    <3>3. InUse(Other)'
      BY <3>2 DEF InUse
    <3> QED BY <2>1, <3>1, <3>3 DEF IInv, TypeOK
  <2>4. CASE TakeReadyBlock
    <3>1. pc' = "copy" /\ s_readyFlags[Other] = 1
      BY <1>1, <2>4, TakeFifo
    <3>2. InUse(Other) /\ InUse(Other)'
      BY <1>2, <3>1 DEF InUse, Apart
    <3>3. s_rxBlockCount' = s_rxBlockCount
      BY <2>4 DEF TakeReadyBlock
    <3> QED BY <2>1, <3>2, <3>3
  <2> QED BY <2>2, <2>3, <2>4
<1> QED BY <1>1, <1>3, <1>4 DEF Fifo!vars

(* The end of a push is the arrival of the next block, as much as fits.        *)
LEMMA PushRefines ==
  ASSUME IInv, IInv', FifoInv, FifoInv', ~disturbed, PushDone
  PROVE  Fifo!Accept
<1> USE RxAssumption
<1> DEFINE len == IF BlockSize <= RingSize - Len(Unread) THEN BlockSize
                                                         ELSE RingSize - Len(Unread)
           added == [k \in 1 .. len |-> Pushed * BlockSize + k]
<1>1. /\ pc = "copy" /\ copyPos = pushLen /\ s_count' = s_count + pushLen
      /\ pc' = "loop" /\ ~disturbed'
      /\ UNCHANGED <<s_ringBuf, s_read, s_readyFlags, s_dmaBufIndex, s_rxBlockCount, disturbed,
                     delivered>>
  BY DEF PushDone, spiVars
<1>2. Apart /\ Copied /\ Complete /\ Apart'
  BY <1>1 DEF FifoInv
<1>3. UnreadRight /\ UnreadRight'
  BY UnreadSeq, PTL
<1>4. /\ InUse(Other) /\ ~InUse(Other)'
  BY <1>1, <1>2 DEF InUse, Apart, Other
<1>5. Pushed = s_rxBlockCount - 1 /\ Pushed' = s_rxBlockCount /\ s_rxBlockCount \in Nat \ {0}
  <2>1. PushedRight /\ PushedRight'
    BY <1>2, PushedCount, PTL
  <2>2. s_rxBlockCount \in Nat /\ s_rxBlockCount >= 1
    BY <1>2, <1>4 DEF Complete, IInv, TypeOK
  <2> QED BY <1>1, <1>4, <2>1, <2>2 DEF PushedRight
<1>6. len = pushLen /\ len \in 0 .. BlockSize /\ s_count \in 0 .. RingSize
  BY <1>1, <1>2, <1>3 DEF Copied, PushLen, Least, UnreadRight, IInv, TypeOK
<1>7. Base(Pushed) \in Nat /\ Base(Pushed) = Pushed * BlockSize
  BY <1>5, BaseNext DEF Base
<1> HIDE DEF len
<1>8. added \in Seq(Nat) /\ Len(added) = len /\ \A k \in 1 .. len : added[k] = Base(Pushed) + k
  <2>1. \A k \in 1 .. len : Pushed * BlockSize + k \in Nat
    BY <1>6, <1>7
  <2>2. added \in [1 .. len -> Nat]
    BY <2>1
  <2>3. len \in Nat
    BY <1>6
  <2> QED BY <1>7, <2>2, <2>3
<1>9. \A k \in 1 .. len : Unread'[s_count + k] = Base(Pushed) + k
  <2> SUFFICES ASSUME NEW k \in 1 .. len PROVE Unread'[s_count + k] = Base(Pushed) + k
    OBVIOUS
  <2>1. k - 1 \in 0 .. BlockSize - 1 /\ k - 1 < copyPos /\ (k - 1) + 1 = k
        /\ s_count + k \in 1 .. s_count'
    BY <1>1, <1>6
  <2>2. s_ringBuf[Wrap(s_write + (k - 1))] = Base(Pushed) + (k - 1) + 1
    BY <1>1, <1>2, <1>5, <2>1 DEF Copied
  <2>3. Unread'[s_count + k] = s_ringBuf[Wrap(s_read + (s_count + k) - 1)]
    BY <1>1, <1>3, <2>1 DEF UnreadRight, Wrap
  <2>4. Wrap(s_read + (s_count + k) - 1) = Wrap(s_write + (k - 1))
    <3>1. /\ s_write = Wrap(s_read + s_count) /\ s_read \in Slots /\ s_count + k <= RingSize
          /\ s_count \in Nat /\ k \in Nat \ {0}
      BY <1>1, <1>6 DEF IInv, RingInv, TypeOK
    <3> QED BY <3>1 DEF Wrap, Slots
  <2> QED BY <1>7, <2>1, <2>2, <2>3, <2>4
<1>10. \A k \in 1 .. s_count : Unread'[k] = Unread[k]
  <2>1. \A k \in 1 .. s_count : k \in 1 .. s_count'
    BY <1>1, <1>6
  <2> QED BY <1>1, <1>3, <2>1 DEF UnreadRight, Wrap
<1> HIDE DEF added
<1>11. Unread' = Unread \o added
  <2>1. /\ Unread \o added \in Seq(Nat) /\ Len(Unread \o added) = s_count + len
        /\ \A i \in 1 .. s_count + len :
             (Unread \o added)[i] = IF i <= s_count THEN Unread[i] ELSE added[i - s_count]
    BY <1>3, <1>8, ConcatProperties DEF UnreadRight
  <2>2. Unread' \in Seq(Nat) /\ Len(Unread') = s_count + len
    BY <1>1, <1>3, <1>6 DEF UnreadRight
  <2>3. ASSUME NEW i \in 1 .. s_count + len PROVE Unread'[i] = (Unread \o added)[i]
    <3>1. CASE i <= s_count
      BY <1>6, <1>10, <2>1, <3>1
    <3>2. CASE ~(i <= s_count)
      <4>1. i - s_count \in 1 .. len /\ s_count + (i - s_count) = i
        BY <1>6, <3>2
      <4> QED BY <1>8, <1>9, <2>1, <3>2, <4>1
    <3> QED BY <3>1, <3>2
  <2> QED BY <2>1, <2>2, <2>3, SeqEqual
<1>12. Pushed' = Pushed + 1
  BY <1>5
<1> QED BY <1>1, <1>11, <1>12 DEF Fifo!Accept, len, added

(* A read takes the front of the queue, all of it if it is shorter.            *)
LEMMA ReadRefines ==
  ASSUME IInv, IInv', FifoInv, Read
  PROVE  Fifo!Deliver
<1> USE RxAssumption
<1> DEFINE n == Least(ReadLen, s_count)
<1>1. /\ delivered' = [k \in 1 .. n |-> s_ringBuf[Wrap(s_read + k - 1)]]
      /\ s_read' = Wrap(s_read + n) /\ s_count' = s_count - n
      /\ UNCHANGED <<s_ringBuf, s_readyFlags, s_rxBlockCount, pc, disturbed>>
  BY DEF Read, spiVars, mainVars
<1>2. n \in 0 .. s_count /\ s_count \in Nat /\ s_read \in Slots
  BY DEF Least, IInv, TypeOK
<1>3. UnreadRight /\ UnreadRight'
  BY UnreadSeq, PTL
<1>4. (IF ReadLen <= Len(Unread) THEN ReadLen ELSE Len(Unread)) = n
  BY <1>3 DEF UnreadRight, Least
<1> HIDE DEF n
<1>5. delivered' = SubSeq(Unread, 1, n)
  <2>1. \A k \in 1 .. n : k \in 1 .. s_count /\ Unread[k] \in Nat
    BY <1>2, <1>3, ElementOfSeq DEF UnreadRight
  <2>2. /\ SubSeq(Unread, 1, n) \in Seq(Nat) /\ Len(SubSeq(Unread, 1, n)) = n
        /\ \A k \in 1 .. n : SubSeq(Unread, 1, n)[k] = Unread[k]
    BY <1>2, <2>1, SubSeqProperties
  <2>3. \A k \in 1 .. n : delivered'[k] = Unread[k]
    BY <1>1, <1>3, <2>1 DEF UnreadRight
  <2>4. delivered' \in Seq(Nat) /\ Len(delivered') = n
    <3>1. delivered' \in [1 .. n -> Nat]
      BY <1>1, <2>1, <2>3
    <3> QED BY <1>2, <3>1
  <2> QED BY <2>2, <2>3, <2>4, SeqEqual
<1>6. Unread' = SubSeq(Unread, n + 1, Len(Unread))
  <2>1. \A k \in n + 1 .. s_count : Unread[k] \in Nat
    BY <1>2, <1>3, ElementOfSeq DEF UnreadRight
  <2>2. /\ SubSeq(Unread, n + 1, s_count) \in Seq(Nat)
        /\ Len(SubSeq(Unread, n + 1, s_count)) = s_count - n
        /\ \A k \in 1 .. s_count - n : SubSeq(Unread, n + 1, s_count)[k] = Unread[k + n]
    BY <1>2, <2>1, SubSeqProperties
  <2>3. \A k \in 1 .. s_count - n : Unread'[k] = Unread[k + n]
    <3>1. UnreadStep
      BY NextUnread DEF Next
    <3>2. (IF s_count' < s_count THEN s_count - s_count' ELSE 0) = n
      BY <1>1, <1>2
    <3> QED BY <3>1, <3>2 DEF UnreadStep
  <2>4. Unread' \in Seq(Nat) /\ Len(Unread') = s_count - n
    BY <1>1, <1>3 DEF UnreadRight
  <2>5. Len(Unread) = s_count
    BY <1>3 DEF UnreadRight
  <2> QED BY <2>2, <2>3, <2>4, <2>5, SeqEqual
<1>7. Pushed' = Pushed
  BY <1>1 DEF Pushed
<1> QED BY <1>1, <1>4, <1>5, <1>6, <1>7 DEF Fifo!Deliver

LEMMA StepRefines ==
  IInv /\ IInv' /\ FifoInv /\ FifoInv' /\ [Next]_vars
    => [Fifo!Accept \/ Fifo!Deliver \/ Fifo!Disturbed]_Fifo!vars
<1> SUFFICES ASSUME IInv, IInv', FifoInv, FifoInv', [Next]_vars
             PROVE  Fifo!Accept \/ Fifo!Deliver \/ Fifo!Disturbed \/ UNCHANGED Fifo!vars
  OBVIOUS
<1>1. CASE disturbed'
  BY <1>1 DEF Fifo!Disturbed, IInv, TypeOK
<1>2. CASE ~disturbed' /\ Next
  <2>1. PushDone => ~disturbed
    BY <1>2 DEF PushDone
  <2>2. ~SpiError
    BY <1>2 DEF SpiError
  <2> QED BY <1>2, <2>1, <2>2, HiddenRefines, PushRefines, ReadRefines DEF Next, Main
<1>3. CASE UNCHANGED vars
  BY <1>3 DEF vars, spiVars, ringVars, mainVars, Fifo!vars, Unread, Pushed, Wrap
<1> QED BY <1>1, <1>2, <1>3

(* Two DMA buffers, two flags, a preference for buffer 0, a copy that runs while *)
(* the DMA fills, and three cursors: until something comes too late they are one *)
(* bounded queue, of any size.                                                  *)
THEOREM ImplementsFifo == Spec => IsFifo
BY InitIInv, NextIInv, InitFifo, NextFifo, InitRefines, StepRefines, PTL
   DEF Spec, IsFifo, Fifo!Spec
=============================================================================
