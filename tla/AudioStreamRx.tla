--------------------------- MODULE AudioStreamRx ---------------------------
(***************************************************************************)
(* Reception of the PCM broadcast on the STM32                             *)
(* (services/audio/audio_stream_rx.c).  The Raspberry Pi, SPI master,      *)
(* clocks bytes in; a DMA transfer stores them in one of two block buffers *)
(* (ping-pong); the transfer-complete interrupt marks the block ready and  *)
(* arms the DMA on the other buffer; the main loop takes one ready block   *)
(* per turn and copies it into a byte ring, which the player reads.        *)
(*                                                                         *)
(* Interrupts preempt the main loop anywhere except between __disable_irq  *)
(* and __enable_irq.  The ring is touched by the main loop only, so a call *)
(* that works on the ring is one step; the copy of a block reads a buffer  *)
(* the DMA may be writing, so it is a step per byte.                       *)
(*                                                                         *)
(* A byte is the number of its place in the Pi's stream (1, 2, ...), 0 is  *)
(* the byte left by memset: order, loss and duplication stay visible.      *)
(***************************************************************************)
EXTENDS Integers, FiniteSets

CONSTANTS
  RingSize,    \* AUDIO_STREAM_RING_SIZE (32768)
  BlockSize,   \* AUDIO_STREAM_RX_BLOCK_SIZE (1920)
  ReadLen,     \* bytes the player asks for at a time (8192)
  MaxSent,     \* bound: bytes the Pi sends
  MaxErrors,   \* bound: SPI errors
  MaxStopped   \* bound: calls of HAL_SPI_Receive_DMA that fail

ASSUME RxAssumption ==
  /\ RingSize \in Nat \ {0} /\ BlockSize \in Nat \ {0} /\ ReadLen \in Nat \ {0}
  /\ MaxSent \in Nat /\ MaxErrors \in Nat /\ MaxStopped \in Nat

\* All three sizes are whole 16-bit samples, as 32768, 1920 and 8192 are.
ASSUME SampleAssumption ==
  RingSize % 2 = 0 /\ BlockSize % 2 = 0 /\ ReadLen % 2 = 0

VARIABLES
  sent,                \* bytes the Pi has clocked out
  s_spiRxBuf,          \* the two DMA buffers
  s_dmaBufIndex,       \* buffer the DMA writes
  s_readyFlags,        \* blocks complete and not yet taken
  dmaOn,               \* a DMA transfer is armed
  dmaPos,              \* bytes of it received
  s_ringBuf, s_write, s_read, s_count,
  s_rxBlockCount, s_overflowDropCount, s_spiErrorCount,
  stopped,             \* failed calls of HAL_SPI_Receive_DMA
  pc,                  \* main loop: "loop", or "copy" inside PushBlock
  bufIndex, pushLen, copyPos,   \* locals of Process and PushBlock
  delivered,           \* bytes the player got by its last read (history)
  disturbed            \* history: an interrupt or the main loop came too late
                       \* for the master's pace, or the SPI reported an error

spiVars  == <<s_spiRxBuf, s_dmaBufIndex, s_readyFlags, dmaOn, dmaPos,
              s_rxBlockCount, s_spiErrorCount, stopped>>
ringVars == <<s_ringBuf, s_write, s_read, s_count, s_overflowDropCount>>
mainVars == <<pc, bufIndex, pushLen, copyPos>>
vars     == <<sent, spiVars, ringVars, mainVars, delivered, disturbed>>

Bufs  == {0, 1}
Slots == 0 .. RingSize - 1
Least(a, b) == IF a <= b THEN a ELSE b

\* Index arithmetic of the ring: one conditional subtraction, never a modulo.
Wrap_Late(i) == IF i > RingSize THEN i - RingSize ELSE i
Wrap(i) == IF i >= RingSize THEN i - RingSize ELSE i

\* Bytes of a block that PushBlock stores.
PushLen_NoClamp == BlockSize
PushLen_SpareSlot == Least(BlockSize, RingSize - 1 - s_count)
PushLen == Least(BlockSize, RingSize - s_count)

\* The buffer armed after buffer b is complete.
OtherBuf_Same(b) == b
OtherBuf(b) == 1 - b

\* TakeReadyBlock looks at buffer 0 first.
Takeable_FirstOnly(b) == b = 0 /\ s_readyFlags[b] = 1
Takeable(b) == s_readyFlags[b] = 1 /\ (b = 1 => s_readyFlags[0] = 0)

\* Outcome of HAL_SPI_Receive_DMA on the buffer the caller passes.
StartDma ==
  /\ dmaPos' = 0
  /\ \/ dmaOn' = TRUE /\ UNCHANGED stopped
     \/ stopped < MaxStopped /\ dmaOn' = FALSE /\ stopped' = stopped + 1

-----------------------------------------------------------------------------
(* The state after AudioStreamRx_Init and AudioStreamRx_Start. *)
Init ==
  /\ sent = 0
  /\ s_spiRxBuf = [b \in Bufs |-> [k \in 0 .. BlockSize - 1 |-> 0]]
  /\ s_dmaBufIndex = 0
  /\ s_readyFlags = [b \in Bufs |-> 0]
  /\ dmaOn = TRUE /\ dmaPos = 0
  /\ s_ringBuf = [i \in Slots |-> 0]
  /\ s_write = 0 /\ s_read = 0 /\ s_count = 0
  /\ s_rxBlockCount = 0 /\ s_overflowDropCount = 0 /\ s_spiErrorCount = 0
  /\ stopped = 0
  /\ pc = "loop" /\ bufIndex = 0 /\ pushLen = 0 /\ copyPos = 0
  /\ delivered = <<>> /\ disturbed = FALSE

(* The Pi clocks one byte.  Without an armed transfer with room the byte is *)
(* lost: the master does not wait for the slave.                            *)
SpiByte ==
  /\ sent < MaxSent
  /\ sent' = sent + 1
  /\ \/ /\ dmaOn /\ dmaPos < BlockSize
        /\ s_spiRxBuf' = [s_spiRxBuf EXCEPT ![s_dmaBufIndex][dmaPos] = sent']
        /\ dmaPos' = dmaPos + 1
        /\ UNCHANGED disturbed
     \/ /\ ~(dmaOn /\ dmaPos < BlockSize)
        /\ disturbed' = TRUE
        /\ UNCHANGED <<s_spiRxBuf, dmaPos>>
  /\ UNCHANGED <<s_dmaBufIndex, s_readyFlags, dmaOn, s_rxBlockCount,
                 s_spiErrorCount, stopped, ringVars, mainVars, delivered>>

(* The main loop still needs buffer b: its block is ready or being copied. *)
InUse(b) == s_readyFlags[b] = 1 \/ (pc = "copy" /\ bufIndex = b)

(* HAL_SPI_RxCpltCallback. *)
RxCplt ==
  LET done == s_dmaBufIndex
      next == OtherBuf(done)
  IN  /\ dmaOn /\ dmaPos = BlockSize
      /\ s_rxBlockCount' = s_rxBlockCount + 1
      /\ s_readyFlags' = [s_readyFlags EXCEPT ![done] = 1]
      /\ s_dmaBufIndex' = next
      /\ StartDma
      /\ s_spiErrorCount' = IF dmaOn' THEN s_spiErrorCount
                                      ELSE s_spiErrorCount + 1
      /\ disturbed' = (disturbed \/ InUse(next))
      /\ UNCHANGED <<sent, s_spiRxBuf, ringVars, mainVars, delivered>>

(* HAL_SPI_ErrorCallback: both buffers are given up, reception restarts in  *)
(* buffer 0 wherever the master is in its block.                            *)
SpiError ==
  /\ dmaOn
  /\ s_spiErrorCount < MaxErrors
  /\ s_spiErrorCount' = s_spiErrorCount + 1
  /\ s_dmaBufIndex' = 0
  /\ s_readyFlags' = [b \in Bufs |-> 0]
  /\ StartDma
  /\ disturbed' = TRUE
  /\ UNCHANGED <<sent, s_spiRxBuf, s_rxBlockCount, ringVars, mainVars, delivered>>

-----------------------------------------------------------------------------
(* AudioStreamRx_Process, first half: TakeReadyBlock, which looks at buffer *)
(* 0 first, and the length PushBlock settles on entry.                      *)
TakeReadyBlock ==
  /\ pc = "loop"
  /\ \E b \in Bufs :
       /\ Takeable(b)
       /\ s_readyFlags' = [s_readyFlags EXCEPT ![b] = 0]
       /\ bufIndex' = b
  /\ pushLen' = PushLen
  /\ copyPos' = 0
  /\ pc' = "copy"
  /\ UNCHANGED <<sent, s_spiRxBuf, s_dmaBufIndex, dmaOn, dmaPos, s_rxBlockCount,
                 s_spiErrorCount, stopped, ringVars, delivered, disturbed>>

(* One byte of the memcpys of PushBlock: the second one starts at slot 0. *)
CopyByte ==
  /\ pc = "copy" /\ copyPos < pushLen
  /\ s_ringBuf' = [s_ringBuf EXCEPT ![Wrap(s_write + copyPos)] =
                                       s_spiRxBuf[bufIndex][copyPos]]
  /\ copyPos' = copyPos + 1
  /\ UNCHANGED <<sent, spiVars, s_write, s_read, s_count, s_overflowDropCount,
                 pc, bufIndex, pushLen, delivered, disturbed>>

(* The end of PushBlock: the bytes become visible, the rest is counted as   *)
(* dropped.                                                                 *)
PushDone ==
  /\ pc = "copy" /\ copyPos = pushLen
  /\ s_write' = Wrap(s_write + pushLen)
  /\ s_count' = s_count + pushLen
  /\ s_overflowDropCount' = s_overflowDropCount + (BlockSize - pushLen)
  /\ pc' = "loop"
  /\ UNCHANGED <<sent, spiVars, s_ringBuf, s_read, bufIndex, pushLen, copyPos,
                 delivered, disturbed>>

(* AudioStreamRx_Read, called by the player from the main loop. *)
Read ==
  LET readLen == Least(ReadLen, s_count)
  IN  /\ pc = "loop"
      /\ delivered' = [k \in 1 .. readLen |-> s_ringBuf[Wrap(s_read + k - 1)]]
      /\ s_read' = Wrap(s_read + readLen)
      /\ s_count' = s_count - readLen
      /\ UNCHANGED <<sent, spiVars, s_ringBuf, s_write, s_overflowDropCount, mainVars,
                     disturbed>>

Main == TakeReadyBlock \/ CopyByte \/ PushDone
Next == SpiByte \/ RxCplt \/ SpiError \/ Main \/ Read

Spec == Init /\ [][Next]_vars

(* The main loop never stops (main.c:154) and interrupts are served. *)
FairSpec == Spec /\ WF_vars(Main) /\ WF_vars(RxCplt)

-----------------------------------------------------------------------------
(* Type invariant. *)
TypeOK ==
  /\ sent \in 0 .. MaxSent
  /\ s_spiRxBuf \in [Bufs -> [0 .. BlockSize - 1 -> Nat]]
  /\ s_dmaBufIndex \in Bufs /\ s_readyFlags \in [Bufs -> {0, 1}]
  /\ dmaOn \in BOOLEAN /\ dmaPos \in 0 .. BlockSize
  /\ s_ringBuf \in [Slots -> Nat]
  /\ s_write \in Slots /\ s_read \in Slots /\ s_count \in 0 .. RingSize
  /\ s_rxBlockCount \in Nat /\ s_overflowDropCount \in Nat
  /\ s_spiErrorCount \in Nat /\ stopped \in 0 .. MaxStopped
  /\ pc \in {"loop", "copy"} /\ bufIndex \in Bufs
  /\ pushLen \in 0 .. BlockSize /\ copyPos \in 0 .. BlockSize
  /\ disturbed \in BOOLEAN

(* The cursors agree with the fill count, and a push in progress fits the   *)
(* free part of the ring: s_write, s_read and s_count are three variables   *)
(* for two facts, and Read and PushBlock each update two of them.           *)
RingInv ==
  /\ s_write = Wrap(s_read + s_count)
  /\ pc = "copy" => pushLen <= RingSize - s_count /\ copyPos <= pushLen

(* A 16-bit sample is never split, whatever is dropped on overflow: the     *)
(* fill count and the read position stay whole samples, so that after an    *)
(* overflow the player does not go on with the bytes of every sample        *)
(* swapped (AudioStreamRx_PushBlock stores what fits, byte-wise).           *)
WholeSamples ==
  s_count % 2 = 0 /\ s_read % 2 = 0

(* Bytes accepted and not yet read, oldest first. *)
Unread == [k \in 1 .. s_count |-> s_ringBuf[Wrap(s_read + k - 1)]]

(* A byte accepted into the ring stays as it is until it is read: whatever  *)
(* interrupt or copy runs, the unread bytes after a step are those before   *)
(* it, less what Read took at the front, plus what PushBlock added.         *)
UnreadBytesKept ==
  [][LET gone == IF s_count' < s_count THEN s_count - s_count' ELSE 0
     IN  \A k \in 1 .. s_count - gone : Unread'[k] = Unread[k + gone]]_vars

(* Blocks the main loop has moved into the ring. *)
Pushed == s_rxBlockCount - Cardinality({b \in Bufs : s_readyFlags[b] = 1})
                         - (IF pc = "copy" THEN 1 ELSE 0)

Fifo == INSTANCE PcmFifo WITH
          Capacity <- RingSize, queue <- Unread, accepted <- Pushed

(* Until an interrupt or the main loop is late or the SPI fails, the two    *)
(* buffers, the ring and their flags are one bounded FIFO: the player gets  *)
(* the bytes in the order sent, once, complete up to counted overflow.      *)
IsFifo == Fifo!Spec

(* A block marked ready by the interrupt is moved out by the main loop,     *)
(* whichever buffer it is in, as long as no deadline is missed (afterwards  *)
(* TakeReadyBlock, which looks at buffer 0 first, may pass over buffer 1    *)
(* until the error handler gives the block up).                             *)
ReadyBlockTaken ==
  \A b \in Bufs : s_readyFlags[b] = 1 ~> (s_readyFlags[b] = 0 \/ disturbed)
=============================================================================
