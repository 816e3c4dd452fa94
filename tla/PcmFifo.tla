------------------------------ MODULE PcmFifo ------------------------------
(***************************************************************************)
(* What the broadcast receiver promises its reader: a bounded FIFO of the  *)
(* bytes the master sent.  Blocks arrive complete and in order; the part   *)
(* of a block that does not fit is dropped; the reader takes bytes from    *)
(* the front.  Nothing is promised once the environment has been disturbed *)
(* (a deadline missed, an SPI error).                                      *)
(***************************************************************************)
EXTENDS Integers, Sequences

CONSTANTS Capacity, BlockSize, ReadLen

VARIABLES queue, accepted, delivered, disturbed

vars == <<queue, accepted, delivered, disturbed>>

Init == queue = <<>> /\ accepted = 0 /\ delivered = <<>> /\ disturbed = FALSE

(* The next block in the master's order, as much of it as fits. *)
Accept ==
  LET room == Capacity - Len(queue)
      len  == IF BlockSize <= room THEN BlockSize ELSE room
  IN  /\ queue' = queue \o [k \in 1 .. len |-> accepted * BlockSize + k]
      /\ accepted' = accepted + 1
      /\ UNCHANGED <<delivered, disturbed>>

Deliver ==
  LET len == IF ReadLen <= Len(queue) THEN ReadLen ELSE Len(queue)
  IN  /\ delivered' = SubSeq(queue, 1, len)
      /\ queue' = SubSeq(queue, len + 1, Len(queue))
      /\ UNCHANGED <<accepted, disturbed>>

Disturbed == disturbed' = TRUE

Spec == Init /\ [][Accept \/ Deliver \/ Disturbed]_vars
=============================================================================
