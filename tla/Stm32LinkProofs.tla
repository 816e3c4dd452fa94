---------------------------- MODULE Stm32LinkProofs ----------------------------
(***************************************************************************)
(* Proofs about the serial line, for any commands, number of frames and    *)
(* losses: which answers the Pi accepts and what reaches the panel.        *)
(***************************************************************************)
EXTENDS Stm32Link, TLAPS

Packet == Numbers \X Numbers \X Numbers \X Numbers

\* A frame that passed the test of CMD_SET_LED is applied as it was tested,
\* since the handler works on its copy; the copy ends with the fourth part.
LevelInv ==
  /\ LevelsInRange
  /\ pc = "copy" => copied <= 3
  /\ pc = "apply" /\ Kind(pkt[1]) = "LED" => Low(pkt[3], "head") /\ Low(pkt[4], "tail")

\* What is as long as a sensor value and has the number of a sensor in its place
\* is one: a NACK with such a number is shorter, a list has none.
Honest(a) ==
  \/ a.type \in {"junk", "STACK"}
  \/ (a.size >= 9 /\ a.echo \in {"CO", "CO2"}) => a.type = "RESP_SENSOR"

KindInv ==
  /\ AnswerOfItsKind
  /\ Honest(out) /\ \A i \in 1 .. Len(rxq) : Honest(rxq[i])

\* The flush leaves nothing in the buffer, and only what is being transmitted
\* then or later comes in until the request is released.
NewInv ==
  /\ AnswerIsNew
  /\ pc = "reply" => runs >= 1 /\ out.run = runs
  /\ pc # "reply" => out = NoAnswer
  /\ asked => holder # None
  /\ holder # None => /\ \A i \in 1 .. Len(rxq) : rxq[i].run > floor
                      /\ pc = "reply" => runs > floor

IInv == TypeOK /\ LevelInv /\ KindInv /\ NewInv

LEMMA InitHolds == Init => IInv
<1> SUFFICES ASSUME Init PROVE IInv
  OBVIOUS
<1> USE LinkAssumption DEF Init
<1>1. Numbers = {0}
  BY DEF Numbers
<1>2. NoAnswer \in Answers /\ Honest(NoAnswer)
  BY DEF NoAnswer, Answers, Honest, None, Echoes
<1>3. {rxPkt, pendingPkt, pkt} \subseteq Packet /\ panel \in Numbers \X Numbers
  BY <1>1 DEF Packet, NoPacket
<1>4. TypeOK
  <2>1. sent \in Seq(Frame) /\ toStm \in Seq(Numbers \ {0}) /\ rxq \in Seq(Answers)
    OBVIOUS
  <2>2. {rxPkt, pendingPkt, pkt} \subseteq Numbers \X Numbers \X Numbers \X Numbers
    BY <1>3 DEF Packet
  <2>3. got.kind = None /\ got.answer = NoAnswer /\ None \in Requests \cup {None}
    OBVIOUS
  <2>4. pktReady \in BOOLEAN /\ pc \in {"idle", "copy", "check", "apply", "reply"}
    OBVIOUS
  <2>5. copied \in 0 .. 4 /\ taken \in Numbers /\ runs \in Nat /\ floor \in 0 .. runs
        /\ lost \in 0 .. MaxLost
    BY <1>1
  <2>6. out \in Answers /\ got.answer \in Answers /\ holder \in Requests \cup {None}
        /\ asked \in BOOLEAN
    BY <1>2, <2>3
  <2> HIDE DEF Init
  <2> QED BY <1>3, <2>1, <2>2, <2>3, <2>4, <2>5, <2>6 DEF TypeOK
<1>5. LevelInv
  BY DEF LevelInv, LevelsInRange, Low
<1>6. KindInv
  BY <1>2 DEF KindInv, AnswerOfItsKind
<1>7. NewInv
  BY DEF NewInv, AnswerIsNew
<1> QED BY <1>4, <1>5, <1>6, <1>7 DEF IInv

-----------------------------------------------------------------------------
(* Frames keep their numbers when another one is written. *)
LEMMA WriteGrows ==
  ASSUME TypeOK, NEW frame \in Frame, Write(frame)
  PROVE  /\ sent' \in Seq(Frame) /\ Len(sent') = Len(sent) + 1
         /\ \A id \in Numbers : Kind(id)' = Kind(id)
         /\ \A id \in Numbers : \A part \in {"head", "tail"} : Low(id, part)' = Low(id, part)
         /\ Numbers \subseteq Numbers'
         /\ toStm' \in Seq(Numbers' \ {0})
<1>1. sent' = Append(sent, frame) /\ toStm' = Append(toStm, Len(sent'))
  BY DEF Write
<1>2. sent \in Seq(Frame) /\ toStm \in Seq(Numbers \ {0})
  BY DEF TypeOK
<1>3. /\ sent' \in Seq(Frame) /\ Len(sent') = Len(sent) + 1 /\ Len(sent) \in Nat
      /\ \A i \in 1 .. Len(sent) : sent'[i] = sent[i]
  BY <1>1, <1>2
<1>4. Numbers \subseteq Numbers' /\ Len(sent') \in Numbers' \ {0}
  BY <1>3 DEF Numbers
<1>5. toStm \in Seq(Numbers' \ {0})
  BY <1>2, <1>4
<1>6. toStm' \in Seq(Numbers' \ {0})
  BY <1>1, <1>4, <1>5
<1>7. \A id \in Numbers : id = 0 \/ sent'[id] = sent[id]
  BY <1>3 DEF Numbers
<1>8. \A id \in Numbers : Kind(id)' = Kind(id)
  BY <1>7 DEF Kind
<1>9. \A id \in Numbers : \A part \in {"head", "tail"} : Low(id, part)' = Low(id, part)
  BY <1>7 DEF Low
<1> QED BY <1>3, <1>4, <1>6, <1>8, <1>9

(* What the STM32 holds is not touched by the Pi's writing.                     *)
LEMMA WriteKeeps ==
  ASSUME IInv, NEW frame \in Frame, Write(frame), UNCHANGED stmVars
  PROVE  /\ {rxPkt, pendingPkt, pkt}' \subseteq Packet' /\ panel' \in (Numbers \X Numbers)'
         /\ taken' \in Numbers' /\ LevelInv'
<1>1. /\ {rxPkt, pendingPkt, pkt} \subseteq Packet /\ panel \in Numbers \X Numbers
      /\ taken \in Numbers
  BY DEF IInv, TypeOK, Packet
<1>2. UNCHANGED <<rxPkt, pendingPkt, pktReady, pc, copied, pkt, panel, taken, runs>>
  BY DEF stmVars
<1>3. Numbers \subseteq Numbers'
  BY WriteGrows DEF IInv
<1>4. {rxPkt, pendingPkt, pkt}' \subseteq Packet' /\ panel' \in (Numbers \X Numbers)'
  BY <1>1, <1>2, <1>3 DEF Packet
<1>5. /\ pkt[1] \in Numbers /\ pkt[3] \in Numbers /\ pkt[4] \in Numbers
      /\ panel[1] \in Numbers /\ panel[2] \in Numbers
  BY <1>1 DEF Packet
<1>6. LevelInv'
  BY <1>2, <1>5, WriteGrows DEF IInv, LevelInv, LevelsInRange
<1> QED BY <1>1, <1>2, <1>3, <1>4, <1>6

LEMMA CommandHolds ==
  ASSUME IInv, NEW frame \in Commands, Command(frame)
  PROVE  IInv'
<1>1. frame \in Frame
  BY LinkAssumption
<1>2. Write(frame) /\ UNCHANGED stmVars /\ UNCHANGED <<out, rxq, holder, asked, floor, got, lost>>
  BY DEF Command
<1>3. UNCHANGED <<rxPkt, pendingPkt, pktReady, pc, copied, pkt, panel, taken, runs>>
  BY <1>2 DEF stmVars
<1>4. TypeOK'
  BY <1>1, <1>2, <1>3, WriteGrows, WriteKeeps DEF IInv, TypeOK, Packet
<1>5. LevelInv'
  BY <1>1, <1>2, WriteKeeps
<1>6. KindInv' /\ NewInv'
  BY <1>2, <1>3 DEF IInv, KindInv, AnswerOfItsKind, NewInv, AnswerIsNew
<1> QED BY <1>4, <1>5, <1>6 DEF IInv

(* The flush empties the buffer; only what is being sent now can still come.    *)
LEMMA RequestHolds ==
  ASSUME IInv, NEW kind \in Requests, Request(kind)
  PROVE  IInv'
<1>1. /\ UNCHANGED <<sent, toStm, stmVars, got, lost>>
      /\ holder' = kind /\ asked' = FALSE /\ rxq' = <<>>
      /\ floor' = IF pc = "reply" THEN runs - 1 ELSE runs
      /\ \/ UNCHANGED out
         \/ out.type # None /\ out' = [out EXCEPT !.type = "junk"]
  BY DEF Request, Flushed
<1>2. /\ UNCHANGED <<rxPkt, pendingPkt, pktReady, pc, copied, pkt, panel, taken, runs>>
      /\ Numbers' = Numbers
  BY <1>1 DEF stmVars, Numbers
<1>3. floor' \in 0 .. runs' /\ (pc = "reply" => runs > floor')
  BY <1>1, <1>2 DEF IInv, NewInv, TypeOK
<1>4. out' \in Answers /\ out'.run = out.run /\ Honest(out') /\ (out = NoAnswer => out' = NoAnswer)
  <2>1. out \in Answers /\ Honest(out)
    BY DEF IInv, TypeOK, KindInv
  <2>2. CASE UNCHANGED out
    BY <2>1, <2>2
  <2>3. CASE out.type # None /\ out' = [out EXCEPT !.type = "junk"]
    BY <2>1, <2>3 DEF Answers, Honest, NoAnswer
  <2> QED BY <1>1, <2>2, <2>3
<1>5. rxq' \in Seq(Answers) /\ Len(rxq') = 0
  BY <1>1
<1>6. TypeOK'
  BY <1>1, <1>2, <1>3, <1>4, <1>5 DEF IInv, TypeOK
<1>7. LevelInv'
  BY <1>1, <1>2 DEF IInv, LevelInv, LevelsInRange, Low, Kind
<1>8. KindInv' /\ NewInv'
  BY <1>1, <1>2, <1>3, <1>4, <1>5 DEF IInv, KindInv, AnswerOfItsKind, NewInv, AnswerIsNew
<1> QED BY <1>6, <1>7, <1>8 DEF IInv

(* The write comes later, and leaves what has come in since the flush.          *)
LEMMA AskHolds ==
  ASSUME IInv, Ask
  PROVE  IInv'
<1> DEFINE frame == [kind |-> holder, len |-> 0, head |-> TRUE, tail |-> TRUE]
<1>1. frame \in Frame
  BY DEF Frame, Ask, IInv, TypeOK
<1>2. /\ Write(frame) /\ holder # None /\ asked' = TRUE
      /\ UNCHANGED stmVars /\ UNCHANGED <<out, rxq, holder, floor, got, lost>>
  BY DEF Ask
<1>3. UNCHANGED <<rxPkt, pendingPkt, pktReady, pc, copied, pkt, panel, taken, runs>>
  BY <1>2 DEF stmVars
<1> HIDE DEF frame
<1>4. TypeOK'
  BY <1>1, <1>2, <1>3, WriteGrows, WriteKeeps DEF IInv, TypeOK, Packet
<1>5. LevelInv'
  BY <1>1, <1>2, WriteKeeps
<1>6. KindInv' /\ NewInv'
  BY <1>2, <1>3 DEF IInv, KindInv, AnswerOfItsKind, NewInv, AnswerIsNew
<1> QED BY <1>4, <1>5, <1>6 DEF IInv

-----------------------------------------------------------------------------
(* The Pi stops waiting: what it takes lies in the buffer and was put there     *)
(* after the flush.                                                             *)
LEMMA AnswerHolds ==
  ASSUME IInv, ReadAnswer \/ ReadJunk \/ Timeout
  PROVE  IInv'
<1>1. /\ UNCHANGED <<sent, toStm, stmVars, out, lost>>
      /\ holder # None
      /\ \/ holder' = None /\ asked' = FALSE /\ floor' = 0
         \/ UNCHANGED <<holder, asked, floor>>
      /\ rxq' \in {rxq, Tail(rxq)} /\ (rxq' # rxq => rxq # <<>>)
      /\ \/ UNCHANGED got
         \/ /\ rxq # <<>> /\ Head(rxq).type # "junk" /\ Accepts(holder, Head(rxq))
            /\ got' = [kind |-> holder, answer |-> Head(rxq), floor |-> floor]
  BY DEF IInv, NewInv, ReadAnswer, ReadJunk, Timeout, Release
<1>2. UNCHANGED <<rxPkt, pendingPkt, pktReady, pc, copied, pkt, panel, taken, runs>>
  BY <1>1 DEF stmVars
<1>3. rxq \in Seq(Answers) /\ holder \in Requests
  BY <1>1 DEF IInv, TypeOK
<1>4. /\ rxq' \in Seq(Answers) /\ Len(rxq') \in Nat
      /\ \A i \in 1 .. Len(rxq') : \E j \in 1 .. Len(rxq) : rxq'[i] = rxq[j]
  <2>1. CASE rxq' = rxq
    BY <1>3, <2>1
  <2>2. CASE rxq' = Tail(rxq) /\ rxq # <<>>
    <3>1. /\ rxq' \in Seq(Answers) /\ Len(rxq') \in Nat
          /\ \A i \in 1 .. Len(rxq') : i + 1 \in 1 .. Len(rxq) /\ rxq'[i] = rxq[i + 1]
      BY <1>3, <2>2
    <3> QED BY <3>1
  <2> QED BY <1>1, <2>1, <2>2
<1>5. rxq # <<>> => Head(rxq) = rxq[1] /\ 1 \in 1 .. Len(rxq) /\ Head(rxq) \in Answers
  BY <1>3
<1>6. got'.kind \in Requests \cup {None} /\ got'.answer \in Answers
  BY <1>1, <1>3, <1>5 DEF IInv, TypeOK
<1>7. TypeOK'
  <2>1. Numbers' = Numbers
    BY <1>1 DEF Numbers
  <2>2. floor' \in 0 .. runs /\ holder' \in Requests \cup {None}
    BY <1>1 DEF IInv, TypeOK
  <2>3. asked' \in BOOLEAN
    BY <1>1, Zenon DEF IInv, TypeOK
  <2> QED BY <1>1, <1>2, <1>4, <1>6, <2>1, <2>2, <2>3 DEF IInv, TypeOK
<1>8. LevelInv'
  BY <1>1, <1>2 DEF IInv, LevelInv, LevelsInRange, Low, Kind
<1>9. KindInv'
  <2>1. \A i \in 1 .. Len(rxq') : Honest(rxq'[i])
    BY <1>4 DEF IInv, KindInv
  <2>2. CASE UNCHANGED got
    BY <1>1, <2>1, <2>2 DEF IInv, KindInv, AnswerOfItsKind
  <2>3. CASE ~UNCHANGED got
    <3>1. /\ got'.kind = holder /\ got'.answer = Head(rxq) /\ Head(rxq).type # "junk"
          /\ Accepts(holder, Head(rxq)) /\ Honest(Head(rxq))
      BY <1>1, <1>5, <2>3 DEF IInv, KindInv
    <3>2. AnswerOfItsKind'
      BY <1>3, <3>1 DEF AnswerOfItsKind, Accepts, Honest, Requests
    <3> QED BY <1>1, <2>1, <3>2 DEF IInv, KindInv
  <2> QED BY <2>2, <2>3
<1>10. NewInv'
  <2>1. AnswerIsNew'
    BY <1>1, <1>5 DEF IInv, NewInv, AnswerIsNew
  <2>2. holder' # None => /\ \A i \in 1 .. Len(rxq') : rxq'[i].run > floor'
                          /\ pc = "reply" => runs > floor'
    BY <1>1, <1>4 DEF IInv, NewInv
  <2> QED BY <1>1, <1>2, <2>1, <2>2 DEF IInv, NewInv
<1> QED BY <1>7, <1>8, <1>9, <1>10 DEF IInv

-----------------------------------------------------------------------------
(* The interrupt writes rxPkt and pendingPkt, never the copy in hand.           *)
LEMMA InterruptHolds ==
  ASSUME IInv, Arrive \/ Garbled
  PROVE  IInv'
<1>1. /\ toStm # <<>> /\ toStm' = Tail(toStm) /\ pktReady' \in {pktReady, TRUE}
      /\ rxPkt' \in {rxPkt, Received(Head(toStm))} /\ pendingPkt' \in {pendingPkt, rxPkt'}
      /\ UNCHANGED <<sent, holder, asked, floor, got, pc, copied, pkt, panel, taken, out, runs, rxq>>
      /\ \/ UNCHANGED lost
         \/ lost < MaxLost /\ lost' = lost + 1
  BY DEF Arrive, Garbled, piVars
<1>2. Head(toStm) \in Numbers /\ Tail(toStm) \in Seq(Numbers \ {0})
  BY <1>1 DEF IInv, TypeOK
<1>3. rxPkt \in Packet /\ pendingPkt \in Packet
  BY DEF IInv, TypeOK, Packet
<1>4. rxPkt[3] \in Numbers /\ rxPkt[4] \in Numbers
  BY <1>3 DEF Packet
<1>5. Received(Head(toStm)) \in Packet
  BY <1>2, <1>4 DEF Received, Packet
<1>6. rxPkt' \in Packet /\ pendingPkt' \in Packet
  BY <1>1, <1>3, <1>5
<1>7. lost' \in 0 .. MaxLost
  BY <1>1, LinkAssumption DEF IInv, TypeOK
<1>8. pktReady' \in BOOLEAN
  BY <1>1 DEF IInv, TypeOK
<1>9. TypeOK'
  <2>1. Numbers' = Numbers
    BY <1>1 DEF Numbers
  <2> QED BY <1>1, <1>2, <1>6, <1>7, <1>8, <2>1 DEF IInv, TypeOK, Packet
<1>10. LevelInv' /\ KindInv' /\ NewInv'
  BY <1>1 DEF IInv, LevelInv, LevelsInRange, Low, Kind, KindInv, AnswerOfItsKind, NewInv, AnswerIsNew
<1> QED BY <1>9, <1>10 DEF IInv

-----------------------------------------------------------------------------
(* The handler up to the test: the copy is made of received parts.              *)
LEMMA CopyHolds ==
  ASSUME IInv, Take \/ CopyPart
  PROVE  IInv'
<1>1. UNCHANGED <<sent, holder, asked, floor, got, toStm, rxPkt, pendingPkt, panel, out, runs, rxq, lost>>
  BY DEF Take, CopyPart, piVars
<1>2. Numbers' = Numbers
  BY <1>1 DEF Numbers
<1>3. /\ pktReady' \in BOOLEAN /\ pc \in {"idle", "copy"} /\ pc' \in {"copy", "check"}
      /\ copied' \in 0 .. 4 /\ pkt' \in Packet /\ taken' \in Numbers
      /\ pc' = "copy" => copied' <= 3
  <2>1. CASE Take
    BY <2>1 DEF Take, FlagAfter, IInv, TypeOK, Packet
  <2>2. CASE CopyPart
    <3>1. pkt \in Packet /\ pendingPkt \in Packet /\ Len(pkt) = 4
      BY DEF IInv, TypeOK, Packet
    <3>2. copied \in 0 .. 3
      BY <2>2 DEF CopyPart, IInv, TypeOK, LevelInv
    <3>3. pkt' = [pkt EXCEPT ![copied + 1] = pendingPkt[copied + 1]]
      BY <2>2 DEF CopyPart
    <3>4. pkt' \in Packet
      BY <3>1, <3>2, <3>3 DEF Packet
    <3>5. pkt'[1] \in Numbers
      BY <3>4 DEF Packet
    <3> QED BY <2>2, <3>1, <3>2, <3>4, <3>5 DEF CopyPart, FlagAfter, IInv, TypeOK
  <2> QED BY <2>1, <2>2
<1>4. TypeOK'
  BY <1>1, <1>2, <1>3 DEF IInv, TypeOK, Packet
<1>5. LevelInv' /\ KindInv' /\ NewInv'
  BY <1>1, <1>3 DEF IInv, LevelInv, LevelsInRange, Low, KindInv, AnswerOfItsKind, NewInv, AnswerIsNew
<1> QED BY <1>4, <1>5 DEF IInv

(* The test.  Only a level that is one gets to "apply"; the answer is numbered  *)
(* behind all that have been sent.                                              *)
LEMMA CheckHolds ==
  ASSUME IInv, Check
  PROVE  IInv'
<1> USE DEF InHand
<1>1. /\ pc = "check"
      /\ UNCHANGED <<sent, holder, asked, floor, got, toStm, rxPkt, pendingPkt, pktReady, copied, pkt, panel,
                     taken, rxq, lost>>
      /\ \/ Kind(pkt[1]) \in {"CO", "CO2"} /\ Answer("RESP_SENSOR", Kind(pkt[1]), 9)
         \/ \E len \in ListLens : \/ List("RESP_WAVS", None, len)
                                 \/ \E echo \in Echoes : List("STACK", echo, len)
         \/ Kind(pkt[1]) \in CommandKinds /\ Nack(pkt)
         \/ ~Refused(pkt) /\ pc' = "apply" /\ UNCHANGED <<out, runs>>
  BY DEF Check, piVars
<1>2. Numbers' = Numbers
  BY <1>1 DEF Numbers
<1>3. runs \in Nat /\ out \in Answers /\ Honest(out) /\ out = NoAnswer
  BY <1>1 DEF IInv, TypeOK, KindInv, NewInv
<1>4. ASSUME NEW type \in {"RESP_SENSOR", "RESP_WAVS", "STACK", "NACK", "junk"},
             NEW echo \in Echoes, NEW size \in 0 .. 255, Answer(type, echo, size),
             \/ type \in {"junk", "STACK", "RESP_SENSOR"}
             \/ echo = None
             \/ size < 9
      PROVE  IInv'
  <2>1. /\ out' \in Answers /\ Honest(out') /\ out'.run = runs' /\ runs' = runs + 1
        /\ runs' \in Nat /\ pc' = "reply"
    BY <1>3, <1>4 DEF Answer, Answers, Honest, None
  <2>2. TypeOK'
    BY <1>1, <1>2, <2>1 DEF IInv, TypeOK
  <2>3. LevelInv' /\ KindInv'
    BY <1>1, <2>1 DEF IInv, LevelInv, LevelsInRange, Low, KindInv, AnswerOfItsKind
  <2>4. floor \in 0 .. runs
    BY DEF IInv, TypeOK
  <2>5. NewInv'
    BY <1>1, <1>3, <2>1, <2>4 DEF IInv, NewInv, AnswerIsNew
  <2> QED BY <2>2, <2>3, <2>5 DEF IInv
<1>5. CASE Kind(pkt[1]) \in {"CO", "CO2"} /\ Answer("RESP_SENSOR", Kind(pkt[1]), 9)
  BY <1>4, <1>5 DEF Echoes
<1>6. CASE \E len \in ListLens : \/ List("RESP_WAVS", None, len)
                                \/ \E echo \in Echoes : List("STACK", echo, len)
  <2>1. PICK len \in ListLens : \/ List("RESP_WAVS", None, len)
                               \/ \E echo \in Echoes : List("STACK", echo, len)
    BY <1>6
  <2>2. Transmitted(len) \in 0 .. 255 /\ None \in Echoes
    BY LinkAssumption DEF Transmitted, Echoes
  <2>3. CASE Answer("junk", None, Transmitted(len))
    BY <1>4, <2>2, <2>3
  <2>4. CASE Transmitted(len) = len + 5 /\ Answer("RESP_WAVS", None, len + 5)
    BY <1>4, <2>2, <2>4
  <2>5. CASE Transmitted(len) = len + 5 /\ \E echo \in Echoes : Answer("STACK", echo, len + 5)
    BY <1>4, <2>2, <2>5
  <2> QED BY <2>1, <2>3, <2>4, <2>5 DEF List
<1>7. CASE Kind(pkt[1]) \in CommandKinds /\ Nack(pkt)
  <2>1. PICK echo \in {"CO", "CO2"} : Answer("NACK", echo, 7)
    BY <1>7 DEF Nack
  <2> QED BY <1>4, <2>1 DEF Echoes
<1>8. CASE ~Refused(pkt) /\ pc' = "apply" /\ UNCHANGED <<out, runs>>
  <2>1. TypeOK'
    BY <1>1, <1>2, <1>8 DEF IInv, TypeOK
  <2>2. Kind(pkt[1]) = "LED" => Low(pkt[3], "head") /\ Low(pkt[4], "tail")
    BY <1>8 DEF Refused
  <2>3. LevelInv'
    BY <1>1, <1>8, <2>2 DEF IInv, LevelInv, LevelsInRange, Low, Kind
  <2>4. KindInv' /\ NewInv'
    BY <1>1, <1>3, <1>8 DEF IInv, KindInv, AnswerOfItsKind, NewInv, AnswerIsNew
  <2> QED BY <2>1, <2>3, <2>4 DEF IInv
<1> QED BY <1>1, <1>5, <1>6, <1>7, <1>8

(* Levels that passed the test go to the panel.                                 *)
LEMMA ApplyHolds ==
  ASSUME IInv, Apply
  PROVE  IInv'
<1> USE DEF InHand
<1>1. /\ pc = "apply" /\ pc' = "reply" /\ runs' = runs + 1
      /\ panel' = IF Kind(pkt[1]) = "LED" THEN <<pkt[3], pkt[4]>> ELSE panel
      /\ UNCHANGED <<sent, holder, asked, floor, got, toStm, rxPkt, pendingPkt, pktReady, copied, pkt, taken,
                     rxq, lost>>
  BY DEF Apply, Answer, piVars
<1>2. /\ Numbers' = Numbers /\ runs \in Nat /\ floor \in 0 .. runs
      /\ pkt[3] \in Numbers /\ pkt[4] \in Numbers
  BY <1>1 DEF Numbers, IInv, TypeOK
<1>3. out' \in Answers /\ Honest(out') /\ out'.run = runs'
  <2>1. \E type \in {"ACK", "NACK"}, size \in {6, 7} :
          out' = [type |-> type, echo |-> None, size |-> size, run |-> runs']
    BY <1>1 DEF Apply, Answer
  <2> QED BY <1>1, <1>2, <2>1 DEF Answers, Honest, Echoes, None
<1>4. panel' \in Numbers \X Numbers
  BY <1>1, <1>2 DEF IInv, TypeOK
<1>5. TypeOK'
  BY <1>1, <1>2, <1>3, <1>4 DEF IInv, TypeOK
<1>6. LevelInv'
  BY <1>1 DEF IInv, LevelInv, LevelsInRange, Low
<1>7. KindInv' /\ NewInv'
  BY <1>1, <1>2, <1>3 DEF IInv, KindInv, AnswerOfItsKind, NewInv, AnswerIsNew
<1> QED BY <1>5, <1>6, <1>7 DEF IInv

(* What arrives was started after the flush, damaged or not.                    *)
LEMMA TransmitHolds ==
  ASSUME IInv, Transmit
  PROVE  IInv'
<1>1. /\ pc = "reply" /\ pc' = "idle" /\ out' = NoAnswer
      /\ rxq' \in {rxq, Append(rxq, out), Append(rxq, [out EXCEPT !.type = "junk"])}
      /\ lost' = lost \/ (lost < MaxLost /\ lost' = lost + 1)
      /\ pkt' = NoPacket /\ copied' = 0
      /\ UNCHANGED <<sent, holder, asked, floor, got, toStm, rxPkt, pendingPkt, pktReady, panel, taken,
                     runs>>
  BY DEF Transmit, piVars
<1>2. /\ out \in Answers /\ Honest(out) /\ out.run = runs /\ rxq \in Seq(Answers)
      /\ \A i \in 1 .. Len(rxq) : Honest(rxq[i])
  BY <1>1 DEF IInv, TypeOK, KindInv, NewInv
<1>3. [out EXCEPT !.type = "junk"] \in Answers /\ [out EXCEPT !.type = "junk"].run = runs
      /\ Honest([out EXCEPT !.type = "junk"])
  BY <1>2 DEF Answers, Honest
<1>4. PICK a \in Answers : rxq' \in {rxq, Append(rxq, a)} /\ Honest(a) /\ a.run = runs
  BY <1>1, <1>2, <1>3
<1>5. /\ rxq' \in Seq(Answers)
      /\ \A i \in 1 .. Len(rxq') : rxq'[i] = a \/ (i \in 1 .. Len(rxq) /\ rxq'[i] = rxq[i])
  BY <1>2, <1>4
<1>6. NoAnswer \in Answers /\ Honest(NoAnswer) /\ Numbers' = Numbers
  BY <1>1 DEF NoAnswer, Answers, Honest, None, Numbers, Echoes
<1>7. lost' \in 0 .. MaxLost
  BY <1>1, LinkAssumption DEF IInv, TypeOK
<1>8. TypeOK'
  <2>1. pkt' \in Numbers \X Numbers \X Numbers \X Numbers
    <3>1. 0 \in Numbers
      BY DEF Numbers, IInv, TypeOK
    <3> QED BY <1>1, <3>1 DEF NoPacket
  <2> QED BY <1>1, <1>5, <1>6, <1>7, <2>1 DEF IInv, TypeOK
<1>9. LevelInv'
  BY <1>1 DEF IInv, LevelInv, LevelsInRange, Low
<1>10. KindInv'
  BY <1>1, <1>2, <1>4, <1>5, <1>6 DEF IInv, KindInv, AnswerOfItsKind
<1>11. NewInv'
  BY <1>1, <1>4, <1>5 DEF IInv, NewInv, AnswerIsNew
<1> QED BY <1>8, <1>9, <1>10, <1>11 DEF IInv

LEMMA StepHolds == IInv /\ [Next]_vars => IInv'
<1> SUFFICES ASSUME IInv, [Next]_vars PROVE IInv'
  OBVIOUS
<1>1. CASE UNCHANGED vars
  <2>1. Numbers' = Numbers
    BY <1>1 DEF vars, Numbers
  <2>2. TypeOK'
    BY <1>1, <2>1 DEF vars, IInv, TypeOK
  <2> QED
    BY <1>1, <2>2 DEF vars, IInv, LevelInv, LevelsInRange, Low, Kind, KindInv, AnswerOfItsKind, NewInv,
                      AnswerIsNew
<1> QED BY <1>1, CommandHolds, RequestHolds, AskHolds, AnswerHolds, InterruptHolds, CopyHolds, CheckHolds,
           ApplyHolds, TransmitHolds DEF Next, Process

LEMMA Invariant == Spec => []IInv
BY InitHolds, StepHolds, PTL DEF Spec

-----------------------------------------------------------------------------
(* Every part of a packet comes from a frame that was sent, and the number of   *)
(* bytes transmitted fits the uint8_t that counts them.                         *)
THEOREM TypeCorrect == Spec => []TypeOK
<1>1. IInv => TypeOK
  BY DEF IInv
<1> QED BY <1>1, Invariant, PTL

(* A torn copy of the mailbox cannot bring anything but levels to the panel,    *)
(* since what is tested is what is used.                                        *)
THEOREM LevelsAreLevels == Spec => []LevelsInRange
<1>1. IInv => LevelsInRange
  BY DEF IInv, LevelInv
<1> QED BY <1>1, Invariant, PTL

(* No acknowledgement, list or refusal is taken for a sensor value although the *)
(* command of the frame is never looked at, and none of one sensor for the      *)
(* other's; what a directory that cannot be opened leaves is excepted.          *)
THEOREM KindsMatch == Spec => []AnswerOfItsKind
<1>1. IInv => AnswerOfItsKind
  BY DEF IInv, KindInv
<1> QED BY <1>1, Invariant, PTL

(* The flush keeps late answers to earlier requests out, for any delays and     *)
(* with answers coming in between the flush and the write.                      *)
THEOREM AnswersAreNew == Spec => []AnswerIsNew
<1>1. IInv => AnswerIsNew
  BY DEF IInv, NewInv
<1> QED BY <1>1, Invariant, PTL
=============================================================================
