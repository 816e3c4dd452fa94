---------------------------- MODULE RecordingProofs ----------------------------
(***************************************************************************)
(* No encoder is lost, and the state is typed, for any number of sessions, *)
(* clicks and frames.                                                      *)
(*                                                                         *)
(* What makes it so is which states a posted call can meet: without a      *)
(* recording there is no handle, a session that calibrates has none yet,   *)
(* and a session that is recorded has an encoder only if it holds it.      *)
(***************************************************************************)
EXTENDS Recording, TLAPS

Encoders == [Sessions -> {"none", "running", "closing", "crashed"}]

Handles ==
  /\ encoder \in Encoders
  /\ session \in Sessions \cup {NoSession}
  /\ proc \in Sessions \cup {NoSession}
  /\ recording \in BOOLEAN /\ calibrating \in BOOLEAN

\* A handle is held only while recording, after the calibration, and is the
\* current session's.
HeldWhileRecording ==
  /\ recording => session \in Sessions
  /\ proc # NoSession => recording /\ ~calibrating /\ proc = session

\* Whatever runs or has crashed without being closed is in hand; a session
\* that still calibrates has nothing running yet.
Accounted ==
  /\ NoEncoderLost
  /\ \A s \in Sessions : encoder[s] = "crashed" => proc = s
  /\ recording /\ calibrating => encoder[session] = "none"

IInv == Handles /\ HeldWhileRecording /\ Accounted

-----------------------------------------------------------------------------
LEMMA InitHolds == Init => IInv
BY RecordingAssumption
   DEF Init, IInv, Handles, Encoders, HeldWhileRecording, Accounted, NoEncoderLost

(* The two calls the click and the event queue share. *)
LEMMA StartHolds ==
  ASSUME IInv, StartRecording, UNCHANGED encoder
  PROVE  IInv'
<1> USE DEF IInv, Handles, Encoders, HeldWhileRecording, Accounted, NoEncoderLost
<1>1. CASE MayStart
  <2>1. /\ session' \in Sessions /\ encoder[session'] = "none"
        /\ proc' = NoSession /\ calibrating' = TRUE /\ recording' = TRUE
    BY <1>1 DEF StartRecording
  <2>2. \A s \in Sessions : encoder[s] \notin {"running", "crashed"}
    BY <1>1, RecordingAssumption DEF MayStart
  <2> QED BY <2>1, <2>2
<1>2. CASE ~MayStart
  BY <1>2 DEF StartRecording
<1> QED BY <1>1, <1>2

LEMMA RollHolds ==
  ASSUME IInv, RollSegment, UNCHANGED <<calibrating, session>>
  PROVE  IInv'
<1> USE DEF IInv, Handles, Encoders, HeldWhileRecording, Accounted, NoEncoderLost
<1>1. CASE recording
  <2>1. recording' = FALSE /\ proc' = NoSession /\ encoder' = Closed
    BY <1>1 DEF RollSegment
  <2>2. Closed \in Encoders /\ \A s \in Sessions : Closed[s] \notin {"running", "crashed"}
    BY RecordingAssumption DEF Closed
  <2> QED BY <2>1, <2>2
<1>2. CASE ~recording
  BY <1>2 DEF RollSegment
<1> QED BY <1>1, <1>2

LEMMA StepHolds == IInv /\ [Next]_vars => IInv'
<1> SUFFICES ASSUME IInv, [Next]_vars PROVE IInv'
    OBVIOUS
<1> USE DEF IInv, Handles, Encoders, HeldWhileRecording, Accounted, NoEncoderLost
<1>1. CASE FrameUnrecorded
  BY <1>1 DEF FrameUnrecorded
<1>2. CASE FrameCalibrates
  <2>1. CASE calib + 1 < CalibFrames
    BY <1>2, <2>1 DEF FrameCalibrates
  <2>2. CASE ~(calib + 1 < CalibFrames)
    <3>1. proc = NoSession /\ session \in Sessions /\ recording' /\ session' = session
          /\ calibrating' = FALSE
      BY <1>2, <2>2 DEF FrameCalibrates
    <3>2. CASE ffmpeg
      <4>1. proc' = session /\ encoder' = [encoder EXCEPT ![session] = "running"]
        BY <1>2, <2>2, <3>2 DEF FrameCalibrates
      <4> QED BY <3>1, <4>1, RecordingAssumption, <1>2 DEF FrameCalibrates
    <3>3. CASE ~ffmpeg
      BY <1>2, <2>2, <3>3 DEF FrameCalibrates
    <3> QED BY <3>2, <3>3
  <2> QED BY <2>1, <2>2
<1>3. CASE FrameWritten
  BY <1>3 DEF FrameWritten
<1>4. CASE PostedCall
  BY <1>4, StartHolds, RollHolds DEF PostedCall
<1>5. CASE ClickStart
  BY <1>5, StartHolds DEF ClickStart
<1>6. CASE ClickStop
  <2>1. CASE calibrating
    BY <1>6, <2>1 DEF ClickStop
  <2>2. CASE ~calibrating
    <3>1. recording' = FALSE /\ proc' = NoSession /\ encoder' = Closed
          /\ UNCHANGED <<calibrating, session>>
      BY <1>6, <2>2 DEF ClickStop
    <3>2. Closed \in Encoders /\ \A s \in Sessions : Closed[s] \notin {"running", "crashed"}
      BY RecordingAssumption DEF Closed
    <3> QED BY <3>1, <3>2
  <2> QED BY <2>1, <2>2
<1>7. CASE Quit
  BY <1>7 DEF Quit
<1>8. ASSUME NEW s \in Sessions, EncoderFinished(s) \/ EncoderCrashes(s) PROVE IInv'
  BY <1>8, RecordingAssumption DEF EncoderFinished, EncoderCrashes
<1>9. CASE TimePasses
  BY <1>9 DEF TimePasses
<1>10. CASE FfmpegChanges
  BY <1>10 DEF FfmpegChanges
<1>11. CASE UNCHANGED vars
  BY <1>11 DEF vars
<1> QED
  BY <1>1, <1>2, <1>3, <1>4, <1>5, <1>6, <1>7, <1>8, <1>9, <1>10, <1>11 DEF Next, Frame

(* No start, stop or end of a segment, and no crash of ffmpeg between them,    *)
(* makes the client forget an encoder that still waits for frames.             *)
THEOREM EncodersKept == Spec => []NoEncoderLost
<1>1. Spec => []IInv
  BY InitHolds, StepHolds, PTL DEF Spec
<1>2. IInv => NoEncoderLost
  BY DEF IInv, Accounted
<1> QED BY <1>1, <1>2, PTL

-----------------------------------------------------------------------------
\* The rest of the types: what does not depend on the encoders.
Flags ==
  /\ manualStop \in BOOLEAN /\ pending \in BOOLEAN /\ rolling \in BOOLEAN
  /\ overdue \in BOOLEAN /\ ffmpeg \in BOOLEAN /\ quit \in BOOLEAN

Counts ==
  /\ calib \in 0 .. CalibFrames - 1 /\ clicks \in 0 .. MaxClicks
  /\ posted \in Seq({"start", "roll"})

LEMMA FlagsHold == IInv /\ Flags /\ [Next]_vars => Flags'
<1> SUFFICES ASSUME IInv, Flags, [Next]_vars PROVE Flags'
  OBVIOUS
<1>1. recording \in BOOLEAN
  BY DEF IInv, Handles
<1>2. StartRecording => /\ manualStop' \in BOOLEAN /\ rolling' \in BOOLEAN
                        /\ overdue' \in BOOLEAN
  <2>1. StartRecording => manualStop' \in BOOLEAN
    BY <1>1, Zenon DEF StartRecording, Flags
  <2>2. StartRecording /\ MayStart => rolling' = FALSE /\ overdue' = FALSE
    BY Zenon DEF StartRecording, RollingAfterStart
  <2>3. StartRecording /\ ~MayStart => rolling' = rolling /\ overdue' = overdue
    BY Zenon DEF StartRecording
  <2> QED BY <2>1, <2>2, <2>3, Zenon DEF Flags
<1>3. CASE FrameUnrecorded
  BY <1>3, Zenon DEF FrameUnrecorded, Flags
<1>4. CASE FrameCalibrates
  BY <1>4, Zenon DEF FrameCalibrates, Flags
<1>5. CASE FrameWritten
  BY <1>5, Zenon DEF FrameWritten, Flags
<1>6. CASE PostedCall
  <2>1. UNCHANGED <<ffmpeg, quit>>
    BY <1>6, Zenon DEF PostedCall
  <2>2. CASE StartRecording /\ pending' = FALSE
    BY <1>2, <2>1, <2>2, Zenon DEF Flags
  <2>3. CASE UNCHANGED <<manualStop, pending, rolling, overdue>>
    BY <2>1, <2>3, Zenon DEF Flags
  <2> QED BY <1>6, <2>2, <2>3, Zenon DEF PostedCall, PendingAfter
<1>7. CASE ClickStart
  BY <1>2, <1>7, Zenon DEF ClickStart, Flags
<1>8. CASE ClickStop
  BY <1>8, Zenon DEF ClickStop, Flags
<1>9. CASE Quit
  BY <1>9, Zenon DEF Quit, Flags
<1>10. ASSUME NEW s \in Sessions, EncoderFinished(s) \/ EncoderCrashes(s) PROVE Flags'
  BY <1>10, Zenon DEF EncoderFinished, EncoderCrashes, Flags
<1>11. CASE TimePasses
  BY <1>11, Zenon DEF TimePasses, Flags
<1>12. CASE FfmpegChanges
  BY <1>12, Zenon DEF FfmpegChanges, Flags
<1>13. CASE UNCHANGED vars
  BY <1>13, Zenon DEF vars, Flags
<1> QED
  BY <1>3, <1>4, <1>5, <1>6, <1>7, <1>8, <1>9, <1>10, <1>11, <1>12, <1>13 DEF Next, Frame

(* The last frame of a calibration, and every start and stop, reset the count *)
(* of calibration frames before it can pass its limit.                        *)
LEMMA CountsHold == Counts /\ [Next]_vars => Counts'
<1> SUFFICES ASSUME Counts, [Next]_vars PROVE Counts'
  OBVIOUS
<1>1. CalibFrames \in Nat \ {0} /\ MaxClicks \in Nat /\ 0 \in 0 .. CalibFrames - 1
  BY RecordingAssumption
<1>2. calib' \in 0 .. CalibFrames - 1
  <2>1. \/ calib' = calib \/ calib' = 0
        \/ calib + 1 < CalibFrames /\ calib' = calib + 1
    BY DEF Next, Frame, FrameUnrecorded, FrameCalibrates, FrameWritten, PostedCall, StartRecording,
           ClickStart, ClickStop, Quit, EncoderFinished, EncoderCrashes, TimePasses, FfmpegChanges,
           vars
  <2> QED BY <1>1, <2>1 DEF Counts
<1>3. clicks' \in 0 .. MaxClicks
  <2>1. clicks' = clicks \/ (clicks < MaxClicks /\ clicks' = clicks + 1)
    BY DEF Next, Frame, FrameUnrecorded, FrameCalibrates, FrameWritten, PostedCall,
           ClickStart, ClickStop, Quit, EncoderFinished, EncoderCrashes, TimePasses, FfmpegChanges,
           vars
  <2> QED BY <1>1, <2>1 DEF Counts
<1>4. posted' \in Seq({"start", "roll"})
  <2>1. \/ posted' = posted \/ posted' = <<>> \/ (posted # <<>> /\ posted' = Tail(posted))
        \/ posted' = Append(posted, "start") \/ posted' = Append(posted, "roll")
    BY DEF Next, Frame, FrameUnrecorded, FrameCalibrates, FrameWritten, PostedCall,
           ClickStart, ClickStop, Quit, EncoderFinished, EncoderCrashes, TimePasses, FfmpegChanges,
           vars
  <2> DEFINE Calls == {"start", "roll"}
  <2>2. posted \in Seq(Calls) /\ "start" \in Calls /\ "roll" \in Calls
    BY DEF Counts
  <2> HIDE DEF Calls
  <2>3. posted' \in Seq(Calls)
    <3>1. CASE posted' = posted
      BY <2>2, <3>1
    <3>5. CASE posted' = <<>>
      <4>1. <<>> \in Seq(Calls)
        OBVIOUS
      <4> QED BY <3>5, <4>1
    <3>2. CASE posted # <<>> /\ posted' = Tail(posted)
      BY <2>2, <3>2
    <3>3. CASE posted' = Append(posted, "start")
      BY <2>2, <3>3
    <3>4. CASE posted' = Append(posted, "roll")
      BY <2>2, <3>4
    <3> QED BY <2>1, <3>1, <3>2, <3>3, <3>4, <3>5
  <2> QED BY <2>3 DEF Calls
<1> QED BY <1>2, <1>3, <1>4 DEF Counts

(* Typing of a recording: onFrameReceived never counts more frames than the    *)
(* calibration needs, and only automatic starts and segment ends are posted.   *)
THEOREM TypeCorrect == Spec => []TypeOK
<1>1. Init => Flags /\ Counts
  <2>1. Init => Flags
    BY Zenon DEF Init, Flags
  <2>2. Init => Counts
    BY RecordingAssumption DEF Init, Counts
  <2> QED BY <2>1, <2>2
<1>2. IInv /\ Flags /\ Counts => TypeOK
  <2> SUFFICES ASSUME IInv, Flags, Counts PROVE TypeOK
    OBVIOUS
  <2>1. {recording, manualStop, pending, calibrating, rolling, overdue, ffmpeg, quit}
          \subseteq BOOLEAN
    BY Zenon DEF IInv, Handles, Flags
  <2> QED BY <2>1 DEF IInv, Handles, Encoders, Counts, TypeOK
<1> QED BY <1>1, <1>2, InitHolds, StepHolds, FlagsHold, CountsHold, PTL DEF Spec
=============================================================================
