------------------------------- MODULE Recording -------------------------------
(***************************************************************************)
(* The recording of one camera at the Qt client                            *)
(* (client/src/backend/recordingmanager.cpp; the cameras share nothing but *)
(* the event queue).  A recording starts by itself with the camera's       *)
(* frames, measures their rate, starts ffmpeg, and is cut into segments.   *)
(*                                                                         *)
(* Everything runs in the GUI thread, but the automatic start and the end  *)
(* of a segment are posted to its event queue: clicks, frames and the end  *)
(* of ffmpeg come in between, and the posted call meets another state than *)
(* the one it was posted in.                                               *)
(***************************************************************************)
EXTENDS Integers, Sequences

CONSTANTS
  Sessions,     \* names of folders, used again once nothing writes there
  CalibFrames,  \* CALIBRATION_SKIP + CALIBRATION_FRAMES
  MaxClicks,    \* bound: starts and stops by the user
  NoSession

ASSUME RecordingAssumption ==
  CalibFrames \in Nat \ {0} /\ MaxClicks \in Nat /\ NoSession \notin Sessions

VARIABLES
  recording,    \* m_recording
  manualStop,   \* m_manualStop
  pending,      \* m_autoStartPending
  calibrating,  \* m_calibrating
  calib,        \* length of m_calibBuf
  session,      \* m_sessionPaths
  proc,         \* m_ffmpegProcesses: the session whose encoder it is
  rolling,      \* m_segmentRolling
  overdue,      \* MAX_SEGMENT_SECS have passed since m_startTimes
  posted,       \* calls in the GUI thread's event queue
  encoder,      \* per session: "none", "running", "closing" or "crashed"
  ffmpeg,       \* ffmpeg can be started
  clicks,
  quit          \* aboutToQuit has been handled

vars == <<recording, manualStop, pending, calibrating, calib, session, proc, rolling, overdue,
          posted, encoder, ffmpeg, clicks, quit>>

Init ==
  /\ recording = FALSE /\ manualStop = FALSE /\ pending = FALSE
  /\ calibrating = FALSE /\ calib = 0 /\ session = NoSession /\ proc = NoSession
  /\ rolling = FALSE /\ overdue = FALSE /\ posted = <<>>
  /\ encoder = [s \in Sessions |-> "none"]
  /\ ffmpeg \in BOOLEAN /\ clicks = 0 /\ quit = FALSE

-----------------------------------------------------------------------------
MayStart_Again == ffmpeg
MayStart == ~recording /\ ffmpeg

RollingAfterStart_Kept == rolling
RollingAfterStart == FALSE

\* startRecording: a stop is forgotten even if ffmpeg is not found.
StartRecording ==
  /\ manualStop' = (recording /\ manualStop)
  /\ IF MayStart
       THEN /\ \E s \in {t \in Sessions : encoder[t] = "none"} : session' = s
            /\ proc' = NoSession /\ calibrating' = TRUE /\ calib' = 0
            /\ rolling' = RollingAfterStart /\ overdue' = FALSE /\ recording' = TRUE
       ELSE UNCHANGED <<session, proc, calibrating, calib, rolling, overdue, recording>>

\* The end of the input: a running ffmpeg finishes its file and then reports;
\* one that crashed has reported before anyone listened, and is forgotten.
Closed == IF proc = NoSession THEN encoder
          ELSE [encoder EXCEPT ![proc] = IF @ = "running" THEN "closing" ELSE "none"]

\* rollSegment
RollSegment ==
  IF recording
    THEN recording' = FALSE /\ proc' = NoSession /\ encoder' = Closed
    ELSE UNCHANGED <<recording, proc, encoder>>

-----------------------------------------------------------------------------
(* onFrameReceived.  A frame without a recording asks for one. *)
FrameUnrecorded ==
  /\ ~quit /\ ~recording
  /\ IF ~manualStop /\ ~pending
       THEN pending' = TRUE /\ posted' = Append(posted, "start")
       ELSE UNCHANGED <<pending, posted>>
  /\ UNCHANGED <<recording, manualStop, calibrating, calib, session, proc, rolling, overdue,
                 encoder, ffmpeg, clicks, quit>>

\* The last frame of the calibration starts ffmpeg, if it can be started.
FrameCalibrates ==
  /\ ~quit /\ recording /\ calibrating
  /\ IF calib + 1 < CalibFrames
       THEN calib' = calib + 1 /\ UNCHANGED <<calibrating, proc, encoder>>
       ELSE /\ calib' = 0 /\ calibrating' = FALSE
            /\ IF ffmpeg
                 THEN proc' = session /\ encoder' = [encoder EXCEPT ![session] = "running"]
                 ELSE UNCHANGED <<proc, encoder>>
  /\ UNCHANGED <<recording, manualStop, pending, session, rolling, overdue, posted, ffmpeg,
                 clicks, quit>>

\* Any other frame is written; one that comes late posts the end of the segment.
FrameWritten ==
  /\ ~quit /\ recording /\ ~calibrating
  /\ IF ~rolling /\ overdue
       THEN rolling' = TRUE /\ posted' = Append(posted, "roll")
       ELSE UNCHANGED <<rolling, posted>>
  /\ UNCHANGED <<recording, manualStop, pending, calibrating, calib, session, proc, overdue,
                 encoder, ffmpeg, clicks, quit>>

Frame == FrameUnrecorded \/ FrameCalibrates \/ FrameWritten

\* The lambda of the automatic start.
PendingAfter_IfStarted == ~recording'
PendingAfter == FALSE

PostedCall ==
  /\ ~quit /\ posted # <<>>
  /\ posted' = Tail(posted)
  /\ \/ /\ Head(posted) = "start"
        /\ StartRecording /\ pending' = PendingAfter /\ UNCHANGED encoder
     \/ /\ Head(posted) = "roll"
        /\ RollSegment
        /\ UNCHANGED <<manualStop, pending, calibrating, calib, session, rolling, overdue>>
  /\ UNCHANGED <<ffmpeg, clicks, quit>>

-----------------------------------------------------------------------------
(* The button of RecordingPage.qml: start or stop, by the state it shows. *)
ClickStart ==
  /\ ~quit /\ ~recording /\ clicks < MaxClicks /\ clicks' = clicks + 1
  /\ StartRecording
  /\ UNCHANGED <<pending, posted, encoder, ffmpeg, quit>>

\* stopRecording: a calibration is thrown away with its folder.
ClickStop ==
  /\ ~quit /\ recording /\ clicks < MaxClicks /\ clicks' = clicks + 1
  /\ manualStop' = TRUE /\ recording' = FALSE
  /\ IF calibrating
       THEN calibrating' = FALSE /\ calib' = 0 /\ UNCHANGED <<proc, encoder>>
       ELSE proc' = NoSession /\ encoder' = Closed /\ UNCHANGED <<calibrating, calib>>
  /\ UNCHANGED <<pending, session, rolling, overdue, posted, ffmpeg, quit>>

(* The finished signal: meta.json is written, the process deleted. *)
EncoderFinished(s) ==
  /\ ~quit /\ encoder[s] = "closing"
  /\ encoder' = [encoder EXCEPT ![s] = "none"]
  /\ UNCHANGED <<recording, manualStop, pending, calibrating, calib, session, proc, rolling,
                 overdue, posted, ffmpeg, clicks, quit>>

\* shutdownAll waits for the current encoder only; the application ends, and
\* with it every other one.
Quit ==
  /\ ~quit /\ quit' = TRUE
  /\ IF recording
       THEN /\ recording' = FALSE
            /\ IF calibrating
                 THEN calibrating' = FALSE /\ calib' = 0 /\ UNCHANGED proc
                 ELSE proc' = NoSession /\ UNCHANGED <<calibrating, calib>>
       ELSE UNCHANGED <<recording, calibrating, calib, proc>>
  /\ encoder' = [s \in Sessions |-> "none"] /\ posted' = <<>>
  /\ UNCHANGED <<manualStop, pending, session, rolling, overdue, ffmpeg, clicks>>

(* Outside: five minutes pass, ffmpeg crashes, is installed or removed. *)
TimePasses ==
  /\ recording /\ ~overdue /\ overdue' = TRUE
  /\ UNCHANGED <<recording, manualStop, pending, calibrating, calib, session, proc, rolling,
                 posted, encoder, ffmpeg, clicks, quit>>

EncoderCrashes(s) ==
  /\ encoder[s] = "running" /\ encoder' = [encoder EXCEPT ![s] = "crashed"]
  /\ UNCHANGED <<recording, manualStop, pending, calibrating, calib, session, proc, rolling,
                 overdue, posted, ffmpeg, clicks, quit>>

FfmpegChanges ==
  /\ ~quit /\ ffmpeg' = ~ffmpeg
  /\ UNCHANGED <<recording, manualStop, pending, calibrating, calib, session, proc, rolling,
                 overdue, posted, encoder, clicks, quit>>

Next ==
  \/ Frame \/ PostedCall
  \/ ClickStart \/ ClickStop \/ Quit
  \/ \E s \in Sessions : EncoderFinished(s) \/ EncoderCrashes(s)
  \/ TimePasses \/ FfmpegChanges

(* The camera sends on, Qt delivers what was posted, and ffmpeg finishes once  *)
(* its input has ended.                                                        *)
Spec ==
  /\ Init /\ [][Next]_vars
  /\ WF_vars(Frame) /\ WF_vars(PostedCall)
  /\ \A s \in Sessions : WF_vars(EncoderFinished(s))

-----------------------------------------------------------------------------
(* Type invariant. *)
TypeOK ==
  /\ {recording, manualStop, pending, calibrating, rolling, overdue, ffmpeg, quit} \subseteq BOOLEAN
  /\ calib \in 0 .. CalibFrames - 1 /\ clicks \in 0 .. MaxClicks
  /\ session \in Sessions \cup {NoSession} /\ proc \in Sessions \cup {NoSession}
  /\ encoder \in [Sessions -> {"none", "running", "closing", "crashed"}]
  /\ posted \in Seq({"start", "roll"})

(* An ffmpeg that still waits for frames is that of the session being          *)
(* recorded: no start, stop or end of a segment, however late it comes, loses  *)
(* the handle of an encoder, whose file would never be finished.               *)
NoEncoderLost ==
  \A s \in Sessions :
    encoder[s] = "running" => recording /\ ~calibrating /\ proc = s /\ session = s

(* Segments end: also after stops, starts and calls posted for an earlier      *)
(* segment, a recording does not stay longer than its five minutes.            *)
SegmentEnds == (recording /\ overdue /\ ~calibrating) ~> (~recording \/ ~overdue \/ quit)

(* Where ffmpeg can be started and the user has not stopped it, recording      *)
(* comes back after every segment and after every failure.                     *)
RecordsAgain == <>[](ffmpeg /\ ~manualStop /\ ~quit) => []<>recording
=============================================================================
