---------------------------- MODULE Calibration ----------------------------
(***************************************************************************)
(* The calibration mode (RequestCalibration, GetCalibration and            *)
(* ResetCalibration in adc_control.c) and its three users:                 *)
(*   - the ADC task scans the commands of the host and works on the blocks *)
(*     of samples (usertask.c), one access to shared data at a time;       *)
(*   - the UI task applies a gain or requests a calibration (gui.c).  It   *)
(*     has a higher priority than the ADC task and does not block, so each *)
(*     of its handlers is one step that may fall between any two of the    *)
(*     ADC task;                                                           *)
(*   - the TCP/IP thread stores the commands it receives (tansmitt.c).     *)
(*                                                                         *)
(* Of GlobalConf.offset only the level whose entry was written last is     *)
(* kept; the values are left out.                                          *)
(***************************************************************************)
EXTENDS Naturals, FiniteSets

CONSTANTS Scales,      \* the scales in use, of {"1V", "2V", "5V", "10V"}
          MaxPending   \* bound on the commands that wait for the ADC task

ASSUME CalibrationAssumption ==
  /\ Scales \subseteq {"1V", "2V", "5V", "10V"}
  /\ MaxPending \in Nat

\* The gain of a scale, and the state of the pins A and B that selects it.
LevelOf == [s \in Scales |-> CASE s = "1V" -> "10x" [] s = "2V" -> "5x"
                               [] s = "5V" -> "2x"  [] s = "10V" -> "1x"]
Levels  == {LevelOf[s] : s \in Scales} \cup {"10x"}
Pins    == [l \in Levels |-> CASE l = "10x" -> <<0, 0>> [] l = "1x" -> <<1, 0>>
                               [] l = "2x"  -> <<1, 1>> [] l = "5x" -> <<0, 1>>]

\* The frames with a meaning for the ADC task, and the types of those it
\* answers with.
Commands == [kind : {"end"}, scale : {"all"}]
              \cup [kind : {"cali", "gain", "bias"}, scale : Scales]
Labels   == {c \in Commands : c.kind # "cali"}
              \cup [kind : {"rms"}, scale : Scales \cup {"10V"}]

Frame(kind, scale) == [kind |-> kind, scale |-> scale]
EndCali == Frame("end", "all")

\* The number of a command in TypesOfFrame.
NumberOf(c) ==
  LET No == CASE c.scale = "1V" -> 0 [] c.scale = "2V" -> 1
              [] c.scale = "5V" -> 2 [] c.scale = "10V" -> 3 [] OTHER -> 0
  IN  CASE c.kind = "end"  -> 1      [] c.kind = "cali" -> 2 + No
        [] c.kind = "gain" -> 6 + No [] c.kind = "bias" -> 11 + No

\* Pairs of commands of which the scan comes to the second after the first.
NextTo(c) ==
  {d \in Commands :
     /\ NumberOf(c) < NumberOf(d)
     /\ \A e \in Commands : NumberOf(e) <= NumberOf(c) \/ NumberOf(d) <= NumberOf(e)}
Follows == UNION {{<<c, d>> : d \in NextTo(c)} : c \in Commands}
Last(c) == \A d \in Commands : <<c, d>> \notin Follows

VARIABLES
  pc,          \* next statement of the ADC task
  cmd,         \* the command its scan is at; those without a case are left out
  blk,         \* the sample buffer its second loop is at
  pending,     \* safe_buffer_pending
  pins,        \* outputs PORT_GAIN_A and PORT_GAIN_B
  gain_level,  \* GlobalConf.gain_level
  offset,      \* level of the last write to GlobalConf.offset, if any
  flag_in_calibration,
  global_cali_type,
  manual_cali_flag,
  cali_scale,  \* type of the frames sent during a calibration
  entered      \* type of the accepted request of the UI that waits for its
               \* result, if any; not of one in a window (see Window)

config == <<pins, gain_level, offset>>
mode   == <<flag_in_calibration, global_cali_type>>
task   == <<pc, cmd, blk>>
vars   == <<task, pending, config, mode, manual_cali_flag, cali_scale, entered>>

\* After the configuration ADCHandleTaskFunction starts with.
Init ==
  /\ pc = "scan" /\ cmd = EndCali /\ blk = 0
  /\ pending = {}
  /\ gain_level = "10x" /\ pins = Pins["10x"]
  /\ offset = "none"
  /\ flag_in_calibration = FALSE /\ global_cali_type = "CaliNone"
  /\ manual_cali_flag = FALSE
  /\ cali_scale = Frame("rms", "10V")
  /\ entered = "none"

-----------------------------------------------------------------------------
(* The ADC task scans the commands.                                        *)

\* Bug: the loop ends before its last command.
Advance_OffByOne ==
  \/ \E c \in Commands : <<cmd, c>> \in Follows /\ ~Last(c) /\ cmd' = c /\ pc' = "scan"
  \/ /\ \A c \in Commands : <<cmd, c>> \in Follows => Last(c)
     /\ cmd' = EndCali /\ pc' = "block"

\* The next command, or after the last the sample buffers.
Advance ==
  \/ \E c \in Commands : <<cmd, c>> \in Follows /\ cmd' = c /\ pc' = "scan"
  \/ Last(cmd) /\ cmd' = EndCali /\ pc' = "block"

SkipCommand ==
  /\ pc = "scan" /\ cmd \notin pending
  /\ Advance
  /\ UNCHANGED <<blk, pending, config, mode, manual_cali_flag, cali_scale, entered>>

\* RequestCalibration tests flag_in_calibration, and the caller ignores what
\* it returns.
CaliRefused ==
  /\ pc = "scan" /\ cmd \in pending /\ cmd.kind = "cali"
  /\ flag_in_calibration
  /\ pc' = "label"
  /\ UNCHANGED <<cmd, blk, pending, config, mode, manual_cali_flag, cali_scale, entered>>

CaliAccepted ==
  /\ pc = "scan" /\ cmd \in pending /\ cmd.kind = "cali"
  /\ ~flag_in_calibration
  /\ pc' = "pinA"
  /\ UNCHANGED <<cmd, blk, pending, config, mode, manual_cali_flag, cali_scale, entered>>

\* ConfigGain writes one pin, then the other, then gain_level ...
WritePinA ==
  /\ pc = "pinA"
  /\ pins' = [pins EXCEPT ![1] = Pins[LevelOf[cmd.scale]][1]]
  /\ pc' = "pinB"
  /\ UNCHANGED <<cmd, blk, pending, gain_level, offset, mode, manual_cali_flag,
                 cali_scale, entered>>

WritePinB ==
  /\ pc = "pinB"
  /\ pins' = [pins EXCEPT ![2] = Pins[LevelOf[cmd.scale]][2]]
  /\ pc' = "level"
  /\ UNCHANGED <<cmd, blk, pending, gain_level, offset, mode, manual_cali_flag,
                 cali_scale, entered>>

SetLevel ==
  /\ pc = "level"
  /\ gain_level' = LevelOf[cmd.scale]
  /\ pc' = "claim"
  /\ UNCHANGED <<cmd, blk, pending, pins, offset, mode, manual_cali_flag,
                 cali_scale, entered>>

\* ... and RequestCalibration enters the mode.
ClaimMode ==
  /\ pc = "claim"
  /\ flag_in_calibration' = TRUE
  /\ pc' = "type"
  /\ UNCHANGED <<cmd, blk, pending, config, global_cali_type, manual_cali_flag,
                 cali_scale, entered>>

SetType ==
  /\ pc = "type"
  /\ global_cali_type' = "CaliBias"
  /\ pc' = "label"
  /\ UNCHANGED <<cmd, blk, pending, config, flag_in_calibration, manual_cali_flag,
                 cali_scale, entered>>

\* Bug: the command itself is kept as the type of the answer.
SetLabel_Command ==
  /\ pc = "label"
  /\ cali_scale' = cmd
  /\ pc' = "clear"
  /\ UNCHANGED <<cmd, blk, pending, config, mode, manual_cali_flag, entered>>

SetLabel ==
  /\ pc = "label"
  /\ cali_scale' = Frame("rms", cmd.scale)
  /\ pc' = "clear"
  /\ UNCHANGED <<cmd, blk, pending, config, mode, manual_cali_flag, entered>>

\* APPLY_GAIN_x, APPLY_BIAS_x: the offset of the level in use.
Apply ==
  /\ pc = "scan" /\ cmd \in pending /\ cmd.kind \in {"gain", "bias"}
  /\ offset' = gain_level
  /\ cali_scale' = cmd
  /\ pc' = "clear"
  /\ UNCHANGED <<cmd, blk, pending, pins, gain_level, mode, manual_cali_flag, entered>>

\* Bug: END_CALI answers and leaves the mode as it is.
EndMode_KeepsFlag ==
  /\ pc = "scan" /\ cmd \in pending /\ cmd = EndCali
  /\ pc' = "endType"
  /\ UNCHANGED <<cmd, blk, pending, config, mode, manual_cali_flag, cali_scale, entered>>

\* END_CALI: ResetCalibration clears the flag, then the type.
EndMode ==
  /\ pc = "scan" /\ cmd \in pending /\ cmd = EndCali
  /\ flag_in_calibration' = FALSE
  /\ entered' = "none"
  /\ pc' = "endType"
  /\ UNCHANGED <<cmd, blk, pending, config, global_cali_type, manual_cali_flag, cali_scale>>

EndType ==
  /\ pc = "endType"
  /\ global_cali_type' = "CaliNone"
  /\ cali_scale' = EndCali
  /\ pc' = "clear"
  /\ UNCHANGED <<cmd, blk, pending, config, flag_in_calibration, manual_cali_flag, entered>>

\* The RESET_..._PENDING macros clear the whole group of the command.
ClearPending ==
  /\ pc = "clear"
  /\ pending' = {c \in pending : c.kind # cmd.kind}
  /\ Advance
  /\ UNCHANGED <<blk, config, mode, manual_cali_flag, cali_scale, entered>>

-----------------------------------------------------------------------------
(* The ADC task works on the two sample buffers.                           *)

\* The next round of the loop over the buffers, or the next scan.
NextBlock ==
  \/ blk = 0 /\ blk' = 1 /\ pc' = "block"
  \/ blk = 1 /\ blk' = 0 /\ pc' = "scan"

NoBlock ==
  /\ pc = "block"
  /\ NextBlock
  /\ UNCHANGED <<cmd, pending, config, mode, manual_cali_flag, cali_scale, entered>>

\* A block is ready; RegularMeasure measures it.
MeasureBlock ==
  /\ pc = "block"
  /\ pc' = "mode"
  /\ UNCHANGED <<cmd, blk, pending, config, mode, manual_cali_flag, cali_scale, entered>>

NotInMode ==
  /\ pc = "mode" /\ ~flag_in_calibration
  /\ NextBlock
  /\ UNCHANGED <<cmd, pending, config, mode, manual_cali_flag, cali_scale, entered>>

\* The RMS value goes to the host in a frame of type cali_scale.
InMode ==
  /\ pc = "mode" /\ flag_in_calibration
  /\ pc' = "send"
  /\ UNCHANGED <<cmd, blk, pending, config, mode, manual_cali_flag, cali_scale, entered>>

NotManual ==
  /\ pc = "send" /\ ~manual_cali_flag
  /\ NextBlock
  /\ UNCHANGED <<cmd, pending, config, mode, manual_cali_flag, cali_scale, entered>>

Manual ==
  /\ pc = "send" /\ manual_cali_flag
  /\ pc' = "get"
  /\ UNCHANGED <<cmd, blk, pending, config, mode, manual_cali_flag, cali_scale, entered>>

\* GetCalibration: 0 outside a calibration, -1 without a type, else the
\* offset of the level in use, and ResetCalibration.
GetNothing ==
  /\ pc = "get"
  /\ ~flag_in_calibration \/ global_cali_type = "CaliNone"
  /\ pc' = "manual"
  /\ UNCHANGED <<cmd, blk, pending, config, mode, manual_cali_flag, cali_scale, entered>>

GetOffset ==
  /\ pc = "get" /\ flag_in_calibration
  /\ global_cali_type # "CaliNone"
  /\ offset' = gain_level
  /\ entered' = IF global_cali_type = entered THEN "none" ELSE entered
  /\ pc' = "resetFlag"
  /\ UNCHANGED <<cmd, blk, pending, pins, gain_level, mode, manual_cali_flag, cali_scale>>

ResetFlag ==
  /\ pc = "resetFlag"
  /\ flag_in_calibration' = FALSE
  /\ pc' = "resetType"
  /\ UNCHANGED <<cmd, blk, pending, config, global_cali_type, manual_cali_flag,
                 cali_scale, entered>>

\* Bug: the type of the calibration that ended is kept.
ResetType_Keeps ==
  /\ pc = "resetType"
  /\ pc' = "manual"
  /\ UNCHANGED <<cmd, blk, pending, config, mode, manual_cali_flag, cali_scale, entered>>

ResetType ==
  /\ pc = "resetType"
  /\ global_cali_type' = "CaliNone"
  /\ pc' = "manual"
  /\ UNCHANGED <<cmd, blk, pending, config, flag_in_calibration, manual_cali_flag,
                 cali_scale, entered>>

ClearManual ==
  /\ pc = "manual"
  /\ manual_cali_flag' = FALSE
  /\ NextBlock
  /\ UNCHANGED <<cmd, pending, config, mode, cali_scale, entered>>

-----------------------------------------------------------------------------
(* The UI task and the TCP/IP thread.                                      *)

\* LcdVertical: ConfigGain, whole.
ApplyGain(level) ==
  /\ gain_level' = level
  /\ pins' = Pins[level]
  /\ UNCHANGED <<task, pending, offset, mode, manual_cali_flag, cali_scale, entered>>

\* ResetCalibration, or what follows it, is not through.
Resetting == pc \in {"endType", "resetType", "manual"}

\* RequestCalibration has accepted a request of the host and is not through.
Requesting == pc \in {"pinA", "pinB", "level", "claim", "type"}

\* The ADC task is going to overwrite flag or type of a request that comes now.
Window == Resetting \/ Requesting

\* Bug: ENTER during a calibration cancels it, behind the ADC task's back.
PressEnter_Cancels(type) ==
  /\ flag_in_calibration' = ~flag_in_calibration
  /\ global_cali_type' = IF flag_in_calibration THEN "CaliNone" ELSE type
  /\ pins' = Pins[gain_level]
  /\ entered' = IF flag_in_calibration \/ Window THEN "none" ELSE type
  /\ manual_cali_flag' = TRUE
  /\ UNCHANGED <<task, pending, gain_level, offset, cali_scale>>

\* Bug: the ADC task is not told that the UI waits for a result.
PressEnter_Unannounced(type) ==
  /\ ~flag_in_calibration
  /\ flag_in_calibration' = TRUE
  /\ global_cali_type' = type
  /\ pins' = Pins[gain_level]
  /\ entered' = IF Window THEN "none" ELSE type
  /\ UNCHANGED <<task, pending, gain_level, offset, manual_cali_flag, cali_scale>>

\* LcdCalibrationDC, LcdCalibrationGain: RequestCalibration for the level in
\* use; manual_cali_flag is set whatever it returns.
PressEnter(type) ==
  /\ \/ /\ flag_in_calibration
        /\ UNCHANGED <<mode, pins, entered>>
     \/ /\ ~flag_in_calibration
        /\ flag_in_calibration' = TRUE
        /\ global_cali_type' = type
        /\ pins' = Pins[gain_level]
        /\ entered' = IF Window THEN "none" ELSE type
  /\ manual_cali_flag' = TRUE
  /\ UNCHANGED <<task, pending, gain_level, offset, cali_scale>>

\* ParameterAna.
Receive(c) ==
  /\ Cardinality(pending \cup {c}) <= MaxPending
  /\ pending' = pending \cup {c}
  /\ UNCHANGED <<task, config, mode, manual_cali_flag, cali_scale, entered>>

-----------------------------------------------------------------------------
Scan ==
  \/ SkipCommand \/ CaliRefused \/ CaliAccepted
  \/ WritePinA \/ WritePinB \/ SetLevel \/ ClaimMode \/ SetType \/ SetLabel
  \/ Apply \/ EndMode \/ EndType \/ ClearPending

Work ==
  \/ NoBlock \/ MeasureBlock \/ NotInMode \/ InMode \/ NotManual \/ Manual
  \/ GetNothing \/ GetOffset \/ ResetFlag \/ ResetType \/ ClearManual

AdcTask == Scan \/ Work

UITask ==
  \/ \E l \in Levels : ApplyGain(l)
  \/ \E t \in {"CaliGain", "CaliBias"} : PressEnter(t)

TcpipThread == \E c \in Commands : Receive(c)

Next == AdcTask \/ UITask \/ TcpipThread

\* The ADC task is scheduled again and again and finds a block ready again
\* and again (AdcSampling!EveryBlockDelivered); nobody has to press a key.
Fairness == WF_vars(AdcTask) /\ SF_vars(MeasureBlock)

Spec == Init /\ [][Next]_vars /\ Fairness

-----------------------------------------------------------------------------
\* Types of the variables; the task never answers with the type of a command
\* that starts a calibration.
TypeOK ==
  /\ pc \in {"scan", "pinA", "pinB", "level", "claim", "type", "label", "clear",
             "endType", "block", "mode", "send", "get", "resetFlag", "resetType",
             "manual"}
  /\ cmd \in Commands
  /\ blk \in {0, 1}
  /\ pending \subseteq Commands
  /\ pins \in {0, 1} \X {0, 1}
  /\ gain_level \in Levels
  /\ offset \in Levels \cup {"none"}
  /\ flag_in_calibration \in BOOLEAN
  /\ global_cali_type \in {"CaliNone", "CaliGain", "CaliBias"}
  /\ manual_cali_flag \in BOOLEAN
  /\ cali_scale \in Labels
  /\ entered \in {"none", "CaliGain", "CaliBias"}

\* Once the ADC task has set or seen flag_in_calibration, no other task takes
\* the mode away until the task itself resets it: GetCalibration, which reads the
\* flag again, never returns 0 and a result is only written in a calibration.
ModeHeldWhileUsed ==
  pc \in {"type", "send", "get", "resetFlag"} => flag_in_calibration

\* A type left over from one calibration never outlives it, although flag and
\* type are written apart and by two tasks: RequestCalibration always starts
\* from CaliNone.
NoTypeOutsideMode ==
  ~flag_in_calibration /\ pc \notin {"endType", "resetType"}
    => global_cali_type = "CaliNone"

\* The ADC task is at work on a command of a kind.
WorksOn(kind) ==
  cmd.kind = kind /\ (Requesting \/ pc \in {"label", "endType", "clear"})

\* A command that arrives makes the ADC task carry out a command of its group,
\* whichever index it has and whatever the scan is doing: the command itself, or
\* one before it, with which it is cleared.  (It has to arrive while the task is
\* not at work on its group: then it may be cleared unseen, usertask.c 97.)
CommandsServed ==
  \A c \in Commands : c \in pending /\ ~WorksOn(c.kind) ~> WorksOn(c.kind)

\* END_CALI of the host ends the calibration, even one that is stuck, unless
\* it comes while the ADC task still works on the END_CALI before it.
EndCaliEnds ==
  EndCali \in pending /\ ~(pc \in {"endType", "clear"} /\ cmd = EndCali)
    ~> ~flag_in_calibration

\* A request of the UI that is accepted outside the two windows, in which the ADC
\* task is resetting the mode or entering it for the host, gets its result: an
\* offset of its own type, unless the host ends the mode, though its type, its
\* flag and manual_cali_flag are read and written apart (gui.c 316,
\* adc_control.c 637).  The gain is the one in use when the offset is taken.
EnterCalibrates == entered # "none" ~> entered = "none"

\* What keeps such a request from being lost while it waits: flag, type and
\* manual_cali_flag, each of them written by both tasks, stay set together until
\* it is served, and the ADC task is not about to write any of them.
RequestKept ==
  entered # "none" =>
    /\ flag_in_calibration /\ manual_cali_flag /\ global_cali_type = entered
    /\ ~Window /\ pc # "resetFlag"

-----------------------------------------------------------------------------
(* What a comment says and the interleavings refute.                       *)

\* "0 Request unacceptable cuz another calibration in process": a request is
\* only accepted, and only sets the gain, while no other calibration runs.
OneCalibration ==
  pc \in {"pinA", "pinB", "level", "claim"} => ~flag_in_calibration
=============================================================================
