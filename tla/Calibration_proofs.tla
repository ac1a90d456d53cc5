-------------------------- MODULE Calibration_proofs ------------------------
(***************************************************************************)
(* The calibration mode as the ADC task and the UI task share it, for any  *)
(* choice of scales and any number of waiting commands.                    *)
(***************************************************************************)
EXTENDS Calibration, TLAPS

ModeInv == ModeHeldWhileUsed /\ NoTypeOutsideMode

\* The mode is off at the start.
LEMMA ModeInit == Init => ModeInv
  BY DEF Init, ModeInv, ModeHeldWhileUsed, NoTypeOutsideMode

\* The scan of the commands sets the mode and, for END_CALI, leaves it.
LEMMA ScanKeepsMode == ModeInv /\ Scan => ModeInv'
<1> SUFFICES ASSUME ModeInv, Scan PROVE ModeInv'
  OBVIOUS
<1> USE DEF ModeInv, ModeHeldWhileUsed, NoTypeOutsideMode, mode
<1>1. CASE SkipCommand
  BY <1>1 DEF SkipCommand, Advance
<1>2. CASE CaliRefused \/ CaliAccepted
  BY <1>2 DEF CaliRefused, CaliAccepted
<1>3. CASE WritePinA \/ WritePinB \/ SetLevel
  BY <1>3 DEF WritePinA, WritePinB, SetLevel
<1>4. CASE ClaimMode
  BY <1>4 DEF ClaimMode
<1>5. CASE SetType
  \* The flag the task has just set is still there.
  BY <1>5 DEF SetType
<1>6. CASE SetLabel \/ Apply
  BY <1>6 DEF SetLabel, Apply
<1>7. CASE EndMode
  BY <1>7 DEF EndMode
<1>8. CASE EndType
  BY <1>8 DEF EndType
<1>9. CASE ClearPending
  BY <1>9 DEF ClearPending, Advance
<1> QED
  BY <1>1, <1>2, <1>3, <1>4, <1>5, <1>6, <1>7, <1>8, <1>9 DEF Scan

\* The work on a block leaves the mode only through ResetCalibration.
LEMMA WorkKeepsMode == ModeInv /\ Work => ModeInv'
<1> SUFFICES ASSUME ModeInv, Work PROVE ModeInv'
  OBVIOUS
<1> USE DEF ModeInv, ModeHeldWhileUsed, NoTypeOutsideMode, mode
<1>1. CASE NoBlock \/ NotInMode \/ NotManual \/ ClearManual
  BY <1>1 DEF NoBlock, NotInMode, NotManual, ClearManual, NextBlock
<1>2. CASE MeasureBlock
  BY <1>2 DEF MeasureBlock
<1>3. CASE InMode \/ Manual
  BY <1>3 DEF InMode, Manual
<1>4. CASE GetNothing
  BY <1>4 DEF GetNothing
<1>5. CASE GetOffset
  BY <1>5 DEF GetOffset
<1>6. CASE ResetFlag
  BY <1>6 DEF ResetFlag
<1>7. CASE ResetType
  BY <1>7 DEF ResetType
<1> QED
  BY <1>1, <1>2, <1>3, <1>4, <1>5, <1>6, <1>7 DEF Work

\* Nothing the UI and the TCP/IP thread do ends the mode.
LEMMA OthersKeepMode == ModeInv /\ (UITask \/ TcpipThread) => ModeInv'
<1> SUFFICES ASSUME ModeInv, UITask \/ TcpipThread PROVE ModeInv'
  OBVIOUS
<1> USE DEF ModeInv, ModeHeldWhileUsed, NoTypeOutsideMode, mode, task
<1>1. ASSUME NEW l \in Levels, ApplyGain(l) PROVE ModeInv'
  BY <1>1 DEF ApplyGain
<1>2. ASSUME NEW t \in {"CaliGain", "CaliBias"}, PressEnter(t) PROVE ModeInv'
  BY <1>2 DEF PressEnter
<1>3. ASSUME NEW c \in Commands, Receive(c) PROVE ModeInv'
  BY <1>3 DEF Receive
<1> QED
  BY <1>1, <1>2, <1>3 DEF UITask, TcpipThread

\* GetCalibration never runs outside a calibration, and every calibration
\* starts without the type of an earlier one.
THEOREM ModeInvariance == Spec => [](ModeHeldWhileUsed /\ NoTypeOutsideMode)
<1>1. ModeInv /\ [Next]_vars => ModeInv'
  <2>1. ModeInv /\ UNCHANGED vars => ModeInv'
    BY DEF ModeInv, ModeHeldWhileUsed, NoTypeOutsideMode, vars, task, mode
  <2> QED
    BY <2>1, ScanKeepsMode, WorkKeepsMode, OthersKeepMode DEF Next, AdcTask
<1> QED
  BY ModeInit, <1>1, PTL DEF Spec, ModeInv

\* The mode the ADC task works in is not taken away (adc_control.c 682-703).
THEOREM ModeIsHeld == Spec => []ModeHeldWhileUsed
  BY ModeInvariance, PTL

\* No calibration starts with the type of an earlier one (adc_control.c 705-710).
THEOREM NoLeftoverType == Spec => []NoTypeOutsideMode
  BY ModeInvariance, PTL

-----------------------------------------------------------------------------
\* Between CaliAccepted and SetLabel the scan is at a command that starts a
\* calibration, so that its label is one of RMS_ON_x_SCALE.
LabelInv ==
  pc \in {"pinA", "pinB", "level", "claim", "type", "label"} => cmd.kind = "cali"

TypeInv == TypeOK /\ LabelInv

\* The commands and what is said of them.
LEMMA CommandFacts ==
  /\ EndCali \in Commands /\ EndCali.kind = "end" /\ EndCali \in Labels
  /\ "10x" \in Levels /\ Frame("rms", "10V") \in Labels
  /\ \A c \in Commands : c.kind # "cali" => c \in Labels
  /\ \A c \in Commands : c.kind = "cali" =>
       /\ c.scale \in Scales
       /\ Frame("rms", c.scale) \in Labels
       /\ LevelOf[c.scale] \in Levels
<1>1. EndCali \in Commands /\ EndCali.kind = "end" /\ EndCali \in Labels
  BY DEF EndCali, Frame, Commands, Labels
<1>2. "10x" \in Levels /\ Frame("rms", "10V") \in Labels
  BY DEF Levels, Frame, Labels
<1>3. ASSUME NEW c \in Commands
      PROVE  c.kind # "cali" => c \in Labels
  BY DEF Labels
<1>4. ASSUME NEW c \in Commands, c.kind = "cali"
      PROVE  c.scale \in Scales /\ Frame("rms", c.scale) \in Labels
             /\ LevelOf[c.scale] \in Levels
  <2>1. c.scale \in Scales
    BY <1>4 DEF Commands
  <2> QED
    BY <2>1 DEF Frame, Labels, Levels
<1> QED
  BY <1>1, <1>2, <1>3, <1>4

\* The pins of a gain.
LEMMA PinsFacts ==
  \A l \in Levels : /\ Pins[l] \in {0, 1} \X {0, 1}
                    /\ Pins[l][1] \in {0, 1} /\ Pins[l][2] \in {0, 1}
<1> SUFFICES ASSUME NEW l \in Levels
             PROVE  /\ Pins[l] \in {0, 1} \X {0, 1}
                    /\ Pins[l][1] \in {0, 1} /\ Pins[l][2] \in {0, 1}
  OBVIOUS
<1>1. l \in {"10x", "1x", "2x", "5x"}
  <2>1. \A s \in Scales : LevelOf[s] \in {"10x", "1x", "2x", "5x"}
    BY CalibrationAssumption DEF LevelOf
  <2> QED
    BY <2>1 DEF Levels
<1>2. Pins[l] \in {<<0, 0>>, <<1, 0>>, <<1, 1>>, <<0, 1>>}
  BY <1>1 DEF Pins
<1> QED
  BY <1>2

\* The first command is END_CALI.
LEMMA TypeInit == Init => TypeInv
<1> SUFFICES ASSUME Init PROVE TypeInv
  OBVIOUS
<1>1. Pins["10x"] \in {0, 1} \X {0, 1}
  BY CommandFacts, PinsFacts
<1> QED
  BY <1>1, CommandFacts DEF Init, TypeInv, TypeOK, LabelInv

\* The next command of the scan is a command.
LEMMA AdvanceType ==
  ASSUME TypeOK, Advance
  PROVE  cmd' \in Commands /\ pc' \in {"scan", "block"}
BY CommandFacts DEF Advance

\* The scan of the commands.
LEMMA ScanKeepsTypes == TypeInv /\ Scan => TypeInv'
<1> SUFFICES ASSUME TypeInv, Scan PROVE TypeInv'
  OBVIOUS
<1> USE DEF TypeInv, TypeOK, LabelInv, mode, config
<1>1. CASE SkipCommand
  BY <1>1, AdvanceType DEF SkipCommand
<1>2. CASE CaliRefused
  BY <1>2 DEF CaliRefused
<1>3. CASE CaliAccepted
  BY <1>3 DEF CaliAccepted
<1>4. CASE WritePinA \/ WritePinB
  <2>1. cmd.kind = "cali"
    BY <1>4 DEF WritePinA, WritePinB
  <2>2. LevelOf[cmd.scale] \in Levels
    BY <2>1, CommandFacts
  <2>3. /\ Pins[LevelOf[cmd.scale]][1] \in {0, 1}
        /\ Pins[LevelOf[cmd.scale]][2] \in {0, 1}
    BY <2>2, PinsFacts
  <2>4. pins' \in {0, 1} \X {0, 1}
    BY <1>4, <2>3 DEF WritePinA, WritePinB
  <2> QED
    BY <1>4, <2>1, <2>4 DEF WritePinA, WritePinB
<1>5. CASE SetLevel
  <2>1. cmd.kind = "cali"
    BY <1>5 DEF SetLevel
  <2> QED
    BY <1>5, <2>1, CommandFacts DEF SetLevel
<1>6. CASE ClaimMode
  BY <1>6 DEF ClaimMode
<1>7. CASE SetType
  BY <1>7 DEF SetType
<1>8. CASE SetLabel
  <2>1. cmd.kind = "cali"
    BY <1>8 DEF SetLabel
  <2>2. cali_scale' \in Labels
    BY <1>8, <2>1, CommandFacts DEF SetLabel
  <2> QED
    BY <1>8, <2>2 DEF SetLabel
<1>9. CASE Apply
  <2>1. cali_scale' \in Labels
    BY <1>9, CommandFacts DEF Apply
  <2> QED
    BY <1>9, <2>1 DEF Apply
<1>10. CASE EndMode
  BY <1>10 DEF EndMode
<1>11. CASE EndType
  BY <1>11, CommandFacts DEF EndType
<1>12. CASE ClearPending
  BY <1>12, AdvanceType DEF ClearPending
<1> QED
  BY <1>1, <1>2, <1>3, <1>4, <1>5, <1>6, <1>7, <1>8, <1>9, <1>10, <1>11, <1>12
     DEF Scan

\* The work on a block.
LEMMA WorkKeepsTypes == TypeInv /\ Work => TypeInv'
<1> SUFFICES ASSUME TypeInv, Work PROVE TypeInv'
  OBVIOUS
<1> USE DEF TypeInv, TypeOK, LabelInv, mode, config
<1>1. CASE NoBlock \/ NotInMode \/ NotManual \/ ClearManual
  BY <1>1 DEF NoBlock, NotInMode, NotManual, ClearManual, NextBlock
<1>2. CASE MeasureBlock
  BY <1>2 DEF MeasureBlock
<1>3. CASE InMode \/ Manual
  BY <1>3 DEF InMode, Manual
<1>4. CASE GetNothing
  BY <1>4 DEF GetNothing
<1>5. CASE GetOffset
  BY <1>5 DEF GetOffset
<1>6. CASE ResetFlag
  BY <1>6 DEF ResetFlag
<1>7. CASE ResetType
  BY <1>7 DEF ResetType
<1> QED
  BY <1>1, <1>2, <1>3, <1>4, <1>5, <1>6, <1>7 DEF Work

\* The UI task and the TCP/IP thread.
LEMMA OthersKeepTypes == TypeInv /\ (UITask \/ TcpipThread) => TypeInv'
<1> SUFFICES ASSUME TypeInv, UITask \/ TcpipThread PROVE TypeInv'
  OBVIOUS
<1> USE DEF TypeInv, TypeOK, LabelInv, mode, config, task
<1>1. ASSUME NEW l \in Levels, ApplyGain(l) PROVE TypeInv'
  BY <1>1, PinsFacts DEF ApplyGain
<1>2. ASSUME NEW t \in {"CaliGain", "CaliBias"}, PressEnter(t) PROVE TypeInv'
  <2>1. Pins[gain_level] \in {0, 1} \X {0, 1}
    BY PinsFacts
  <2>2. CASE flag_in_calibration
    BY <1>2, <2>2 DEF PressEnter
  <2>3. CASE ~flag_in_calibration
    BY <1>2, <2>1, <2>3 DEF PressEnter
  <2> QED
    BY <2>2, <2>3
<1>3. ASSUME NEW c \in Commands, Receive(c) PROVE TypeInv'
  BY <1>3 DEF Receive
<1> QED
  BY <1>1, <1>2, <1>3 DEF UITask, TcpipThread

\* The variables keep their types, and the device never answers the host with
\* the command that starts a calibration (usertask.c 83-86).
THEOREM CalibrationTypes == Spec => []TypeOK
<1>1. TypeInv /\ [Next]_vars => TypeInv'
  <2>1. TypeInv /\ UNCHANGED vars => TypeInv'
    BY DEF TypeInv, TypeOK, LabelInv, vars, task, mode, config
  <2> QED
    BY <2>1, ScanKeepsTypes, WorkKeepsTypes, OthersKeepTypes DEF Next, AdcTask
<1> QED
  BY TypeInit, <1>1, PTL DEF Spec, TypeInv

-----------------------------------------------------------------------------
KeptInv == TypeOK /\ ModeInv /\ RequestKept

\* A request is only taken up by GetCalibration, which clears entered first, and
\* only ended by END_CALI.
LEMMA AdcTaskKeepsRequest == KeptInv /\ AdcTask => RequestKept'
<1> SUFFICES ASSUME KeptInv, AdcTask PROVE RequestKept'
  OBVIOUS
<1> USE DEF KeptInv, RequestKept, Window, Resetting, Requesting, mode
<1>1. CASE SkipCommand \/ ClearPending
  BY <1>1 DEF SkipCommand, ClearPending, Advance
<1>2. CASE CaliRefused \/ CaliAccepted \/ WritePinA \/ WritePinB \/ SetLevel
  BY <1>2 DEF CaliRefused, CaliAccepted, WritePinA, WritePinB, SetLevel
<1>3. CASE ClaimMode \/ SetType
  BY <1>3 DEF ClaimMode, SetType
<1>4. CASE SetLabel \/ Apply
  BY <1>4 DEF SetLabel, Apply
<1>5. CASE EndMode \/ EndType
  BY <1>5 DEF EndMode, EndType
<1>6. CASE NoBlock \/ NotInMode \/ NotManual
  BY <1>6 DEF NoBlock, NotInMode, NotManual, NextBlock
<1>7. CASE MeasureBlock \/ InMode \/ Manual
  BY <1>7 DEF MeasureBlock, InMode, Manual
<1>8. CASE GetNothing
  \* GetCalibration finds flag and type of a request that waits.
  BY <1>8 DEF GetNothing, TypeOK
<1>9. CASE GetOffset
  BY <1>9 DEF GetOffset
<1>10. CASE ResetFlag \/ ResetType \/ ClearManual
  BY <1>10 DEF ResetFlag, ResetType, ClearManual
<1> QED
  BY <1>1, <1>2, <1>3, <1>4, <1>5, <1>6, <1>7, <1>8, <1>9, <1>10
     DEF AdcTask, Scan, Work

\* ENTER makes a request, and a second one is refused.
LEMMA OthersKeepRequest == KeptInv /\ (UITask \/ TcpipThread) => RequestKept'
<1> SUFFICES ASSUME KeptInv, UITask \/ TcpipThread PROVE RequestKept'
  OBVIOUS
<1> USE DEF KeptInv, RequestKept, Window, Resetting, Requesting, mode, task
<1>1. ASSUME NEW l \in Levels, ApplyGain(l) PROVE RequestKept'
  BY <1>1 DEF ApplyGain
<1>2. ASSUME NEW t \in {"CaliGain", "CaliBias"}, PressEnter(t) PROVE RequestKept'
  <2>1. CASE flag_in_calibration
    BY <1>2, <2>1 DEF PressEnter
  <2>2. CASE ~flag_in_calibration
    <3>1. pc # "resetFlag"
      \* The mode the ADC task uses is held, so no request is accepted there.
      BY <2>2 DEF ModeInv, ModeHeldWhileUsed
    <3> QED
      BY <1>2, <2>2, <3>1 DEF PressEnter
  <2> QED
    BY <2>1, <2>2
<1>3. ASSUME NEW c \in Commands, Receive(c) PROVE RequestKept'
  BY <1>3 DEF Receive, config
<1> QED
  BY <1>1, <1>2, <1>3 DEF UITask, TcpipThread

\* A request that was accepted, not while the ADC task was resetting the mode or
\* entering it for the host, is never half lost or overwritten: until it is
\* served or ended, flag, type and manual_cali_flag say that it waits (gui.c 316,
\* adc_control.c 637 and 705).
THEOREM RequestIsKept == Spec => []RequestKept
<1>1. Init => RequestKept
  BY DEF Init, RequestKept
<1>2. KeptInv /\ [Next]_vars => RequestKept'
  <2>1. KeptInv /\ UNCHANGED vars => RequestKept'
    BY DEF KeptInv, RequestKept, Window, Resetting, Requesting, vars, task, mode
  <2> QED
    BY <2>1, AdcTaskKeepsRequest, OthersKeepRequest DEF Next
<1>3. ModeInv <=> ModeHeldWhileUsed /\ NoTypeOutsideMode
  BY DEF ModeInv
<1> QED
  BY <1>1, <1>2, <1>3, CalibrationTypes, ModeInvariance, PTL DEF Spec, KeptInv
=============================================================================
