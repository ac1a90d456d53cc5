-------------------------------- MODULE LcdBus --------------------------------
(***************************************************************************)
(* The tasks that draw on the LCD (gui.c, myLWIPAPP.c, ILI93xx.c).  A      *)
(* drawing is a sequence of bus accesses: a register is selected and a     *)
(* word is written to it, and selected register, cursor and write pointer  *)
(* are state of the one panel.  The panel is the NT35510: high and low     *)
(* byte of a coordinate have a register each (ILI93xx.c 155, 281).         *)
(*                                                                         *)
(* The UI task (the menu) and the display task (the parameters) have the   *)
(* same priority and share the processor by time slices.  The TCP/IP       *)
(* thread, which draws the message of tcp_server_error, is below them and  *)
(* runs while both wait.  Only the display task suspends the scheduler,    *)
(* and only for the values it refreshes, not for its labels.               *)
(*                                                                         *)
(* The panel has two banks (the high byte of y) of two rows (the low byte) *)
(* of Width points; a text is one point.  The lower bank is the display    *)
(* task's and begins with the row of AVG; the upper one is the menu's and  *)
(* the message's.  As on the panel, the menu's selection (150, 380 =       *)
(* 0x17C) has the column and the low byte of the AVG value (150, 120..135).*)
(* Only the two points of values are kept, of all that is refreshed.       *)
(***************************************************************************)
EXTENDS Naturals, Sequences

CONSTANT Width  \* points of a row, 2 at least

ASSUME WidthAssumption == Width \in Nat /\ Width >= 2

VARIABLES
  reg, cursor, ptr,  \* the panel
  mem,               \* its points of values: the value, or Green if none
  script,     \* per task: the bus accesses left of what it draws
  stage,      \* per task: what it does
  suspended,  \* the display task has suspended the scheduler
  shown       \* the values that were to be drawn last

panel == <<reg, cursor, ptr, mem>>
busVars  == <<panel, script, stage, suspended, shown>>

Tasks == {"ui", "display", "net"}

\* Words: the bytes of coordinates are numbers of columns, 0 or 1; colours and
\* texts are not.
Green     == 10
Labels    == 11
Title     == 12
Selection == 13
Message   == 14
Values    == {20, 21}
Words     == (0..Width - 1) \cup {Green, Labels, Title, Selection, Message} \cup Values

\* A point: the high and the low bytes of its coordinates.
Point(x, bank, row) == [xh |-> 0, xl |-> x, yh |-> bank, yl |-> row]

Place == [value |-> Point(1, 0, 0), samp_val |-> Point(1, 0, 1)]

LabelsPlace    == Point(0, 0, 0)
TitlePlace     == Point(0, 1, 1)
SelectionPlace == Point(1, 1, 0)
MessagePlace   == Point(0, 1, 0)

Reg(r)  == <<"REG", r>>
Data(w) == <<"RAM", w>>

LCD_SetCursor(p) ==
  <<Reg("xh"), Data(p.xh), Reg("xl"), Data(p.xl),
    Reg("yh"), Data(p.yh), Reg("yl"), Data(p.yl)>>

LCD_WriteRAM_Prepare == <<Reg("wram")>>

Repeat(n, w) == [i \in 1..n |-> Data(w)]

LCD_Fast_DrawPoint(p, w) == LCD_SetCursor(p) \o LCD_WriteRAM_Prepare \o Repeat(1, w)

LCD_Clear == LCD_SetCursor(Point(0, 0, 0)) \o LCD_WriteRAM_Prepare
               \o Repeat(4 * Width, Green)

\* One row of a fill: those that carry values are filled.
FillRow(row) == LCD_SetCursor(Point(0, 0, row)) \o LCD_WriteRAM_Prepare
                  \o Repeat(Width, Green)

LCD_Fill == FillRow(0) \o FillRow(1)

\* LcdTest is over; the UI task has just created the display task.
BusInit ==
  /\ reg = "wram" /\ cursor = Point(0, 0, 0) /\ ptr = Point(0, 0, 0)
  /\ mem = [p \in DOMAIN Place |-> Green]
  /\ script = [ui |-> LCD_Clear \o LCD_Fast_DrawPoint(TitlePlace, Title),
               display |-> LCD_Fill \o LCD_Fast_DrawPoint(LabelsPlace, Labels),
               net |-> <<>>]
  /\ stage = [ui |-> "clear", display |-> "labels", net |-> "idle"]
  /\ suspended = FALSE
  /\ shown = [p \in DOMAIN Place |-> Green]

-------------------------------------------------------------------------------
(* The panel.                                                              *)

\* A write to the RAM moves the pointer on, from the last point to the first.
After(p) ==
  IF p.xl < Width - 1 THEN Point(p.xl + 1, p.yh, p.yl)
  ELSE IF p.yl = 0 THEN Point(0, p.yh, 1) ELSE Point(0, 1 - p.yh, 0)

SelectRegister(r) ==
  /\ reg' = r
  /\ ptr' = IF r = "wram" THEN cursor ELSE ptr
  /\ UNCHANGED <<cursor, mem>>

InPanel(p) == p \in [xh : {0}, xl : 0..Width - 1, yh : {0, 1}, yl : {0, 1}]

\* A point outside of the panel is not drawn.
WriteWord(w) ==
  \/ /\ reg # "wram" /\ cursor' = [cursor EXCEPT ![reg] = w]
     /\ UNCHANGED <<reg, ptr, mem>>
  \/ /\ reg = "wram" /\ InPanel(ptr)
     /\ mem' = [p \in DOMAIN mem |-> IF Place[p] # ptr THEN mem[p]
                                      ELSE IF w \in Values THEN w ELSE Green]
     /\ ptr' = After(ptr)
     /\ UNCHANGED <<reg, cursor>>
  \/ /\ reg = "wram" /\ ~InPanel(ptr) /\ UNCHANGED panel

-------------------------------------------------------------------------------
(* The tasks.                                                              *)

Waits(t) == stage[t] \in {"delay", "idle"}

\* The scheduler lets task t take its next step.
Runs(t) ==
  /\ suspended => t = "display"
  /\ t = "net" => Waits("ui") /\ Waits("display")

Begin(t, s, accesses) ==
  /\ stage' = [stage EXCEPT ![t] = s]
  /\ script' = [script EXCEPT ![t] = accesses]
  /\ UNCHANGED panel

Access(t) ==
  /\ Runs(t) /\ script[t] # <<>>
  /\ LET a == Head(script[t])
     IN IF a[1] = "REG" THEN SelectRegister(a[2]) ELSE WriteWord(a[2])
  /\ script' = [script EXCEPT ![t] = Tail(@)]
  /\ UNCHANGED <<stage, suspended, shown>>

\* The head of the menu's loop: the text of the selection KEY_Scan left.
ShowSelection ==
  /\ Runs("ui") /\ script["ui"] = <<>> /\ stage["ui"] \in {"clear", "delay"}
  /\ Begin("ui", "select", LCD_Fast_DrawPoint(SelectionPlace, Selection))
  /\ UNCHANGED <<suspended, shown>>

\* osDelay
Delay ==
  /\ Runs("ui") /\ script["ui"] = <<>> /\ stage["ui"] = "select"
  /\ Begin("ui", "delay", <<>>)
  /\ UNCHANGED <<suspended, shown>>

\* The values the display task refreshes, from the first to the last.
Refresh(w) ==
  LCD_Fast_DrawPoint(Place.value, w) \o LCD_Fast_DrawPoint(Place.samp_val, w)

\* Bug: the refresh runs without vTaskSuspendAll.
SuspendAll_Missing ==
  /\ Runs("display") /\ script["display"] = <<>>
  /\ stage["display"] \in {"labels", "delay"}
  /\ \E w \in Values :
       /\ Begin("display", "refresh", Refresh(w))
       /\ shown' = [shown EXCEPT !.value = w, !.samp_val = w]
  /\ UNCHANGED suspended

\* The values are formatted, then vTaskSuspendAll and the refresh.
SuspendAll ==
  /\ Runs("display") /\ script["display"] = <<>>
  /\ stage["display"] \in {"labels", "delay"}
  /\ suspended' = TRUE
  /\ \E w \in Values :
       /\ Begin("display", "refresh", Refresh(w))
       /\ shown' = [shown EXCEPT !.value = w, !.samp_val = w]

\* Bug: the scheduler stays suspended.
ResumeAll_Missing ==
  /\ stage["display"] = "refresh" /\ script["display"] = <<>>
  /\ Begin("display", "delay", <<>>)
  /\ UNCHANGED <<suspended, shown>>

\* xTaskResumeAll and osDelay
ResumeAll ==
  /\ stage["display"] = "refresh" /\ script["display"] = <<>>
  /\ suspended' = FALSE
  /\ Begin("display", "delay", <<>>)
  /\ UNCHANGED shown

\* tcp_server_error
ErrorMessage ==
  /\ Runs("net") /\ stage["net"] = "idle"
  /\ Begin("net", "message", LCD_Fast_DrawPoint(MessagePlace, Message))
  /\ UNCHANGED <<suspended, shown>>

ErrorReturns ==
  /\ Runs("net") /\ stage["net"] = "message" /\ script["net"] = <<>>
  /\ Begin("net", "idle", <<>>)
  /\ UNCHANGED <<suspended, shown>>

BusNext ==
  \/ \E t \in Tasks : Access(t)
  \/ ShowSelection \/ Delay
  \/ SuspendAll \/ ResumeAll
  \/ ErrorMessage \/ ErrorReturns

BusSpec == BusInit /\ [][BusNext]_busVars

-------------------------------------------------------------------------------
(* Properties.                                                             *)

Registers == {"xh", "xl", "yh", "yl", "wram"}
Accesses  == {Reg(r) : r \in Registers} \cup {Data(w) : w \in Words}
Points    == [xh : Words, xl : Words, yh : Words, yl : Words]

\* Types, and nobody but the display task runs with the scheduler suspended.
BusTypes ==
  /\ reg \in Registers
  /\ cursor \in Points /\ ptr \in Points
  /\ mem \in [DOMAIN Place -> Values \cup {Green}]
  /\ shown \in [DOMAIN Place -> Values \cup {Green}]
  /\ script \in [Tasks -> Seq(Accesses)]
  /\ \A t \in Tasks : Len(script[t]) <= 4 * Width + 28
  /\ stage \in [ui : {"clear", "select", "delay"},
                display : {"labels", "refresh", "delay"},
                net : {"idle", "message"}]
  /\ suspended \in BOOLEAN
  /\ suspended <=> stage["display"] = "refresh"

\* When the display task lets the others run again, what it refreshed is on
\* the panel, whatever drawing it has cut and however far that had come
\* (gui.c 109-122).
RefreshInPlace ==
  stage["display"] = "refresh" /\ script["display"] = <<>>
    => mem.value = shown.value /\ mem.samp_val = shown.samp_val

\* Once LCD_Clear and the unprotected labels are through, only the display task
\* replaces a value on the panel: the critical section keeps the drawings apart
\* (src/doc/Overview.md 47).  It does not: a refresh that cuts the menu between
\* the two bytes of a coordinate leaves its own high byte in the cursor.
OthersSpareValues ==
  [][mem.value' # mem.value =>
       \/ stage["ui"] = "clear" \/ stage["display"] = "labels"
       \/ script["display"]' # script["display"]]_busVars

-------------------------------------------------------------------------------
(* The inductive invariant behind types and refresh.                       *)

\* What task t has left is the end of the accesses s.
LeftOf(t, s) ==
  /\ Len(script[t]) <= Len(s)
  /\ \A k \in 1..Len(script[t]) : script[t][k] = s[Len(s) - Len(script[t]) + k]

ScriptInv ==
  stage["display"] = "refresh" =>
    /\ shown.value \in Values /\ shown.samp_val = shown.value
    /\ LeftOf("display", Refresh(shown.value))

\* How far a refresh has come, with n accesses left, and what is on the panel.
RefreshInv ==
  stage["display"] = "refresh" =>
    LET n == Len(script["display"])
    IN  /\ n \in {19, 9} => reg = "xh"
        /\ n \in {17, 7} => reg = "xl"
        /\ n \in {15, 5} => reg = "yh"
        /\ n \in {13, 3} => reg = "yl"
        /\ n \in {11, 1} => reg = "wram"
        /\ n <= 18 => cursor.xh = 0
        /\ n <= 16 => cursor.xl = 1
        /\ n <= 14 => cursor.yh = 0
        /\ n = 12 => cursor.yl = 0
        /\ n = 2 => cursor.yl = 1
        /\ n = 11 => ptr = Place.value
        /\ n = 1 => ptr = Place.samp_val
        /\ n <= 10 => mem.value = shown.value
        /\ n = 0 => mem.samp_val = shown.samp_val

BusInv == BusTypes /\ ScriptInv /\ RefreshInv
===============================================================================
