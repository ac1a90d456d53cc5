------------------------- MODULE ServerAndLcd_proofs -------------------------
(***************************************************************************)
(* What the TCP/IP thread shares with the other tasks: the send slot and   *)
(* the flag word of the server (TcpServer), and the bus of the LCD, on     *)
(* which it draws the message of tcp_server_error (LcdBus).                *)
(*                                                                         *)
(* The send slot protects its buffers, for any number of connections.  The *)
(* values the display task refreshes are on the panel when the others run  *)
(* again, for any width of the panel.  The two specifications have no      *)
(* variable and no assumption in common; the second part uses nothing of   *)
(* the first.                                                              *)
(***************************************************************************)
EXTENDS TcpServer, LcdBus, SequenceTheorems, TLAPS

-------------------------------------------------------------------------------
(* The send slot.                                                          *)

\* Nothing is in the slot and nobody works on it.
LEMMA InitIInv == Init => IInv
BY ClientsAssumption
   DEF Init, IInv, TypeOK, RegInv, AskedInv, ServerPointer, Bits, Buffers, Jobs, Outcomes

\* The callbacks of the TCP/IP thread keep the invariant: those that set a bit
\* write back a data bit they have read, and only tcp_server_poll clears it.
LEMMA TcpipKeepsIInv ==
  ASSUME IInv, TcpipStep \/ \E c \in Clients : Host(c)
  PROVE  IInv'
<1> USE ClientsAssumption
    DEF IInv, TypeOK, RegInv, AskedInv, ServerPointer, Bits, Buffers, Jobs, BufferOf, Outcomes
<1>1. CASE AcceptLoad
  BY <1>1 DEF AcceptLoad, slot, net, adc
<1>2. CASE FlagStore
  BY <1>2 DEF FlagStore, net, adc
<1>3. CASE PollTake
  BY <1>3 DEF PollTake, slot, net, adc
<1>4. CASE PollLoad
  BY <1>4 DEF PollLoad, slot, net, adc
<1>5. CASE PollStore
  BY <1>5 DEF PollStore, net, adc
<1>6. CASE PollZero
  BY <1>6 DEF PollZero, net, adc
<1>7. ASSUME NEW c \in Clients, Accept(c)
      PROVE  IInv'
  BY <1>7 DEF Accept, slot, adc
<1>8. ASSUME NEW c \in Clients, RecvLoad(c)
      PROVE  IInv'
  BY <1>8 DEF RecvLoad, slot, net, adc
<1>9. ASSUME NEW c \in Clients, RecvFin(c)
      PROVE  IInv'
  BY <1>9 DEF RecvFin, slot, tcpip, adc
<1>10. ASSUME NEW c \in Clients, Gone(c)
       PROVE  IInv'
  BY <1>10 DEF Gone, slot, tcpip, adc
<1>11. ASSUME NEW c \in Clients, Poll(c)
       PROVE  IInv'
  BY <1>11 DEF Poll, slot, net, adc
<1> QED
  BY <1>1, <1>2, <1>3, <1>4, <1>5, <1>6, <1>7, <1>8, <1>9, <1>10, <1>11
     DEF TcpipStep, Host

\* So does the ADC task: it raises the data bit after it has written the slot.
LEMMA AdcKeepsIInv ==
  ASSUME IInv, AdcTask
  PROVE  IInv'
<1> USE ClientsAssumption
    DEF IInv, TypeOK, RegInv, AskedInv, ServerPointer, Bits, Buffers, Jobs, BufferOf, Outcomes
<1>1. ASSUME NEW j \in {"wave", "rms"}, CheckReady(j)
      PROVE  IInv'
  BY <1>1 DEF CheckReady, slot, net, tcpip
<1>2. CASE StartEndCali
  BY <1>2 DEF StartEndCali, slot, net, tcpip
<1>3. CASE SendRefused
  BY <1>3 DEF SendRefused, slot, net, tcpip
<1>4. CASE SendAccepted
  BY <1>4 DEF SendAccepted, slot, net, tcpip
<1>5. CASE SendLen
  BY <1>5 DEF SendLen, net, tcpip
<1>6. CASE SendPtr
  BY <1>6 DEF SendPtr, net, tcpip
<1>7. CASE SendLoad
  BY <1>7 DEF SendLoad, slot, net, tcpip
<1>8. CASE SendStore
  BY <1>8 DEF SendStore, net, tcpip
<1> QED
  BY <1>1, <1>2, <1>3, <1>4, <1>5, <1>6, <1>7, <1>8 DEF AdcTask, AdcSend

\* And the key handlers, which come between any two steps of the others.
LEMMA UIKeepsIInv ==
  ASSUME IInv, UITask
  PROVE  IInv'
<1> USE ClientsAssumption
    DEF IInv, TypeOK, RegInv, AskedInv, ServerPointer, Bits, Buffers, Jobs, BufferOf, Outcomes
<1>1. CASE Test_Read
  BY <1>1 DEF Test_Read, net, tcpip, adc
<1>2. CASE Listen
  BY <1>2 DEF Listen, slot, tcpip, adc
<1>3. CASE ListenFails
  BY <1>3 DEF ListenFails, slot, tcpip, adc
<1>4. CASE Close
  <2>1. CASE server = "listening"
    <3>1. /\ listener' = FALSE /\ server' = "closed"
          /\ flag' = flag \ {"client"}
          /\ UNCHANGED <<len, data, conn, cut, tcpip, adc>>
      BY <1>4, <2>1 DEF Close
    <3>2. "closed" \notin Clients
      OBVIOUS
    <3>3. ServerPointer'
      BY <3>1, <3>2
    <3>4. TypeOK'
      BY <3>1 DEF tcpip, adc
    <3>5. RegInv' /\ AskedInv'
      BY <3>1 DEF tcpip, adc
    <3> QED
      BY <3>3, <3>4, <3>5
  <2>2. CASE server \in Clients
    BY <1>4, <2>2 DEF Close, tcpip, adc
  <2>3. CASE server = "none"
    <3>1. /\ flag' = flag \ {"client"}
          /\ UNCHANGED <<len, data, conn, listener, server, cut, tcpip, adc>>
      BY <1>4, <2>3 DEF Close
    <3> QED
      BY <2>3, <3>1 DEF tcpip, adc
  <2>4. CASE server \in {"closed", "pool"}
    <3>1. /\ cut' = TRUE
          /\ flag' = flag \ {"client"}
          /\ UNCHANGED <<len, data, conn, listener, server, tcpip, adc>>
      BY <1>4, <2>4 DEF Close
    <3> QED
      BY <2>4, <3>1 DEF tcpip, adc
  <2> QED
    BY <1>4, <2>1, <2>2, <2>3, <2>4 DEF Close
<1>5. CASE Test_Send
  BY <1>5 DEF Test_Send, net, tcpip, adc
<1>6. CASE NoPCB
  BY <1>6 DEF NoPCB, slot, tcpip, adc
<1> QED
  BY <1>1, <1>2, <1>3, <1>4, <1>5, <1>6 DEF UITask

\* The invariant the run checks, for every set of connections.
THEOREM ServerInvariant == Spec => []IInv
<1>1. Init => IInv
  BY InitIInv
<1>2. IInv /\ [Next]_vars => IInv'
  <2> SUFFICES ASSUME IInv, [Next]_vars
               PROVE  IInv'
    OBVIOUS
  <2>1. CASE Next
    BY <2>1, TcpipKeepsIInv, AdcKeepsIInv, UIKeepsIInv DEF Next
  <2>2. CASE UNCHANGED vars
    BY <2>2 DEF vars, slot, net, tcpip, adc, IInv, TypeOK, RegInv, AskedInv,
                ServerPointer
  <2> QED
    BY <2>1, <2>2
<1> QED
  BY <1>1, <1>2, PTL DEF Spec, SafeSpec

\* Types of the variables.
THEOREM ServerTypes == Spec => []TypeOK
<1>1. IInv => TypeOK
  BY DEF IInv
<1> QED
  BY <1>1, ServerInvariant, PTL

\* A frame is not changed while tcp_server_poll copies it, unless one was sent
\* without asking for the slot.
THEOREM FramesWhole == Spec => []FrameWhole
<1>1. IInv => FrameWhole
  BY DEF IInv, TypeOK, RegInv, AskedInv, FrameWhole, Jobs, BufferOf, Buffers
<1> QED
  BY <1>1, ServerInvariant, PTL

-------------------------------------------------------------------------------
(* The bus of the LCD: what a drawing is made of.                          *)

\* The bytes and texts that are written are words.
LEMMA WordsWritten ==
  /\ {0, 1, Green, Labels, Title, Selection, Message} \subseteq Words
  /\ Values \subseteq Words
BY WidthAssumption DEF Words, Green, Labels, Title, Selection, Message, Values

\* The places where something is drawn.
LEMMA PlacesAreTyped ==
  /\ Place.value \in Points /\ Place.samp_val \in Points
  /\ LabelsPlace \in Points /\ TitlePlace \in Points
  /\ SelectionPlace \in Points /\ MessagePlace \in Points
  /\ Point(0, 0, 0) \in Points /\ Point(0, 0, 1) \in Points
BY WordsWritten DEF Place, LabelsPlace, TitlePlace, SelectionPlace, MessagePlace, Point, Points

\* Two drawings, one after the other.
LEMMA ConcatAccesses ==
  ASSUME NEW s \in Seq(Accesses), NEW t \in Seq(Accesses),
         NEW m \in Nat, NEW n \in Nat, Len(s) = m, Len(t) = n
  PROVE  /\ s \o t \in Seq(Accesses) /\ Len(s \o t) = m + n
         /\ \A i \in 1..m + n : (s \o t)[i] = IF i <= m THEN s[i] ELSE t[i - m]
<1>1. /\ s \o t \in Seq(Accesses)
      /\ Len(s \o t) = Len(s) + Len(t)
      /\ \A i \in 1..Len(s) + Len(t) : (s \o t)[i] = IF i <= Len(s) THEN s[i] ELSE t[i - Len(s)]
  BY ConcatProperties, Zenon
<1> QED
  BY <1>1

\* The accesses that draw a point.
LEMMA DrawPoint ==
  ASSUME NEW p \in Points, NEW w \in Words
  PROVE  LET s == LCD_Fast_DrawPoint(p, w)
         IN  /\ s \in Seq(Accesses) /\ Len(s) = 10
             /\ s[1] = Reg("xh") /\ s[2] = Data(p.xh)
             /\ s[3] = Reg("xl") /\ s[4] = Data(p.xl)
             /\ s[5] = Reg("yh") /\ s[6] = Data(p.yh)
             /\ s[7] = Reg("yl") /\ s[8] = Data(p.yl)
             /\ s[9] = Reg("wram") /\ s[10] = Data(w)
<1> DEFINE A == LCD_SetCursor(p)
           B == LCD_WriteRAM_Prepare
           C == Repeat(1, w)
<1>1. A \in Seq(Accesses) /\ Len(A) = 8
  BY DEF LCD_SetCursor, Accesses, Registers, Points
<1>2. B \in Seq(Accesses) /\ Len(B) = 1
  BY DEF LCD_WriteRAM_Prepare, Accesses, Registers
<1>3. C \in Seq(Accesses) /\ Len(C) = 1 /\ C[1] = Data(w)
  BY DEF Repeat, Accesses
<1>4. /\ A[1] = Reg("xh") /\ A[2] = Data(p.xh) /\ A[3] = Reg("xl") /\ A[4] = Data(p.xl)
      /\ A[5] = Reg("yh") /\ A[6] = Data(p.yh) /\ A[7] = Reg("yl") /\ A[8] = Data(p.yl)
      /\ B[1] = Reg("wram")
  BY DEF LCD_SetCursor, LCD_WriteRAM_Prepare
<1> HIDE DEF A, B, C
<1>5. /\ A \o B \in Seq(Accesses) /\ Len(A \o B) = 9
      /\ \A i \in 1..9 : (A \o B)[i] = IF i <= 8 THEN A[i] ELSE B[i - 8]
  <2>1. /\ A \o B \in Seq(Accesses) /\ Len(A \o B) = 8 + 1
        /\ \A i \in 1..8 + 1 : (A \o B)[i] = IF i <= 8 THEN A[i] ELSE B[i - 8]
    <3>1. 8 \in Nat /\ 1 \in Nat
      OBVIOUS
    <3> QED
      BY <3>1, <1>1, <1>2, ConcatAccesses, Zenon
  <2>2. 1..8 + 1 = 1..9 /\ 8 + 1 = 9
    OBVIOUS
  <2> QED
    BY <2>1, <2>2, Zenon
<1>6. /\ (A \o B) \o C \in Seq(Accesses) /\ Len((A \o B) \o C) = 10
      /\ \A i \in 1..10 : ((A \o B) \o C)[i] = IF i <= 9 THEN (A \o B)[i] ELSE C[i - 9]
  <2>1. /\ (A \o B) \o C \in Seq(Accesses) /\ Len((A \o B) \o C) = 9 + 1
        /\ \A i \in 1..9 + 1 : ((A \o B) \o C)[i] = IF i <= 9 THEN (A \o B)[i] ELSE C[i - 9]
    <3>1. 9 \in Nat /\ 1 \in Nat
      OBVIOUS
    <3> QED
      BY <3>1, <1>3, <1>5, ConcatAccesses, Zenon
  <2>2. 1..9 + 1 = 1..10 /\ 9 + 1 = 10
    OBVIOUS
  <2> QED
    BY <2>1, <2>2, Zenon
<1>7. LCD_Fast_DrawPoint(p, w) = (A \o B) \o C
  BY DEF LCD_Fast_DrawPoint, A, B, C
<1> DEFINE s == (A \o B) \o C
<1>8. \A i \in 1..8 : s[i] = A[i]
  BY <1>5, <1>6
<1> HIDE DEF s
<1>9. /\ s[1] = A[1] /\ s[2] = A[2] /\ s[3] = A[3] /\ s[4] = A[4]
      /\ s[5] = A[5] /\ s[6] = A[6] /\ s[7] = A[7] /\ s[8] = A[8]
  BY <1>8
<1>10. s[9] = B[1] /\ s[10] = C[1]
  BY <1>5, <1>6 DEF s
<1> QED
  BY <1>3, <1>4, <1>6, <1>7, <1>9, <1>10 DEF s

\* The accesses of a refresh.
LEMMA RefreshAccesses ==
  ASSUME NEW w \in Values
  PROVE  LET s == Refresh(w)
         IN  /\ s \in Seq(Accesses) /\ Len(s) = 20
             /\ s[1] = Reg("xh") /\ s[2] = Data(0) /\ s[3] = Reg("xl") /\ s[4] = Data(1)
             /\ s[5] = Reg("yh") /\ s[6] = Data(0) /\ s[7] = Reg("yl") /\ s[8] = Data(0)
             /\ s[9] = Reg("wram") /\ s[10] = Data(w)
             /\ s[11] = Reg("xh") /\ s[12] = Data(0) /\ s[13] = Reg("xl") /\ s[14] = Data(1)
             /\ s[15] = Reg("yh") /\ s[16] = Data(0) /\ s[17] = Reg("yl") /\ s[18] = Data(1)
             /\ s[19] = Reg("wram") /\ s[20] = Data(w)
<1> DEFINE A == LCD_Fast_DrawPoint(Place.value, w)
           B == LCD_Fast_DrawPoint(Place.samp_val, w)
<1>1. Place.value \in Points /\ Place.samp_val \in Points /\ w \in Words
  BY WordsWritten, PlacesAreTyped
<1>2. /\ A \in Seq(Accesses) /\ Len(A) = 10
      /\ A[1] = Reg("xh") /\ A[2] = Data(0) /\ A[3] = Reg("xl") /\ A[4] = Data(1)
      /\ A[5] = Reg("yh") /\ A[6] = Data(0) /\ A[7] = Reg("yl") /\ A[8] = Data(0)
      /\ A[9] = Reg("wram") /\ A[10] = Data(w)
  BY <1>1, DrawPoint DEF Place, Point
<1>3. /\ B \in Seq(Accesses) /\ Len(B) = 10
      /\ B[1] = Reg("xh") /\ B[2] = Data(0) /\ B[3] = Reg("xl") /\ B[4] = Data(1)
      /\ B[5] = Reg("yh") /\ B[6] = Data(0) /\ B[7] = Reg("yl") /\ B[8] = Data(1)
      /\ B[9] = Reg("wram") /\ B[10] = Data(w)
  BY <1>1, DrawPoint DEF Place, Point
<1> HIDE DEF A, B
<1>4. /\ A \o B \in Seq(Accesses) /\ Len(A \o B) = 20
      /\ \A i \in 1..20 : (A \o B)[i] = IF i <= 10 THEN A[i] ELSE B[i - 10]
  <2>1. /\ A \o B \in Seq(Accesses) /\ Len(A \o B) = 10 + 10
        /\ \A i \in 1..10 + 10 : (A \o B)[i] = IF i <= 10 THEN A[i] ELSE B[i - 10]
    <3>1. 10 \in Nat
      OBVIOUS
    <3> QED
      BY <3>1, <1>2, <1>3, ConcatAccesses, Zenon
  <2>2. 1..10 + 10 = 1..20 /\ 10 + 10 = 20
    OBVIOUS
  <2> QED
    BY <2>1, <2>2, Zenon
<1>5. Refresh(w) = A \o B
  BY DEF Refresh, A, B
<1> QED
  BY <1>2, <1>3, <1>4, <1>5

-------------------------------------------------------------------------------
(* One access.                                                             *)

\* A register and a word are told apart.
LEMMA AccessKinds ==
  ASSUME NEW a \in Accesses
  PROVE  \/ \E r \in Registers : a = Reg(r)
         \/ \E w \in Words : a = Data(w)
BY DEF Accesses

\* An access takes the first of what task t has left.
LEMMA AccessTakes ==
  ASSUME BusTypes, NEW t \in Tasks, Access(t)
  PROVE  /\ Len(script[t]) \in Nat /\ Len(script[t]) >= 1
         /\ script[t] \in Seq(Accesses)
         /\ Head(script[t]) \in Accesses /\ Head(script[t]) = script[t][1]
         /\ script'[t] = Tail(script[t])
         /\ script'[t] \in Seq(Accesses)
         /\ Len(script'[t]) = Len(script[t]) - 1
         /\ \A i \in 1..Len(script'[t]) : script'[t][i] = script[t][i + 1]
         /\ \A u \in Tasks \ {t} : script'[u] = script[u]
         /\ script' \in [Tasks -> Seq(Accesses)]
         /\ UNCHANGED <<stage, suspended, shown>>
<1>1. script \in [Tasks -> Seq(Accesses)] /\ script[t] # <<>>
      /\ script' = [script EXCEPT ![t] = Tail(@)]
      /\ UNCHANGED <<stage, suspended, shown>>
  BY DEF BusTypes, Access
<1> DEFINE q == script[t]
<1>2. q \in Seq(Accesses) /\ q # <<>>
  BY <1>1
<1>3. script'[t] = Tail(q) /\ \A u \in Tasks \ {t} : script'[u] = script[u]
  BY <1>1
<1> HIDE DEF q
<1>4. /\ Head(q) \in Accesses /\ Tail(q) \in Seq(Accesses)
      /\ Len(Tail(q)) = Len(q) - 1
      /\ \A i \in 1..Len(Tail(q)) : Tail(q)[i] = q[i + 1]
  BY <1>2, HeadTailProperties, Zenon
<1>5. Len(q) \in Nat /\ Len(q) >= 1 /\ Head(q) = q[1]
  BY <1>2, EmptySeq
<1>6. script' \in [Tasks -> Seq(Accesses)]
  BY <1>1, <1>4 DEF q
<1> QED
  BY <1>1, <1>2, <1>3, <1>4, <1>5, <1>6 DEF q

\* What is left of a drawing stays the end of it, and the first of that is
\* known by its length.
LEMMA LeftOfDrawing ==
  ASSUME BusTypes, NEW t \in Tasks, Access(t),
         NEW s \in Seq(Accesses), LeftOf(t, s)
  PROVE  /\ Len(script[t]) \in 1..Len(s)
         /\ Head(script[t]) = s[Len(s) - Len(script[t]) + 1]
         /\ Len(script'[t]) = Len(script[t]) - 1
         /\ LeftOf(t, s)'
<1>1. Len(s) \in Nat
  BY LenProperties
<1>2. /\ Len(script[t]) <= Len(s)
      /\ \A k \in 1..Len(script[t]) : script[t][k] = s[Len(s) - Len(script[t]) + k]
  BY DEF LeftOf
<1> DEFINE q == script[t]
           z == script'[t]
<1>3. /\ Len(q) \in Nat /\ Len(q) >= 1 /\ Head(q) = q[1] /\ Len(z) = Len(q) - 1
      /\ \A i \in 1..Len(z) : z[i] = q[i + 1]
  BY AccessTakes
<1> HIDE DEF q, z
<1>4. /\ Len(q) <= Len(s)
      /\ \A k \in 1..Len(q) : q[k] = s[Len(s) - Len(q) + k]
  BY <1>2 DEF q
<1>5. Len(q) \in 1..Len(s) /\ Head(q) = s[Len(s) - Len(q) + 1]
  BY <1>1, <1>3, <1>4
<1>6. Len(z) <= Len(s)
  BY <1>1, <1>3, <1>4
<1>7. ASSUME NEW k \in 1..Len(z)
      PROVE  z[k] = s[Len(s) - Len(z) + k]
  <2>1. k + 1 \in 1..Len(q) /\ Len(s) - Len(q) + (k + 1) = Len(s) - Len(z) + k
    BY <1>1, <1>3
  <2>2. q[k + 1] = s[Len(s) - Len(q) + (k + 1)]
    BY <1>4, <2>1
  <2> QED
    BY <1>3, <2>1, <2>2
<1> QED
  BY <1>3, <1>5, <1>6, <1>7 DEF LeftOf, q, z

\* An access that selects a register.
LEMMA Selecting ==
  ASSUME NEW t \in Tasks, Access(t), NEW r, Head(script[t]) = Reg(r)
  PROVE  /\ reg' = r /\ cursor' = cursor /\ mem' = mem
         /\ r = "wram" => ptr' = cursor
         /\ r # "wram" => ptr' = ptr
BY DEF Access, Reg, SelectRegister

\* An access that writes a word.
LEMMA Writing ==
  ASSUME BusTypes, NEW t \in Tasks, Access(t), NEW w, Head(script[t]) = Data(w)
  PROVE  /\ reg' = reg
         /\ reg # "wram" => /\ cursor' = [cursor EXCEPT ![reg] = w]
                            /\ ptr' = ptr /\ mem' = mem
         /\ reg = "wram" => cursor' = cursor
         /\ reg = "wram" /\ InPanel(ptr) =>
              /\ ptr' = After(ptr)
              /\ mem' = [p \in DOMAIN mem |-> IF Place[p] # ptr THEN mem[p]
                                               ELSE IF w \in Values THEN w ELSE Green]
         /\ reg = "wram" /\ ~InPanel(ptr) => ptr' = ptr /\ mem' = mem
<1>1. WriteWord(w)
  BY DEF Access, Data
<1> QED
  BY <1>1 DEF WriteWord, panel

\* The pointer stays among the points.
LEMMA AfterIsPoint ==
  ASSUME NEW p, InPanel(p)
  PROVE  After(p) \in Points
<1>1. p.xl \in 0..Width - 1 /\ p.yh \in {0, 1} /\ p.yl \in {0, 1}
  BY DEF InPanel
<1>2. 0..Width - 1 \subseteq Words /\ {0, 1} \subseteq Words
  BY WordsWritten DEF Words
<1>3. p.xl < Width - 1 => p.xl + 1 \in 0..Width - 1
  BY <1>1, WidthAssumption
<1>4. 1 - p.yh \in {0, 1}
  BY <1>1
<1> QED
  BY <1>1, <1>2, <1>3, <1>4 DEF After, Point, Points

\* The part of BusTypes that is about the panel.
PanelTypes ==
  /\ reg \in Registers
  /\ cursor \in Points /\ ptr \in Points
  /\ mem \in [DOMAIN Place -> Values \cup {Green}]

\* An access keeps it.
LEMMA AccessKeepsPanelTypes ==
  ASSUME BusTypes, NEW t \in Tasks, Access(t)
  PROVE  PanelTypes'
<1>1. PanelTypes
  BY DEF BusTypes, PanelTypes
<1>2. Head(script[t]) \in Accesses
  BY AccessTakes
<1>3. CASE \E r \in Registers : Head(script[t]) = Reg(r)
  BY <1>1, <1>3, Selecting DEF PanelTypes
<1>4. CASE \E w \in Words : Head(script[t]) = Data(w)
  <2>1. PICK w \in Words : Head(script[t]) = Data(w)
    BY <1>4
  <2>2. CASE reg # "wram"
    <3>1. cursor' = [cursor EXCEPT ![reg] = w] /\ reg' = reg /\ ptr' = ptr /\ mem' = mem
      BY <2>1, <2>2, Writing
    <3>2. cursor' \in Points
      BY <1>1, <3>1 DEF PanelTypes, Points
    <3> QED
      BY <1>1, <3>1, <3>2 DEF PanelTypes
  <2>3. CASE reg = "wram" /\ InPanel(ptr)
    BY <1>1, <2>1, <2>3, Writing, AfterIsPoint DEF PanelTypes
  <2>4. CASE reg = "wram" /\ ~InPanel(ptr)
    BY <1>1, <2>1, <2>4, Writing DEF PanelTypes
  <2> QED
    BY <2>2, <2>3, <2>4
<1> QED
  BY <1>2, <1>3, <1>4, AccessKinds

-------------------------------------------------------------------------------
(* The steps between two drawings.                                         *)

StageTypes ==
  stage \in [ui : {"clear", "select", "delay"},
             display : {"labels", "refresh", "delay"},
             net : {"idle", "message"}]

\* The scripts are short sequences of accesses.
ScriptTypes ==
  /\ script \in [Tasks -> Seq(Accesses)]
  /\ \A t \in Tasks : Len(script[t]) <= 4 * Width + 28

\* BusTypes in parts.
LEMMA TypesInParts ==
  BusTypes <=> /\ PanelTypes /\ ScriptTypes /\ StageTypes
               /\ shown \in [DOMAIN Place -> Values \cup {Green}]
               /\ suspended \in BOOLEAN
               /\ suspended <=> stage["display"] = "refresh"
BY DEF BusTypes, PanelTypes, ScriptTypes, StageTypes

\* Task t begins a drawing: nothing else moves.
LEMMA BeginDrawing ==
  ASSUME ScriptTypes, PanelTypes, StageTypes, NEW t \in Tasks, NEW u,
         NEW q \in Seq(Accesses), Len(q) <= 20, Begin(t, u, q)
  PROVE  /\ ScriptTypes' /\ PanelTypes'
         /\ script'[t] = q
         /\ \A v \in Tasks \ {t} : script'[v] = script[v]
         /\ stage'[t] = u
         /\ \A v \in Tasks \ {t} : stage'[v] = stage[v]
         /\ stage' = [stage EXCEPT ![t] = u]
         /\ UNCHANGED panel
<1>1. /\ script' = [script EXCEPT ![t] = q]
      /\ stage' = [stage EXCEPT ![t] = u]
      /\ UNCHANGED panel
  BY DEF Begin
<1>2. DOMAIN stage = Tasks
  BY DEF StageTypes, Tasks
<1>3. script' \in [Tasks -> Seq(Accesses)] /\ script'[t] = q
      /\ \A v \in Tasks \ {t} : script'[v] = script[v]
  BY <1>1 DEF ScriptTypes
<1>4. stage'[t] = u /\ \A v \in Tasks \ {t} : stage'[v] = stage[v]
  BY <1>1, <1>2
<1>5. Len(q) <= 4 * Width + 28
  BY WidthAssumption, LenProperties
<1>6. ScriptTypes'
  BY <1>3, <1>5 DEF ScriptTypes
<1>7. PanelTypes'
  BY <1>1 DEF PanelTypes, panel
<1> QED
  BY <1>1, <1>3, <1>4, <1>6, <1>7

\* A whole drawing is left of itself.
LEMMA LeftOfItself ==
  ASSUME NEW q \in Seq(Accesses), NEW t \in Tasks, script'[t] = q
  PROVE  LeftOf(t, q)'
<1>1. Len(q) \in Nat
  BY LenProperties
<1>2. \A k \in 1..Len(q) : Len(q) - Len(q) + k = k
  BY <1>1
<1> QED
  BY <1>1, <1>2 DEF LeftOf

\* Nothing drawn is a sequence of accesses.
LEMMA NoAccesses ==
  <<>> \in Seq(Accesses) /\ Len(<<>>) = 0
BY EmptySeq

\* A step of the menu or of the message between two drawings: the scheduler is
\* not suspended, so no refresh is under way.
LEMMA OthersBegin ==
  ASSUME BusInv, NEW t \in {"ui", "net"}, Runs(t), NEW u,
         NEW q \in Seq(Accesses), Len(q) <= 20, Begin(t, u, q),
         [stage EXCEPT ![t] = u] \in
           [ui : {"clear", "select", "delay"},
            display : {"labels", "refresh", "delay"},
            net : {"idle", "message"}],
         UNCHANGED <<suspended, shown>>
  PROVE  BusInv'
<1>1. t \in Tasks /\ "display" \in Tasks \ {t}
  BY DEF Tasks
<1>2. BusTypes /\ ScriptTypes /\ PanelTypes /\ StageTypes
  BY TypesInParts DEF BusInv
<1>3. ~suspended /\ stage["display"] # "refresh"
  BY <1>2 DEF Runs, BusTypes
<1>4. /\ ScriptTypes' /\ PanelTypes'
      /\ stage' = [stage EXCEPT ![t] = u]
      /\ stage'["display"] = stage["display"]
  BY <1>1, <1>2, BeginDrawing
<1>5. BusTypes'
  <2>1. StageTypes'
    BY <1>4 DEF StageTypes
  <2> QED
    BY <1>2, <1>4, <2>1 DEF BusTypes, PanelTypes, ScriptTypes, StageTypes
<1>6. ScriptInv' /\ RefreshInv'
  BY <1>3, <1>4 DEF ScriptInv, RefreshInv
<1> QED
  BY <1>5, <1>6 DEF BusInv

\* The menu begins its text.
LEMMA ShowSelectionKeeps ==
  ASSUME BusInv, ShowSelection
  PROVE  BusInv'
<1> DEFINE q == LCD_Fast_DrawPoint(SelectionPlace, Selection)
<1>1. q \in Seq(Accesses) /\ Len(q) <= 20
  <2>1. Len(q) = 10 /\ q \in Seq(Accesses)
    BY DrawPoint, WordsWritten, PlacesAreTyped
  <2> QED
    BY <2>1
<1>2. Runs("ui") /\ Begin("ui", "select", q) /\ UNCHANGED <<suspended, shown>>
  BY DEF ShowSelection
<1> HIDE DEF q
<1>3. [stage EXCEPT !["ui"] = "select"] \in
           [ui : {"clear", "select", "delay"},
            display : {"labels", "refresh", "delay"},
            net : {"idle", "message"}]
  BY DEF BusInv, BusTypes
<1> QED
  BY <1>1, <1>2, <1>3, OthersBegin

\* The menu waits.
LEMMA DelayKeeps ==
  ASSUME BusInv, Delay
  PROVE  BusInv'
<1>1. <<>> \in Seq(Accesses) /\ Len(<<>>) <= 20
  BY NoAccesses
<1>2. Runs("ui") /\ Begin("ui", "delay", <<>>) /\ UNCHANGED <<suspended, shown>>
  BY DEF Delay
<1>3. [stage EXCEPT !["ui"] = "delay"] \in
           [ui : {"clear", "select", "delay"},
            display : {"labels", "refresh", "delay"},
            net : {"idle", "message"}]
  BY DEF BusInv, BusTypes
<1> QED
  BY <1>1, <1>2, <1>3, OthersBegin

\* tcp_server_error begins its message while both other tasks wait.
LEMMA ErrorMessageKeeps ==
  ASSUME BusInv, ErrorMessage
  PROVE  BusInv'
<1> DEFINE q == LCD_Fast_DrawPoint(MessagePlace, Message)
<1>1. q \in Seq(Accesses) /\ Len(q) <= 20
  <2>1. Len(q) = 10 /\ q \in Seq(Accesses)
    BY DrawPoint, WordsWritten, PlacesAreTyped
  <2> QED
    BY <2>1
<1>2. Runs("net") /\ Begin("net", "message", q) /\ UNCHANGED <<suspended, shown>>
  BY DEF ErrorMessage
<1> HIDE DEF q
<1>3. [stage EXCEPT !["net"] = "message"] \in
           [ui : {"clear", "select", "delay"},
            display : {"labels", "refresh", "delay"},
            net : {"idle", "message"}]
  BY DEF BusInv, BusTypes
<1> QED
  BY <1>1, <1>2, <1>3, OthersBegin

\* And returns.
LEMMA ErrorReturnsKeeps ==
  ASSUME BusInv, ErrorReturns
  PROVE  BusInv'
<1>1. <<>> \in Seq(Accesses) /\ Len(<<>>) <= 20
  BY NoAccesses
<1>2. Runs("net") /\ Begin("net", "idle", <<>>) /\ UNCHANGED <<suspended, shown>>
  BY DEF ErrorReturns
<1>3. [stage EXCEPT !["net"] = "idle"] \in
           [ui : {"clear", "select", "delay"},
            display : {"labels", "refresh", "delay"},
            net : {"idle", "message"}]
  BY DEF BusInv, BusTypes
<1> QED
  BY <1>1, <1>2, <1>3, OthersBegin

\* The display task suspends the scheduler and begins a refresh, whatever the
\* panel is in the middle of.
LEMMA SuspendAllKeeps ==
  ASSUME BusInv, SuspendAll
  PROVE  BusInv'
<1>1. PICK w \in Values :
        /\ Begin("display", "refresh", Refresh(w))
        /\ shown' = [shown EXCEPT !.value = w, !.samp_val = w]
  BY DEF SuspendAll
<1> DEFINE q == Refresh(w)
<1>2. q \in Seq(Accesses) /\ Len(q) = 20
  BY RefreshAccesses
<1>3. "display" \in Tasks
  BY DEF Tasks
<1>4. BusTypes /\ ScriptTypes /\ PanelTypes /\ StageTypes
  BY TypesInParts DEF BusInv
<1>5. Begin("display", "refresh", q)
  BY <1>1
<1>6. suspended' = TRUE
  BY DEF SuspendAll
<1> HIDE DEF q
<1>7. /\ ScriptTypes' /\ PanelTypes'
      /\ script'["display"] = q
      /\ stage' = [stage EXCEPT !["display"] = "refresh"]
      /\ stage'["display"] = "refresh"
  <2>1. Len(q) <= 20
    BY <1>2
  <2> QED
    BY <1>2, <1>3, <1>4, <1>5, <2>1, BeginDrawing
<1>8. /\ shown' \in [DOMAIN Place -> Values \cup {Green}]
      /\ shown'.value = w /\ shown'.samp_val = w
  BY <1>1, <1>4 DEF BusTypes, Place
<1>9. BusTypes'
  <2>1. StageTypes'
    BY <1>4, <1>7 DEF StageTypes
  <2> QED
    BY <1>4, <1>6, <1>7, <1>8, <2>1 DEF BusTypes, PanelTypes, ScriptTypes, StageTypes
<1>10. ScriptInv'
  <2>1. LeftOf("display", q)'
    BY <1>2, <1>3, <1>7, LeftOfItself
  <2>2. LeftOf("display", Refresh(shown.value))'
    BY <1>8, <2>1 DEF q
  <2> QED
    BY <1>7, <1>8, <2>2 DEF ScriptInv
<1>11. RefreshInv'
  <2>1. Len(script'["display"]) = 20
    BY <1>2, <1>7
  <2> QED
    BY <2>1 DEF RefreshInv
<1> QED
  BY <1>9, <1>10, <1>11 DEF BusInv

\* The refresh is over.
LEMMA ResumeAllKeeps ==
  ASSUME BusInv, ResumeAll
  PROVE  BusInv'
<1>1. "display" \in Tasks
  BY DEF Tasks
<1>2. BusTypes /\ ScriptTypes /\ PanelTypes /\ StageTypes
  BY TypesInParts DEF BusInv
<1>3. /\ suspended' = FALSE /\ shown' = shown
      /\ Begin("display", "delay", <<>>)
  BY DEF ResumeAll
<1>4. /\ ScriptTypes' /\ PanelTypes'
      /\ stage' = [stage EXCEPT !["display"] = "delay"]
      /\ stage'["display"] = "delay"
  <2>1. <<>> \in Seq(Accesses) /\ Len(<<>>) <= 20
    BY NoAccesses
  <2> QED
    BY <1>1, <1>2, <1>3, <2>1, BeginDrawing
<1>5. BusTypes'
  <2>1. StageTypes'
    BY <1>2, <1>4 DEF StageTypes
  <2> QED
    BY <1>2, <1>3, <1>4, <2>1 DEF BusTypes, PanelTypes, ScriptTypes, StageTypes
<1>6. ScriptInv' /\ RefreshInv'
  BY <1>4 DEF ScriptInv, RefreshInv
<1> QED
  BY <1>5, <1>6 DEF BusInv

-------------------------------------------------------------------------------
(* The accesses of the three tasks.                                        *)

\* An access of any task keeps the types.
LEMMA AccessKeepsTypes ==
  ASSUME BusInv, NEW t \in Tasks, Access(t)
  PROVE  BusTypes'
<1>1. BusTypes /\ ScriptTypes
  BY TypesInParts DEF BusInv
<1>2. /\ script[t] \in Seq(Accesses) /\ Len(script[t]) \in Nat
      /\ Len(script'[t]) = Len(script[t]) - 1
      /\ \A u \in Tasks \ {t} : script'[u] = script[u]
      /\ script' \in [Tasks -> Seq(Accesses)]
      /\ UNCHANGED <<stage, suspended, shown>>
  BY <1>1, AccessTakes
<1>3. ScriptTypes'
  <2>1. Len(script[t]) <= 4 * Width + 28 /\ Width \in Nat
    BY <1>1, WidthAssumption DEF ScriptTypes
  <2>2. Len(script'[t]) <= 4 * Width + 28
    BY <1>2, <2>1
  <2>3. \A u \in Tasks \ {t} : Len(script'[u]) <= 4 * Width + 28
    BY <1>1, <1>2 DEF ScriptTypes
  <2> QED
    BY <1>2, <2>2, <2>3 DEF ScriptTypes
<1>4. PanelTypes'
  BY <1>1, AccessKeepsPanelTypes
<1> QED
  BY <1>1, <1>2, <1>3, <1>4 DEF BusTypes, PanelTypes, ScriptTypes

\* With the scheduler suspended only the display task has the bus.
LEMMA OthersWait ==
  ASSUME BusInv, NEW t \in {"ui", "net"}, Access(t)
  PROVE  stage["display"] # "refresh"
BY DEF Access, Runs, BusInv, BusTypes

\* The two points that are refreshed.
LEMMA RefreshedPoints ==
  InPanel(Place.value) /\ InPanel(Place.samp_val) /\ Place.value # Place.samp_val
BY WidthAssumption DEF InPanel, Place, Point

\* A word written to the cursor replaces one of its bytes.
LEMMA CursorByte ==
  ASSUME BusTypes, NEW t \in Tasks, Access(t), NEW w, Head(script[t]) = Data(w),
         reg # "wram"
  PROVE  /\ reg' = reg /\ mem' = mem /\ ptr' = ptr
         /\ cursor'.xh = IF reg = "xh" THEN w ELSE cursor.xh
         /\ cursor'.xl = IF reg = "xl" THEN w ELSE cursor.xl
         /\ cursor'.yh = IF reg = "yh" THEN w ELSE cursor.yh
         /\ cursor'.yl = IF reg = "yl" THEN w ELSE cursor.yl
<1>1. reg' = reg /\ mem' = mem /\ ptr' = ptr /\ cursor' = [cursor EXCEPT ![reg] = w]
  BY Writing
<1>2. cursor \in Points
  BY DEF BusTypes
<1> QED
  BY <1>1, <1>2 DEF Points

\* A refresh goes on: nobody else runs.
LEMMA RefreshGoesOn ==
  ASSUME BusInv, Access("display"), stage["display"] = "refresh"
  PROVE  ScriptInv' /\ RefreshInv'
<1> DEFINE n == Len(script["display"])
           v == shown.value
           s == Refresh(v)
           h == Head(script["display"])
           m == Len(script'["display"])
<1>1. BusTypes /\ "display" \in Tasks
  BY DEF BusInv, Tasks
<1>2. v \in Values /\ shown.samp_val = v /\ LeftOf("display", s)
  BY DEF BusInv, ScriptInv
<1>3. s \in Seq(Accesses) /\ Len(s) = 20
  BY <1>2, RefreshAccesses
<1>4. stage' = stage /\ shown' = shown
  BY <1>1, AccessTakes
<1>5. ScriptInv'
  <2>1. LeftOf("display", s)'
    <3>1. ASSUME NEW q \in Seq(Accesses), LeftOf("display", q)
          PROVE  LeftOf("display", q)'
      BY <1>1, <3>1, LeftOfDrawing
    <3>2. s' = s
      BY <1>4 DEF Refresh, LCD_Fast_DrawPoint, LCD_SetCursor, LCD_WriteRAM_Prepare,
                  Repeat, Place, Point, Reg, Data
    <3> HIDE DEF s
    <3> QED
      BY <1>2, <1>3, <3>1, <3>2
  <2> QED
    BY <1>2, <1>4, <2>1 DEF ScriptInv
<1>6. n \in 1..20 /\ h = s[21 - n] /\ m = n - 1
  <2>1. n \in 1..20 /\ h = s[20 - n + 1] /\ m = n - 1
    BY <1>1, <1>2, <1>3, LeftOfDrawing
  <2> HIDE DEF n, h, s, m
  <2>2. 20 - n + 1 = 21 - n
    BY <2>1
  <2> QED
    BY <2>1, <2>2
<1>7. /\ s[1] = Reg("xh") /\ s[3] = Reg("xl") /\ s[5] = Reg("yh") /\ s[7] = Reg("yl")
      /\ s[11] = Reg("xh") /\ s[13] = Reg("xl") /\ s[15] = Reg("yh") /\ s[17] = Reg("yl")
      /\ s[9] = Reg("wram") /\ s[19] = Reg("wram")
  BY <1>2, RefreshAccesses
<1>8. /\ s[2] = Data(0) /\ s[4] = Data(1) /\ s[6] = Data(0) /\ s[8] = Data(0)
      /\ s[12] = Data(0) /\ s[14] = Data(1) /\ s[16] = Data(0) /\ s[18] = Data(1)
      /\ s[10] = Data(v) /\ s[20] = Data(v)
  BY <1>2, RefreshAccesses
<1>9. /\ n \in {20, 10} => h = Reg("xh")
      /\ n \in {18, 8} => h = Reg("xl")
      /\ n \in {16, 6} => h = Reg("yh")
      /\ n \in {14, 4} => h = Reg("yl")
      /\ n \in {12, 2} => h = Reg("wram")
  <2> HIDE DEF n, h, s, m
  <2> QED
    BY <1>6, <1>7
<1>10. /\ n \in {19, 9, 15, 5, 13} => h = Data(0)
       /\ n \in {17, 7, 3} => h = Data(1)
       /\ n \in {11, 1} => h = Data(v)
  <2> HIDE DEF n, h, s, m, v
  <2> QED
    BY <1>6, <1>8
<1>11. /\ n \in {19, 9} => reg = "xh"
       /\ n \in {17, 7} => reg = "xl"
       /\ n \in {15, 5} => reg = "yh"
       /\ n \in {13, 3} => reg = "yl"
       /\ n \in {11, 1} => reg = "wram"
       /\ n <= 18 => cursor.xh = 0
       /\ n <= 16 => cursor.xl = 1
       /\ n <= 14 => cursor.yh = 0
       /\ n = 12 => cursor.yl = 0
       /\ n = 2 => cursor.yl = 1
       /\ n = 11 => ptr = Place.value
       /\ n = 1 => ptr = Place.samp_val
       /\ n <= 10 => mem.value = v
  BY DEF BusInv, RefreshInv
<1>12. cursor \in Points /\ mem \in [{"value", "samp_val"} -> Values \cup {Green}]
  BY <1>1 DEF BusTypes, Place
<1> HIDE DEF n, v, h, s, m
<1>13. CASE n \in {20, 18, 16, 14, 12, 10, 8, 6, 4, 2}
  <2>1. mem' = mem /\ cursor' = cursor
    BY <1>1, <1>9, <1>13, Selecting DEF h
  <2>2. /\ n \in {20, 10} => reg' = "xh"
        /\ n \in {18, 8} => reg' = "xl"
        /\ n \in {16, 6} => reg' = "yh"
        /\ n \in {14, 4} => reg' = "yl"
        /\ n \in {12, 2} => reg' = "wram" /\ ptr' = cursor
    BY <1>1, <1>9, Selecting DEF h
  <2>3. n = 12 => ptr' = Place.value
    BY <1>11, <1>12, <2>2 DEF Place, Point, Points
  <2>4. n = 2 => ptr' = Place.samp_val
    BY <1>11, <1>12, <2>2 DEF Place, Point, Points
  <2>5. /\ m \in {19, 9} => reg' = "xh"
        /\ m \in {17, 7} => reg' = "xl"
        /\ m \in {15, 5} => reg' = "yh"
        /\ m \in {13, 3} => reg' = "yl"
        /\ m \in {11, 1} => reg' = "wram"
        /\ m <= 18 => cursor'.xh = 0
        /\ m <= 16 => cursor'.xl = 1
        /\ m <= 14 => cursor'.yh = 0
        /\ m \notin {12, 2, 0}
        /\ m = 11 => ptr' = Place.value
        /\ m = 1 => ptr' = Place.samp_val
        /\ m <= 10 => mem'.value = v
    BY <1>6, <1>11, <1>13, <2>1, <2>2, <2>3, <2>4
  <2> QED
    BY <1>4, <1>5, <2>5 DEF RefreshInv, m, v
<1>14. CASE n \in {19, 17, 15, 13, 9, 7, 5, 3}
  <2>1. PICK w : h = Data(w) /\ (n \in {19, 9, 15, 5, 13} => w = 0) /\ (n \in {17, 7, 3} => w = 1)
    BY <1>10, <1>14
  <2>2. reg # "wram"
    BY <1>11, <1>14
  <2>3. /\ reg' = reg /\ mem' = mem /\ ptr' = ptr
        /\ cursor'.xh = IF reg = "xh" THEN w ELSE cursor.xh
        /\ cursor'.xl = IF reg = "xl" THEN w ELSE cursor.xl
        /\ cursor'.yh = IF reg = "yh" THEN w ELSE cursor.yh
        /\ cursor'.yl = IF reg = "yl" THEN w ELSE cursor.yl
    BY <1>1, <2>1, <2>2, CursorByte DEF h
  <2>4. /\ m \in {18, 16, 14, 12, 8, 6, 4, 2}
        /\ m <= 18 => cursor'.xh = 0
        /\ m <= 16 => cursor'.xl = 1
        /\ m <= 14 => cursor'.yh = 0
        /\ m = 12 => cursor'.yl = 0
        /\ m = 2 => cursor'.yl = 1
        /\ m <= 10 => mem'.value = v
        /\ m \notin {19, 9, 17, 7, 15, 5, 13, 3, 11, 1, 0}
    BY <1>6, <1>11, <1>14, <2>1, <2>3
  <2> QED
    BY <1>4, <1>5, <2>4 DEF RefreshInv, m, v
<1>15. CASE n = 11
  <2>1. /\ mem' = [p \in DOMAIN mem |-> IF Place[p] # ptr THEN mem[p]
                                         ELSE IF v \in Values THEN v ELSE Green]
        /\ cursor' = cursor
    BY <1>1, <1>10, <1>11, <1>15, Writing, RefreshedPoints DEF h
  <2>2. mem'.value = v
    BY <1>2, <1>11, <1>12, <1>15, <2>1 DEF v
  <2>3. m = 10
    BY <1>6, <1>15
  <2> QED
    BY <1>4, <1>5, <1>11, <1>15, <2>1, <2>2, <2>3 DEF RefreshInv, m, v
<1>16. CASE n = 1
  <2>1. /\ mem' = [p \in DOMAIN mem |-> IF Place[p] # ptr THEN mem[p]
                                         ELSE IF v \in Values THEN v ELSE Green]
        /\ cursor' = cursor
    BY <1>1, <1>10, <1>11, <1>16, Writing, RefreshedPoints DEF h
  <2>2. mem'.value = mem.value /\ mem'.samp_val = v
    BY <1>2, <1>11, <1>12, <1>16, <2>1, RefreshedPoints DEF v
  <2>3. m = 0 /\ mem.value = v
    BY <1>6, <1>11, <1>16
  <2> QED
    BY <1>2, <1>4, <1>5, <1>11, <1>16, <2>1, <2>2, <2>3 DEF RefreshInv, m, v
<1> QED
  BY <1>6, <1>13, <1>14, <1>15, <1>16

\* An access of any task keeps the invariant.
LEMMA AccessKeeps ==
  ASSUME BusInv, NEW t \in Tasks, Access(t)
  PROVE  BusInv'
<1>1. BusTypes'
  BY AccessKeepsTypes
<1>2. stage' = stage
  BY AccessTakes DEF BusInv
<1>3. CASE stage["display"] = "refresh"
  <2>1. t = "display"
    BY <1>3, OthersWait DEF Tasks
  <2> QED
    BY <1>1, <1>3, <2>1, RefreshGoesOn DEF BusInv
<1>4. CASE stage["display"] # "refresh"
  BY <1>1, <1>2, <1>4 DEF BusInv, ScriptInv, RefreshInv
<1> QED
  BY <1>3, <1>4

-------------------------------------------------------------------------------
(* The theorems.                                                           *)

\* A fill of n points.
LEMMA FillAccesses ==
  ASSUME NEW p \in Points, NEW n \in Nat, NEW w \in Words
  PROVE  LET s == LCD_SetCursor(p) \o LCD_WriteRAM_Prepare \o Repeat(n, w)
         IN  s \in Seq(Accesses) /\ Len(s) = n + 9
<1> DEFINE A == LCD_SetCursor(p)
           B == LCD_WriteRAM_Prepare
           C == Repeat(n, w)
<1>1. A \in Seq(Accesses) /\ Len(A) = 8
  BY DEF LCD_SetCursor, Accesses, Registers, Points
<1>2. B \in Seq(Accesses) /\ Len(B) = 1
  BY DEF LCD_WriteRAM_Prepare, Accesses, Registers
<1>3. C \in Seq(Accesses) /\ Len(C) = n
  BY DEF Repeat, Accesses
<1> HIDE DEF A, B, C
<1>4. A \o B \in Seq(Accesses) /\ Len(A \o B) = Len(A) + Len(B)
  BY <1>1, <1>2, ConcatProperties, Zenon
<1>5. (A \o B) \o C \in Seq(Accesses) /\ Len((A \o B) \o C) = Len(A \o B) + Len(C)
  BY <1>3, <1>4, ConcatProperties, Zenon
<1>6. Len((A \o B) \o C) = n + 9
  BY <1>1, <1>2, <1>3, <1>4, <1>5
<1> QED
  BY <1>5, <1>6 DEF A, B, C

\* The two tasks have their first screens to draw.
LEMMA InitBusInv ==
  BusInit => BusInv
<1> SUFFICES ASSUME BusInit
             PROVE  BusInv
  OBVIOUS
<1> DEFINE clear == LCD_Clear
           title == LCD_Fast_DrawPoint(TitlePlace, Title)
           upper == FillRow(0)
           lower == FillRow(1)
           labels == LCD_Fast_DrawPoint(LabelsPlace, Labels)
<1>1. clear \in Seq(Accesses) /\ Len(clear) = 4 * Width + 9
  <2>1. 4 * Width \in Nat /\ Green \in Words /\ Point(0, 0, 0) \in Points
    BY WidthAssumption, WordsWritten, PlacesAreTyped
  <2> QED
    BY <2>1, FillAccesses DEF LCD_Clear
<1>2. /\ upper \in Seq(Accesses) /\ Len(upper) = Width + 9
      /\ lower \in Seq(Accesses) /\ Len(lower) = Width + 9
  <2>1. Width \in Nat /\ Green \in Words /\ Point(0, 0, 0) \in Points /\ Point(0, 0, 1) \in Points
    BY WidthAssumption, WordsWritten, PlacesAreTyped
  <2> QED
    BY <2>1, FillAccesses DEF FillRow
<1>3. title \in Seq(Accesses) /\ Len(title) = 10
  BY DrawPoint, WordsWritten, PlacesAreTyped
<1>4. labels \in Seq(Accesses) /\ Len(labels) = 10
  BY DrawPoint, WordsWritten, PlacesAreTyped
<1>5. script = [ui |-> clear \o title, display |-> (upper \o lower) \o labels, net |-> <<>>]
  BY DEF BusInit, LCD_Fill
<1> HIDE DEF clear, title, upper, lower, labels
<1>6. clear \o title \in Seq(Accesses) /\ Len(clear \o title) = Len(clear) + Len(title)
  BY <1>1, <1>3, ConcatProperties, Zenon
<1>7. upper \o lower \in Seq(Accesses) /\ Len(upper \o lower) = Len(upper) + Len(lower)
  BY <1>2, ConcatProperties, Zenon
<1>8. /\ (upper \o lower) \o labels \in Seq(Accesses)
      /\ Len((upper \o lower) \o labels) = Len(upper \o lower) + Len(labels)
  BY <1>4, <1>7, ConcatProperties, Zenon
<1>9. /\ Len(clear \o title) <= 4 * Width + 28
      /\ Len((upper \o lower) \o labels) <= 4 * Width + 28
  BY <1>1, <1>2, <1>3, <1>4, <1>6, <1>7, <1>8, WidthAssumption
<1>10. ScriptTypes
  <2>1. script \in [Tasks -> Seq(Accesses)]
    <3>1. /\ DOMAIN script = Tasks
          /\ script = [t \in Tasks |-> script[t]]
      BY <1>5 DEF Tasks
    <3>2. /\ script["ui"] \in Seq(Accesses) /\ script["display"] \in Seq(Accesses)
          /\ script["net"] = <<>>
      BY <1>5, <1>6, <1>8
    <3>3. \A t \in Tasks : script[t] \in Seq(Accesses)
      BY <3>2, NoAccesses DEF Tasks
    <3> QED
      BY <3>1, <3>3
  <2>2. /\ Len(script["ui"]) <= 4 * Width + 28
        /\ Len(script["display"]) <= 4 * Width + 28
        /\ Len(script["net"]) <= 4 * Width + 28
    BY <1>5, <1>9, NoAccesses, WidthAssumption
  <2> QED
    BY <2>1, <2>2 DEF ScriptTypes, Tasks
<1>11. PanelTypes
  BY PlacesAreTyped DEF BusInit, PanelTypes, Registers
<1>12. BusTypes
  BY <1>10, <1>11 DEF BusInit, BusTypes, PanelTypes, ScriptTypes
<1>13. ScriptInv /\ RefreshInv
  BY DEF BusInit, ScriptInv, RefreshInv
<1> QED
  BY <1>12, <1>13 DEF BusInv

\* Every step of the three tasks keeps the invariant.
LEMMA NextKeepsBusInv ==
  ASSUME BusInv, [BusNext]_busVars
  PROVE  BusInv'
<1>1. CASE UNCHANGED busVars
  <2>1. UNCHANGED <<reg, cursor, ptr, mem, script, stage, suspended, shown>>
    BY <1>1 DEF busVars, panel
  <2>2. BusTypes'
    BY <2>1 DEF BusInv, BusTypes
  <2>3. ScriptInv'
    BY <2>1 DEF BusInv, ScriptInv, LeftOf
  <2>4. RefreshInv'
    BY <2>1 DEF BusInv, RefreshInv
  <2> QED
    BY <2>2, <2>3, <2>4 DEF BusInv
<1> QED
  BY <1>1, AccessKeeps, ShowSelectionKeeps, DelayKeeps, SuspendAllKeeps, ResumeAllKeeps,
     ErrorMessageKeeps, ErrorReturnsKeeps DEF BusNext

\* How far a refresh has come tells what it has done to cursor, pointer and
\* panel, whatever drawing it has cut, for any width of the panel.
THEOREM BusInvariant == BusSpec => []BusInv
<1>1. BusInit => BusInv
  BY InitBusInv
<1>2. BusInv /\ [BusNext]_busVars => BusInv'
  BY NextKeepsBusInv
<1> QED
  BY <1>1, <1>2, PTL DEF BusSpec

\* The types of the bus, and only the display task runs with the scheduler
\* suspended (gui.c 109-122).
THEOREM BusTyped == BusSpec => []BusTypes
<1>1. BusInv => BusTypes
  BY DEF BusInv
<1> QED
  BY <1>1, BusInvariant, PTL

\* What the display task has refreshed is on the panel when it lets the others
\* run, wherever in their drawings it has cut them (gui.c 109-122).
THEOREM RefreshArrives == BusSpec => []RefreshInPlace
<1>1. BusInv => RefreshInPlace
  <2>1. Len(<<>>) = 0
    BY NoAccesses
  <2> QED
    BY <2>1 DEF BusInv, RefreshInv, RefreshInPlace
<1> QED
  BY <1>1, BusInvariant, PTL
===============================================================================
