------------------------------ MODULE TcpServer ------------------------------
(***************************************************************************)
(* The TCP server of the oscilloscope (myLWIPAPP.c) and the send slot the  *)
(* tasks share: dataSend and tcp_server_flag, a byte whose bits 7, 6 and 5 *)
(* say that there is data to send, that data came in and that a client is  *)
(* connected.                                                              *)
(*                                                                         *)
(* Callbacks of lwIP run in the TCP/IP thread, one at a time.  That thread *)
(* and the ADC task have the same priority and are time-sliced, so each    *)
(* |= and &= of theirs is a load and a store; the UI task has a higher     *)
(* priority: its key handlers (Connection, gui.c) are one step.            *)
(*                                                                         *)
(* The PCBs of lwIP are kept as far as tcp_Echoserver_PCB can point to     *)
(* them.  Closing a freed PCB damages the pools of lwIP: nothing is said   *)
(* of what comes after it.                                                 *)
(***************************************************************************)
EXTENDS Naturals

CONSTANT Clients  \* the connections hosts may open at a time

ASSUME ClientsAssumption ==
  Clients \cap {"none", "listening", "closed", "pool"} = {}

Bits    == {"data", "recv", "client"}     \* bits 7, 6 and 5 of tcp_server_flag
Buffers == {"temp_buf", "temp_frame", "databuf"}

\* What the ADC task sends, and the buffer it sends it from.
Jobs     == {"wave", "rms", "end"}
BufferOf == [j \in Jobs |-> IF j = "wave" THEN "temp_buf" ELSE "temp_frame"]

VARIABLES
  flag,     \* tcp_server_flag, the set of its bits
  len,      \* dataSend.len: the buffer whose length it is, or "zero"
  data,     \* dataSend.instrumentData
  conn,     \* state of each connection
  listener, \* a PCB listens on the port
  server,   \* what tcp_Echoserver_PCB points to
  cut,      \* a freed PCB was closed
  tpc,      \* next statement of the TCP/IP thread
  treg,     \* the flag it has loaded
  apc,      \* next statement of the ADC task
  areg,     \* the flag it has loaded
  job       \* what it sends

slot  == <<flag, len, data>>
net   == <<conn, listener, server, cut>>
tcpip == <<tpc, treg>>
adc   == <<apc, areg, job>>
vars  == <<slot, net, tcpip, adc>>

Init ==
  /\ flag = {} /\ len = "zero" /\ data = "databuf"
  /\ conn = [c \in Clients |-> "none"]
  /\ listener = FALSE /\ server = "none" /\ cut = FALSE
  /\ tpc = "idle" /\ treg = {}
  /\ apc = "idle" /\ areg = {} /\ job = "wave"

-----------------------------------------------------------------------------
(* Callbacks of the TCP/IP thread.                                         *)

\* tcp_Echoserver_Accept; the PCB comes from the pool, where it may be the
\* one tcp_Connect has freed.  Then: tcp_server_flag |= 1<<5.
Accept(c) ==
  /\ tpc = "idle" /\ listener /\ conn[c] = "none"
  /\ conn' = [conn EXCEPT ![c] = "open"]
  /\ \/ UNCHANGED server
     \/ server = "pool" /\ server' = c
  /\ tpc' = "accepted"
  /\ UNCHANGED <<slot, listener, cut, treg, adc>>

AcceptLoad ==
  /\ tpc = "accepted"
  /\ treg' = flag \cup {"client"}
  /\ tpc' = "flagStore"
  /\ UNCHANGED <<slot, net, adc>>

\* tcp_server_recv with data: tcp_server_flag |= 1U<<6.
RecvLoad(c) ==
  /\ tpc = "idle" /\ conn[c] = "open"
  /\ treg' = flag \cup {"recv"}
  /\ tpc' = "flagStore"
  /\ UNCHANGED <<slot, net, adc>>

FlagStore ==
  /\ tpc = "flagStore"
  /\ flag' = treg
  /\ treg' = {}
  /\ tpc' = "idle"
  /\ UNCHANGED <<len, data, net, adc>>

\* tcp_server_recv without data: the client has closed its side; the state
\* that would make tcp_server_poll close ours is not set.
RecvFin(c) ==
  /\ tpc = "idle" /\ conn[c] = "open"
  /\ conn' = [conn EXCEPT ![c] = "half"]
  /\ UNCHANGED <<slot, listener, server, cut, tcpip, adc>>

\* tcp_server_error after a reset, or the end of a connection that tcp_close
\* closed: the PCB goes back to the pool and tcp_server_flag stays.
Gone(c) ==
  /\ tpc = "idle" /\ conn[c] # "none"
  /\ conn' = [conn EXCEPT ![c] = "none"]
  /\ server' = IF server = c THEN "pool" ELSE server
  /\ UNCHANGED <<slot, listener, cut, tcpip, adc>>

\* Bug: tcp_server_poll does not look at the data bit.
Poll_Unasked(c) ==
  /\ tpc = "idle" /\ conn[c] # "none"
  /\ len # "zero"
  /\ tpc' = "take"
  /\ UNCHANGED <<slot, net, treg, adc>>

\* Bug: a connection the client has closed its side of is not polled.
Poll_Open(c) ==
  /\ tpc = "idle" /\ conn[c] = "open"
  /\ "data" \in flag /\ len # "zero"
  /\ tpc' = "take"
  /\ UNCHANGED <<slot, net, treg, adc>>

\* tcp_server_poll: there is data to send ...
Poll(c) ==
  /\ tpc = "idle" /\ conn[c] # "none"
  /\ "data" \in flag /\ len # "zero"
  /\ tpc' = "take"
  /\ UNCHANGED <<slot, net, treg, adc>>

\* What becomes of a frame: lwIP takes all of its pbufs, or some of them and
\* then tcp_write fails or the send buffer is full, or none, or there was no
\* pbuf to copy it to.  What it does not take is freed.
Outcomes == {"sent", "part", "dropped"}

\* ... which pbuf_take copies and tcp_server_senddata gives to lwIP ...
PollTake ==
  /\ tpc = "take"
  /\ tpc' \in Outcomes
  /\ UNCHANGED <<slot, net, treg, adc>>

\* ... then, whatever became of it, tcp_server_flag &= ~(1<<7) ...
PollLoad ==
  /\ tpc \in Outcomes
  /\ treg' = flag \ {"data"}
  /\ tpc' = "pollStore"
  /\ UNCHANGED <<slot, net, adc>>

PollStore ==
  /\ tpc = "pollStore"
  /\ flag' = treg
  /\ treg' = {}
  /\ tpc' = "zero"
  /\ UNCHANGED <<len, data, net, adc>>

\* ... and dataSend.len = 0.
PollZero ==
  /\ tpc = "zero"
  /\ len' = "zero"
  /\ tpc' = "idle"
  /\ UNCHANGED <<flag, data, net, treg, adc>>

-----------------------------------------------------------------------------
(* The ADC task: ADCHandleTaskFunction, SendEndCali and ETH_SendData.      *)

\* ETH_isReadyToSendData before a waveform or an RMS value; the buffer is
\* filled next.  A task that is not ready sends nothing this time.
CheckReady(j) ==
  /\ apc = "idle" /\ "data" \notin flag
  /\ job' = j
  /\ apc' = "fill"
  /\ UNCHANGED <<slot, net, tcpip, areg>>

\* SendEndCali does not ask.
StartEndCali ==
  /\ apc = "idle"
  /\ job' = "end"
  /\ apc' = "fill"
  /\ UNCHANGED <<slot, net, tcpip, areg>>

\* The buffer is full; ETH_SendData only sends to a client.
SendRefused ==
  /\ apc = "fill" /\ "client" \notin flag
  /\ apc' = "idle"
  /\ UNCHANGED <<slot, net, tcpip, areg, job>>

SendAccepted ==
  /\ apc = "fill" /\ "client" \in flag
  /\ apc' = "len"
  /\ UNCHANGED <<slot, net, tcpip, areg, job>>

\* Bug: the length is taken for the kind of frame, and not for its buffer.
SendLen_Job ==
  /\ apc = "len"
  /\ len' = job
  /\ apc' = "ptr"
  /\ UNCHANGED <<flag, data, net, tcpip, areg, job>>

SendLen ==
  /\ apc = "len"
  /\ len' = BufferOf[job]
  /\ apc' = "ptr"
  /\ UNCHANGED <<flag, data, net, tcpip, areg, job>>

SendPtr ==
  /\ apc = "ptr"
  /\ data' = BufferOf[job]
  /\ apc' = "load"
  /\ UNCHANGED <<flag, len, net, tcpip, areg, job>>

\* tcp_server_flag |= 1<<7.
SendLoad ==
  /\ apc = "load"
  /\ areg' = flag \cup {"data"}
  /\ apc' = "store"
  /\ UNCHANGED <<slot, net, tcpip, job>>

SendStore ==
  /\ apc = "store"
  /\ flag' = areg
  /\ areg' = {}
  /\ apc' = "idle"
  /\ UNCHANGED <<len, data, net, tcpip, job>>

-----------------------------------------------------------------------------
(* The UI task: Connection.                                                *)

\* KEY_0 shows what was received.
Test_Read ==
  /\ "recv" \in flag
  /\ flag' = flag \ {"recv"}
  /\ UNCHANGED <<len, data, net, tcpip, adc>>

\* KEY_1 without a client, tcp_Connect: the port is free ...
Listen ==
  /\ "client" \notin flag
  /\ ~listener /\ \A c \in Clients : conn[c] = "none"
  /\ listener' = TRUE
  /\ server' = "listening"
  /\ UNCHANGED <<slot, conn, cut, tcpip, adc>>

\* ... or tcp_bind fails, and the PCB tcp_Echoserver_PCB has just been set to
\* is freed ...
ListenFails ==
  /\ "client" \notin flag
  /\ listener \/ \E c \in Clients : conn[c] # "none"
  /\ server' = "pool"
  /\ UNCHANGED <<slot, conn, listener, cut, tcpip, adc>>

\* ... or tcp_new has no PCB to give.
NoPCB ==
  /\ "client" \notin flag
  /\ server' = "none"
  /\ UNCHANGED <<slot, conn, listener, cut, tcpip, adc>>

\* KEY_1 with a client: tcp_close(tcp_Echoserver_PCB), which refuses NULL, and
\* bit 5 is cleared.
Close ==
  /\ "client" \in flag
  /\ \/ /\ server = "listening"
        /\ listener' = FALSE /\ server' = "closed"
        /\ UNCHANGED <<conn, cut>>
     \/ /\ server \in Clients
        /\ conn' = [conn EXCEPT ![server] = "closing"]
        /\ UNCHANGED <<listener, server, cut>>
     \/ /\ server = "none"
        /\ UNCHANGED <<conn, listener, server, cut>>
     \/ /\ server \in {"closed", "pool"}
        /\ cut' = TRUE
        /\ UNCHANGED <<conn, listener, server>>
  /\ flag' = flag \ {"client"}
  /\ UNCHANGED <<len, data, tcpip, adc>>

\* KEY_2 sends a buffer of its own, asking for a client but not for the slot.
Test_Send ==
  /\ "client" \in flag
  /\ len' = "databuf" /\ data' = "databuf"
  /\ flag' = flag \cup {"data"}
  /\ UNCHANGED <<net, tcpip, adc>>

-----------------------------------------------------------------------------
TcpipStep ==
  AcceptLoad \/ FlagStore \/ PollTake \/ PollLoad \/ PollStore \/ PollZero

Host(c) == Accept(c) \/ RecvLoad(c) \/ RecvFin(c) \/ Gone(c) \/ Poll(c)

AdcSend ==
  SendRefused \/ SendAccepted \/ SendLen \/ SendPtr \/ SendLoad \/ SendStore

AdcTask == (\E j \in {"wave", "rms"} : CheckReady(j)) \/ StartEndCali \/ AdcSend

UITask == Test_Read \/ Listen \/ ListenFails \/ NoPCB \/ Close \/ Test_Send

Next ==
  /\ ~cut
  /\ TcpipStep \/ (\E c \in Clients : Host(c)) \/ AdcTask \/ UITask

\* A callback and a send that were started are finished, and the coarse timer
\* of lwIP polls every connection there is again and again.
Fairness ==
  /\ WF_vars(~cut /\ TcpipStep)
  /\ WF_vars(~cut /\ AdcSend)
  /\ \A c \in Clients : SF_vars(~cut /\ Poll(c))

SafeSpec == Init /\ [][Next]_vars
Spec     == SafeSpec /\ Fairness

-----------------------------------------------------------------------------
\* Types of the variables.
TypeOK ==
  /\ flag \subseteq Bits
  /\ len \in Buffers \cup {"zero"}
  /\ data \in Buffers
  /\ conn \in [Clients -> {"none", "open", "half", "closing"}]
  /\ listener \in BOOLEAN
  /\ server \in Clients \cup {"none", "listening", "closed", "pool"}
  /\ cut \in BOOLEAN
  /\ tpc \in {"idle", "accepted", "flagStore", "take", "pollStore", "zero"} \cup Outcomes
  /\ treg \subseteq Bits
  /\ apc \in {"idle", "fill", "len", "ptr", "load", "store"}
  /\ areg \subseteq Bits
  /\ job \in Jobs

\* The one bit both sides update without a lock protects the buffers all the
\* same: while tcp_server_poll copies a frame, the ADC task neither refills
\* the buffer it copies nor has changed the length without the pointer, unless
\* a frame that was sent unasked (END_CALI or the UI's test) is involved.
FrameWhole ==
  tpc = "take" =>
    /\ apc = "fill" /\ data = BufferOf[job] => job = "end"
    /\ len # data => \/ len = "databuf"
                     \/ apc = "ptr" /\ (job = "end" \/ data = "databuf")

\* A frame that is in the slot while no callback is under way is copied by a
\* poll and given to tcp_server_senddata, as long as there is a connection to
\* poll: after a client has closed its side, and while others come and go.  Not
\* that it leaves: see Outcomes, and FrameKept for one that a callback under
\* way makes invisible.
SlotServed ==
  tpc = "idle" /\ "data" \in flag /\ len # "zero" ~>
    tpc = "take" \/ (\A c \in Clients : conn[c] = "none") \/ cut

\* The pointer tcp_close is given only ever names a PCB that is listening, a
\* live connection, or one that was freed.
ServerPointer ==
  /\ server = "listening" => listener
  /\ server = "closed" => ~listener
  /\ server \in Clients => conn[server] # "none"

-----------------------------------------------------------------------------
(* The inductive invariant behind FrameWhole.                              *)

\* Only tcp_server_poll takes the data bit away, so the callbacks that load
\* and store the flag never restore a bit that was cleared in between, and the
\* bit is up while a frame is being sent.
RegInv ==
  /\ "data" \in treg => "data" \in flag
  /\ tpc \in {"take", "pollStore"} \cup Outcomes => "data" \in flag
  /\ tpc = "pollStore" => "data" \notin treg
  /\ tpc = "take" => len # "zero"

\* A sender that asked has the slot to itself until the UI takes it.
AskedInv ==
  /\ apc \in {"fill", "len", "ptr"} /\ job # "end" /\ "data" \in flag
       => data = "databuf"
  /\ len \notin {"zero", "databuf", data} => apc = "ptr"
  /\ apc = "ptr" => len \in {"zero", "databuf", BufferOf[job]}
  /\ apc = "store" => "data" \in areg

\* The inductive invariant.
IInv == TypeOK /\ RegInv /\ AskedInv /\ ServerPointer

-----------------------------------------------------------------------------
(* What a comment says and the code refutes.                               *)

\* "bit7: 0, no data to send; 1, data to send" (myLWIPAPP.c 23): when nobody is
\* in the middle of changing the slot, a bit that is up says that there is a
\* frame in it ...
DataBit == tpc = "idle" /\ apc = "idle" => ("data" \in flag => len # "zero")

\* ... and one that is down that there is none: a callback that has loaded the
\* flag before a send and stores it afterwards (lines 62, 165) hides the frame.
FrameKept == tpc = "idle" /\ apc = "idle" => (len # "zero" => "data" \in flag)
=============================================================================
