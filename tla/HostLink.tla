------------------------------ MODULE HostLink ------------------------------
(***************************************************************************)
(* The serial link as a whole: a host that streams lines by counting       *)
(* characters and sends real-time commands, the serial interrupts, and the *)
(* main loop that reads lines, answers each, serves the real-time requests *)
(* and re-initializes after a reset (serial.c, protocol.c, main.c).        *)
(*                                                                         *)
(* A line is its characters and an end of line; what it does is left out   *)
(* (it may fail: an error is an answer as well).  An answer, a status      *)
(* report and the welcome message are one byte each.                       *)
(*                                                                         *)
(* Bound: in one behaviour the host either streams lines and counts their  *)
(* characters, or sends lines without counting, or sends override commands *)
(* (role), with resets in each and status requests in the first and last;  *)
(* the lines and the overrides share no variable of the firmware.          *)
(***************************************************************************)
EXTENDS SerialRings, Overrides, FiniteSets

CONSTANTS HostCommands,   \* the override commands the operator may send
          LineLengths     \* of the lines the host may send, the end of line included

ASSUME LinkAssumption ==
  /\ RxByte = {"char", "eol"} /\ TxByte = {"ok", "report", "welcome"}
  /\ HostCommands \subseteq OverrideCommands
  /\ LineLengths \subseteq 1..RX_BUFFER_SIZE

VARIABLES
  pc, line,                \* the main program, its line: "no", "read", "exec" (being executed)
  exec_status,             \* EXEC_STATUS_REPORT of sys_rt_exec_state
  inflight,                \* host: where each line that is not answered ends, in characters
                           \* from the first one that is not answered
  unsent,                  \* host: characters left of the line it is sending
  lost,                    \* host: it has sent a reset and waits for the welcome message
  role                     \* host: "stream", "type" or "tune"
hostVars == <<inflight, unsent, lost, role>>
mainVars == <<pc, line>>
vars == <<ringVars, ovrVars, mainVars, exec_status, hostVars>>

At(p) == pc = p /\ writing = "no" /\ ~TxInterrupt

-----------------------------------------------------------------------------
\* protocol_main_loop(): characters are read until there are none, or a line is complete;
\* either way the real-time requests come next.

ReadChar ==
  /\ At("read") /\ ~RxEmpty /\ SerialRead
  /\ IF rx_buffer[rx_tail] = "eol" THEN line' = "read" /\ pc' = "flags"
                                   ELSE UNCHANGED mainVars
  /\ UNCHANGED <<txVars, writeVars, exec_reset, ovrVars, exec_status, hostVars>>
ReadEmpty ==
  /\ At("read") /\ RxEmpty /\ pc' = "flags"
  /\ UNCHANGED <<ringVars, ovrVars, line, exec_status, hostVars>>

\* Where protocol_execute_realtime() returns to: an abort leaves the loop, but not before the
\* line that is being executed has been answered.  sys.abort is set only while EXEC_RESET is,
\* and both are cleared at the next boot.
Return(abort) ==
  CASE line = "exec"          -> pc' = "line" /\ UNCHANGED line
    [] line # "exec" /\ abort -> pc' = "boot" /\ line' = "no"
    [] line = "read" /\ ~abort -> pc' = "line" /\ line' = "exec"
    [] line = "no" /\ ~abort  -> pc' = "read" /\ UNCHANGED line

\* A line that is executed may serve the real-time requests, and is answered.
ExecuteLine ==
  /\ At("line") /\ pc' = "flags"
  /\ UNCHANGED <<ringVars, ovrVars, line, exec_status, hostVars>>
AnswerLine ==
  /\ At("line") /\ line' = "no" /\ pc' = "read" /\ WriteCall("ok")
  /\ UNCHANGED <<rxVars, txVars, exec_reset, ovrVars, exec_status, hostVars>>

-----------------------------------------------------------------------------
\* protocol_exec_rt_system(), as far as the link is concerned.

ExecFlags ==
  /\ At("flags")
  /\ CASE exec_reset -> Return(TRUE) /\ UNCHANGED <<writeVars, ovrVars>>
       [] ~exec_reset /\ exec_status -> /\ Report /\ WriteCall("report")
                                        /\ pc' = "reported" /\ UNCHANGED line
       [] OTHER -> pc' = "motion" /\ UNCHANGED <<line, writeVars, ovrVars>>
  /\ UNCHANGED <<rxVars, txVars, exec_reset, exec_status, hostVars>>

\* The request is cleared when the report is written: one that came meanwhile is lost.
ReportWritten ==
  /\ At("reported") /\ exec_status' = FALSE /\ pc' = "motion"
  /\ UNCHANGED <<ringVars, ovrVars, line, hostVars>>

\* The bytes of override flags in turn; reading one that is empty is left out, for it changes
\* nothing.
Clearing(byte) == CASE byte = "motion" -> "motion.clear"
                    [] byte = "accessory" -> "accessory.clear"
                    [] byte = "dwell" -> "dwell.clear"
After(byte) == CASE byte = "motion" -> "accessory"
                 [] byte = "accessory" -> "dwell"
                 [] byte = "dwell" -> "overridden"
ReadOverrides ==
  /\ \E byte \in FlagBytes :
       /\ At(byte) /\ CopyFlags(byte)
       /\ CASE OfByte(byte) # {} -> pc' = Clearing(byte) /\ UNCHANGED line
            [] OfByte(byte) = {} /\ posted # {} -> pc' = After(byte) /\ UNCHANGED line
            [] posted = {} -> Return(FALSE)
  /\ UNCHANGED <<ringVars, exec_status, hostVars>>
ApplyOverrides ==
  /\ \E byte \in FlagBytes :
       At(Clearing(byte)) /\ ApplyFlags(byte) /\ pc' = After(byte)
  /\ UNCHANGED <<ringVars, line, exec_status, hostVars>>
OverridesDone ==
  /\ At("overridden") /\ Return(FALSE)
  /\ UNCHANGED <<ringVars, ovrVars, exec_status, hostVars>>

\* main(): the variables, the read buffer, the welcome message.
Boot ==
  /\ At("boot")
  /\ exec_reset' = FALSE /\ exec_status' = FALSE /\ ResetOverrides
  /\ pc' = "flush"
  /\ UNCHANGED <<rxVars, txVars, writeVars, line, hostVars>>
BootNoFlush ==                                           \* mutant
  /\ At("flush") /\ pc' = "welcome"
  /\ UNCHANGED <<ringVars, ovrVars, line, exec_status, hostVars>>
BootFlush ==
  /\ At("flush") /\ ResetReadBuffer /\ pc' = "welcome"
  /\ UNCHANGED <<txVars, writeVars, exec_reset, ovrVars, line, exec_status, hostVars>>
BootWelcome ==
  /\ At("welcome") /\ WriteCall("welcome") /\ pc' = "read"
  /\ UNCHANGED <<rxVars, txVars, exec_reset, ovrVars, line, exec_status, hostVars>>

Serve == SerialWrite /\ UNCHANGED <<ovrVars, mainVars, exec_status, hostVars>>
Main == \/ ReadChar \/ ReadEmpty \/ ExecuteLine \/ AnswerLine \/ ExecFlags \/ ReportWritten
        \/ ReadOverrides \/ ApplyOverrides \/ OverridesDone
        \/ Boot \/ BootFlush \/ BootWelcome \/ Serve

-----------------------------------------------------------------------------
\* The host, and the interrupts that serve it.

Counted == IF inflight = <<>> THEN 0 ELSE inflight[Len(inflight)]

\* It begins a line when the buffer of the firmware has room for all of it, or, typing, at
\* any time.
BeginLine ==
  /\ unsent = 0 /\ ~lost
  /\ \E n \in LineLengths :
       /\ unsent' = n
       /\ \/ /\ role = "stream" /\ Counted + n <= RX_BUFFER_SIZE
             /\ inflight' = Append(inflight, Counted + n)
          \/ role = "type" /\ UNCHANGED inflight
  /\ UNCHANGED <<ringVars, ovrVars, mainVars, exec_status, lost, role>>

\* ISR(SERIAL_RX): a character of the line ...
ReceiveChar ==
  /\ unsent > 0 /\ RxStore(IF unsent = 1 THEN "eol" ELSE "char") /\ unsent' = unsent - 1
  /\ UNCHANGED <<txVars, writeVars, exec_reset, ovrVars, mainVars, exec_status, inflight, lost, role>>
\* ... a real-time command.
ReceiveCommand ==
  /\ \/ /\ ~lost /\ exec_reset' = TRUE
        /\ lost' = TRUE /\ unsent' = 0 /\ inflight' = <<>>
        /\ UNCHANGED <<exec_status, ovrVars, role>>
     \/ role # "type" /\ exec_status' = TRUE /\ UNCHANGED <<exec_reset, hostVars, ovrVars>>
     \/ role = "tune" /\ (\E c \in HostCommands : Post(c)) /\ UNCHANGED <<exec_reset, exec_status, hostVars>>
  /\ UNCHANGED <<rxVars, txVars, writeVars, mainVars>>

\* The interrupt that feeds the UART; a byte arrives at the host.  An answer frees the
\* characters of the oldest line.
Answered == [i \in 1..(Len(inflight) - 1) |-> inflight[i + 1] - inflight[1]]
TransmitIsr == UdreIsr /\ UNCHANGED <<ovrVars, mainVars, exec_status, hostVars>>
HostReceives ==
  /\ UartSends
  /\ lost' = (lost /\ Head(uart) # "welcome")
  /\ inflight' = IF ~lost /\ role = "stream" /\ Head(uart) = "ok" THEN Answered ELSE inflight
  /\ UNCHANGED <<ovrVars, mainVars, exec_status, unsent, role>>
Uart == TransmitIsr \/ HostReceives
Host == BeginLine \/ ReceiveChar \/ ReceiveCommand

LinkInit ==
  /\ rx_buffer = [i \in 0..RX_BUFFER_SIZE |-> "char"]    \* for the zeros of the start
  /\ tx_buffer = [i \in 0..TX_BUFFER_SIZE |-> "report"] /\ data = "report"
  /\ Init /\ InitOverrides
  /\ pc = "boot" /\ line = "no" /\ exec_status = FALSE
  /\ inflight = <<>> /\ unsent = 0 /\ lost = TRUE
  /\ role \in {"stream", "type", "tune"}
LinkNext == Main \/ Host \/ Uart
\* The main program runs, and the UART sends what it has.
LinkSpec == LinkInit /\ [][LinkNext]_vars /\ WF_vars(Main) /\ WF_vars(Uart)

-----------------------------------------------------------------------------
\* Properties.

\* The protocol of config.h:470 ("character count and track each block send to each block
\* response") works with the documented buffer size: no character of a host that keeps to it
\* finds the ring full, also after a reset in the middle of lines and answers (serial.c:201).
NothingDropped ==
  role = "stream" /\ unsent > 0 => RxAvailable >= unsent /\ NextSlot(rx_head, RxRing) # rx_tail

\* Every line is answered exactly once: what the host waits for is in the receive ring, being
\* executed, or on its way back (protocol.c:104).
Ends(s) == Cardinality({i \in DOMAIN s : s[i] = "eol"})
Oks(s)  == Cardinality({i \in DOMAIN s : s[i] = "ok"})
One(b)  == IF b THEN 1 ELSE 0
Transit == uart \o TxContent \o (IF writing = "wait" THEN <<data>> ELSE <<>>)
AnsweredOnce ==
  role = "stream" /\ ~lost =>
     Len(inflight) = One(unsent > 0) + Ends(RxContent) + One(line # "no") + Oks(Transit)

\* A write to a full transmit buffer ends, whatever the host sends (serial.c:92).
WriteEnds == writing = "wait" ~> writing # "wait"
=============================================================================
