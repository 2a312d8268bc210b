---------------------------- MODULE ControlPipe ----------------------------
(***************************************************************************)
(* The class requests that carry data over endpoint 0.  Each port has the  *)
(* buffer CmdBuff in its handle, but the two have one command cdcCmd and   *)
(* one linecoding between them, and a request is spread over several passes*)
(* of the interrupt handlers: the SETUP packet, the data (which go from or *)
(* to the FIFO in a pass of their own), and the end of the data stage.  The*)
(* host may drop a request anywhere, by a new SETUP packet or by leaving,  *)
(* and nothing of it is cleared then.                                      *)
(***************************************************************************)
EXTENDS Naturals

CONSTANTS
  CtlPorts,    \* the two USB_OTG_CORE_HANDLEs
  Codings,     \* what hosts set
  BootCoding,  \* 115200 8N1
  OtherData    \* data of a command that has none of Codings

ASSUME CodingsAssumption ==
  BootCoding \notin Codings /\ OtherData \notin Codings \union {BootCoding}

VARIABLES
  cdcCmd,     \* of both ports
  linecoding, \* of both ports
  CmdBuff,    \* per port
  ctlReady,   \* device_status of the port is CONFIGURED
  ctlStage,   \* how far the port is with a request
  ctlCmd,     \* the host's command
  ctlSent,    \* and its data
  alone,      \* history: since this SETUP no other port has begun or ended
              \* a request with data from its host
  answer      \* what the port's last GET_LINE_CODING was answered

ctlVars == <<cdcCmd, linecoding, CmdBuff, ctlReady, ctlStage, ctlCmd, ctlSent,
             alone, answer>>

OutCommands == {"SET_LINE_CODING", "SET_COMM_FEATURE"}
CtlData == Codings \union {BootCoding, OtherData}

CtlTypeOK ==
  /\ cdcCmd \in OutCommands \union {"NO_CMD"}
  /\ linecoding \in CtlData
  /\ CmdBuff \in [CtlPorts -> CtlData]
  /\ ctlReady \in [CtlPorts -> BOOLEAN]
  /\ ctlStage \in [CtlPorts -> {"idle", "out", "stored", "in"}]
  /\ ctlCmd \in [CtlPorts -> OutCommands]
  /\ ctlSent \in [CtlPorts -> CtlData]
  /\ alone \in [CtlPorts -> BOOLEAN]
  /\ answer \in [CtlPorts -> CtlData]

CtlInit ==
  /\ cdcCmd = "NO_CMD"
  /\ linecoding = BootCoding
  /\ CmdBuff = [p \in CtlPorts |-> OtherData]
  /\ ctlReady = [p \in CtlPorts |-> FALSE]
  /\ ctlStage = [p \in CtlPorts |-> "idle"]
  /\ ctlCmd = [p \in CtlPorts |-> "SET_COMM_FEATURE"]
  /\ ctlSent = [p \in CtlPorts |-> OtherData]
  /\ alone = [p \in CtlPorts |-> FALSE]
  /\ answer = [p \in CtlPorts |-> OtherData]

-----------------------------------------------------------------------------
(* The port is configured, or leaves that state (reset, unplugged,         *)
(* suspended) with whatever it was at.                                     *)
Configured(p) ==
  /\ ~ctlReady[p]
  /\ ctlReady' = [ctlReady EXCEPT ![p] = TRUE]
  /\ UNCHANGED <<cdcCmd, linecoding, CmdBuff, ctlStage, ctlCmd, ctlSent, alone,
                 answer>>

Left(p) ==
  /\ ctlReady[p]
  /\ ctlReady' = [ctlReady EXCEPT ![p] = FALSE]
  /\ ctlStage' = [ctlStage EXCEPT ![p] = "idle"]
  /\ UNCHANGED <<cdcCmd, linecoding, CmdBuff, ctlCmd, ctlSent, alone, answer>>

Begins(p, stage) ==
  /\ ctlReady[p]
  /\ ctlStage[p] # "stored"   \* its end is handled before the next SETUP
  /\ ctlStage' = [ctlStage EXCEPT ![p] = stage]
  /\ UNCHANGED <<linecoding, ctlReady, answer>>

(* Mutant of SetupOut: a command that is pending is not replaced. *)
SetupOutPending(p, cmd, data) ==
  /\ Begins(p, "out")
  /\ cdcCmd' = IF cdcCmd = "NO_CMD" THEN cmd ELSE cdcCmd
  /\ ctlCmd' = [ctlCmd EXCEPT ![p] = cmd]
  /\ ctlSent' = [ctlSent EXCEPT ![p] = data]
  /\ alone' = [q \in CtlPorts |-> q = p]
  /\ UNCHANGED CmdBuff

(* usbd_cdc_Setup of a request whose data come from the host. *)
SetupOut(p, cmd, data) ==
  /\ Begins(p, "out")
  /\ cdcCmd' = cmd
  /\ ctlCmd' = [ctlCmd EXCEPT ![p] = cmd]
  /\ ctlSent' = [ctlSent EXCEPT ![p] = data]
  /\ alone' = [q \in CtlPorts |-> q = p]
  /\ UNCHANGED CmdBuff

(* DCD_HandleRxStatusQueueLevel_ISR: the data are copied out of the FIFO.  *)
DataStored(p) ==
  /\ ctlStage[p] = "out"
  /\ CmdBuff' = [CmdBuff EXCEPT ![p] = ctlSent[p]]
  /\ ctlStage' = [ctlStage EXCEPT ![p] = "stored"]
  /\ UNCHANGED <<cdcCmd, linecoding, ctlReady, ctlCmd, ctlSent, alone, answer>>

(* VCP_Ctrl: of the commands with data only this one does something; the   *)
(* command is the last one of any port, the data are the port's own.       *)
Applied(p) == IF cdcCmd = "SET_LINE_CODING" THEN CmdBuff[p] ELSE linecoding

(* USBD_DataOutStage, usbd_cdc_EP0_RxReady: the command is carried out, if *)
(* there is one, and acknowledged in any case.                             *)
DataOutStage(p) ==
  /\ ctlStage[p] = "stored"
  /\ linecoding' = Applied(p)
  /\ cdcCmd' = "NO_CMD"
  /\ ctlStage' = [ctlStage EXCEPT ![p] = "idle"]
  /\ alone' = [q \in CtlPorts |-> q = p /\ alone[p]]
  /\ UNCHANGED <<CmdBuff, ctlReady, ctlCmd, ctlSent, answer>>

(* usbd_cdc_Setup of GET_LINE_CODING. *)
SetupIn(p) ==
  /\ Begins(p, "in")
  /\ CmdBuff' = [CmdBuff EXCEPT ![p] = linecoding]
  /\ alone' = [alone EXCEPT ![p] = TRUE]
  /\ UNCHANGED <<cdcCmd, ctlCmd, ctlSent>>

(* DCD_WriteEmptyTxFifo: the answer is read from CmdBuff only now. *)
DataIn(p) ==
  /\ ctlStage[p] = "in"
  /\ answer' = [answer EXCEPT ![p] = CmdBuff[p]]
  /\ ctlStage' = [ctlStage EXCEPT ![p] = "idle"]
  /\ UNCHANGED <<cdcCmd, linecoding, CmdBuff, ctlReady, ctlCmd, ctlSent, alone>>

CtlNext == \E p \in CtlPorts :
  \/ Configured(p) \/ Left(p)
  \/ \E c \in Codings : SetupOut(p, "SET_LINE_CODING", c)
  \/ SetupOut(p, "SET_COMM_FEATURE", OtherData)
  \/ DataStored(p) \/ DataOutStage(p)
  \/ SetupIn(p) \/ DataIn(p)

CtlSpec == CtlInit /\ [][CtlNext]_ctlVars

-----------------------------------------------------------------------------
(* Properties. *)

(* A line coding that was acknowledged is in force, and is what the host   *)
(* sent, whatever any number of dropped requests of both ports left in     *)
(* cdcCmd and CmdBuff, and whoever asks for the coding meanwhile: unless   *)
(* the other port began or ended a request with data in between, which     *)
(* replaces or clears the command.  Even then what comes into force is the *)
(* data of this very request, though they may be those of another command. *)
SetIsApplied ==
  [][\A p \in CtlPorts : DataOutStage(p) =>
       /\ alone[p] =>
            linecoding' = IF ctlCmd[p] = "SET_LINE_CODING" THEN ctlSent[p]
                                                          ELSE linecoding
       /\ linecoding' \in {linecoding, ctlSent[p]}]_ctlVars

(* GET_LINE_CODING is answered with the coding in force, unless the other  *)
(* port has begun or ended to set it in between.                           *)
AnswerIsCurrent ==
  [][\A p \in CtlPorts :
       DataIn(p) /\ alone[p] => answer'[p] = linecoding]_ctlVars

(* Both: one command and one coding serve all ports as if each had its own *)
(* command, for the settings that do not overlap.                          *)
CodingIsShared == SetIsApplied /\ AnswerIsCurrent

=============================================================================
