----------------------------- MODULE UsbDevice -----------------------------
(***************************************************************************)
(* What goes on in the device cores besides the transfers of the ring, as  *)
(* TLC checks it: the ports and their list, the class requests with data,  *)
(* the data stage of a descriptor, and the frames.  These four share no    *)
(* state, so a behaviour of the device is one of each side by side: the    *)
(* initial states choose the one that is watched.                          *)
(***************************************************************************)
EXTENDS UsbPorts, ControlPipe, DataStage, FramePacing

VARIABLE watched

deviceVars == <<vars, ctlVars, stageVars, frameVars, watched>>

DeviceInit ==
  /\ Init /\ CtlInit /\ StageInit /\ FrameInit
  /\ watched \in {"ports", "control", "stage", "frames"}

DeviceNext ==
  /\ UNCHANGED watched
  /\ \/ /\ watched = "ports" /\ Next
        /\ UNCHANGED <<ctlVars, stageVars, frameVars>>
     \/ /\ watched = "control" /\ CtlNext
        /\ UNCHANGED <<vars, stageVars, frameVars>>
     \/ /\ watched = "stage" /\ StageNext
        /\ UNCHANGED <<vars, ctlVars, frameVars>>
     \/ /\ watched = "frames" /\ FrameNext
        /\ UNCHANGED <<vars, ctlVars, stageVars>>

(* A transfer on endpoint 0 goes on: its host polls, the core interrupts.  *)
DeviceSpec ==
  DeviceInit /\ [][DeviceNext]_deviceVars
  /\ WF_stageVars(watched = "stage" /\ StageStep)

(* The types of the parts that have one. *)
DeviceTypeOK == TypeOK /\ CtlTypeOK /\ StageTypeOK

=============================================================================
