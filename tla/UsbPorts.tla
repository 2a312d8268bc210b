------------------------------ MODULE UsbPorts ------------------------------
(***************************************************************************)
(* The two USB device cores, the list USB_active of the ports that print() *)
(* and the echo write to, and outp_active, which says of each slot of the  *)
(* list whether a terminal is open behind it.                              *)
(*                                                                         *)
(* Every action is one interrupt of the core: a bus event, or a request of *)
(* the host on endpoint 0.  The interrupts of the cores do not pre-empt    *)
(* each other.  host and dtr are what the hosts have done and know.        *)
(***************************************************************************)
EXTENDS Naturals

CONSTANTS
  devA, devB,   \* USB_OTG_devA, USB_OTG_devB
  NULL,
  HostMay       \* what hosts and buses do beyond plain plugging: a bus reset
                \* of a configured port, suspending, waking up the sleeping chip

ASSUME PortsAssumption == devA # devB /\ NULL \notin {devA, devB}
ASSUME HostAssumption == HostMay \subseteq {"busReset", "suspend", "wakeup"}

Ports == {devA, devB}

VARIABLES
  status,       \* dev.device_status
  config,       \* dev.device_config
  USB_active,   \* the two slots
  outp_active,
  host,         \* how far the host of the port has come
  dtr,          \* the state of the control line it set last
  plain         \* history: only plain plugging so far, nothing of HostMay

vars == <<status, config, USB_active, outp_active, host, dtr, plain>>

USBD_CFG_MAX_NUM == 1
Slots == {0, 1}
Statuses == {"DEFAULT", "ADDRESSED", "CONFIGURED", "SUSPENDED"}
HostStates == {"detached", "attached", "addressed", "configured"}

TypeOK ==
  /\ status \in [Ports -> Statuses]
  /\ config \in [Ports -> 0..USBD_CFG_MAX_NUM]
  /\ USB_active \in [Slots -> Ports \union {NULL}]
  /\ outp_active \in [Slots -> {0, 1}]
  /\ host \in [Ports -> HostStates]
  /\ dtr \in [Ports -> {0, 1}]
  /\ plain \in BOOLEAN

Init ==
  /\ status = [p \in Ports |-> "DEFAULT"]
  /\ config = [p \in Ports |-> 0]
  /\ USB_active = [s \in Slots |-> NULL]
  /\ outp_active = [s \in Slots |-> 0]
  /\ host = [p \in Ports |-> "detached"]
  /\ dtr = [p \in Ports |-> 0]
  /\ plain = TRUE

-----------------------------------------------------------------------------
(* The list after cdc_Init and cdc_DeInit, as functions of the list.       *)
Added(list, p) ==
  IF list[0] # NULL THEN [list EXCEPT ![1] = p] ELSE [list EXCEPT ![0] = p]

(* Mutant of Shifted: p's slot is cleared, and slot 1 stays where it is. *)
ShiftedNot(f, list, p, none) ==
  [s \in Slots |-> IF list[s] = p THEN none ELSE f[s]]

(* Slot 1 moves into slot 0 if that was p's, and is empty afterwards.      *)
Shifted(f, list, p, none) ==
  [s \in Slots |-> IF s = 1 THEN none
                   ELSE IF list[0] = p THEN f[1] ELSE f[0]]

(* Mutant of cdc_Init: a port is registered in slot 0 in any case. *)
InitFirst(p) ==
  /\ USB_active' = [USB_active EXCEPT ![0] = p]
  /\ UNCHANGED outp_active

cdc_Init(p) ==
  /\ USB_active' = Added(USB_active, p)
  /\ UNCHANGED outp_active

(* Mutant of cdc_DeInit: the open terminal stays behind in its slot. *)
DeInitKeepsTerminal(p) ==
  /\ USB_active' = Shifted(USB_active, USB_active, p, NULL)
  /\ UNCHANGED outp_active

cdc_DeInit(p) ==
  /\ USB_active' = Shifted(USB_active, USB_active, p, NULL)
  /\ outp_active' = Shifted(outp_active, USB_active, p, 0)

-----------------------------------------------------------------------------
(* DCD_HandleUsbReset_ISR and USBD_Reset.  Neither the configuration nor   *)
(* the list is touched.                                                    *)
BusReset(p) ==
  /\ host[p] = "configured" => "busReset" \in HostMay
  /\ status' = [status EXCEPT ![p] = "DEFAULT"]
  /\ host' = [host EXCEPT ![p] = "attached"]
  /\ dtr' = [dtr EXCEPT ![p] = 0]
  /\ plain' = (plain /\ host[p] # "configured")
  /\ UNCHANGED <<config, USB_active, outp_active>>

(* USBD_SetAddress with the address of the enumeration; a configured port  *)
(* refuses.                                                                *)
SetAddress(p) ==
  /\ host[p] = "attached"
  /\ status[p] \in {"DEFAULT", "ADDRESSED"}
  /\ status' = [status EXCEPT ![p] = "ADDRESSED"]
  /\ host' = [host EXCEPT ![p] = "addressed"]
  /\ UNCHANGED <<config, USB_active, outp_active, dtr, plain>>

(* Mutant of Valid: if(cfgidx > USBD_CFG_MAX_NUM) is missing. *)
ValidAny(cfgidx) == TRUE

(* Any other configuration is refused. *)
Valid(cfgidx) == cfgidx <= USBD_CFG_MAX_NUM

(* USBD_SetConfig: a port that believes to have this configuration already *)
(* only acknowledges.                                                      *)
SetConfig(p, cfgidx) ==
  /\ host[p] \in {"addressed", "configured"}
  /\ Valid(cfgidx)
  /\ \/ /\ status[p] = "ADDRESSED"
        /\ cdc_Init(p)
     \/ /\ status[p] = "CONFIGURED"
        /\ config[p] # cfgidx
        /\ USB_active' =
             Added(Shifted(USB_active, USB_active, p, NULL), p)
        /\ outp_active' = Shifted(outp_active, USB_active, p, 0)
     \/ /\ status[p] = "CONFIGURED"
        /\ config[p] = cfgidx
        /\ UNCHANGED <<USB_active, outp_active>>
  /\ status' = [status EXCEPT ![p] = "CONFIGURED"]
  /\ config' = [config EXCEPT ![p] = cfgidx]
  /\ host' = [host EXCEPT ![p] = "configured"]
  /\ UNCHANGED <<dtr, plain>>

(* USBD_SetConfig(0) *)
ClearConfig(p) ==
  /\ host[p] \in {"addressed", "configured"}
  /\ \/ /\ status[p] = "ADDRESSED"
        /\ UNCHANGED <<status, config, USB_active, outp_active>>
     \/ /\ status[p] = "CONFIGURED"
        /\ status' = [status EXCEPT ![p] = "ADDRESSED"]
        /\ config' = [config EXCEPT ![p] = 0]
        /\ cdc_DeInit(p)
  /\ host' = [host EXCEPT ![p] = "addressed"]
  /\ dtr' = [dtr EXCEPT ![p] = 0]
  /\ UNCHANGED plain

(* SET_CONTROL_LINE_STATE: whoever is not in slot 0 is taken to be slot 1. *)
ControlLine(p, v) ==
  /\ host[p] = "configured"
  /\ status[p] = "CONFIGURED"
  /\ LET slot == IF USB_active[0] = p THEN 0 ELSE 1
     IN  outp_active' = [outp_active EXCEPT ![slot] = v]
  /\ dtr' = [dtr EXCEPT ![p] = v]
  /\ UNCHANGED <<status, config, USB_active, host, plain>>

(* Session end: USBD_DevDisconnected; the status is left as it is.         *)
Disconnect(p) ==
  /\ host[p] # "detached"
  /\ cdc_DeInit(p)
  /\ host' = [host EXCEPT ![p] = "detached"]
  /\ dtr' = [dtr EXCEPT ![p] = 0]
  /\ UNCHANGED <<status, config, plain>>

Suspend(p) ==
  /\ "suspend" \in HostMay
  /\ host[p] # "detached"
  /\ status' = [status EXCEPT ![p] = "SUSPENDED"]
  /\ plain' = FALSE
  /\ UNCHANGED <<config, USB_active, outp_active, host, dtr>>

(* USBD_Resume restores the status it saved, and then overwrites it.       *)
Resume(p) ==
  /\ "suspend" \in HostMay
  /\ status[p] = "SUSPENDED"
  /\ status' = [status EXCEPT ![p] = "CONFIGURED"]
  /\ plain' = FALSE
  /\ UNCHANGED <<config, USB_active, outp_active, host, dtr>>

(* OTG_FS_WKUP_IRQHandler after sleeping: Set_System initialises both cores*)
(* afresh, so the hosts have to enumerate them again.                      *)
Wakeup ==
  /\ "wakeup" \in HostMay
  /\ status' = [p \in Ports |-> "DEFAULT"]
  /\ host' = [p \in Ports |->
                IF host[p] = "detached" THEN "detached" ELSE "attached"]
  /\ dtr' = [p \in Ports |-> 0]
  /\ plain' = FALSE
  /\ UNCHANGED <<config, USB_active, outp_active>>

Next ==
  \/ \E p \in Ports :
       \/ BusReset(p) \/ SetAddress(p) \/ ClearConfig(p)
       \/ \E cfgidx \in 1..2 : SetConfig(p, cfgidx)
       \/ Disconnect(p) \/ Suspend(p) \/ Resume(p)
       \/ \E v \in {0, 1} : ControlLine(p, v)
  \/ Wakeup

Spec == Init /\ [][Next]_vars

-----------------------------------------------------------------------------
(* Properties. *)

Listed == {USB_active[s] : s \in Slots} \ {NULL}

(* "USB_active[0] always points to first or only active buffer": prnt and  *)
(* the echo look at slot 0 only, so there must be no port in slot 1 alone, *)
(* in whatever order ports come, go, suspend and are reset.                *)
Compact == USB_active[0] = NULL => USB_active[1] = NULL

(* While ports are only plugged, configured and unplugged, the list holds  *)
(* exactly the ports that their hosts configured, each once.               *)
ListMatchesHosts == plain =>
  /\ Listed = {p \in Ports : host[p] = "configured"}
  /\ USB_active[0] = USB_active[1] => USB_active[0] = NULL

(* The open-terminal flag follows its port when the port changes slots: a  *)
(* slot's flag is the control line that the host of the slot's port set    *)
(* last, and an empty slot's is 0.  This, too, is for plain plugging.      *)
TerminalMatches == plain =>
  \A s \in Slots :
    outp_active[s] = IF USB_active[s] = NULL THEN 0 ELSE dtr[USB_active[s]]

(* cdc_DeInit: "remove device from list of active".  A port that was       *)
(* unplugged is not in the list.                                           *)
DetachedNotListed == \A p \in Ports : host[p] = "detached" => p \notin Listed

=============================================================================
