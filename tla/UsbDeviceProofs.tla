-------------------------- MODULE UsbDeviceProofs --------------------------
(***************************************************************************)
(* Proofs about the four parts of UsbDevice: UsbPorts, for everything that *)
(* hosts and buses may do, ControlPipe, for any number of ports, DataStage,*)
(* for any packet size and lengths, and FramePacing, for any odd interval. *)
(***************************************************************************)
EXTENDS UsbDevice, TLAPS

ListTyped == USB_active \in [Slots -> Ports \union {NULL}]

(* Both operations of cdc_Init and cdc_DeInit keep the list a list whose   *)
(* second slot is used only if the first one is.                           *)
LEMMA AddedCompact ==
  ASSUME NEW list \in [Slots -> Ports \union {NULL}],
         list[0] = NULL => list[1] = NULL,
         NEW p \in Ports
  PROVE  /\ Added(list, p) \in [Slots -> Ports \union {NULL}]
         /\ Added(list, p)[0] = NULL => Added(list, p)[1] = NULL
BY DEF Added, Slots

LEMMA ShiftedCompact ==
  ASSUME NEW list \in [Slots -> Ports \union {NULL}],
         list[0] = NULL => list[1] = NULL,
         NEW p \in Ports
  PROVE  /\ Shifted(list, list, p, NULL) \in [Slots -> Ports \union {NULL}]
         /\ Shifted(list, list, p, NULL)[0] = NULL
              => Shifted(list, list, p, NULL)[1] = NULL
BY DEF Shifted, Slots

LEMMA StepCompact == ListTyped /\ Compact /\ [Next]_vars => ListTyped' /\ Compact'
<1> SUFFICES ASSUME ListTyped, Compact, [Next]_vars
             PROVE  ListTyped' /\ Compact'
  OBVIOUS
<1> USE DEF ListTyped, Compact
<1>1. CASE UNCHANGED USB_active
  BY <1>1
<1>2. ASSUME NEW p \in Ports, USB_active' = Added(USB_active, p)
      PROVE  ListTyped' /\ Compact'
  BY <1>2, AddedCompact
<1>3. ASSUME NEW p \in Ports,
             USB_active' = Shifted(USB_active, USB_active, p, NULL)
      PROVE  ListTyped' /\ Compact'
  BY <1>3, ShiftedCompact
<1>4. ASSUME NEW p \in Ports,
             USB_active' = Added(Shifted(USB_active, USB_active, p, NULL), p)
      PROVE  ListTyped' /\ Compact'
  BY <1>4, ShiftedCompact, AddedCompact
<1>5. ASSUME NEW p \in Ports, NEW cfgidx \in 1..2, SetConfig(p, cfgidx)
      PROVE  ListTyped' /\ Compact'
  BY <1>1, <1>2, <1>4, <1>5 DEF SetConfig, cdc_Init
<1>6. ASSUME NEW p \in Ports, ClearConfig(p) \/ Disconnect(p)
      PROVE  ListTyped' /\ Compact'
  BY <1>1, <1>3, <1>6 DEF ClearConfig, Disconnect, cdc_DeInit
<1>7. CASE Wakeup
  BY <1>1, <1>7 DEF Wakeup
<1>8. CASE UNCHANGED vars
  BY <1>1, <1>8 DEF vars
<1>9. ASSUME NEW p \in Ports,
             \/ BusReset(p) \/ SetAddress(p) \/ Suspend(p) \/ Resume(p)
             \/ \E v \in {0, 1} : ControlLine(p, v)
      PROVE  UNCHANGED USB_active
  BY <1>9 DEF BusReset, SetAddress, Suspend, Resume, ControlLine
<1>10. QED
  BY <1>1, <1>5, <1>6, <1>7, <1>8, <1>9 DEF Next

-----------------------------------------------------------------------------
(* USB_active[0] is the first port of the list whenever there is one: what *)
(* prnt and the echo rely on, whatever the buses do.                       *)
THEOREM FirstSlotFirst == Spec => []Compact
<1>1. Init => ListTyped /\ Compact
  BY DEF Init, ListTyped, Compact, Slots
<1>2. QED
  BY <1>1, StepCompact, PTL DEF Spec

-----------------------------------------------------------------------------
(* While ports are only plugged, status tells how far the host is, except  *)
(* for the status that an unplugged port keeps; and a terminal is open     *)
(* behind a configured port only.                                          *)
StatusFollows(p) ==
  /\ host[p] = "attached" => status[p] = "DEFAULT"
  /\ host[p] = "addressed" => status[p] = "ADDRESSED"
  /\ host[p] = "configured" => status[p] = "CONFIGURED" /\ config[p] = 1
  /\ host[p] # "configured" => dtr[p] = 0

(* ListMatchesHosts, port by port. *)
ListFollows(p) ==
  host[p] = "configured" <=> (USB_active[0] = p \/ USB_active[1] = p)

NoneTwice == USB_active[0] = USB_active[1] => USB_active[0] = NULL

PlainInv == plain =>
  /\ \A p \in Ports : StatusFollows(p) /\ ListFollows(p)
  /\ NoneTwice

PortsInv == TypeOK /\ Compact /\ PlainInv /\ TerminalMatches

LEMMA PortsInit == Init => PortsInv
BY PortsAssumption
   DEF Init, PortsInv, TypeOK, Compact, PlainInv, TerminalMatches, StatusFollows,
       ListFollows, NoneTwice, Ports, Slots, Statuses, HostStates,
       USBD_CFG_MAX_NUM

(* The types survive every step. *)
LEMMA StepType == TypeOK /\ [Next]_vars => TypeOK'
<1> SUFFICES ASSUME TypeOK, [Next]_vars PROVE TypeOK'
  OBVIOUS
<1> USE DEF TypeOK, Statuses, HostStates, USBD_CFG_MAX_NUM
<1>1. ASSUME NEW f \in [Slots -> {0, 1}], NEW p \in Ports
      PROVE  Shifted(f, USB_active, p, 0) \in [Slots -> {0, 1}]
  BY <1>1 DEF Shifted, Slots
<1>2. ASSUME NEW p \in Ports
      PROVE  Shifted(USB_active, USB_active, p, NULL)
               \in [Slots -> Ports \union {NULL}]
  BY DEF Shifted, Slots
<1>3. ASSUME NEW list \in [Slots -> Ports \union {NULL}], NEW p \in Ports
      PROVE  Added(list, p) \in [Slots -> Ports \union {NULL}]
  BY DEF Added
<1>4. ASSUME NEW p \in Ports, BusReset(p) PROVE TypeOK'
  BY <1>4 DEF BusReset
<1>5. ASSUME NEW p \in Ports, SetAddress(p) PROVE TypeOK'
  BY <1>5 DEF SetAddress
<1>6. ASSUME NEW p \in Ports, ClearConfig(p) PROVE TypeOK'
  <2>1. CASE status[p] = "ADDRESSED"
    BY <1>6, <2>1 DEF ClearConfig
  <2>2. CASE status[p] = "CONFIGURED"
    <3>1. cdc_DeInit(p)
      BY <1>6, <2>2 DEF ClearConfig
    <3>2. /\ USB_active' \in [Slots -> Ports \union {NULL}]
          /\ outp_active' \in [Slots -> {0, 1}]
      BY <1>1, <1>2, <3>1 DEF cdc_DeInit
    <3>3. QED
      BY <1>6, <2>2, <3>2 DEF ClearConfig
  <2>3. QED
    BY <1>6, <2>1, <2>2 DEF ClearConfig
<1>7. ASSUME NEW p \in Ports, NEW cfgidx \in 1..2, SetConfig(p, cfgidx)
      PROVE  TypeOK'
  <2>1. USB_active' \in [Slots -> Ports \union {NULL}]
    BY <1>2, <1>3, <1>7 DEF SetConfig, cdc_Init
  <2>2. outp_active' \in [Slots -> {0, 1}]
    BY <1>1, <1>7 DEF SetConfig, cdc_Init
  <2>3. config' \in [Ports -> 0..1]
    BY <1>7 DEF SetConfig, Valid
  <2>4. QED
    BY <1>7, <2>1, <2>2, <2>3 DEF SetConfig
<1>8. ASSUME NEW p \in Ports, Disconnect(p) PROVE TypeOK'
  BY <1>1, <1>2, <1>8 DEF Disconnect, cdc_DeInit
<1>9. ASSUME NEW p \in Ports, Suspend(p) \/ Resume(p) PROVE TypeOK'
  BY <1>9 DEF Suspend, Resume
<1>10. ASSUME NEW p \in Ports, NEW v \in {0, 1}, ControlLine(p, v)
       PROVE  TypeOK'
  BY <1>10 DEF ControlLine, Slots
<1>11. CASE Wakeup
  BY <1>11 DEF Wakeup
<1>12. CASE UNCHANGED vars
  BY <1>12 DEF vars
<1>13. QED
  BY <1>4, <1>5, <1>6, <1>7, <1>8, <1>9, <1>10, <1>11, <1>12 DEF Next

(* One step of plain plugging. *)
LEMMA StepPlain ==
  ASSUME PortsInv, plain', plain, [Next]_vars
  PROVE  PlainInv' /\ TerminalMatches'
<1>1. TypeOK /\ Compact /\ TypeOK'
  BY StepType DEF PortsInv
<1>2. /\ \A p \in Ports : StatusFollows(p) /\ ListFollows(p)
      /\ NoneTwice
      /\ \A s \in Slots : outp_active[s] =
           IF USB_active[s] = NULL THEN 0 ELSE dtr[USB_active[s]]
  BY DEF PortsInv, PlainInv, TerminalMatches
<1> USE <1>1, <1>2, PortsAssumption
    DEF TypeOK, Compact, PlainInv, TerminalMatches, StatusFollows, ListFollows,
        NoneTwice, Slots, USBD_CFG_MAX_NUM
<1>3. ASSUME NEW p \in Ports, BusReset(p)
      PROVE  PlainInv' /\ TerminalMatches'
  <2>1. host[p] # "configured" /\ dtr[p] = 0
    BY <1>3 DEF BusReset
  <2>2. host'[p] = "attached" /\ dtr'[p] = 0 /\ status'[p] = "DEFAULT"
    BY <1>3 DEF BusReset
  <2>3. \A q \in Ports \ {p} : /\ host'[q] = host[q] /\ dtr'[q] = dtr[q]
                               /\ status'[q] = status[q]
    BY <1>3 DEF BusReset
  <2>4. UNCHANGED <<config, USB_active, outp_active>>
    BY <1>3 DEF BusReset
  <2>5. dtr' = dtr
    BY <1>3, <2>1 DEF BusReset
  <2>6. PlainInv'
    BY <2>1, <2>2, <2>3, <2>4
  <2>7. QED
    BY <2>4, <2>5, <2>6
<1>4. ASSUME NEW p \in Ports, SetAddress(p)
      PROVE  PlainInv' /\ TerminalMatches'
  BY <1>4 DEF SetAddress
<1>5. ASSUME NEW p \in Ports, cdc_DeInit(p),
             host'[p] # "configured", dtr' = [dtr EXCEPT ![p] = 0],
             \A q \in Ports \ {p} : host'[q] = host[q]
      PROVE  /\ \A q \in Ports : ListFollows(q)'
             /\ NoneTwice'
             /\ TerminalMatches'
  <2>1. USB_active'[1] = NULL /\ outp_active'[1] = 0
    BY <1>5 DEF cdc_DeInit, Shifted
  <2>2. CASE USB_active[0] = p
    BY <1>5, <2>1, <2>2 DEF cdc_DeInit, Shifted, Ports
  <2>3. CASE USB_active[0] # p
    BY <1>5, <2>1, <2>3 DEF cdc_DeInit, Shifted, Ports
  <2>4. QED
    BY <2>2, <2>3
<1>6. ASSUME NEW p \in Ports, ClearConfig(p)
      PROVE  PlainInv' /\ TerminalMatches'
  <2>1. CASE status[p] = "ADDRESSED"
    BY <1>6, <2>1 DEF ClearConfig
  <2>2. CASE status[p] = "CONFIGURED"
    <3>1. /\ cdc_DeInit(p) /\ host'[p] # "configured"
          /\ dtr' = [dtr EXCEPT ![p] = 0]
          /\ \A q \in Ports \ {p} : host'[q] = host[q]
      BY <1>6, <2>2 DEF ClearConfig
    <3>2. \A q \in Ports : StatusFollows(q)'
      BY <1>6, <2>2 DEF ClearConfig
    <3>3. QED
      BY <1>5, <3>1, <3>2
  <2>3. QED
    BY <1>6, <2>1, <2>2 DEF ClearConfig
<1>7. ASSUME NEW p \in Ports, Disconnect(p)
      PROVE  PlainInv' /\ TerminalMatches'
  <2>1. /\ cdc_DeInit(p) /\ host'[p] # "configured"
        /\ dtr' = [dtr EXCEPT ![p] = 0]
        /\ \A q \in Ports \ {p} : host'[q] = host[q]
    BY <1>7 DEF Disconnect
  <2>2. \A q \in Ports : StatusFollows(q)'
    BY <1>7 DEF Disconnect
  <2>3. QED
    BY <1>5, <2>1, <2>2
<1>8. ASSUME NEW p \in Ports, NEW cfgidx \in 1..2, SetConfig(p, cfgidx)
      PROVE  PlainInv' /\ TerminalMatches'
  <2>1. cfgidx = 1
    BY <1>8 DEF SetConfig, Valid, USBD_CFG_MAX_NUM
  <2>2. CASE status[p] = "ADDRESSED"
    <3>1. host[p] = "addressed" /\ dtr[p] = 0
      BY <1>8, <2>2 DEF SetConfig
    <3>2. USB_active[0] # p /\ USB_active[1] # p
      BY <3>1
    <3>3. USB_active' = Added(USB_active, p) /\ UNCHANGED outp_active
      BY <1>8, <2>2 DEF SetConfig, cdc_Init
    <3>4. \A q \in Ports : StatusFollows(q)'
      BY <1>8, <2>1, <2>2, <3>1 DEF SetConfig
    <3>5. CASE USB_active[0] = NULL
      BY <1>8, <3>1, <3>2, <3>3, <3>4, <3>5 DEF SetConfig, Added, Ports
    <3>6. CASE USB_active[0] # NULL
      <4>1. USB_active[1] = NULL
        BY <3>2, <3>6 DEF Ports
      <4>2. QED
        BY <1>8, <3>1, <3>2, <3>3, <3>4, <3>6, <4>1 DEF SetConfig, Added, Ports
    <3>7. QED
      BY <3>5, <3>6
  <2>3. CASE status[p] = "CONFIGURED"
    <3>1. host[p] = "configured"
      BY <1>8, <2>3 DEF SetConfig
    <3>2. UNCHANGED <<USB_active, outp_active>>
      BY <1>8, <2>1, <2>3, <3>1 DEF SetConfig
    <3>3. QED
      BY <1>8, <2>1, <2>3, <3>1, <3>2 DEF SetConfig
  <2>4. QED
    BY <1>8, <2>2, <2>3 DEF SetConfig
<1>9. ASSUME NEW p \in Ports, NEW v \in {0, 1}, ControlLine(p, v)
      PROVE  PlainInv' /\ TerminalMatches'
  <2>1. host[p] = "configured" /\ (USB_active[0] = p \/ USB_active[1] = p)
    BY <1>9 DEF ControlLine
  <2>2. PlainInv'
    BY <1>9 DEF ControlLine
  <2>3. ASSUME USB_active[0] = p
        PROVE  TerminalMatches'
    <3>1. USB_active[1] # p
      BY <2>3 DEF Ports
    <3>2. outp_active'[0] = v /\ outp_active'[1] = outp_active[1]
      BY <1>9, <2>3 DEF ControlLine
    <3>3. dtr'[p] = v /\ \A q \in Ports \ {p} : dtr'[q] = dtr[q]
      BY <1>9 DEF ControlLine
    <3>4. UNCHANGED USB_active
      BY <1>9 DEF ControlLine
    <3>5. outp_active'[0] = dtr'[USB_active'[0]] /\ USB_active'[0] # NULL
      BY <2>3, <3>2, <3>3, <3>4 DEF Ports
    <3>6. outp_active'[1] =
            IF USB_active'[1] = NULL THEN 0 ELSE dtr'[USB_active'[1]]
      BY <3>1, <3>2, <3>3, <3>4 DEF Ports
    <3>7. QED
      BY <3>5, <3>6
  <2>4. ASSUME USB_active[0] # p
        PROVE  TerminalMatches'
    <3>1. USB_active[1] = p
      BY <2>1, <2>4
    <3>2. outp_active'[1] = v /\ outp_active'[0] = outp_active[0]
      BY <1>9, <2>4 DEF ControlLine
    <3>3. dtr'[p] = v /\ \A q \in Ports \ {p} : dtr'[q] = dtr[q]
      BY <1>9 DEF ControlLine
    <3>4. UNCHANGED USB_active
      BY <1>9 DEF ControlLine
    <3>5. QED
      BY <2>4, <3>1, <3>2, <3>3, <3>4 DEF Ports
  <2>5. TerminalMatches'
    BY <2>3, <2>4
  <2>6. QED
    BY <2>2, <2>5
<1>10. CASE UNCHANGED vars
  BY <1>10 DEF vars
<1>11. ~(\E p \in Ports : Suspend(p) \/ Resume(p)) /\ ~Wakeup
  BY DEF Suspend, Resume, Wakeup
<1>12. QED
  BY <1>3, <1>4, <1>6, <1>7, <1>8, <1>9, <1>10, <1>11 DEF Next

LEMMA StepPorts == PortsInv /\ [Next]_vars => PortsInv'
<1> SUFFICES ASSUME PortsInv, [Next]_vars PROVE PortsInv'
  OBVIOUS
<1>1. TypeOK' /\ Compact'
  BY StepType, StepCompact DEF PortsInv, TypeOK, ListTyped
<1>2. plain' => plain
  BY DEF Next, vars, BusReset, SetAddress, ClearConfig, SetConfig, Disconnect,
         Suspend, Resume, ControlLine, Wakeup
<1>3. PlainInv' /\ TerminalMatches'
  <2>1. CASE plain'
    BY <1>2, <2>1, StepPlain
  <2>2. CASE ~plain'
    BY <2>2 DEF PlainInv, TerminalMatches
  <2>3. QED
    BY <2>1, <2>2
<1>4. QED
  BY <1>1, <1>3 DEF PortsInv

LEMMA PortsInvariant == Spec => []PortsInv
BY PortsInit, StepPorts, PTL DEF Spec

(* The variables keep their types: no configuration number above           *)
(* USBD_CFG_MAX_NUM is ever stored, whatever hosts and buses do.           *)
THEOREM PortsTypeCorrect == Spec => []TypeOK
BY PortsInvariant, PTL DEF PortsInv

(* While ports are only plugged, USB_active lists each port that its host  *)
(* configured, once, and no other.                                         *)
THEOREM ListIsRight == Spec => []ListMatchesHosts
<1>1. PortsInv => ListMatchesHosts
  <2> SUFFICES ASSUME PortsInv, plain PROVE ListMatchesHosts
    BY DEF ListMatchesHosts
  <2>1. NoneTwice /\ \A p \in Ports : ListFollows(p)
    BY DEF PortsInv, PlainInv
  <2>2. Listed = {USB_active[0], USB_active[1]} \ {NULL}
    BY DEF Listed, Slots
  <2>3. /\ USB_active[0] \in Ports \union {NULL}
        /\ USB_active[1] \in Ports \union {NULL}
    BY DEF PortsInv, TypeOK, Slots
  <2>4. NULL \notin Ports
    BY PortsAssumption DEF Ports
  <2>5. ASSUME NEW q
        PROVE  q \in Listed <=> q \in Ports /\ host[q] = "configured"
    BY <2>1, <2>2, <2>3, <2>4 DEF ListFollows
  <2>6. Listed = {p \in Ports : host[p] = "configured"}
    BY <2>5
  <2>7. QED
    BY <2>1, <2>6 DEF ListMatchesHosts, NoneTwice
<1>2. QED
  BY <1>1, PortsInvariant, PTL

(* While ports are only plugged, the flag of a slot of USB_active is the   *)
(* control line that the host of the slot's port set last.                 *)
THEOREM TerminalIsRight == Spec => []TerminalMatches
BY PortsInvariant, PTL DEF PortsInv

-----------------------------------------------------------------------------
(* What each stage of a request rests on: a port's own data are in its own *)
(* CmdBuff in any case; the command, and the answer to GET_LINE_CODING,    *)
(* are what they were only for a port that nobody came in between.         *)
Undisturbed(p) ==
  /\ ctlStage[p] = "stored" => CmdBuff[p] = ctlSent[p]
  /\ alone[p] /\ ctlStage[p] \in {"out", "stored"} => cdcCmd = ctlCmd[p]
  /\ alone[p] /\ ctlStage[p] = "in" => CmdBuff[p] = linecoding

CtlInv == CtlTypeOK /\ \A p \in CtlPorts : Undisturbed(p)

LEMMA CtlInitial == CtlInit => CtlInv
BY DEF CtlInit, CtlInv, CtlTypeOK, CtlData, OutCommands, Undisturbed

(* The types survive every step. *)
LEMMA CtlStepType == CtlTypeOK /\ [CtlNext]_ctlVars => CtlTypeOK'
<1> SUFFICES ASSUME CtlTypeOK, [CtlNext]_ctlVars PROVE CtlTypeOK'
  OBVIOUS
<1> USE DEF CtlTypeOK, CtlData, OutCommands
<1>1. ASSUME NEW p \in CtlPorts, Configured(p) \/ Left(p)
      PROVE  CtlTypeOK'
  BY <1>1 DEF Configured, Left
<1>2. ASSUME NEW p \in CtlPorts, NEW c \in Codings,
             SetupOut(p, "SET_LINE_CODING", c)
      PROVE  CtlTypeOK'
  BY <1>2 DEF SetupOut, Begins
<1>3. ASSUME NEW p \in CtlPorts, SetupOut(p, "SET_COMM_FEATURE", OtherData)
      PROVE  CtlTypeOK'
  BY <1>3 DEF SetupOut, Begins
<1>4. ASSUME NEW p \in CtlPorts, DataStored(p) PROVE CtlTypeOK'
  BY <1>4 DEF DataStored
<1>5. ASSUME NEW p \in CtlPorts, DataOutStage(p) PROVE CtlTypeOK'
  BY <1>5 DEF DataOutStage, Applied
<1>6. ASSUME NEW p \in CtlPorts, SetupIn(p) PROVE CtlTypeOK'
  BY <1>6 DEF SetupIn, Begins
<1>7. ASSUME NEW p \in CtlPorts, DataIn(p) PROVE CtlTypeOK'
  BY <1>7 DEF DataIn
<1>8. CASE UNCHANGED ctlVars
  BY <1>8 DEF ctlVars
<1>9. QED
  BY <1>1, <1>2, <1>3, <1>4, <1>5, <1>6, <1>7, <1>8 DEF CtlNext

(* A step of a port, seen from each port. *)
LEMMA CtlStep == CtlInv /\ [CtlNext]_ctlVars => CtlInv'
<1> SUFFICES ASSUME CtlInv, [CtlNext]_ctlVars PROVE CtlInv'
  OBVIOUS
<1>1. CtlTypeOK /\ CtlTypeOK'
  BY CtlStepType DEF CtlInv
<1>2. SUFFICES ASSUME NEW p \in CtlPorts PROVE Undisturbed(p)'
  BY <1>1 DEF CtlInv
<1>3. Undisturbed(p)
  BY DEF CtlInv
<1> USE <1>1, <1>3 DEF CtlTypeOK, Undisturbed
<1>4. ASSUME NEW q \in CtlPorts, Configured(q) PROVE Undisturbed(p)'
  BY <1>4 DEF Configured
<1>5. ASSUME NEW q \in CtlPorts, Left(q) PROVE Undisturbed(p)'
  BY <1>5 DEF Left
<1>6. ASSUME NEW q \in CtlPorts, NEW cmd \in OutCommands, NEW data \in CtlData,
             SetupOut(q, cmd, data)
      PROVE  Undisturbed(p)'
  BY <1>6 DEF SetupOut, Begins
<1>7. ASSUME NEW q \in CtlPorts, DataStored(q) PROVE Undisturbed(p)'
  BY <1>7 DEF DataStored
<1>8. ASSUME NEW q \in CtlPorts, DataOutStage(q) PROVE Undisturbed(p)'
  BY <1>8 DEF DataOutStage
<1>9. ASSUME NEW q \in CtlPorts, SetupIn(q) PROVE Undisturbed(p)'
  BY <1>9 DEF SetupIn, Begins
<1>10. ASSUME NEW q \in CtlPorts, DataIn(q) PROVE Undisturbed(p)'
  BY <1>10 DEF DataIn
<1>11. CASE UNCHANGED ctlVars
  BY <1>11 DEF ctlVars
<1>12. QED
  BY <1>4, <1>5, <1>6, <1>7, <1>8, <1>9, <1>10, <1>11
     DEF CtlNext, OutCommands, CtlData

LEMMA CtlInvariant == CtlSpec => []CtlInv
BY CtlInitial, CtlStep, PTL DEF CtlSpec

(* The line coding that a host set and saw acknowledged is the one in      *)
(* force, whatever dropped requests left in cdcCmd and CmdBuff; with the   *)
(* other port in between it is that one or the one before.                 *)
LEMMA SettingIsApplied == CtlSpec => SetIsApplied
<1>1. CtlInv => \A p \in CtlPorts : DataOutStage(p) =>
        /\ alone[p] =>
             linecoding' = IF ctlCmd[p] = "SET_LINE_CODING" THEN ctlSent[p]
                                                           ELSE linecoding
        /\ linecoding' \in {linecoding, ctlSent[p]}
  BY DEF CtlInv, Undisturbed, DataOutStage, Applied
<1>2. QED
  BY <1>1, CtlInvariant, PTL DEF SetIsApplied

(* GET_LINE_CODING of a port that nobody came in between is answered with  *)
(* the line coding in force, although it was copied a while before.        *)
LEMMA AnswerIsRight == CtlSpec => AnswerIsCurrent
<1>1. CtlInv => \A p \in CtlPorts :
        DataIn(p) /\ alone[p] => answer'[p] = linecoding
  BY DEF CtlInv, CtlTypeOK, Undisturbed, DataIn
<1>2. QED
  BY <1>1, CtlInvariant, PTL DEF AnswerIsCurrent

(* So one cdcCmd and one linecoding serve every port that nobody           *)
(* interferes with as if the command were its own; and a port that is      *)
(* interfered with puts at worst its own data in force.                    *)
THEOREM CodingIsRight == CtlSpec => CodingIsShared
BY SettingIsApplied, AnswerIsRight DEF CodingIsShared

-----------------------------------------------------------------------------
(* The data stage of endpoint 0.  Of `%' the proofs need that a full       *)
(* packet more is a whole number of packets again, and a shorter one is    *)
(* not; both follow from the quotient.                                     *)
LEMMA Quotient ==
  ASSUME NEW w \in Nat \ {0}, NEW v \in Nat, NEW d, NEW m,
         d = v \div w, m = v % w
  PROVE  v = w * d + m
BY Z3

LEMMA WholePackets ==
  ASSUME NEW w \in Nat \ {0}, NEW v \in Nat, v % w = 0
  PROVE  \E k \in Int : v = w * k
<1>1. v \div w \in Int
  OBVIOUS
<1>2. \A d \in Int : d = v \div w => v = w * d
  <2> TAKE d \in Int
  <2> HAVE d = v \div w
  <2>1. QED
    BY Quotient
<1>3. QED
  BY <1>1, <1>2

LEMMA PacketsTimes ==
  ASSUME NEW w \in Nat \ {0}, NEW k \in Int
  PROVE  (w * k) % w = 0
OBVIOUS

LEMMA FullPacketMore ==
  ASSUME NEW w \in Nat \ {0}, NEW v \in Nat, v % w = 0
  PROVE  (v + w) % w = 0
<1>1. PICK k \in Int : v = w * k
  BY WholePackets
<1>2. v + w = w * (k + 1) /\ k + 1 \in Int
  BY <1>1
<1>3. QED
  BY <1>2, PacketsTimes

LEMMA ShortPacketMore ==
  ASSUME NEW w \in Nat \ {0}, NEW v \in Nat, v % w = 0,
         NEW r \in Nat \ {0}, r < w
  PROVE  (v + r) % w # 0
<1>1. SUFFICES ASSUME (v + r) % w = 0 PROVE FALSE
  OBVIOUS
<1>2. PICK k \in Int : v = w * k
  BY WholePackets
<1>3. v + r \in Nat
  OBVIOUS
<1>4. PICK j \in Int : v + r = w * j
  BY <1>1, <1>3, WholePackets
<1>5. k < j
  BY <1>2, <1>4
<1>6. w * (k + 1) <= w * j
  BY <1>5
<1>7. QED
  BY <1>2, <1>4, <1>6

(* A transfer that is going on.  Its packets of data begin at whole        *)
(* numbers of packets, and rem_data_len counts what is left from there on. *)
Asked ==
  /\ offered \in Nat \ {0} /\ wLength \in Nat \ {0}
  /\ total_data_len = MIN(offered, wLength)
  /\ inOrder

DataPacket(from) ==
  /\ from \in Nat /\ from % MaxPacket = 0
  /\ from + rem_data_len = total_data_len /\ rem_data_len > 0
  /\ xfer_len = MIN(rem_data_len, MaxPacket)
  /\ ctl_data_len = wLength

EmptyPacket ==
  /\ received = total_data_len /\ received < wLength
  /\ xfer_len = 0 /\ ctl_data_len = 0 /\ rem_data_len <= MaxPacket

Sending ==
  /\ epena /\ ~xfercompl /\ device_state = "DATA_IN" /\ asks = "data"
  /\ \/ /\ DataPacket(received)
        /\ \/ xfer_count = 0 /\ xfer_buff = received
           \/ /\ xfer_count = xfer_len /\ fifo = received
              /\ xfer_buff = received + xfer_len
     \/ EmptyPacket /\ xfer_count = 0

Sent ==
  /\ ~epena /\ xfercompl /\ device_state = "DATA_IN"
  /\ \/ /\ DataPacket(received - xfer_len) /\ xfer_buff = received
        /\ asks = IF xfer_len < MaxPacket \/ received = wLength
                    THEN "status" ELSE "data"
     \/ EmptyPacket /\ asks = "status"

Done ==
  /\ ~epena /\ ~xfercompl /\ device_state = "STATUS_OUT" /\ asks = "status"
  /\ received = total_data_len

StageInv ==
  /\ StageTypeOK
  /\ asks = "nothing" => ~epena /\ ~xfercompl
  /\ asks # "nothing" => Asked /\ (Sending \/ Sent \/ Done)

LEMMA StageInitial == StageInit => StageInv
<1> SUFFICES ASSUME StageInit PROVE StageInv
  OBVIOUS
<1>1. {total_data_len, rem_data_len, ctl_data_len, xfer_len, xfer_count,
      xfer_buff, wLength, offered, received} \subseteq Nat
  BY DEF StageInit
<1>2. StageTypeOK
  BY <1>1 DEF StageInit, StageTypeOK
<1>3. QED
  BY <1>2 DEF StageInit, StageInv

(* The SETUP packet begins a transfer at the descriptor's first byte.      *)
LEMMA BeginsSending ==
  ASSUME StageInv, NEW len \in Nat \ {0}, NEW wish \in Wishes,
         SendDescriptor(len, wish)
  PROVE  StageInv'
<1>1. /\ len \in Nat \ {0} /\ wish \in Nat \ {0} /\ MaxPacket \in Nat \ {0}
      /\ 0 % MaxPacket = 0
  BY PacketAssumption
<1>2. Asked'
  BY <1>1 DEF SendDescriptor, Asked, Answered, MIN
<1>3. DataPacket(received)'
  BY <1>1 DEF SendDescriptor, EP_Tx, Answered, MIN, DataPacket
<1>4. Sending'
  BY <1>3 DEF SendDescriptor, EP_Tx, StageInv, Sending
<1>5. StageTypeOK'
  BY <1>1 DEF SendDescriptor, EP_Tx, Answered, MIN, StageInv, StageTypeOK
<1>6. QED
  BY <1>2, <1>4, <1>5 DEF StageInv, SendDescriptor

LEMMA StageStepInv == StageInv /\ [StageNext]_stageVars => StageInv'
<1> SUFFICES ASSUME StageInv, [StageNext]_stageVars PROVE StageInv'
  OBVIOUS
<1>1. MaxPacket \in Nat \ {0}
  BY PacketAssumption
<1>2. StageTypeOK
  BY DEF StageInv
<1>3. CASE WriteEmptyTxFifo
  <2>1. asks # "nothing" /\ Asked /\ Sending
    BY <1>3 DEF StageInv, WriteEmptyTxFifo, Sent, Done
  <2>2. DataPacket(received) /\ xfer_count = 0 /\ xfer_buff = received
    BY <1>2, <1>3, <2>1
       DEF Sending, WriteEmptyTxFifo, EmptyPacket, StageTypeOK
  <2>3. /\ DataPacket(received)' /\ Asked'
        /\ xfer_count' = xfer_len' /\ fifo' = received'
        /\ xfer_buff' = received' + xfer_len'
    BY <1>2, <1>3, <2>1, <2>2
       DEF WriteEmptyTxFifo, DataPacket, Asked, hostSide, StageTypeOK
  <2>4. Sending'
    BY <1>3, <2>1, <2>3 DEF Sending, WriteEmptyTxFifo, hostSide
  <2>5. StageTypeOK'
    BY <1>2, <1>3, <2>2 DEF StageTypeOK, WriteEmptyTxFifo, hostSide
  <2>6. QED
    BY <2>1, <2>3, <2>4, <2>5, <1>3 DEF StageInv, WriteEmptyTxFifo, hostSide
<1>4. CASE HostIn
  <2>1. asks # "nothing" /\ Asked /\ Sending
    BY <1>4 DEF StageInv, HostIn, Sent, Done
  <2>2. StageTypeOK' /\ asks' # "nothing"
    <3>1. received + xfer_len \in Nat
      BY <1>2 DEF StageTypeOK
    <3>2. {total_data_len, rem_data_len, ctl_data_len, xfer_len, xfer_count,
           xfer_buff, wLength, offered, received}' \subseteq Nat
      BY <1>2, <1>4, <3>1 DEF StageTypeOK, HostIn, device
    <3>3. QED
      BY <1>2, <1>4, <3>2 DEF StageTypeOK, HostIn, device
  <2>3. CASE DataPacket(received)
    <3>1. xfer_len > 0
      BY <1>1, <1>2, <2>3 DEF DataPacket, MIN, StageTypeOK
    <3>2. fifo = received /\ xfer_buff = received + xfer_len
      BY <1>4, <2>1, <3>1 DEF Sending, HostIn, EmptyPacket
    <3>3. Asked'
      BY <1>4, <2>1, <3>2 DEF Asked, HostIn, device
    <3>4. /\ received' - xfer_len' = received /\ xfer_len' = xfer_len
          /\ xfer_buff' = received'
      BY <1>2, <1>4, <3>2 DEF HostIn, device, StageTypeOK
    <3>5. DataPacket(received - xfer_len)'
      BY <1>4, <2>3, <3>4 DEF DataPacket, HostIn, device
    <3>6. Sent'
      BY <1>4, <2>1, <3>4, <3>5 DEF Sent, Sending, HostIn, device
    <3>7. QED
      BY <2>2, <3>3, <3>6 DEF StageInv
  <2>4. CASE EmptyPacket
    <3>1. received' = received
      BY <1>2, <1>4, <2>4 DEF HostIn, device, EmptyPacket, StageTypeOK
    <3>2. Asked'
      <4>1. ~(xfer_len > 0)
        BY <2>4 DEF EmptyPacket
      <4>2. inOrder'
        BY <1>4, <2>1, <4>1 DEF Asked, HostIn
      <4>3. UNCHANGED <<offered, wLength, total_data_len>>
        BY <1>4 DEF HostIn, device
      <4>4. QED
        BY <2>1, <4>2, <4>3 DEF Asked
    <3>3. EmptyPacket'
      BY <1>4, <2>4, <3>1 DEF EmptyPacket, HostIn, device
    <3>4. Sent'
      BY <1>1, <1>4, <2>1, <2>4, <3>3
         DEF Sent, Sending, HostIn, device, EmptyPacket
    <3>5. QED
      BY <2>2, <3>2, <3>4 DEF StageInv
  <2>5. QED
    BY <2>1, <2>3, <2>4 DEF Sending
<1>5. CASE DataInStage
  <2>1. asks # "nothing" /\ Asked /\ Sent
    BY <1>5 DEF StageInv, DataInStage, Sending, Done
  <2>2. Asked' /\ asks' = asks /\ received' = received
    BY <1>5, <2>1 DEF Asked, DataInStage, hostSide
  <2>3. CASE MoreToSend
    <3>1. DataPacket(received - xfer_len) /\ xfer_buff = received
      BY <1>2, <1>1, <2>1, <2>3
         DEF Sent, MoreToSend, EmptyPacket, StageTypeOK
    <3>2. xfer_len = MaxPacket /\ received < total_data_len
      BY <1>1, <1>2, <2>3, <3>1
         DEF DataPacket, MoreToSend, MIN, StageTypeOK
    <3>3. asks = "data"
      BY <1>1, <1>2, <2>1, <3>1, <3>2
         DEF Sent, EmptyPacket, Asked, MIN, StageTypeOK
    <3>4. received % MaxPacket = 0
      <4>1. /\ received - xfer_len \in Nat
            /\ (received - xfer_len) % MaxPacket = 0
            /\ (received - xfer_len) + MaxPacket = received
        BY <1>1, <1>2, <3>1, <3>2 DEF DataPacket, StageTypeOK
      <4>2. QED
        BY <1>1, <4>1, FullPacketMore
    <3>5. /\ rem_data_len' = rem_data_len - MaxPacket /\ rem_data_len' \in Nat
          /\ EP_Tx(xfer_buff, rem_data_len')
          /\ UNCHANGED <<device_state, ctl_data_len, total_data_len, hostSide>>
          /\ xfercompl' = FALSE /\ device_state = "DATA_IN"
      BY <1>1, <1>2, <1>5, <2>3 DEF DataInStage, MoreToSend, StageTypeOK
    <3>6. DataPacket(received)'
      BY <1>1, <1>2, <2>3, <3>1, <3>2, <3>4, <3>5
         DEF DataPacket, EP_Tx, MoreToSend, hostSide, StageTypeOK
    <3>7. Sending'
      BY <3>1, <3>3, <3>5, <3>6 DEF Sending, EP_Tx, hostSide
    <3>8. StageTypeOK'
      <4>1. {total_data_len, rem_data_len, ctl_data_len, xfer_len, xfer_count,
             xfer_buff, wLength, offered, received}' \subseteq Nat
        BY <1>1, <1>2, <3>5 DEF StageTypeOK, EP_Tx, MIN, hostSide
      <4>2. QED
        BY <1>2, <3>5, <4>1 DEF StageTypeOK, EP_Tx, hostSide
    <3>9. QED
      BY <2>1, <2>2, <3>7, <3>8 DEF StageInv
  <2>4. CASE ~MoreToSend
    <3>1. received = total_data_len
      BY <1>1, <1>2, <2>1, <2>4
         DEF Sent, DataPacket, EmptyPacket, MIN, MoreToSend, StageTypeOK
    <3>2. CASE EmptyPacketDue
      <4>1. DataPacket(received - xfer_len) /\ total_data_len < wLength
        BY <1>1, <1>2, <2>1, <3>2
           DEF Sent, EmptyPacketDue, EmptyPacket, DataPacket, StageTypeOK
      <4>2. xfer_len = MaxPacket
        <5>1. SUFFICES ASSUME xfer_len < MaxPacket PROVE FALSE
          BY <1>1, <1>2, <2>4, <4>1
             DEF DataPacket, MoreToSend, MIN, StageTypeOK
        <5>2. /\ received - xfer_len \in Nat /\ xfer_len \in Nat \ {0}
              /\ (received - xfer_len) % MaxPacket = 0
              /\ (received - xfer_len) + xfer_len = total_data_len
          BY <1>1, <1>2, <3>1, <4>1 DEF DataPacket, MIN, StageTypeOK
        <5>3. total_data_len % MaxPacket # 0
          BY <1>1, <5>1, <5>2, ShortPacketMore
        <5>4. QED
          BY <3>2, <5>3 DEF EmptyPacketDue
      <4>3. asks = "data"
        BY <1>1, <1>2, <2>1, <3>1, <4>1, <4>2
           DEF Sent, EmptyPacket, StageTypeOK
      <4>4. /\ EP_Tx(0, 0) /\ ctl_data_len' = 0
            /\ UNCHANGED <<device_state, rem_data_len, total_data_len, hostSide>>
            /\ xfercompl' = FALSE /\ device_state = "DATA_IN"
        BY <1>5, <2>4, <3>2 DEF DataInStage, EmptyPacketSent
      <4>5. EmptyPacket'
        BY <1>1, <1>2, <2>4, <3>1, <4>1, <4>4
           DEF EmptyPacket, EP_Tx, MIN, MoreToSend, hostSide, StageTypeOK
      <4>6. Sending'
        BY <4>3, <4>4, <4>5 DEF Sending, EP_Tx, hostSide
      <4>7. StageTypeOK'
        <5>1. {total_data_len, rem_data_len, ctl_data_len, xfer_len, xfer_count,
               xfer_buff, wLength, offered, received}' \subseteq Nat
          BY <1>1, <1>2, <4>4 DEF StageTypeOK, EP_Tx, MIN, hostSide
        <5>2. QED
          BY <1>2, <4>4, <5>1 DEF StageTypeOK, EP_Tx, hostSide
      <4>8. QED
        BY <2>1, <2>2, <4>6, <4>7 DEF StageInv
    <3>3. CASE ~EmptyPacketDue
      <4>1. asks = "status"
        <5>1. CASE EmptyPacket
          BY <1>1, <1>2, <2>1, <5>1 DEF Sent, EmptyPacket, DataPacket, MIN,
             StageTypeOK
        <5>2. CASE DataPacket(received - xfer_len)
          <6>1. SUFFICES ASSUME xfer_len = MaxPacket, received < wLength
                         PROVE  FALSE
            BY <1>1, <1>2, <2>1, <3>1, <5>2
               DEF Sent, DataPacket, Asked, MIN, StageTypeOK
          <6>2. /\ received - xfer_len \in Nat
                /\ (received - xfer_len) % MaxPacket = 0
                /\ (received - xfer_len) + MaxPacket = total_data_len
            BY <1>1, <1>2, <3>1, <5>2, <6>1 DEF DataPacket, StageTypeOK
          <6>3. total_data_len % MaxPacket = 0
            BY <1>1, <6>2, FullPacketMore
          <6>4. total_data_len >= MaxPacket /\ ctl_data_len = wLength
            BY <1>1, <1>2, <5>2, <6>2 DEF DataPacket, StageTypeOK
          <6>5. QED
            BY <3>1, <3>3, <6>1, <6>3, <6>4 DEF EmptyPacketDue
        <5>3. QED
          BY <2>1, <5>1, <5>2 DEF Sent
      <4>2. /\ device_state' = "STATUS_OUT" /\ xfercompl' = FALSE
            /\ UNCHANGED <<rem_data_len, ctl_data_len, xfer_len, xfer_count,
                           xfer_buff, epena, fifo, total_data_len, hostSide>>
        BY <1>5, <2>4, <3>3 DEF DataInStage
      <4>3. Done'
        BY <2>1, <3>1, <4>1, <4>2 DEF Done, Sent, hostSide
      <4>4. StageTypeOK'
        BY <1>2, <4>2 DEF StageTypeOK, hostSide
      <4>5. QED
        BY <2>1, <2>2, <4>3, <4>4 DEF StageInv
    <3>4. QED
      BY <3>2, <3>3
  <2>5. QED
    BY <2>3, <2>4
<1>6. CASE HostStatus
  <2>1. asks # "nothing" /\ Done
    BY <1>6 DEF StageInv, HostStatus, Sending, Sent
  <2>2. QED
    BY <1>2, <1>6, <2>1 DEF StageInv, StageTypeOK, HostStatus, Done, device
<1>7. CASE UNCHANGED stageVars
  <2>1. StageTypeOK' /\ (Asked' <=> Asked)
    BY <1>2, <1>7 DEF StageTypeOK, stageVars, device, hostSide, Asked
  <2>2. (Sending' <=> Sending) /\ (Sent' <=> Sent) /\ (Done' <=> Done)
    BY <1>7 DEF Sending, Sent, Done, DataPacket, EmptyPacket,
                stageVars, device, hostSide
  <2>3. QED
    BY <1>7, <2>1, <2>2 DEF StageInv, stageVars, hostSide
<1>8. ASSUME NEW wish \in Wishes, GetDescriptor(wish) PROVE StageInv'
  <2>1. /\ \A d \in BOOLEAN : Described(wish, d) \in Nat \ {0}
        /\ \A len \in Descriptors : len \in Nat \ {0}
    BY PacketAssumption DEF Described
  <2>2. PICK len \in Nat \ {0} : SendDescriptor(len, wish)
    BY <1>8, <2>1 DEF GetDescriptor
  <2>3. QED
    BY <2>2, BeginsSending
<1>9. QED
  BY <1>3, <1>4, <1>5, <1>6, <1>7, <1>8 DEF StageNext, StageStep

LEMMA StageInvariant == StageSpec => []StageInv
BY StageInitial, StageStepInv, PTL DEF StageSpec

(* Device and host take the same packet for the last one, whatever the     *)
(* packet size, the lengths of the descriptors (the device descriptor cut  *)
(* to its first bytes or not) and the length asked for: the host is given  *)
(* all there is for it, in order, and neither side waits for a packet the  *)
(* other one does not send.                                                *)
THEOREM AnswerIsWhole == StageSpec => []WholeAnswer
<1>1. StageInv => WholeAnswer
  <2> SUFFICES ASSUME StageInv PROVE WholeAnswer
    OBVIOUS
  <2>1. ASSUME asks = "status"
        PROVE  inOrder /\ received = MIN(offered, wLength) /\ ~epena
    <3>1. Asked /\ (Sent \/ Done)
      BY <2>1 DEF StageInv, Sending
    <3>2. CASE Done
      BY <3>1, <3>2 DEF Done, Asked
    <3>3. CASE Sent /\ EmptyPacket
      BY <3>1, <3>3 DEF Sent, EmptyPacket, Asked
    <3>4. CASE Sent /\ DataPacket(received - xfer_len)
      <4>1. xfer_len < MaxPacket \/ received = wLength
        BY <2>1, <3>4, PacketAssumption
           DEF Sent, EmptyPacket, StageInv, StageTypeOK
      <4>2. received = total_data_len
        BY <3>1, <3>4, <4>1, PacketAssumption
           DEF DataPacket, Asked, MIN, StageInv, StageTypeOK
      <4>3. QED
        BY <3>1, <3>4, <4>2 DEF Asked, Sent
    <3>5. QED
      BY <3>1, <3>2, <3>3, <3>4 DEF Sent
  <2>2. device_state = "STATUS_OUT" => asks # "data"
    BY DEF StageInv, Sending, Sent, Done
  <2>3. QED
    BY <2>1, <2>2 DEF WholeAnswer
<1>2. QED
  BY <1>1, StageInvariant, PTL

-----------------------------------------------------------------------------
(* The frames.  FrameCount is even when the port served last is the one    *)
(* whose frame came last, as long as the frames alternate.                 *)
FrameInv ==
  /\ FrameCount \in 0..FrameInterval
  /\ {lastFrame, served} \subseteq FramePorts \union {NoPort}
  /\ served # NoPort => lastFrame # NoPort
  /\ served # NoPort /\ evenly => (lastFrame = served <=> FrameCount % 2 = 0)

LEMMA FrameStep == FrameInv /\ [FrameNext]_frameVars => FrameInv'
<1> SUFFICES ASSUME FrameInv, [FrameNext]_frameVars PROVE FrameInv'
  OBVIOUS
<1>1. CASE UNCHANGED frameVars
  BY <1>1 DEF FrameInv, frameVars
<1>2. ASSUME NEW p \in FramePorts, usbd_cdc_SOF(p) PROVE FrameInv'
  <2>1. p # NoPort /\ lastFrame' = p /\ 0 % 2 = 0 /\ FrameInterval \in Nat
    BY <1>2, FrameAssumption DEF usbd_cdc_SOF
  <2>2. CASE IsDue
    BY <1>2, <2>1, <2>2 DEF FrameInv, usbd_cdc_SOF
  <2>3. CASE ~IsDue
    <3>1. FrameCount' = FrameCount + 1 /\ FrameCount' \in 0..FrameInterval
      BY <1>2, <2>1, <2>3 DEF FrameInv, usbd_cdc_SOF, IsDue
    <3>2. FrameCount % 2 = 0 <=> FrameCount' % 2 # 0
      BY <3>1, <2>1 DEF FrameInv
    <3>3. served' = served /\ (evenly' => evenly /\ lastFrame # p)
      BY <1>2, <2>3 DEF usbd_cdc_SOF
    <3>4. ASSUME served # NoPort, evenly'
          PROVE  p = served <=> lastFrame # served
      BY <1>2, <2>1, <3>3, <3>4, FrameAssumption DEF FrameInv
    <3>5. QED
      BY <1>2, <2>1, <3>1, <3>2, <3>3, <3>4 DEF FrameInv
  <2>4. QED
    BY <2>2, <2>3
<1>3. QED
  BY <1>1, <1>2 DEF FrameNext

(* FrameCount counts the frames of both ports and its period, for an odd   *)
(* frame interval, is even: as long as the frames alternate, it is always  *)
(* the ring of the same port that is served, and the other port's waits.   *)
THEOREM SamePortServed == FrameSpec => SameServed
<1>1. FrameInit => FrameInv
  BY FrameAssumption DEF FrameInit, FrameInv
<1>2. ASSUME FrameInv, NEW p \in FramePorts, usbd_cdc_SOF(p), IsDue,
             served # NoPort, evenly, lastFrame # p
      PROVE  p = served
  <2>1. FrameCount % 2 # 0
    BY <1>2, FrameAssumption DEF IsDue
  <2>2. lastFrame # served
    BY <1>2, <2>1 DEF FrameInv
  <2>3. {lastFrame, served, p} \subseteq FramePorts
    BY <1>2 DEF FrameInv
  <2>4. QED
    BY <1>2, <2>2, <2>3, FrameAssumption
<1>3. FrameInv => \A p \in FramePorts :
        usbd_cdc_SOF(p) /\ IsDue /\ served # NoPort /\ evenly /\ lastFrame # p
          => p = served
  BY <1>2
<1>4. QED
  BY <1>1, <1>3, FrameStep, PTL DEF FrameSpec, SameServed

-----------------------------------------------------------------------------
(* A behaviour of the device is one of each of the four parts, since they  *)
(* share no state: what is proved of a part holds in the device.           *)
THEOREM DeviceIsItsParts ==
  DeviceSpec => Spec /\ CtlSpec /\ StageSpec /\ FrameSpec
<1>1. DeviceInit => Init /\ CtlInit /\ StageInit /\ FrameInit
  BY DEF DeviceInit
<1>2. [DeviceNext]_deviceVars =>
        /\ [Next]_vars /\ [CtlNext]_ctlVars
        /\ [StageNext]_stageVars /\ [FrameNext]_frameVars
  BY DEF DeviceNext, deviceVars
<1>3. QED
  BY <1>1, <1>2, PTL DEF DeviceSpec, Spec, CtlSpec, StageSpec, FrameSpec

(* The variables of all the parts that have types keep them.               *)
THEOREM DeviceTypeCorrect == DeviceSpec => []DeviceTypeOK
<1>1. PortsInv /\ CtlInv /\ StageInv => DeviceTypeOK
  BY DEF PortsInv, CtlInv, StageInv, DeviceTypeOK
<1>2. QED
  BY <1>1, DeviceIsItsParts, PortsInvariant, CtlInvariant, StageInvariant, PTL

=============================================================================
