--------------------------- MODULE MainLoopProofs ---------------------------
(***************************************************************************)
(* Proofs about MainLoop, for every set of outcomes of the calls and every *)
(* number of commands per pass of the TCP stack.                           *)
(***************************************************************************)
EXTENDS MainLoop, TLAPS

(* While a READ_ADC is on its way to be served ad7794_on is 1, and while   *)
(* ad7794_on is 1 the chip keeps its set-up.                               *)
AdcInv ==
  /\ ad7794_on => chipReady
  /\ stage \in {"load", "store", "serve"} /\ cur = "READ_ADC" => ad7794_on

IInv == TypeOK /\ RegisterBehind /\ FlagWasAsked /\ NetifOnce /\ AdcInv

(* TypeOK in two parts: SMT shows the one, Zenon the other. *)
FlagsTyped ==
  /\ EthInitStatus \in BOOLEAN
  /\ eth_on \in BOOLEAN
  /\ ad7794_on \in BOOLEAN
  /\ macRunning \in BOOLEAN
  /\ chipReady \in BOOLEAN

DataTyped ==
  /\ FLAG \subseteq Requests
  /\ stage \in Stages
  /\ cur \in Requests
  /\ reg \subseteq Requests
  /\ left \in 0..FrameCmds
  /\ netifs \in Nat
  /\ asked \subseteq Requests
  /\ due \subseteq Requests

-----------------------------------------------------------------------------
(* What the loop goes on to is within the types.                           *)
Onward ==
  stage' \in Stages /\ cur' \in Requests /\ left' \in 0..FrameCmds
  /\ due' \subseteq Requests

LEMMA AfterTyped == ASSUME TypeOK, NEW r, After(r) PROVE Onward
<1> USE FrameCmdsAssumption
    DEF FrameCmdsAssumption, Onward, TypeOK, Goto, Stages, Requests
<1>1. CASE r \in {"INIT_PERIPH", "READ_ADC"}
  <2>1. UNCHANGED left /\ UNCHANGED due
    BY <1>1 DEF After
  <2>2. stage' \in Stages /\ cur' \in Requests
    BY <1>1 DEF After
  <2>3. QED
    BY <2>1, <2>2
<1>2. CASE r = "ETH_RESET"
  <2>1. UNCHANGED due /\ left' = FrameCmds
    BY <1>2 DEF After
  <2>2. FrameCmds \in 0..FrameCmds
    OBVIOUS
  <2>3. stage' \in Stages /\ cur' \in Requests
    BY <1>2 DEF After
  <2>4. QED
    BY <2>1, <2>2, <2>3
<1>3. CASE r = "RESET_ADC"
  BY <1>3 DEF After
<1>4. QED
  BY <1>1, <1>2, <1>3 DEF After

LEMMA StayTyped ==
  ASSUME TypeOK, NEW s \in Stages, NEW r \in Requests, Goto(s, r),
         UNCHANGED <<left, due>>
  PROVE  Onward
BY DEF Onward, TypeOK, Goto

(* The type invariant of the main loop.                                    *)
THEOREM TypeCorrect == Spec => []TypeOK
<1> USE OutcomesAssumption, FrameCmdsAssumption
    DEF OutcomesAssumption, FrameCmdsAssumption, TypeOK, Requests, Stages,
        Goto, Outcomes
<1>1. Init => TypeOK
  <2>1. Init => DataTyped
    BY SMT DEF Init, DataTyped
  <2>2. Init => FlagsTyped
    BY Zenon DEF Init, FlagsTyped
  <2>3. QED
    BY <2>1, <2>2 DEF DataTyped, FlagsTyped
<1>2. TypeOK /\ [Next]_vars => TypeOK'
  <2> SUFFICES ASSUME TypeOK, [Next]_vars PROVE TypeOK'
    OBVIOUS
  <2>1. CASE SetSystem
    <3>1. DataTyped'
      BY <2>1, SMT DEF SetSystem, EthBspConfig, DataTyped
    <3>2. FlagsTyped'
      BY <2>1, Zenon DEF SetSystem, EthBspConfig, FlagsTyped
    <3>3. QED
      BY <3>1, <3>2 DEF DataTyped, FlagsTyped
  <2>2. CASE Check
    <3>1. DataTyped'
      <4>1. Onward
        BY <2>2, AfterTyped, StayTyped DEF Check
      <4>2. QED
        BY <2>2, <4>1 DEF Check, DataTyped, Onward
    <3>2. FlagsTyped'
      BY <2>2, Zenon DEF Check, Skipped, FlagsTyped
    <3>3. QED
      BY <3>1, <3>2 DEF DataTyped, FlagsTyped
  <2>3. CASE LoadForClear
    BY <2>3 DEF LoadForClear
  <2>4. CASE StoreCleared
    BY <2>4 DEF StoreCleared, Flip
  <2>5. CASE ServeInit
    <3>1. DataTyped'
      <4>1. Onward
        BY <2>5, AfterTyped, StayTyped DEF ServeInit
      <4>2. QED
        BY <2>5, <4>1 DEF ServeInit, ETH_LWIP_init, DataTyped, Onward
    <3>2. FlagsTyped'
      BY <2>5, Zenon DEF ServeInit, ETH_LWIP_init, ADC_init, FlagsTyped
    <3>3. QED
      BY <3>1, <3>2 DEF DataTyped, FlagsTyped
  <2>6. CASE ServeEthReset
    <3>1. DataTyped'
      BY <2>6, SMT DEF ServeEthReset, EthBspConfig, DataTyped
    <3>2. FlagsTyped'
      BY <2>6, Zenon DEF ServeEthReset, EthBspConfig, FlagsTyped
    <3>3. QED
      BY <3>1, <3>2 DEF DataTyped, FlagsTyped
  <2>7. CASE LwipAfterReset
    <3>1. DataTyped'
      <4>1. Onward
        BY <2>7, AfterTyped DEF LwipAfterReset
      <4>2. QED
        BY <2>7, <4>1 DEF LwipAfterReset, ETH_LWIP_init, DataTyped, Onward
    <3>2. FlagsTyped'
      BY <2>7, Zenon DEF LwipAfterReset, ETH_LWIP_init, FlagsTyped
    <3>3. QED
      BY <3>1, <3>2 DEF DataTyped, FlagsTyped
  <2>8. CASE ServeReadAdc
    <3>1. Onward
      BY <2>8, AfterTyped, StayTyped DEF ServeReadAdc
    <3>2. QED
      BY <2>8, <3>1 DEF ServeReadAdc, Onward
  <2>9. CASE ServeResetAdc
    <3>1. DataTyped'
      <4>1. Onward
        BY <2>9, AfterTyped, StayTyped DEF ServeResetAdc
      <4>2. QED
        BY <2>9, <4>1 DEF ServeResetAdc, DataTyped, Onward
    <3>2. FlagsTyped'
      BY <2>9, Zenon DEF ServeResetAdc, ADC_init, FlagsTyped
    <3>3. QED
      BY <3>1, <3>2 DEF DataTyped, FlagsTyped
  <2>10. CASE NetDone
    BY <2>10 DEF NetDone
  <2>11. CASE LoadForSet
    BY <2>11 DEF LoadForSet
  <2>12. CASE StoreSet
    BY <2>12 DEF StoreSet
  <2>13. CASE \E r \in Requests : TcpRequest(r)
    BY <2>13 DEF TcpRequest
  <2>14. CASE SystemReset
    <3>1. DataTyped'
      BY <2>14, SMT DEF SystemReset, DataTyped
    <3>2. FlagsTyped'
      BY <2>14, Zenon DEF SystemReset, FlagsTyped
    <3>3. QED
      BY <3>1, <3>2 DEF DataTyped, FlagsTyped
  <2>15. CASE \E r \in Requests : UsbRequest(r)
    BY <2>15 DEF UsbRequest
  <2>16. CASE Wakeup
    BY <2>16 DEF Wakeup, EthBspConfig
  <2>17. CASE UNCHANGED vars
    BY <2>17 DEF vars
  <2>18. QED
    BY <2>1, <2>2, <2>3, <2>4, <2>5, <2>6, <2>7, <2>8, <2>9, <2>10, <2>11,
       <2>12, <2>13, <2>14, <2>15, <2>16, <2>17
    DEF Next, MainStep, Interrupt, TcpSystemReset, UsbSystemReset
<1>3. QED
  BY <1>1, <1>2, PTL DEF Spec

-----------------------------------------------------------------------------
(* The strengthened invariant: the register never holds a bit that FLAG    *)
(* lost, FLAG never a bit nobody asked for.                                *)
LEMMA InitIInv == TypeOK /\ Init => IInv
BY DEF Init, IInv, RegisterBehind, FlagWasAsked, NetifOnce, AdcInv

LEMMA StepIInv == TypeOK' /\ IInv /\ [Next]_vars => IInv'
<1> SUFFICES ASSUME TypeOK', IInv, [Next]_vars PROVE IInv'
  OBVIOUS
<1> USE DEF IInv, RegisterBehind, FlagWasAsked, NetifOnce, AdcInv
<1>1. CASE SetSystem
  BY <1>1 DEF SetSystem, EthBspConfig
<1>2. CASE Check
  BY <1>2 DEF Check, Skipped, After, Goto, TypeOK, Requests
<1>3. CASE LoadForClear
  BY <1>3 DEF LoadForClear, Goto
<1>4. CASE StoreCleared
  BY <1>4 DEF StoreCleared, Flip, Goto
<1>5. CASE ServeInit
  BY <1>5 DEF ServeInit, ETH_LWIP_init, ADC_init, After, Goto
<1>6. CASE ServeEthReset
  BY <1>6 DEF ServeEthReset, EthBspConfig, Goto
<1>7. CASE LwipAfterReset
  BY <1>7 DEF LwipAfterReset, ETH_LWIP_init, After, Goto
<1>8. CASE ServeReadAdc
  BY <1>8 DEF ServeReadAdc, After, Goto
<1>9. CASE ServeResetAdc
  BY <1>9 DEF ServeResetAdc, ADC_init, After, Goto
<1>10. CASE NetDone
  BY <1>10 DEF NetDone, Goto
<1>11. CASE LoadForSet
  BY <1>11 DEF LoadForSet, Goto
<1>12. CASE StoreSet
  BY <1>12 DEF StoreSet, Goto
<1>13. CASE \E r \in Requests : TcpRequest(r)
  BY <1>13 DEF TcpRequest, Goto
<1>14. CASE SystemReset
  BY <1>14 DEF SystemReset
<1>15. CASE \E r \in Requests : UsbRequest(r)
  BY <1>15 DEF UsbRequest
<1>16. CASE Wakeup
  BY <1>16 DEF Wakeup, EthBspConfig
<1>17. CASE UNCHANGED vars
  BY <1>17 DEF vars
<1>18. QED
  BY <1>1, <1>2, <1>3, <1>4, <1>5, <1>6, <1>7, <1>8, <1>9, <1>10, <1>11,
     <1>12, <1>13, <1>14, <1>15, <1>16, <1>17
  DEF Next, MainStep, Interrupt, TcpSystemReset, UsbSystemReset

LEMMA IInvHolds == Spec => []IInv
<1>1. Spec => []TypeOK
  BY TypeCorrect
<1>2. QED
  BY <1>1, InitIInv, StepIInv, PTL DEF Spec

-----------------------------------------------------------------------------
(* What is due in this pass stays in FLAG, and in the register, until its  *)
(* turn; and a request whose turn is over is no longer due.                *)
DueInv ==
  /\ stage = "boot" => cur = "INIT_PERIPH"
  /\ due \subseteq FLAG
  /\ stage \in {"store", "orStore"} => due \subseteq reg
  /\ stage = "serve" => cur \notin due
  /\ stage \in {"check", "load", "store", "serve"} =>
       /\ cur # "INIT_PERIPH" => "INIT_PERIPH" \notin due
       /\ cur \in {"READ_ADC", "RESET_ADC"} => "ETH_RESET" \notin due
       /\ cur = "RESET_ADC" => "READ_ADC" \notin due
  /\ stage \in {"lwip", "net", "orLoad", "orStore"} =>
       "INIT_PERIPH" \notin due /\ "ETH_RESET" \notin due

LEMMA StepDue == IInv /\ DueInv /\ [Next]_vars => DueInv'
<1> SUFFICES ASSUME IInv, DueInv, [Next]_vars PROVE DueInv'
  OBVIOUS
<1> USE DEF DueInv
<1>1. CASE SetSystem
  BY <1>1 DEF SetSystem, EthBspConfig
<1>2. CASE Check
  BY <1>2 DEF Check, Skipped, After, Goto, IInv, TypeOK, Requests
<1>3. CASE LoadForClear
  BY <1>3 DEF LoadForClear, Goto
<1>4. CASE StoreCleared
  BY <1>4 DEF StoreCleared, Flip, Goto, IInv, RegisterBehind
<1>5. CASE ServeInit
  BY <1>5 DEF ServeInit, After, Goto
<1>6. CASE ServeEthReset
  BY <1>6 DEF ServeEthReset, EthBspConfig, Goto
<1>7. CASE LwipAfterReset
  BY <1>7 DEF LwipAfterReset, After, Goto
<1>8. CASE ServeReadAdc
  BY <1>8 DEF ServeReadAdc, After, Goto
<1>9. CASE ServeResetAdc
  BY <1>9 DEF ServeResetAdc, After, Goto
<1>10. CASE NetDone
  BY <1>10 DEF NetDone, Goto
<1>11. CASE LoadForSet
  BY <1>11 DEF LoadForSet, Goto
<1>12. CASE StoreSet
  BY <1>12 DEF StoreSet, Goto
<1>13. CASE \E r \in Requests : TcpRequest(r)
  BY <1>13 DEF TcpRequest, Goto
<1>14. CASE SystemReset
  BY <1>14 DEF SystemReset
<1>15. CASE \E r \in Requests : UsbRequest(r)
  BY <1>15 DEF UsbRequest
<1>16. CASE Wakeup
  BY <1>16 DEF Wakeup, EthBspConfig
<1>17. CASE UNCHANGED vars
  BY <1>17 DEF vars
<1>18. QED
  BY <1>1, <1>2, <1>3, <1>4, <1>5, <1>6, <1>7, <1>8, <1>9, <1>10, <1>11,
     <1>12, <1>13, <1>14, <1>15, <1>16, <1>17
  DEF Next, MainStep, Interrupt, TcpSystemReset, UsbSystemReset

LEMMA DueHolds == Spec => [](IInv /\ DueInv)
<1>1. Init => DueInv
  BY DEF Init, DueInv
<1>2. QED
  BY <1>1, StepDue, IInvHolds, PTL DEF Spec

(* What is in FLAG when a pass begins is served before the pass ends, the  *)
(* requests of the ADC if it is on when their turn comes: no interleaving  *)
(* of the parsers with the loop takes it away or makes it wait.            *)
THEOREM PassServesAll == Spec => PassServes
<1> DEFINE Served == PassEnds => /\ due \subseteq {"READ_ADC", "RESET_ADC"}
                                 /\ cur = "RESET_ADC" => due = {}
<1>1. IInv /\ DueInv /\ [Next]_vars => [Served]_vars
  <2> SUFFICES ASSUME IInv, DueInv, Next, PassEnds
               PROVE  /\ due \subseteq {"READ_ADC", "RESET_ADC"}
                      /\ cur = "RESET_ADC" => due = {}
    OBVIOUS
  <2>1. due \subseteq Requests /\ cur \in Requests
    BY DEF IInv, TypeOK
  <2>2. /\ stage \in {"check", "serve"}
        /\ cur \in {"READ_ADC", "RESET_ADC"}
        /\ cur = "RESET_ADC" /\ stage = "check" => cur \notin FLAG
    <3>1. Check \/ ServeResetAdc
      BY DEF PassEnds, AtHead, Next, MainStep, Interrupt, SetSystem,
             LoadForClear, StoreCleared, ServeInit, ServeEthReset,
             LwipAfterReset, ServeReadAdc, NetDone, LoadForSet, StoreSet,
             TcpRequest, TcpSystemReset, SystemReset, UsbRequest,
             UsbSystemReset, Wakeup, After, Goto
    <3>2. CASE Check
      BY <2>1, <3>2 DEF PassEnds, AtHead, Check, Skipped, After, Goto, Requests
    <3>3. CASE ServeResetAdc
      BY <3>3 DEF ServeResetAdc
    <3>4. QED
      BY <3>1, <3>2, <3>3
  <2>3. "INIT_PERIPH" \notin due /\ "ETH_RESET" \notin due
    BY <2>2 DEF DueInv
  <2>4. ASSUME cur = "RESET_ADC" PROVE due = {}
    <3>1. "READ_ADC" \notin due
      BY <2>2, <2>4 DEF DueInv
    <3>2. "RESET_ADC" \notin due
      BY <2>2, <2>4 DEF DueInv
    <3>3. QED
      BY <2>1, <2>3, <3>1, <3>2 DEF Requests
  <2>5. QED
    BY <2>1, <2>3, <2>4 DEF Requests
<1>2. QED
  BY <1>1, DueHolds, PTL DEF Spec, PassServes

-----------------------------------------------------------------------------
(* Every bit of FLAG stands for a request made and not yet served, whatever*)
(* the interleaving of the two parsers with the main loop.                 *)
THEOREM FlagIsSound == Spec => []FlagWasAsked
<1>1. IInv => FlagWasAsked
  BY DEF IInv
<1>2. QED
  BY <1>1, IInvHolds, PTL

(* What FlagIsSound rests on: while the main loop holds FLAG in a register,*)
(* the register is behind the interrupts, never ahead of them.             *)
THEOREM RegisterStaysBehind == Spec => []RegisterBehind
<1>1. IInv => RegisterBehind
  BY DEF IInv
<1>2. QED
  BY <1>1, IInvHolds, PTL

(* netif_add links the network interface at most once per boot.            *)
THEOREM NetifAddedOnce == Spec => []NetifOnce
<1>1. IInv => NetifOnce
  BY DEF IInv
<1>2. QED
  BY <1>1, IInvHolds, PTL

(* The ADC is read only while it holds a successful set-up.                *)
THEOREM ReadsAreOfConfiguredChip == Spec => []ReadsConfiguredChip
<1>1. IInv => ReadsConfiguredChip
  BY DEF IInv, AdcInv, ReadsConfiguredChip, ServingOf
<1>2. QED
  BY <1>1, IInvHolds, PTL

(* XOR is a sound way to clear here: no request is served that was not made*)
(* since it was last served.                                               *)
THEOREM ServiceWasAsked == Spec => NoSpuriousService
<1> DEFINE Asked == \A r \in Requests : ~ServingOf(r) /\ ServingOf(r)' => r \in asked
<1>1. IInv /\ [Next]_vars => [Asked]_vars
  <2> SUFFICES ASSUME IInv, Next, NEW r \in Requests, ~ServingOf(r), ServingOf(r)'
               PROVE r \in asked
    OBVIOUS
  <2>1. StoreCleared
    BY DEF Next, MainStep, Interrupt, ServingOf, SetSystem, Check, LoadForClear,
           ServeInit, ServeEthReset, LwipAfterReset, ServeReadAdc, ServeResetAdc,
           NetDone, LoadForSet, StoreSet, TcpRequest, TcpSystemReset, SystemReset,
           UsbRequest, UsbSystemReset, Wakeup, After, Goto, IInv, TypeOK, Requests
  <2>2. cur \in FLAG /\ cur = r
    BY <2>1 DEF StoreCleared, IInv, RegisterBehind, ServingOf, Goto
  <2>3. QED
    BY <2>2 DEF IInv, FlagWasAsked
<1>2. QED
  BY <1>1, IInvHolds, PTL DEF Spec, NoSpuriousService

(* A MAC that was reset under a running stack is started by nothing but a  *)
(* reboot: not by 'e' again, not by 'p', not by the wake-up interrupt.     *)
THEOREM ResetMacStaysDown == Spec => ResetEthStaysDown
<1>1. [Next]_vars => [eth_on /\ ~macRunning => ~macRunning']_vars
  <2> SUFFICES ASSUME Next, eth_on, ~macRunning PROVE ~macRunning'
    OBVIOUS
  <2>1. CASE ServeInit \/ LwipAfterReset
    BY <2>1 DEF ServeInit, LwipAfterReset, ETH_LWIP_init
  <2>2. CASE SetSystem \/ ServeEthReset \/ Wakeup \/ SystemReset
    BY <2>2 DEF SetSystem, ServeEthReset, Wakeup, EthBspConfig, SystemReset
  <2>3. CASE \/ Check \/ LoadForClear \/ StoreCleared \/ ServeReadAdc
             \/ ServeResetAdc \/ NetDone \/ LoadForSet \/ StoreSet
             \/ \E r \in Requests : TcpRequest(r) \/ UsbRequest(r)
    BY <2>3 DEF Check, LoadForClear, StoreCleared, ServeReadAdc,
       ServeResetAdc, NetDone, LoadForSet, StoreSet, TcpRequest, UsbRequest
  <2>4. QED
    BY <2>1, <2>2, <2>3
    DEF Next, MainStep, Interrupt, TcpSystemReset, UsbSystemReset
<1>2. QED
  BY <1>1, PTL DEF Spec, ResetEthStaysDown
=============================================================================
