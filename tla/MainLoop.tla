------------------------------ MODULE MainLoop ------------------------------
(***************************************************************************)
(* The request word FLAG of the firmware and the main loop that serves it. *)
(*                                                                         *)
(* Commands arrive in two contexts: parce_incoming_buf runs in the USB     *)
(* interrupt (VCP_DataRx) and, for bytes received over TCP, in the main    *)
(* loop (tcp_echoserver_send).  Both do FLAG |= bit.  The main loop tests  *)
(* a bit, clears it with FLAG ^= bit and serves the request.  FLAG is      *)
(* volatile and the processor has no atomic read-modify-write for it: a    *)
(* |= or ^= of the main loop is a load and a store, and the interrupt may  *)
(* run between the test, the load and the store.  The interrupt itself is  *)
(* never pre-empted by the main loop, so its own |= is one step.           *)
(***************************************************************************)
EXTENDS Naturals, FiniteSets

CONSTANTS
  AdcResults,   \* what setup_AD7794/read_AD7794 may do, within Outcomes
  EthResults,   \* what ETH_MACDMA_Config may do, within Outcomes
  FrameCmds     \* bound: commands that one pass of the TCP stack parses

(* A call succeeds, reports failure, or never returns: check_data_ready is *)
(* polled without a bound, and so is the reset bit of the Ethernet MAC.    *)
Outcomes == {"ok", "fail", "hang"}

ASSUME OutcomesAssumption ==
  /\ AdcResults \subseteq Outcomes
  /\ EthResults \subseteq Outcomes
  /\ EthResults # {}
  /\ AdcResults # {}

ASSUME FrameCmdsAssumption == FrameCmds \in Nat

VARIABLES
  FLAG,           \* the set of requests whose bit is 1
  stage,          \* where the main loop is
  cur,            \* the request that stage is about
  reg,            \* the register that holds FLAG between a load and a store
  left,           \* commands this pass of the TCP stack may still parse
  EthInitStatus,  \* TRUE: the last ETH_Init found the PHY
  eth_on,
  ad7794_on,
  netifs,         \* how often netif_add has linked the one struct netif
  macRunning,     \* ETH_Start was called since the MAC was last reset
  chipReady,      \* the ADC holds the set-up of a set-up that succeeded
  asked,          \* history: requests made since they were last served
  due             \* history: those that were in FLAG when this pass began

vars == <<FLAG, stage, cur, reg, left, EthInitStatus, eth_on, ad7794_on,
          netifs, macRunning, chipReady, asked, due>>

Requests == {"INIT_PERIPH", "ETH_RESET", "READ_ADC", "RESET_ADC"}

Stages == {"boot", "check", "load", "store", "serve", "lwip", "net",
           "orLoad", "orStore", "hung"}

TypeOK ==
  /\ FLAG \subseteq Requests
  /\ stage \in Stages
  /\ cur \in Requests
  /\ reg \subseteq Requests
  /\ left \in 0..FrameCmds
  /\ EthInitStatus \in BOOLEAN
  /\ eth_on \in BOOLEAN
  /\ ad7794_on \in BOOLEAN
  /\ netifs \in Nat
  /\ macRunning \in BOOLEAN
  /\ chipReady \in BOOLEAN
  /\ asked \subseteq Requests
  /\ due \subseteq Requests

(***************************************************************************)
(* Power-on, and NVIC_SystemReset: the variables get their C initial       *)
(* values and main starts with Set_System.                                 *)
(***************************************************************************)
Init ==
  /\ FLAG = {}
  /\ stage = "boot"
  /\ cur = "INIT_PERIPH"
  /\ reg = {}
  /\ left = 0
  /\ EthInitStatus = FALSE
  /\ eth_on = FALSE
  /\ ad7794_on = FALSE
  /\ netifs = 0
  /\ macRunning = FALSE
  /\ chipReady = FALSE
  /\ asked = {}
  /\ due = {}

SystemReset ==
  /\ FLAG' = {}
  /\ stage' = "boot"
  /\ cur' = "INIT_PERIPH"
  /\ reg' = {}
  /\ left' = 0
  /\ EthInitStatus' = FALSE
  /\ eth_on' = FALSE
  /\ ad7794_on' = FALSE
  /\ netifs' = 0
  /\ macRunning' = FALSE
  /\ chipReady' = FALSE
  /\ asked' = {}
  /\ due' = {}

(* ETH_BSP_Config: the MAC is reset, so it no longer runs; ETH_Init tells  *)
(* whether the PHY answered.                                               *)
EthBspConfig(res) ==
  /\ EthInitStatus' = (IF res = "hang" THEN EthInitStatus ELSE res = "ok")
  /\ macRunning' = FALSE

Goto(s, r) == stage' = s /\ cur' = r

(* Set_System in main: interrupts are already enabled when it is under way.*)
SetSystem ==
  /\ stage = "boot"
  /\ \E res \in EthResults :
       /\ EthBspConfig(res)
       /\ stage' = IF res = "hang" THEN "hung" ELSE "check"
  /\ due' = FLAG
  /\ UNCHANGED <<FLAG, cur, reg, left, eth_on, ad7794_on, netifs, chipReady,
                 asked>>

(***************************************************************************)
(* The bodies that the main loop calls.                                    *)
(***************************************************************************)

(* Mutant of ETH_LWIP_init: if(!eth_on) is missing. *)
LwipInitAgain ==
  IF EthInitStatus
    THEN netifs' = netifs + 1 /\ macRunning' = TRUE /\ eth_on' = TRUE
    ELSE UNCHANGED <<netifs, macRunning, eth_on>>

(* ETH_LWIP_init: netif_add, ETH_Start in low_level_init, and the listening*)
(* pcb.  tcp_echoserver_init cannot fail after netif_add: memp_init in     *)
(* LwIP_Init has just made the pools (10 pcbs, 6 listening ones), and no   *)
(* pcb was ever bound while eth_on is 0, so tcp_bind finds its port free.  *)
ETH_LWIP_init ==
  IF EthInitStatus /\ ~eth_on
    THEN netifs' = netifs + 1 /\ macRunning' = TRUE /\ eth_on' = TRUE
    ELSE UNCHANGED <<netifs, macRunning, eth_on>>

(* Mutant of ADC_init: ad7794_on = 0 is missing. *)
AdcInitKeepsOn(res) ==
  /\ ad7794_on' = (ad7794_on \/ res = "ok")
  /\ chipReady' = (res = "ok")

(* ADC_init: ad7794_on is cleared first, and set by a set-up that succeeds.*)
ADC_init(res) ==
  /\ ad7794_on' = (res = "ok")
  /\ chipReady' = (res = "ok")

(* Where the loop goes after the if of request r: after the last one to the *)
(* head of the next pass.                                                  *)
After(r) ==
  \/ r = "INIT_PERIPH" /\ Goto("check", "ETH_RESET") /\ UNCHANGED <<left, due>>
  \/ r = "ETH_RESET" /\ Goto("net", "ETH_RESET") /\ left' = FrameCmds
                     /\ UNCHANGED due
  \/ r = "READ_ADC" /\ Goto("check", "RESET_ADC") /\ UNCHANGED <<left, due>>
  \/ r = "RESET_ADC" /\ Goto("check", "INIT_PERIPH") /\ due' = FLAG
                     /\ UNCHANGED left

(* if(ad7794_on) encloses the tests of the two ADC requests. *)
Skipped == cur = "READ_ADC" /\ ~ad7794_on

(* Mutant of Check: the requests are served untested. *)
CheckUntested ==
  /\ stage = "check"
  /\ \/ Skipped /\ After("RESET_ADC")
     \/ ~Skipped /\ Goto("load", cur) /\ UNCHANGED <<left, due>>
  /\ UNCHANGED <<FLAG, reg, EthInitStatus, eth_on, ad7794_on, netifs,
                 macRunning, chipReady, asked>>

(* Mutant of Check: the loop waits for the request instead of going on. *)
CheckWaits ==
  /\ stage = "check"
  /\ \/ Skipped /\ After("RESET_ADC")
     \/ ~Skipped /\ cur \in FLAG /\ Goto("load", cur) /\ UNCHANGED <<left, due>>
  /\ UNCHANGED <<FLAG, reg, EthInitStatus, eth_on, ad7794_on, netifs,
                 macRunning, chipReady, asked>>

Check ==
  /\ stage = "check"
  /\ \/ Skipped /\ After("RESET_ADC")
     \/ ~Skipped /\ cur \in FLAG /\ Goto("load", cur) /\ UNCHANGED <<left, due>>
     \/ ~Skipped /\ cur \notin FLAG /\ After(cur)
  /\ UNCHANGED <<FLAG, reg, EthInitStatus, eth_on, ad7794_on, netifs,
                 macRunning, chipReady, asked>>

(* FLAG ^= bit: load, flip the bit in the register, store. *)
LoadForClear ==
  /\ stage = "load"
  /\ reg' = FLAG
  /\ Goto("store", cur)
  /\ UNCHANGED <<FLAG, left, EthInitStatus, eth_on, ad7794_on, netifs,
                 macRunning, chipReady, asked, due>>

Flip(S, r) == IF r \in S THEN S \ {r} ELSE S \union {r}

(* Mutant of StoreCleared: FLAG = 0 in place of FLAG ^= bit. *)
StoreZero ==
  /\ stage = "store"
  /\ FLAG' = {}
  /\ asked' = asked \ {cur}
  /\ due' = due \ {cur}
  /\ Goto("serve", cur)
  /\ UNCHANGED <<reg, left, EthInitStatus, eth_on, ad7794_on, netifs,
                 macRunning, chipReady>>

StoreCleared ==
  /\ stage = "store"
  /\ FLAG' = Flip(reg, cur)
  /\ asked' = asked \ {cur}
  /\ due' = due \ {cur}
  /\ Goto("serve", cur)
  /\ UNCHANGED <<reg, left, EthInitStatus, eth_on, ad7794_on, netifs,
                 macRunning, chipReady>>

ServeInit ==
  /\ stage = "serve" /\ cur = "INIT_PERIPH"
  /\ ETH_LWIP_init
  /\ \E res \in AdcResults :
       /\ ADC_init(res)
       /\ IF res = "hang" THEN Goto("hung", cur) /\ UNCHANGED <<left, due>>
                          ELSE After(cur)
  /\ UNCHANGED <<FLAG, reg, EthInitStatus, asked>>

ServeEthReset ==
  /\ stage = "serve" /\ cur = "ETH_RESET"
  /\ \E res \in EthResults :
       /\ EthBspConfig(res)
       /\ Goto(IF res = "hang" THEN "hung" ELSE "lwip", cur)
  /\ UNCHANGED <<FLAG, reg, left, eth_on, ad7794_on, netifs, chipReady, asked,
                 due>>

LwipAfterReset ==
  /\ stage = "lwip"
  /\ ETH_LWIP_init
  /\ After("ETH_RESET")
  /\ UNCHANGED <<FLAG, reg, EthInitStatus, ad7794_on, chipReady, asked>>

ServeReadAdc ==
  /\ stage = "serve" /\ cur = "READ_ADC"
  /\ \E res \in AdcResults :
       IF res = "hang" THEN Goto("hung", cur) /\ UNCHANGED <<left, due>>
                       ELSE After(cur)
  /\ UNCHANGED <<FLAG, reg, EthInitStatus, eth_on, ad7794_on, netifs,
                 macRunning, chipReady, asked>>

(* reset_AD7794 drops the set-up of the chip, then ADC_init tries again. *)
ServeResetAdc ==
  /\ stage = "serve" /\ cur = "RESET_ADC"
  /\ \E res \in AdcResults :
       /\ ADC_init(res)
       /\ IF res = "hang" THEN Goto("hung", cur) /\ UNCHANGED <<left, due>>
                          ELSE After(cur)
  /\ UNCHANGED <<FLAG, reg, EthInitStatus, eth_on, netifs, macRunning, asked>>

(***************************************************************************)
(* if(eth_on): LwIP_Pkt_Handle and LwIP_Periodic_Handle, whose callbacks   *)
(* parse the commands received over TCP in the main context.               *)
(***************************************************************************)
NetDone ==
  /\ stage = "net"
  /\ Goto("check", "READ_ADC")
  /\ UNCHANGED <<FLAG, reg, left, EthInitStatus, eth_on, ad7794_on, netifs,
                 macRunning, chipReady, asked, due>>

TcpRequest(r) ==
  /\ stage = "net"
  /\ eth_on
  /\ left > 0
  /\ left' = left - 1
  /\ Goto("orLoad", r)
  /\ UNCHANGED <<FLAG, reg, EthInitStatus, eth_on, ad7794_on, netifs,
                 macRunning, chipReady, asked, due>>

(* FLAG |= bit in the main context. *)
LoadForSet ==
  /\ stage = "orLoad"
  /\ reg' = FLAG
  /\ Goto("orStore", cur)
  /\ UNCHANGED <<FLAG, left, EthInitStatus, eth_on, ad7794_on, netifs,
                 macRunning, chipReady, asked, due>>

StoreSet ==
  /\ stage = "orStore"
  /\ FLAG' = reg \union {cur}
  /\ asked' = asked \union {cur}
  /\ Goto("net", cur)
  /\ UNCHANGED <<reg, left, EthInitStatus, eth_on, ad7794_on, netifs,
                 macRunning, chipReady, due>>

TcpSystemReset ==
  /\ stage = "net"
  /\ eth_on
  /\ left > 0
  /\ SystemReset

(***************************************************************************)
(* Interrupts.  They run at any point of the main loop, also while it is   *)
(* stuck in a busy wait.                                                   *)
(***************************************************************************)
UsbRequest(r) ==
  /\ FLAG' = FLAG \union {r}
  /\ asked' = asked \union {r}
  /\ UNCHANGED <<stage, cur, reg, left, EthInitStatus, eth_on, ad7794_on,
                 netifs, macRunning, chipReady, due>>

UsbSystemReset == stage # "boot" /\ SystemReset

(* OTG_FS_WKUP_IRQHandler calls Set_System again, Ethernet included. *)
Wakeup ==
  /\ stage # "boot"
  /\ \E res \in EthResults \ {"hang"} : EthBspConfig(res)
  /\ UNCHANGED <<FLAG, stage, cur, reg, left, eth_on, ad7794_on, netifs,
                 chipReady, asked, due>>

MainStep ==
  \/ SetSystem \/ Check \/ LoadForClear \/ StoreCleared
  \/ ServeInit \/ ServeEthReset \/ LwipAfterReset \/ ServeReadAdc
  \/ ServeResetAdc \/ NetDone \/ LoadForSet \/ StoreSet
  \/ \E r \in Requests : TcpRequest(r)
  \/ TcpSystemReset

Interrupt ==
  \/ \E r \in Requests : UsbRequest(r)
  \/ UsbSystemReset
  \/ Wakeup

Next == MainStep \/ Interrupt

Spec == Init /\ [][Next]_vars

(* The processor returns to the main loop after every interrupt. *)
FairSpec == Spec /\ WF_vars(MainStep)

-----------------------------------------------------------------------------
(* Properties. *)

Rebooted == stage = "boot"
Hung == stage = "hung"
ServingOf(r) == stage = "serve" /\ cur = r

(* No spurious service: a request is served only if it was made since it   *)
(* was last served.  The bits are cleared with XOR, which would SET a bit  *)
(* that is 0, so this rests on the bit still being 1 when the register is  *)
(* flipped, and on no stale register ever resurrecting a served bit, over  *)
(* the if(FLAG & X){FLAG ^= X; ...} of main and every |= of the parser.    *)
NoSpuriousService ==
  [][\A r \in Requests : ~ServingOf(r) /\ ServingOf(r)' => r \in asked]_vars

(* The same at every moment: a bit of FLAG that is 1 stands for a request  *)
(* that was made and is not yet served.                                    *)
FlagWasAsked == FLAG \subseteq asked

(* While the main loop holds FLAG in a register, the register can only be  *)
(* behind the interrupts (a bit it lacks), never ahead of them; and the    *)
(* bit it is about to flip is 1 both in FLAG and in the register.          *)
RegisterBehind ==
  /\ stage \in {"store", "orStore"} => reg \subseteq FLAG
  /\ stage \in {"load", "store"} => cur \in FLAG
  /\ stage = "store" => cur \in reg

(* netif_add pushes the one static struct netif on netif_list; a second    *)
(* time would make the list a loop.  However 'p' and 'e' are interleaved,  *)
(* and whatever the PHY answers, it happens at most once per boot, and     *)
(* eth_on says that it has.                                                *)
NetifOnce == netifs = (IF eth_on THEN 1 ELSE 0)

(* read_AD7794 is called only while the chip holds the set-up of a         *)
(* successful setup_AD7794: not between reset_AD7794 and a new set-up, and *)
(* not after one that failed, though the READ_ADC bit may wait in FLAG all *)
(* that time.                                                              *)
ReadsConfiguredChip == ServingOf("READ_ADC") => chipReady

(* What 'e' leaves behind: once the MAC was reset under a running stack    *)
(* (ETH_RESET or the wake-up interrupt), nothing but a reboot starts it    *)
(* again, because ETH_LWIP_init does nothing when eth_on is set.           *)
ResetEthStaysDown ==
  [][eth_on /\ ~macRunning => ~macRunning']_vars

AtHead == stage = "check" /\ cur = "INIT_PERIPH"
PassEnds == stage # "boot" /\ ~AtHead /\ AtHead'

(* A request that is in FLAG when the main loop begins a pass is served in *)
(* this very pass: no store of the main loop, in the clearing or in the    *)
(* setting of another bit, takes it away before its turn.  The requests of *)
(* the ADC wait only if the ADC is off when their turn comes (the loop     *)
(* goes on from its READ_ADC then), and if it is on both are served, the   *)
(* reset too, though the set-up that follows it may fail.                  *)
PassServes ==
  [][PassEnds => /\ due \subseteq {"READ_ADC", "RESET_ADC"}
                 /\ cur = "RESET_ADC" => due = {}]_vars

(* The main loop comes round for ever unless the device is rebooted or a   *)
(* call never returns: no interleaving of requests traps it.               *)
LoopGoesOn == []<>(Rebooted \/ Hung \/ (stage = "check" /\ cur = "READ_ADC"))

=============================================================================
