------------------------------- MODULE Timers -------------------------------
(***************************************************************************)
(* The passes of the main loop against the clock: the LED that is toggled  *)
(* when LocalTime has reached nxt_LED_swch, the timers of                  *)
(* LwIP_Periodic_Handle, and the writes to the SPI of SpiDma.  LocalTime   *)
(* wraps; the LED compares two times, the timers of lwIP a difference.     *)
(***************************************************************************)
EXTENDS SpiDma

CONSTANTS
  Delays,     \* what LED_delay may be when the LED is toggled; with the 0 of
              \* LedDelay it would be toggled in every pass
  NetTimers,  \* TCPTimer and ARPTimer
  Interval,   \* TCP_TMR_INTERVAL and ARP_TMR_INTERVAL
  MaxPass     \* the most ticks between two toggle tests, a pass that hangs aside

ASSUME TimersAssumption ==
  /\ Delays \subseteq Nat \ {0}
  /\ \A delay \in Delays : delay + MaxPass < Word
  /\ Interval \in [NetTimers -> Nat]
  /\ \A t \in NetTimers : Interval[t] > 0 /\ Interval[t] + 2 * MaxPass < Word
  /\ MaxPass \in Nat

VARIABLES
  nxt_LED_swch,
  netTimer,     \* TCPTimer, ARPTimer
  eth_on,
  loopAt,       \* where the main loop is
  ticks,        \* of the clock in this pass
  ledAge,       \* history: ticks since the LED was toggled, at most 2 * Word
  ledDelay,     \* history: the delay that was added then
  over,         \* history: that sum wrapped
  frozen,       \* history: it did not, but the clock has
  netAge,       \* history: ticks since the timer was set, at most Word
  set           \* history: the timers that were set by the loop

loop == <<nxt_LED_swch, netTimer, eth_on, loopAt>>
ledHistory == <<ledAge, ledDelay, over, frozen>>
netHistory == <<netAge, set>>
timersVars == <<vars, loop, ticks, ledHistory, netHistory>>

TimersTypeOK ==
  /\ nxt_LED_swch \in 0..Word-1
  /\ netTimer \in [NetTimers -> 0..Word-1]
  /\ eth_on \in BOOLEAN
  /\ loopAt \in {"led", "net", "adc"}
  /\ ticks \in 0..MaxPass
  /\ ledAge \in 0..2*Word
  /\ ledDelay \in Delays
  /\ over \in BOOLEAN /\ frozen \in BOOLEAN
  /\ netAge \in [NetTimers -> 0..Word]
  /\ set \subseteq NetTimers

TimersInit ==
  /\ Init
  /\ netTimer = [t \in NetTimers |-> 0]
  /\ eth_on = FALSE
  /\ loopAt = "led"
  /\ ticks = 0
  /\ ledAge = 0
  /\ ledDelay \in Delays
  /\ nxt_LED_swch = ledDelay
  /\ over = FALSE /\ frozen = FALSE
  /\ netAge = [t \in NetTimers |-> 0]
  /\ set = {}

-----------------------------------------------------------------------------
Capped(n, cap) == IF n < cap THEN n + 1 ELSE cap

Tick ==
  /\ ticks < MaxPass
  /\ SysTick
  /\ ticks' = ticks + 1
  /\ ledAge' = Capped(ledAge, 2 * Word)
  /\ netAge' = [t \in NetTimers |-> Capped(netAge[t], Word)]
  /\ frozen' = (frozen \/ (~over /\ LocalTime' = 0))
  /\ UNCHANGED <<loop, ledDelay, over, set>>

LedDue == nxt_LED_swch <= LocalTime

(* Mutant of NextSwitch: the delay counts from the time it was due. *)
NextSwitchFromDue(delay) == (nxt_LED_swch + delay) % Word

NextSwitch(delay) == (LocalTime + delay) % Word

(* The head of the loop: a new pass. *)
Led ==
  /\ loopAt = "led"
  /\ loopAt' = "net"
  /\ ticks' = 0
  /\ \/ ~LedDue /\ UNCHANGED <<nxt_LED_swch, ledHistory>>
     \/ /\ LedDue
        /\ ledDelay' \in Delays
        /\ nxt_LED_swch' = NextSwitch(ledDelay')
        /\ ledAge' = 0
        /\ over' = (LocalTime + ledDelay' >= Word)
        /\ frozen' = FALSE
  /\ UNCHANGED <<vars, netTimer, eth_on, netHistory>>

(* ETH_LWIP_init at any time; LwIP_Periodic_Handle from then on. *)
EthOn ==
  /\ loopAt = "net"
  /\ eth_on' = TRUE
  /\ UNCHANGED <<vars, nxt_LED_swch, netTimer, loopAt, ticks, ledHistory,
                 netHistory>>

(* Mutant of Expired: the time when the timer is due is compared. *)
ExpiredAt(t) == netTimer[t] + Interval[t] <= LocalTime

Expired(t) == (LocalTime + Word - netTimer[t]) % Word >= Interval[t]

LwIP_Periodic_Handle ==
  /\ loopAt = "net"
  /\ loopAt' = "adc"
  /\ LET expired == IF eth_on THEN {t \in NetTimers : Expired(t)} ELSE {}
     IN  /\ netTimer' = [t \in NetTimers |->
                           IF t \in expired THEN LocalTime ELSE netTimer[t]]
         /\ netAge' = [t \in NetTimers |->
                         IF t \in expired THEN 0 ELSE netAge[t]]
         /\ set' = set \union expired
  /\ UNCHANGED <<vars, nxt_LED_swch, eth_on, ticks, ledHistory>>

(* The ADC: any number of writes to the SPI. *)
Adc ==
  /\ loopAt = "adc"
  /\ Call \/ Leave
  /\ UNCHANGED <<loop, ticks, ledHistory, netHistory>>

AdcDone ==
  /\ loopAt = "adc"
  /\ pc = "idle"
  /\ loopAt' = "led"
  /\ UNCHANGED <<vars, nxt_LED_swch, netTimer, eth_on, ticks, ledHistory,
                 netHistory>>

DmaInterrupt ==
  /\ SPIx_DMA_TX_IRQHandler
  /\ UNCHANGED <<loop, ticks, ledHistory, netHistory>>

TimersNext ==
  Tick \/ Led \/ EthOn \/ LwIP_Periodic_Handle \/ Adc \/ AdcDone \/ DmaInterrupt

TimersSpec == TimersInit /\ [][TimersNext]_timersVars

-----------------------------------------------------------------------------
(* Properties. *)

(* The LED is toggled in the pass in which its delay has run out, unless   *)
(* the clock wrapped while it waited for a time before the wrap: then it   *)
(* stands still for a whole period of the counter, 49.7 days.              *)
LedNotLate == ledAge < ledDelay + MaxPass \/ frozen

(* It is toggled before its delay has run out only while the time it waits *)
(* for lies behind a wrap that is to come; then in every pass.             *)
LedNotEarly ==
  [][Led /\ LedDue => ledAge >= ledDelay \/ over]_timersVars

(* The two together: only a wrap of the clock within the delay makes the   *)
(* LED late, and only one to come makes it early.                          *)
LedOnTime == []LedNotLate /\ LedNotEarly

(* tcp_tmr and etharp_tmr are due once their interval has passed and not   *)
(* before, across every wrap of the clock; and they are late by less than  *)
(* two passes, the one that looked too early and the one that looks late.  *)
NetTimersPunctual == \A t \in set :
  /\ Expired(t) <=> netAge[t] >= Interval[t]
  /\ netAge[t] < Interval[t] + 2 * MaxPass

=============================================================================
