---------------------------- MODULE TimersProofs ----------------------------
(***************************************************************************)
(* Proofs about Timers and SpiDma, for every range of the clock, every     *)
(* timeout, delay and interval, and every bound on the length of a pass.   *)
(***************************************************************************)
EXTENDS Timers, TLAPS

(* Sums of two times of the clock, reduced to its range.                   *)
LEMMA Reduced ==
  ASSUME NEW n \in Nat \ {0}, NEW a \in 0..n-1
  PROVE  a % n = a /\ (a + n) % n = a
BY SMT

LEMMA WordIsPositive == Word \in Nat \ {0}
BY RangeAssumption DEF RangeAssumption

LEMMA TickedIs ==
  ASSUME NEW t \in 0..Word-1
  PROVE  Ticked(t) = IF t = Word - 1 THEN 0 ELSE t + 1
<1>1. CASE t = Word - 1
  <2>1. t + 1 = 0 + Word
    BY <1>1, WordIsPositive
  <2>2. 0 \in 0..Word-1
    BY WordIsPositive
  <2>3. (0 + Word) % Word = 0
    BY <2>2, Reduced, WordIsPositive
  <2>4. QED
    BY <1>1, <2>1, <2>3 DEF Ticked
<1>2. CASE t # Word - 1
  <2>1. t + 1 \in 0..Word-1
    BY <1>2, WordIsPositive
  <2>2. QED
    BY <1>2, <2>1, Reduced, WordIsPositive DEF Ticked
<1>3. QED
  BY <1>1, <1>2

LEMMA SumIs ==
  ASSUME NEW t \in 0..Word-1, NEW delay \in 0..Word-1
  PROVE  (t + delay) % Word = IF t + delay < Word THEN t + delay
                                                  ELSE t + delay - Word
<1>1. CASE t + delay < Word
  BY <1>1, Reduced, WordIsPositive
<1>2. CASE t + delay >= Word
  <2>1. /\ t + delay - Word \in 0..Word-1
        /\ t + delay = (t + delay - Word) + Word
    BY <1>2, WordIsPositive
  <2>2. QED
    BY <1>2, <2>1, Reduced, WordIsPositive
<1>3. QED
  BY <1>1, <1>2, WordIsPositive

-----------------------------------------------------------------------------
(* SpiDma: its type invariant, and that no write is ever accepted.  The    *)
(* flag is 1 from the start, only an accepted write clears it, and a write *)
(* is accepted only while it is 0.                                         *)
NothingAccepted == SPI_EOT_FLAG = 1 /\ returned # "accepted"

LEMMA SpiStep == TypeOK /\ NothingAccepted /\ [Next]_vars
                   => TypeOK' /\ NothingAccepted'
<1> SUFFICES ASSUME TypeOK, NothingAccepted, [Next]_vars
             PROVE  TypeOK' /\ NothingAccepted'
  OBVIOUS
<1> USE RangeAssumption DEF RangeAssumption, TypeOK, NothingAccepted
<1>1. CASE SysTick
  BY <1>1, TickedIs DEF SysTick
<1>2. CASE SPIx_DMA_TX_IRQHandler
  BY <1>2 DEF SPIx_DMA_TX_IRQHandler
<1>3. CASE Call
  <2>1. (LocalTime + Timeout) % Word \in 0..Word-1
    BY SumIs
  <2>2. QED
    BY <1>3, <2>1 DEF Call
<1>4. CASE Leave
  BY <1>4 DEF Leave
<1>5. CASE UNCHANGED vars
  BY <1>5 DEF vars
<1>6. QED
  BY <1>1, <1>2, <1>3, <1>4, <1>5 DEF Next

LEMMA SpiInit == Init => TypeOK /\ NothingAccepted
BY RangeAssumption DEF Init, TypeOK, NothingAccepted, RangeAssumption

(* WriteReturnsAsDocumented is not violated now and then: write_SPI refuses*)
(* every call for ever, with or without the DMA interrupt, for every       *)
(* timeout and range of the clock; setup_AD7794 can never succeed.         *)
THEOREM WritesAreRefused == Spec => []NothingAccepted
<1>1. TypeOK /\ NothingAccepted /\ [Next]_vars => (TypeOK /\ NothingAccepted)'
  BY SpiStep
<1>2. QED
  BY SpiInit, <1>1, PTL DEF Spec

(* The types of write_SPI, its flag and its deadline.                      *)
THEOREM SpiTypeCorrect == Spec => []TypeOK
<1>1. TypeOK /\ NothingAccepted /\ [Next]_vars => (TypeOK /\ NothingAccepted)'
  BY SpiStep
<1>2. QED
  BY SpiInit, <1>1, PTL DEF Spec

-----------------------------------------------------------------------------
(* Timers.  Each of its actions is a step of SpiDma or leaves it alone.    *)
LEMMA SpiAlong == [TimersNext]_timersVars => [Next]_vars
BY DEF TimersNext, timersVars, Next, Tick, Led, EthOn, LwIP_Periodic_Handle,
       Adc, AdcDone, DmaInterrupt

LoopTyped ==
  /\ loopAt \in {"led", "net", "adc"}
  /\ ticks \in 0..MaxPass

(* What the age of the LED's state has to do with the two times that are   *)
(* compared.  Unless a wrap froze it, it is at most one pass too old for   *)
(* its delay; and the times are as far apart as the age says, but for the  *)
(* wrap that a sum over the end of the counter still has before it.        *)
LedInvAt(next, age, delay, wraps, stands, now, passed) ==
  /\ next \in 0..Word-1
  /\ age \in Nat /\ delay \in Delays
  /\ ~stands => age < delay + passed
  /\ stands => age >= delay /\ ~wraps
  /\ ~stands /\ ~wraps => next + age = now + delay
  /\ wraps => /\ next < delay
              /\ \/ next + Word + age = now + delay
                 \/ next + age = now + delay

LedInv ==
  LedInvAt(nxt_LED_swch, ledAge, ledDelay, over, frozen, LocalTime, ticks)

LInv == TypeOK /\ LoopTyped /\ LedInv

LEMMA LedTick == LInv /\ Tick => LedInv'
<1> SUFFICES ASSUME LInv, Tick PROVE LedInv'
  OBVIOUS
<1> USE TimersAssumption DEF TimersAssumption, LInv, LedInv, LedInvAt, LoopTyped, TypeOK
<1>1. LocalTime' = IF LocalTime = Word - 1 THEN 0 ELSE LocalTime + 1
  BY TickedIs DEF Tick, SysTick
<1>2. /\ ledDelay \in Nat \ {0}
      /\ ledDelay + MaxPass < Word
      /\ Word \in Nat /\ MaxPass \in Nat
  BY RangeAssumption DEF RangeAssumption
<1>3. /\ ticks < MaxPass /\ ticks' = ticks + 1
      /\ ledAge' = Capped(ledAge, 2 * Word)
      /\ frozen' = (frozen \/ (~over /\ LocalTime' = 0))
      /\ UNCHANGED <<nxt_LED_swch, ledDelay, over>>
  BY DEF Tick, loop
<1>4. CASE frozen
  <2>1. ledAge' \in Nat /\ ledAge' >= ledDelay
    BY <1>2, <1>3, <1>4 DEF Capped
  <2>2. frozen' = TRUE /\ ~over'
    BY <1>3, <1>4
  <2>3. nxt_LED_swch' \in 0..Word-1 /\ ledDelay' \in Delays
    BY <1>3
  <2>4. ledAge' >= ledDelay'
    BY <1>3, <2>1
  <2>5. QED
    BY <2>1, <2>2, <2>3, <2>4
<1>5. CASE ~frozen /\ LocalTime' = 0
  <2>1. ledAge' = ledAge + 1
    BY <1>2, <1>3, <1>5 DEF Capped
  <2>2. LocalTime = Word - 1
    BY <1>1, <1>2, <1>5
  <2>3. CASE over
    <3>1. nxt_LED_swch + Word + ledAge = LocalTime + ledDelay
      BY <1>2, <1>3, <1>5, <2>2, <2>3
    <3>2. frozen' = FALSE
      BY <1>3, <1>5, <2>3
    <3>3. QED
      BY <1>2, <1>3, <1>5, <2>1, <2>2, <2>3, <3>1, <3>2
  <2>4. CASE ~over
    <3>1. frozen' = TRUE
      BY <1>3, <1>5, <2>4
    <3>2. ledAge + 1 >= ledDelay
      BY <1>2, <1>5, <2>2, <2>4
    <3>3. QED
      BY <1>2, <1>3, <2>1, <2>4, <3>1, <3>2
  <2>5. QED
    BY <2>3, <2>4
<1>6. CASE ~frozen /\ LocalTime' # 0
  <2>1. /\ ledAge' = ledAge + 1
        /\ LocalTime' = LocalTime + 1
    BY <1>1, <1>2, <1>3, <1>6 DEF Capped
  <2>2. ~frozen'
    BY <1>3, <1>6
  <2>3. QED
    BY <1>2, <1>3, <1>6, <2>1, <2>2
<1>7. QED
  BY <1>4, <1>5, <1>6

(* The state that toggling the LED leaves, with any delay.                 *)
LEMMA AfterToggle ==
  ASSUME NEW delay \in Delays, NEW now \in 0..Word-1
  PROVE  LedInvAt((now + delay) % Word, 0, delay, now + delay >= Word, FALSE,
                  now, 0)
<1>1. delay \in 0..Word-1 /\ delay > 0
  BY WordIsPositive, TimersAssumption DEF TimersAssumption
<1>2. (now + delay) % Word = IF now + delay < Word THEN now + delay
                                                   ELSE now + delay - Word
  BY <1>1, SumIs
<1>3. QED
  BY <1>1, <1>2, WordIsPositive DEF LedInvAt

LEMMA LedLed == LInv /\ Led => LedInv'
<1> SUFFICES ASSUME LInv, Led PROVE LedInv'
  OBVIOUS
<1>1. /\ Word \in Nat \ {0} /\ LocalTime \in 0..Word-1
      /\ ticks \in 0..MaxPass /\ MaxPass \in Nat
  BY WordIsPositive, TimersAssumption
  DEF TimersAssumption, LInv, TypeOK, LoopTyped
<1>2. LocalTime' = LocalTime /\ ticks' = 0
  BY DEF Led, vars
<1>3. CASE ~LedDue /\ UNCHANGED <<nxt_LED_swch, ledHistory>>
  <2>1. /\ nxt_LED_swch > LocalTime
        /\ UNCHANGED <<nxt_LED_swch, ledAge, ledDelay, over, frozen>>
    BY <1>1, <1>3 DEF LedDue, ledHistory, LInv, LedInv, LedInvAt
  <2>2. ledDelay \in Nat \ {0} /\ ledDelay + MaxPass < Word
    BY TimersAssumption DEF TimersAssumption, LInv, LedInv, LedInvAt
  <2>3. ~frozen => ledAge < ledDelay
    BY <1>1, <2>1, <2>2 DEF LInv, LedInv, LedInvAt
  <2>4. QED
    BY <1>1, <1>2, <2>1, <2>2, <2>3 DEF LInv, LedInv, LedInvAt
<1>4. CASE LedDue /\ ~(~LedDue /\ UNCHANGED <<nxt_LED_swch, ledHistory>>)
  <2>1. /\ ledDelay' \in Delays /\ ledAge' = 0 /\ frozen' = FALSE
        /\ nxt_LED_swch' = (LocalTime + ledDelay') % Word
        /\ over' = (LocalTime + ledDelay' >= Word)
    BY <1>4 DEF Led, NextSwitch
  <2>2. LedInvAt((LocalTime + ledDelay') % Word, 0, ledDelay',
                 LocalTime + ledDelay' >= Word, FALSE, LocalTime, 0)
    BY <1>1, <2>1, AfterToggle
  <2>3. QED
    BY <1>2, <2>1, <2>2 DEF LedInv
<1>5. QED
  BY <1>3, <1>4 DEF Led

LEMMA LedStep == LInv /\ [TimersNext]_timersVars => (LoopTyped /\ LedInv)'
<1> SUFFICES ASSUME LInv, [TimersNext]_timersVars PROVE (LoopTyped /\ LedInv)'
  OBVIOUS
<1> USE TimersAssumption DEF TimersAssumption
<1>1. CASE Tick
  <2>1. LoopTyped'
    BY <1>1 DEF Tick, loop, LInv, LoopTyped
  <2>2. QED
    BY <1>1, <2>1, LedTick
<1>2. CASE Led
  <2>1. LoopTyped'
    BY <1>2 DEF Led, LInv, LoopTyped
  <2>2. QED
    BY <1>2, <2>1, LedLed
<1>3. CASE UNCHANGED <<nxt_LED_swch, ledHistory, ticks, LocalTime>>
           /\ loopAt' \in {"led", "net", "adc"}
  BY <1>3 DEF LInv, LoopTyped, LedInv, LedInvAt, ledHistory
<1>4. ASSUME EthOn \/ LwIP_Periodic_Handle \/ AdcDone
      PROVE  UNCHANGED <<nxt_LED_swch, ledHistory, ticks, LocalTime>>
             /\ loopAt' \in {"led", "net", "adc"}
  BY <1>4 DEF EthOn, LwIP_Periodic_Handle, AdcDone, vars, LInv, LoopTyped
<1>5. ASSUME Adc \/ DmaInterrupt \/ UNCHANGED timersVars
      PROVE  UNCHANGED <<nxt_LED_swch, ledHistory, ticks, LocalTime>>
             /\ loopAt' \in {"led", "net", "adc"}
  BY <1>5 DEF Adc, DmaInterrupt, Call, Leave, SPIx_DMA_TX_IRQHandler,
              timersVars, vars, loop, LInv, LoopTyped
<1>6. QED
  BY <1>1, <1>2, <1>3, <1>4, <1>5 DEF TimersNext

LEMMA LInvHolds == TimersSpec => [](LInv /\ NothingAccepted)
<1>1. TimersInit => LInv /\ NothingAccepted
  <2> SUFFICES ASSUME TimersInit PROVE LInv /\ NothingAccepted
    OBVIOUS
  <2>1. TypeOK /\ NothingAccepted
    BY SpiInit DEF TimersInit
  <2>2. LoopTyped
    BY TimersAssumption DEF TimersInit, LoopTyped, TimersAssumption
  <2>3. LedInv
    BY <2>1, TimersAssumption, RangeAssumption
    DEF TimersInit, Init, LedInv, LedInvAt, TimersAssumption, RangeAssumption
  <2>4. QED
    BY <2>1, <2>2, <2>3 DEF LInv
<1>2. LInv /\ NothingAccepted /\ [TimersNext]_timersVars
        => (LInv /\ NothingAccepted)'
  BY SpiAlong, SpiStep, LedStep DEF LInv
<1>3. QED
  BY <1>1, <1>2, PTL DEF TimersSpec

(* The LED is late by less than a pass, unless a wrap froze it; for every  *)
(* delay and every length of a pass that are short against the clock.      *)
LEMMA LedIsNotLate == TimersSpec => []LedNotLate
<1>1. LInv => LedNotLate
  <2> SUFFICES ASSUME LInv, ~frozen PROVE ledAge < ledDelay + MaxPass
    BY DEF LedNotLate
  <2>1. ledDelay \in Nat /\ MaxPass \in Nat
    BY TimersAssumption DEF TimersAssumption, LInv, LedInv, LedInvAt
  <2>2. QED
    BY <2>1 DEF LInv, LedInv, LedInvAt, LoopTyped
<1>2. QED
  BY <1>1, LInvHolds, PTL

(* It is early only while its time lies behind a wrap.                     *)
LEMMA LedIsNotEarly == TimersSpec => LedNotEarly
<1>1. LInv /\ [TimersNext]_timersVars
        => [Led /\ LedDue => ledAge >= ledDelay \/ over]_timersVars
  <2> SUFFICES ASSUME LInv, LedDue, ~over, ~frozen PROVE ledAge >= ledDelay
    BY DEF LInv, LedInv, LedInvAt
  <2>1. ledDelay \in Nat
    BY TimersAssumption DEF TimersAssumption, LInv, LedInv, LedInvAt
  <2>2. QED
    BY <2>1 DEF LInv, LedInv, LedInvAt, LedDue, TypeOK
<1>2. QED
  BY <1>1, LInvHolds, PTL DEF TimersSpec, LedNotEarly

(* Both: what the LED does wrong, it does around a wrap of the clock.      *)
THEOREM LedIsOnTime == TimersSpec => LedOnTime
BY LedIsNotLate, LedIsNotEarly, PTL DEF LedOnTime


-----------------------------------------------------------------------------
(* What the age of a timer has to do with the time it was set at: the      *)
(* clock has wrapped at most once since, and it is late by the passes that *)
(* lie between two looks at it.                                            *)
NetInvAt(timer, age, interval, now, at, passed) ==
  /\ timer + age = now \/ timer + age = now + Word
  /\ age < interval + (IF at = "net" THEN MaxPass ELSE 0) + passed

NetTyped ==
  /\ netTimer \in [NetTimers -> 0..Word-1]
  /\ netAge \in [NetTimers -> 0..Word]
  /\ eth_on \in BOOLEAN
  /\ set \subseteq NetTimers

NetInv ==
  /\ NetTyped
  /\ set # {} => eth_on
  /\ \A t \in set : NetInvAt(netTimer[t], netAge[t], Interval[t],
                             LocalTime, loopAt, ticks)

LEMMA IntervalIsShort ==
  ASSUME NEW t \in NetTimers
  PROVE  /\ Interval[t] \in Nat \ {0} /\ MaxPass \in Nat
         /\ Interval[t] + 2 * MaxPass < Word
BY TimersAssumption DEF TimersAssumption

LEMMA CappedIs ==
  ASSUME NEW age \in 0..Word
  PROVE  /\ Capped(age, Word) \in 0..Word
         /\ age < Word => Capped(age, Word) = age + 1
BY WordIsPositive DEF Capped

LEMMA NetTick ==
  ASSUME NEW timer \in 0..Word-1, NEW age \in 0..Word,
         NEW interval \in Nat, NEW now \in 0..Word-1, NEW at,
         NEW passed \in Nat, passed < MaxPass, MaxPass \in Nat,
         interval + 2 * MaxPass < Word,
         NetInvAt(timer, age, interval, now, at, passed)
  PROVE  NetInvAt(timer, Capped(age, Word), interval, Ticked(now), at,
                  passed + 1)
<1>1. age < Word
  BY WordIsPositive DEF NetInvAt
<1>2. Capped(age, Word) = age + 1
  BY <1>1, CappedIs
<1>3. Ticked(now) = IF now = Word - 1 THEN 0 ELSE now + 1
  BY TickedIs
<1>4. age + 1 < interval + (IF at = "net" THEN MaxPass ELSE 0) + (passed + 1)
  BY DEF NetInvAt
<1>5. timer + (age + 1) = Ticked(now) \/ timer + (age + 1) = Ticked(now) + Word
  BY <1>1, <1>3, WordIsPositive DEF NetInvAt
<1>6. QED
  BY <1>2, <1>4, <1>5 DEF NetInvAt

(* The difference that is compared is the age.                             *)
LEMMA ExpiredIs ==
  ASSUME NEW timer \in 0..Word-1, NEW age \in 0..Word-1, NEW now \in 0..Word-1,
         timer + age = now \/ timer + age = now + Word
  PROVE  (now + Word - timer) % Word = age
<1>1. now + Word - timer = age \/ now + Word - timer = age + Word
  BY WordIsPositive
<1>2. QED
  BY <1>1, Reduced, WordIsPositive

LEMMA AgeIsShort ==
  ASSUME LInv, NetInv, NEW t \in set
  PROVE  /\ t \in NetTimers /\ netAge[t] < Interval[t] + 2 * MaxPass
         /\ netAge[t] \in 0..Word-1
<1>1. /\ t \in NetTimers /\ netAge[t] \in 0..Word
      /\ NetInvAt(netTimer[t], netAge[t], Interval[t], LocalTime, loopAt, ticks)
      /\ ticks \in 0..MaxPass /\ Word \in Nat
  BY WordIsPositive DEF NetInv, NetTyped, LInv, LoopTyped
<1>2. netAge[t] < Interval[t] + 2 * MaxPass
  BY <1>1, IntervalIsShort DEF NetInvAt
<1>3. QED
  BY <1>1, <1>2, IntervalIsShort

LEMMA Punctual == LInv /\ NetInv => NetTimersPunctual
<1> SUFFICES ASSUME LInv, NetInv, NEW t \in set
             PROVE  /\ Expired(t) <=> netAge[t] >= Interval[t]
                    /\ netAge[t] < Interval[t] + 2 * MaxPass
  BY DEF NetTimersPunctual
<1>1. /\ netTimer[t] \in 0..Word-1 /\ netAge[t] \in 0..Word-1
      /\ LocalTime \in 0..Word-1
      /\ netAge[t] < Interval[t] + 2 * MaxPass
  BY AgeIsShort DEF NetInv, NetTyped, LInv, TypeOK
<1>2. \/ netTimer[t] + netAge[t] = LocalTime
      \/ netTimer[t] + netAge[t] = LocalTime + Word
  BY DEF NetInv, NetInvAt
<1>3. (LocalTime + Word - netTimer[t]) % Word = netAge[t]
  BY <1>1, <1>2, ExpiredIs
<1>4. QED
  BY <1>1, <1>3 DEF Expired

LEMMA NetTickStep == LInv /\ NetInv /\ Tick => NetInv'
<1> SUFFICES ASSUME LInv, NetInv, Tick PROVE NetInv'
  OBVIOUS
<1>1. /\ ticks < MaxPass /\ ticks \in Nat /\ ticks' = ticks + 1
      /\ LocalTime \in 0..Word-1 /\ LocalTime' = Ticked(LocalTime)
      /\ netAge' = [t \in NetTimers |-> Capped(netAge[t], Word)]
      /\ UNCHANGED <<netTimer, eth_on, loopAt, set>>
  BY TimersAssumption DEF Tick, SysTick, loop, LInv, TypeOK, LoopTyped,
     TimersAssumption
<1>2. NetTyped'
  BY <1>1, CappedIs DEF NetInv, NetTyped
<1>3. ASSUME NEW t \in set
      PROVE  NetInvAt(netTimer[t], netAge'[t], Interval[t],
                      LocalTime', loopAt, ticks')
  <2>1. /\ t \in NetTimers /\ netTimer[t] \in 0..Word-1
        /\ netAge[t] \in 0..Word /\ netAge'[t] = Capped(netAge[t], Word)
    BY <1>1 DEF NetInv, NetTyped
  <2>2. NetInvAt(netTimer[t], netAge[t], Interval[t], LocalTime, loopAt, ticks)
    BY DEF NetInv
  <2>3. Interval[t] \in Nat /\ MaxPass \in Nat
        /\ Interval[t] + 2 * MaxPass < Word
    BY <2>1, IntervalIsShort
  <2>4. NetInvAt(netTimer[t], Capped(netAge[t], Word), Interval[t],
                 Ticked(LocalTime), loopAt, ticks + 1)
    BY <1>1, <2>1, <2>2, <2>3, NetTick
  <2>5. QED
    BY <1>1, <2>1, <2>4
<1>4. QED
  BY <1>1, <1>2, <1>3 DEF NetInv

LEMMA NetPeriodic == LInv /\ NetInv /\ LwIP_Periodic_Handle => NetInv'
<1> SUFFICES ASSUME LInv, NetInv, LwIP_Periodic_Handle PROVE NetInv'
  OBVIOUS
<1> DEFINE expired == IF eth_on THEN {t \in NetTimers : Expired(t)} ELSE {}
<1>1. /\ loopAt = "net" /\ loopAt' = "adc"
      /\ netTimer' = [t \in NetTimers |->
                        IF t \in expired THEN LocalTime ELSE netTimer[t]]
      /\ netAge' = [t \in NetTimers |->
                      IF t \in expired THEN 0 ELSE netAge[t]]
      /\ set' = set \union expired
      /\ UNCHANGED <<LocalTime, eth_on, ticks>>
  BY DEF LwIP_Periodic_Handle, vars
<1>2. /\ LocalTime \in 0..Word-1 /\ ticks \in Nat /\ Word \in Nat
  BY WordIsPositive, TimersAssumption
  DEF LInv, TypeOK, LoopTyped, TimersAssumption
<1>3. NetTyped'
  BY <1>1, <1>2 DEF NetInv, NetTyped
<1>4. set' # {} => eth_on'
  BY <1>1 DEF NetInv
<1>5. ASSUME NEW t \in set'
      PROVE  NetInvAt(netTimer'[t], netAge'[t], Interval[t],
                      LocalTime', loopAt', ticks')
  <2>1. t \in NetTimers
    BY <1>1 DEF NetInv, NetTyped
  <2>2. Interval[t] \in Nat \ {0} /\ MaxPass \in Nat
    BY <2>1, IntervalIsShort
  <2>3. CASE t \in expired
    <3>1. NetInvAt(LocalTime, 0, Interval[t], LocalTime, "adc", ticks)
      BY <1>2, <2>2 DEF NetInvAt
    <3>2. netTimer'[t] = LocalTime /\ netAge'[t] = 0
      BY <1>1, <2>1, <2>3
    <3>3. QED
      BY <1>1, <3>1, <3>2
  <2>4. CASE t \notin expired
    <3>1. /\ t \in set /\ netTimer'[t] = netTimer[t] /\ netAge'[t] = netAge[t]
      BY <1>1, <2>1, <2>4
    <3>2. ~Expired(t)
      BY <2>1, <2>4, <3>1 DEF NetInv
    <3>3. netAge[t] < Interval[t] /\ netAge[t] \in Nat
      BY <2>2, <3>1, <3>2, AgeIsShort, Punctual, WordIsPositive
      DEF NetTimersPunctual
    <3>4. NetInvAt(netTimer[t], netAge[t], Interval[t], LocalTime, "adc", ticks)
      BY <1>2, <2>2, <3>1, <3>3 DEF NetInv, NetInvAt
    <3>5. QED
      BY <1>1, <3>1, <3>4
  <2>5. QED
    BY <2>3, <2>4
<1>6. QED
  BY <1>3, <1>4, <1>5 DEF NetInv

LEMMA NetStep == LInv /\ NetInv /\ [TimersNext]_timersVars => NetInv'
<1> SUFFICES ASSUME LInv, NetInv, [TimersNext]_timersVars PROVE NetInv'
  OBVIOUS
<1>1. CASE Tick
  BY <1>1, NetTickStep
<1>2. CASE LwIP_Periodic_Handle
  BY <1>2, NetPeriodic
<1>3. CASE Led
  <2>1. /\ loopAt = "led" /\ loopAt' = "net" /\ ticks' = 0
        /\ UNCHANGED <<LocalTime, netTimer, eth_on, netAge, set>>
    BY <1>3 DEF Led, vars, netHistory
  <2>2. ASSUME NEW t \in set
        PROVE  NetInvAt(netTimer[t], netAge[t], Interval[t], LocalTime, "net", 0)
    <3>1. /\ NetInvAt(netTimer[t], netAge[t], Interval[t], LocalTime, "led",
                      ticks)
          /\ netAge[t] \in Nat
      BY <2>1, AgeIsShort, WordIsPositive DEF NetInv
    <3>2. Interval[t] \in Nat /\ MaxPass \in Nat /\ ticks \in 0..MaxPass
      BY AgeIsShort, IntervalIsShort DEF LInv, LoopTyped
    <3>3. QED
      BY <3>1, <3>2 DEF NetInvAt
  <2>3. QED
    BY <2>1, <2>2 DEF NetInv, NetTyped
<1>4. CASE EthOn
  BY <1>4 DEF EthOn, vars, netHistory, NetInv, NetTyped
<1>5. CASE AdcDone
  <2>1. /\ loopAt = "adc" /\ loopAt' = "led"
        /\ UNCHANGED <<LocalTime, netTimer, eth_on, ticks, netAge, set>>
    BY <1>5 DEF AdcDone, vars, netHistory
  <2>2. QED
    BY <2>1 DEF NetInv, NetTyped, NetInvAt
<1>6. CASE Adc \/ DmaInterrupt \/ UNCHANGED timersVars
  <2>1. UNCHANGED <<LocalTime, netTimer, eth_on, loopAt, ticks, netAge, set>>
    BY <1>6 DEF Adc, Call, Leave, DmaInterrupt, SPIx_DMA_TX_IRQHandler,
       timersVars, vars, loop, netHistory
  <2>2. QED
    BY <2>1 DEF NetInv, NetTyped
<1>7. QED
  BY <1>1, <1>2, <1>3, <1>4, <1>5, <1>6 DEF TimersNext

(* The timers of lwIP run out when their interval has passed, however      *)
(* often the clock has wrapped, and are seen to within two passes.         *)
THEOREM NetTimersArePunctual == TimersSpec => []NetTimersPunctual
<1>1. TimersInit => NetInv
  <2>1. 0 \in 0..Word-1 /\ 0 \in 0..Word
    BY WordIsPositive
  <2>2. TimersInit => NetTyped /\ set = {}
    BY <2>1 DEF TimersInit, NetTyped
  <2>3. QED
    BY <2>2 DEF NetInv
<1>2. LInv /\ NothingAccepted /\ NetInv /\ [TimersNext]_timersVars => NetInv'
  BY NetStep
<1>3. QED
  BY <1>1, <1>2, LInvHolds, Punctual, PTL DEF TimersSpec

LedTyped == ledAge \in 0..2*Word /\ over \in BOOLEAN /\ frozen \in BOOLEAN

LEMMA WrapIsBoolean ==
  ASSUME NEW delay \in Delays, NEW now \in 0..Word-1
  PROVE  (now + delay >= Word) \in BOOLEAN
BY WordIsPositive, TimersAssumption DEF TimersAssumption

LEMMA LedTypedStep == LInv /\ LedTyped /\ [TimersNext]_timersVars => LedTyped'
<1> SUFFICES ASSUME LInv, LedTyped, [TimersNext]_timersVars PROVE LedTyped'
  OBVIOUS
<1> USE DEF LedTyped
<1>1. CASE Tick
  <2>1. Capped(ledAge, 2 * Word) \in 0..2*Word
    BY WordIsPositive DEF Capped
  <2>2. frozen' \in BOOLEAN
    BY <1>1 DEF Tick
  <2>3. QED
    BY <1>1, <2>1, <2>2 DEF Tick
<1>2. CASE Led
  <2>1. CASE UNCHANGED <<nxt_LED_swch, ledHistory>>
    BY <2>1 DEF ledHistory
  <2>2. CASE /\ ledDelay' \in Delays /\ ledAge' = 0 /\ frozen' = FALSE
             /\ over' = (LocalTime + ledDelay' >= Word)
    <3>1. over' \in BOOLEAN /\ frozen' \in BOOLEAN
      BY <2>2, WrapIsBoolean, Zenon DEF LInv, TypeOK
    <3>2. 0 \in 0..2*Word
      BY WordIsPositive
    <3>3. QED
      BY <2>2, <3>1, <3>2
  <2>3. QED
    BY <1>2, <2>1, <2>2 DEF Led
<1>3. CASE ~(Tick \/ Led)
  BY <1>3 DEF TimersNext, timersVars, EthOn, LwIP_Periodic_Handle, AdcDone,
     Adc, DmaInterrupt, Call, Leave, SPIx_DMA_TX_IRQHandler, ledHistory
<1>4. QED
  BY <1>1, <1>2, <1>3

(* The types of the timers and of what is kept of their history.           *)
THEOREM TimersTypeCorrect == TimersSpec => []TimersTypeOK
<1>1. TimersInit => NetInv /\ LedTyped
  <2>1. 0 \in 0..Word-1 /\ 0 \in 0..Word /\ 0 \in 0..2*Word
    BY WordIsPositive
  <2>2. TimersInit => NetTyped /\ set = {} /\ LedTyped
    BY <2>1 DEF TimersInit, NetTyped, LedTyped
  <2>3. QED
    BY <2>2 DEF NetInv
<1>2. LInv /\ NothingAccepted /\ NetInv /\ LedTyped /\ [TimersNext]_timersVars
        => NetInv' /\ LedTyped'
  BY NetStep, LedTypedStep
<1>3. LInv /\ NetInv /\ LedTyped => TimersTypeOK
  BY DEF TimersTypeOK, LInv, LoopTyped, LedInv, LedInvAt, NetInv, NetTyped,
     LedTyped
<1>4. QED
  BY <1>1, <1>2, <1>3, LInvHolds, PTL DEF TimersSpec

=============================================================================
