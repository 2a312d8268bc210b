------------------------------ MODULE LedDelay ------------------------------
(***************************************************************************)
(* LED_delay is changed by parce_incoming_buf, which runs in the main loop *)
(* (commands over TCP) and in the USB interrupt, and by the interrupt of   *)
(* the button, whose priority is the highest.  Each first tests LED_delay  *)
(* and then loads, changes and stores it; the variable is volatile and 16  *)
(* bits wide, so the test and the change read it separately, and a context *)
(* of higher priority may run whole in between.                            *)
(***************************************************************************)
EXTENDS Integers, FiniteSets

CONSTANTS
  Step,   \* 50
  Top,    \* 1000
  Word    \* 2^16

ASSUME SizesAssumption ==
  /\ Step \in Nat \ {0} /\ Top \in Nat /\ Word \in Nat
  /\ Top % Step = 0 /\ Step < Top /\ Top + 2 * Step < Word

(* From the lowest priority to the highest. *)
Priority == [main |-> 0, usb |-> 1, button |-> 2]
Contexts == DOMAIN Priority

Commands(c) == IF c = "button" THEN {"minus"} ELSE {"minus", "plus"}

VARIABLES
  LED_delay,
  pc,        \* per context: "idle", or what it does next
  cmd,       \* per context: the command it is about
  reg,       \* per context: the value it loaded
  deepest    \* history: the most contexts that were at it at the same time

vars == <<LED_delay, pc, cmd, reg, deepest>>

TypeOK ==
  /\ LED_delay \in 0..Word-1
  /\ pc \in [Contexts -> {"idle", "test", "load", "store"}]
  /\ \A c \in Contexts : cmd[c] \in Commands(c)
  /\ reg \in [Contexts -> 0..Word-1]
  /\ deepest \in 0..Cardinality(Contexts)

Init ==
  /\ LED_delay = Top
  /\ pc = [c \in Contexts |-> "idle"]
  /\ cmd = [c \in Contexts |-> "minus"]
  /\ reg = [c \in Contexts |-> 0]
  /\ deepest = 0

Busy == {c \in Contexts : pc[c] # "idle"}

(* A context starts only if no other of its priority or above is at work,  *)
(* and goes on only when those above are done.                             *)
MayStart(c) == \A d \in Busy : Priority[d] < Priority[c]
MayGoOn(c)  == \A d \in Busy : Priority[d] <= Priority[c]

Start(c, k) ==
  /\ pc[c] = "idle"
  /\ MayStart(c)
  /\ pc' = [pc EXCEPT ![c] = "test"]
  /\ cmd' = [cmd EXCEPT ![c] = k]
  /\ deepest' = IF deepest > Cardinality(Busy) THEN deepest
                                               ELSE Cardinality(Busy) + 1
  /\ UNCHANGED <<LED_delay, reg>>

(* Mutant of Within: the upper end is let through. *)
WithinTop(k) == IF k = "minus" THEN LED_delay > Step ELSE LED_delay <= Top

(* if(LED_delay > 50) of LED_MINUS, if(LED_delay < 1000) of LED_PLUS *)
Within(k) == IF k = "minus" THEN LED_delay > Step ELSE LED_delay < Top

(* The else of both: the other end of the range. *)
WrapTo(k) == IF k = "minus" THEN Top ELSE Step

Test(c) ==
  /\ pc[c] = "test"
  /\ MayGoOn(c)
  /\ \/ /\ Within(cmd[c])
        /\ pc' = [pc EXCEPT ![c] = "load"]
        /\ UNCHANGED LED_delay
     \/ /\ ~Within(cmd[c])
        /\ LED_delay' = WrapTo(cmd[c])
        /\ pc' = [pc EXCEPT ![c] = "idle"]
  /\ UNCHANGED <<cmd, reg, deepest>>

Load(c) ==
  /\ pc[c] = "load"
  /\ MayGoOn(c)
  /\ reg' = [reg EXCEPT ![c] = LED_delay]
  /\ pc' = [pc EXCEPT ![c] = "store"]
  /\ UNCHANGED <<LED_delay, cmd, deepest>>

Moved(v, k) == (IF k = "minus" THEN v - Step ELSE v + Step) % Word

Store(c) ==
  /\ pc[c] = "store"
  /\ MayGoOn(c)
  /\ LED_delay' = Moved(reg[c], cmd[c])
  /\ pc' = [pc EXCEPT ![c] = "idle"]
  /\ reg' = [reg EXCEPT ![c] = 0]   \* the register is free again
  /\ UNCHANGED <<cmd, deepest>>

Next ==
  \E c \in Contexts :
    \/ \E k \in Commands(c) : Start(c, k)
    \/ Test(c)
    \/ Load(c)
    \/ Store(c)

Spec == Init /\ [][Next]_vars

-----------------------------------------------------------------------------
(* Properties. *)

Steps(lo, hi) == {v \in lo..hi : v % Step = 0}

(* How far the delay can leave the range Step..Top that the tests of       *)
(* parce_incoming_buf and EXTI0_IRQHandler keep: not at all while commands *)
(* come one after the other; by one step, down to a delay of 0, once one   *)
(* context has interrupted another.  Only with all three nested does the   *)
(* 16-bit counter run below 0 and lose its alignment to Step.              *)
RangeByNesting ==
  /\ deepest <= 1 => LED_delay \in Steps(Step, Top)
  /\ deepest = 2 => LED_delay \in Steps(0, Top + Step)

=============================================================================
