--------------------------- MODULE CommandsProofs ---------------------------
(***************************************************************************)
(* Proofs about the two parts of Commands: what three contexts that change *)
(* LED_delay in pieces can make of it, for every step, range and width,    *)
(* and how packets get to the parser over USB, for any number of ports.    *)
(***************************************************************************)
EXTENDS LedDelay, UsbInput, FiniteSetTheorems, TLAPS

-----------------------------------------------------------------------------
(* Multiples of w. *)
LEMMA DivMod ==
  ASSUME NEW w \in Nat \ {0}, NEW v \in Int, NEW d, NEW m,
         d = v \div w, m = v % w
  PROVE  v = w * d + m
BY Z3

LEMMA MultipleOf ==
  ASSUME NEW w \in Nat \ {0}, NEW v \in Int, v % w = 0
  PROVE  \E k \in Int : v = w * k
<1>1. \A d \in Int : d = v \div w => v = w * d
  <2> TAKE d \in Int
  <2> HAVE d = v \div w
  <2>1. QED
    BY DivMod
<1>2. v \div w \in Int
  OBVIOUS
<1>3. QED
  BY <1>1, <1>2

LEMMA MultipleMod ==
  ASSUME NEW w \in Nat \ {0}, NEW k \in Int
  PROVE  (w * k) % w = 0
OBVIOUS

LEMMA NextMultiple ==
  ASSUME NEW w \in Nat \ {0}, NEW v \in Int, v % w = 0
  PROVE  (v - w) % w = 0 /\ (v + w) % w = 0
<1>1. PICK k \in Int : v = w * k
  BY MultipleOf
<1>2. v - w = w * (k - 1) /\ v + w = w * (k + 1)
  BY <1>1
<1>3. QED
  BY <1>2, MultipleMod, k - 1 \in Int, k + 1 \in Int

LEMMA MultiplesApart ==
  ASSUME NEW w \in Nat \ {0}, NEW v \in Int, NEW u \in Int,
         v % w = 0, u % w = 0, v < u
  PROVE  v + w <= u
<1>1. PICK k \in Int : v = w * k
  BY MultipleOf
<1>2. PICK j \in Int : u = w * j
  BY MultipleOf
<1>3. k < j
  BY <1>1, <1>2
<1>4. w * (k + 1) <= w * j
  BY <1>3
<1>5. QED
  BY <1>1, <1>2, <1>4

-----------------------------------------------------------------------------
(* What one command makes of a delay.  A value that may be moved by k stays*)
(* within a step of the range; one that was tested last stays in it.       *)
Movable(v, k) == IF k = "minus" THEN v >= Step ELSE v <= Top
Tested(v, k)  == IF k = "minus" THEN v > Step ELSE v < Top

LEMMA Sizes ==
  /\ Step \in Nat \ {0} /\ Top \in Nat /\ Word \in Nat \ {0}
  /\ Step < Top /\ Top + Step + Step < Word
BY SizesAssumption

LEMMA EndsAreSteps == Step \in Steps(Step, Top) /\ Top \in Steps(Step, Top)
<1>1. Step % Step = 0
  <2>1. Step * 1 = Step /\ Step \in Nat \ {0}
    BY Sizes
  <2>2. QED
    BY <2>1, MultipleMod
<1>2. QED
  BY <1>1, SizesAssumption DEF Steps

LEMMA MovedWithin ==
  ASSUME NEW v \in Steps(0, Top + Step), NEW k, Movable(v, k)
  PROVE  Moved(v, k) \in Steps(0, Top + Step)
<1>1. v \in 0..(Top + Step) /\ v % Step = 0
  BY DEF Steps
<1>2. (v - Step) % Step = 0 /\ (v + Step) % Step = 0
  <2>1. Step \in Nat \ {0} /\ v \in Int
    BY <1>1, Sizes
  <2>2. QED
    BY <1>1, <2>1, NextMultiple
<1>3. CASE k = "minus"
  <2>1. v - Step \in 0..(Top + Step) /\ v - Step \in 0..(Word - 1)
    BY <1>1, <1>3, Sizes DEF Movable
  <2>2. (v - Step) % Word = v - Step
    BY <2>1, Sizes
  <2>3. QED
    BY <1>2, <1>3, <2>1, <2>2 DEF Moved, Steps
<1>4. CASE k # "minus"
  <2>1. v + Step \in 0..(Top + Step) /\ v + Step \in 0..(Word - 1)
    BY <1>1, <1>4, Sizes DEF Movable
  <2>2. (v + Step) % Word = v + Step
    BY <2>1, Sizes
  <2>3. QED
    BY <1>2, <1>4, <2>1, <2>2 DEF Moved, Steps
<1>5. QED
  BY <1>3, <1>4

LEMMA MovedInRange ==
  ASSUME NEW v \in Steps(0, Top + Step), NEW k, Tested(v, k)
  PROVE  Moved(v, k) \in Steps(Step, Top)
<1>1. v \in 0..(Top + Step) /\ v % Step = 0 /\ Step % Step = 0
      /\ Top % Step = 0
  BY EndsAreSteps DEF Steps
<1>2. (v - Step) % Step = 0 /\ (v + Step) % Step = 0
  <2>1. Step \in Nat \ {0} /\ v \in Int
    BY <1>1, Sizes
  <2>2. QED
    BY <1>1, <2>1, NextMultiple
<1>3. CASE k = "minus"
  <2>1. Step + Step <= v
    <3>1. Step \in Nat \ {0} /\ v \in Int /\ Step \in Int /\ Step < v
      BY <1>1, <1>3, Sizes DEF Tested
    <3>2. QED
      BY <1>1, <3>1, MultiplesApart
  <2>2. v - Step \in Step..Top /\ v - Step \in 0..(Word - 1)
    BY <1>1, <2>1, Sizes
  <2>3. (v - Step) % Word = v - Step
    BY <2>2, Sizes
  <2>4. QED
    BY <1>2, <1>3, <2>2, <2>3 DEF Moved, Steps
<1>4. CASE k # "minus"
  <2>1. v + Step <= Top
    <3>1. Step \in Nat \ {0} /\ v \in Int /\ Top \in Int /\ v < Top
      BY <1>1, <1>4, Sizes DEF Tested
    <3>2. QED
      BY <1>1, <3>1, MultiplesApart
  <2>2. v + Step \in Step..Top /\ v + Step \in 0..(Word - 1)
    BY <1>1, <2>1, Sizes
  <2>3. (v + Step) % Word = v + Step
    BY <2>2, Sizes
  <2>4. QED
    BY <1>2, <1>4, <2>2, <2>3 DEF Moved, Steps
<1>5. QED
  BY <1>3, <1>4

(* Of a delay within the wider range, one in the range may be moved by     *)
(* either command.                                                         *)
LEMMA RangeIsMovable ==
  ASSUME NEW v \in Steps(Step, Top), NEW k
  PROVE  Movable(v, k) /\ v \in Steps(0, Top + Step)
BY Sizes DEF Steps, Movable

-----------------------------------------------------------------------------
(* How many are busy. *)
LEMMA BusyIsFinite ==
  /\ IsFiniteSet(Contexts) /\ IsFiniteSet(Busy)
  /\ Cardinality(Busy) \in Nat /\ Cardinality(Contexts) \in Nat
<1>1. Contexts = {"main", "usb", "button"}
  BY DEF Contexts, Priority
<1>2. IsFiniteSet(Contexts)
  <2>1. IsFiniteSet({"main"} \union {"usb"})
    BY FS_Singleton, FS_AddElement
  <2>2. IsFiniteSet(({"main"} \union {"usb"}) \union {"button"})
    BY <2>1, FS_AddElement
  <2>3. Contexts = ({"main"} \union {"usb"}) \union {"button"}
    BY <1>1
  <2>4. QED
    BY <2>2, <2>3
<1>3. QED
  BY <1>2, FS_Subset, FS_CardinalityType DEF Busy

LEMMA BusyCounted ==
  ASSUME NEW c \in Contexts, pc[c] = "idle"
  PROVE  /\ Cardinality(Busy) + 1 <= Cardinality(Contexts)
         /\ Cardinality(Busy) < 1 => Busy = {}
         /\ Cardinality(Busy) < 2 => \A a, b \in Busy : a = b
<1>1. Cardinality(Busy) + 1 <= Cardinality(Contexts)
  <2>1. Busy \subseteq Contexts \ {c}
    BY DEF Busy
  <2>2. /\ IsFiniteSet(Contexts \ {c})
        /\ Cardinality(Contexts \ {c}) = Cardinality(Contexts) - 1
    BY BusyIsFinite, FS_RemoveElement
  <2>3. Cardinality(Busy) <= Cardinality(Contexts) - 1
    BY <2>1, <2>2, FS_Subset
  <2>4. QED
    BY <2>3, BusyIsFinite
<1>2. Cardinality(Busy) < 1 => Busy = {}
  BY BusyIsFinite, FS_EmptySet
<1>3. ASSUME NEW a \in Busy, NEW b \in Busy, a # b
      PROVE  Cardinality(Busy) >= 2
  <2>1. Cardinality({a}) = 1 /\ IsFiniteSet({a})
    BY FS_Singleton
  <2>2. Cardinality({a} \union {b}) = 2
    BY <1>3, <2>1, FS_AddElement
  <2>3. {a} \union {b} \subseteq Busy
    OBVIOUS
  <2>4. QED
    BY <2>2, <2>3, BusyIsFinite, FS_Subset
<1>4. QED
  BY <1>1, <1>2, <1>3, BusyIsFinite

-----------------------------------------------------------------------------
(* How many contexts can be busy at once, as long as deepest is small.     *)
NestingKnown ==
  /\ deepest = 0 => \A c \in Contexts : pc[c] = "idle"
  /\ deepest <= 1 =>
       \A c, d \in Contexts : pc[c] # "idle" /\ pc[d] # "idle" => c = d
  /\ deepest <= 2 => \E c \in Contexts : pc[c] = "idle"

(* A context that was not interrupted since its test.                      *)
Uninterrupted(c) ==
  /\ pc[c] = "load" => Tested(LED_delay, cmd[c])
  /\ pc[c] = "store" => reg[c] = LED_delay /\ Tested(reg[c], cmd[c])

(* A context that may have been, by others one after the other.            *)
Interrupted(c) ==
  /\ pc[c] = "load" => Movable(LED_delay, cmd[c])
  /\ pc[c] = "store" => /\ reg[c] \in Steps(0, Top + Step)
                        /\ Movable(reg[c], cmd[c])

OnTop(c) == \E d \in Contexts : pc[d] # "idle" /\ Priority[d] < Priority[c]

DelayInv ==
  /\ TypeOK
  /\ NestingKnown
  /\ deepest <= 1 => /\ LED_delay \in Steps(Step, Top)
                     /\ \A c \in Contexts : Uninterrupted(c)
  /\ deepest = 2 => /\ LED_delay \in Steps(0, Top + Step)
                    /\ \A c \in Contexts :
                         /\ Interrupted(c)
                         /\ OnTop(c) => Uninterrupted(c)

LEMMA DelayInit == Init => DelayInv
<1> SUFFICES ASSUME Init PROVE DelayInv
  OBVIOUS
<1>1. TypeOK
  BY BusyIsFinite, Sizes
     DEF Init, TypeOK, Contexts, Priority, Commands
<1>2. NestingKnown /\ \A c \in Contexts : Uninterrupted(c)
  BY DEF Init, NestingKnown, Uninterrupted, Contexts, Priority
<1>3. LED_delay \in Steps(Step, Top)
  BY EndsAreSteps DEF Init
<1>4. QED
  BY <1>1, <1>2, <1>3 DEF DelayInv, Init

LEMMA DelayStepType == TypeOK /\ [Next]_vars => TypeOK'
<1> SUFFICES ASSUME TypeOK, [Next]_vars PROVE TypeOK'
  OBVIOUS
<1> USE DEF TypeOK
<1>1. ASSUME NEW c \in Contexts, NEW k \in Commands(c), Start(c, k)
      PROVE  TypeOK'
  <2>1. Cardinality(Busy) + 1 <= Cardinality(Contexts)
    BY <1>1, BusyCounted DEF Start
  <2>2. deepest' \in 0..Cardinality(Contexts)
    BY <1>1, <2>1, BusyIsFinite DEF Start
  <2>3. \A d \in Contexts : cmd'[d] \in Commands(d)
    BY <1>1 DEF Start
  <2>4. QED
    BY <1>1, <2>2, <2>3 DEF Start
<1>2. ASSUME NEW c \in Contexts, Test(c) PROVE TypeOK'
  <2>1. WrapTo(cmd[c]) \in 0..(Word - 1)
    BY Sizes DEF WrapTo
  <2>2. QED
    BY <1>2, <2>1 DEF Test
<1>3. ASSUME NEW c \in Contexts, Load(c) PROVE TypeOK'
  BY <1>3 DEF Load
<1>4. ASSUME NEW c \in Contexts, Store(c) PROVE TypeOK'
  <2>1. Moved(reg[c], cmd[c]) \in 0..(Word - 1)
    BY Sizes DEF Moved
  <2>2. 0 \in 0..(Word - 1)
    BY Sizes
  <2>3. QED
    BY <1>4, <2>1, <2>2 DEF Store
<1>5. CASE UNCHANGED vars
  BY <1>5 DEF vars
<1>6. QED
  BY <1>1, <1>2, <1>3, <1>4, <1>5 DEF Next

LEMMA ContextsAre == Contexts = {"main", "usb", "button"}
BY DEF Contexts, Priority

LEMMA PrioritiesDiffer ==
  /\ \A c \in Contexts : Priority[c] \in Nat
  /\ \A c, d \in Contexts : Priority[c] = Priority[d] => c = d
BY DEF Contexts, Priority

(* A tested value may be moved. *)
LEMMA TestedIsMovable ==
  ASSUME NEW v \in Int, NEW k, Tested(v, k)
  PROVE  Movable(v, k)
BY Sizes DEF Tested, Movable

(* Whoever was not interrupted is no worse off than whoever may have been. *)
LEMMA UninterruptedIsWeaker ==
  ASSUME NEW c \in Contexts, LED_delay \in Steps(0, Top + Step),
         Uninterrupted(c)
  PROVE  Interrupted(c)
<1>1. LED_delay \in Int
  BY DEF Steps
<1>2. QED
  BY <1>1, TestedIsMovable DEF Uninterrupted, Interrupted

(* The end of a command, by the test or by the store: whoever was          *)
(* interrupted by it has nobody below.                                     *)
LEMMA DelayFinish ==
  ASSUME DelayInv, TypeOK', NEW c \in Contexts, pc[c] # "idle", MayGoOn(c),
         pc' = [pc EXCEPT ![c] = "idle"], cmd' = cmd, deepest' = deepest,
         \A d \in Contexts \ {c} : reg'[d] = reg[d],
         deepest <= 1 => LED_delay' \in Steps(Step, Top),
         deepest = 2 => LED_delay' \in Steps(0, Top + Step),
         deepest = 2 /\ (\E d \in Contexts \ {c} : pc[d] # "idle")
           => LED_delay' \in Steps(Step, Top)
  PROVE  DelayInv'
<1>1. TypeOK /\ NestingKnown
  BY DEF DelayInv
<1>2. /\ pc'[c] = "idle"
      /\ \A d \in Contexts \ {c} : pc'[d] = pc[d]
  BY <1>1 DEF TypeOK
<1>3. NestingKnown'
  BY <1>1, <1>2 DEF NestingKnown
<1>4. ASSUME deepest <= 1, NEW d \in Contexts PROVE Uninterrupted(d)'
  <2>1. pc'[d] = "idle"
    BY <1>1, <1>2, <1>4 DEF NestingKnown
  <2>2. QED
    BY <2>1 DEF Uninterrupted
<1>5. ASSUME deepest = 2, NEW d \in Contexts, pc'[d] # "idle"
      PROVE  Interrupted(d)' /\ ~OnTop(d)'
  <2>1. d # c /\ pc[d] # "idle" /\ pc'[d] = pc[d] /\ reg'[d] = reg[d]
    BY <1>2, <1>5
  <2>2. LED_delay' \in Steps(Step, Top)
    BY <1>5, <2>1
  <2>3. Interrupted(d)
    BY <1>5 DEF DelayInv
  <2>4. Interrupted(d)'
    BY <2>1, <2>2, <2>3, RangeIsMovable DEF Interrupted
  <2>5. \E e \in Contexts : pc[e] = "idle"
    BY <1>1, <1>5 DEF NestingKnown
  <2>6. ASSUME NEW e \in Contexts, pc'[e] # "idle", Priority[e] < Priority[d]
        PROVE  FALSE
    <3>1. e # c /\ pc[e] # "idle"
      BY <1>2, <2>6
    <3>2. e # d
      BY <2>6, PrioritiesDiffer
    <3>3. QED
      BY <2>1, <2>5, <3>1, <3>2, ContextsAre
  <2>7. QED
    BY <2>4, <2>6 DEF OnTop
<1>6. ASSUME NEW d \in Contexts, pc'[d] = "idle"
      PROVE  Interrupted(d)' /\ Uninterrupted(d)'
  BY <1>6 DEF Interrupted, Uninterrupted
<1>7. QED
  BY <1>3, <1>4, <1>5, <1>6 DEF DelayInv

(* A step of c that leaves LED_delay alone.                                *)
LEMMA DelayStart ==
  ASSUME DelayInv, TypeOK', NEW c \in Contexts, NEW k \in Commands(c),
         Start(c, k)
  PROVE  DelayInv'
<1>1. TypeOK /\ NestingKnown
  BY DEF DelayInv
<1>2. /\ pc[c] = "idle" /\ pc'[c] = "test"
      /\ \A d \in Contexts \ {c} : pc'[d] = pc[d] /\ cmd'[d] = cmd[d]
      /\ UNCHANGED <<LED_delay, reg>>
  BY <1>1 DEF Start, TypeOK
<1>3. /\ deepest \in Nat /\ Cardinality(Busy) \in Nat
      /\ deepest' \in Nat
      /\ deepest <= deepest' /\ Cardinality(Busy) < deepest'
  BY <1>1, BusyIsFinite DEF Start, TypeOK
<1>4. /\ deepest' <= 1 => Busy = {}
      /\ deepest' <= 2 => \A a, b \in Busy : a = b
  BY <1>2, <1>3, BusyCounted
<1>5. NestingKnown'
  <2>1. deepest' # 0
    BY <1>3
  <2>2. ASSUME deepest' <= 1, NEW a \in Contexts, NEW b \in Contexts,
               pc'[a] # "idle", pc'[b] # "idle"
        PROVE  a = b
    BY <1>2, <1>4, <2>2 DEF Busy
  <2>3. ASSUME deepest' <= 2 PROVE \E d \in Contexts : pc'[d] = "idle"
    <3>1. \A a, b \in Contexts : pc[a] # "idle" /\ pc[b] # "idle" => a = b
      BY <1>4, <2>3 DEF Busy
    <3>2. QED
      BY <1>2, <3>1, ContextsAre
  <2>4. QED
    BY <2>1, <2>2, <2>3 DEF NestingKnown
<1>6. ASSUME NEW d \in Contexts
      PROVE  /\ Uninterrupted(d) => Uninterrupted(d)'
             /\ Interrupted(d) => Interrupted(d)'
  BY <1>2, <1>6 DEF Uninterrupted, Interrupted
<1>7. ASSUME deepest' <= 1
      PROVE  /\ LED_delay' \in Steps(Step, Top)
             /\ \A d \in Contexts : Uninterrupted(d)'
  <2>1. deepest <= 1
    BY <1>3, <1>7
  <2>2. QED
    BY <1>2, <1>6, <2>1 DEF DelayInv
<1>8. ASSUME deepest' = 2, NEW d \in Contexts
      PROVE  /\ LED_delay' \in Steps(0, Top + Step)
             /\ Interrupted(d)'
             /\ OnTop(d)' => Uninterrupted(d)'
  <2>1. deepest <= 1 \/ deepest = 2
    BY <1>3, <1>8
  <2>2. CASE deepest <= 1
    <3>1. LED_delay \in Steps(0, Top + Step) /\ Uninterrupted(d)
      BY <2>2, RangeIsMovable DEF DelayInv
    <3>2. Interrupted(d)
      BY <3>1, UninterruptedIsWeaker
    <3>3. QED
      BY <1>2, <1>6, <3>1, <3>2
  <2>3. CASE deepest = 2
    <3>1. /\ LED_delay \in Steps(0, Top + Step) /\ Interrupted(d)
          /\ OnTop(d) => Uninterrupted(d)
      BY <2>3 DEF DelayInv
    <3>2. CASE pc'[d] = "idle" \/ d = c
      BY <1>2, <1>6, <3>1, <3>2 DEF Uninterrupted
    <3>3. CASE pc'[d] # "idle" /\ d # c
      <4>1. d \in Busy
        BY <1>2, <3>3 DEF Busy
      <4>2. Priority[d] < Priority[c]
        BY <4>1 DEF Start, MayStart
      <4>3. OnTop(d)' => OnTop(d)
        BY <1>2, <4>2, PrioritiesDiffer DEF OnTop
      <4>4. QED
        BY <1>2, <1>6, <3>1, <4>3
    <3>4. QED
      BY <3>2, <3>3
  <2>4. QED
    BY <2>1, <2>2, <2>3
<1>9. QED
  BY <1>5, <1>7, <1>8 DEF DelayInv

LEMMA DelayTest ==
  ASSUME DelayInv, TypeOK', NEW c \in Contexts, Test(c)
  PROVE  DelayInv'
<1>1. TypeOK /\ NestingKnown /\ deepest' = deepest /\ cmd' = cmd /\ reg' = reg
  BY DEF DelayInv, Test
<1>2. CASE ~Within(cmd[c])
  <2>1. LED_delay' \in Steps(Step, Top)
    BY <1>2, EndsAreSteps DEF Test, WrapTo
  <2>2. LED_delay' \in Steps(0, Top + Step)
    BY <2>1, RangeIsMovable
  <2>3. /\ pc[c] # "idle" /\ MayGoOn(c)
        /\ pc' = [pc EXCEPT ![c] = "idle"]
    BY <1>2 DEF Test
  <2>4. QED
    BY <1>1, <2>1, <2>2, <2>3, DelayFinish
<1>3. CASE Within(cmd[c])
  <2>1. /\ pc[c] = "test" /\ pc'[c] = "load" /\ LED_delay' = LED_delay
        /\ \A d \in Contexts \ {c} : pc'[d] = pc[d]
    BY <1>1, <1>3 DEF Test, TypeOK
  <2>2. LED_delay \in Int
    BY <1>1, Sizes DEF TypeOK
  <2>3. Tested(LED_delay, cmd[c]) /\ Movable(LED_delay, cmd[c])
    BY <1>3, <2>2, TestedIsMovable DEF Within, Tested
  <2>4. NestingKnown'
    BY <1>1, <2>1 DEF NestingKnown
  <2>5. ASSUME NEW d \in Contexts
        PROVE  /\ Uninterrupted(d) => Uninterrupted(d)'
               /\ Interrupted(d) => Interrupted(d)'
               /\ OnTop(d)' => OnTop(d)
    <3>1. CASE d = c
      BY <1>1, <2>1, <2>3, <3>1 DEF Uninterrupted, Interrupted, OnTop
    <3>2. CASE d # c
      BY <1>1, <2>1, <2>5, <3>2 DEF Uninterrupted, Interrupted, OnTop
    <3>3. QED
      BY <3>1, <3>2
  <2>6. QED
    BY <1>1, <2>1, <2>4, <2>5 DEF DelayInv
<1>4. QED
  BY <1>2, <1>3

LEMMA DelayLoad ==
  ASSUME DelayInv, TypeOK', NEW c \in Contexts, Load(c)
  PROVE  DelayInv'
<1>1. /\ TypeOK /\ NestingKnown
      /\ deepest' = deepest /\ cmd' = cmd /\ LED_delay' = LED_delay
  BY DEF DelayInv, Load
<1>2. /\ pc[c] = "load" /\ pc'[c] = "store" /\ reg'[c] = LED_delay
      /\ \A d \in Contexts \ {c} : pc'[d] = pc[d] /\ reg'[d] = reg[d]
  BY <1>1 DEF Load, TypeOK
<1>3. NestingKnown'
  BY <1>1, <1>2 DEF NestingKnown
<1>4. ASSUME NEW d \in Contexts
      PROVE  /\ Uninterrupted(d) => Uninterrupted(d)'
             /\ LED_delay \in Steps(0, Top + Step) =>
                  (Interrupted(d) => Interrupted(d)')
             /\ OnTop(d)' => OnTop(d)
  <2>1. CASE d = c
    BY <1>1, <1>2, <2>1 DEF Uninterrupted, Interrupted, OnTop
  <2>2. CASE d # c
    BY <1>1, <1>2, <1>4, <2>2 DEF Uninterrupted, Interrupted, OnTop
  <2>3. QED
    BY <2>1, <2>2
<1>5. QED
  BY <1>1, <1>3, <1>4 DEF DelayInv

LEMMA DelayStore ==
  ASSUME DelayInv, TypeOK', NEW c \in Contexts, Store(c)
  PROVE  DelayInv'
<1>1. /\ TypeOK /\ NestingKnown
      /\ deepest' = deepest /\ cmd' = cmd
      /\ LED_delay' = Moved(reg[c], cmd[c])
      /\ pc[c] = "store" /\ pc' = [pc EXCEPT ![c] = "idle"] /\ MayGoOn(c)
  BY DEF DelayInv, Store
<1>2. \A d \in Contexts \ {c} : reg'[d] = reg[d]
  BY <1>1 DEF Store, TypeOK
<1>3. ASSUME LED_delay \in Steps(0, Top + Step), Uninterrupted(c)
      PROVE  LED_delay' \in Steps(Step, Top)
  BY <1>1, <1>3, MovedInRange DEF Uninterrupted
<1>4. ASSUME deepest <= 1 PROVE LED_delay' \in Steps(Step, Top)
  BY <1>3, <1>4, RangeIsMovable DEF DelayInv
<1>5. ASSUME deepest = 2 PROVE LED_delay' \in Steps(0, Top + Step)
  BY <1>1, <1>5, MovedWithin DEF DelayInv, Interrupted
<1>6. ASSUME deepest = 2, NEW d \in Contexts \ {c}, pc[d] # "idle"
      PROVE  LED_delay' \in Steps(Step, Top)
  <2>1. Priority[d] <= Priority[c] /\ Priority[d] # Priority[c]
    BY <1>1, <1>6, PrioritiesDiffer DEF MayGoOn, Busy
  <2>2. OnTop(c)
    BY <1>6, <2>1, PrioritiesDiffer DEF OnTop
  <2>3. QED
    BY <1>3, <1>6, <2>2 DEF DelayInv
<1>7. QED
  BY <1>1, <1>2, <1>4, <1>5, <1>6, DelayFinish

LEMMA DelayStep == DelayInv /\ [Next]_vars => DelayInv'
<1> SUFFICES ASSUME DelayInv, [Next]_vars PROVE DelayInv'
  OBVIOUS
<1>1. TypeOK'
  BY DelayStepType DEF DelayInv
<1>2. CASE UNCHANGED vars
  BY <1>2 DEF vars, DelayInv, TypeOK, NestingKnown, Uninterrupted, Interrupted,
              OnTop
<1>3. QED
  BY <1>1, <1>2, DelayStart, DelayTest, DelayLoad, DelayStore DEF Next

LEMMA DelayInvariant == Spec => []DelayInv
BY DelayInit, DelayStep, PTL DEF Spec

(* LED_delay and the registers stay within 16 bits, and the commands are   *)
(* those that each context has.                                            *)
THEOREM DelayTypeCorrect == Spec => []TypeOK
BY DelayInvariant, PTL DEF DelayInv

(* How far LED_delay can leave its range, for every step and range: not at *)
(* all while commands come one after the other, and by one step when one   *)
(* context has interrupted another, however often.                         *)
THEOREM DelayRange == Spec => []RangeByNesting
<1>1. DelayInv => RangeByNesting
  BY DEF DelayInv, RangeByNesting
<1>2. QED
  BY <1>1, DelayInvariant, PTL

-----------------------------------------------------------------------------
(* A packet that was copied is not written over before it is parsed.       *)
Kept(p) ==
  xfer_pending[p] =>
    /\ ~armed[p]
    /\ inCount[p] = Len(inSent[p])
    /\ \A i \in 1..inCount[p] : USB_Rx_Buffer[p][i] = inSent[p][i]

(* NotDeaf, also while the port is suspended.                              *)
Listening(p) ==
  inStatus[p] # "ADDRESSED" => armed[p] \/ xfer_pending[p] \/ missed[p]

(* The endpoint of a port that is not configured is closed.                *)
Closed(p) == inStatus[p] = "ADDRESSED" => ~armed[p] /\ ~xfer_pending[p]

InputInv ==
  InputTypeOK /\ \A p \in InPorts : Kept(p) /\ Listening(p) /\ Closed(p)

LEMMA PacketsAre ==
  /\ <<>> \in Packets
  /\ \A x \in Packets : /\ x \in Seq(Chars) /\ Len(x) \in 0..Longest
                        /\ \A i \in 1..Len(x) : x[i] \in Chars
<1>1. <<>> \in [1..0 -> Chars]
  OBVIOUS
<1>2. ASSUME NEW n \in 0..Longest, NEW x \in [1..n -> Chars]
      PROVE  /\ x \in Seq(Chars) /\ Len(x) = n
             /\ \A i \in 1..Len(x) : x[i] \in Chars
  BY LongestAssumption
<1>3. QED
  BY <1>1, <1>2, LongestAssumption DEF Packets

LEMMA InputInitial == InputInit => InputInv
<1> SUFFICES ASSUME InputInit PROVE InputInv
  OBVIOUS
<1>1. InputTypeOK
  BY PacketsAre, LongestAssumption DEF InputInit, InputTypeOK
<1>2. \A p \in InPorts : Kept(p) /\ Listening(p) /\ Closed(p)
  BY DEF InputInit, Kept, Listening, Closed
<1>3. QED
  BY <1>1, <1>2 DEF InputInv

LEMMA InputStepType == InputTypeOK /\ [InputNext]_inputVars => InputTypeOK'
<1> SUFFICES ASSUME InputTypeOK, [InputNext]_inputVars PROVE InputTypeOK'
  OBVIOUS
<1> USE DEF InputTypeOK
<1>1. ASSUME NEW p \in InPorts, Configure(p) PROVE InputTypeOK'
  BY <1>1 DEF Configure
<1>2. ASSUME NEW p \in InPorts, Deconfigure(p) PROVE InputTypeOK'
  BY <1>2, PacketsAre, LongestAssumption DEF Deconfigure
<1>3. ASSUME NEW p \in InPorts, SuspendInput(p) \/ ResumeInput(p)
      PROVE  InputTypeOK'
  BY <1>3 DEF SuspendInput, ResumeInput
<1>4. ASSUME NEW p \in InPorts, NEW x \in Packets, RxStored(p, x)
      PROVE  InputTypeOK'
  <2>1. USB_Rx_Buffer' \in [InPorts -> [1..Longest -> Chars]]
    <3> DEFINE copied == [i \in 1..Longest |->
                            IF i <= Len(x) THEN x[i] ELSE USB_Rx_Buffer[p][i]]
    <3>1. \A i \in 1..Longest : i <= Len(x) => x[i] \in Chars
      BY PacketsAre, LongestAssumption
    <3>2. copied \in [1..Longest -> Chars]
      BY <3>1
    <3>3. QED
      BY <1>4, <3>2 DEF RxStored
  <2>2. Len(x) \in 0..Longest
    BY PacketsAre
  <2>3. QED
    BY <1>4, <2>1, <2>2 DEF RxStored
<1>5. ASSUME NEW p \in InPorts, DataOut(p) PROVE InputTypeOK'
  BY <1>5 DEF DataOut, Rearmed
<1>6. CASE UNCHANGED inputVars
  BY <1>6 DEF inputVars
<1>7. QED
  BY <1>1, <1>2, <1>3, <1>4, <1>5, <1>6 DEF InputNext

LEMMA InputStep == InputInv /\ [InputNext]_inputVars => InputInv'
<1> SUFFICES ASSUME InputInv, [InputNext]_inputVars PROVE InputInv'
  OBVIOUS
<1> DEFINE Good(p) == Kept(p) /\ Listening(p) /\ Closed(p)
<1>1. InputTypeOK /\ InputTypeOK'
  BY InputStepType DEF InputInv
<1>2. SUFFICES ASSUME NEW p \in InPorts PROVE Good(p)'
  BY <1>1 DEF InputInv
<1>3. Good(p)
  BY DEF InputInv
<1>4. ASSUME NEW q \in InPorts, Configure(q) PROVE Good(p)'
  BY <1>1, <1>3, <1>4 DEF Configure, Kept, Listening, Closed, InputTypeOK
<1>5. ASSUME NEW q \in InPorts, Deconfigure(q) PROVE Good(p)'
  BY <1>1, <1>3, <1>5 DEF Deconfigure, Kept, Listening, Closed, InputTypeOK
<1>6. ASSUME NEW q \in InPorts, SuspendInput(q) \/ ResumeInput(q)
      PROVE  Good(p)'
  BY <1>1, <1>3, <1>6
     DEF SuspendInput, ResumeInput, Kept, Listening, Closed, InputTypeOK
<1>7. ASSUME NEW q \in InPorts, NEW x \in Packets, RxStored(q, x)
      PROVE  Good(p)'
  <2>1. CASE q = p
    <3>1. /\ inCount'[p] = Len(x) /\ inSent'[p] = x /\ xfer_pending'[p]
          /\ ~armed'[p] /\ inStatus'[p] = "CONFIGURED"
      BY <1>1, <1>7, <2>1 DEF RxStored, InputTypeOK
    <3>2. \A i \in 1..Len(x) : USB_Rx_Buffer'[p][i] = x[i]
      BY <1>1, <1>7, <2>1, PacketsAre, LongestAssumption
         DEF RxStored, InputTypeOK
    <3>3. QED
      BY <3>1, <3>2 DEF Kept, Listening, Closed
  <2>2. CASE q # p
    BY <1>1, <1>3, <1>7, <2>2 DEF RxStored, Kept, Listening, Closed, InputTypeOK
  <2>3. QED
    BY <2>1, <2>2
<1>8. ASSUME NEW q \in InPorts, DataOut(q) PROVE Good(p)'
  BY <1>1, <1>3, <1>8 DEF DataOut, Rearmed, Kept, Listening, Closed, InputTypeOK
<1>9. CASE UNCHANGED inputVars
  BY <1>3, <1>9 DEF inputVars, Kept, Listening, Closed
<1>10. QED
  BY <1>4, <1>5, <1>6, <1>7, <1>8, <1>9 DEF InputNext

LEMMA InputInvariant == InputSpec => []InputInv
BY InputInitial, InputStep, PTL DEF InputSpec

(* The parser gets the bytes of the packet whose end it handles, and the   *)
(* endpoint lets none in that would be copied over them, for any number of *)
(* ports and any length of packets.                                        *)
THEOREM CommandsAreOwn == InputSpec => []OwnCommands
<1>1. InputInv => OwnCommands
  <2> SUFFICES ASSUME InputInv, NEW p \in InPorts, xfer_pending[p]
               PROVE  Given(p) = inSent[p] /\ ~armed[p]
    BY DEF OwnCommands
  <2>1. /\ inCount[p] = Len(inSent[p]) /\ inCount[p] \in 0..Longest
        /\ \A i \in 1..inCount[p] : USB_Rx_Buffer[p][i] = inSent[p][i]
        /\ inSent[p] \in Seq(Chars) /\ ~armed[p]
        /\ USB_Rx_Buffer[p] \in [1..Longest -> Chars]
    BY PacketsAre DEF InputInv, Kept, InputTypeOK
  <2>2. /\ USB_Rx_Buffer[p] \in Seq(Chars)
        /\ Len(USB_Rx_Buffer[p]) = Longest
    BY <2>1, LongestAssumption
  <2>3. /\ Given(p) \in Seq(Chars) /\ Len(Given(p)) = inCount[p]
        /\ \A i \in 1..inCount[p] : Given(p)[i] = USB_Rx_Buffer[p][i]
    BY <2>1, <2>2, LongestAssumption DEF Given
  <2>4. QED
    BY <2>1, <2>3
<1>2. QED
  BY <1>1, InputInvariant, PTL

(* A configured port is deaf only if its packet's end came while it was    *)
(* suspended.                                                              *)
THEOREM PortsAreNotDeaf == InputSpec => []NotDeaf
<1>1. InputInv => NotDeaf
  BY DEF InputInv, Listening, NotDeaf
<1>2. QED
  BY <1>1, InputInvariant, PTL

=============================================================================
