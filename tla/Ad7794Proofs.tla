---------------------------- MODULE Ad7794Proofs ----------------------------
(***************************************************************************)
(* Proofs about Ad7794, for every behaviour of the SPI and every set of    *)
(* conversions.                                                            *)
(***************************************************************************)
EXTENDS Ad7794, TLAPS

(* data_error and the failures of the call agree at every place.           *)
IInv ==
  /\ data_error \in {0, 1}
  /\ failed \in {0, 1}
  /\ driverAt \in Places
  /\ driverAt = "idle" => data_error = 0
  /\ driverAt \in Sends \union {"sMode", "rPoll"}
       => data_error = 0 /\ failed = 0
  /\ driverAt \in {"sPoll", "sEnd", "rData"} => data_error = failed

LEMMA TransferErrorsAreBits == TransferErrors \subseteq {0, 1}
BY DEF TransferErrors

(* A conversion is never returned as 0.                                    *)
LEMMA MarkedNotZero == \A w \in Nat : OddOf(w) # 0
BY DEF OddOf

LEMMA StepIInv == IInv /\ [AdcNext]_adcVars => IInv'
<1> SUFFICES ASSUME IInv, [AdcNext]_adcVars PROVE IInv'
  OBVIOUS
<1> USE DEF IInv, Places, Sends, Polls, After
<1>1. CASE setup_AD7794 \/ read_AD7794
  BY <1>1 DEF setup_AD7794, read_AD7794, Begin
<1>2. CASE \E g \in 0..8 : ChangeGain(g)
  BY <1>2 DEF ChangeGain
<1>3. CASE Send
  BY <1>3, TransferErrorsAreBits DEF Send, CheckErr, Return
<1>4. CASE PollFails \/ PollStale
  BY <1>4 DEF PollFails, PollStale, PollEnd
<1>5. CASE PollReady
  BY <1>5 DEF PollReady, PollEnd
<1>6. CASE SetupEnd
  BY <1>6 DEF SetupEnd, Return
<1>7. CASE ReadData
  BY <1>7, TransferErrorsAreBits DEF ReadData, Return
<1>8. CASE SendMode
  BY <1>8, TransferErrorsAreBits DEF SendMode
<1>9. CASE UNCHANGED adcVars
  BY <1>9 DEF adcVars
<1>10. QED
  BY <1>1, <1>2, <1>3, <1>4, <1>5, <1>6, <1>7, <1>8, <1>9
  DEF AdcNext, PollNotReady, reset_AD7794

LEMMA IInvHolds == AdcSpec => []IInv
<1>1. AdcInit => IInv
  BY DEF AdcInit, IInv, Places, Sends, Polls, After
<1>2. QED
  BY <1>1, StepIInv, PTL DEF AdcSpec

-----------------------------------------------------------------------------
(* No failure is reported to a call that did not have it.                  *)
THEOREM ErrorsAreCleared == AdcSpec => []NoStaleError
<1>1. IInv => NoStaleError
  BY DEF IInv, NoStaleError
<1>2. QED
  BY <1>1, IInvHolds, PTL

(* 0 is returned for failures and for nothing else.                        *)
THEOREM ZeroMeansError == AdcSpec => ZeroIsError
<1> DEFINE Ends == driverAt # "idle" /\ driverAt' = "idle" => (result' = 0 <=> failed' = 1)
<1>1. IInv /\ [AdcNext]_adcVars => [Ends]_adcVars
  <2> SUFFICES ASSUME IInv, AdcNext, driverAt # "idle", driverAt' = "idle"
               PROVE  result' = 0 <=> failed' = 1
    OBVIOUS
  <2>1. CASE Send
    BY <2>1, TransferErrorsAreBits DEF Send, CheckErr, Return, IInv, Sends, After
  <2>2. CASE SetupEnd
    BY <2>2 DEF SetupEnd, Return, IInv
  <2>3. CASE ReadData
    BY <2>3, TransferErrorsAreBits, MarkedNotZero, WordsAssumption
    DEF ReadData, Return, IInv, Marked, WordsAssumption
  <2>4. ~(SendMode \/ PollFails \/ PollStale \/ PollReady \/ PollNotReady)
    BY DEF SendMode, PollFails, PollStale, PollReady, PollNotReady, PollEnd,
           Polls, adcVars
  <2>5. QED
    BY <2>1, <2>2, <2>3, <2>4
    DEF AdcNext, setup_AD7794, read_AD7794, Begin, reset_AD7794, ChangeGain
<1>2. QED
  BY <1>1, IInvHolds, PTL DEF AdcSpec, ZeroIsError

-----------------------------------------------------------------------------
(* The rest of AdcTypeOK. *)
CallTyped ==
  /\ call \in {"none", "setup", "read"}
  /\ result \in {0, 1} \union {OddOf(w) : w \in Words}
  /\ gain \in 0..7

LEMMA StepCallTyped == IInv /\ CallTyped /\ [AdcNext]_adcVars => CallTyped'
<1> SUFFICES ASSUME IInv, CallTyped, [AdcNext]_adcVars PROVE CallTyped'
  OBVIOUS
<1> USE DEF CallTyped
<1>1. CASE setup_AD7794 \/ read_AD7794
  BY <1>1 DEF setup_AD7794, read_AD7794, Begin
<1>2. CASE \E g \in 0..8 : ChangeGain(g)
  BY <1>2 DEF ChangeGain
<1>3. CASE Send
  BY <1>3 DEF Send, CheckErr, Return
<1>4. CASE SendMode \/ PollFails \/ PollStale \/ PollReady \/ SetupEnd
  BY <1>4 DEF SendMode, PollFails, PollStale, PollReady, SetupEnd, Return
<1>5. CASE ReadData
  BY <1>5 DEF ReadData, Return, Marked
<1>6. CASE UNCHANGED adcVars
  BY <1>6 DEF adcVars
<1>7. QED
  BY <1>1, <1>2, <1>3, <1>4, <1>5, <1>6
  DEF AdcNext, PollNotReady, reset_AD7794

(* A gain above 7 is never stored, and a conversion is returned odd.       *)
THEOREM DriverTypeCorrect == AdcSpec => []AdcTypeOK
<1>1. AdcInit => CallTyped
  BY DEF AdcInit, CallTyped
<1>2. IInv /\ CallTyped => AdcTypeOK
  BY DEF IInv, CallTyped, AdcTypeOK
<1>3. QED
  BY <1>1, <1>2, StepCallTyped, IInvHolds, PTL DEF AdcSpec

=============================================================================
