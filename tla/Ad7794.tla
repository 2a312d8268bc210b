------------------------------- MODULE Ad7794 -------------------------------
(***************************************************************************)
(* The driver of the ADC: setup_AD7794, read_AD7794 and reset_AD7794 over  *)
(* write_SPI and read_SPI, whose documented results (a write is refused or *)
(* accepted, a read returns the buffer or NULL) are taken as given here;   *)
(* SpiDma has what the code makes of them.  data_error is how the transfer *)
(* functions tell the callers of a failure, since their return value is    *)
(* the word received; check_err reads and clears it.                       *)
(***************************************************************************)
EXTENDS Naturals

CONSTANTS
  WriteMay,   \* what write_SPI may answer, within BOOLEAN
  ReadMay,    \* whether read_SPI may have a buffer, within BOOLEAN
  Words       \* the conversions the chip may return

ASSUME SpiAssumption ==
  /\ WriteMay \subseteq BOOLEAN /\ WriteMay # {}
  /\ ReadMay \subseteq BOOLEAN /\ ReadMay # {}
ASSUME WordsAssumption == Words \subseteq Nat

VARIABLES
  data_error,
  driverAt,       \* what the driver does next
  call,     \* the function under way, "none" between calls
  result,   \* what the last call returned
  failed,   \* history: 1 if a transfer of this call failed or the chip erred
  gain      \* log2 of the gain in ADC_gain

adcVars == <<data_error, driverAt, call, result, failed, gain>>

(* The transfers of the two calls that check_err follows, and where they   *)
(* lead.  setup_AD7794 also makes one at "sMode" that it does not check.   *)
After == [sConf |-> "sIo", sIo |-> "sMode", rConf |-> "rMode", rMode |-> "rPoll"]
Sends == DOMAIN After
Polls == {"sPoll", "rPoll"}
Places == {"idle", "sMode", "sEnd", "rData"} \union Sends \union Polls

OddOf(w) == IF w % 2 = 0 THEN w + 1 ELSE w

AdcTypeOK ==
  /\ data_error \in {0, 1}
  /\ driverAt \in Places
  /\ call \in {"none", "setup", "read"}
  /\ result \in {0, 1} \union {OddOf(w) : w \in Words}
  /\ failed \in {0, 1}
  /\ gain \in 0..7

AdcInit ==
  /\ data_error = 0
  /\ driverAt = "idle"
  /\ call = "none"
  /\ result = 0
  /\ failed = 0
  /\ gain = 2

Return(r) ==
  /\ driverAt' = "idle"
  /\ call' = "none"
  /\ result' = r

(* change_AD7794_gain refuses a gain above 7. *)
ChangeGain(g) ==
  /\ driverAt = "idle"
  /\ gain' = IF g > 7 THEN gain ELSE g
  /\ result' = IF g > 7 THEN 0 ELSE 1
  /\ UNCHANGED <<data_error, driverAt, call, failed>>

Begin(name, first) ==
  /\ driverAt = "idle"
  /\ driverAt' = first
  /\ call' = name
  /\ failed' = 0
  /\ UNCHANGED <<data_error, result, gain>>

setup_AD7794 == Begin("setup", "sConf")
read_AD7794  == Begin("read", "rConf")

(* sendByte, sendWord, sendDWord: ERR_SPI if the write is refused or there *)
(* is no buffer to read.                                                   *)
TransferErrors ==
  {IF w /\ r THEN 0 ELSE 1 : w \in WriteMay, r \in ReadMay}

(* Mutant of CheckErr: the error is reported, but not cleared. *)
CheckErrKeeps(err, next) ==
  \/ err + data_error = 0 /\ driverAt' = next /\ UNCHANGED <<call, result, data_error>>
  \/ err + data_error > 0 /\ data_error' = 1 /\ Return(0)

(* A transfer followed by check_err: on with next, or 0 with data_error    *)
(* cleared.                                                                *)
CheckErr(err, next) ==
  \/ err + data_error = 0 /\ driverAt' = next /\ UNCHANGED <<call, result, data_error>>
  \/ err + data_error > 0 /\ data_error' = 0 /\ Return(0)

Send ==
  /\ driverAt \in Sends
  /\ \E err \in TransferErrors :
       /\ CheckErr(err, After[driverAt])
       /\ failed' = IF err = 1 THEN 1 ELSE failed
  /\ UNCHANGED gain

(* The write of the mode register by setup_AD7794: no check_err follows,   *)
(* and the loop is entered with data_error set if it fails.                *)
SendMode ==
  /\ driverAt = "sMode"
  /\ driverAt' = "sPoll"
  /\ \E err \in TransferErrors :
       /\ data_error' = IF err = 1 THEN 1 ELSE data_error
       /\ failed' = IF err = 1 THEN 1 ELSE failed
  /\ UNCHANGED <<call, result, gain>>

PollEnd == IF driverAt = "sPoll" THEN "sEnd" ELSE "rData"

(* check_data_ready returned 1 because the transfer failed or the chip set *)
(* DATA_ERROR; data_error stays set until the next check_err.              *)
PollFails ==
  /\ driverAt \in Polls
  /\ data_error = 0
  /\ data_error' = 1
  /\ failed' = 1
  /\ driverAt' = PollEnd
  /\ UNCHANGED <<call, result, gain>>

(* Mutant of PollStale: the loop ends only by what this transfer brings.   *)
PollStaleOn ==
  /\ driverAt \in Polls
  /\ data_error = 1
  /\ UNCHANGED adcVars

(* check_data_ready finds data_error set by a failed SendMode, after one   *)
(* more transfer that it does not look at.                                 *)
PollStale ==
  /\ driverAt \in Polls
  /\ data_error = 1
  /\ driverAt' = PollEnd
  /\ UNCHANGED <<data_error, call, result, failed, gain>>

PollReady ==
  /\ driverAt \in Polls
  /\ data_error = 0
  /\ 0 \in TransferErrors
  /\ driverAt' = PollEnd
  /\ UNCHANGED <<data_error, call, result, failed, gain>>

PollNotReady ==
  /\ driverAt \in Polls
  /\ data_error = 0
  /\ 0 \in TransferErrors
  /\ UNCHANGED adcVars

(* The check_err after the loop of setup_AD7794. *)
SetupEnd ==
  /\ driverAt = "sEnd"
  /\ Return(IF data_error = 1 THEN 0 ELSE 1)
  /\ data_error' = 0
  /\ UNCHANGED <<failed, gain>>

(* Mutant of Marked: the result is not made different from 0. *)
MarkedNot(w) == w

(* (x & 0xffffff) | 1 *)
Marked(w) == OddOf(w)

(* The read of the data register, also after an error in the loop. *)
ReadData ==
  /\ driverAt = "rData"
  /\ \E err \in TransferErrors, w \in Words :
       /\ failed' = IF err = 1 THEN 1 ELSE failed
       /\ Return(IF err + data_error = 0 THEN Marked(w) ELSE 0)
  /\ data_error' = 0
  /\ UNCHANGED gain

(* reset_AD7794 looks at no result, and sets no data_error. *)
reset_AD7794 ==
  /\ driverAt = "idle"
  /\ UNCHANGED adcVars

AdcNext ==
  \/ setup_AD7794 \/ read_AD7794 \/ reset_AD7794
  \/ \E g \in 0..8 : ChangeGain(g)
  \/ Send \/ SendMode
  \/ PollFails \/ PollStale \/ PollReady \/ PollNotReady
  \/ SetupEnd \/ ReadData

AdcSpec == AdcInit /\ [][AdcNext]_adcVars

(* The driver goes on; a chip that is asked again and again gets ready or  *)
(* errs (an assumption on the chip: nothing in the code bounds the loop).  *)
Goes == Send \/ SendMode \/ PollStale \/ SetupEnd \/ ReadData
ChipAnswers == PollReady \/ PollFails

-----------------------------------------------------------------------------
(* Properties. *)

(* No call leaves data_error set for the next one, whichever of its        *)
(* transfers failed and on whichever of the ways out, past the transfer    *)
(* that is not checked too: the next call's check_err would report a       *)
(* failure that it did not have.                                           *)
NoStaleError == driverAt = "idle" => data_error = 0

(* "0 is error": setup_AD7794 and read_AD7794 return 0 if, and only if, a  *)
(* transfer of this very call failed or the chip reported an error; no     *)
(* conversion, 0 included, is taken for an error.                          *)
ZeroIsError ==
  [][driverAt # "idle" /\ driverAt' = "idle" => (result' = 0 <=> failed' = 1)]_adcVars

(* Every call comes to an end if the chip gets ready or errs, and one whose*)
(* write of the mode failed as well, when there is nothing to wait for.    *)
CallReturns == driverAt # "idle" ~> driverAt = "idle"

=============================================================================
