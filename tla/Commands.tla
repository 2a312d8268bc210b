------------------------------ MODULE Commands ------------------------------
(***************************************************************************)
(* What commands come to, as TLC checks it: how a packet gets to the parser*)
(* over USB, what three contexts that parse or press the button at the same*)
(* time do to LED_delay, and how the driver of the ADC that commands switch*)
(* on fails.  The three share no state; the initial states choose the one  *)
(* that is watched.                                                        *)
(***************************************************************************)
EXTENDS LedDelay, UsbInput, Ad7794

VARIABLE watched

commandsVars == <<vars, inputVars, adcVars, watched>>

CommandsInit ==
  /\ Init /\ InputInit /\ AdcInit
  /\ watched \in {"delay", "input", "adc"}

CommandsNext ==
  /\ UNCHANGED watched
  /\ \/ watched = "delay" /\ Next /\ UNCHANGED <<inputVars, adcVars>>
     \/ watched = "input" /\ InputNext /\ UNCHANGED <<vars, adcVars>>
     \/ watched = "adc" /\ AdcNext /\ UNCHANGED <<vars, inputVars>>

(* A call of the driver goes on, and its chip answers. *)
CommandsSpec ==
  /\ CommandsInit /\ [][CommandsNext]_commandsVars
  /\ WF_adcVars(watched = "adc" /\ Goes)
  /\ WF_adcVars(watched = "adc" /\ ChipAnswers)

=============================================================================
