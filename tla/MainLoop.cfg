\* Every outcome of the calls; the processor returns after interrupts.
SPECIFICATION FairSpec
CONSTANTS
  AdcResults <- AnyOutcome
  EthResults <- AnyOutcome
  FrameCmds = 1
INVARIANTS FlagWasAsked NetifOnce ReadsConfiguredChip
PROPERTIES NoSpuriousService ResetEthStaysDown PassServes LoopGoesOn
