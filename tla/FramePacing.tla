---------------------------- MODULE FramePacing ----------------------------
(***************************************************************************)
(* Whose output is sent.  usbd_cdc_SOF counts the frames of both ports in  *)
(* one static FrameCount, and calls Handle_USBAsynchXfer when the count is *)
(* full, for the port whose frame it is; that port's ring is looked at,    *)
(* the other one's waits until one of its own frames finds the count full. *)
(* The frames of two hosts come once in a millisecond each, and slip       *)
(* against each other now and then: clocks drift, a port is unplugged.     *)
(***************************************************************************)
EXTENDS Naturals

CONSTANTS
  FramePorts,
  FrameInterval,   \* CDC_IN_FRAME_INTERVAL: 5
  NoPort

(* There are the two cores USB_OTG_devA and USB_OTG_devB.                  *)
ASSUME FrameAssumption ==
  /\ \E a, b \in FramePorts : FramePorts = {a, b}
  /\ FrameInterval \in Nat /\ FrameInterval % 2 = 1
  /\ NoPort \notin FramePorts

VARIABLES
  FrameCount,
  lastFrame,   \* the port whose frame came last
  served,      \* the port that Handle_USBAsynchXfer was called for last
  evenly       \* history: since then every frame followed one of the other port

frameVars == <<FrameCount, lastFrame, served, evenly>>

FrameInit ==
  /\ FrameCount = 0
  /\ lastFrame = NoPort
  /\ served = NoPort
  /\ evenly = TRUE

(* Mutant of IsDue: ++FrameCount in place of FrameCount++. *)
IsDueBefore == FrameCount + 1 = FrameInterval

(* FrameCount++ == CDC_IN_FRAME_INTERVAL *)
IsDue == FrameCount = FrameInterval

usbd_cdc_SOF(p) ==
  /\ FrameCount' = IF IsDue THEN 0 ELSE FrameCount + 1
  /\ served' = IF IsDue THEN p ELSE served
  /\ evenly' = (IsDue \/ (evenly /\ lastFrame # p))
  /\ lastFrame' = p

FrameNext == \E p \in FramePorts : usbd_cdc_SOF(p)

FrameSpec == FrameInit /\ [][FrameNext]_frameVars

-----------------------------------------------------------------------------
(* Properties. *)

(* FrameCount takes an even number of values, since CDC_IN_FRAME_INTERVAL  *)
(* is odd.  So with two ports whose frames alternate it is always the same *)
(* one whose ring is served; what is written to the other one stays in its *)
(* ring, and is overwritten there, until the frames slip by one.           *)
SameServed ==
  [][\A p \in FramePorts :
       usbd_cdc_SOF(p) /\ IsDue /\ served # NoPort /\ evenly /\ lastFrame # p
         => p = served]_frameVars

=============================================================================
