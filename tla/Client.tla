-------------------------------- MODULE Client --------------------------------
(***************************************************************************)
(* What the models of the client's screens share: something is on the      *)
(* screen or not, what people do is bounded, and so are the requests that  *)
(* fail.  Fetches, answers and timers are free.                            *)
(***************************************************************************)
EXTENDS Null, Naturals

CONSTANTS
    MaxActs,    \* bound: clicks, keystrokes, leavings, reconnects, changes by others
    MaxFaults   \* bound: requests that fail or lose their answer

ASSUME BoundsAssumption == {MaxActs, MaxFaults} \subseteq Nat

VARIABLES
    open,    \* the component is mounted
    acts, faults

Act == acts < MaxActs /\ acts' = acts + 1
Fault == faults < MaxFaults /\ faults' = faults + 1
=============================================================================
