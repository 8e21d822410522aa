------------------------------- MODULE MCVhci -------------------------------
(* Instance of VhciAttach: high-speed ports, each on a controller of its   *)
(* own, and processes with the descriptor fields of Descriptor.h.          *)
EXTENDS VhciAttach, Descriptors

MCHubOf       == [i \in Ports |-> "high"]
MCControllers == <<{i \in Ports : i < 1}, {i \in Ports : i >= 1}>>
MCBcdUSB      == [p \in Starters |-> Device.bcdUSB]
MCBcdDevice   == [p \in Starters |-> Device.bcdDevice]
==============================================================================
