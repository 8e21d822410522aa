------------------------------- MODULE MCHost -------------------------------
(***************************************************************************)
(* A device with an IN and an OUT endpoint of the same index on different  *)
(* interfaces, a device with one interface, and one whose second interface *)
(* has no altsetting.                                                      *)
(***************************************************************************)
EXTENDS UsbHostDevice, TLC

CONSTANTS d1, d2, d3

Interfaces ==
  (d1 :> << [number |-> 0, endpoints |-> {1},   altsetting |-> TRUE],
            [number |-> 1, endpoints |-> {129}, altsetting |-> TRUE] >>) @@
  (d2 :> << [number |-> 2, endpoints |-> {2},   altsetting |-> TRUE] >>) @@
  (d3 :> << [number |-> 0, endpoints |-> {1},   altsetting |-> TRUE],
            [number |-> 1, endpoints |-> {},    altsetting |-> FALSE] >>)
==============================================================================
