------------------------------ MODULE UrbService ------------------------------
(***************************************************************************)
(* What a VirtualUSBDevice promises the host's USB/IP driver about every   *)
(* transfer (URB) the driver submits, whatever queues and threads lie in   *)
(* between: it is decided once.  It is either returned, with its result,   *)
(* or cancelled by an unlink; an unlink that comes too late is told so,    *)
(* and only after the URB was returned.                                    *)
(***************************************************************************)
EXTENDS Sequences

CONSTANT Urbs  \* the URBs the driver may submit

VARIABLES
  open,      \* the URBs submitted and not yet decided
  verdicts   \* what the device has answered, in order

vars == <<open, verdicts>>

Verdict == [urb : Urbs, verdict : {"returned", "cancelled", "missed"}]

Answered(u, verdict) == \E i \in DOMAIN verdicts :
                          verdicts[i] = [urb |-> u, verdict |-> verdict]

Init == open = {} /\ verdicts = <<>>

Answer(u, verdict) == verdicts' = Append(verdicts, [urb |-> u, verdict |-> verdict])

Submit(u) ==
  /\ u \notin open
  /\ ~Answered(u, "returned") /\ ~Answered(u, "cancelled")
  /\ open' = open \cup {u}
  /\ UNCHANGED verdicts

Return(u) == u \in open /\ open' = open \ {u} /\ Answer(u, "returned")

Cancel(u) == u \in open /\ open' = open \ {u} /\ Answer(u, "cancelled")

Miss(u) == Answered(u, "returned") /\ Answer(u, "missed") /\ UNCHANGED open

Next == \E u \in Urbs : Submit(u) \/ Return(u) \/ Cancel(u) \/ Miss(u)

Spec == Init /\ [][Next]_vars
===============================================================================
