------------------------------ MODULE VhciAttach ------------------------------
(***************************************************************************)
(* How start() finds a port of the vhci driver and attaches its device:    *)
(* usbip_vhci_driver_open, usbip_vhci_get_free_port and                    *)
(* usbip_vhci_attach_device2 of USBIPLib.cpp, called by several processes  *)
(* that share the kernel's ports with devices of other programs.  A        *)
(* process works on a copy of the port table; nothing keeps the ports as   *)
(* they were when it read them.                                            *)
(***************************************************************************)
EXTENDS Integers, Sequences, FiniteSets

CONSTANTS
  Starters,     \* processes, each with one VirtualUSBDevice to start
  Foreign,      \* stands for every other program that attaches devices
  NPorts,       \* the number of ports
  HubOf,        \* the hub of each port: "high" or "super"
  Controllers,  \* the sets of ports listed in the files status, status.1, ...
  BcdUSB, BcdDevice  \* two fields of each process's device descriptor

Ports  == 0 .. NPorts - 1
NoPort == -1
NoOne  == "nobody"

ASSUME VhciAssumption ==
  /\ Foreign \notin Starters /\ NoOne \notin Starters /\ Foreign # NoOne
  /\ NPorts \in Nat \ {0}
  /\ HubOf \in [Ports -> {"high", "super"}]
  /\ Controllers \in Seq(SUBSET Ports)
  /\ \A i \in Ports : \E c \in DOMAIN Controllers : i \in Controllers[c]
  /\ BcdUSB \in [Starters -> Nat] /\ BcdDevice \in [Starters -> Nat]

VARIABLES
  vhci,    \* the kernel's ports: [status, owner, speed]
  pc,      \* where start() of each process is
  table,   \* vhci_driver->idev: the status of each port when it was read
  unread,  \* the controllers whose status is still to be read
  used,    \* used ports of the last status, not yet looked up
  port,    \* usbipPort
  handle,  \* vhci_driver is open
  why,     \* why start() failed
  busy     \* history: ports that were taken at some moment of this start()

vars == <<vhci, pc, table, unread, used, port, handle, why, busy>>

(* VDEV_ST_NULL, VDEV_ST_NOTASSIGNED and VDEV_ST_USED; a device is in use  *)
(* a little before udev knows it ("used") and until it leaves ("listed").  *)
Statuses == {"null", "notAssigned", "used", "listed"}
Speeds   == {"none", "full", "high", "super", "superPlus", "invalid"}
Vacant   == [status |-> "null", owner |-> NoOne, speed |-> "none"]
Opening  == {"reading", "lookup", "choosing", "attaching"}
Causes   == {"none", "early", "lookup", "full", "attach"}

SpeedFromBCDUSB(bcd) ==
  CASE bcd \in {256, 272} -> "full"       \* 0x0100, 0x0110
    [] bcd = 512          -> "high"       \* 0x0200
    [] bcd = 768          -> "super"      \* 0x0300
    [] bcd \in {784, 800} -> "superPlus"  \* 0x0310, 0x0320
    [] OTHER              -> "invalid"

Speed(p) == SpeedFromBCDUSB(BcdDevice[p])

(* The ports usbip_vhci_get_free_port considers: only "super" is looked    *)
(* for on the SuperSpeed hub.                                              *)
Fits(p) == {i \in Ports : HubOf[i] = IF Speed(p) = "super" THEN "super" ELSE "high"}

\* Mutant: the first port is skipped.
FreePortsButFirst(p) == {i \in Fits(p) : i > 0 /\ table[p][i] = "null"}

FreePorts(p) == {i \in Fits(p) : table[p][i] = "null"}

Goto(p, label) == pc' = [pc EXCEPT ![p] = label]

Fail(p, cause) == Goto(p, "failed") /\ why' = [why EXCEPT ![p] = cause]

CloseDriver(p) ==
  /\ handle' = [handle EXCEPT ![p] = FALSE]
  /\ table' = [table EXCEPT ![p] = [i \in Ports |-> "unread"]]

Taken(i) == vhci[i].status # "null"

SetPort(i, record) ==
  /\ vhci' = [vhci EXCEPT ![i] = record]
  /\ busy' = [p \in Starters |->
                IF pc[p] \in Opening /\ record # Vacant THEN busy[p] \cup {i} ELSE busy[p]]
------------------------------------------------------------------------------
(***************************************************************************)
(* usbip_vhci_driver_open.                                                 *)
(***************************************************************************)
(* The speed is invalid, there is no socket pair, or no usable vhci driver.*)
FailEarly(p) ==
  /\ pc[p] = "idle"
  /\ Fail(p, "early")
  /\ UNCHANGED <<vhci, table, unread, used, port, handle, busy>>

(* The table is allocated, with zeros in it, which is no port status.      *)
Open(p) ==
  /\ pc[p] = "idle"
  /\ Speed(p) # "invalid"
  /\ handle' = [handle EXCEPT ![p] = TRUE]
  /\ busy' = [busy EXCEPT ![p] = {i \in Ports : Taken(i)}]
  /\ Goto(p, "reading")
  /\ UNCHANGED <<vhci, table, unread, used, port, why>>

(* The status file of the next controller is read, in one piece.           *)
ReadStatus(p) ==
  /\ pc[p] = "reading" /\ unread[p] # <<>>
  /\ LET listed == Head(unread[p]) IN
       /\ table' = [table EXCEPT ![p] =
                      [i \in Ports |-> IF i \in listed THEN vhci[i].status ELSE @[i]]]
       /\ used' = [used EXCEPT ![p] = {i \in listed : vhci[i].status \in {"used", "listed"}}]
  /\ unread' = [unread EXCEPT ![p] = Tail(@)]
  /\ Goto(p, "lookup")
  /\ UNCHANGED <<vhci, port, handle, why, busy>>

(* A status file cannot be read, or has no header line: the open fails.    *)
ReadStatusFails(p) ==
  /\ pc[p] = "reading" /\ unread[p] # <<>>
  /\ CloseDriver(p)
  /\ Fail(p, "lookup")
  /\ UNCHANGED <<vhci, unread, used, port, busy>>

(* Each used port's device is looked up in turn; a device that is not      *)
(* there (yet, or any more) makes the open fail, which frees the table.    *)
LookUp(p) ==
  /\ pc[p] = "lookup"
  /\ \E i \in used[p] :
       /\ \A j \in used[p] : i <= j
       /\ used' = [used EXCEPT ![p] = @ \ {i}]
       /\ \/ /\ vhci[i].status = "listed"
             /\ UNCHANGED <<pc, table, handle, why>>
          \/ /\ vhci[i].status # "listed"
             /\ CloseDriver(p)
             /\ Fail(p, "lookup")
  /\ UNCHANGED <<vhci, unread, port, busy>>

LookedUp(p) ==
  /\ pc[p] = "lookup" /\ used[p] = {}
  /\ Goto(p, IF unread[p] = <<>> THEN "choosing" ELSE "reading")
  /\ UNCHANGED <<vhci, table, unread, used, port, handle, why, busy>>

(***************************************************************************)
(* The loop of start().  The table is not read again.                      *)
(***************************************************************************)
\* Mutant: the result is not compared with 0.
ChooseUnchecked(p) ==
  /\ pc[p] = "choosing"
  /\ port' = [port EXCEPT ![p] = IF FreePorts(p) = {} THEN NoPort ELSE @]
  /\ Goto(p, "attaching")
  /\ UNCHANGED <<vhci, table, unread, used, handle, why, busy>>

Choose(p) ==
  /\ pc[p] = "choosing"
  /\ \/ \E i \in FreePorts(p) :
          /\ \A j \in FreePorts(p) : i <= j
          /\ port' = [port EXCEPT ![p] = i]
          /\ Goto(p, "attaching")
          /\ UNCHANGED why
     \/ /\ FreePorts(p) = {}
        /\ port' = [port EXCEPT ![p] = NoPort]
        /\ Fail(p, "full")
  /\ UNCHANGED <<vhci, table, unread, used, handle, busy>>

\* Mutant: the loop is not left.
AttachAgain(p) ==
  /\ pc[p] = "attaching" /\ ~Taken(port[p])
  /\ SetPort(port[p], [status |-> "notAssigned", owner |-> p, speed |-> Speed(p)])
  /\ Goto(p, "choosing")
  /\ UNCHANGED <<table, unread, used, port, handle, why>>

\* Mutant: the driver is only closed when the attach failed.
AttachKeepsDriver(p) ==
  /\ pc[p] = "attaching" /\ ~Taken(port[p])
  /\ SetPort(port[p], [status |-> "notAssigned", owner |-> p, speed |-> Speed(p)])
  /\ Goto(p, "started")
  /\ UNCHANGED <<table, unread, used, port, handle, why>>

Attach(p) ==
  /\ pc[p] = "attaching" /\ ~Taken(port[p])
  /\ SetPort(port[p], [status |-> "notAssigned", owner |-> p, speed |-> Speed(p)])
  /\ CloseDriver(p)
  /\ Goto(p, "started")
  /\ UNCHANGED <<unread, used, port, why>>

\* Mutant: the result of the attach is not looked at.
AttachBusyIgnored(p) ==
  /\ pc[p] = "attaching" /\ Taken(port[p])
  /\ Goto(p, "started")
  /\ UNCHANGED <<vhci, table, unread, used, port, handle, why, busy>>

(* EBUSY: somebody else took the port in the meantime.                     *)
AttachBusy(p) ==
  /\ pc[p] = "attaching" /\ Taken(port[p])
  /\ Goto(p, "choosing")
  /\ UNCHANGED <<vhci, table, unread, used, port, handle, why, busy>>

(* Any other error of the write to the attribute.                          *)
AttachFails(p) ==
  /\ pc[p] = "attaching"
  /\ Fail(p, "attach")
  /\ UNCHANGED <<vhci, table, unread, used, port, handle, busy>>

StartStep(p) ==
  \/ Open(p) \/ FailEarly(p)
  \/ ReadStatus(p) \/ ReadStatusFails(p) \/ LookUp(p) \/ LookedUp(p)
  \/ Choose(p) \/ Attach(p) \/ AttachBusy(p) \/ AttachFails(p)

(***************************************************************************)
(* The kernel and the other programs.  A started device ends (see          *)
(* DeviceThreads) before the kernel gives its port back.                   *)
(***************************************************************************)
End(p) ==
  /\ pc[p] = "started"
  /\ Goto(p, "over")
  /\ UNCHANGED <<vhci, table, unread, used, port, handle, why, busy>>

Release(i) ==
  /\ vhci[i].owner = Foreign \/ \E p \in Starters : vhci[i].owner = p /\ pc[p] = "over"
  /\ SetPort(i, Vacant)
  /\ UNCHANGED <<pc, table, unread, used, port, handle, why>>

Enumerate(i) ==
  /\ \/ /\ vhci[i].status = "notAssigned"
        /\ SetPort(i, [vhci[i] EXCEPT !.status = "used"])
     \/ /\ vhci[i].status = "used"
        /\ SetPort(i, [vhci[i] EXCEPT !.status = "listed"])
  /\ UNCHANGED <<pc, table, unread, used, port, handle, why>>

ForeignAttach(i) ==
  /\ ~Taken(i)
  /\ SetPort(i, [status |-> "notAssigned", owner |-> Foreign, speed |-> "high"])
  /\ UNCHANGED <<pc, table, unread, used, port, handle, why>>

Kernel == \E i \in Ports : Release(i) \/ Enumerate(i) \/ ForeignAttach(i)
------------------------------------------------------------------------------
Init ==
  /\ vhci = [i \in Ports |-> Vacant]
  /\ pc = [p \in Starters |-> "idle"]
  /\ table = [p \in Starters |-> [i \in Ports |-> "unread"]]
  /\ unread = [p \in Starters |-> Controllers]
  /\ used = [p \in Starters |-> {}]
  /\ port = [p \in Starters |-> NoPort]
  /\ handle = [p \in Starters |-> FALSE]
  /\ why = [p \in Starters |-> "none"]
  /\ busy = [p \in Starters |-> {}]

Next == Kernel \/ \E p \in Starters : StartStep(p) \/ End(p)

Spec == Init /\ [][Next]_vars

(* start() runs on; nobody has to attach, enumerate or release anything.   *)
FairSpec == Spec /\ \A p \in Starters : WF_vars(StartStep(p))
------------------------------------------------------------------------------
(***************************************************************************)
(* Properties.                                                             *)
(***************************************************************************)
TypeOK ==
  /\ vhci \in [Ports -> [status : Statuses, owner : Starters \cup {Foreign, NoOne},
                         speed : Speeds]]
  /\ pc \in [Starters -> Opening \cup {"idle", "started", "over", "failed"}]
  /\ table \in [Starters -> [Ports -> Statuses \cup {"unread"}]]
  /\ unread \in [Starters -> Seq(SUBSET Ports)]
  /\ used \in [Starters -> SUBSET Ports]
  /\ port \in [Starters -> Ports \cup {NoPort}]
  /\ handle \in [Starters -> BOOLEAN]
  /\ why \in [Starters -> Causes]
  /\ busy \in [Starters -> SUBSET Ports]
  /\ \A p \in Starters : pc[p] \in {"attaching", "started"} => port[p] \in Ports

(* A device that start() reports as started has the port it asked for, and *)
(* a process has no other port, whether its start() succeeded or failed,   *)
(* however many others raced for the same free port (start 80-95).         *)
PortsMatch ==
  \A p \in Starters :
    /\ pc[p] = "started" => vhci[port[p]].owner = p
    /\ \A i \in Ports : vhci[i].owner = p => i = port[p] /\ pc[p] \in {"started", "over"}

(* start() fails for want of a port only if every port it could use was    *)
(* taken at some moment since it began, although it looks at a copy of the *)
(* table put together at several moments (usbip_vhci_get_free_port,        *)
(* refresh_imported_device_list).                                          *)
FullWasFull ==
  \A p \in Starters : why[p] = "full" => Fits(p) \subseteq busy[p]

(* start() goes on retrying only as long as others keep taking the port it *)
(* read as free; it does not starve by itself (start 80-95).               *)
TakenByOther(p) == port[p] \in Ports /\ vhci[port[p]].owner \notin {p, NoOne}

RetryNeedsContention ==
  \A p \in Starters : []<>(pc[p] \in Opening) => []<>TakenByOther(p)

(* The driver's handle is there as long as start() uses it and freed when  *)
(* the device is started.  "will be freed in usbip_driver_close()"         *)
(* (USBIPLib.cpp 335) does not hold for two ways to fail: no free port and *)
(* a failed attach leave it open (start 80-97).                            *)
DriverHandle ==
  \A p \in Starters :
    /\ pc[p] \in Opening => handle[p]
    /\ pc[p] \in {"idle", "started", "over"} => ~handle[p]
    /\ pc[p] = "failed" => (handle[p] <=> why[p] \in {"full", "attach"})

(* A device is attached with the speed that its bcdUSB declares            *)
(* (VirtualUSBDevice.h 89, VirtualUSBDevice.cpp 330-349).                  *)
SpeedIsDeclared ==
  \A p \in Starters :
    pc[p] = "started" => vhci[port[p]].speed = SpeedFromBCDUSB(BcdUSB[p])
==============================================================================
