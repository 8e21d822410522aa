---------------------------- MODULE UsbHostDevice ----------------------------
(***************************************************************************)
(* USBDevice.cpp: a wrapper of libusb for programs that talk to a device.  *)
(* A USBDevice object owns one reference to its libusb device              *)
(* (RefCounted.h).  What was found out about interfaces and endpoints, and *)
(* the open handle, are globals that all objects share.  Nothing here is   *)
(* concurrent, but nearly every call can fail.                             *)
(***************************************************************************)
EXTENDS Integers, Sequences, FiniteSets

CONSTANTS
  Devs,      \* the devices libusb may find
  Ifaces,    \* the interfaces of each: [number, endpoints, altsetting]
  Addrs,     \* the endpoint addresses of these devices
  NoDev,
  MaxCalls   \* bound: lists taken

Interface == [number : Nat, endpoints : SUBSET Addrs, altsetting : BOOLEAN]

ASSUME HostAssumption ==
  /\ Ifaces \in [Devs -> Seq(Interface)]
  /\ Addrs \subseteq (0 .. 15) \cup (128 .. 143)
  /\ NoDev \notin Devs
  /\ MaxCalls \in Nat

VARIABLES
  interfaces,  \* _interfaces
  epInfos,     \* _epInfos: per offset the interface index of the endpoint
  handle,      \* the device _handle was opened for, or NoDev
  objects,     \* number of USBDevice objects of each device
  refs,        \* references to each device that this code holds
  listing,     \* get_free_devs() is at work
  listed,      \* its device list, each with a reference
  made,        \* the devices of the objects in its result
  kernel,      \* interface numbers claimed with the handle
  seen,        \* history: devices of which an object was ever constructed
  last,        \* history: the last transfer
  calls        \* number of lists taken

vars == <<interfaces, epInfos, handle, objects, refs, listing, listed, made, kernel,
          seen, last, calls>>

Offsets == 0 .. 31

\* Mutant: IN and OUT endpoints share an entry.
OffsetOfIndex(addr) == addr % 16

OffsetForEndpointAddr(addr) == (IF addr >= 128 THEN 16 ELSE 0) + (addr % 16)

Count(d, set) == IF d \in set THEN 1 ELSE 0

NoTransfer == [from |-> NoDev, to |-> NoDev, addr |-> 0, claimed |-> {}]

(***************************************************************************)
(* get_free_devs(), one constructor at a time.                             *)
(***************************************************************************)
(* libusb_get_device_list retains every device it lists.                   *)
List ==
  /\ ~listing /\ calls < MaxCalls
  /\ listing' = TRUE
  /\ calls' = calls + 1
  /\ \E found \in SUBSET Devs :
       /\ listed' = found
       /\ refs' = [d \in Devs |-> refs[d] + Count(d, found)]
  /\ made' = {}
  /\ UNCHANGED <<interfaces, epInfos, handle, objects, kernel, seen, last>>

(* Interface i of a device has an endpoint at offset o.                    *)
Owns(d, i, o) == \E a \in Ifaces[d][i].endpoints : OffsetForEndpointAddr(a) = o

(* The last owner among the first n interfaces is the one that stays.      *)
LastOwner(d, n, o, i) == Owns(d, i, o) /\ \A j \in i + 1 .. n : ~Owns(d, j, o)

FirstIfaces(d, n) ==
  [i \in 1 .. n |-> [number |-> Ifaces[d][i].number, claimed |-> FALSE]]

EpInfosAfter(d, n) ==
  [o \in Offsets |-> IF \E i \in 1 .. n : LastOwner(d, n, o, i)
                     THEN CHOOSE i \in 1 .. n : LastOwner(d, n, o, i)
                     ELSE epInfos[o]]

\* Mutant: the list of interfaces starts again with every device.
PopulateAfresh(d, n) ==
  /\ interfaces' = FirstIfaces(d, n)
  /\ epInfos' = EpInfosAfter(d, n)
  /\ seen' = seen \cup {d}

(* The constructor's loop over the first n interfaces of a device.         *)
Populate(d, n) ==
  /\ interfaces' = interfaces \o FirstIfaces(d, n)
  /\ epInfos' = EpInfosAfter(d, n)
  /\ seen' = seen \cup {d}

Usable(d) == \A i \in DOMAIN Ifaces[d] : Ifaces[d][i].altsetting

Construct(d) ==
  /\ listing /\ d \in listed \ made
  /\ Usable(d)
  /\ Populate(d, Len(Ifaces[d]))
  /\ refs' = [refs EXCEPT ![d] = @ + 1]
  /\ made' = made \cup {d}
  /\ UNCHANGED <<handle, objects, listing, listed, kernel, last, calls>>

(* The constructor throws, before its loop or at an interface without an   *)
(* altsetting: the objects made so far and the list are given back.        *)
\* Mutant: only the objects are.
GiveUpList ==
  /\ listing' = FALSE /\ listed' = {} /\ made' = {}
  /\ refs' = [d \in Devs |-> refs[d] - Count(d, made)]

GiveUp ==
  /\ listing' = FALSE /\ listed' = {} /\ made' = {}
  /\ refs' = [d \in Devs |-> refs[d] - Count(d, made) - Count(d, listed)]

FailConstruct(d) ==
  /\ listing /\ d \in listed \ made
  /\ \/ UNCHANGED <<interfaces, epInfos, seen>>
     \/ \E n \in 0 .. Len(Ifaces[d]) - 1 :
          /\ ~Ifaces[d][n + 1].altsetting
          /\ \A i \in 1 .. n : Ifaces[d][i].altsetting
          /\ Populate(d, n)
  /\ GiveUp
  /\ UNCHANGED <<handle, objects, kernel, last, calls>>

EndList ==
  /\ listing /\ listed = made
  /\ objects' = [d \in Devs |-> objects[d] + Count(d, made)]
  /\ refs' = [d \in Devs |-> refs[d] - Count(d, listed)]
  /\ listing' = FALSE /\ listed' = {} /\ made' = {}
  /\ UNCHANGED <<interfaces, epInfos, handle, kernel, seen, last, calls>>

Destroy(d) ==
  /\ ~listing /\ objects[d] > 0
  /\ objects' = [objects EXCEPT ![d] = @ - 1]
  /\ refs' = [refs EXCEPT ![d] = @ - 1]
  /\ UNCHANGED <<interfaces, epInfos, handle, listing, listed, made, kernel, seen, last, calls>>

(***************************************************************************)
(* Calls of an object of device d.                                         *)
(***************************************************************************)
OpenIfNeeded(d) == handle' = IF handle = NoDev THEN d ELSE handle

Numbers(d) == {Ifaces[d][i].number : i \in DOMAIN Ifaces[d]}

(* _claimInterfaceForEndpointAddr once the device is open; a claim may     *)
(* fail, and does if the opened device has no such interface.              *)
\* Mutant: the interface is marked before it is claimed.
ClaimMarksFirst(i) ==
  /\ ~interfaces[i].claimed
  /\ interfaces' = [interfaces EXCEPT ![i].claimed = TRUE]
  /\ \/ /\ interfaces[i].number \in Numbers(handle')
        /\ kernel' = kernel \cup {interfaces[i].number}
     \/ UNCHANGED kernel

Claim(i) ==
  /\ ~interfaces[i].claimed
  /\ interfaces[i].number \in Numbers(handle')
  /\ kernel' = kernel \cup {interfaces[i].number}
  /\ interfaces' = [interfaces EXCEPT ![i].claimed = TRUE]

(* read(), write() and reset(): the transfer itself may fail too, which    *)
(* changes nothing here.                                                   *)
Transfer(d, addr) ==
  LET i == epInfos[OffsetForEndpointAddr(addr)] IN
  /\ ~listing /\ objects[d] > 0
  /\ OpenIfNeeded(d)
  /\ i # 0
  /\ \/ interfaces[i].claimed /\ UNCHANGED <<interfaces, kernel>>
     \/ Claim(i)
  /\ last' = [from |-> d, to |-> handle', addr |-> addr, claimed |-> kernel']
  /\ UNCHANGED <<epInfos, objects, refs, listing, listed, made, seen, calls>>

(* The same calls when the endpoint is unknown or the claim fails, and the *)
(* calls that only need the device open: descriptors and vendor requests.  *)
OnlyOpen(d) ==
  /\ ~listing /\ objects[d] > 0
  /\ OpenIfNeeded(d)
  /\ UNCHANGED <<interfaces, epInfos, objects, refs, listing, listed, made, kernel, seen,
                 last, calls>>
------------------------------------------------------------------------------
Init ==
  /\ interfaces = <<>>
  /\ epInfos = [o \in Offsets |-> 0]
  /\ handle = NoDev
  /\ objects = [d \in Devs |-> 0]
  /\ refs = [d \in Devs |-> 0]
  /\ listing = FALSE /\ listed = {} /\ made = {}
  /\ kernel = {}
  /\ seen = {}
  /\ last = NoTransfer
  /\ calls = 0

Next ==
  \/ List \/ EndList
  \/ \E d \in Devs :
       \/ Construct(d) \/ FailConstruct(d) \/ Destroy(d) \/ OnlyOpen(d)
       \/ \E addr \in Addrs : Transfer(d, addr)

Spec == Init /\ [][Next]_vars
------------------------------------------------------------------------------
Transfers ==
  [from : Devs \cup {NoDev}, to : Devs \cup {NoDev}, addr : 0 .. 255, claimed : SUBSET Nat]

TablesOK ==
  /\ interfaces \in Seq([number : Nat, claimed : BOOLEAN])
  /\ epInfos \in [Offsets -> 0 .. Len(interfaces)]

ListsOK ==
  /\ listing \in BOOLEAN /\ listed \subseteq Devs /\ made \subseteq listed
  /\ ~listing => listed = {}

CountsOK ==
  objects \in [Devs -> Nat] /\ refs \in [Devs -> Int] /\ calls \in 0 .. MaxCalls

UseOK ==
  /\ handle \in Devs \cup {NoDev} /\ kernel \subseteq Nat /\ seen \subseteq Devs
  /\ last \in Transfers

(* Every endpoint in the table names an interface in the list, whatever    *)
(* devices came and went: _interfaces.at() never throws.                   *)
TypeOK == TablesOK /\ ListsOK /\ CountsOK /\ UseOK

(* The references to a device are those of its live objects, and none is   *)
(* left when the last is gone: also when a constructor throws halfway      *)
(* through a list (RefCounted, and the Defer of get_free_devs).            *)
RefsBalanced ==
  \A d \in Devs : refs[d] = objects[d] + Count(d, made) + Count(d, listed)

(* An interface that is marked as claimed has been claimed: a claim that   *)
(* failed is made again by the next transfer.                              *)
ClaimsKept ==
  \A i \in DOMAIN interfaces : interfaces[i].claimed => interfaces[i].number \in kernel

(* As long as objects of one device only were ever made, a transfer goes   *)
(* to that device with the interface claimed that has the endpoint, also   *)
(* after the device was listed again or its objects were replaced.  With a *)
(* second device neither is true: the handle and the tables are shared.    *)
SoleDeviceServed ==
  last.from # NoDev /\ seen = {last.from} =>
    /\ last.to = last.from
    /\ \E i \in DOMAIN Ifaces[last.from] :
         /\ Ifaces[last.from][i].number \in last.claimed
         /\ last.addr \in Ifaces[last.from][i].endpoints
==============================================================================
