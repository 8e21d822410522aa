--------------------------- MODULE VhciAttachProofs ---------------------------
(***************************************************************************)
(* Proofs about VhciAttach, for any number of processes, ports and         *)
(* controllers: ports are not shared, and a start() that reports that no   *)
(* port was free is right.                                                 *)
(***************************************************************************)
EXTENDS VhciAttach, TLAPS

(* A port nobody holds is vacant; the kernel's half of the argument.       *)
VacantIsFree == \A i \in Ports : Taken(i) <=> vhci[i].owner # NoOne

PortInv == TypeOK /\ VacantIsFree /\ PortsMatch

(* What a process has read, and what it has missed.  A port it has not     *)
(* read yet is listed by a controller it has not read yet; whatever it     *)
(* read as taken, and whatever is taken now, was taken since it began.     *)
Unlisted(p) ==
  \A i \in Ports : table[p][i] = "unread" =>
    \E k \in DOMAIN unread[p] : i \in unread[p][k]

Noticed(p) ==
  \A i \in Ports :
    Taken(i) \/ table[p][i] \notin {"null", "unread"} => i \in busy[p]

ReadInvOf(p) ==
  /\ pc[p] \in Opening \cup {"idle"} => Unlisted(p)
  /\ pc[p] \in Opening => Noticed(p)
  /\ pc[p] = "idle" => \A i \in Ports : table[p][i] = "unread"
  /\ pc[p] \in {"choosing", "attaching"} => unread[p] = <<>>
  /\ why[p] # "none" => pc[p] = "failed"

ReadInv == \A p \in Starters : ReadInvOf(p)

LEMMA SpeedType == \A p \in Starters : Speed(p) \in Speeds
BY DEF Speed, SpeedFromBCDUSB, Speeds

------------------------------------------------------------------------------
(***************************************************************************)
(* Types.                                                                  *)
(***************************************************************************)
LEMMA TypeInit == Init => TypeOK
BY VhciAssumption DEF Init, TypeOK, Statuses, Speeds, Vacant, Opening, Causes, NoPort

LEMMA TypeStep == TypeOK /\ [Next]_vars => TypeOK'
<1> SUFFICES ASSUME TypeOK, [Next]_vars PROVE TypeOK'
  OBVIOUS
<1> USE DEF TypeOK, Goto, Fail, Causes, Opening
<1>0. ASSUME NEW p \in Starters, FailEarly(p) PROVE TypeOK'
  BY <1>0 DEF FailEarly
<1>1. ASSUME NEW p \in Starters, Open(p) PROVE TypeOK'
  <2>1. busy' \in [Starters -> SUBSET Ports]
    BY <1>1 DEF Open
  <2>2. handle' \in [Starters -> BOOLEAN]
    BY <1>1 DEF Open
  <2> QED
    BY <1>1, <2>1, <2>2 DEF Open
<1>2. ASSUME NEW p \in Starters, ReadStatus(p) PROVE TypeOK'
  <2> DEFINE listed == Head(unread[p])
  <2>1. listed \in SUBSET Ports /\ Tail(unread[p]) \in Seq(SUBSET Ports)
    BY <1>2 DEF ReadStatus
  <2>2. [i \in Ports |-> IF i \in listed THEN vhci[i].status ELSE table[p][i]]
          \in [Ports -> Statuses \cup {"unread"}]
    OBVIOUS
  <2>3. table' = [table EXCEPT ![p] =
          [i \in Ports |-> IF i \in listed THEN vhci[i].status ELSE table[p][i]]]
    BY <1>2 DEF ReadStatus
  <2>4. table' \in [Starters -> [Ports -> Statuses \cup {"unread"}]]
    BY <2>2, <2>3
  <2>5. used' \in [Starters -> SUBSET Ports]
    BY <1>2, <2>1 DEF ReadStatus
  <2>6. unread' \in [Starters -> Seq(SUBSET Ports)]
    BY <1>2, <2>1 DEF ReadStatus
  <2> QED
    BY <1>2, <2>4, <2>5, <2>6 DEF ReadStatus
<1>2a. ASSUME NEW p \in Starters, ReadStatusFails(p) PROVE TypeOK'
  <2>1. table' \in [Starters -> [Ports -> Statuses \cup {"unread"}]]
    BY <1>2a DEF ReadStatusFails, CloseDriver
  <2>2. handle' \in [Starters -> BOOLEAN]
    BY <1>2a DEF ReadStatusFails, CloseDriver
  <2> QED
    BY <1>2a, <2>1, <2>2 DEF ReadStatusFails
<1>3. ASSUME NEW p \in Starters, LookedUp(p) PROVE TypeOK'
  BY <1>3 DEF LookedUp
<1>3a. ASSUME NEW p \in Starters, LookUp(p) PROVE TypeOK'
  <2>1. used' \in [Starters -> SUBSET Ports]
    BY <1>3a DEF LookUp
  <2>2. CASE UNCHANGED <<pc, table, handle, why>>
    BY <1>3a, <2>1, <2>2 DEF LookUp
  <2>3. CASE CloseDriver(p) /\ Fail(p, "lookup")
    <3>1. table' \in [Starters -> [Ports -> Statuses \cup {"unread"}]]
      BY <2>3 DEF CloseDriver
    <3>2. handle' \in [Starters -> BOOLEAN]
      BY <2>3 DEF CloseDriver
    <3> QED
      BY <1>3a, <2>1, <2>3, <3>1, <3>2 DEF LookUp
  <2> QED
    BY <1>3a, <2>2, <2>3 DEF LookUp
<1>4. ASSUME NEW p \in Starters, Choose(p) PROVE TypeOK'
  <2>1. CASE \E i \in FreePorts(p) :
               /\ port' = [port EXCEPT ![p] = i] /\ Goto(p, "attaching") /\ UNCHANGED why
    <3>1. FreePorts(p) \subseteq Ports
      BY DEF FreePorts, Fits
    <3>2. PICK i \in Ports : port' = [port EXCEPT ![p] = i]
      BY <2>1, <3>1
    <3> QED
      BY <1>4, <2>1, <3>2 DEF Choose
  <2>2. CASE port' = [port EXCEPT ![p] = NoPort] /\ Fail(p, "full")
    BY <1>4, <2>2 DEF Choose
  <2> QED
    BY <1>4, <2>1, <2>2 DEF Choose
<1>5. ASSUME NEW p \in Starters, Attach(p) PROVE TypeOK'
  BY <1>5, SpeedType DEF Attach, SetPort, CloseDriver, Statuses
<1>6. ASSUME NEW p \in Starters, AttachBusy(p) \/ AttachFails(p) \/ End(p) PROVE TypeOK'
  BY <1>6 DEF AttachBusy, AttachFails, End
<1>7. ASSUME NEW i \in Ports, Release(i) PROVE TypeOK'
  BY <1>7 DEF Release, SetPort, Vacant, Statuses, Speeds
<1>8. ASSUME NEW i \in Ports, ForeignAttach(i) PROVE TypeOK'
  BY <1>8 DEF ForeignAttach, SetPort, Statuses, Speeds
<1>8a. ASSUME NEW i \in Ports, NEW s \in {"used", "listed"},
              SetPort(i, [vhci[i] EXCEPT !.status = s]),
              UNCHANGED <<pc, table, unread, used, port, handle, why>>
       PROVE  TypeOK'
  BY <1>8a, ZenonT(40) DEF SetPort, Statuses
<1>8b. ASSUME NEW i \in Ports, Enumerate(i) PROVE TypeOK'
  BY <1>8a, <1>8b DEF Enumerate
<1>9. CASE UNCHANGED vars
  BY <1>9 DEF vars
<1> QED
  BY <1>0, <1>1, <1>2, <1>2a, <1>3, <1>3a, <1>4, <1>5, <1>6, <1>7, <1>8, <1>8b, <1>9
  DEF Next, Kernel, StartStep

------------------------------------------------------------------------------
(***************************************************************************)
(* Ports are not shared.                                                   *)
(***************************************************************************)
LEMMA PortInit == Init => PortInv
<1> SUFFICES ASSUME Init PROVE PortInv
  OBVIOUS
<1>1. VacantIsFree
  BY DEF Init, VacantIsFree, Taken, Vacant
<1>2. PortsMatch
  BY VhciAssumption DEF Init, PortsMatch, Vacant
<1> QED
  BY <1>1, <1>2, TypeInit DEF PortInv

(* A step of a process that does not attach, or no step of a process.      *)
LEMMA PortsKept ==
  ASSUME PortInv, vhci' = vhci,
         \A p \in Starters :
           \/ pc'[p] = pc[p] /\ port'[p] = port[p]
           \/ pc[p] \notin {"started", "over"} /\ pc'[p] # "started"
           \/ pc[p] = "started" /\ pc'[p] = "over" /\ port'[p] = port[p]
  PROVE  VacantIsFree' /\ PortsMatch'
BY DEF PortInv, VacantIsFree, PortsMatch, Taken

LEMMA PortStep == PortInv /\ [Next]_vars => PortInv'
<1> SUFFICES ASSUME PortInv, [Next]_vars PROVE PortInv'
  OBVIOUS
<1>t. TypeOK'
  BY TypeStep DEF PortInv
<1>0. SUFFICES VacantIsFree' /\ PortsMatch'
  BY <1>t DEF PortInv
<1>1. ASSUME NEW p \in Starters,
             Open(p) \/ FailEarly(p) \/ ReadStatus(p) \/ ReadStatusFails(p) \/ LookUp(p)
             \/ LookedUp(p) \/ Choose(p) \/ AttachBusy(p) \/ AttachFails(p) \/ End(p)
      PROVE  VacantIsFree' /\ PortsMatch'
  <2>1. vhci' = vhci
    BY <1>1 DEF Open, FailEarly, ReadStatus, ReadStatusFails, LookUp, LookedUp, Choose,
                AttachBusy, AttachFails, End
  <2>2. ASSUME NEW q \in Starters, q # p PROVE pc'[q] = pc[q] /\ port'[q] = port[q]
    BY <1>1, <2>2 DEF Open, FailEarly, ReadStatus, ReadStatusFails, LookUp, LookedUp, Choose,
                AttachBusy, AttachFails, End, Goto, Fail, PortInv, TypeOK
  <2>3. \/ pc'[p] = pc[p] /\ port'[p] = port[p]
        \/ pc[p] \notin {"started", "over"} /\ pc'[p] # "started"
        \/ pc[p] = "started" /\ pc'[p] = "over" /\ port'[p] = port[p]
    BY <1>1 DEF Open, FailEarly, ReadStatus, ReadStatusFails, LookUp, LookedUp, Choose,
                AttachBusy, AttachFails, End, Goto, Fail, PortInv, TypeOK
  <2> QED
    BY <2>1, <2>2, <2>3, PortsKept
<1>2. ASSUME NEW p \in Starters, Attach(p) PROVE VacantIsFree' /\ PortsMatch'
  <2>1. port[p] \in Ports /\ vhci[port[p]].owner = NoOne
    BY <1>2 DEF Attach, PortInv, TypeOK, VacantIsFree, Taken
  <2>2. /\ vhci'[port[p]].owner = p /\ vhci'[port[p]].status = "notAssigned"
        /\ \A i \in Ports : i # port[p] => vhci'[i] = vhci[i]
    BY <1>2, <2>1 DEF Attach, SetPort, PortInv, TypeOK
  <2>3. /\ pc'[p] = "started" /\ port' = port
        /\ \A q \in Starters : q # p => pc'[q] = pc[q]
    BY <1>2 DEF Attach, Goto, PortInv, TypeOK
  <2>4. VacantIsFree'
    BY <2>1, <2>2, VhciAssumption DEF PortInv, VacantIsFree, Taken
  <2>5. \A i \in Ports : vhci[i].owner # p
    BY <1>2 DEF Attach, PortInv, PortsMatch
  <2>6. ASSUME NEW q \in Starters, q # p
        PROVE  /\ pc'[q] = "started" => vhci'[port'[q]].owner = q
               /\ \A i \in Ports : vhci'[i].owner = q =>
                    i = port'[q] /\ pc'[q] \in {"started", "over"}
    <3>1. pc[q] = "started" => port[q] \in Ports /\ port[q] # port[p]
      BY <2>1, VhciAssumption DEF PortInv, TypeOK, PortsMatch
    <3> QED
      BY <2>2, <2>3, <2>6, <3>1 DEF PortInv, PortsMatch
  <2>7. \A i \in Ports : vhci'[i].owner = p => i = port[p]
    BY <2>2, <2>5
  <2>8. PortsMatch'
    BY <2>2, <2>3, <2>6, <2>7 DEF PortsMatch
  <2> QED
    BY <2>4, <2>8
<1>3. ASSUME NEW i \in Ports, Release(i) PROVE VacantIsFree' /\ PortsMatch'
  <2>1. /\ vhci'[i] = Vacant /\ \A j \in Ports : j # i => vhci'[j] = vhci[j]
        /\ pc' = pc /\ port' = port
    BY <1>3 DEF Release, SetPort, PortInv, TypeOK
  <2>2. \A p \in Starters : pc[p] = "started" => port[p] \in Ports /\ port[p] # i
    BY <1>3, VhciAssumption DEF Release, PortInv, TypeOK, PortsMatch
  <2>3. VacantIsFree'
    BY <2>1 DEF PortInv, VacantIsFree, Taken, Vacant
  <2>4. PortsMatch'
    <3>1. NoOne \notin Starters
      BY VhciAssumption
    <3>2. \A p \in Starters : pc'[p] = "started" => vhci'[port'[p]].owner = p
      BY <2>1, <2>2 DEF PortInv, PortsMatch
    <3>3. \A p \in Starters, j \in Ports : vhci'[j].owner = p => j # i
      BY <2>1, <3>1 DEF Vacant
    <3>4. \A p \in Starters, j \in Ports :
             vhci'[j].owner = p => j = port'[p] /\ pc'[p] \in {"started", "over"}
      BY <2>1, <3>3 DEF PortInv, PortsMatch
    <3> QED
      BY <3>2, <3>4 DEF PortsMatch
  <2> QED
    BY <2>3, <2>4
<1>4. ASSUME NEW i \in Ports, Enumerate(i) PROVE VacantIsFree' /\ PortsMatch'
  <2>1. /\ vhci'[i].owner = vhci[i].owner /\ vhci'[i].status # "null"
        /\ vhci[i].status # "null"
        /\ \A j \in Ports : j # i => vhci'[j] = vhci[j]
        /\ pc' = pc /\ port' = port
    BY <1>4 DEF Enumerate, SetPort, PortInv, TypeOK
  <2>2. \A p \in Starters : pc[p] = "started" => port[p] \in Ports
    BY DEF PortInv, TypeOK
  <2> QED
    BY <2>1, <2>2 DEF PortInv, VacantIsFree, PortsMatch, Taken
<1>5. ASSUME NEW i \in Ports, ForeignAttach(i) PROVE VacantIsFree' /\ PortsMatch'
  <2>1. /\ vhci'[i].owner = Foreign /\ vhci'[i].status # "null"
        /\ vhci[i].owner = NoOne
        /\ \A j \in Ports : j # i => vhci'[j] = vhci[j]
        /\ pc' = pc /\ port' = port
    BY <1>5 DEF ForeignAttach, SetPort, PortInv, TypeOK, VacantIsFree
  <2>2. \A p \in Starters : pc[p] = "started" => port[p] \in Ports /\ port[p] # i
    BY <2>1, VhciAssumption DEF PortInv, TypeOK, PortsMatch
  <2>3. VacantIsFree'
    BY <2>1, VhciAssumption DEF PortInv, VacantIsFree, Taken
  <2>4. PortsMatch'
    BY <2>1, <2>2, VhciAssumption DEF PortInv, PortsMatch
  <2> QED
    BY <2>3, <2>4
<1>6. CASE UNCHANGED vars
  BY <1>6, PortsKept DEF vars
<1> QED
  BY <1>1, <1>2, <1>3, <1>4, <1>5, <1>6 DEF Next, Kernel, StartStep

(* Every started device has its port to itself, and no other process has   *)
(* any.                                                                    *)
THEOREM PortsSafe == Spec => []PortsMatch
<1>1. PortInv => PortsMatch
  BY DEF PortInv
<1> QED
  BY <1>1, PortInit, PortStep, PTL DEF Spec
------------------------------------------------------------------------------
(***************************************************************************)
(* A start() that found no port was right.                                 *)
(***************************************************************************)
LEMMA ReadInit == Init => ReadInv
<1> SUFFICES ASSUME Init, NEW p \in Starters
             PROVE  /\ Unlisted(p)
                    /\ pc[p] = "idle"
                    /\ \A i \in Ports : table[p][i] = "unread"
                    /\ why[p] = "none"
  BY DEF ReadInv, ReadInvOf, Opening
<1>1. Unlisted(p)
  BY VhciAssumption DEF Init, Unlisted
<1> QED
  BY <1>1 DEF Init

(* A change of the kernel's ports that leaves this process's state alone.  *)
LEMMA KernelKeepsRead ==
  ASSUME TypeOK, NEW p \in Starters, ReadInvOf(p), NEW i \in Ports, NEW record,
         SetPort(i, record), record # Vacant \/ record.status = "null",
         pc'[p] = pc[p], table'[p] = table[p], unread'[p] = unread[p], why'[p] = why[p]
  PROVE  ReadInvOf(p)'
<1>1. Unlisted(p) => Unlisted(p)'
  BY DEF Unlisted
<1>2. ASSUME pc[p] \in Opening, Noticed(p) PROVE Noticed(p)'
  <2>1. /\ vhci'[i] = record /\ \A j \in Ports : j # i => vhci'[j] = vhci[j]
        /\ busy'[p] = IF record # Vacant THEN busy[p] \cup {i} ELSE busy[p]
    BY <1>2 DEF SetPort, TypeOK
  <2>2. record = Vacant => record.status = "null"
    BY DEF Vacant
  <2> QED
    BY <1>2, <2>1, <2>2 DEF Noticed, Taken
<1> QED
  BY <1>1, <1>2 DEF ReadInvOf

(* No change that matters to a process.                                    *)
LEMMA OthersKeepRead ==
  ASSUME NEW p \in Starters, ReadInvOf(p), vhci' = vhci, pc'[p] = pc[p],
         table'[p] = table[p], unread'[p] = unread[p], why'[p] = why[p], busy'[p] = busy[p]
  PROVE  ReadInvOf(p)'
<1>1. (Unlisted(p) => Unlisted(p)') /\ (Noticed(p) => Noticed(p)')
  BY DEF Unlisted, Noticed, Taken
<1> QED
  BY <1>1 DEF ReadInvOf

LEMMA ReadStep == TypeOK /\ ReadInv /\ [Next]_vars => ReadInv'
<1> SUFFICES ASSUME TypeOK, ReadInv, [Next]_vars, NEW p \in Starters PROVE ReadInvOf(p)'
  BY DEF ReadInv
<1>i. ReadInvOf(p)
  BY DEF ReadInv
<1>1. ASSUME NEW q \in Starters, q # p, StartStep(q), ~Attach(q) PROVE ReadInvOf(p)'
  <2>1. /\ vhci' = vhci /\ pc'[p] = pc[p] /\ table'[p] = table[p]
        /\ unread'[p] = unread[p] /\ why'[p] = why[p] /\ busy'[p] = busy[p]
    BY <1>1 DEF StartStep, Open, FailEarly, ReadStatus, ReadStatusFails, LookUp, LookedUp,
                Choose, AttachBusy, AttachFails, CloseDriver, Goto, Fail, TypeOK
  <2> QED
    BY <1>i, <2>1, OthersKeepRead
<1>2. ASSUME NEW q \in Starters, q # p, Attach(q) PROVE ReadInvOf(p)'
  <2>1. port[q] \in Ports
    BY <1>2 DEF Attach, TypeOK
  <2>2. /\ SetPort(port[q], [status |-> "notAssigned", owner |-> q, speed |-> Speed(q)])
        /\ pc'[p] = pc[p] /\ table'[p] = table[p]
        /\ unread'[p] = unread[p] /\ why'[p] = why[p]
    BY <1>2 DEF Attach, CloseDriver, Goto, TypeOK
  <2>3. [status |-> "notAssigned", owner |-> q, speed |-> Speed(q)] # Vacant
    BY DEF Vacant
  <2> QED
    BY <1>i, <2>1, <2>2, <2>3, KernelKeepsRead
<1>3. ASSUME FailEarly(p) \/ ReadStatusFails(p) \/ AttachFails(p) \/ Attach(p)
      PROVE  ReadInvOf(p)'
  <2>1. pc'[p] \in {"failed", "started"} /\ (why'[p] # "none" => pc'[p] = "failed")
    BY <1>3, <1>i DEF FailEarly, ReadStatusFails, AttachFails, Attach, Goto, Fail, TypeOK,
                     ReadInvOf
  <2> QED
    BY <2>1 DEF ReadInvOf, Opening
<1>4. CASE Open(p)
  <2>1. /\ pc'[p] = "reading" /\ busy'[p] = {i \in Ports : Taken(i)}
        /\ vhci' = vhci /\ table' = table /\ unread' = unread /\ why' = why
        /\ pc[p] = "idle"
    BY <1>4 DEF Open, Goto, TypeOK
  <2>2. Noticed(p)'
    BY <2>1, <1>i DEF Noticed, ReadInvOf, Taken
  <2>3. Unlisted(p)'
    BY <2>1, <1>i DEF Unlisted, ReadInvOf
  <2> QED
    BY <2>1, <2>2, <2>3, <1>i DEF ReadInvOf
<1>5. CASE ReadStatus(p)
  <2> DEFINE listed == Head(unread[p])
  <2>1. /\ pc[p] = "reading" /\ pc'[p] = "lookup" /\ vhci' = vhci /\ busy' = busy
        /\ why' = why /\ unread[p] # <<>> /\ unread'[p] = Tail(unread[p])
        /\ unread[p] \in Seq(SUBSET Ports)
    BY <1>5 DEF ReadStatus, Goto, TypeOK
  <2>2. \A i \in Ports :
          table'[p][i] = IF i \in listed THEN vhci[i].status ELSE table[p][i]
    BY <1>5 DEF ReadStatus, TypeOK
  <2>3. Unlisted(p) /\ Noticed(p)
    BY <2>1, <1>i DEF ReadInvOf, Opening
  <2>4. Noticed(p)'
    BY <2>1, <2>2, <2>3 DEF Noticed, Taken
  <2>5. ASSUME NEW i \in Ports, table'[p][i] = "unread"
        PROVE  \E k \in DOMAIN unread'[p] : i \in unread'[p][k]
    <3>1. i \notin listed /\ table[p][i] = "unread"
      BY <2>2, <2>5 DEF TypeOK, Statuses
    <3>2. PICK k \in DOMAIN unread[p] : i \in unread[p][k]
      BY <2>3, <3>1 DEF Unlisted
    <3>3. k # 1
      BY <2>1, <3>1, <3>2
    <3>4. k - 1 \in DOMAIN Tail(unread[p]) /\ Tail(unread[p])[k - 1] = unread[p][k]
      BY <2>1, <3>2, <3>3
    <3> QED
      BY <2>1, <3>2, <3>4
  <2> QED
    BY <2>1, <2>4, <2>5, <1>i DEF ReadInvOf, Unlisted
<1>6. CASE LookUp(p)
  <2>1. CASE UNCHANGED <<pc, table, handle, why>>
    BY <1>6, <2>1, <1>i, OthersKeepRead DEF LookUp
  <2>2. CASE Fail(p, "lookup")
    BY <2>2 DEF Fail, Goto, TypeOK, ReadInvOf, Opening
  <2> QED
    BY <1>6, <2>1, <2>2 DEF LookUp
<1>7. CASE LookedUp(p) \/ Choose(p) \/ AttachBusy(p)
  <2>1. /\ vhci' = vhci /\ table' = table /\ unread' = unread /\ busy' = busy
        /\ pc[p] \in Opening
    BY <1>7 DEF LookedUp, Choose, AttachBusy, Opening
  <2>2. Unlisted(p)' /\ Noticed(p)'
    BY <2>1, <1>i DEF ReadInvOf, Unlisted, Noticed, Taken
  <2>3. \/ pc'[p] = "reading" /\ why' = why
        \/ pc'[p] \in {"choosing", "attaching"} /\ unread[p] = <<>> /\ why' = why
        \/ pc'[p] = "failed"
    BY <1>7, <1>i DEF LookedUp, Choose, AttachBusy, Goto, Fail, TypeOK, ReadInvOf
  <2>4. why[p] = "none"
    BY <2>1, <1>i DEF ReadInvOf, Opening
  <2> QED
    BY <2>1, <2>2, <2>3, <2>4 DEF ReadInvOf
<1>8. ASSUME NEW q \in Starters, End(q) PROVE ReadInvOf(p)'
  <2>1. CASE q = p
    BY <1>8, <2>1, <1>i DEF End, Goto, TypeOK, ReadInvOf, Opening
  <2>2. CASE q # p
    BY <1>8, <2>2, <1>i, OthersKeepRead DEF End, Goto, TypeOK
  <2> QED
    BY <2>1, <2>2
<1>9. ASSUME NEW i \in Ports, Release(i) PROVE ReadInvOf(p)'
  BY <1>9, <1>i, KernelKeepsRead DEF Release, Vacant
<1>10. ASSUME NEW i \in Ports, Enumerate(i) PROVE ReadInvOf(p)'
  <2>1. PICK s \in {"used", "listed"} :
          SetPort(i, [vhci[i] EXCEPT !.status = s])
    BY <1>10 DEF Enumerate
  <2>2. [vhci[i] EXCEPT !.status = s] # Vacant
    BY <2>1 DEF TypeOK, Vacant
  <2> QED
    BY <1>10, <1>i, <2>1, <2>2, KernelKeepsRead DEF Enumerate
<1>11. ASSUME NEW i \in Ports, ForeignAttach(i) PROVE ReadInvOf(p)'
  <2>1. [status |-> "notAssigned", owner |-> Foreign, speed |-> "high"] # Vacant
    BY DEF Vacant
  <2> QED
    BY <1>11, <1>i, <2>1, KernelKeepsRead DEF ForeignAttach
<1>12. CASE UNCHANGED vars
  BY <1>12, <1>i, OthersKeepRead DEF vars
<1> QED
  BY <1>1, <1>2, <1>3, <1>4, <1>5, <1>6, <1>7, <1>8, <1>9, <1>10, <1>11, <1>12
  DEF Next, Kernel, StartStep

(* The reason given for a failure, from the moment it is given.            *)
LEMMA FullStep ==
  TypeOK /\ ReadInv /\ FullWasFull /\ [Next]_vars => FullWasFull'
<1> SUFFICES ASSUME TypeOK, ReadInv, FullWasFull, [Next]_vars,
                    NEW p \in Starters, why'[p] = "full"
             PROVE  Fits(p) \subseteq busy'[p]
  BY DEF FullWasFull, Fits
<1>1. CASE why[p] = "full"
  <2>1. pc[p] = "failed" /\ Fits(p) \subseteq busy[p]
    BY <1>1 DEF ReadInv, ReadInvOf, FullWasFull
  <2>2. busy'[p] = busy[p]
    BY <2>1, ZenonT(40) DEF Next, Kernel, StartStep, Open, FailEarly, ReadStatus,
                ReadStatusFails, LookUp, LookedUp, Choose, Attach, AttachBusy, AttachFails,
                End, Release, Enumerate, ForeignAttach, SetPort, Opening, TypeOK, vars
  <2> QED
    BY <2>1, <2>2
<1>2. CASE why[p] # "full"
  <2>1. Choose(p) /\ FreePorts(p) = {}
    BY <1>2 DEF Next, Kernel, StartStep, Open, FailEarly, ReadStatus,
                ReadStatusFails, LookUp, LookedUp, Choose, Attach, AttachBusy, AttachFails,
                End, Release, Enumerate, ForeignAttach, Fail, TypeOK, vars
  <2>2. pc[p] = "choosing" /\ busy' = busy
    BY <2>1 DEF Choose
  <2>3. Unlisted(p) /\ Noticed(p) /\ unread[p] = <<>>
    BY <2>2 DEF ReadInv, ReadInvOf, Opening
  <2>4. \A i \in Ports : table[p][i] # "unread"
    BY <2>3 DEF Unlisted
  <2> QED
    BY <2>1, <2>2, <2>3, <2>4 DEF FreePorts, Fits, Noticed
<1> QED
  BY <1>1, <1>2

(* Whenever start() reports that there is no free port, each port it could *)
(* have used was taken at some moment since it began.                      *)
THEOREM FullIsTrue == Spec => []FullWasFull
<1> DEFINE Inv == TypeOK /\ ReadInv /\ FullWasFull
<1>1. Init => Inv
  BY TypeInit, ReadInit DEF Init, FullWasFull
<1>2. Inv /\ [Next]_vars => Inv'
  BY TypeStep, ReadStep, FullStep
<1>3. Inv => FullWasFull
  OBVIOUS
<1> QED
  BY <1>1, <1>2, <1>3, PTL DEF Spec
------------------------------------------------------------------------------
(***************************************************************************)
(* The driver's handle.                                                    *)
(***************************************************************************)
LEMMA HandleStep == TypeOK /\ DriverHandle /\ [Next]_vars => DriverHandle'
<1> SUFFICES ASSUME TypeOK, DriverHandle, [Next]_vars PROVE DriverHandle'
  OBVIOUS
<1> USE DEF TypeOK, DriverHandle, Goto, Fail, Opening
<1>1. ASSUME NEW p \in Starters, FailEarly(p) \/ Open(p) PROVE DriverHandle'
  BY <1>1, ZenonT(40) DEF FailEarly, Open
<1>2. ASSUME NEW p \in Starters, ReadStatus(p) \/ LookedUp(p) PROVE DriverHandle'
  BY <1>2 DEF ReadStatus, LookedUp
<1>2a. ASSUME NEW p \in Starters, ReadStatusFails(p) PROVE DriverHandle'
  BY <1>2a DEF ReadStatusFails, CloseDriver
<1>3. ASSUME NEW p \in Starters, LookUp(p) PROVE DriverHandle'
  <2>1. CASE UNCHANGED <<pc, table, handle, why>>
    BY <2>1
  <2>2. CASE CloseDriver(p) /\ Fail(p, "lookup")
    BY <2>2 DEF CloseDriver
  <2> QED
    BY <1>3, <2>1, <2>2 DEF LookUp
<1>4. ASSUME NEW p \in Starters, Choose(p) PROVE DriverHandle'
  BY <1>4 DEF Choose
<1>5. ASSUME NEW p \in Starters, Attach(p) PROVE DriverHandle'
  BY <1>5 DEF Attach, CloseDriver
<1>6. ASSUME NEW p \in Starters, AttachBusy(p) \/ AttachFails(p) \/ End(p)
      PROVE  DriverHandle'
  BY <1>6 DEF AttachBusy, AttachFails, End
<1>7. CASE Kernel \/ UNCHANGED vars
  BY <1>7 DEF Kernel, Release, Enumerate, ForeignAttach, vars
<1> QED
  BY <1>1, <1>2, <1>2a, <1>3, <1>4, <1>5, <1>6, <1>7 DEF Next, StartStep

(* The driver's handle is never used after it was closed, and only the two *)
(* named failures of start() leave it open.                                *)
THEOREM HandleSafe == Spec => []DriverHandle
<1> DEFINE Inv == TypeOK /\ DriverHandle
<1>1. Init => Inv
  BY TypeInit DEF Init, DriverHandle, Opening
<1>2. Inv /\ [Next]_vars => Inv'
  BY TypeStep, HandleStep
<1>3. Inv => DriverHandle
  OBVIOUS
<1> QED
  BY <1>1, <1>2, <1>3, PTL DEF Spec

(* Every value stays in its range, and whoever attaches has chosen a port. *)
THEOREM TypeCorrect == Spec => []TypeOK
BY TypeInit, TypeStep, PTL DEF Spec
==============================================================================
