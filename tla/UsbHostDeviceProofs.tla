------------------------- MODULE UsbHostDeviceProofs -------------------------
(***************************************************************************)
(* Proofs about UsbHostDevice, for any devices with any interfaces: the    *)
(* tables stay consistent, references balance, and one device is served    *)
(* rightly.                                                                *)
(***************************************************************************)
EXTENDS UsbHostDevice, SequenceTheorems, TLAPS

LEMMA IfacesType ==
  ASSUME NEW d \in Devs
  PROVE  /\ Ifaces[d] \in Seq(Interface) /\ Len(Ifaces[d]) \in Nat
         /\ DOMAIN Ifaces[d] = 1 .. Len(Ifaces[d])
         /\ \A i \in 1 .. Len(Ifaces[d]) : Ifaces[d][i].number \in Nat
         /\ \A i \in 1 .. Len(Ifaces[d]) : Ifaces[d][i].endpoints \subseteq Addrs
<1>1. Ifaces[d] \in Seq(Interface)
  BY HostAssumption
<1>2. /\ Len(Ifaces[d]) \in Nat /\ DOMAIN Ifaces[d] = 1 .. Len(Ifaces[d])
      /\ \A i \in 1 .. Len(Ifaces[d]) : Ifaces[d][i] \in Interface
  BY <1>1
<1>3. \A f \in Interface : f.number \in Nat /\ f.endpoints \subseteq Addrs
  BY DEF Interface
<1> QED
  BY <1>1, <1>2, <1>3

(* The two kinds of endpoint addresses do not meet.                        *)
LEMMA OffsetsDiffer ==
  \A a, b \in Addrs : OffsetForEndpointAddr(a) = OffsetForEndpointAddr(b) => a = b
<1> SUFFICES ASSUME NEW a \in Addrs, NEW b \in Addrs,
                    OffsetForEndpointAddr(a) = OffsetForEndpointAddr(b)
             PROVE  a = b
  OBVIOUS
<1>1. ASSUME NEW c \in Addrs
      PROVE  OffsetForEndpointAddr(c) = IF c >= 128 THEN c - 112 ELSE c
  <2>1. c \in 0 .. 15 \/ c \in 128 .. 143
    BY HostAssumption
  <2> QED
    BY <2>1, SMTT(30) DEF OffsetForEndpointAddr
<1>2. a \in Int /\ b \in Int /\ (a <= 15 \/ a >= 128) /\ (b <= 15 \/ b >= 128)
  BY HostAssumption
<1> QED
  BY <1>1, <1>2

LEMMA OffsetType == \A a \in Addrs : OffsetForEndpointAddr(a) \in Offsets
<1> SUFFICES ASSUME NEW a \in Addrs PROVE OffsetForEndpointAddr(a) \in Offsets
  OBVIOUS
<1>1. a \in 0 .. 15 \/ a \in 128 .. 143
  BY HostAssumption
<1> QED
  BY <1>1, SMTT(30) DEF OffsetForEndpointAddr, Offsets

(* What the constructor's loop does to the two tables.                     *)
LEMMA Populated ==
  ASSUME TypeOK, NEW d \in Devs, NEW n \in 0 .. Len(Ifaces[d]), Populate(d, n)
  PROVE  /\ interfaces' \in Seq([number : Nat, claimed : BOOLEAN])
         /\ Len(interfaces') = Len(interfaces) + n
         /\ \A i \in 1 .. Len(interfaces) : interfaces'[i] = interfaces[i]
         /\ \A i \in 1 .. n : interfaces'[Len(interfaces) + i] =
                                [number |-> Ifaces[d][i].number, claimed |-> FALSE]
         /\ epInfos' \in [Offsets -> 0 .. Len(interfaces')]
         /\ \A o \in Offsets :
              \/ epInfos'[o] = epInfos[o]
              \/ epInfos'[o] \in 1 .. n /\ Owns(d, epInfos'[o], o)
         /\ seen' = seen \cup {d}
<1> DEFINE R == [number : Nat, claimed : BOOLEAN]
           F == FirstIfaces(d, n)
<1>1. n \in Nat /\ \A i \in 1 .. n : Ifaces[d][i].number \in Nat
  BY IfacesType
<1>2. F \in Seq(R) /\ Len(F) = n
      /\ \A i \in 1 .. n : F[i] = [number |-> Ifaces[d][i].number, claimed |-> FALSE]
  <2>1. \A i \in 1 .. n : [number |-> Ifaces[d][i].number, claimed |-> FALSE] \in R
    BY <1>1
  <2>2. F = [i \in 1 .. n |-> [number |-> Ifaces[d][i].number, claimed |-> FALSE]]
    BY DEF FirstIfaces
  <2> HIDE DEF R, F
  <2>3. /\ DOMAIN F = 1 .. n
        /\ \A i \in 1 .. n : F[i] = [number |-> Ifaces[d][i].number, claimed |-> FALSE]
    BY <2>2
  <2>4. F \in [1 .. n -> R]
    BY <2>1, <2>2
  <2>5. F \in Seq(R) /\ Len(F) = n
    BY <1>1, <2>3, <2>4, SeqDef, LenProperties
  <2> QED
    BY <2>3, <2>5
<1>3. interfaces \in Seq(R) /\ Len(interfaces) \in Nat
  BY DEF TypeOK, TablesOK
<1>4. interfaces' = interfaces \o F
  BY DEF Populate
<1> HIDE DEF F, R
<1>5. /\ interfaces' \in Seq(R) /\ Len(interfaces') = Len(interfaces) + n
      /\ \A i \in 1 .. Len(interfaces) + n :
           interfaces'[i] = IF i <= Len(interfaces) THEN interfaces[i]
                            ELSE F[i - Len(interfaces)]
  BY <1>2, <1>3, <1>4, ConcatProperties
<1>6. ASSUME NEW i \in 1 .. n
      PROVE  interfaces'[Len(interfaces) + i] =
               [number |-> Ifaces[d][i].number, claimed |-> FALSE]
  <2>1. /\ Len(interfaces) + i \in 1 .. Len(interfaces) + n
        /\ ~(Len(interfaces) + i <= Len(interfaces))
        /\ (Len(interfaces) + i) - Len(interfaces) = i
    BY <1>1, <1>3
  <2> QED
    BY <2>1, <1>2, <1>5
<1>7. ASSUME NEW o \in Offsets
      PROVE  \/ epInfos'[o] = epInfos[o]
             \/ epInfos'[o] \in 1 .. n /\ Owns(d, epInfos'[o], o)
  <2>1. epInfos'[o] = IF \E i \in 1 .. n : LastOwner(d, n, o, i)
                      THEN CHOOSE i \in 1 .. n : LastOwner(d, n, o, i)
                      ELSE epInfos[o]
    BY DEF Populate, EpInfosAfter
  <2>2. \A i \in 1 .. n : LastOwner(d, n, o, i) => Owns(d, i, o)
    BY DEF LastOwner
  <2> QED
    BY <2>1, <2>2
<1>8. epInfos' \in [Offsets -> 0 .. Len(interfaces')]
  <2>1. epInfos' = [o \in Offsets |-> epInfos'[o]]
    BY DEF Populate, EpInfosAfter
  <2>2. ASSUME NEW o \in Offsets PROVE epInfos'[o] \in 0 .. Len(interfaces')
    <3>1. epInfos[o] \in 0 .. Len(interfaces)
      BY DEF TypeOK, TablesOK
    <3> QED
      BY <1>1, <1>3, <1>5, <1>7, <3>1
  <2> QED
    BY <2>1, <2>2
<1>9. \A i \in 1 .. Len(interfaces) : interfaces'[i] = interfaces[i]
  BY <1>1, <1>3, <1>5
<1> QED
  BY <1>5, <1>6, <1>7, <1>8, <1>9 DEF Populate, R
------------------------------------------------------------------------------
(***************************************************************************)
(* Types.                                                                  *)
(***************************************************************************)
LEMMA TypeInit == Init => TypeOK
<1> SUFFICES ASSUME Init PROVE TypeOK
  OBVIOUS
<1>1. TablesOK
  BY DEF Init, TablesOK
<1>2. ListsOK
  BY DEF Init, ListsOK
<1>4. CountsOK
  BY HostAssumption DEF Init, CountsOK
<1>3. UseOK
  BY DEF Init, UseOK, NoTransfer, Transfers
<1> QED
  BY <1>1, <1>2, <1>3, <1>4 DEF TypeOK

(* A step that constructs, or begins to, keeps the tables' types.          *)
LEMMA TablesKept ==
  ASSUME TypeOK, NEW d \in Devs, NEW n \in 0 .. Len(Ifaces[d]), Populate(d, n)
  PROVE  TablesOK' /\ seen' \subseteq Devs
BY Populated DEF TypeOK, TablesOK, UseOK

(* A claim marks its interface and nothing else in the list.               *)
LEMMA Claimed ==
  ASSUME TypeOK, NEW i \in 1 .. Len(interfaces), Claim(i)
  PROVE  /\ interfaces' \in Seq([number : Nat, claimed : BOOLEAN])
         /\ Len(interfaces') = Len(interfaces)
         /\ kernel' = kernel \cup {interfaces[i].number} /\ kernel' \subseteq Nat
         /\ \A j \in 1 .. Len(interfaces) :
              /\ interfaces'[j].number = interfaces[j].number
              /\ j # i => interfaces'[j] = interfaces[j]
<1> DEFINE R == [number : Nat, claimed : BOOLEAN]
           New == [interfaces[i] EXCEPT !.claimed = TRUE]
<1>1. interfaces \in Seq(R) /\ interfaces[i] \in R
  <2>1. interfaces \in Seq(R)
    BY DEF TypeOK, TablesOK
  <2> HIDE DEF R
  <2> QED
    BY <2>1
<1>2. interfaces' = [interfaces EXCEPT ![i] = New]
  BY DEF Claim
<1>3. New \in R /\ New.number = interfaces[i].number
  BY <1>1
<1> HIDE DEF R, New
<1>4. /\ interfaces' \in Seq(R) /\ Len(interfaces') = Len(interfaces)
      /\ \A j \in 1 .. Len(interfaces) :
           interfaces'[j] = IF j = i THEN New ELSE interfaces[j]
  BY <1>1, <1>2, <1>3
<1>5. \A j \in 1 .. Len(interfaces) : interfaces'[j].number = interfaces[j].number
  BY <1>3, <1>4
<1>6. interfaces[i].number \in Nat
  BY <1>1 DEF R
<1> QED
  BY <1>4, <1>5, <1>6 DEF Claim, TypeOK, UseOK, R

LEMMA TypeStep == TypeOK /\ [Next]_vars => TypeOK'
<1> SUFFICES ASSUME TypeOK, [Next]_vars PROVE TypeOK'
  OBVIOUS
<1>0. TablesOK /\ ListsOK /\ CountsOK /\ UseOK
  BY DEF TypeOK
<1>1. CASE List
  <2>1. ListsOK'
    BY <1>0, <1>1 DEF List, ListsOK
  <2>3. CountsOK'
    BY <1>0, <1>1, HostAssumption DEF List, CountsOK, Count
  <2>2. TablesOK' /\ UseOK'
    BY <1>0, <1>1 DEF List, TablesOK, UseOK
  <2> QED
    BY <2>1, <2>2, <2>3 DEF TypeOK
<1>2. CASE EndList
  <2>1. ListsOK'
    BY <1>0, <1>2 DEF EndList, ListsOK
  <2>3. CountsOK'
    BY <1>0, <1>2, HostAssumption DEF EndList, CountsOK, Count
  <2>2. TablesOK' /\ UseOK'
    BY <1>0, <1>2 DEF EndList, TablesOK, UseOK
  <2> QED
    BY <2>1, <2>2, <2>3 DEF TypeOK
<1>3. ASSUME NEW d \in Devs, Construct(d) PROVE TypeOK'
  <2>1. Len(Ifaces[d]) \in 0 .. Len(Ifaces[d])
    BY IfacesType
  <2>2. TablesOK' /\ seen' \subseteq Devs
    BY <1>3, <2>1, TablesKept DEF Construct
  <2>3. ListsOK'
    BY <1>0, <1>3 DEF Construct, ListsOK
  <2>4. CountsOK' /\ UseOK'
    BY <1>0, <1>3, <2>2 DEF Construct, CountsOK, UseOK
  <2> QED
    BY <2>2, <2>3, <2>4 DEF TypeOK
<1>4. ASSUME NEW d \in Devs, FailConstruct(d) PROVE TypeOK'
  <2>1. TablesOK' /\ seen' \subseteq Devs
    <3>1. CASE UNCHANGED <<interfaces, epInfos, seen>>
      BY <1>0, <3>1 DEF TablesOK, UseOK
    <3>2. ASSUME NEW n \in 0 .. Len(Ifaces[d]) - 1, Populate(d, n)
          PROVE  TablesOK' /\ seen' \subseteq Devs
      <4>1. n \in 0 .. Len(Ifaces[d])
        BY IfacesType
      <4> QED
        BY <3>2, <4>1, TablesKept
    <3> QED
      BY <1>4, <3>1, <3>2 DEF FailConstruct
  <2>2. ListsOK'
    BY <1>4 DEF FailConstruct, GiveUp, ListsOK
  <2>4. CountsOK'
    BY <1>0, <1>4 DEF FailConstruct, GiveUp, CountsOK, Count
  <2>3. UseOK'
    BY <1>0, <1>4, <2>1 DEF FailConstruct, UseOK
  <2> QED
    BY <2>1, <2>2, <2>3, <2>4 DEF TypeOK
<1>5. ASSUME NEW d \in Devs, Destroy(d) \/ OnlyOpen(d) PROVE TypeOK'
  <2>1. ListsOK' /\ CountsOK'
    BY <1>0, <1>5 DEF Destroy, OnlyOpen, ListsOK, CountsOK
  <2>2. TablesOK' /\ UseOK'
    BY <1>0, <1>5 DEF Destroy, OnlyOpen, OpenIfNeeded, TablesOK, UseOK
  <2> QED
    BY <2>1, <2>2 DEF TypeOK
<1>6. ASSUME NEW d \in Devs, NEW addr \in Addrs, Transfer(d, addr) PROVE TypeOK'
  <2> DEFINE i == epInfos[OffsetForEndpointAddr(addr)]
  <2>1. i \in 1 .. Len(interfaces)
    BY <1>0, <1>6, OffsetType DEF Transfer, TablesOK
  <2>2. /\ interfaces' \in Seq([number : Nat, claimed : BOOLEAN])
        /\ Len(interfaces') = Len(interfaces) /\ kernel' \subseteq Nat
    <3>1. CASE UNCHANGED <<interfaces, kernel>>
      BY <1>0, <3>1 DEF TablesOK, UseOK
    <3>2. CASE Claim(i)
      BY <2>1, <3>2, Claimed
    <3> QED
      BY <1>6, <3>1, <3>2 DEF Transfer
  <2>3. addr \in 0 .. 255 /\ handle' \in Devs \cup {NoDev}
    BY <1>0, <1>6, HostAssumption DEF Transfer, OpenIfNeeded, UseOK
  <2>4. last' \in Transfers
    BY <1>6, <2>2, <2>3 DEF Transfer, Transfers
  <2>5. TablesOK' /\ ListsOK' /\ CountsOK'
    BY <1>0, <1>6, <2>2 DEF Transfer, TablesOK, ListsOK, CountsOK
  <2> QED
    BY <1>0, <1>6, <2>2, <2>3, <2>4, <2>5 DEF Transfer, UseOK, TypeOK
<1>7. CASE UNCHANGED vars
  BY <1>0, <1>7 DEF vars, TypeOK, TablesOK, ListsOK, CountsOK, UseOK
<1> QED
  BY <1>1, <1>2, <1>3, <1>4, <1>5, <1>6, <1>7 DEF Next

(* The tables stay consistent whatever devices come and go.                *)
THEOREM TypeCorrect == Spec => []TypeOK
BY TypeInit, TypeStep, PTL DEF Spec
------------------------------------------------------------------------------
(***************************************************************************)
(* References.                                                             *)
(***************************************************************************)
LEMMA RefsStep == TypeOK /\ RefsBalanced /\ [Next]_vars => RefsBalanced'
<1> SUFFICES ASSUME TypeOK, RefsBalanced, [Next]_vars PROVE RefsBalanced'
  OBVIOUS
<1> USE DEF TypeOK, ListsOK, CountsOK, RefsBalanced, Count
<1>1. CASE List \/ EndList
  BY <1>1 DEF List, EndList
<1>2. ASSUME NEW d \in Devs, Construct(d) PROVE RefsBalanced'
  BY <1>2 DEF Construct
<1>3. ASSUME NEW d \in Devs, FailConstruct(d) PROVE RefsBalanced'
  BY <1>3 DEF FailConstruct, GiveUp
<1>4. ASSUME NEW d \in Devs, Destroy(d) PROVE RefsBalanced'
  BY <1>4 DEF Destroy
<1>7. ASSUME NEW d \in Devs, OnlyOpen(d) PROVE RefsBalanced'
  BY <1>7 DEF OnlyOpen
<1>5. ASSUME NEW d \in Devs, NEW addr \in Addrs, Transfer(d, addr) PROVE RefsBalanced'
  BY <1>5 DEF Transfer
<1>6. CASE UNCHANGED vars
  BY <1>6 DEF vars
<1> QED
  BY <1>1, <1>2, <1>3, <1>4, <1>5, <1>6, <1>7 DEF Next

(* No reference to a device is lost or given back twice, whichever         *)
(* constructor of whichever list throws.                                   *)
THEOREM NoReferenceLost == Spec => []RefsBalanced
<1> DEFINE Inv == TypeOK /\ RefsBalanced
<1>1. Init => Inv
  BY TypeInit DEF Init, RefsBalanced, Count
<1>2. Inv /\ [Next]_vars => Inv'
  BY TypeStep, RefsStep
<1>3. Inv => RefsBalanced
  OBVIOUS
<1> QED
  BY <1>1, <1>2, <1>3, PTL DEF Spec
------------------------------------------------------------------------------
(***************************************************************************)
(* Claims.                                                                 *)
(***************************************************************************)
LEMMA PopulateKeepsClaims ==
  ASSUME TypeOK, ClaimsKept, NEW d \in Devs, NEW n \in 0 .. Len(Ifaces[d]), Populate(d, n),
         kernel' = kernel
  PROVE  ClaimsKept'
<1>1. /\ DOMAIN interfaces' = 1 .. Len(interfaces) + n /\ Len(interfaces) \in Nat /\ n \in Nat
      /\ DOMAIN interfaces = 1 .. Len(interfaces)
  BY Populated, IfacesType DEF TypeOK, TablesOK
<1> SUFFICES ASSUME NEW i \in 1 .. Len(interfaces) + n, interfaces'[i].claimed
             PROVE  interfaces'[i].number \in kernel
  BY <1>1 DEF ClaimsKept
<1>2. CASE i <= Len(interfaces)
  <2>1. i \in DOMAIN interfaces /\ interfaces'[i] = interfaces[i]
    BY <1>1, <1>2, Populated
  <2> QED
    BY <2>1 DEF ClaimsKept
<1>3. CASE ~(i <= Len(interfaces))
  <2>1. PICK k \in 1 .. n : i = Len(interfaces) + k
    <3>1. i - Len(interfaces) \in 1 .. n /\ i = Len(interfaces) + (i - Len(interfaces))
      BY <1>1, <1>3
    <3> QED
      BY <3>1
  <2>3. interfaces'[Len(interfaces) + k] = [number |-> Ifaces[d][k].number, claimed |-> FALSE]
    BY Populated
  <2>2. interfaces'[i].claimed = FALSE
    BY <2>1, <2>3
  <2> QED
    BY <2>2
<1> QED
  BY <1>2, <1>3

LEMMA ClaimsStep == TypeOK /\ ClaimsKept /\ [Next]_vars => ClaimsKept'
<1> SUFFICES ASSUME TypeOK, ClaimsKept, [Next]_vars PROVE ClaimsKept'
  OBVIOUS
<1>1. CASE UNCHANGED <<interfaces, kernel>>
  BY <1>1 DEF ClaimsKept
<1>2. ASSUME NEW d \in Devs, Construct(d) PROVE ClaimsKept'
  <2>1. Len(Ifaces[d]) \in 0 .. Len(Ifaces[d])
    BY IfacesType
  <2> QED
    BY <1>2, <2>1, PopulateKeepsClaims DEF Construct
<1>3. ASSUME NEW d \in Devs, FailConstruct(d) PROVE ClaimsKept'
  <2>1. ASSUME NEW n \in 0 .. Len(Ifaces[d]) - 1, Populate(d, n) PROVE ClaimsKept'
    <3>1. n \in 0 .. Len(Ifaces[d])
      BY IfacesType
    <3> QED
      BY <1>3, <2>1, <3>1, PopulateKeepsClaims DEF FailConstruct
  <2> QED
    BY <1>1, <1>3, <2>1 DEF FailConstruct
<1>4. ASSUME NEW d \in Devs, NEW addr \in Addrs, Transfer(d, addr) PROVE ClaimsKept'
  <2> DEFINE i == epInfos[OffsetForEndpointAddr(addr)]
  <2>1. i \in 1 .. Len(interfaces) /\ DOMAIN interfaces = 1 .. Len(interfaces)
    BY <1>4, OffsetType DEF Transfer, TypeOK, TablesOK
  <2>2. CASE Claim(i)
    <3>1. /\ DOMAIN interfaces' = DOMAIN interfaces
          /\ kernel' = kernel \cup {interfaces[i].number}
          /\ \A j \in 1 .. Len(interfaces) :
               /\ interfaces'[j].number = interfaces[j].number
               /\ j # i => interfaces'[j] = interfaces[j]
      BY <2>1, <2>2, Claimed
    <3> HIDE DEF i
    <3> QED
      BY <2>1, <3>1 DEF ClaimsKept
  <2> QED
    BY <1>1, <1>4, <2>2 DEF Transfer
<1> QED
  BY <1>1, <1>2, <1>3, <1>4
  DEF Next, List, EndList, Destroy, OnlyOpen, vars

(* No interface is ever taken for claimed that is not.                     *)
THEOREM ClaimsAreReal == Spec => []ClaimsKept
<1> DEFINE Inv == TypeOK /\ ClaimsKept
<1>1. Init => Inv
  BY TypeInit DEF Init, ClaimsKept
<1>2. Inv /\ [Next]_vars => Inv'
  BY TypeStep, ClaimsStep
<1>3. Inv => ClaimsKept
  OBVIOUS
<1> QED
  BY <1>1, <1>2, <1>3, PTL DEF Spec
------------------------------------------------------------------------------
(***************************************************************************)
(* One device.  While only its objects were made, the tables describe it.  *)
(***************************************************************************)
Described(d) ==
  /\ Len(interfaces) = 0 \/ Len(interfaces) >= Len(Ifaces[d])
  /\ \A i \in 1 .. Len(Ifaces[d]) :
       i <= Len(interfaces) => interfaces[i].number = Ifaces[d][i].number
  /\ \A o \in Offsets :
       epInfos[o] # 0 => epInfos[o] \in 1 .. Len(Ifaces[d]) /\ Owns(d, epInfos[o], o)

SoleInv ==
  /\ handle \in seen \cup {NoDev}
  /\ \A d \in Devs : objects[d] > 0 \/ d \in made => d \in seen /\ Usable(d)
  /\ last.from \in seen \cup {NoDev}
  /\ \A d \in Devs : Usable(d) /\ seen \subseteq {d} => Described(d)

LEMMA PopulateDescribes ==
  ASSUME TypeOK, SoleInv, NEW d \in Devs, Usable(d), seen \subseteq {d},
         Populate(d, Len(Ifaces[d]))
  PROVE  Described(d)'
<1> DEFINE n == Len(Ifaces[d])
<1>1. n \in Nat /\ Len(interfaces) \in Nat /\ Described(d) /\ n \in 0 .. n
  BY IfacesType DEF TypeOK, TablesOK, SoleInv
<1>2. /\ Len(interfaces') = Len(interfaces) + n
      /\ \A i \in 1 .. Len(interfaces) : interfaces'[i] = interfaces[i]
      /\ \A i \in 1 .. n : interfaces'[Len(interfaces) + i] =
                             [number |-> Ifaces[d][i].number, claimed |-> FALSE]
      /\ \A o \in Offsets :
           \/ epInfos'[o] = epInfos[o]
           \/ epInfos'[o] \in 1 .. n /\ Owns(d, epInfos'[o], o)
  BY <1>1, Populated
<1>3. ASSUME NEW i \in 1 .. n PROVE interfaces'[i].number = Ifaces[d][i].number
  <2>1. CASE Len(interfaces) = 0
    <3>1. Len(interfaces) + i = i
      BY <2>1
    <3>2. interfaces'[Len(interfaces) + i] = [number |-> Ifaces[d][i].number, claimed |-> FALSE]
      BY <1>2
    <3> HIDE DEF n
    <3> QED
      BY <3>1, <3>2
  <2>2. CASE Len(interfaces) >= n
    <3>1. i \in 1 .. Len(interfaces) /\ interfaces[i].number = Ifaces[d][i].number
      BY <1>1, <2>2 DEF Described
    <3> QED
      BY <1>2, <3>1
  <2> QED
    BY <1>1, <2>1, <2>2 DEF Described
<1>4. Len(interfaces') >= n
  BY <1>1, <1>2
<1>5. ASSUME NEW o \in Offsets, epInfos'[o] # 0
      PROVE  epInfos'[o] \in 1 .. n /\ Owns(d, epInfos'[o], o)
  BY <1>1, <1>2, <1>5 DEF Described
<1> QED
  BY <1>3, <1>4, <1>5 DEF Described, Owns

LEMMA SoleStep == TypeOK /\ SoleInv /\ [Next]_vars => SoleInv'
<1> SUFFICES ASSUME TypeOK, SoleInv, [Next]_vars PROVE SoleInv'
  OBVIOUS
<1>t. /\ handle \in Devs \cup {NoDev} /\ objects \in [Devs -> Nat]
      /\ listed \subseteq Devs /\ made \subseteq listed
  BY DEF TypeOK, UseOK, CountsOK, ListsOK
<1>0. ASSUME UNCHANGED <<interfaces, epInfos, seen>>
      PROVE  \A d \in Devs : Usable(d)' /\ seen' \subseteq {d} => Described(d)'
  BY <1>0 DEF SoleInv, Described, Usable, Owns
<1>1. CASE List \/ EndList \/ UNCHANGED vars
  <2>1. UNCHANGED <<interfaces, epInfos, seen, handle, last>>
    BY <1>1 DEF List, EndList, vars
  <2>2. \A d \in Devs : objects'[d] > 0 \/ d \in made' => objects[d] > 0 \/ d \in made
    BY <1>t, <1>1 DEF List, EndList, vars, Count
  <2> QED
    BY <1>0, <2>1, <2>2 DEF SoleInv, Usable
<1>2. ASSUME NEW d \in Devs, Construct(d) PROVE SoleInv'
  <2>1. /\ Usable(d) /\ seen' = seen \cup {d} /\ made' = made \cup {d}
        /\ UNCHANGED <<handle, objects, last>> /\ Populate(d, Len(Ifaces[d]))
    BY <1>2 DEF Construct, Populate
  <2>2. ASSUME NEW e \in Devs, Usable(e), seen' \subseteq {e} PROVE Described(e)'
    <3>1. e = d /\ seen \subseteq {d}
      BY <2>1, <2>2
    <3> QED
      BY <2>1, <3>1, PopulateDescribes
  <2> QED
    BY <2>1, <2>2 DEF SoleInv, Usable
<1>3. ASSUME NEW d \in Devs, FailConstruct(d) PROVE SoleInv'
  <2>1. UNCHANGED <<handle, objects, last>> /\ made' = {}
    BY <1>3 DEF FailConstruct, GiveUp
  <2>2. CASE UNCHANGED <<interfaces, epInfos, seen>>
    BY <1>0, <2>1, <2>2 DEF SoleInv, Usable
  <2>3. ASSUME NEW n \in 0 .. Len(Ifaces[d]) - 1, ~Ifaces[d][n + 1].altsetting,
               Populate(d, n)
        PROVE  SoleInv'
    <3>1. n + 1 \in DOMAIN Ifaces[d]
      BY IfacesType
    <3>2. ~Usable(d) /\ seen' = seen \cup {d}
      BY <2>3, <3>1 DEF Usable, Populate
    <3> QED
      BY <2>1, <3>2 DEF SoleInv, Usable
  <2> QED
    BY <1>3, <2>2, <2>3 DEF FailConstruct
<1>4. ASSUME NEW d \in Devs, Destroy(d) PROVE SoleInv'
  <2>1. UNCHANGED <<interfaces, epInfos, seen, handle, last, made>>
    BY <1>4 DEF Destroy
  <2>2. \A e \in Devs : objects'[e] > 0 => objects[e] > 0
    BY <1>t, <1>4 DEF Destroy
  <2> QED
    BY <1>0, <2>1, <2>2 DEF SoleInv, Usable
<1>5. ASSUME NEW d \in Devs, OnlyOpen(d) PROVE SoleInv'
  <2>1. UNCHANGED <<interfaces, epInfos, seen, last, made, objects>> /\ handle' \in {handle, d}
        /\ objects[d] > 0
    BY <1>5 DEF OnlyOpen, OpenIfNeeded
  <2> QED
    BY <1>0, <2>1 DEF SoleInv, Usable
<1>6. ASSUME NEW d \in Devs, NEW addr \in Addrs, Transfer(d, addr) PROVE SoleInv'
  <2> DEFINE i == epInfos[OffsetForEndpointAddr(addr)]
  <2>1. UNCHANGED <<epInfos, seen, made, objects>> /\ handle' \in {handle, d}
        /\ objects[d] > 0 /\ last'.from = d
    BY <1>6 DEF Transfer, OpenIfNeeded
  <2>2. i \in 1 .. Len(interfaces)
    BY <1>6, OffsetType DEF Transfer, TypeOK, TablesOK
  <2>3. /\ Len(interfaces') = Len(interfaces) /\ Len(interfaces) \in Nat
        /\ \A j \in 1 .. Len(interfaces) : interfaces'[j].number = interfaces[j].number
    <3>0. Len(interfaces) \in Nat
      BY DEF TypeOK, TablesOK
    <3>1. CASE UNCHANGED <<interfaces, kernel>>
      BY <3>0, <3>1
    <3> HIDE DEF i
    <3>2. CASE Claim(i)
      BY <2>2, <3>0, <3>2, Claimed
    <3>3. UNCHANGED <<interfaces, kernel>> \/ Claim(i)
      BY <1>6 DEF Transfer, i
    <3> QED
      BY <3>1, <3>2, <3>3
  <2>4. ASSUME NEW e \in Devs, Usable(e), seen' \subseteq {e} PROVE Described(e)'
    <3>1. Described(e) /\ Len(Ifaces[e]) \in Nat
      BY <2>1, <2>4, IfacesType DEF SoleInv
    <3> QED
      BY <2>1, <2>3, <3>1 DEF Described, Owns
  <2> QED
    BY <2>1, <2>4 DEF SoleInv, Usable
<1> QED
  BY <1>1, <1>2, <1>3, <1>4, <1>5, <1>6 DEF Next

LEMMA ServedStep ==
  TypeOK /\ SoleInv /\ ClaimsKept /\ SoleDeviceServed /\ [Next]_vars => SoleDeviceServed'
<1> SUFFICES ASSUME TypeOK, SoleInv, ClaimsKept, SoleDeviceServed, [Next]_vars
             PROVE  SoleDeviceServed'
  OBVIOUS
<1>1. CASE last' = last /\ seen \subseteq seen'
  BY <1>1 DEF SoleInv, SoleDeviceServed
<1>2. ASSUME NEW d \in Devs, NEW addr \in Addrs, Transfer(d, addr) PROVE SoleDeviceServed'
  <2> DEFINE i == epInfos[OffsetForEndpointAddr(addr)]
  <2>1. /\ last' = [from |-> d, to |-> handle', addr |-> addr, claimed |-> kernel']
        /\ seen' = seen /\ i # 0 /\ objects[d] > 0
        /\ handle' = IF handle = NoDev THEN d ELSE handle
        /\ \/ interfaces[i].claimed /\ kernel' = kernel
           \/ Claim(i)
    BY <1>2 DEF Transfer, OpenIfNeeded
  <2> SUFFICES ASSUME seen = {d}
               PROVE  /\ handle' = d
                      /\ \E k \in DOMAIN Ifaces[d] :
                           Ifaces[d][k].number \in kernel' /\ addr \in Ifaces[d][k].endpoints
    BY <2>1 DEF SoleDeviceServed
  <2>2. handle' = d
    BY <2>1 DEF SoleInv
  <2>3. Described(d)
    BY <2>1 DEF SoleInv
  <2>4. OffsetForEndpointAddr(addr) \in Offsets /\ i \in 1 .. Len(interfaces)
        /\ DOMAIN interfaces = 1 .. Len(interfaces)
    BY <2>1, OffsetType DEF TypeOK, TablesOK
  <2>5. i \in 1 .. Len(Ifaces[d]) /\ Owns(d, i, OffsetForEndpointAddr(addr))
    BY <2>1, <2>3, <2>4 DEF Described
  <2>6. interfaces[i].number = Ifaces[d][i].number
    BY <2>3, <2>4, <2>5 DEF Described
  <2>7. PICK a \in Ifaces[d][i].endpoints :
          OffsetForEndpointAddr(a) = OffsetForEndpointAddr(addr)
    BY <2>5 DEF Owns
  <2>8. a \in Addrs /\ i \in DOMAIN Ifaces[d]
    BY <2>5, IfacesType
  <2>9. addr \in Ifaces[d][i].endpoints
    BY <2>7, <2>8, OffsetsDiffer
  <2>10. interfaces[i].number \in kernel'
    BY <2>1, <2>4 DEF ClaimsKept, Claim
  <2> QED
    BY <2>2, <2>6, <2>8, <2>9, <2>10
<1> QED
  BY <1>1, <1>2
  DEF Next, List, EndList, Construct, FailConstruct, Populate, Destroy, OnlyOpen, vars

(* A program that only ever meets one device is served by it, on an        *)
(* interface that has been claimed, however often it lists the device.     *)
THEOREM OneDeviceServed == Spec => []SoleDeviceServed
<1> DEFINE Inv == TypeOK /\ ClaimsKept /\ SoleInv /\ SoleDeviceServed
<1>1. Init => Inv
  <2> SUFFICES ASSUME Init PROVE Inv
    OBVIOUS
  <2>1. TypeOK /\ ClaimsKept
    BY TypeInit DEF Init, ClaimsKept
  <2>2. \A d \in Devs : Described(d)
    BY IfacesType DEF Init, Described
  <2>3. last.from = NoDev
    BY DEF Init, NoTransfer
  <2> QED
    BY <2>1, <2>2, <2>3 DEF Init, SoleInv, SoleDeviceServed
<1>2. Inv /\ [Next]_vars => Inv'
  BY TypeStep, ClaimsStep, SoleStep, ServedStep
<1>3. Inv => SoleDeviceServed
  OBVIOUS
<1> QED
  BY <1>1, <1>2, <1>3, PTL DEF Spec
==============================================================================
