------------------------- MODULE CommandQueuesProofs -------------------------
(***************************************************************************)
(* Proofs about CommandQueues, for every device and every host: the state  *)
(* stays well typed, no endpoint is left with both a waiting command and   *)
(* data for it, every URB is decided once, and no command is lost.         *)
(***************************************************************************)
EXTENDS CommandQueues, SequenceTheorems, FiniteSetTheorems, TLAPS

(***************************************************************************)
(* What the operators on commands and replies return.                      *)
(***************************************************************************)
LEMMA MaxCountType == MaxCount \in Nat /\ MaxCount > 0
BY DescriptorAssumption

LEMMA AtMostNat ==
  ASSUME NEW n \in Nat, NEW m \in Nat
  PROVE  AtMost(n, m) \in Nat /\ AtMost(n, m) <= n /\ AtMost(n, m) <= m
BY DEF AtMost

LEMMA ReplyType ==
  ASSUME NEW cmd \in Command, NEW payload \in Payload, NEW len \in Nat, NEW status \in Int
  PROVE  ReplyTo(cmd, payload, len, status) \in Reply
BY DEF ReplyTo, Reply, Command, Payload, PayloadKinds, NoPayload

LEMMA NoPayloadType == NoPayload \in Payload
BY DEF NoPayload, Payload, PayloadKinds

LEMMA StatusReplyType ==
  ASSUME NEW cmd \in Command, NEW selfPowered
  PROVE  StatusReply(cmd, selfPowered) \in Reply
<1> DEFINE payload == [kind |-> "status", at |-> IF selfPowered THEN 1 ELSE 0]
<1>1. payload \in Payload
  BY DEF Payload, PayloadKinds
<1> QED
  BY <1>1, ReplyType DEF StatusReply

LEMMA ConfigType ==
  ASSUME NEW i \in DOMAIN ConfigDescs
  PROVE  ConfigDescs[i].total \in Nat
<1> DEFINE Desc == [value : Nat, total : Nat, selfPowered : BOOLEAN]
<1>1. ConfigDescs \in Seq(Desc)
  BY DescriptorAssumption
<1>2. i \in 1 .. Len(ConfigDescs)
  BY <1>1, LenProperties
<1>3. ConfigDescs[i] \in Desc
  BY <1>1, <1>2, ElementOfSeq
<1> QED
  BY <1>3

(* A request that is carried out finds its descriptor, with a length:      *)
(* every index but that of a device descriptor was checked.                *)
LEMMA DescriptorReplyType ==
  ASSUME NEW cmd \in Command, IsStandard(cmd), cmd.setup.request = "GetDescriptor",
         NEW configured, StandardSupported(cmd, configured), NEW stray \in StrayLens
  PROVE  DescriptorReply(cmd, stray) \in Reply
<1> DEFINE req == cmd.setup
           desc == DescriptorFor(req, stray)
<1>0. stray \in Nat
  BY StrayAssumption
<1>1. req.low \in Nat /\ req.wLength \in Nat /\ req.high \in DescTypes
  BY DEF Command, SetupRequest
<1>2. desc.kind \in PayloadKinds /\ desc.len \in Nat
  <2>0. CASE PastTheTable(req)
    BY <1>0, <2>0 DEF PastTheTable, DescriptorFor, PayloadKinds
  <2>1. CASE req.high \in {"Device", "Configuration"} /\ ~PastTheTable(req)
    <3>1. req.low + 1 \in DOMAIN ConfigDescs
      BY <1>1, <2>1, DescriptorAssumption DEF StandardSupported, PastTheTable
    <3> QED
      BY <2>1, <3>1, ConfigType DEF DescriptorFor, PayloadKinds
  <2>2. CASE req.high = "String" /\ StringLens # <<>>
    <3>1. StringLens[req.low + 1] \in Nat
      BY <1>1, <2>2, DescriptorAssumption DEF StandardSupported
    <3> QED
      BY <2>2, <3>1 DEF DescriptorFor, PayloadKinds
  <2>3. CASE /\ req.high \notin {"Device", "Configuration"}
             /\ ~(req.high = "String" /\ StringLens # <<>>)
    BY <2>3, DescriptorAssumption DEF DescriptorFor, PayloadKinds
  <2> QED
    BY <2>0, <2>1, <2>2, <2>3
<1>3. [kind |-> desc.kind, at |-> req.low] \in Payload
  BY <1>1, <1>2 DEF Payload
<1>4. AtMost(desc.len, req.wLength) \in Nat
  BY <1>1, <1>2, AtMostNat
<1> QED
  BY <1>3, <1>4, ReplyType DEF DescriptorReply

LEMMA UnlinkStatusType == \A found \in BOOLEAN : UnlinkStatus(found) \in Int
BY DEF UnlinkStatus, ECONNRESET

(* Removing a member of a sequence.                                        *)
LEMMA RemoveAtType ==
  ASSUME NEW S, NEW s \in Seq(S), NEW i \in DOMAIN s
  PROVE  RemoveAt(s, i) \in Seq(S) /\ Len(RemoveAt(s, i)) = Len(s) - 1
<1> DEFINE front == SubSeq(s, 1, i - 1)
           back  == SubSeq(s, i + 1, Len(s))
<1>1. i \in 1 .. Len(s) /\ Len(s) \in Nat
  BY LenProperties
<1>2. \A j \in 1 .. Len(s) : s[j] \in S
  BY ElementOfSeq
<1>3. front \in Seq(S) /\ Len(front) = i - 1
  BY <1>1, <1>2, SubSeqProperties
<1>4. back \in Seq(S) /\ Len(back) = Len(s) - i
  BY <1>1, <1>2, SubSeqProperties
<1>5. RemoveAt(s, i) = front \o back
  BY DEF RemoveAt
<1> HIDE DEF front, back
<1>6. front \o back \in Seq(S) /\ Len(front \o back) = Len(front) + Len(back)
  BY <1>3, <1>4, ConcatProperties
<1> QED
  BY <1>1, <1>3, <1>4, <1>5, <1>6

LEMMA Singleton ==
  ASSUME NEW S, NEW x \in S
  PROVE  <<x>> \in Seq(S) /\ <<x>> # <<>> /\ Head(<<x>>) = x /\ Tail(<<x>>) = <<>>
OBVIOUS

LEMMA OneLong ==
  ASSUME NEW S, NEW s \in Seq(S), s # <<>>, Len(s) <= 1
  PROVE  \E x \in S : s = <<x>>
<1>1. Len(s) = 1 /\ s[1] \in S
  <2>1. Len(s) \in Nat /\ Len(s) # 0
    BY EmptySeq, LenProperties
  <2>2. Len(s) = 1
    BY <2>1
  <2> QED
    BY <2>2, ElementOfSeq
<1>2. <<s[1]>> \in Seq(S) /\ Len(<<s[1]>>) = 1 /\ <<s[1]>>[1] = s[1]
  BY <1>1
<1>3. s = <<s[1]>>
  BY <1>1, <1>2, SeqEqual
<1> QED
  BY <1>1, <1>3

(* What is appended behind the second of two sequences is appended behind  *)
(* the two.                                                                *)
LEMMA AppendBehind ==
  ASSUME NEW S, NEW s \in Seq(S), NEW t \in Seq(S), NEW x
  PROVE  s \o Append(t, x) = Append(s \o t, x)
<1> DEFINE T == S \cup {x}
<1>1. s \in Seq(T) /\ t \in Seq(T) /\ x \in T
  BY SeqMonotonic
<1> HIDE DEF T
<1>2. Append(t, x) = t \o <<x>> /\ <<x>> \in Seq(T)
  BY <1>1, AppendIsConcat, Singleton
<1>3. Append(s \o t, x) = (s \o t) \o <<x>>
  BY <1>1, ConcatProperties, AppendIsConcat
<1> QED
  BY <1>1, <1>2, <1>3, ConcatAssociative

(* The ends of a sequence.                                                 *)
LEMMA HeadAndTail ==
  ASSUME NEW S, NEW s \in Seq(S), s # <<>>
  PROVE  <<Head(s)>> \o Tail(s) = s
<1>1. Len(s) \in Nat \ {0}
  BY EmptySeq
<1>2. Head(s) \in S /\ Tail(s) \in Seq(S) /\ Len(Tail(s)) = Len(s) - 1
      /\ \A i \in 1 .. Len(Tail(s)) : Tail(s)[i] = s[i + 1]
  BY HeadTailProperties
<1>3. <<Head(s)>> \in Seq(S) /\ Len(<<Head(s)>>) = 1 /\ <<Head(s)>>[1] = s[1]
  BY <1>1, <1>2
<1>4. /\ <<Head(s)>> \o Tail(s) \in Seq(S)
      /\ Len(<<Head(s)>> \o Tail(s)) = Len(s)
      /\ \A i \in 1 .. Len(s) : (<<Head(s)>> \o Tail(s))[i] = s[i]
  BY <1>1, <1>2, <1>3, ConcatProperties
<1> QED
  BY <1>4, SeqEqual

LEMMA Prepended ==
  ASSUME NEW S, NEW s \in Seq(S), NEW x \in S
  PROVE  <<x>> \o s # <<>> /\ Head(<<x>> \o s) = x /\ Tail(<<x>> \o s) = s
<1> DEFINE xs == <<x>> \o s
<1>1. Len(s) \in Nat /\ <<x>> \in Seq(S) /\ Len(<<x>>) = 1
  BY LenProperties
<1>2. /\ xs \in Seq(S) /\ Len(xs) = Len(s) + 1 /\ xs[1] = x
      /\ \A i \in 1 .. Len(s) : xs[i + 1] = s[i]
  BY <1>1, ConcatProperties
<1> HIDE DEF xs
<1>3. xs # <<>> /\ Head(xs) = x
  BY <1>1, <1>2
<1>4. Tail(xs) \in Seq(S) /\ Len(Tail(xs)) = Len(s)
      /\ \A i \in 1 .. Len(s) : Tail(xs)[i] = s[i]
  BY <1>1, <1>2, <1>3, HeadTailProperties
<1>5. Tail(xs) = s
  BY <1>4, SeqEqual
<1> QED
  BY <1>3, <1>5 DEF xs

(***************************************************************************)
(* Type correctness.  The types of the queues that the handlers change,    *)
(* apart from the others, are what the lemmas about single handlers are    *)
(* about.                                                                  *)
(***************************************************************************)
QueueTypes ==
  /\ reps \in Seq(Reply)
  /\ inCmds \in [Endpoints -> Seq(Command)]
  /\ inData \in [Endpoints -> Seq(Data)]
  /\ configDesc \in 0 .. Len(ConfigDescs)
  /\ serving \in Endpoints \cup {NoEp}

LEMMA SubmitStandardType ==
  ASSUME QueueTypes, NEW cmd \in Command, SubmitStandard(cmd),
         StandardSupported(cmd, configDesc # 0)
  PROVE  QueueTypes'
<1>1. reps' \in Seq(Reply) /\ configDesc' \in 0 .. Len(ConfigDescs)
  <2>1. CASE /\ cmd.setup.request = "GetStatus"
             /\ Queue(StatusReply(cmd, ConfigDescs[configDesc].selfPowered))
             /\ UNCHANGED configDesc
    BY <2>1, StatusReplyType, AppendProperties DEF QueueTypes, Queue
  <2>2. CASE /\ cmd.setup.request = "GetDescriptor"
             /\ \E stray \in StrayLens : Queue(DescriptorReply(cmd, stray))
             /\ UNCHANGED configDesc
    BY <2>2, DescriptorReplyType, AppendProperties DEF QueueTypes, Queue, SubmitStandard
  <2>3. CASE /\ cmd.setup.request = "SetConfiguration"
             /\ \E i \in ConfigIndex(cmd.setup.low) :
                  /\ \A j \in ConfigIndex(cmd.setup.low) : i <= j
                  /\ configDesc' = i
             /\ Queue(ReplyTo(cmd, NoPayload, 0, 0))
    <3>1. ReplyTo(cmd, NoPayload, 0, 0) \in Reply
      BY ReplyType, NoPayloadType
    <3>2. configDesc' \in DOMAIN ConfigDescs
      BY <2>3 DEF ConfigIndex
    <3> QED
      BY <2>3, <3>1, <3>2, AppendProperties, DescriptorAssumption DEF QueueTypes, Queue
  <2> QED
    BY <2>1, <2>2, <2>3 DEF SubmitStandard
<1> QED
  BY <1>1 DEF QueueTypes, SubmitStandard

LEMMA SubmitOutType ==
  ASSUME QueueTypes, NEW cmd \in Command, SubmitOut(cmd)
  PROVE  QueueTypes'
<1>1. ReplyTo(cmd, NoPayload, cmd.length, 0) \in Reply
  BY ReplyType, NoPayloadType DEF Command
<1> QED
  BY <1>1, AppendProperties DEF QueueTypes, SubmitOut, Queue

LEMMA SubmitInType ==
  ASSUME QueueTypes, NEW cmd \in Command, SubmitIn(cmd), cmd.ep < MaxCount
  PROVE  QueueTypes' /\ serving' = cmd.ep /\ cmd.ep \in Endpoints
<1>0. cmd.ep \in EpNumbers
  BY DEF Command
<1>1. cmd.ep \in Endpoints
  BY <1>0, MaxCountType DEF Endpoints, EpNumbers
<1>2. Append(inCmds[cmd.ep], cmd) \in Seq(Command)
  BY <1>1, AppendProperties DEF QueueTypes
<1> QED
  BY <1>1, <1>2 DEF QueueTypes, SubmitIn

LEMMA UnlinkType ==
  ASSUME QueueTypes, NEW cmd \in Command, Unlink(cmd)
  PROVE  QueueTypes'
<1>1. \A found \in BOOLEAN : ReplyTo(cmd, NoPayload, 0, UnlinkStatus(found)) \in Reply
  BY ReplyType, NoPayloadType, UnlinkStatusType
<1>2. reps' \in Seq(Reply)
  <2>1. \E found \in BOOLEAN :
          reps' = Append(reps, ReplyTo(cmd, NoPayload, 0, UnlinkStatus(found)))
    BY DEF Unlink, Queue
  <2> QED
    BY <1>1, <2>1, AppendProperties DEF QueueTypes
<1>3. inCmds' \in [Endpoints -> Seq(Command)]
  <2>1. ASSUME NEW e \in Endpoints, NEW i \in DOMAIN inCmds[e],
               inCmds' = [inCmds EXCEPT ![e] = RemoveAt(@, i)]
        PROVE  inCmds' \in [Endpoints -> Seq(Command)]
    <3>1. RemoveAt(inCmds[e], i) \in Seq(Command)
      BY RemoveAtType DEF QueueTypes
    <3> QED
      BY <2>1, <3>1 DEF QueueTypes
  <2> QED
    BY <2>1 DEF Unlink, QueueTypes
<1> QED
  BY <1>2, <1>3 DEF QueueTypes, Unlink

LEMMA AcceptedIn ==
  ASSUME NEW cmd \in Command, Accept(cmd), SubmitIn(cmd)
  PROVE  IsSubmit(cmd) /\ cmd.ep < MaxCount /\ cmd.ep \in Endpoints
<1>1. IsSubmit(cmd) /\ IsTransfer(cmd)
  BY DEF SubmitIn, IsTransfer
<1>2. ~(cmd.ep >= MaxCount)
  BY <1>1 DEF Accept, Rejected, IsTransfer, IsStandard, IsSubmit, IsUnlink
<1>3. cmd.ep \in EpNumbers
  BY DEF Command
<1> QED
  BY <1>1, <1>2, <1>3, MaxCountType DEF EpNumbers, Endpoints

LEMMA AcceptType ==
  ASSUME QueueTypes, NEW cmd \in Command, Accept(cmd)
  PROVE  QueueTypes'
<1>0. ~Rejected(cmd, configDesc # 0)
  BY DEF Accept
<1>1. CASE SubmitStandard(cmd)
  <2>1. IsStandard(cmd)
    BY <1>1 DEF SubmitStandard
  <2>2. StandardSupported(cmd, configDesc # 0)
    BY <1>0, <2>1 DEF Rejected, IsTransfer, IsStandard, IsSubmit, IsUnlink
  <2> QED
    BY <1>1, <2>2, SubmitStandardType
<1>2. CASE SubmitOut(cmd)
  BY <1>2, SubmitOutType
<1>3. CASE SubmitIn(cmd)
  BY <1>3, AcceptedIn, SubmitInType
<1>4. CASE Unlink(cmd)
  BY <1>4, UnlinkType
<1> QED
  BY <1>1, <1>2, <1>3, <1>4 DEF Accept

(* What is left of the data after a reply took len bytes of the first.     *)
LEMMA AdvancedType ==
  ASSUME NEW data \in Seq(Data), data # <<>>, NEW len \in Nat,
         len <= Head(data).len - Head(data).off
  PROVE  Advanced(data, len) \in Seq(Data)
<1> DEFINE d == Head(data)
<1>1. d \in Data /\ Tail(data) \in Seq(Data) /\ 1 \in 1 .. Len(data) /\ data[1] = d
  BY HeadTailProperties
<1>4. d \in [pos : Nat, len : Nat, off : Nat] /\ d.off <= d.len
  BY <1>1 DEF Data
<1>2. [d EXCEPT !.off = d.off + len] \in Data
  BY <1>4, SMTT(30) DEF Data
<1>3. [data EXCEPT ![1] = [d EXCEPT !.off = d.off + len]] \in Seq(Data)
  BY <1>1, <1>2, ExceptSeq
<1> QED
  BY <1>1, <1>3 DEF Advanced

LEMMA SendType ==
  ASSUME QueueTypes, SendOne \/ SendDone
  PROVE  QueueTypes'
<1>1. CASE SendDone
  BY <1>1 DEF QueueTypes, SendDone
<1>2. CASE SendOne
  <2> DEFINE e   == serving
             cmd == Head(inCmds[e])
             d   == Head(inData[e])
             len == AtMost(d.len - d.off, cmd.length)
  <2>1. e \in Endpoints /\ inCmds[e] # <<>> /\ inData[e] # <<>>
    BY <1>2 DEF SendOne, Served, QueueTypes
  <2>2. cmd \in Command /\ Tail(inCmds[e]) \in Seq(Command)
    BY <2>1, HeadTailProperties DEF QueueTypes
  <2>3. d \in Data
    BY <2>1, HeadTailProperties DEF QueueTypes
  <2>9. d.len - d.off \in Nat /\ cmd.length \in Nat
    BY <2>2, <2>3, SMTT(30) DEF Command, Data
  <2>4. len \in Nat /\ len <= d.len - d.off
    BY <2>9, AtMostNat
  <2>5. [kind |-> "write", at |-> d.pos + d.off] \in Payload
    BY <2>3 DEF Data, Payload, PayloadKinds
  <2>6. ReplyTo(cmd, [kind |-> "write", at |-> d.pos + d.off], len, 0) \in Reply
    BY <2>2, <2>4, <2>5, ReplyType
  <2>7. Advanced(inData[e], len) \in Seq(Data)
    BY <2>1, <2>4, AdvancedType DEF QueueTypes
  <2>8. reps' \in Seq(Reply)
    BY <1>2, <2>6, AppendProperties DEF SendOne, Queue, QueueTypes
  <2> QED
    BY <1>2, <2>1, <2>2, <2>7, <2>8 DEF SendOne, QueueTypes
<1> QED
  BY <1>1, <1>2

LEMMA EnqueueType ==
  ASSUME QueueTypes, written \in [Endpoints -> Nat], writes \in Nat,
         NEW e \in WriteEps, NEW len \in WriteLens, Enqueue(e, len)
  PROVE  QueueTypes' /\ written' \in [Endpoints -> Nat] /\ writes' \in Nat
<1>1. e \in Endpoints /\ len \in Nat
  BY HostAssumption
<1>2. [pos |-> written[e], len |-> len, off |-> 0] \in Data
  BY <1>1 DEF Data
<1>3. inData' \in [Endpoints -> Seq(Data)]
  BY <1>1, <1>2, AppendProperties DEF Enqueue, QueueTypes
<1> QED
  BY <1>1, <1>3 DEF Enqueue, QueueTypes

(* The commands of the host are commands.                                  *)
LEMMA SubmitCmdType ==
  ASSUME NEW s \in Shapes, NEW n \in Nat
  PROVE  SubmitCmd(n, s) \in Command
<1>1. s \in [command : {"Submit", "Bad"}, direction : Directions,
             ep : EpNumbers, length : Nat, setup : SetupRequest]
  BY ShapesAssumption
<1> QED
  BY <1>1 DEF SubmitCmd, Command

LEMMA UnlinkCmdType ==
  ASSUME NEW n \in Nat, NEW t \in Nat, NEW e \in UnlinkEps
  PROVE  UnlinkCmd(n, t, e) \in Command
<1>1. e \in EpNumbers
  BY HostAssumption
<1>2. NoSetup \in SetupRequest
  BY DEF NoSetup, SetupRequest, RequestTypes, Recipients, Requests, DescTypes
<1> QED
  BY <1>1, <1>2 DEF UnlinkCmd, Command, Directions

LEMMA HostType ==
  ASSUME issued \in Seq(Command), wire \in Seq(Command), HostSubmit \/ HostUnlink
  PROVE  issued' \in Seq(Command) /\ wire' \in Seq(Command)
<1>1. Len(issued) \in Nat /\ DOMAIN issued \subseteq Nat
  BY LenProperties
<1>2. \E cmd \in Command : Issue(cmd)
  <2>1. CASE HostSubmit
    BY <1>1, <2>1, SubmitCmdType DEF HostSubmit
  <2>2. CASE HostUnlink
    <3>1. PICK t \in DOMAIN issued, e \in UnlinkEps : Issue(UnlinkCmd(Len(issued) + 1, t, e))
      BY <2>2 DEF HostUnlink
    <3> QED
      BY <1>1, <3>1, UnlinkCmdType
  <2> QED
    BY <2>1, <2>2
<1> QED
  BY <1>2, AppendProperties DEF Issue

LEMMA TypeInit == Init => TypeOK
BY DescriptorAssumption, MaxCountType
   DEF Init, TypeOK, Endpoints, NoEp, Causes

LEMMA TypeStep == TypeOK /\ [Next]_queues => TypeOK'
<1> SUFFICES ASSUME TypeOK, [Next]_queues PROVE TypeOK'
  OBVIOUS
<1> USE DEF TypeOK
<1>0. QueueTypes
  BY DEF QueueTypes
<1>1. CASE Host
  BY <1>1, HostType DEF Host, handVars, queueVars, dataVars
<1>2. CASE Receive
  <2>1. Head(wire) \in Command /\ Tail(wire) \in Seq(Command)
    BY <1>2, HeadTailProperties DEF Receive
  <2> QED
    BY <1>2, <2>1 DEF Receive, queueVars, dataVars
<1>9. CASE Push
  <2>1. cmds \o rcmd \in Seq(Command)
    BY ConcatProperties
  <2> QED
    BY <1>9, <2>1 DEF Push, hostVars, queueVars, dataVars
<1>3. CASE Handle
  <2>1. Head(cmds) \in Command /\ Tail(cmds) \in Seq(Command)
    BY <1>3, HeadTailProperties DEF Handle
  <2>2. QueueTypes'
    BY <1>0, <1>3, <2>1, AcceptType DEF Handle, QueueTypes, queueVars
  <2> QED
    BY <1>3, <2>1, <2>2 DEF Handle, QueueTypes, hostVars, handVars, dataVars, Causes
<1>4. CASE Send
  <2>1. QueueTypes'
    BY <1>0, <1>4, SendType DEF Send
  <2> QED
    BY <1>4, <2>1 DEF Send, QueueTypes, hostVars, handVars, dataVars
<1>5. CASE Write
  <2>1. QueueTypes' /\ written' \in [Endpoints -> Nat] /\ writes' \in Nat
    BY <1>0, <1>5, EnqueueType DEF Write
  <2> QED
    BY <1>5, <2>1 DEF Write, QueueTypes, hostVars, handVars
<1>10. CASE Take
  <2>1. Head(reps) \in Reply /\ Tail(reps) \in Seq(Reply)
    BY <1>10, HeadTailProperties DEF Take
  <2> QED
    BY <1>10, <2>1 DEF Take, hostVars, dataVars
<1>6. CASE Transmit
  <2>1. sent \o wrep \in Seq(Reply)
    BY ConcatProperties
  <2> QED
    BY <1>6, <2>1 DEF Transmit, hostVars, queueVars, dataVars
<1>7. CASE Fail
  BY <1>7 DEF Fail, hostVars, handVars, queueVars, dataVars, Causes
<1>8. CASE UNCHANGED queues
  BY <1>8 DEF queues
<1> QED
  BY <1>1, <1>2, <1>3, <1>4, <1>5, <1>6, <1>7, <1>8, <1>9, <1>10 DEF Next

(* The state is well typed in every behaviour: in particular no reply has  *)
(* a negative length, and every index the handlers use is inside its       *)
(* table, but that of a device descriptor (VirtualUSBDevice.cpp:727), for  *)
(* which every length found past the table is accounted for.               *)
THEOREM TypeCorrect == Spec => []TypeOK
BY TypeInit, TypeStep, PTL DEF Spec

(***************************************************************************)
(* NoStalledIn.  Only SubmitIn and write() add to a pair of queues, and    *)
(* both hand the endpoint over to the sending loop, which lets go of it    *)
(* when one of the two queues is empty.                                    *)
(***************************************************************************)
LEMMA NoStalledInit == Init => NoStalledIn
BY DEF Init, NoStalledIn

LEMMA NoEpIsNone == NoEp \notin Endpoints
BY MaxCountType DEF NoEp, Endpoints

LEMMA UnlinkNoStalled ==
  ASSUME QueueTypes, serving = NoEp, NoStalledIn, NEW cmd, Unlink(cmd)
  PROVE  NoStalledIn'
<1>1. CASE UNCHANGED inCmds
  BY <1>1 DEF Unlink, NoStalledIn
<1>2. ASSUME NEW e \in Endpoints, NEW i \in DOMAIN inCmds[e],
             inCmds' = [inCmds EXCEPT ![e] = RemoveAt(@, i)]
      PROVE  NoStalledIn'
  <2>1. inCmds[e] # <<>>
    BY <1>2
  <2>2. inData[e] = <<>>
    BY <2>1, NoEpIsNone DEF NoStalledIn
  <2>3. \A f \in Endpoints \ {e} : inCmds'[f] = inCmds[f]
    BY <1>2 DEF QueueTypes
  <2> QED
    BY <2>2, <2>3 DEF NoStalledIn, Unlink
<1> QED
  BY <1>1, <1>2 DEF Unlink

LEMMA AcceptNoStalled ==
  ASSUME QueueTypes, serving = NoEp, NoStalledIn, NEW cmd \in Command, Accept(cmd)
  PROVE  NoStalledIn'
<1>1. CASE SubmitStandard(cmd)
  BY <1>1 DEF SubmitStandard, NoStalledIn
<1>2. CASE SubmitOut(cmd)
  BY <1>2 DEF SubmitOut, NoStalledIn
<1>3. CASE SubmitIn(cmd)
  <2>1. \A f \in Endpoints \ {cmd.ep} : inCmds'[f] = inCmds[f]
    BY <1>3 DEF SubmitIn, QueueTypes
  <2> QED
    BY <1>3, <2>1, NoEpIsNone DEF SubmitIn, NoStalledIn
<1>4. CASE Unlink(cmd)
  BY <1>4, UnlinkNoStalled
<1> QED
  BY <1>1, <1>2, <1>3, <1>4 DEF Accept

LEMMA NoStalledStep == TypeOK /\ NoStalledIn /\ [Next]_queues => NoStalledIn'
<1> SUFFICES ASSUME TypeOK, NoStalledIn, [Next]_queues PROVE NoStalledIn'
  OBVIOUS
<1>0. QueueTypes
  BY DEF TypeOK, QueueTypes
<1>1. CASE UNCHANGED <<inCmds, inData, serving>>
  BY <1>1 DEF NoStalledIn
<1>2. CASE Handle
  <2>1. CASE Accept(Head(cmds))
    <3>1. Head(cmds) \in Command
      BY <1>2, HeadTailProperties DEF Handle, TypeOK
    <3> QED
      BY <1>0, <1>2, <2>1, <3>1, AcceptNoStalled DEF Handle
  <2>2. CASE UNCHANGED queueVars
    BY <1>1, <2>2 DEF queueVars
  <2> QED
    BY <1>2, <2>1, <2>2 DEF Handle
<1>3. CASE Send
  <2>1. CASE SendOne
    <3>1. \A f \in Endpoints \ {serving} : inCmds'[f] = inCmds[f] /\ inData'[f] = inData[f]
      BY <2>1 DEF SendOne, TypeOK
    <3> QED
      BY <2>1, <3>1 DEF SendOne, NoStalledIn
  <2>2. CASE SendDone
    BY <2>2 DEF SendDone, Served, NoStalledIn
  <2> QED
    BY <1>3, <2>1, <2>2 DEF Send
<1>4. CASE Write
  <2>1. PICK e \in WriteEps, len \in WriteLens : Enqueue(e, len)
    BY <1>4 DEF Write
  <2>2. \A f \in Endpoints \ {e} : inData'[f] = inData[f]
    BY <2>1 DEF Enqueue, TypeOK
  <2> QED
    BY <1>4, <2>1, <2>2, NoEpIsNone DEF Write, Enqueue, NoStalledIn
<1> QED
  BY <1>1, <1>2, <1>3, <1>4
     DEF Next, Host, Receive, Push, Take, Transmit, Fail, queueVars, queues

(* No endpoint is ever left, outside the sending loop, with both a request *)
(* of the host and data for it.                                            *)
THEOREM NothingStalls == Spec => []NoStalledIn
<1>1. Spec => []TypeOK
  BY TypeCorrect
<1> QED
  BY <1>1, NoStalledInit, NoStalledStep, PTL DEF Spec

(***************************************************************************)
(* UrbService.  The commands in cmds, in the read thread's hands and on    *)
(* the wire are, in this order, the last ones the host issued; all others  *)
(* are handled.  So an unlink finds its target handled, and a command that *)
(* is handled either waits or has been decided, never both.                *)
(***************************************************************************)
Unqueued == rcmd \o wire
Handled  == Len(issued) - Len(cmds) - Len(Unqueued)

(* What the host issues: sequence numbers count, and an unlink names an    *)
(* earlier submit that no other unlink names.                              *)
LogOK ==
  /\ Len(issued) <= MaxCommands
  /\ \A n \in DOMAIN issued : issued[n].seqnum = n /\ issued[n].target < n
  /\ \A n \in DOMAIN issued : IsUnlink(issued[n]) => IsSubmit(issued[issued[n].target])
                                                     /\ issued[n].target \in DOMAIN issued
  /\ \A m, n \in DOMAIN issued :
       IsUnlink(issued[m]) /\ IsUnlink(issued[n]) /\ issued[m].target = issued[n].target => m = n

InLine ==
  /\ Handled >= 0
  /\ \A i \in DOMAIN cmds : cmds[i] = issued[Handled + i]
  /\ \A i \in DOMAIN Unqueued : Unqueued[i] = issued[Handled + Len(cmds) + i]

WaitingOK ==
  /\ \A e \in Endpoints : \A i \in DOMAIN inCmds[e] :
       /\ inCmds[e][i].seqnum \in 1 .. Handled
       /\ inCmds[e][i] = issued[inCmds[e][i].seqnum]
       /\ IsSubmit(inCmds[e][i])
  /\ \A e, f \in Endpoints : \A i \in DOMAIN inCmds[e], j \in DOMAIN inCmds[f] :
       inCmds[e][i].seqnum = inCmds[f][j].seqnum => e = f /\ i = j

RepliesOK ==
  \A i \in DOMAIN Replies :
    /\ Replies[i].seqnum \in 1 .. Handled
    /\ Replies[i].command = "RetUnlink" => IsUnlink(issued[Replies[i].seqnum])

Waits(u)   == \E e \in Endpoints : \E i \in DOMAIN inCmds[e] : inCmds[e][i].seqnum = u
Decided(u) == \E i \in DOMAIN Verdicts : Verdicts[i].urb = u /\ Verdicts[i].verdict # "missed"

WaitingUndecided == \A u \in DOMAIN issued : Waits(u) => ~Decided(u)
NoneForgotten    == err # "command" => \A u \in 1 .. Handled :
                                      IsSubmit(issued[u]) => Waits(u) \/ Decided(u)

LineInv == LogOK /\ InLine /\ WaitingOK /\ RepliesOK
UrbInv  == LineInv /\ WaitingUndecided /\ NoneForgotten

LEMMA Domains ==
  ASSUME TypeOK
  PROVE  /\ Len(issued) \in Nat /\ DOMAIN issued = 1 .. Len(issued)
         /\ Len(cmds) \in Nat /\ DOMAIN cmds = 1 .. Len(cmds)
         /\ Len(wire) \in Nat /\ DOMAIN wire = 1 .. Len(wire)
         /\ Len(rcmd) \in Nat /\ DOMAIN rcmd = 1 .. Len(rcmd)
         /\ Unqueued \in Seq(Command)
         /\ Len(Unqueued) \in Nat /\ DOMAIN Unqueued = 1 .. Len(Unqueued)
         /\ Len(Unqueued) = Len(rcmd) + Len(wire)
         /\ Replies \in Seq(Reply)
         /\ Len(Replies) \in Nat /\ DOMAIN Replies = 1 .. Len(Replies)
         /\ \A e \in Endpoints : /\ Len(inCmds[e]) \in Nat
                                 /\ DOMAIN inCmds[e] = 1 .. Len(inCmds[e])
         /\ Handled \in Int
<1>1. Replies \in Seq(Reply)
  <2>1. sent \o wrep \in Seq(Reply) /\ reps \in Seq(Reply)
    BY ConcatProperties DEF TypeOK
  <2> QED
    BY <2>1, ConcatProperties DEF Replies
<1>2. Unqueued \in Seq(Command) /\ Len(Unqueued) = Len(rcmd) + Len(wire)
  BY ConcatProperties DEF TypeOK, Unqueued
<1> QED
  BY <1>1, <1>2, LenProperties DEF TypeOK, Handled

(* At first there is neither a command nor a reply.                        *)
LEMMA NothingYet == Init => Replies = <<>> /\ Unqueued = <<>> /\ Len(Unqueued) = 0 /\ Handled = 0
<1> SUFFICES ASSUME Init
             PROVE  Replies = <<>> /\ Unqueued = <<>> /\ Len(Unqueued) = 0 /\ Handled = 0
  OBVIOUS
<1>1. <<>> \o <<>> = <<>>
  BY ConcatEmptySeq, EmptySeq
<1>2. Replies = <<>> /\ Unqueued = <<>>
  BY <1>1 DEF Init, Replies, Unqueued
<1>3. Len(issued) = 0 /\ Len(cmds) = 0 /\ Len(Unqueued) = 0
  BY <1>2, Len(<<>>) = 0 DEF Init
<1>4. Handled = 0
  BY <1>3 DEF Handled
<1> QED
  BY <1>2, <1>3, <1>4

LEMMA UrbInit == Init => UrbInv
<1> SUFFICES ASSUME Init PROVE UrbInv
  OBVIOUS
<1>0. Len(issued) = 0
  BY DEF Init
<1>1. Handled = 0 /\ Unqueued = <<>>
  BY NothingYet
<1>2. Replies = <<>>
  BY NothingYet
<1>3. \A e \in Endpoints : inCmds[e] = <<>>
  BY DEF Init
<1>4. LogOK
  BY <1>0, HostAssumption DEF Init, LogOK
<1>5. InLine /\ RepliesOK /\ WaitingOK
  BY <1>1, <1>2, <1>3 DEF Init, InLine, WaitingOK, RepliesOK
<1>6. WaitingUndecided /\ NoneForgotten
  BY <1>1, <1>3 DEF WaitingUndecided, NoneForgotten, Waits
<1> QED
  BY <1>4, <1>5, <1>6 DEF UrbInv, LineInv

(* The verdicts follow the replies.                                        *)
LEMMA VerdictOf ==
  ASSUME TypeOK
  PROVE  /\ DOMAIN Verdicts = DOMAIN Replies
         /\ \A i \in DOMAIN Replies : Verdicts[i] = Verdict(Replies[i])
BY DEF Verdicts

LEMMA VerdictsStay ==
  ASSUME TypeOK, LineInv, UNCHANGED Replies,
         \A n \in DOMAIN issued : issued'[n] = issued[n]
  PROVE  UNCHANGED Verdicts
<1>1. \A i \in DOMAIN Replies : issued'[Replies[i].seqnum] = issued[Replies[i].seqnum]
  BY Domains DEF LineInv, RepliesOK, InLine, Handled
<1> QED
  BY <1>1 DEF Verdicts, Verdict

LEMMA VerdictsGrow ==
  ASSUME TypeOK, UNCHANGED issued, NEW reply \in Reply, Replies' = Append(Replies, reply)
  PROVE  /\ Verdicts' = Append(Verdicts, Verdict(reply))
         /\ \A u : Decided(u)' <=> \/ Decided(u)
                                   \/ Verdict(reply).urb = u /\ Verdict(reply).verdict # "missed"
<1> DEFINE n == Len(Replies)
           S == {Verdict(r) : r \in Reply}
<1>1. n \in Nat /\ DOMAIN Replies = 1 .. n /\ \A i \in 1 .. n : Replies[i] \in Reply
  BY Domains, ElementOfSeq
<1>2. /\ DOMAIN Replies' = 1 .. n + 1 /\ Replies'[n + 1] = reply
      /\ \A i \in 1 .. n : Replies'[i] = Replies[i]
  BY Domains, AppendProperties, LenProperties
<1>3. /\ DOMAIN Verdicts = 1 .. n /\ \A i \in 1 .. n : Verdicts[i] = Verdict(Replies[i])
      /\ Verdicts \in [1 .. n -> S]
  BY <1>1 DEF Verdicts
<1>4. Verdicts \in Seq(S) /\ Verdict(reply) \in S /\ Len(Verdicts) = n
  BY <1>1, <1>3, SeqDef
<1>5. /\ DOMAIN Verdicts' = 1 .. n + 1 /\ Verdicts'[n + 1] = Verdict(reply)
      /\ \A i \in 1 .. n : Verdicts'[i] = Verdicts[i]
      /\ Verdicts' = [i \in 1 .. n + 1 |-> Verdicts'[i]]
  BY <1>1, <1>2, <1>3 DEF Verdicts, Verdict
<1>6. /\ DOMAIN Append(Verdicts, Verdict(reply)) = 1 .. n + 1
      /\ \A i \in 1 .. n + 1 : Append(Verdicts, Verdict(reply))[i] = Verdicts'[i]
      /\ Append(Verdicts, Verdict(reply)) = [i \in 1 .. n + 1 |-> Append(Verdicts, Verdict(reply))[i]]
  <2> DEFINE longer == Append(Verdicts, Verdict(reply))
  <2>1. /\ longer \in Seq(S) /\ Len(longer) = n + 1 /\ longer[n + 1] = Verdict(reply)
        /\ \A i \in 1 .. n : longer[i] = Verdicts[i]
    <3> HIDE DEF S
    <3> QED
      BY <1>4, AppendProperties
  <2> HIDE DEF longer, S
  <2>2. longer \in [1 .. n + 1 -> S]
    BY <2>1, LenProperties
  <2>3. \A i \in 1 .. n + 1 : longer[i] = Verdicts'[i]
    BY <1>1, <1>5, <2>1
  <2> QED
    BY <2>2, <2>3 DEF longer
<1>7. Verdicts' = Append(Verdicts, Verdict(reply))
  BY <1>5, <1>6
<1>8. \A u : Decided(u)' <=> \/ Decided(u)
                             \/ Verdict(reply).urb = u /\ Verdict(reply).verdict # "missed"
  BY <1>1, <1>3, <1>5 DEF Decided
<1> QED
  BY <1>7, <1>8

(* No verdict is about a command that is still in line.                    *)
LEMMA VerdictBound ==
  ASSUME TypeOK, LineInv, NEW u, Decided(u)
  PROVE  u \in 1 .. Handled
<1>1. PICK i \in DOMAIN Replies : Verdict(Replies[i]).urb = u
  BY VerdictOf DEF Decided
<1> DEFINE n == Replies[i].seqnum
<1>2. n \in 1 .. Handled /\ Handled \in Nat /\ n \in DOMAIN issued
  <2>1. n \in 1 .. Handled /\ Handled \in Int /\ Handled <= Len(issued)
    BY <1>1, Domains DEF LineInv, RepliesOK, InLine, Handled
  <2> QED
    BY <2>1, Domains
<1>3. CASE Replies[i].command = "RetSubmit"
  BY <1>1, <1>2, <1>3 DEF Verdict
<1>4. CASE Replies[i].command = "RetUnlink"
  <2>1. u = issued[n].target
    BY <1>1, <1>4 DEF Verdict
  <2>2. u \in DOMAIN issued /\ u < n
    BY <1>2, <1>4, <2>1 DEF LineInv, RepliesOK, LogOK
  <2> QED
    BY <1>2, <2>2, Domains
<1>5. Replies[i] \in Reply
  BY <1>1, Domains, ElementOfSeq
<1> QED
  BY <1>3, <1>4, <1>5 DEF Reply

(***************************************************************************)
(* The line moves: its first command is the one after those handled.       *)
(***************************************************************************)
LEMMA LineMoves ==
  ASSUME TypeOK, TypeOK', InLine, cmds # <<>>, cmds' = Tail(cmds),
         UNCHANGED hostVars, UNCHANGED rcmd
  PROVE  /\ InLine' /\ Handled \in Nat /\ Handled' = Handled + 1
         /\ Handled + 1 \in DOMAIN issued /\ Head(cmds) = issued[Handled + 1]
<1>1. Len(cmds) >= 1 /\ Len(cmds') = Len(cmds) - 1 /\ Head(cmds) = cmds[1]
      /\ \A i \in 1 .. Len(cmds') : cmds'[i] = cmds[i + 1]
  BY HeadTailProperties, EmptySeq DEF TypeOK
<1>0. UNCHANGED Unqueued
  BY DEF Unqueued, hostVars
<1>2. Handled' = Handled + 1 /\ Handled \in Nat /\ Handled + 1 <= Len(issued)
  BY <1>0, <1>1, Domains DEF InLine, Handled, hostVars
<1>3. Handled + 1 \in DOMAIN issued /\ Head(cmds) = issued[Handled + 1]
  <2>1. 1 \in DOMAIN cmds
    BY <1>1, Domains
  <2>2. cmds[1] = issued[Handled + 1]
    BY <2>1 DEF InLine
  <2> QED
    BY <1>1, <1>2, <2>2, Domains
<1>4. \A i \in DOMAIN cmds' : cmds'[i] = issued[Handled' + i]
  <2> SUFFICES ASSUME NEW i \in DOMAIN cmds' PROVE cmds'[i] = issued[Handled' + i]
    OBVIOUS
  <2>0. DOMAIN cmds' = 1 .. Len(cmds') /\ Len(cmds') \in Nat
    BY LenProperties DEF TypeOK
  <2>1. i \in 1 .. Len(cmds') /\ Len(cmds') \in Nat /\ i + 1 \in DOMAIN cmds
    BY <1>1, <2>0, Domains
  <2>2. cmds'[i] = cmds[i + 1] /\ cmds[i + 1] = issued[Handled + (i + 1)]
    BY <1>1, <2>1 DEF InLine
  <2> QED
    BY <1>2, <2>1, <2>2
<1>5. \A i \in DOMAIN Unqueued : Handled' + Len(cmds') + i = Handled + Len(cmds) + i
  BY <1>1, <1>2, Domains
<1> QED
  BY <1>0, <1>2, <1>3, <1>4, <1>5 DEF InLine, hostVars

(* Taking the k-th command out of a queue.                                 *)
Drops(s, k, rest) ==
  /\ DOMAIN rest = 1 .. Len(s) - 1
  /\ \A j \in 1 .. Len(s) - 1 : rest[j] = s[IF j < k THEN j ELSE j + 1]

LEMMA RemoveAtDrops ==
  ASSUME NEW S, NEW s \in Seq(S), NEW k \in DOMAIN s
  PROVE  Drops(s, k, RemoveAt(s, k))
<1> DEFINE front == SubSeq(s, 1, k - 1)
           back  == SubSeq(s, k + 1, Len(s))
<1>1. k \in 1 .. Len(s) /\ Len(s) \in Nat
  BY LenProperties
<1>2. \A j \in 1 .. Len(s) : s[j] \in S
  BY ElementOfSeq
<1>3. /\ front \in Seq(S) /\ Len(front) = k - 1
      /\ \A j \in 1 .. k - 1 : front[j] = s[j]
  BY <1>1, <1>2, SubSeqProperties
<1>4. /\ back \in Seq(S) /\ Len(back) = Len(s) - k
      /\ \A j \in 1 .. Len(s) - k : back[j] = s[k + j]
  BY <1>1, <1>2, SubSeqProperties
<1>5. RemoveAt(s, k) = front \o back
  BY DEF RemoveAt
<1> HIDE DEF front, back
<1> DEFINE rest == front \o back
<1>6. /\ rest \in Seq(S) /\ Len(rest) = Len(s) - 1
      /\ \A j \in 1 .. Len(s) - 1 : rest[j] = IF j <= k - 1 THEN front[j] ELSE back[j - (k - 1)]
  <2>1. /\ rest \in Seq(S) /\ Len(rest) = Len(front) + Len(back)
        /\ \A j \in 1 .. Len(front) + Len(back) :
             rest[j] = IF j <= Len(front) THEN front[j] ELSE back[j - Len(front)]
    BY <1>3, <1>4, ConcatProperties
  <2>2. Len(front) + Len(back) = Len(s) - 1
    BY <1>1, <1>3, <1>4
  <2> HIDE DEF rest
  <2> QED
    BY <1>3, <2>1, <2>2
<1> HIDE DEF rest
<1>7. DOMAIN rest = 1 .. Len(s) - 1
  BY <1>6, LenProperties
<1>8. ASSUME NEW j \in 1 .. Len(s) - 1 PROVE rest[j] = s[IF j < k THEN j ELSE j + 1]
  <2>1. CASE j < k
    BY <1>1, <1>3, <1>6, <1>8, <2>1, SMTT(30)
  <2>2. CASE ~(j < k)
    <3>1. j - (k - 1) \in 1 .. Len(s) - k /\ k + (j - (k - 1)) = j + 1
      BY <1>1, <1>8, <2>2
    <3>2. back[j - (k - 1)] = s[j + 1]
      BY <1>4, <3>1
    <3>3. rest[j] = back[j - (k - 1)]
      BY <1>1, <1>6, <1>8, <2>2
    <3> QED
      BY <2>2, <3>2, <3>3
  <2> QED
    BY <2>1, <2>2
<1> QED
  BY <1>5, <1>7, <1>8 DEF Drops, rest

LEMMA TailDrops ==
  ASSUME NEW S, NEW s \in Seq(S), s # <<>>
  PROVE  Drops(s, 1, Tail(s)) /\ 1 \in DOMAIN s /\ Head(s) = s[1]
<1>1. Len(s) \in Nat \ {0} /\ DOMAIN s = 1 .. Len(s)
  BY EmptySeq, LenProperties
<1>2. /\ Tail(s) \in Seq(S) /\ Len(Tail(s)) = Len(s) - 1
      /\ \A j \in 1 .. Len(Tail(s)) : Tail(s)[j] = s[j + 1]
  BY HeadTailProperties
<1>3. DOMAIN Tail(s) = 1 .. Len(s) - 1
  BY <1>2, LenProperties
<1> QED
  BY <1>1, <1>2, <1>3 DEF Drops

(* Every command waits at one place of one queue: taking it out removes it *)
(* and nothing else.                                                       *)
LEMMA DropKeeps ==
  ASSUME TypeOK, WaitingOK, UNCHANGED issued, Handled' \in Int, Handled <= Handled',
         NEW e \in Endpoints, NEW k \in DOMAIN inCmds[e], NEW rest, Drops(inCmds[e], k, rest),
         inCmds' = [inCmds EXCEPT ![e] = rest]
  PROVE  /\ WaitingOK'
         /\ \A u : Waits(u)' <=> Waits(u) /\ u # inCmds[e][k].seqnum
<1> DEFINE old(f, j) == IF f = e /\ ~(j < k) THEN j + 1 ELSE j
<1>0. Handled \in Int /\ k \in Nat
  BY Domains
<1>1. inCmds'[e] = rest /\ \A f \in Endpoints \ {e} : inCmds'[f] = inCmds[f]
  BY DEF TypeOK
<1>2. ASSUME NEW f \in Endpoints, NEW j \in DOMAIN inCmds'[f]
      PROVE  /\ old(f, j) \in DOMAIN inCmds[f] /\ inCmds'[f][j] = inCmds[f][old(f, j)]
             /\ ~(f = e /\ old(f, j) = k) /\ j \in Int
  <2>1. CASE f # e
    BY <1>1, <1>2, <2>1, Domains
  <2>2. CASE f = e
    <3>1. j \in 1 .. Len(inCmds[e]) - 1 /\ inCmds'[f][j] = inCmds[e][old(f, j)]
      BY <1>1, <1>2, <2>2 DEF Drops
    <3> QED
      BY <1>0, <2>2, <3>1, Domains, SMTT(30)
  <2> QED
    BY <2>1, <2>2
<1>3. ASSUME NEW f \in Endpoints, NEW i \in DOMAIN inCmds[f], ~(f = e /\ i = k)
      PROVE  \E j \in DOMAIN inCmds'[f] : inCmds'[f][j] = inCmds[f][i]
  <2>1. CASE f # e
    BY <1>1, <2>1
  <2>2. CASE f = e
    <3>0. /\ i \in 1 .. Len(inCmds[e]) /\ k \in 1 .. Len(inCmds[e]) /\ i # k
          /\ Len(inCmds[e]) \in Nat
      BY <1>3, <2>2, Domains
    <3>1. PICK j \in 1 .. Len(inCmds[e]) - 1 : (IF j < k THEN j ELSE j + 1) = i
      <4>1. CASE i < k
        BY <3>0, <4>1
      <4>2. CASE ~(i < k)
        <5>1. i - 1 \in 1 .. Len(inCmds[e]) - 1 /\ ~(i - 1 < k) /\ (i - 1) + 1 = i
          BY <3>0, <4>2
        <5> QED
          BY <5>1
      <4> QED
        BY <4>1, <4>2
    <3>2. DOMAIN rest = 1 .. Len(inCmds[e]) - 1 /\ rest[j] = inCmds[e][i]
      BY <3>1 DEF Drops
    <3> QED
      BY <1>1, <2>2, <3>1, <3>2
  <2> QED
    BY <2>1, <2>2
<1>4. ASSUME NEW f \in Endpoints, NEW j \in DOMAIN inCmds'[f]
      PROVE  /\ inCmds'[f][j].seqnum \in 1 .. Handled'
             /\ inCmds'[f][j] = issued[inCmds'[f][j].seqnum]
             /\ IsSubmit(inCmds'[f][j])
  BY <1>0, <1>2, <1>4 DEF WaitingOK
<1>5. ASSUME NEW f \in Endpoints, NEW g \in Endpoints,
             NEW i \in DOMAIN inCmds'[f], NEW j \in DOMAIN inCmds'[g],
             inCmds'[f][i].seqnum = inCmds'[g][j].seqnum
      PROVE  f = g /\ i = j
  <2>1. /\ old(f, i) \in DOMAIN inCmds[f] /\ old(g, j) \in DOMAIN inCmds[g]
        /\ inCmds[f][old(f, i)].seqnum = inCmds[g][old(g, j)].seqnum
        /\ i \in Int /\ j \in Int
    BY <1>2, <1>5
  <2> HIDE DEF old
  <2>2. f = g /\ old(f, i) = old(g, j)
    BY <2>1 DEF WaitingOK
  <2> QED
    BY <1>0, <2>1, <2>2 DEF old
<1>6. ASSUME NEW u PROVE Waits(u)' <=> Waits(u) /\ u # inCmds[e][k].seqnum
  <2>1. Waits(u)' => Waits(u) /\ u # inCmds[e][k].seqnum
    <3> SUFFICES ASSUME NEW f \in Endpoints, NEW j \in DOMAIN inCmds'[f],
                        inCmds'[f][j].seqnum = u
                 PROVE  Waits(u) /\ u # inCmds[e][k].seqnum
      BY DEF Waits
    <3> QED
      BY <1>2 DEF Waits, WaitingOK
  <2>2. Waits(u) /\ u # inCmds[e][k].seqnum => Waits(u)'
    <3> SUFFICES ASSUME NEW f \in Endpoints, NEW i \in DOMAIN inCmds[f],
                        inCmds[f][i].seqnum = u, u # inCmds[e][k].seqnum
                 PROVE  Waits(u)'
      BY DEF Waits
    <3> QED
      BY <1>3 DEF Waits
  <2> QED
    BY <2>1, <2>2
<1> QED
  BY <1>4, <1>5, <1>6 DEF WaitingOK

LEMMA NoDropKeeps ==
  ASSUME WaitingOK, UNCHANGED <<issued, inCmds>>, Handled \in Int, Handled' \in Int,
         Handled <= Handled'
  PROVE  WaitingOK' /\ \A u : Waits(u)' <=> Waits(u)
BY DEF WaitingOK, Waits

(***************************************************************************)
(* A reply is queued.  It takes the command it decides, and no other, from *)
(* where it waits.                                                         *)
(***************************************************************************)
Decides(reply, u) == Verdict(reply).urb = u /\ Verdict(reply).verdict # "missed"

LEMMA AnswerKeeps ==
  ASSUME TypeOK, TypeOK', UrbInv, UNCHANGED <<issued, err>>, InLine',
         Handled' = Handled \/ Handled' = Handled + 1,
         NEW reply \in Reply, Replies' = Append(Replies, reply),
         reply.seqnum \in 1 .. Handled',
         reply.command = "RetUnlink" => IsUnlink(issued[reply.seqnum]),
         WaitingOK',
         \A u : Waits(u)' => Waits(u) /\ ~Decides(reply, u),
         \A u : Waits(u) => Waits(u)' \/ Decides(reply, u),
         Handled' = Handled + 1 /\ IsSubmit(issued[Handled + 1]) => Decides(reply, Handled + 1)
  PROVE  UrbInv'
<1>0. Handled \in Nat /\ Handled' \in Nat
  BY Domains DEF UrbInv, LineInv, InLine
<1>1. RepliesOK'
  <2>1. /\ DOMAIN Replies' = 1 .. Len(Replies) + 1 /\ Len(Replies) \in Nat
        /\ DOMAIN Replies = 1 .. Len(Replies)
        /\ Replies'[Len(Replies) + 1] = reply
        /\ \A i \in 1 .. Len(Replies) : Replies'[i] = Replies[i]
    BY Domains, AppendProperties, LenProperties
  <2>2. ASSUME NEW i \in 1 .. Len(Replies)
        PROVE  /\ Replies'[i].seqnum \in 1 .. Handled'
               /\ Replies'[i].command = "RetUnlink" => IsUnlink(issued[Replies'[i].seqnum])
    BY <1>0, <2>1, <2>2 DEF UrbInv, LineInv, RepliesOK
  <2> QED
    BY <2>1, <2>2 DEF RepliesOK
<1>2. LineInv'
  BY <1>1 DEF UrbInv, LineInv, LogOK
<1>3. \A u : Decided(u)' <=> Decided(u) \/ Decides(reply, u)
  BY VerdictsGrow DEF Decides
<1>4. WaitingUndecided'
  BY <1>3 DEF UrbInv, WaitingUndecided
<1>5. NoneForgotten'
  <2> SUFFICES ASSUME err # "command", NEW u \in 1 .. Handled', IsSubmit(issued[u])
               PROVE  Waits(u)' \/ Decided(u)'
    BY DEF NoneForgotten
  <2>1. CASE u \in 1 .. Handled
    BY <1>3, <2>1 DEF UrbInv, NoneForgotten
  <2>2. CASE u = Handled + 1 /\ Handled' = Handled + 1
    BY <1>3, <2>2
  <2> QED
    BY <1>0, <2>1, <2>2
<1> QED
  BY <1>2, <1>4, <1>5 DEF UrbInv

(***************************************************************************)
(* The refinement: each step decides one URB, submits one or does neither. *)
(***************************************************************************)
LEMMA OpenMeans == OpenUrbs = {n \in DOMAIN issued : IsSubmit(issued[n]) /\ ~Decided(n)}
BY DEF OpenUrbs, Decided

LEMMA AnswerServes ==
  ASSUME TypeOK, LogOK, UNCHANGED issued, NEW reply \in Reply, Replies' = Append(Replies, reply),
         NEW u \in DOMAIN issued,
         \/ Verdict(reply) = [urb |-> u, verdict |-> "returned"] /\ u \in OpenUrbs
         \/ Verdict(reply) = [urb |-> u, verdict |-> "cancelled"] /\ u \in OpenUrbs
         \/ /\ Verdict(reply) = [urb |-> u, verdict |-> "missed"]
            /\ Service!Answered(u, "returned")
  PROVE  Service!Next
<1>1. u \in 1 .. MaxCommands
  BY Domains, HostAssumption DEF LogOK
<1>2. /\ Verdicts' = Append(Verdicts, Verdict(reply))
      /\ \A w : Decided(w)' <=> \/ Decided(w)
                                \/ Verdict(reply).urb = w /\ Verdict(reply).verdict # "missed"
  BY VerdictsGrow
<1>3. OpenUrbs' = {n \in DOMAIN issued : IsSubmit(issued[n]) /\ ~Decided(n)'}
  BY DEF OpenUrbs, Decided
<1>4. CASE Verdict(reply).verdict # "missed"
  <2>1. u \in OpenUrbs /\ OpenUrbs' = OpenUrbs \ {u}
    BY <1>2, <1>3, <1>4, OpenMeans
  <2>2. Service!Return(u) \/ Service!Cancel(u)
    BY <1>2, <1>4, <2>1 DEF Service!Return, Service!Cancel, Service!Answer
  <2> QED
    BY <1>1, <2>2 DEF Service!Next
<1>5. CASE Verdict(reply).verdict = "missed"
  <2>1. OpenUrbs' = OpenUrbs
    BY <1>2, <1>3, <1>5, OpenMeans
  <2>2. Service!Miss(u)
    BY <1>2, <1>5, <2>1 DEF Service!Miss, Service!Answer
  <2> QED
    BY <1>1, <2>2 DEF Service!Next
<1> QED
  BY <1>4, <1>5

LEMMA StaySays ==
  ASSUME TypeOK, LineInv, UNCHANGED <<Replies, issued>>
  PROVE  UNCHANGED Service!vars /\ \A u : Decided(u)' <=> Decided(u)
<1>1. UNCHANGED Verdicts
  BY VerdictsStay
<1> QED
  BY <1>1 DEF Decided, OpenUrbs, Service!vars

(* A submit command is returned, from where it waits or from the line.     *)
LEMMA ReturnServes ==
  ASSUME TypeOK, TypeOK', UrbInv, UNCHANGED <<issued, err>>, InLine',
         NEW reply \in Reply, Replies' = Append(Replies, reply), reply.command = "RetSubmit",
         reply.seqnum \in DOMAIN issued, reply.seqnum \in 1 .. Handled',
         IsSubmit(issued[reply.seqnum]), ~Decided(reply.seqnum),
         WaitingOK', \A u : Waits(u)' <=> Waits(u) /\ u # reply.seqnum,
         Handled' = Handled \/ (Handled' = Handled + 1 /\ reply.seqnum = Handled + 1)
  PROVE  UrbInv' /\ Service!Next
<1>1. Verdict(reply) = [urb |-> reply.seqnum, verdict |-> "returned"]
  BY DEF Verdict
<1>2. reply.seqnum \in OpenUrbs
  BY OpenMeans
<1>0. LogOK
  BY DEF UrbInv, LineInv
<1>3. Service!Next
  BY <1>0, <1>1, <1>2, AnswerServes
<1>4. \A u : Decides(reply, u) <=> u = reply.seqnum
  BY <1>1 DEF Decides
<1>5. UrbInv'
  <2>1. reply.command = "RetUnlink" => IsUnlink(issued[reply.seqnum])
    OBVIOUS
  <2>2. /\ \A u : Waits(u)' => Waits(u) /\ ~Decides(reply, u)
        /\ \A u : Waits(u) => Waits(u)' \/ Decides(reply, u)
    BY <1>4
  <2>3. Handled' = Handled + 1 /\ IsSubmit(issued[Handled + 1]) => Decides(reply, Handled + 1)
    <3>1. Handled \in Int
      BY Domains
    <3> QED
      BY <1>4, <3>1
  <2>4. Handled' = Handled \/ Handled' = Handled + 1
    OBVIOUS
  <2> QED
    BY <2>1, <2>2, <2>3, <2>4, AnswerKeeps
<1> QED
  BY <1>3, <1>5

LEMMA ReplyFields ==
  ASSUME NEW cmd, NEW payload, NEW len, NEW status
  PROVE  /\ ReplyTo(cmd, payload, len, status).seqnum = cmd.seqnum
         /\ ReplyTo(cmd, payload, len, status).command =
              IF IsSubmit(cmd) THEN "RetSubmit" ELSE "RetUnlink"
         /\ ~IsSubmit(cmd) => ReplyTo(cmd, payload, len, status).status = status
BY DEF ReplyTo

(* What the handlers of read() do, as far as URBs are concerned.           *)
LEMMA AcceptCases ==
  ASSUME TypeOK, NEW cmd \in Command, Accept(cmd)
  PROVE  \/ /\ IsSubmit(cmd) /\ UNCHANGED inCmds
            /\ \E reply \in Reply : /\ Queue(reply)
                                    /\ reply.seqnum = cmd.seqnum /\ reply.command = "RetSubmit"
         \/ SubmitIn(cmd) /\ IsSubmit(cmd) /\ cmd.ep \in Endpoints
         \/ Unlink(cmd)
<1>0. ~Rejected(cmd, configDesc # 0) /\ QueueTypes
  BY DEF Accept, TypeOK, QueueTypes
<1>1. CASE SubmitStandard(cmd)
  <2>1. IsSubmit(cmd) /\ IsStandard(cmd) /\ UNCHANGED inCmds
    BY <1>1 DEF SubmitStandard, IsStandard
  <2>2. StandardSupported(cmd, configDesc # 0)
    BY <1>0, <2>1 DEF Rejected, IsTransfer, IsStandard, IsSubmit, IsUnlink
  <2> DEFINE Standard(stray) == {StatusReply(cmd, ConfigDescs[configDesc].selfPowered),
                                 DescriptorReply(cmd, stray), ReplyTo(cmd, NoPayload, 0, 0)}
  <2>3. PICK stray \in StrayLens :
          \E reply \in Standard(stray) : reply \in Reply /\ Queue(reply)
    <3>1. StrayLens # {}
      BY StrayAssumption
    <3>2. CASE cmd.setup.request = "GetDescriptor"
      BY <1>1, <2>1, <2>2, <3>2, DescriptorReplyType DEF SubmitStandard
    <3>3. CASE cmd.setup.request # "GetDescriptor"
      BY <1>1, <3>1, <3>3, StatusReplyType, ReplyType, NoPayloadType DEF SubmitStandard
    <3> QED
      BY <3>2, <3>3
  <2>4. \A reply \in Standard(stray) :
          reply.seqnum = cmd.seqnum /\ reply.command = "RetSubmit"
    BY <2>1, ReplyFields DEF StatusReply, DescriptorReply
  <2> QED
    BY <2>1, <2>3, <2>4
<1>2. CASE SubmitOut(cmd)
  <2>1. IsSubmit(cmd) /\ UNCHANGED inCmds /\ Queue(ReplyTo(cmd, NoPayload, cmd.length, 0))
    BY <1>2 DEF SubmitOut, IsTransfer
  <2>2. ReplyTo(cmd, NoPayload, cmd.length, 0) \in Reply
    BY ReplyType, NoPayloadType DEF Command
  <2> QED
    BY <2>1, <2>2, ReplyFields
<1>3. CASE SubmitIn(cmd)
  BY <1>3, AcceptedIn
<1> QED
  BY <1>1, <1>2, <1>3 DEF Accept

LEMMA RepliesGrow ==
  ASSUME TypeOK, NEW reply, Queue(reply), UNCHANGED sent, UNCHANGED wrep
  PROVE  Replies' = Append(Replies, reply)
<1> DEFINE taken == sent \o wrep
<1>1. taken \in Seq(Reply) /\ reps \in Seq(Reply)
  BY ConcatProperties DEF TypeOK
<1>3. Replies = taken \o reps /\ Replies' = taken \o Append(reps, reply)
  BY DEF Queue, Replies
<1> HIDE DEF taken
<1>2. taken \o Append(reps, reply) = Append(taken \o reps, reply)
  BY <1>1, AppendBehind
<1> QED
  BY <1>2, <1>3

(* What is appended to a typed sequence has the type if the result has.    *)
LEMMA LastOf ==
  ASSUME NEW S, NEW s \in Seq(S), NEW x, Append(s, x) \in Seq(S)
  PROVE  x \in S
<1> DEFINE T == S \cup {x}
<1>1. s \in Seq(T) /\ x \in T
  BY SeqMonotonic
<1> HIDE DEF T
<1>2. Len(Append(s, x)) = Len(s) + 1 /\ Append(s, x)[Len(s) + 1] = x /\ Len(s) \in Nat
  BY <1>1, AppendProperties, LenProperties
<1>3. Append(s, x)[Len(s) + 1] \in S
  BY <1>2, ElementOfSeq
<1> QED
  BY <1>2, <1>3

(* The three ways in which read() handles the first command in line.       *)
LEMMA HandleAnswers ==
  ASSUME TypeOK, TypeOK', UrbInv, UNCHANGED <<hostVars, handVars, sent, err, inCmds>>,
         cmds # <<>>, cmds' = Tail(cmds), IsSubmit(Head(cmds)),
         NEW reply \in Reply, Queue(reply),
         reply.seqnum = Head(cmds).seqnum, reply.command = "RetSubmit"
  PROVE  UrbInv' /\ Service!Next
<1> DEFINE n == Handled + 1
<1>1. /\ InLine' /\ Handled \in Nat /\ Handled' = n /\ n \in DOMAIN issued
      /\ Head(cmds) = issued[n]
  BY LineMoves DEF UrbInv, LineInv, handVars
<1>2. reply.seqnum = n /\ IsSubmit(issued[n])
  BY <1>1 DEF UrbInv, LineInv, LogOK
<1>3. ~Decided(n)
  BY <1>1, VerdictBound DEF UrbInv, LineInv
<1>4. WaitingOK' /\ \A u : Waits(u)' <=> Waits(u)
  BY <1>1, NoDropKeeps DEF UrbInv, LineInv, hostVars
<1>5. ~Waits(n)
  BY <1>1 DEF UrbInv, LineInv, WaitingOK, Waits
<1>6. Replies' = Append(Replies, reply)
  BY RepliesGrow DEF handVars
<1>7. \A u : Waits(u)' <=> Waits(u) /\ u # reply.seqnum
  BY <1>2, <1>4, <1>5
<1>8. UNCHANGED <<issued, err>> /\ reply.seqnum \in 1 .. Handled'
  BY <1>1, <1>2 DEF hostVars
<1> QED
  BY <1>1, <1>2, <1>3, <1>4, <1>6, <1>7, <1>8, ReturnServes

LEMMA HandleQueues ==
  ASSUME TypeOK, TypeOK', UrbInv, UNCHANGED <<hostVars, handVars, sent, err>>,
         cmds # <<>>, cmds' = Tail(cmds), IsSubmit(Head(cmds)),
         SubmitIn(Head(cmds)), Head(cmds).ep \in Endpoints
  PROVE  UrbInv' /\ UNCHANGED Service!vars
<1>0. PICK n : n = Handled + 1
  OBVIOUS
<1> DEFINE e == issued[n].ep
<1>1. /\ InLine' /\ Handled \in Nat /\ Handled' = n /\ n = Handled + 1 /\ n \in DOMAIN issued
      /\ Head(cmds) = issued[n] /\ issued[n].seqnum = n /\ e \in Endpoints
  BY <1>0, LineMoves DEF UrbInv, LineInv, LogOK, handVars
<1>2. UNCHANGED <<Replies, issued>>
  BY DEF SubmitIn, Replies, hostVars, handVars
<1>3. UNCHANGED Service!vars /\ \A u : Decided(u)' <=> Decided(u)
  BY <1>2, StaySays DEF UrbInv
<1>4. inCmds' = [inCmds EXCEPT ![e] = Append(@, issued[n])]
  BY <1>1 DEF SubmitIn
<1>5. /\ \A f \in Endpoints \ {e} : inCmds'[f] = inCmds[f]
      /\ inCmds'[e] = Append(inCmds[e], issued[n])
  BY <1>1, <1>4 DEF TypeOK
<1> DEFINE last == Len(inCmds[e]) + 1
<1>6. /\ DOMAIN inCmds'[e] = 1 .. last /\ last \in Nat \ {0} /\ inCmds'[e][last] = issued[n]
      /\ DOMAIN inCmds[e] = 1 .. last - 1
      /\ \A i \in DOMAIN inCmds[e] : inCmds'[e][i] = inCmds[e][i]
  <2>1. inCmds[e] \in Seq(Command) /\ issued[n] \in Command
    BY <1>1, Domains, ElementOfSeq DEF TypeOK
  <2> QED
    BY <1>5, <2>1, AppendProperties, LenProperties
<1> HIDE DEF e, last
<1>7. ASSUME NEW f \in Endpoints, NEW i \in DOMAIN inCmds'[f]
      PROVE  \/ i \in DOMAIN inCmds[f] /\ inCmds'[f][i] = inCmds[f][i]
             \/ f = e /\ i = last /\ inCmds'[f][i] = issued[n]
  BY <1>5, <1>6, <1>7
<1>8. WaitingOK'
  <2>1. ASSUME NEW f \in Endpoints, NEW i \in DOMAIN inCmds'[f]
        PROVE  /\ inCmds'[f][i].seqnum \in 1 .. Handled'
               /\ inCmds'[f][i] = issued[inCmds'[f][i].seqnum]
               /\ IsSubmit(inCmds'[f][i])
    BY <1>1, <1>7, <2>1 DEF UrbInv, LineInv, WaitingOK
  <2>2. ASSUME NEW f \in Endpoints, NEW g \in Endpoints,
               NEW i \in DOMAIN inCmds'[f], NEW j \in DOMAIN inCmds'[g],
               inCmds'[f][i].seqnum = inCmds'[g][j].seqnum
        PROVE  f = g /\ i = j
    <3>1. ASSUME NEW h \in Endpoints, NEW k \in DOMAIN inCmds[h]
          PROVE  inCmds[h][k].seqnum # n
      BY <1>1, <3>1 DEF UrbInv, LineInv, WaitingOK
    <3> QED
      BY <1>1, <1>7, <2>2, <3>1 DEF UrbInv, LineInv, WaitingOK
  <2> QED
    BY <1>2, <2>1, <2>2 DEF WaitingOK
<1>9. \A u : Waits(u)' <=> Waits(u) \/ u = n
  <2>1. ASSUME NEW u, Waits(u)' PROVE Waits(u) \/ u = n
    BY <1>1, <1>7, <2>1 DEF Waits
  <2>2. ASSUME NEW u, Waits(u) PROVE Waits(u)'
    <3>1. PICK f \in Endpoints : \E i \in DOMAIN inCmds[f] : inCmds[f][i].seqnum = u
      BY <2>2 DEF Waits
    <3>2. PICK i \in DOMAIN inCmds[f] : inCmds[f][i].seqnum = u
      BY <3>1
    <3>3. i \in DOMAIN inCmds'[f] /\ inCmds'[f][i] = inCmds[f][i]
      BY <1>5, <1>6
    <3> QED
      BY <3>2, <3>3 DEF Waits
  <2>3. Waits(n)'
    <3>1. last \in DOMAIN inCmds'[e] /\ inCmds'[e][last].seqnum = n
      BY <1>1, <1>6
    <3> QED
      BY <1>1, <3>1 DEF Waits
  <2> QED
    BY <2>1, <2>2, <2>3
<1>10. ~Decided(n)
  BY <1>1, VerdictBound DEF UrbInv, LineInv
<1>11. LineInv'
  BY <1>1, <1>2, <1>8, Domains DEF UrbInv, LineInv, LogOK, RepliesOK
<1>12. WaitingUndecided'
  BY <1>2, <1>3, <1>9, <1>10 DEF UrbInv, WaitingUndecided
<1>13. NoneForgotten'
  BY <1>1, <1>2, <1>3, <1>9 DEF UrbInv, NoneForgotten
<1> QED
  BY <1>3, <1>11, <1>12, <1>13 DEF UrbInv

LEMMA HandleUnlinks ==
  ASSUME TypeOK, TypeOK', UrbInv, err = "none", UNCHANGED <<hostVars, handVars, sent, err>>,
         cmds # <<>>, cmds' = Tail(cmds), Unlink(Head(cmds))
  PROVE  UrbInv' /\ Service!Next
<1> DEFINE n == Handled + 1
           cmd == issued[n]
           t == cmd.target
<1>1. /\ InLine' /\ Handled \in Nat /\ Handled' = n /\ n \in DOMAIN issued
      /\ Head(cmds) = cmd /\ cmd.seqnum = n /\ cmd \in Command
  <2>1. /\ InLine' /\ Handled \in Nat /\ Handled' = n /\ n \in DOMAIN issued /\ Head(cmds) = cmd
    BY LineMoves DEF UrbInv, LineInv, handVars
  <2> QED
    BY <2>1, Domains, ElementOfSeq DEF UrbInv, LineInv, LogOK, TypeOK
<1>2. IsUnlink(cmd) /\ ~IsSubmit(cmd)
  BY <1>1 DEF Unlink, IsUnlink, IsSubmit
<1>3. t \in DOMAIN issued /\ t \in 1 .. Handled /\ IsSubmit(issued[t])
  BY <1>1, <1>2, Domains DEF UrbInv, LineInv, LogOK
<1> HIDE DEF t, cmd
<1>4. UNCHANGED issued /\ LogOK /\ WaitingOK
  BY DEF hostVars, UrbInv, LineInv
<1>5. ASSUME NEW found \in BOOLEAN, Queue(ReplyTo(cmd, NoPayload, 0, UnlinkStatus(found))),
             WaitingOK',
             \A u : Waits(u)' <=> Waits(u) /\ ~(found /\ u = t),
             found => Waits(t), ~found => ~Waits(t)
      PROVE  UrbInv' /\ Service!Next
  <2> DEFINE reply == ReplyTo(cmd, NoPayload, 0, UnlinkStatus(found))
  <2>1. reply \in Reply /\ reply.seqnum = n /\ reply.command = "RetUnlink"
        /\ reply.status = UnlinkStatus(found)
    BY <1>1, <1>2, ReplyType, NoPayloadType, UnlinkStatusType, ReplyFields
  <2>2. Replies' = Append(Replies, reply)
    BY <1>5, RepliesGrow DEF handVars
  <2> HIDE DEF reply
  <2>3. Verdict(reply) = [urb |-> t, verdict |-> IF found THEN "cancelled" ELSE "missed"]
    BY <1>5, <2>1 DEF Verdict, UnlinkStatus, ECONNRESET, t, cmd
  <2>4. \A u : Decides(reply, u) <=> found /\ u = t
    BY <1>5, <2>3 DEF Decides
  <2>5. UrbInv'
    <3>1. /\ \A u : Waits(u)' => Waits(u) /\ ~Decides(reply, u)
          /\ \A u : Waits(u) => Waits(u)' \/ Decides(reply, u)
      BY <1>5, <2>4
    <3>2. UNCHANGED <<issued, err>> /\ reply.seqnum \in 1 .. Handled'
      BY <1>1, <1>4, <2>1
    <3>3. IsUnlink(issued[reply.seqnum]) /\ ~IsSubmit(issued[Handled + 1])
      BY <1>2, <2>1 DEF cmd
    <3> QED
      BY <1>1, <1>5, <2>1, <2>2, <3>1, <3>2, <3>3, AnswerKeeps
  <2>6. CASE found
    <3>1. t \in OpenUrbs
      BY <1>3, <1>5, <2>6, OpenMeans DEF UrbInv, WaitingUndecided
    <3>2. Verdict(reply) = [urb |-> t, verdict |-> "cancelled"]
      BY <2>3, <2>6
    <3> QED
      BY <1>3, <1>4, <2>1, <2>2, <2>5, <3>1, <3>2, AnswerServes
  <2>7. CASE ~found
    <3>1. Decided(t)
      BY <1>3, <1>5, <2>7 DEF UrbInv, NoneForgotten
    <3>2. PICK i \in DOMAIN Replies : /\ Verdicts[i] = Verdict(Replies[i])
                                      /\ Verdicts[i].urb = t /\ Verdicts[i].verdict # "missed"
      BY <3>1, VerdictOf DEF Decided
    <3>3. Replies[i].command = "RetSubmit"
      <4>1. SUFFICES ASSUME Replies[i].command # "RetSubmit" PROVE FALSE
        OBVIOUS
      <4>2. Replies[i] \in Reply
        BY <3>2, Domains, ElementOfSeq
      <4>3. Replies[i].command = "RetUnlink"
        BY <4>1, <4>2 DEF Reply
      <4> DEFINE m == Replies[i].seqnum
      <4>4. m \in 1 .. Handled /\ IsUnlink(issued[m]) /\ issued[m].target = t
        BY <3>2, <4>1, <4>3 DEF UrbInv, LineInv, RepliesOK, Verdict
      <4>5. m \in DOMAIN issued /\ m # n
        BY <1>1, <4>4, Domains
      <4> QED
        BY <1>1, <1>2, <1>4, <4>4, <4>5 DEF LogOK, t, cmd
    <3>4. Verdicts[i] = [urb |-> t, verdict |-> "returned"] /\ i \in DOMAIN Verdicts
      BY <3>2, <3>3, VerdictOf DEF Verdict
    <3>5. Service!Answered(t, "returned")
      BY <3>4 DEF Service!Answered
    <3>6. Verdict(reply) = [urb |-> t, verdict |-> "missed"]
      BY <2>3, <2>7
    <3> QED
      BY <1>3, <1>4, <2>1, <2>2, <2>5, <3>5, <3>6, AnswerServes
  <2> QED
    BY <2>6, <2>7
<1>6. CASE \E e \in Endpoints : \E i \in DOMAIN inCmds[e] :
             /\ FirstAt(t, e, i)
             /\ inCmds' = [inCmds EXCEPT ![e] = RemoveAt(@, i)]
             /\ Queue(ReplyTo(cmd, NoPayload, 0, UnlinkStatus(TRUE)))
  <2>1. PICK e \in Endpoints : \E i \in DOMAIN inCmds[e] :
             /\ FirstAt(t, e, i)
             /\ inCmds' = [inCmds EXCEPT ![e] = RemoveAt(@, i)]
             /\ Queue(ReplyTo(cmd, NoPayload, 0, UnlinkStatus(TRUE)))
    BY <1>6
  <2>2. PICK i \in DOMAIN inCmds[e] :
             /\ FirstAt(t, e, i)
             /\ inCmds' = [inCmds EXCEPT ![e] = RemoveAt(@, i)]
             /\ Queue(ReplyTo(cmd, NoPayload, 0, UnlinkStatus(TRUE)))
    BY <2>1
  <2>3. inCmds[e][i].seqnum = t /\ Waits(t)
    BY <2>2 DEF FirstAt, WaitsAt, Waits
  <2>4. inCmds[e] \in Seq(Command)
    BY DEF TypeOK
  <2>5. Drops(inCmds[e], i, RemoveAt(inCmds[e], i))
    BY <2>4, RemoveAtDrops
  <2>6. inCmds' = [inCmds EXCEPT ![e] = RemoveAt(inCmds[e], i)]
    BY <2>2
  <2>7. Handled' \in Int /\ Handled <= Handled'
    BY <1>1
  <2>8. WaitingOK' /\ \A u : Waits(u)' <=> Waits(u) /\ u # inCmds[e][i].seqnum
    BY <1>4, <2>5, <2>6, <2>7, DropKeeps
  <2> QED
    BY <1>5, <2>2, <2>3, <2>8
<1>7. CASE /\ \A e \in Endpoints : \A i \in DOMAIN inCmds[e] : ~WaitsAt(t, e, i)
           /\ Queue(ReplyTo(cmd, NoPayload, 0, UnlinkStatus(FALSE)))
           /\ UNCHANGED inCmds
  <2>1. ~Waits(t)
    BY <1>7 DEF Waits, WaitsAt
  <2>2. WaitingOK' /\ \A u : Waits(u)' <=> Waits(u)
    BY <1>1, <1>4, <1>7, NoDropKeeps
  <2> QED
    BY <1>5, <1>7, <2>1, <2>2
<1> QED
  BY <1>1, <1>6, <1>7 DEF Unlink, t

(* A waiting command takes data: it is the first of its queue.             *)
LEMMA SendServes ==
  ASSUME TypeOK, TypeOK', UrbInv, Send
  PROVE  UrbInv' /\ (Service!Next \/ UNCHANGED Service!vars)
<1>0. UNCHANGED <<issued, Unqueued, cmds, sent, wrep, err>>
  BY DEF Send, hostVars, handVars, Unqueued
<1>1. Handled \in Nat /\ Handled' = Handled /\ InLine'
  BY <1>0, Domains DEF UrbInv, LineInv, InLine, Handled
<1>2. CASE SendDone
  <2>1. UNCHANGED <<Replies, inCmds>>
    BY <1>0, <1>2 DEF SendDone, Replies
  <2>2. UNCHANGED Service!vars /\ \A u : Decided(u)' <=> Decided(u)
    BY <1>0, <2>1, StaySays DEF UrbInv
  <2> QED
    BY <1>0, <1>1, <2>1, <2>2 DEF UrbInv, LineInv, LogOK, WaitingOK, RepliesOK, Waits,
       WaitingUndecided, NoneForgotten
<1>3. CASE SendOne
  <2> DEFINE e == serving
             cmd == Head(inCmds[e])
  <2>1. PICK payload, len : /\ Queue(ReplyTo(cmd, payload, len, 0))
                            /\ inCmds' = [inCmds EXCEPT ![e] = Tail(@)]
    BY <1>3 DEF SendOne
  <2>2. e \in Endpoints /\ inCmds[e] # <<>> /\ inCmds[e] \in Seq(Command)
    BY <1>3 DEF SendOne, Served, TypeOK
  <2>3. Drops(inCmds[e], 1, Tail(inCmds[e])) /\ 1 \in DOMAIN inCmds[e] /\ cmd = inCmds[e][1]
    BY <2>2, TailDrops
  <2>4. /\ cmd.seqnum \in 1 .. Handled /\ cmd = issued[cmd.seqnum] /\ IsSubmit(cmd)
        /\ Waits(cmd.seqnum) /\ cmd.seqnum \in DOMAIN issued
    <3>1. cmd.seqnum \in 1 .. Handled /\ cmd = issued[cmd.seqnum] /\ IsSubmit(cmd)
      BY <2>2, <2>3 DEF UrbInv, LineInv, WaitingOK
    <3>2. Handled <= Len(issued)
      BY Domains DEF Handled
    <3> QED
      BY <1>1, <2>2, <2>3, <3>1, <3>2, Domains DEF Waits
  <2> DEFINE reply == ReplyTo(cmd, payload, len, 0)
  <2>5. reply \in Reply /\ reply.seqnum = cmd.seqnum /\ reply.command = "RetSubmit"
    <3>1. reps' = Append(reps, reply) /\ reps \in Seq(Reply) /\ reps' \in Seq(Reply)
      BY <2>1 DEF Queue, TypeOK
    <3>2. reply \in Reply
      BY <3>1, LastOf
    <3> QED
      BY <2>4, <3>2, ReplyFields
  <2>6. Replies' = Append(Replies, reply)
    BY <1>0, <2>1, RepliesGrow
  <2>7. WaitingOK' /\ \A u : Waits(u)' <=> Waits(u) /\ u # cmd.seqnum
    <3>1. inCmds' = [inCmds EXCEPT ![e] = Tail(inCmds[e])]
      BY <2>1
    <3>2. WaitingOK /\ UNCHANGED issued /\ Handled' \in Int /\ Handled <= Handled'
      BY <1>0, <1>1 DEF UrbInv, LineInv
    <3>3. WaitingOK' /\ \A u : Waits(u)' <=> Waits(u) /\ u # inCmds[e][1].seqnum
      <4> HIDE DEF e
      <4> QED
        BY <2>2, <2>3, <3>1, <3>2, DropKeeps
    <3> QED
      BY <2>3, <3>3
  <2>8. ~Decided(cmd.seqnum)
    BY <2>4 DEF UrbInv, WaitingUndecided
  <2> HIDE DEF reply, cmd, e
  <2>9. IsSubmit(issued[reply.seqnum]) /\ reply.seqnum \in DOMAIN issued
        /\ reply.seqnum \in 1 .. Handled'
    BY <1>1, <2>4, <2>5
  <2> QED
    BY <1>0, <1>1, <2>5, <2>6, <2>7, <2>8, <2>9, ReturnServes
<1> QED
  BY <1>2, <1>3 DEF Send

(* What an append does to a sequence.                                      *)
Grown(s, x, longer) ==
  /\ Len(longer) = Len(s) + 1 /\ DOMAIN longer = 1 .. Len(s) + 1
  /\ longer[Len(s) + 1] = x
  /\ \A i \in DOMAIN s : longer[i] = s[i]

LEMMA GrownBy ==
  ASSUME NEW S, NEW s \in Seq(S), NEW x \in S
  PROVE  Grown(s, x, Append(s, x))
<1>1. Append(s, x) \in Seq(S)
  BY AppendProperties
<1> QED
  BY <1>1, AppendProperties, LenProperties DEF Grown

LEMMA UnqueuedGrows ==
  ASSUME TypeOK, NEW cmd, wire' = Append(wire, cmd), UNCHANGED rcmd
  PROVE  Unqueued' = Append(Unqueued, cmd)
<1>1. rcmd \in Seq(Command) /\ wire \in Seq(Command)
  BY DEF TypeOK
<1>2. rcmd \o Append(wire, cmd) = Append(rcmd \o wire, cmd)
  BY <1>1, AppendBehind
<1> QED
  BY <1>2 DEF Unqueued

(* The host submits a URB, or asks for one back.                           *)
LEMMA HostServes ==
  ASSUME TypeOK, TypeOK', UrbInv, Host
  PROVE  UrbInv' /\ (Service!Next \/ UNCHANGED Service!vars)
<1>1. PICK cmd : /\ Issue(cmd) /\ cmd.seqnum = Len(issued) + 1 /\ cmd.target < Len(issued) + 1
                 /\ IsUnlink(cmd) => /\ cmd.target \in DOMAIN issued /\ IsSubmit(issued[cmd.target])
                                     /\ \A i \in DOMAIN issued : issued[i].target # cmd.target
  <2>1. CASE HostSubmit
    <3>1. PICK s \in Shapes : Issue(SubmitCmd(Len(issued) + 1, s))
      BY <2>1 DEF HostSubmit
    <3>2. s.command # "Unlink"
      BY ShapesAssumption
    <3> QED
      BY <3>1, <3>2, Domains DEF SubmitCmd, IsUnlink
  <2>2. CASE HostUnlink
    BY <2>2, Domains DEF HostUnlink, UnlinkCmd, IsUnlink
  <2> QED
    BY <2>1, <2>2 DEF Host
<1>2. UNCHANGED <<cmds, inCmds, Replies, err>>
  BY DEF Host, handVars, queueVars, Replies
<1>3. PICK n : n = Len(issued) + 1
  OBVIOUS
<1>4. /\ n \in Nat /\ n <= MaxCommands /\ n = Len(issued) + 1
      /\ DOMAIN issued = 1 .. n - 1 /\ DOMAIN issued' = 1 .. n
      /\ Len(issued') = n /\ issued'[n] = cmd
      /\ \A i \in DOMAIN issued : issued'[i] = issued[i]
  <2>1. issued' = Append(issued, cmd) /\ Len(issued) < MaxCommands
    BY <1>1 DEF Issue
  <2>2. Grown(issued, cmd, issued')
    BY <2>1, LastOf, GrownBy DEF TypeOK
  <2> QED
    BY <1>3, <2>1, <2>2, Domains, HostAssumption DEF Grown
<1>5. Grown(Unqueued, cmd, Unqueued')
  <2>1. cmd \in Command /\ wire' = Append(wire, cmd) /\ UNCHANGED rcmd
    BY <1>1, LastOf DEF Issue, TypeOK, Host, handVars
  <2>2. Unqueued' = Append(Unqueued, cmd)
    BY <2>1, UnqueuedGrows
  <2> QED
    BY <2>1, <2>2, Domains, GrownBy
<1>6. Handled' = Handled /\ Handled \in Nat /\ Handled = n - 1 - Len(cmds) - Len(Unqueued)
  BY <1>2, <1>4, <1>5, Domains DEF UrbInv, LineInv, InLine, Handled, Grown
<1>7. LogOK'
  <2>1. \A m \in DOMAIN issued : issued[m].target < m /\ issued[m].seqnum = m
    BY DEF UrbInv, LineInv, LogOK
  <2>2. \A m \in DOMAIN issued' :
           IsUnlink(issued'[m]) => IsSubmit(issued'[issued'[m].target])
                                   /\ issued'[m].target \in DOMAIN issued
    BY <1>1, <1>4 DEF UrbInv, LineInv, LogOK
  <2>3. \A m \in DOMAIN issued' : issued'[m].seqnum = m /\ issued'[m].target < m
    BY <1>1, <1>4, <2>1
  <2>4. ASSUME NEW k \in DOMAIN issued', NEW m \in DOMAIN issued',
               IsUnlink(issued'[k]), IsUnlink(issued'[m]),
               issued'[k].target = issued'[m].target
        PROVE  k = m
    BY <1>1, <1>4, <2>4 DEF UrbInv, LineInv, LogOK
  <2> QED
    BY <1>4, <2>2, <2>3, <2>4 DEF LogOK
<1>8. InLine'
  <2>1. \A i \in DOMAIN cmds : cmds[i] = issued'[Handled + i]
    BY <1>4, <1>6, Domains, SMTT(30) DEF UrbInv, LineInv, InLine
  <2>2. \A i \in DOMAIN Unqueued : Unqueued[i] = issued'[Handled + Len(cmds) + i]
    BY <1>4, <1>6, Domains, SMTT(30) DEF UrbInv, LineInv, InLine
  <2>3. Unqueued'[Len(Unqueued) + 1] = issued'[Handled + Len(cmds) + (Len(Unqueued) + 1)]
    <3>1. Handled + Len(cmds) + (Len(Unqueued) + 1) = n
      BY <1>4, <1>6, Domains
    <3> QED
      BY <1>4, <1>5, <3>1 DEF Grown
  <2>4. \A i \in DOMAIN Unqueued' : Unqueued'[i] = issued'[Handled + Len(cmds) + i]
    <3> TAKE i \in DOMAIN Unqueued'
    <3>1. i \in DOMAIN Unqueued \/ i = Len(Unqueued) + 1
      BY <1>5, Domains DEF Grown
    <3> QED
      BY <1>5, <2>2, <2>3, <3>1 DEF Grown
  <2> QED
    BY <1>2, <1>6, <2>1, <2>4 DEF InLine
<1>9. \A u \in 1 .. Handled : u \in DOMAIN issued /\ issued'[u] = issued[u]
  <2>1. Handled <= n - 1
    BY <1>4, <1>6, Domains
  <2>2. \A u \in 1 .. Handled : u \in 1 .. n - 1
    BY <1>4, <1>6, <2>1
  <2> QED
    BY <1>4, <2>2
<1>10. WaitingOK' /\ RepliesOK' /\ \A u : Waits(u)' <=> Waits(u)
  BY <1>2, <1>6, <1>9 DEF UrbInv, LineInv, WaitingOK, RepliesOK, Waits
<1>11. UNCHANGED Verdicts /\ \A u : Decided(u)' <=> Decided(u)
  <2>1. UNCHANGED Verdicts
    BY <1>2, <1>4, VerdictsStay DEF UrbInv
  <2> QED
    BY <2>1 DEF Decided
<1>12. ~Decided(n) /\ ~Waits(n)
  <2>1. n \notin 1 .. Handled
    BY <1>4, <1>6, Domains
  <2> QED
    BY <2>1, VerdictBound DEF UrbInv, LineInv, WaitingOK, Waits
<1>13. UrbInv'
  <2>1. WaitingUndecided'
    BY <1>4, <1>10, <1>11, <1>12 DEF UrbInv, WaitingUndecided
  <2>2. NoneForgotten'
    BY <1>2, <1>6, <1>9, <1>10, <1>11 DEF UrbInv, NoneForgotten
  <2> QED
    BY <1>7, <1>8, <1>10, <2>1, <2>2 DEF UrbInv, LineInv
<1>14. OpenUrbs' = {m \in DOMAIN issued' : IsSubmit(issued'[m]) /\ ~Decided(m)'}
  BY DEF OpenUrbs, Decided
<1>15. CASE IsSubmit(cmd)
  <2>1. OpenUrbs' = OpenUrbs \cup {n} /\ n \notin OpenUrbs
    BY <1>4, <1>11, <1>12, <1>14, <1>15, OpenMeans
  <2>2. ~Service!Answered(n, "returned") /\ ~Service!Answered(n, "cancelled")
    BY <1>12 DEF Decided, Service!Answered
  <2>3. Service!Submit(n) /\ n \in 1 .. MaxCommands
    BY <1>4, <1>11, <2>1, <2>2, HostAssumption DEF Service!Submit
  <2> QED
    BY <1>13, <2>3 DEF Service!Next
<1>16. CASE ~IsSubmit(cmd)
  <2>1. UNCHANGED OpenUrbs
    BY <1>4, <1>11, <1>14, <1>16, OpenMeans
  <2> QED
    BY <1>11, <1>13, <2>1 DEF Service!vars
<1> QED
  BY <1>15, <1>16

(* A step that neither issues, queues nor answers a command.               *)
LEMMA QuietServes ==
  ASSUME TypeOK, UrbInv, UNCHANGED <<issued, inCmds, Replies>>, InLine',
         Handled' \in Int, Handled <= Handled',
         err' # "command" => err # "command" /\ Handled' = Handled
  PROVE  UrbInv' /\ UNCHANGED Service!vars
<1>1. Handled \in Int
  BY Domains
<1>2. WaitingOK' /\ \A u : Waits(u)' <=> Waits(u)
  BY <1>1, NoDropKeeps DEF UrbInv, LineInv
<1>3. UNCHANGED Service!vars /\ \A u : Decided(u)' <=> Decided(u)
  BY StaySays DEF UrbInv
<1>4. LogOK' /\ RepliesOK'
  BY <1>1 DEF UrbInv, LineInv, LogOK, RepliesOK
<1>5. WaitingUndecided' /\ NoneForgotten'
  BY <1>2, <1>3 DEF UrbInv, WaitingUndecided, NoneForgotten
<1> QED
  BY <1>2, <1>3, <1>4, <1>5 DEF UrbInv, LineInv

(* What is between the queues moves on, and is lost by nobody.             *)
LEMMA PushMoves ==
  ASSUME TypeOK, Push
  PROVE  /\ Unqueued # <<>> /\ cmds' = Append(cmds, Head(Unqueued)) /\ Unqueued' = Tail(Unqueued)
         /\ UNCHANGED <<issued, inCmds, Replies, err>>
<1>1. PICK x \in Command : rcmd = <<x>>
  <2>1. rcmd \in Seq(Command) /\ rcmd # <<>> /\ Len(rcmd) <= 1
    BY DEF Push, TypeOK
  <2> QED
    BY <2>1, OneLong
<1>2. Unqueued # <<>> /\ Head(Unqueued) = x /\ Tail(Unqueued) = wire
  BY <1>1, Prepended DEF TypeOK, Unqueued
<1>3. Unqueued' = wire
  BY ConcatEmptySeq DEF Push, hostVars, Unqueued, TypeOK
<1>4. cmds' = Append(cmds, x)
  BY <1>1, AppendIsConcat DEF Push, TypeOK
<1> QED
  BY <1>2, <1>3, <1>4 DEF Push, hostVars, queueVars, Replies

LEMMA RepliesStay ==
  ASSUME TypeOK, Take \/ Transmit
  PROVE  UNCHANGED Replies
<1>1. CASE Take
  <2>1. /\ wrep = <<>> /\ reps # <<>> /\ wrep' = <<Head(reps)>> /\ reps' = Tail(reps)
        /\ UNCHANGED sent
    BY <1>1 DEF Take
  <2>2. Head(reps) \in Reply /\ Tail(reps) \in Seq(Reply)
    BY <2>1, HeadTailProperties DEF TypeOK
  <2>3. (sent \o <<Head(reps)>>) \o Tail(reps) = sent \o (<<Head(reps)>> \o Tail(reps))
    <3>1. sent \in Seq(Reply) /\ <<Head(reps)>> \in Seq(Reply)
      BY <2>2, Singleton DEF TypeOK
    <3> QED
      BY <2>2, <3>1, ConcatAssociative
  <2>4. <<Head(reps)>> \o Tail(reps) = reps
    BY <2>1, HeadAndTail DEF TypeOK
  <2>5. sent \o <<>> = sent
    BY ConcatEmptySeq DEF TypeOK
  <2> QED
    BY <2>1, <2>3, <2>4, <2>5 DEF Replies
<1>2. CASE Transmit
  <2>1. (sent \o wrep) \o <<>> = sent \o wrep
    BY ConcatProperties, ConcatEmptySeq DEF TypeOK
  <2> QED
    BY <1>2, <2>1 DEF Transmit, queueVars, Replies
<1> QED
  BY <1>1, <1>2

(* Most steps neither issue, queue nor answer a command.                   *)
QuietStep == Receive \/ Write \/ Take \/ Transmit \/ Fail \/ UNCHANGED queues

LEMMA QuietMoves ==
  ASSUME TypeOK, QuietStep
  PROVE  /\ UNCHANGED <<issued, Unqueued, cmds, inCmds, Replies>>
         /\ err' # "command" => err # "command"
<1>1. CASE Receive
  <2>1. wire # <<>> /\ rcmd = <<>> /\ rcmd' = <<Head(wire)>> /\ wire' = Tail(wire)
    BY <1>1 DEF Receive
  <2>2. <<Head(wire)>> \o Tail(wire) = wire /\ <<>> \o wire = wire
    BY <2>1, HeadAndTail, ConcatEmptySeq DEF TypeOK
  <2>3. UNCHANGED Unqueued
    BY <2>1, <2>2 DEF Unqueued
  <2> QED
    BY <1>1, <2>3 DEF Receive, queueVars, Replies
<1>2. CASE Take \/ Transmit
  <2>1. UNCHANGED Replies
    BY <1>2, RepliesStay
  <2> QED
    BY <1>2, <2>1 DEF Take, Transmit, hostVars, queueVars, Unqueued
<1>3. CASE Write \/ Fail \/ UNCHANGED queues
  BY <1>3 DEF Write, Enqueue, Fail, queues, hostVars, handVars, queueVars, Replies, Unqueued
<1> QED
  BY <1>1, <1>2, <1>3 DEF QuietStep

LEMMA PushServes ==
  ASSUME TypeOK, TypeOK', UrbInv, Push
  PROVE  UrbInv' /\ UNCHANGED Service!vars
<1>1. /\ UNCHANGED <<issued, inCmds, Replies, err>> /\ Unqueued # <<>>
      /\ cmds' = Append(cmds, Head(Unqueued)) /\ Unqueued' = Tail(Unqueued)
  BY PushMoves
<1>2. /\ Len(Unqueued) >= 1 /\ Len(Unqueued') = Len(Unqueued) - 1 /\ Head(Unqueued) = Unqueued[1]
      /\ \A i \in 1 .. Len(Unqueued') : Unqueued'[i] = Unqueued[i + 1]
  BY <1>1, HeadTailProperties, EmptySeq, Domains
<1>3. Grown(cmds, Unqueued[1], cmds')
  BY <1>1, <1>2, LastOf, GrownBy DEF TypeOK
<1>4. Handled' = Handled /\ Handled \in Int
  BY <1>1, <1>2, <1>3, Domains DEF Handled, Grown
<1>5. InLine
  BY DEF UrbInv, LineInv
<1>6. Unqueued[1] = issued[Handled + (Len(cmds) + 1)]
  <2>1. 1 \in DOMAIN Unqueued /\ Handled + Len(cmds) + 1 = Handled + (Len(cmds) + 1)
    BY <1>2, <1>4, Domains
  <2> QED
    BY <1>5, <2>1 DEF InLine
<1>7. \A i \in DOMAIN cmds' : cmds'[i] = issued[Handled + i]
  <2> TAKE i \in DOMAIN cmds'
  <2>1. i \in DOMAIN cmds \/ i = Len(cmds) + 1
    BY <1>3, Domains DEF Grown
  <2> QED
    BY <1>3, <1>5, <1>6, <2>1 DEF Grown, InLine
<1>8. \A i \in DOMAIN Unqueued' : Unqueued'[i] = issued[Handled + Len(cmds') + i]
  <2> TAKE i \in DOMAIN Unqueued'
  <2>1. DOMAIN Unqueued' = 1 .. Len(Unqueued') /\ Len(Unqueued') \in Nat
    <3>1. Unqueued' \in Seq(Command)
      BY <1>1, HeadTailProperties, Domains
    <3> QED
      BY <3>1, LenProperties
  <2>2. /\ i \in 1 .. Len(Unqueued') /\ i + 1 \in DOMAIN Unqueued
        /\ Handled + Len(cmds) + (i + 1) = Handled + Len(cmds') + i
    BY <1>2, <1>3, <1>4, <2>1, Domains DEF Grown
  <2> QED
    BY <1>2, <1>5, <2>2 DEF InLine
<1>9. InLine'
  BY <1>1, <1>4, <1>5, <1>7, <1>8 DEF InLine
<1> QED
  BY <1>1, <1>4, <1>9, QuietServes

LEMMA HandleServes ==
  ASSUME TypeOK, TypeOK', UrbInv, Handle
  PROVE  UrbInv' /\ (Service!Next \/ UNCHANGED Service!vars)
<1>1. /\ err = "none" /\ cmds # <<>> /\ cmds' = Tail(cmds)
      /\ UNCHANGED <<hostVars, handVars, sent>>
  BY DEF Handle
<1>2. Head(cmds) \in Command
  BY <1>1, HeadTailProperties DEF TypeOK
<1>3. CASE Accept(Head(cmds)) /\ UNCHANGED err
  <2>1. CASE /\ IsSubmit(Head(cmds)) /\ UNCHANGED inCmds
             /\ \E reply \in Reply : /\ Queue(reply)
                                     /\ reply.seqnum = Head(cmds).seqnum
                                     /\ reply.command = "RetSubmit"
    BY <1>1, <1>3, <2>1, HandleAnswers
  <2>2. CASE SubmitIn(Head(cmds)) /\ IsSubmit(Head(cmds)) /\ Head(cmds).ep \in Endpoints
    BY <1>1, <1>3, <2>2, HandleQueues
  <2>3. CASE Unlink(Head(cmds))
    BY <1>1, <1>3, <2>3, HandleUnlinks
  <2> QED
    BY <1>2, <1>3, <2>1, <2>2, <2>3, AcceptCases
<1>4. CASE err' = "command" /\ UNCHANGED queueVars
  <2>1. UNCHANGED <<issued, inCmds, Replies>>
    BY <1>1, <1>4 DEF hostVars, handVars, queueVars, Replies
  <2>2. InLine' /\ Handled \in Nat /\ Handled' = Handled + 1
    BY <1>1, LineMoves DEF UrbInv, LineInv, handVars
  <2> QED
    BY <1>4, <2>1, <2>2, QuietServes
<1> QED
  BY <1>3, <1>4 DEF Handle

LEMMA UrbStep ==
  ASSUME TypeOK, TypeOK', UrbInv, [Next]_queues
  PROVE  UrbInv' /\ [Service!Next]_Service!vars
<1>1. CASE Host
  BY <1>1, HostServes
<1>2. CASE Push
  BY <1>2, PushServes
<1>3. CASE Handle
  BY <1>3, HandleServes
<1>4. CASE Send
  BY <1>4, SendServes
<1>6. CASE QuietStep
  <2>1. UNCHANGED <<issued, Unqueued, cmds, inCmds, Replies>> /\ (err' # "command" => err # "command")
    BY <1>6, QuietMoves
  <2>2. Handled' = Handled /\ Handled \in Int /\ InLine'
    BY <2>1, Domains DEF UrbInv, LineInv, InLine, Handled
  <2> QED
    BY <2>1, <2>2, QuietServes
<1> QED
  BY <1>1, <1>2, <1>3, <1>4, <1>6 DEF Next, QuietStep

LEMMA UrbInitMaps == Init => Service!Init
<1> SUFFICES ASSUME Init PROVE Service!Init
  OBVIOUS
<1>1. Replies = <<>>
  BY NothingYet
<1>2. Verdicts = <<>>
  BY <1>1 DEF Verdicts
<1>3. OpenUrbs = {}
  BY DEF Init, OpenUrbs
<1> QED
  BY <1>2, <1>3 DEF Service!Init

(* Every URB is decided exactly once, and an unlink that is told it came   *)
(* too late is told so after the URB was returned, whatever the host       *)
(* submits, unlinks and the client writes (_handleCmdUnlink, 676-680, and  *)
(* every handler that queues a reply).                                     *)
THEOREM EveryUrbDecidedOnce == Spec => ImplementsUrbService
<1>1. Init => UrbInv
  BY UrbInit
<1>2. TypeOK /\ TypeOK' /\ UrbInv /\ [Next]_queues => UrbInv' /\ [Service!Next]_Service!vars
  BY UrbStep
<1>3. Init => Service!Init
  BY UrbInitMaps
<1>4. Spec => []TypeOK
  BY TypeCorrect
<1> QED
  BY <1>1, <1>2, <1>3, <1>4, PTL DEF Spec, ImplementsUrbService, Service!Spec

(***************************************************************************)
(* No command is lost.  Beyond UrbInv: no command is answered twice, no    *)
(* URB is decided twice, and what is not a URB is answered at once.        *)
(***************************************************************************)
AnsweredOnce == \A i, j \in DOMAIN Replies : Replies[i].seqnum = Replies[j].seqnum => i = j

DecidedOnce ==
  \A i, j \in DOMAIN Verdicts :
    /\ Verdicts[i].urb = Verdicts[j].urb
    /\ Verdicts[i].verdict # "missed" /\ Verdicts[j].verdict # "missed"
    => i = j

RestAnswered ==
  err # "command" => \A u \in 1 .. Handled : IsSubmit(issued[u]) \/ At(Replies, u) # {}

OnceInv == AnsweredOnce /\ DecidedOnce /\ RestAnswered

LEMMA OnceInit == Init => OnceInv
<1> SUFFICES ASSUME Init PROVE OnceInv
  OBVIOUS
<1>1. Replies = <<>> /\ Handled = 0
  BY NothingYet
<1>2. Verdicts = <<>>
  BY <1>1 DEF Verdicts
<1> QED
  BY <1>1, <1>2 DEF OnceInv, AnsweredOnce, DecidedOnce, RestAnswered

LEMMA DecidedOnceStep ==
  ASSUME TypeOK, DecidedOnce, [Service!Next]_Service!vars
  PROVE  DecidedOnce'
<1> DEFINE S == {Verdict(r) : r \in Reply}
                \cup [urb : 1 .. MaxCommands, verdict : {"returned", "cancelled", "missed"}]
<1>1. Verdicts \in Seq(S)
  <2>1. /\ DOMAIN Verdicts = 1 .. Len(Replies) /\ Len(Replies) \in Nat
        /\ \A i \in 1 .. Len(Replies) : Replies[i] \in Reply /\ Verdicts[i] = Verdict(Replies[i])
    BY Domains, ElementOfSeq, VerdictOf
  <2>2. Verdicts \in [1 .. Len(Replies) -> S]
    BY <2>1 DEF Verdicts
  <2> QED
    BY <2>1, <2>2, SeqDef
<1>2. CASE UNCHANGED Verdicts
  BY <1>2 DEF DecidedOnce
<1>3. ASSUME NEW u \in 1 .. MaxCommands, NEW verdict \in {"returned", "cancelled", "missed"},
             Service!Answer(u, verdict), verdict # "missed" => u \in OpenUrbs
      PROVE  DecidedOnce'
  <2> DEFINE v == [urb |-> u, verdict |-> verdict]
  <2>1. v \in S /\ Verdicts' = Append(Verdicts, v)
    BY <1>3 DEF Service!Answer
  <2> HIDE DEF S
  <2>2. Grown(Verdicts, v, Verdicts')
    BY <1>1, <2>1, GrownBy
  <2>3. Len(Verdicts) \in Nat /\ DOMAIN Verdicts = 1 .. Len(Verdicts)
    BY <1>1, LenProperties
  <2>4. verdict # "missed" =>
          \A i \in DOMAIN Verdicts : Verdicts[i].urb = u => Verdicts[i].verdict = "missed"
    BY <1>3, OpenMeans DEF Decided
  <2>5. \A i \in DOMAIN Verdicts' : i \in DOMAIN Verdicts \/ i = Len(Verdicts) + 1
    BY <2>2, <2>3 DEF Grown
  <2>6. v.urb = u /\ v.verdict = verdict
    OBVIOUS
  <2> HIDE DEF v
  <2> QED
    BY <2>2, <2>4, <2>5, <2>6 DEF DecidedOnce, Grown
<1>4. CASE Service!Next
  <2>1. PICK u \in 1 .. MaxCommands :
          Service!Submit(u) \/ Service!Return(u) \/ Service!Cancel(u) \/ Service!Miss(u)
    BY <1>4 DEF Service!Next
  <2> QED
    BY <1>2, <1>3, <2>1 DEF Service!Submit, Service!Return, Service!Cancel, Service!Miss
<1> QED
  BY <1>2, <1>4 DEF Service!vars

(* A step queues at most one reply: to the command it takes from the line, *)
(* or to one that waits.                                                   *)
LEMMA RepliesMove ==
  ASSUME TypeOK, TypeOK', UrbInv, [Next]_queues
  PROVE  /\ Handled \in Nat
         /\ err' # "command" => err # "command"
         /\ \A u \in 1 .. Handled : issued'[u] = issued[u]
         /\ \/ /\ UNCHANGED Replies
               /\ \/ Handled' = Handled
                  \/ Handled' = Handled + 1 /\ err' = "command"
                  \/ Handled' = Handled + 1 /\ IsSubmit(issued'[Handled + 1])
            \/ \E reply \in Reply :
                 /\ Replies' = Append(Replies, reply)
                 /\ \/ Handled' = Handled + 1 /\ reply.seqnum = Handled + 1
                    \/ Handled' = Handled /\ Waits(reply.seqnum)
<1>0. Handled \in Nat /\ Handled <= Len(issued)
  BY Domains DEF UrbInv, LineInv, InLine, Handled
<1>1. CASE Host
  <2>1. PICK cmd : Issue(cmd)
    BY <1>1 DEF Host, HostSubmit, HostUnlink
  <2>2. Grown(issued, cmd, issued') /\ Grown(Unqueued, cmd, Unqueued')
    <3>1. cmd \in Command /\ wire' = Append(wire, cmd) /\ issued' = Append(issued, cmd)
      BY <2>1, LastOf DEF Issue, TypeOK
    <3>2. Unqueued' = Append(Unqueued, cmd)
      BY <1>1, <3>1, UnqueuedGrows DEF Host, handVars
    <3> QED
      BY <3>1, <3>2, Domains, GrownBy DEF TypeOK
  <2>3. UNCHANGED <<cmds, Replies, err>>
    BY <1>1 DEF Host, handVars, queueVars, Replies
  <2>4. Handled' = Handled
    BY <2>2, <2>3, Domains DEF Grown, Handled
  <2>5. \A u \in 1 .. Handled : u \in DOMAIN issued
    BY <1>0, Domains
  <2> QED
    BY <1>0, <2>2, <2>3, <2>4, <2>5 DEF Grown
<1>2. CASE Push
  <2>1. /\ UNCHANGED <<issued, Replies, err>> /\ Unqueued # <<>>
        /\ cmds' = Append(cmds, Head(Unqueued)) /\ Unqueued' = Tail(Unqueued)
    BY <1>2, PushMoves
  <2>2. Handled' = Handled
    <3>1. Len(Unqueued) >= 1 /\ Len(Unqueued') = Len(Unqueued) - 1
      BY <2>1, HeadTailProperties, EmptySeq, Domains
    <3>2. Grown(cmds, Head(Unqueued), cmds')
      BY <2>1, LastOf, GrownBy DEF TypeOK
    <3> QED
      BY <2>1, <3>1, <3>2, Domains DEF Grown, Handled
  <2> QED
    BY <1>0, <2>1, <2>2
<1>3. CASE Handle
  <2>1. /\ err = "none" /\ cmds # <<>> /\ cmds' = Tail(cmds) /\ UNCHANGED <<hostVars, handVars, sent>>
    BY <1>3 DEF Handle
  <2>2. Handled' = Handled + 1 /\ UNCHANGED issued /\ Head(cmds) = issued[Handled + 1]
        /\ Handled + 1 \in DOMAIN issued
    BY <2>1, LineMoves DEF UrbInv, LineInv, hostVars, handVars
  <2>3. Head(cmds) \in Command /\ Head(cmds).seqnum = Handled + 1
    BY <2>1, <2>2, HeadTailProperties DEF TypeOK, UrbInv, LineInv, LogOK
  <2>4. CASE err' = "command" /\ UNCHANGED queueVars
    BY <1>0, <2>1, <2>2, <2>4 DEF handVars, queueVars, Replies
  <2>5. ASSUME NEW reply, Queue(reply), reply.seqnum = Handled + 1
        PROVE  \E r \in Reply : /\ Replies' = Append(Replies, r)
                                /\ r.seqnum = Handled + 1
    <3>1. reply \in Reply
      BY <2>5, LastOf DEF Queue, TypeOK
    <3> QED
      BY <2>1, <2>5, <3>1, RepliesGrow DEF handVars
  <2>6. CASE Accept(Head(cmds)) /\ UNCHANGED err
    <3>1. CASE \E reply \in Reply : Queue(reply) /\ reply.seqnum = Head(cmds).seqnum
      BY <1>0, <2>1, <2>2, <2>3, <2>5, <2>6, <3>1
    <3>2. CASE SubmitIn(Head(cmds)) /\ IsSubmit(Head(cmds))
      BY <1>0, <2>1, <2>2, <2>6, <3>2 DEF SubmitIn, handVars, Replies
    <3>3. CASE Unlink(Head(cmds))
      <4>1. PICK found \in BOOLEAN : Queue(ReplyTo(Head(cmds), NoPayload, 0, UnlinkStatus(found)))
        BY <3>3 DEF Unlink
      <4> QED
        BY <1>0, <2>1, <2>2, <2>3, <2>5, <2>6, <4>1, ReplyFields
    <3> QED
      BY <2>3, <2>6, <3>1, <3>2, <3>3, AcceptCases
  <2> QED
    BY <1>3, <2>4, <2>6 DEF Handle
<1>4. CASE Send
  <2>1. UNCHANGED <<issued, Unqueued, cmds, sent, wrep, err>>
    BY <1>4 DEF Send, hostVars, handVars, Unqueued
  <2>2. Handled' = Handled
    BY <2>1 DEF Handled
  <2>3. CASE SendDone
    BY <1>0, <2>1, <2>2, <2>3 DEF SendDone, Replies
  <2>4. CASE SendOne
    <3>1. PICK payload, len : Queue(ReplyTo(Head(inCmds[serving]), payload, len, 0))
      BY <2>4 DEF SendOne
    <3>2. serving \in Endpoints /\ inCmds[serving] # <<>> /\ inCmds[serving] \in Seq(Command)
      BY <2>4 DEF SendOne, Served, TypeOK
    <3>3. Waits(Head(inCmds[serving]).seqnum)
      BY <3>2, TailDrops DEF Waits
    <3> DEFINE reply == ReplyTo(Head(inCmds[serving]), payload, len, 0)
    <3>4. reply \in Reply
      BY <3>1, LastOf DEF Queue, TypeOK
    <3>5. Replies' = Append(Replies, reply) /\ Waits(reply.seqnum)
      BY <2>1, <3>1, <3>3, RepliesGrow, ReplyFields
    <3> HIDE DEF reply
    <3> QED
      BY <1>0, <2>1, <2>2, <3>4, <3>5
  <2> QED
    BY <1>4, <2>3, <2>4 DEF Send
<1>6. CASE QuietStep
  BY <1>0, <1>6, QuietMoves DEF Handled
<1> QED
  BY <1>1, <1>2, <1>3, <1>4, <1>6 DEF Next, QuietStep

LEMMA OnceStep ==
  ASSUME TypeOK, TypeOK', UrbInv, OnceInv, [Next]_queues
  PROVE  OnceInv'
<1>1. DecidedOnce'
  BY UrbStep, DecidedOnceStep DEF OnceInv
<1>2. /\ Handled \in Nat
      /\ err' # "command" => err # "command"
      /\ \A u \in 1 .. Handled : issued'[u] = issued[u]
  BY RepliesMove
<1>3. ASSUME NEW u \in 1 .. Handled, err' # "command",
             At(Replies, u) # {} => At(Replies, u)' # {}
      PROVE  IsSubmit(issued'[u]) \/ At(Replies, u)' # {}
  BY <1>2, <1>3 DEF OnceInv, RestAnswered
<1>4. CASE /\ UNCHANGED Replies
           /\ \/ Handled' = Handled
              \/ Handled' = Handled + 1 /\ err' = "command"
              \/ Handled' = Handled + 1 /\ IsSubmit(issued'[Handled + 1])
  <2>1. AnsweredOnce'
    BY <1>4 DEF OnceInv, AnsweredOnce
  <2>2. \A u : At(Replies, u)' = At(Replies, u)
    BY <1>4 DEF At
  <2>3. RestAnswered'
    <3> SUFFICES ASSUME err' # "command", NEW u \in 1 .. Handled'
                 PROVE  IsSubmit(issued'[u]) \/ At(Replies, u)' # {}
      BY DEF RestAnswered
    <3>1. CASE u \in 1 .. Handled
      BY <1>3, <2>2, <3>1
    <3>2. CASE u = Handled + 1 /\ Handled' = Handled + 1
      BY <1>4, <3>2
    <3> QED
      BY <1>2, <1>4, <3>1, <3>2
  <2> QED
    BY <1>1, <2>1, <2>3 DEF OnceInv
<1>5. ASSUME NEW reply \in Reply, Replies' = Append(Replies, reply),
             \/ Handled' = Handled + 1 /\ reply.seqnum = Handled + 1
             \/ Handled' = Handled /\ Waits(reply.seqnum)
      PROVE  OnceInv'
  <2>1. Grown(Replies, reply, Replies')
    BY <1>5, Domains, GrownBy
  <2>2. \A i \in DOMAIN Replies' : i \in DOMAIN Replies \/ i = Len(Replies) + 1
    BY <2>1, Domains DEF Grown
  <2>3. ASSUME NEW i \in DOMAIN Replies PROVE Replies[i].seqnum # reply.seqnum
    <3>1. Replies[i].seqnum \in 1 .. Handled /\ Replies[i] \in Reply
      BY Domains, ElementOfSeq DEF UrbInv, LineInv, RepliesOK
    <3>2. CASE reply.seqnum = Handled + 1
      BY <1>2, <3>1, <3>2
    <3>3. CASE Waits(reply.seqnum) /\ Replies[i].seqnum = reply.seqnum
      <4>1. IsSubmit(issued[reply.seqnum]) /\ reply.seqnum \in 1 .. Handled
        BY <3>3 DEF Waits, UrbInv, LineInv, WaitingOK
      <4>2. Replies[i].command = "RetSubmit"
        BY <3>1, <3>3, <4>1 DEF UrbInv, LineInv, RepliesOK, IsSubmit, IsUnlink, Reply
      <4>3. Decided(reply.seqnum)
        BY <3>3, <4>2, VerdictOf DEF Decided, Verdict
      <4>4. reply.seqnum \in DOMAIN issued
        BY <1>2, <4>1, Domains DEF UrbInv, LineInv, InLine, Handled
      <4> QED
        BY <3>3, <4>3, <4>4 DEF UrbInv, WaitingUndecided
    <3> QED
      BY <1>5, <3>2, <3>3
  <2>4. AnsweredOnce'
    BY <2>1, <2>2, <2>3 DEF AnsweredOnce, OnceInv, Grown
  <2>5. Len(Replies) + 1 \in At(Replies, reply.seqnum)'
    BY <2>1, Domains DEF At, Grown
  <2>6. \A u : At(Replies, u) \subseteq At(Replies, u)'
    BY <2>1, Domains DEF At, Grown
  <2>7. RestAnswered'
    <3> SUFFICES ASSUME err' # "command", NEW u \in 1 .. Handled'
                 PROVE  IsSubmit(issued'[u]) \/ At(Replies, u)' # {}
      BY DEF RestAnswered
    <3>1. CASE u \in 1 .. Handled
      BY <1>3, <2>6, <3>1
    <3>2. CASE u = Handled + 1 /\ Handled' = Handled + 1
      BY <1>2, <1>5, <2>5, <3>2
    <3> QED
      BY <1>2, <1>5, <3>1, <3>2
  <2> QED
    BY <1>1, <2>4, <2>7 DEF OnceInv
<1> QED
  BY <1>4, <1>5, RepliesMove

(* The places of a command, one kind at a time.                            *)
CancelsOf(n) == {j \in DOMAIN Replies :
  /\ Replies[j].command = "RetUnlink" /\ Replies[j].status = -ECONNRESET
  /\ issued[Replies[j].seqnum].target = n}

LEMMA LinePlaces ==
  ASSUME TypeOK, UrbInv, NEW n \in DOMAIN issued
  PROVE  /\ Handled \in Nat /\ n \in Nat /\ n > 0
         /\ At(wire, n) # {} => n > Handled + Len(cmds) + Len(rcmd)
         /\ At(rcmd, n) # {} => n > Handled + Len(cmds) /\ n <= Handled + Len(cmds) + Len(rcmd)
         /\ At(cmds, n) # {} => n > Handled /\ n <= Handled + Len(cmds)
         /\ \A i, j \in At(wire, n) : i = j
         /\ \A i, j \in At(rcmd, n) : i = j
         /\ \A i, j \in At(cmds, n) : i = j
         /\ n > Handled => At(wire, n) # {} \/ At(rcmd, n) # {} \/ At(cmds, n) # {}
<1>1. /\ Handled \in Nat /\ Handled + Len(cmds) + Len(Unqueued) = Len(issued)
      /\ n \in 1 .. Len(issued)
  BY Domains DEF UrbInv, LineInv, InLine, Handled
<1>2. /\ \A m \in 1 .. Len(issued) : issued[m].seqnum = m
      /\ \A i \in 1 .. Len(cmds) : cmds[i] = issued[Handled + i]
      /\ \A i \in 1 .. Len(Unqueued) : Unqueued[i] = issued[Handled + Len(cmds) + i]
  BY Domains DEF UrbInv, LineInv, LogOK, InLine
<1>3. ASSUME NEW i \in 1 .. Len(Unqueued) PROVE Unqueued[i].seqnum = Handled + Len(cmds) + i
  <2>1. Handled + Len(cmds) + i \in 1 .. Len(issued)
    BY <1>1, Domains
  <2> QED
    BY <1>2, <2>1
<1>4. ASSUME NEW i \in 1 .. Len(cmds) PROVE cmds[i].seqnum = Handled + i
  <2>1. Handled + i \in 1 .. Len(issued)
    BY <1>1, Domains
  <2> QED
    BY <1>2, <2>1
<1>5. /\ \A i \in 1 .. Len(rcmd) : rcmd[i] = Unqueued[i]
      /\ \A i \in 1 .. Len(wire) : wire[i] = Unqueued[Len(rcmd) + i]
      /\ Len(rcmd) \in Nat /\ Len(wire) \in Nat /\ Len(cmds) \in Nat
      /\ Len(Unqueued) = Len(rcmd) + Len(wire)
  BY Domains, ConcatProperties, SMTT(20) DEF TypeOK, Unqueued
<1>6. ASSUME NEW i \in At(wire, n) PROVE n = Handled + Len(cmds) + Len(rcmd) + i /\ i \in Nat \ {0}
  <2>1. i \in 1 .. Len(wire) /\ wire[i].seqnum = n /\ Len(rcmd) + i \in 1 .. Len(Unqueued)
    BY <1>5, Domains DEF At
  <2> QED
    BY <1>1, <1>3, <1>5, <2>1, SMTT(30)
<1>7. ASSUME NEW i \in At(rcmd, n)
      PROVE  n = Handled + Len(cmds) + i /\ i \in Nat \ {0} /\ i <= Len(rcmd)
  <2>1. i \in 1 .. Len(rcmd) /\ rcmd[i].seqnum = n /\ i \in 1 .. Len(Unqueued)
    BY <1>5, Domains DEF At
  <2> QED
    BY <1>1, <1>3, <1>5, <2>1
<1>8. ASSUME NEW i \in At(cmds, n) PROVE n = Handled + i /\ i \in Nat \ {0} /\ i <= Len(cmds)
  <2>1. i \in 1 .. Len(cmds) /\ cmds[i].seqnum = n
    BY Domains DEF At
  <2> QED
    BY <1>1, <1>4, <1>5, <2>1
<1>9. ASSUME n > Handled PROVE At(wire, n) # {} \/ At(rcmd, n) # {} \/ At(cmds, n) # {}
  <2>1. CASE n <= Handled + Len(cmds)
    <3>1. n - Handled \in 1 .. Len(cmds) /\ Handled + (n - Handled) = n
      BY <1>1, <1>5, <1>9, <2>1
    <3>2. n - Handled \in At(cmds, n)
      BY <1>4, <3>1, Domains DEF At
    <3> QED
      BY <3>2
  <2>2. CASE n > Handled + Len(cmds)
    <3>0. PICK k : k = n - Handled - Len(cmds)
      OBVIOUS
    <3>1. k \in 1 .. Len(Unqueued) /\ Handled + Len(cmds) + k = n
      BY <1>1, <1>5, <2>2, <3>0
    <3>2. Unqueued[k].seqnum = n
      BY <1>3, <3>1
    <3>3. CASE k <= Len(rcmd)
      <4>1. k \in 1 .. Len(rcmd)
        BY <1>5, <3>1, <3>3
      <4>2. k \in At(rcmd, n)
        BY <1>5, <3>2, <4>1, Domains DEF At
      <4> QED
        BY <4>2
    <3>4. CASE k > Len(rcmd)
      <4>1. k - Len(rcmd) \in 1 .. Len(wire) /\ Len(rcmd) + (k - Len(rcmd)) = k
        BY <1>5, <3>1, <3>4
      <4>2. k - Len(rcmd) \in At(wire, n)
        BY <1>5, <3>2, <4>1, Domains DEF At
      <4> QED
        BY <4>2
    <3> QED
      BY <1>5, <3>1, <3>3, <3>4
  <2> QED
    BY <1>1, <1>5, <2>1, <2>2
<1>10. /\ At(wire, n) # {} => n > Handled + Len(cmds) + Len(rcmd)
       /\ At(rcmd, n) # {} => n > Handled + Len(cmds) /\ n <= Handled + Len(cmds) + Len(rcmd)
       /\ At(cmds, n) # {} => n > Handled /\ n <= Handled + Len(cmds)
  BY <1>1, <1>5, <1>6, <1>7, <1>8
<1>11. /\ \A i, j \in At(wire, n) : i = j
       /\ \A i, j \in At(rcmd, n) : i = j
       /\ \A i, j \in At(cmds, n) : i = j
  BY <1>1, <1>5, <1>6, <1>7, <1>8, SMTT(30)
<1> QED
  BY <1>1, <1>9, <1>10, <1>11

LEMMA HandledPlaces ==
  ASSUME TypeOK, UrbInv, OnceInv, NEW n \in DOMAIN issued
  PROVE  /\ \A i \in At(Replies, n) : n <= Handled
         /\ \A i, j \in At(Replies, n) : i = j
         /\ Waits(n) => n <= Handled /\ At(Replies, n) = {} /\ CancelsOf(n) = {}
         /\ \A e, f \in Endpoints : \A i \in At(inCmds[e], n), j \in At(inCmds[f], n) : e = f /\ i = j
         /\ \A i \in CancelsOf(n) : n <= Handled /\ At(Replies, n) = {}
         /\ \A i, j \in CancelsOf(n) : i = j
         /\ Decided(n) => At(Replies, n) # {} \/ CancelsOf(n) # {}
<1>1. ASSUME NEW i \in CancelsOf(n)
      PROVE  /\ i \in DOMAIN Verdicts /\ Verdicts[i] = [urb |-> n, verdict |-> "cancelled"]
             /\ IsSubmit(issued[n]) /\ Decided(n)
  <2>1. i \in DOMAIN Replies /\ i \in DOMAIN Verdicts /\ Verdicts[i] = Verdict(Replies[i])
    BY VerdictOf DEF CancelsOf
  <2>2. Verdict(Replies[i]) = [urb |-> n, verdict |-> "cancelled"]
    BY DEF CancelsOf, Verdict
  <2>3. IsUnlink(issued[Replies[i].seqnum]) /\ Replies[i].seqnum \in DOMAIN issued
    <3>1. Handled \in Int /\ Handled <= Len(issued)
      BY Domains DEF Handled
    <3> QED
      BY <2>1, <3>1, Domains DEF CancelsOf, UrbInv, LineInv, RepliesOK
  <2>4. IsSubmit(issued[n])
    BY <2>3 DEF CancelsOf, UrbInv, LineInv, LogOK
  <2> QED
    BY <2>1, <2>2, <2>4 DEF Decided
<1>2. ASSUME NEW i \in At(Replies, n), IsSubmit(issued[n])
      PROVE  /\ i \in DOMAIN Verdicts /\ Verdicts[i] = [urb |-> n, verdict |-> "returned"]
             /\ Decided(n)
  <2>1. /\ i \in DOMAIN Replies /\ Replies[i].seqnum = n /\ Replies[i] \in Reply
        /\ i \in DOMAIN Verdicts /\ Verdicts[i] = Verdict(Replies[i])
    BY VerdictOf, Domains, ElementOfSeq DEF At
  <2>2. Replies[i].command = "RetSubmit"
    BY <1>2, <2>1 DEF UrbInv, LineInv, RepliesOK, IsSubmit, IsUnlink, Reply
  <2>3. Verdicts[i] = [urb |-> n, verdict |-> "returned"]
    BY <2>1, <2>2 DEF Verdict
  <2> QED
    BY <2>1, <2>3 DEF Decided
<1>3. \A i \in At(Replies, n) : n <= Handled
  BY Domains DEF At, UrbInv, LineInv, RepliesOK
<1>4. \A i, j \in At(Replies, n) : i = j
  BY DEF At, OnceInv, AnsweredOnce
<1>5. Waits(n) => n <= Handled /\ IsSubmit(issued[n]) /\ ~Decided(n)
  BY Domains DEF UrbInv, LineInv, WaitingOK, WaitingUndecided, Waits
<1>6. \A e, f \in Endpoints : \A i \in At(inCmds[e], n), j \in At(inCmds[f], n) : e = f /\ i = j
  BY DEF At, UrbInv, LineInv, WaitingOK
<1>7. \A i \in CancelsOf(n) : n <= Handled
  <2>1. Decided(n) => n <= Handled
    BY VerdictBound, Domains DEF UrbInv
  <2> QED
    BY <1>1, <2>1
<1>8. \A i \in CancelsOf(n) : At(Replies, n) = {}
  BY <1>1, <1>2 DEF OnceInv, DecidedOnce
<1>9. \A i, j \in CancelsOf(n) : i = j
  BY <1>1 DEF OnceInv, DecidedOnce
<1>10. ASSUME Decided(n) PROVE At(Replies, n) # {} \/ CancelsOf(n) # {}
  <2>1. PICK i \in DOMAIN Replies : /\ Verdict(Replies[i]).urb = n
                                    /\ Verdict(Replies[i]).verdict # "missed"
    BY <1>10, VerdictOf DEF Decided
  <2>2. Replies[i].command \in {"RetSubmit", "RetUnlink"}
    <3>1. Replies[i] \in Reply
      BY Domains, ElementOfSeq
    <3> QED
      BY <3>1 DEF Reply
  <2> QED
    BY <2>1, <2>2 DEF Verdict, At, CancelsOf
<1> QED
  BY <1>1, <1>2, <1>3, <1>4, <1>5, <1>6, <1>7, <1>8, <1>9, <1>10

LEMMA OncePlaced == TypeOK /\ UrbInv /\ OnceInv => NoCommandLost
<1> SUFFICES ASSUME TypeOK, UrbInv, OnceInv, NEW n \in DOMAIN issued
             PROVE  /\ Cardinality(Whereabouts(n)) <= 1
                    /\ Whereabouts(n) = {} => err = "command"
  BY DEF NoCommandLost
<1> DEFINE A == {<<"wire", 0, i>> : i \in At(wire, n)}
           R == {<<"rcmd", 0, i>> : i \in At(rcmd, n)}
           B == {<<"cmds", 0, i>> : i \in At(cmds, n)}
           C == {<<"answered", 0, i>> : i \in At(Replies, n)}
           D == UNION {{<<"inCmds", e, i>> : i \in At(inCmds[e], n)} : e \in Endpoints}
           E == {<<"cancelled", 0, i>> : i \in CancelsOf(n)}
<1>1. Whereabouts(n) = A \cup R \cup B \cup C \cup D \cup E
  <2>1. CancelsOf(n) = {j \in DOMAIN Replies :
           /\ Replies[j].command = "RetUnlink" /\ Replies[j].status = -ECONNRESET
           /\ issued[Replies[j].seqnum].target = n}
    BY DEF CancelsOf
  <2> QED
    BY <2>1 DEF Whereabouts
<1>2. Handled \in Nat /\ n \in Nat /\ n > 0 /\ Len(cmds) \in Nat /\ Len(rcmd) \in Nat
  BY LinePlaces, Domains
<1>3. /\ A # {} => n > Handled + Len(cmds) + Len(rcmd)
      /\ R # {} => n > Handled + Len(cmds) /\ n <= Handled + Len(cmds) + Len(rcmd)
      /\ B # {} => n > Handled /\ n <= Handled + Len(cmds)
  BY LinePlaces
<1>4. D # {} => Waits(n)
  BY DEF At, Waits
<1>5. /\ C # {} => n <= Handled
      /\ D # {} => n <= Handled /\ C = {} /\ E = {}
      /\ E # {} => n <= Handled /\ C = {}
  <2>1. C # {} => n <= Handled
    BY HandledPlaces
  <2>2. E # {} => n <= Handled /\ C = {}
    BY HandledPlaces
  <2>3. D # {} => n <= Handled /\ C = {} /\ E = {}
    BY <1>4, HandledPlaces
  <2> QED
    BY <2>1, <2>2, <2>3
<1>6. /\ \A x, y \in A : x = y
      /\ \A x, y \in R : x = y
      /\ \A x, y \in B : x = y
      /\ \A x, y \in C : x = y
      /\ \A x, y \in E : x = y
  <2>1. \A i, j \in At(wire, n) : i = j
    BY LinePlaces
  <2>5. \A i, j \in At(rcmd, n) : i = j
    BY LinePlaces
  <2>2. \A i, j \in At(cmds, n) : i = j
    BY LinePlaces
  <2>3. \A i, j \in At(Replies, n) : i = j
    BY HandledPlaces
  <2>4. \A i, j \in CancelsOf(n) : i = j
    BY HandledPlaces
  <2> QED
    BY <2>1, <2>2, <2>3, <2>4, <2>5
<1>7. \A x, y \in D : x = y
  <2> SUFFICES ASSUME NEW e \in Endpoints, NEW i \in At(inCmds[e], n),
                      NEW f \in Endpoints, NEW j \in At(inCmds[f], n)
               PROVE  <<"inCmds", e, i>> = <<"inCmds", f, j>>
    OBVIOUS
  <2>1. e = f /\ i = j
    BY HandledPlaces
  <2> QED
    BY <2>1
<1>8. CASE Whereabouts(n) = {}
  <2>1. A = {} /\ R = {} /\ B = {} /\ C = {} /\ D = {} /\ E = {}
    BY <1>1, <1>8
  <2>2. At(wire, n) = {} /\ At(rcmd, n) = {} /\ At(cmds, n) = {} /\ At(Replies, n) = {} /\ CancelsOf(n) = {}
    <3>1. ASSUME NEW kind, NEW P, {<<kind, 0, i>> : i \in P} = {} PROVE P = {}
      <4> SUFFICES ASSUME NEW i \in P PROVE FALSE
        OBVIOUS
      <4>1. <<kind, 0, i>> \in {<<kind, 0, j>> : j \in P}
        OBVIOUS
      <4> QED
        BY <3>1, <4>1
    <3> QED
      BY <2>1, <3>1
  <2>3. n \in 1 .. Handled
    BY <1>2, <2>2, LinePlaces
  <2>4. ~Waits(n)
    <3> SUFFICES ASSUME NEW e \in Endpoints, NEW i \in DOMAIN inCmds[e],
                        inCmds[e][i].seqnum = n
                 PROVE  FALSE
      BY DEF Waits
    <3>1. i \in At(inCmds[e], n)
      BY DEF At
    <3>2. <<"inCmds", e, i>> \in D
      BY <3>1
    <3> QED
      BY <2>1, <3>2
  <2>5. ~Decided(n)
    BY <2>2, HandledPlaces
  <2>6. err = "command"
    BY <2>2, <2>3, <2>4, <2>5 DEF UrbInv, NoneForgotten, OnceInv, RestAnswered
  <2> QED
    BY <1>8, <2>6, FS_EmptySet
<1> HIDE DEF A, R, B, C, D, E
<1>9. CASE Whereabouts(n) # {}
  <2>1. PICK x : x \in Whereabouts(n)
    BY <1>9
  <2>2. \A y \in Whereabouts(n) : y = x
    BY <1>1, <1>2, <1>3, <1>5, <1>6, <1>7, <2>1
  <2>3. Whereabouts(n) = {x}
    BY <2>1, <2>2
  <2>4. Cardinality(Whereabouts(n)) = 1
    BY <2>3, FS_Singleton
  <2> QED
    BY <1>9, <2>4
<1> QED
  BY <1>8, <1>9

(* No command of the host is lost or answered twice, for any number of     *)
(* endpoints, commands and writes: each is in one place until it is        *)
(* answered or taken back, except the one whose handler threw (read        *)
(* 137-138, 165; _handleCmdUnlink 660-679).                                *)
THEOREM NothingIsLost == Spec => []NoCommandLost
<1>1. Init => UrbInv /\ OnceInv
  BY UrbInit, OnceInit
<1>2. TypeOK /\ TypeOK' /\ UrbInv /\ OnceInv /\ [Next]_queues => UrbInv' /\ OnceInv'
  BY UrbStep, OnceStep
<1>3. TypeOK /\ UrbInv /\ OnceInv => NoCommandLost
  BY OncePlaced
<1>4. Spec => []TypeOK
  BY TypeCorrect
<1> QED
  BY <1>1, <1>2, <1>3, <1>4, PTL DEF Spec
==============================================================================
