--------------------------- MODULE ReplyOrderProofs ---------------------------
(***************************************************************************)
(* Proofs about the replies of CommandQueues, for every device and every   *)
(* host: the IN transfers of an endpoint are answered in their order, the  *)
(* bytes they carry are the bytes written, and no reply is too long for    *)
(* the room the host made.                                                 *)
(***************************************************************************)
EXTENDS CommandQueuesProofs

(***************************************************************************)
(* What the handlers of read() answer, other than the data of IN           *)
(* transfers.                                                              *)
(***************************************************************************)
Answers(cmd, reply) ==
  /\ reply.seqnum = cmd.seqnum
  /\ reply.payload.kind # "write"
  /\ reply.command = "RetSubmit" /\ reply.direction = "In" => ~IsTransfer(cmd)
  /\ MakesRoom(cmd) /\ reply.direction = "In" => reply.length <= cmd.length

LEMMA AcceptAnswers ==
  ASSUME TypeOK, NEW cmd \in Command, Accept(cmd), IsUnlink(cmd) => cmd.direction = "Out"
  PROVE  /\ UNCHANGED inData
         /\ SubmitIn(cmd) \/ \E reply : Queue(reply) /\ Answers(cmd, reply)
<1>0. cmd.length \in Nat /\ cmd.setup.wLength \in Nat
  BY DEF Command, SetupRequest
<1>1. CASE SubmitStandard(cmd)
  <2>0. IsStandard(cmd) /\ IsSubmit(cmd) /\ ~IsTransfer(cmd) /\ UNCHANGED inData
    BY <1>1 DEF SubmitStandard, IsStandard, IsTransfer
  <2>1. CASE /\ cmd.setup.request = "GetStatus"
             /\ Queue(StatusReply(cmd, ConfigDescs[configDesc].selfPowered))
    <3> DEFINE reply == StatusReply(cmd, ConfigDescs[configDesc].selfPowered)
    <3>1. Answers(cmd, reply)
      BY <1>0, <2>0, <2>1 DEF Answers, StatusReply, ReplyTo, NoPayload, MakesRoom
    <3> QED
      BY <2>0, <2>1, <3>1
  <2>2. CASE /\ cmd.setup.request = "GetDescriptor"
             /\ \E stray \in StrayLens : Queue(DescriptorReply(cmd, stray))
    <3>0. PICK stray \in StrayLens : Queue(DescriptorReply(cmd, stray))
      BY <2>2
    <3> DEFINE desc == DescriptorFor(cmd.setup, stray)
               len == AtMost(desc.len, cmd.setup.wLength)
    <3>1. desc.kind # "write"
      BY DEF DescriptorFor
    <3>2. len \in Int /\ len <= cmd.setup.wLength
      <4>1. DescriptorReply(cmd, stray) \in Reply /\ DescriptorReply(cmd, stray).length = len
        <5>1. StandardSupported(cmd, configDesc # 0)
          BY <2>0 DEF Accept, Rejected, IsTransfer, IsStandard, IsSubmit, IsUnlink
        <5> QED
          BY <2>0, <2>2, <5>1, DescriptorReplyType DEF DescriptorReply, ReplyTo
      <4>2. len \in Nat
        BY <4>1 DEF Reply
      <4> QED
        BY <1>0, <4>2 DEF AtMost
    <3>3. Answers(cmd, DescriptorReply(cmd, stray))
      <4>1. /\ DescriptorReply(cmd, stray).seqnum = cmd.seqnum
            /\ DescriptorReply(cmd, stray).payload.kind # "write"
            /\ DescriptorReply(cmd, stray).direction = cmd.direction
            /\ DescriptorReply(cmd, stray).length = len
        BY <2>0, <3>1 DEF DescriptorReply, ReplyTo, NoPayload
      <4> HIDE DEF len, desc
      <4> QED
        BY <1>0, <2>0, <2>2, <3>2, <4>1 DEF Answers, MakesRoom
    <3> QED
      BY <2>0, <3>0, <3>3
  <2>3. CASE Queue(ReplyTo(cmd, NoPayload, 0, 0))
    <3>1. Answers(cmd, ReplyTo(cmd, NoPayload, 0, 0))
      BY <1>0, <2>0 DEF Answers, ReplyTo, NoPayload
    <3> QED
      BY <2>0, <2>3, <3>1
  <2> QED
    BY <1>1, <2>1, <2>2, <2>3 DEF SubmitStandard
<1>2. CASE SubmitOut(cmd)
  <2>1. Answers(cmd, ReplyTo(cmd, NoPayload, cmd.length, 0))
    BY <1>2 DEF Answers, ReplyTo, NoPayload, SubmitOut
  <2> QED
    BY <1>2, <2>1 DEF SubmitOut
<1>3. CASE SubmitIn(cmd)
  BY <1>3 DEF SubmitIn
<1>4. CASE Unlink(cmd)
  <2>1. PICK found \in BOOLEAN : Queue(ReplyTo(cmd, NoPayload, 0, UnlinkStatus(found)))
    BY <1>4 DEF Unlink
  <2>2. Answers(cmd, ReplyTo(cmd, NoPayload, 0, UnlinkStatus(found)))
    BY <1>4 DEF Answers, ReplyTo, NoPayload, Unlink, IsUnlink, IsSubmit
  <2> QED
    BY <1>4, <2>1, <2>2 DEF Unlink
<1> QED
  BY <1>1, <1>2, <1>3, <1>4 DEF Accept

(***************************************************************************)
(* Order.  What waits at an endpoint is an IN transfer of that endpoint,   *)
(* and was handled in the order of the sequence numbers.                   *)
(***************************************************************************)
WaitingShape ==
  \A e \in Endpoints : \A i \in DOMAIN inCmds[e] :
    inCmds[e][i].ep = e /\ inCmds[e][i].direction = "In" /\ IsTransfer(inCmds[e][i])

(* The host marks an unlink as an OUT command.                             *)
UnlinksOut == \A n \in DOMAIN issued : IsUnlink(issued[n]) => issued[n].direction = "Out"

OrderInv == UnlinksOut /\ WaitingShape /\ InOrder

LEMMA OrderInit == Init => OrderInv
<1> SUFFICES ASSUME Init PROVE OrderInv
  OBVIOUS
<1>1. Replies = <<>> /\ issued = <<>> /\ \A e \in Endpoints : inCmds[e] = <<>>
  BY NothingYet DEF Init
<1> QED
  BY <1>1 DEF OrderInv, UnlinksOut, WaitingShape, InOrder

(* What the host has issued stays, as far as it was handled.               *)
LEMMA ReturnsStay ==
  ASSUME TypeOK, TypeOK', UrbInv, [Next]_queues, NEW i \in DOMAIN Replies,
         Replies'[i] = Replies[i]
  PROVE  \A e : ReturnsIn(i, e)' <=> ReturnsIn(i, e)
<1>1. issued'[Replies[i].seqnum] = issued[Replies[i].seqnum]
  BY RepliesMove DEF UrbInv, LineInv, RepliesOK
<1> QED
  BY <1>1 DEF ReturnsIn

(* The queues after a step are parts of the queues before it.              *)
Thinned ==
  \A e \in Endpoints :
    /\ \A k \in DOMAIN inCmds'[e] : \E m \in DOMAIN inCmds[e] : inCmds'[e][k] = inCmds[e][m]
    /\ \A k, l \in DOMAIN inCmds'[e] :
         k < l => \E m, n \in DOMAIN inCmds[e] :
                    m < n /\ inCmds'[e][k] = inCmds[e][m] /\ inCmds'[e][l] = inCmds[e][n]

LEMMA DropThins ==
  ASSUME TypeOK, NEW e \in Endpoints, NEW k \in DOMAIN inCmds[e], NEW rest,
         Drops(inCmds[e], k, rest), inCmds' = [inCmds EXCEPT ![e] = rest]
  PROVE  Thinned
<1> DEFINE old(j) == IF j < k THEN j ELSE j + 1
<1>1. inCmds'[e] = rest /\ \A f \in Endpoints \ {e} : inCmds'[f] = inCmds[f]
  BY DEF TypeOK
<1>2. ASSUME NEW f \in Endpoints, f # e
      PROVE  /\ \A i \in DOMAIN inCmds'[f] : \E m \in DOMAIN inCmds[f] : inCmds'[f][i] = inCmds[f][m]
             /\ \A i, l \in DOMAIN inCmds'[f] :
                  i < l => \E m, n \in DOMAIN inCmds[f] :
                     m < n /\ inCmds'[f][i] = inCmds[f][m] /\ inCmds'[f][l] = inCmds[f][n]
  BY <1>1, <1>2
<1>3. ASSUME NEW j \in DOMAIN inCmds'[e]
      PROVE  j \in Nat /\ old(j) \in DOMAIN inCmds[e] /\ inCmds'[e][j] = inCmds[e][old(j)]
  <2>1. /\ Len(inCmds[e]) \in Nat /\ k \in 1 .. Len(inCmds[e])
        /\ DOMAIN inCmds[e] = 1 .. Len(inCmds[e])
    BY Domains
  <2>2. j \in 1 .. Len(inCmds[e]) - 1 /\ inCmds'[e][j] = inCmds[e][old(j)]
    BY <1>1, <1>3 DEF Drops
  <2> QED
    BY <2>1, <2>2
<1>6. k \in Nat
  BY Domains
<1>4. \A i, l \in DOMAIN inCmds'[e] : i < l => old(i) < old(l)
  <2> SUFFICES ASSUME NEW i \in DOMAIN inCmds'[e], NEW l \in DOMAIN inCmds'[e], i < l
               PROVE  old(i) < old(l)
    OBVIOUS
  <2>1. i \in Nat /\ l \in Nat
    BY <1>3
  <2> QED
    BY <1>6, <2>1
<1> HIDE DEF old
<1>5. /\ \A i \in DOMAIN inCmds'[e] : \E m \in DOMAIN inCmds[e] : inCmds'[e][i] = inCmds[e][m]
      /\ \A i, l \in DOMAIN inCmds'[e] :
           i < l => \E m, n \in DOMAIN inCmds[e] :
              m < n /\ inCmds'[e][i] = inCmds[e][m] /\ inCmds'[e][l] = inCmds[e][n]
  BY <1>3, <1>4
<1> QED
  BY <1>2, <1>5 DEF Thinned

(* A step that queues no reply to an IN transfer keeps the order.          *)
LEMMA OrderThins ==
  ASSUME TypeOK, TypeOK', UrbInv, WaitingShape, InOrder, [Next]_queues, Thinned,
         \A e : \A i \in DOMAIN Replies' :
           ReturnsIn(i, e)' => i \in DOMAIN Replies /\ Replies'[i] = Replies[i]
  PROVE  WaitingShape' /\ InOrder'
<1>1. WaitingShape'
  BY DEF WaitingShape, Thinned
<1>2. \A e : \A i \in DOMAIN Replies' :
        ReturnsIn(i, e)' => i \in DOMAIN Replies /\ ReturnsIn(i, e) /\ Replies'[i] = Replies[i]
  BY ReturnsStay
<1>3. ASSUME NEW e \in Endpoints
      PROVE  /\ \A i, j \in DOMAIN Replies' : i < j /\ ReturnsIn(i, e)' /\ ReturnsIn(j, e)'
                                              => Replies'[i].seqnum < Replies'[j].seqnum
             /\ \A i \in DOMAIN Replies', k \in DOMAIN inCmds'[e] :
                  ReturnsIn(i, e)' => Replies'[i].seqnum < inCmds'[e][k].seqnum
             /\ \A k, l \in DOMAIN inCmds'[e] :
                  k < l => inCmds'[e][k].seqnum < inCmds'[e][l].seqnum
  <2>1. \A i, j \in DOMAIN Replies' : i < j /\ ReturnsIn(i, e)' /\ ReturnsIn(j, e)'
                                      => Replies'[i].seqnum < Replies'[j].seqnum
    BY <1>2 DEF InOrder
  <2>2. \A i \in DOMAIN Replies', k \in DOMAIN inCmds'[e] :
          ReturnsIn(i, e)' => Replies'[i].seqnum < inCmds'[e][k].seqnum
    BY <1>2 DEF InOrder, Thinned
  <2>3. \A k, l \in DOMAIN inCmds'[e] :
          k < l => inCmds'[e][k].seqnum < inCmds'[e][l].seqnum
    BY DEF InOrder, Thinned
  <2> QED
    BY <2>1, <2>2, <2>3
<1> QED
  BY <1>1, <1>3 DEF InOrder

(* A command that is handled and has to wait is the youngest of all.       *)
LEMMA OrderQueues ==
  ASSUME TypeOK, TypeOK', UrbInv, WaitingShape, InOrder, [Next]_queues,
         NEW cmd \in Command, SubmitIn(cmd), cmd.seqnum = Handled + 1, cmd.ep \in Endpoints,
         UNCHANGED Replies
  PROVE  WaitingShape' /\ InOrder'
<1>0. Handled \in Nat /\ IsTransfer(cmd) /\ cmd.direction = "In"
  BY Domains DEF UrbInv, LineInv, InLine, SubmitIn
<1>1. PICK e \in Endpoints : e = cmd.ep
  OBVIOUS
<1>2. Grown(inCmds[e], cmd, inCmds'[e]) /\ \A f \in Endpoints \ {e} : inCmds'[f] = inCmds[f]
  <2>1. inCmds[e] \in Seq(Command)
    BY DEF TypeOK
  <2>2. inCmds'[e] = Append(inCmds[e], cmd) /\ \A f \in Endpoints \ {e} : inCmds'[f] = inCmds[f]
    BY <1>1 DEF SubmitIn, TypeOK
  <2> QED
    BY <2>1, <2>2, GrownBy
<1> DEFINE last == Len(inCmds[e]) + 1
<1>3. ASSUME NEW f \in Endpoints, NEW k \in DOMAIN inCmds'[f]
      PROVE  \/ k \in DOMAIN inCmds[f] /\ inCmds'[f][k] = inCmds[f][k] /\ (f = e => k < last)
             \/ f = e /\ k = last /\ inCmds'[f][k] = cmd
  <2>1. CASE f # e
    BY <1>2, <1>3, <2>1
  <2>2. CASE f = e
    <3>1. /\ DOMAIN inCmds'[e] = 1 .. last /\ inCmds'[e][last] = cmd
          /\ \A i \in DOMAIN inCmds[e] : inCmds'[e][i] = inCmds[e][i]
      BY <1>2 DEF Grown
    <3>2. DOMAIN inCmds[e] = 1 .. last - 1 /\ last \in Nat
      BY Domains
    <3>3. k \in 1 .. last
      BY <1>3, <2>2, <3>1
    <3> HIDE DEF last
    <3>4. k = last \/ (k \in 1 .. last - 1 /\ k < last)
      BY <3>2, <3>3
    <3> QED
      BY <2>2, <3>1, <3>2, <3>4
  <2> QED
    BY <2>1, <2>2
<1> HIDE DEF last
<1>4. \A f \in Endpoints : \A k \in DOMAIN inCmds[f] : inCmds[f][k].seqnum < cmd.seqnum
  BY <1>0 DEF UrbInv, LineInv, WaitingOK
<1>5. \A i \in DOMAIN Replies : Replies[i].seqnum < cmd.seqnum
  BY <1>0 DEF UrbInv, LineInv, RepliesOK
<1>6. WaitingShape'
  BY <1>0, <1>1, <1>3 DEF WaitingShape
<1>7. \A f : \A i \in DOMAIN Replies' : ReturnsIn(i, f)' => ReturnsIn(i, f)
  BY ReturnsStay
<1>8. last \in Nat
  BY Domains DEF last
<1>9. ASSUME NEW f \in Endpoints, NEW k \in DOMAIN inCmds'[f], NEW l \in DOMAIN inCmds'[f], k < l
      PROVE  inCmds'[f][k].seqnum < inCmds'[f][l].seqnum
  <2>1. CASE f = e /\ k = last
    <3>1. l < last \/ l = last
      BY <1>3, <2>1
    <3>2. l \in Int
      BY <1>2, <2>1, Domains DEF Grown
    <3> QED
      BY <1>8, <1>9, <2>1, <3>1, <3>2
  <2>2. CASE ~(f = e /\ k = last)
    <3>1. k \in DOMAIN inCmds[f] /\ inCmds'[f][k] = inCmds[f][k]
      BY <1>3, <2>2
    <3> QED
      BY <1>3, <1>4, <1>9, <3>1 DEF InOrder
  <2> QED
    BY <2>1, <2>2
<1>10. ASSUME NEW f \in Endpoints, NEW i \in DOMAIN Replies', NEW k \in DOMAIN inCmds'[f],
              ReturnsIn(i, f)'
       PROVE  Replies'[i].seqnum < inCmds'[f][k].seqnum
  <2>1. i \in DOMAIN Replies /\ ReturnsIn(i, f) /\ Replies'[i] = Replies[i]
    BY <1>7, <1>10
  <2> QED
    BY <1>3, <1>5, <2>1 DEF InOrder
<1>11. ASSUME NEW f \in Endpoints, NEW i \in DOMAIN Replies', NEW j \in DOMAIN Replies', i < j,
              ReturnsIn(i, f)', ReturnsIn(j, f)'
       PROVE  Replies'[i].seqnum < Replies'[j].seqnum
  BY <1>7, <1>11 DEF InOrder
<1> QED
  BY <1>6, <1>9, <1>10, <1>11 DEF InOrder

(* The first waiting command is answered.                                  *)
LEMMA OrderSends ==
  ASSUME TypeOK, TypeOK', UrbInv, WaitingShape, InOrder, [Next]_queues,
         NEW e \in Endpoints, inCmds[e] # <<>>, inCmds' = [inCmds EXCEPT ![e] = Tail(@)],
         NEW reply \in Reply, Replies' = Append(Replies, reply),
         reply.seqnum = Head(inCmds[e]).seqnum, reply.ep = e
  PROVE  WaitingShape' /\ InOrder'
<1>1. /\ Drops(inCmds[e], 1, Tail(inCmds[e])) /\ 1 \in DOMAIN inCmds[e]
      /\ Head(inCmds[e]) = inCmds[e][1]
  BY TailDrops DEF TypeOK
<1>2. Thinned
  <2>1. inCmds' = [inCmds EXCEPT ![e] = Tail(inCmds[e])]
    OBVIOUS
  <2> QED
    BY <1>1, <2>1, DropThins
<1>3. Grown(Replies, reply, Replies')
  BY Domains, GrownBy
<1>4. PICK last \in Nat : last = Len(Replies) + 1
  BY Domains
<1>5. ASSUME NEW i \in DOMAIN Replies'
      PROVE  \/ i \in DOMAIN Replies /\ i < last /\ Replies'[i] = Replies[i]
             \/ i = last /\ Replies'[i] = reply
  <2>1. /\ DOMAIN Replies' = 1 .. last /\ Replies'[last] = reply /\ DOMAIN Replies = 1 .. last - 1
        /\ \A k \in DOMAIN Replies : Replies'[k] = Replies[k]
    BY <1>3, <1>4, Domains DEF Grown
  <2>2. i = last \/ (i \in 1 .. last - 1 /\ i < last)
    BY <1>4, <1>5, <2>1
  <2> QED
    BY <2>1, <2>2
<1>6. ASSUME NEW f \in Endpoints, NEW i \in DOMAIN Replies', ReturnsIn(i, f)'
      PROVE  \/ i \in DOMAIN Replies /\ i < last /\ Replies'[i] = Replies[i] /\ ReturnsIn(i, f)
             \/ i = last /\ Replies'[i] = reply /\ f = e
  BY <1>5, <1>6, ReturnsStay DEF ReturnsIn
<1>7. \A k \in DOMAIN inCmds'[e] : reply.seqnum < inCmds'[e][k].seqnum
  <2> SUFFICES ASSUME NEW k \in DOMAIN inCmds'[e] PROVE reply.seqnum < inCmds'[e][k].seqnum
    OBVIOUS
  <2>1. PICK rest : rest = inCmds'[e] /\ Drops(inCmds[e], 1, rest)
    BY <1>1 DEF TypeOK
  <2>2. k \in 1 .. Len(inCmds[e]) - 1 /\ inCmds'[e][k] = inCmds[e][k + 1]
    <3>1. k \in 1 .. Len(inCmds[e]) - 1 /\ Len(inCmds[e]) \in Nat
      BY <2>1, Domains DEF Drops
    <3>2. rest[k] = inCmds[e][IF k < 1 THEN k ELSE k + 1]
      BY <2>1, <3>1 DEF Drops
    <3> QED
      BY <2>1, <3>1, <3>2
  <2>3. k + 1 \in DOMAIN inCmds[e] /\ 1 < k + 1
    BY <2>2, Domains, SMTT(30)
  <2> QED
    BY <1>1, <2>2, <2>3 DEF InOrder
<1>8. WaitingShape'
  BY <1>2 DEF WaitingShape, Thinned
<1>9. ASSUME NEW f \in Endpoints, NEW i \in DOMAIN Replies', NEW j \in DOMAIN Replies', i < j,
             ReturnsIn(i, f)', ReturnsIn(j, f)'
      PROVE  Replies'[i].seqnum < Replies'[j].seqnum
  <2>1. i \in DOMAIN Replies /\ Replies'[i] = Replies[i] /\ ReturnsIn(i, f)
    BY <1>4, <1>6, <1>9
  <2>2. CASE j \in DOMAIN Replies /\ Replies'[j] = Replies[j] /\ ReturnsIn(j, f)
    BY <1>9, <2>1, <2>2 DEF InOrder
  <2>3. CASE j = last /\ Replies'[j] = reply /\ f = e
    BY <1>1, <2>1, <2>3 DEF InOrder
  <2> QED
    BY <1>6, <1>9, <2>2, <2>3
<1>10. ASSUME NEW f \in Endpoints, NEW i \in DOMAIN Replies', NEW k \in DOMAIN inCmds'[f],
              ReturnsIn(i, f)'
       PROVE  Replies'[i].seqnum < inCmds'[f][k].seqnum
  <2>1. CASE i \in DOMAIN Replies /\ Replies'[i] = Replies[i] /\ ReturnsIn(i, f)
    BY <1>2, <2>1 DEF InOrder, Thinned
  <2>2. CASE i = last /\ Replies'[i] = reply /\ f = e
    BY <1>7, <2>2
  <2> QED
    BY <1>6, <1>10, <2>1, <2>2
<1>11. \A f \in Endpoints : \A k, l \in DOMAIN inCmds'[f] :
         k < l => inCmds'[f][k].seqnum < inCmds'[f][l].seqnum
  BY <1>2 DEF InOrder, Thinned
<1> QED
  BY <1>8, <1>9, <1>10, <1>11 DEF InOrder

(***************************************************************************)
(* Every step that queues a reply is of one of two kinds: the answer to    *)
(* the command that is handled, and the data sent for the first of the     *)
(* commands that wait.                                                     *)
(***************************************************************************)
AnswerStep ==
  \E cmd \in Command, reply \in Reply :
    /\ cmd.seqnum = Handled + 1 /\ cmd = issued[Handled + 1] /\ Handled + 1 \in DOMAIN issued
    /\ Answers(cmd, reply) /\ Replies' = Append(Replies, reply)
    /\ inCmds' = inCmds \/ Thinned
    /\ UNCHANGED <<issued, inData, written>>

QueueStep ==
  \E cmd \in Command :
    /\ cmd.seqnum = Handled + 1 /\ SubmitIn(cmd) /\ cmd.ep \in Endpoints
    /\ UNCHANGED <<issued, Replies, inData, written>>

(* A reply with the first bytes that wait at e, as many as were asked for. *)
SendStep ==
  \E e \in Endpoints, reply \in Reply, len \in Nat :
    LET cmd == Head(inCmds[e])
        d   == Head(inData[e])
    IN  /\ inCmds[e] # <<>> /\ inData[e] # <<>> /\ cmd \in Command /\ d \in Data
        /\ len <= cmd.length /\ len <= d.len - d.off
        /\ reply = ReplyTo(cmd, [kind |-> "write", at |-> d.pos + d.off], len, 0)
        /\ Replies' = Append(Replies, reply)
        /\ inCmds' = [inCmds EXCEPT ![e] = Tail(@)]
        /\ inData' = [inData EXCEPT ![e] = Advanced(@, len)]
        /\ UNCHANGED <<issued, written>>

WriteStep ==
  /\ \E e \in Endpoints, len \in Nat : Enqueue(e, len)
  /\ UNCHANGED <<issued, Replies>>

LEMMA HandleKinds ==
  ASSUME TypeOK, TypeOK', UrbInv, UnlinksOut, Handle
  PROVE  \/ AnswerStep \/ QueueStep
         \/ UNCHANGED <<Replies, inCmds, inData, written, issued>>
<1>1. /\ cmds # <<>> /\ cmds' = Tail(cmds) /\ UNCHANGED <<hostVars, handVars, sent, dataVars>>
  BY DEF Handle
<1>2. /\ Head(cmds) = issued[Handled + 1] /\ Handled + 1 \in DOMAIN issued
      /\ Head(cmds) \in Command
  BY <1>1, LineMoves, HeadTailProperties DEF UrbInv, LineInv, handVars, TypeOK
<1>3. PICK cmd \in Command : cmd = Head(cmds)
  BY <1>2
<1>4. cmd.seqnum = Handled + 1 /\ (IsUnlink(cmd) => cmd.direction = "Out")
  BY <1>2, <1>3 DEF UrbInv, LineInv, LogOK, UnlinksOut
<1>5. CASE UNCHANGED queueVars
  BY <1>1, <1>5 DEF hostVars, handVars, dataVars, queueVars, Replies
<1>6. CASE SubmitIn(cmd) /\ Accept(cmd)
  <2>1. UNCHANGED <<issued, Replies, inData, written>>
    BY <1>1, <1>6 DEF SubmitIn, hostVars, handVars, dataVars, Replies
  <2>2. cmd.ep \in Endpoints
    BY <1>6, AcceptedIn
  <2> QED
    BY <1>4, <1>6, <2>1, <2>2 DEF QueueStep
<1>7. ASSUME NEW reply, Queue(reply), Answers(cmd, reply), Accept(cmd), ~SubmitIn(cmd),
             UNCHANGED inData
      PROVE  AnswerStep
  <2>1. reply \in Reply
    BY <1>7, LastOf DEF Queue, TypeOK
  <2>2. Replies' = Append(Replies, reply)
    BY <1>1, <1>7, RepliesGrow DEF handVars
  <2>3. inCmds' = inCmds \/ Thinned
    <3>1. CASE SubmitStandard(cmd) \/ SubmitOut(cmd)
      BY <3>1 DEF SubmitStandard, SubmitOut
    <3>2. CASE Unlink(cmd)
      <4>1. ASSUME NEW e \in Endpoints, NEW i \in DOMAIN inCmds[e],
                   inCmds' = [inCmds EXCEPT ![e] = RemoveAt(@, i)]
            PROVE  Thinned
        <5>1. Drops(inCmds[e], i, RemoveAt(inCmds[e], i))
          BY RemoveAtDrops DEF TypeOK
        <5>2. inCmds' = [inCmds EXCEPT ![e] = RemoveAt(inCmds[e], i)]
          BY <4>1
        <5> QED
          BY <5>1, <5>2, DropThins
      <4> QED
        BY <3>2, <4>1 DEF Unlink
    <3> QED
      BY <1>7, <3>1, <3>2 DEF Accept
  <2> QED
    BY <1>1, <1>2, <1>3, <1>4, <1>7, <2>1, <2>2, <2>3 DEF AnswerStep, hostVars, dataVars
<1>8. CASE Accept(cmd)
  <2>1. UNCHANGED inData /\ (SubmitIn(cmd) \/ \E reply : Queue(reply) /\ Answers(cmd, reply))
    BY <1>4, <1>8, AcceptAnswers
  <2> QED
    BY <1>6, <1>7, <1>8, <2>1
<1> QED
  BY <1>3, <1>5, <1>8 DEF Handle

LEMMA SendKinds ==
  ASSUME TypeOK, TypeOK', SendOne, UNCHANGED <<hostVars, handVars, sent, dataVars>>
  PROVE  SendStep
<1> DEFINE e   == serving
           cmd == Head(inCmds[e])
           d   == Head(inData[e])
           len == AtMost(d.len - d.off, cmd.length)
           reply == ReplyTo(cmd, [kind |-> "write", at |-> d.pos + d.off], len, 0)
<1>1. e \in Endpoints /\ inCmds[e] # <<>> /\ inData[e] # <<>>
  BY DEF SendOne, Served, TypeOK
<1>2. cmd \in Command /\ d \in Data
  BY <1>1, HeadTailProperties DEF TypeOK
<1>3. d.len - d.off \in Nat /\ cmd.length \in Nat
  BY <1>2, SMTT(30) DEF Command, Data
<1>4. len \in Nat /\ len <= cmd.length /\ len <= d.len - d.off
  BY <1>3, AtMostNat
<1>5. Queue(reply)
  BY DEF SendOne
<1>6. reply \in Reply /\ Replies' = Append(Replies, reply)
  <2> HIDE DEF reply
  <2> QED
    BY <1>5, LastOf, RepliesGrow DEF Queue, TypeOK, handVars
<1>7. /\ inCmds' = [inCmds EXCEPT ![e] = Tail(@)]
      /\ inData' = [inData EXCEPT ![e] = Advanced(@, len)]
  BY DEF SendOne
<1> HIDE DEF len
<1> QED
  BY <1>1, <1>2, <1>4, <1>6, <1>7 DEF SendStep, hostVars, dataVars

LEMMA StepKinds ==
  ASSUME TypeOK, TypeOK', UrbInv, UnlinksOut, [Next]_queues
  PROVE  \/ AnswerStep \/ QueueStep \/ SendStep
         \/ WriteStep /\ UNCHANGED inCmds
         \/ UNCHANGED <<Replies, inCmds, inData, written>>
<1>1. CASE Host
  BY <1>1 DEF Host, handVars, queueVars, dataVars, Replies
<1>2. CASE Push
  BY <1>2, PushMoves DEF Push, queueVars, dataVars
<1>3. CASE Handle
  BY <1>3, HandleKinds
<1>4. CASE Send
  <2>1. CASE SendOne
    BY <1>4, <2>1, SendKinds DEF Send
  <2>2. CASE SendDone
    BY <1>4, <2>2 DEF Send, SendDone, handVars, dataVars, Replies
  <2> QED
    BY <1>4, <2>1, <2>2 DEF Send
<1>5. CASE Write
  <2>1. \A e \in WriteEps, len \in WriteLens : e \in Endpoints /\ len \in Nat
    BY HostAssumption
  <2>2. UNCHANGED <<issued, Replies, inCmds>>
    BY <1>5, QuietMoves DEF QuietStep
  <2> QED
    BY <1>5, <2>1, <2>2 DEF Write, WriteStep
<1>6. CASE Receive \/ Take \/ Transmit \/ Fail \/ UNCHANGED queues
  BY <1>6, QuietMoves DEF QuietStep, Receive, Take, Transmit, Fail, queues, queueVars, dataVars
<1> QED
  BY <1>1, <1>2, <1>3, <1>4, <1>5, <1>6 DEF Next

LEMMA UnlinksOutStep ==
  ASSUME TypeOK, TypeOK', UnlinksOut, [Next]_queues
  PROVE  UnlinksOut'
<1>1. CASE Host
  <2>1. PICK cmd : Issue(cmd) /\ (IsUnlink(cmd) => cmd.direction = "Out")
    <3>1. \A s \in Shapes : s.command # "Unlink"
      BY ShapesAssumption
    <3>2. \A s \in Shapes : ~IsUnlink(SubmitCmd(Len(issued) + 1, s))
      BY <3>1 DEF SubmitCmd, IsUnlink
    <3>3. \A t, e : UnlinkCmd(Len(issued) + 1, t, e).direction = "Out"
      BY DEF UnlinkCmd
    <3>4. CASE HostSubmit
      BY <3>2, <3>4 DEF HostSubmit
    <3>5. CASE HostUnlink
      BY <3>3, <3>5 DEF HostUnlink
    <3> QED
      BY <1>1, <3>4, <3>5 DEF Host
  <2>2. Grown(issued, cmd, issued')
    BY <2>1, LastOf, GrownBy DEF Issue, TypeOK
  <2>3. \A n \in DOMAIN issued' : n \in DOMAIN issued \/ n = Len(issued) + 1
    BY <2>2, Domains DEF Grown
  <2> QED
    BY <2>1, <2>2, <2>3 DEF UnlinksOut, Grown
<1>2. CASE UNCHANGED issued
  BY <1>2 DEF UnlinksOut
<1>3. CASE ~Host
  BY <1>2, <1>3, QuietMoves, PushMoves DEF Next, QuietStep, Handle, Send, hostVars
<1> QED
  BY <1>1, <1>3

LEMMA OrderStep ==
  ASSUME TypeOK, TypeOK', UrbInv, OrderInv, [Next]_queues
  PROVE  OrderInv'
<1>0. UnlinksOut /\ WaitingShape /\ InOrder /\ UnlinksOut'
  BY UnlinksOutStep DEF OrderInv
<1>1. CASE AnswerStep
  <2>1. PICK cmd \in Command, reply \in Reply :
          /\ cmd = issued[Handled + 1] /\ cmd.seqnum = Handled + 1
          /\ Answers(cmd, reply) /\ Replies' = Append(Replies, reply)
          /\ inCmds' = inCmds \/ Thinned
          /\ UNCHANGED issued
    BY <1>1 DEF AnswerStep
  <2>2. Grown(Replies, reply, Replies')
    BY <2>1, Domains, GrownBy
  <2>3. Thinned
    BY <2>1 DEF Thinned
  <2>4. ASSUME NEW e, NEW i \in DOMAIN Replies', ReturnsIn(i, e)'
        PROVE  i \in DOMAIN Replies /\ Replies'[i] = Replies[i]
    <3>1. i \in DOMAIN Replies \/ i = Len(Replies) + 1
      BY <2>2, Domains DEF Grown
    <3>2. CASE i = Len(Replies) + 1
      BY <2>1, <2>2, <2>4, <3>2 DEF ReturnsIn, Answers, Grown
    <3> QED
      BY <2>2, <3>1, <3>2 DEF Grown
  <2> QED
    BY <1>0, <2>3, <2>4, OrderThins DEF OrderInv
<1>2. CASE QueueStep
  BY <1>0, <1>2, OrderQueues DEF QueueStep, OrderInv
<1>3. CASE SendStep
  <2>1. PICK e \in Endpoints, reply \in Reply, len \in Nat :
          /\ inCmds[e] # <<>> /\ inCmds' = [inCmds EXCEPT ![e] = Tail(@)]
          /\ reply = ReplyTo(Head(inCmds[e]), [kind |-> "write",
                             at |-> Head(inData[e]).pos + Head(inData[e]).off], len, 0)
          /\ Replies' = Append(Replies, reply)
    BY <1>3 DEF SendStep
  <2>2. reply.seqnum = Head(inCmds[e]).seqnum /\ reply.ep = Head(inCmds[e]).ep
    BY <2>1 DEF ReplyTo
  <2>3. Head(inCmds[e]).ep = e
    BY <1>0, <2>1, TailDrops DEF WaitingShape, TypeOK
  <2> QED
    BY <1>0, <2>1, <2>2, <2>3, OrderSends DEF OrderInv
<1>4. CASE UNCHANGED <<Replies, inCmds>>
  <2>1. Thinned
    BY <1>4 DEF Thinned
  <2> QED
    BY <1>0, <1>4, <2>1, OrderThins DEF OrderInv
<1> QED
  BY <1>0, <1>1, <1>2, <1>3, <1>4, StepKinds DEF WriteStep

(* The IN transfers of an endpoint come back in the order in which the     *)
(* host submitted them, for any number of endpoints, transfers, unlinks    *)
(* and writes (_handleCmdSubmitEPXIn, _sendDataForInEndpoint, and the      *)
(* erase in _handleCmdUnlink, 660-672).                                    *)
THEOREM TransfersInOrder == Spec => []InOrder
<1>1. Init => UrbInv /\ OrderInv
  BY UrbInit, OrderInit
<1>2. TypeOK /\ TypeOK' /\ UrbInv /\ OrderInv /\ [Next]_queues => UrbInv' /\ OrderInv'
  BY UrbStep, OrderStep
<1>3. OrderInv => InOrder
  BY DEF OrderInv
<1>4. Spec => []TypeOK
  BY TypeCorrect
<1> QED
  BY <1>1, <1>2, <1>3, <1>4, PTL DEF Spec

(***************************************************************************)
(* The stream.  The data that wait at an endpoint are the last bytes       *)
(* written to it, without a gap, and only the first has been begun.        *)
(***************************************************************************)
Joined(data, end) ==
  \A k \in DOMAIN data :
    /\ data[k].pos + data[k].len = IF k = Len(data) THEN end ELSE data[k + 1].pos
    /\ k > 1 => data[k].off = 0

(* The first byte that was not sent.                                       *)
Begins(data, end) == IF data = <<>> THEN end ELSE data[1].pos + data[1].off

DataJoined == \A e \in Endpoints : Joined(inData[e], written[e])
StreamInv  == DataJoined /\ InStreamIntact

LEMMA Between ==
  ASSUME NEW n \in Int, NEW k \in 1 .. n
  PROVE  k = n \/ (k + 1 \in 1 .. n /\ k + 1 # 1)
OBVIOUS

LEMMA JoinedFields ==
  ASSUME NEW data \in Seq(Data), NEW k \in DOMAIN data
  PROVE  /\ data[k].pos \in Nat /\ data[k].len \in Nat /\ data[k].off \in Nat
         /\ data[k].off <= data[k].len /\ data[k] \in Data
<1>1. data[k] \in Data
  BY ElementOfSeq, LenProperties
<1> QED
  BY <1>1 DEF Data

(* Sending len bytes moves the front by len, and leaves no gap.            *)
LEMMA AdvanceJoined ==
  ASSUME NEW data \in Seq(Data), data # <<>>, NEW end \in Nat, NEW len \in Nat,
         len <= Head(data).len - Head(data).off, Joined(data, end)
  PROVE  /\ Joined(Advanced(data, len), end)
         /\ Begins(Advanced(data, len), end) = Begins(data, end) + len
<1> DEFINE n == Len(data)
           d == Head(data)
<1>1. n \in Nat \ {0} /\ DOMAIN data = 1 .. n /\ d = data[1]
  BY EmptySeq, LenProperties
<1>2. d.pos \in Nat /\ d.len \in Nat /\ d.off \in Nat /\ d \in Data
  BY <1>1, JoinedFields
<1>3. CASE d.off + len = d.len
  <2>1. PICK rest : rest = Tail(data)
    OBVIOUS
  <2>2. Advanced(data, len) = rest
    BY <1>3, <2>1 DEF Advanced
  <2>3. /\ rest \in Seq(Data) /\ Len(rest) = n - 1 /\ DOMAIN rest = 1 .. n - 1
        /\ \A k \in 1 .. n - 1 : rest[k] = data[k + 1]
    BY <1>1, <2>1, HeadTailProperties, LenProperties
  <2>4. Joined(rest, end)
    <3> SUFFICES ASSUME NEW k \in 1 .. n - 1
                 PROVE  /\ rest[k].pos + rest[k].len = IF k = n - 1 THEN end ELSE rest[k + 1].pos
                        /\ k > 1 => rest[k].off = 0
      BY <2>3 DEF Joined
    <3>1. k + 1 \in 1 .. n /\ k + 1 > 1 /\ (k + 1 = n <=> k = n - 1) /\ k \in Nat
      BY <1>1
    <3>2. /\ data[k + 1].pos + data[k + 1].len = IF k + 1 = n THEN end ELSE data[(k + 1) + 1].pos
          /\ data[k + 1].off = 0
      BY <1>1, <3>1 DEF Joined
    <3> HIDE DEF n
    <3>3. k = n - 1 \/ k + 1 \in 1 .. n - 1
      BY <1>1, Between
    <3> QED
      BY <2>3, <3>1, <3>2, <3>3
  <2>5. Begins(rest, end) = Begins(data, end) + len
    <3>1. Begins(data, end) = d.pos + d.off
      BY <1>1 DEF Begins
    <3>2. data[1].pos + data[1].len = IF 1 = n THEN end ELSE data[2].pos
      BY <1>1 DEF Joined
    <3>3. CASE n = 1
      <4>1. rest = <<>>
        BY <2>3, <3>3, EmptySeq
      <4> QED
        BY <1>1, <1>2, <1>3, <3>1, <3>2, <3>3, <4>1 DEF Begins
    <3>4. CASE n # 1
      <4>1. n - 1 # 0 /\ 1 \in 1 .. n - 1 /\ 2 \in 1 .. n
        BY <1>1, <3>4
      <4>2. rest # <<>> /\ rest[1] = data[2] /\ data[2].off = 0
        BY <1>1, <2>3, <4>1, EmptySeq DEF Joined
      <4>3. data[2].pos \in Nat
        BY <1>1, <4>1, JoinedFields
      <4> QED
        BY <1>1, <1>2, <1>3, <3>1, <3>2, <3>4, <4>2, <4>3, SMTT(30) DEF Begins
    <3> QED
      BY <3>3, <3>4
  <2> QED
    BY <2>2, <2>4, <2>5
<1>4. CASE d.off + len # d.len
  <2>1. PICK first : first = [d EXCEPT !.off = d.off + len]
    OBVIOUS
  <2>2. first.pos = d.pos /\ first.len = d.len /\ first.off = d.off + len
    BY <1>2, <2>1 DEF Data
  <2>3. PICK rest : rest = [data EXCEPT ![1] = first]
    OBVIOUS
  <2>4. Advanced(data, len) = rest
    BY <1>4, <2>1, <2>3 DEF Advanced
  <2>5. /\ DOMAIN rest = 1 .. n /\ rest[1] = first
        /\ \A k \in 1 .. n : k # 1 => rest[k] = data[k]
    BY <1>1, <2>3
  <2>6. rest \in Seq(Data) /\ Len(rest) = n
    BY <1>1, <2>4, <2>5, AdvancedType, LenProperties
  <2>7. rest # <<>>
    BY <1>1, <2>6, EmptySeq
  <2>8. Joined(rest, end)
    <3> SUFFICES ASSUME NEW k \in 1 .. n
                 PROVE  /\ rest[k].pos + rest[k].len = IF k = n THEN end ELSE rest[k + 1].pos
                        /\ k > 1 => rest[k].off = 0
      BY <2>5, <2>6 DEF Joined
    <3>1. /\ data[k].pos + data[k].len = IF k = n THEN end ELSE data[k + 1].pos
          /\ k > 1 => data[k].off = 0
      BY <1>1 DEF Joined
    <3>2. rest[k].pos = data[k].pos /\ rest[k].len = data[k].len
      BY <1>1, <2>2, <2>5
    <3> HIDE DEF n
    <3>3. k = n \/ (k + 1 \in 1 .. n /\ k + 1 # 1)
      BY <1>1, Between
    <3>4. k = n \/ rest[k + 1] = data[k + 1]
      BY <2>5, <3>3
    <3>5. k > 1 => rest[k] = data[k]
      BY <1>1, <2>5
    <3> QED
      BY <3>1, <3>2, <3>4, <3>5
  <2>9. Begins(rest, end) = Begins(data, end) + len
    BY <1>1, <1>2, <2>2, <2>5, <2>7 DEF Begins
  <2> QED
    BY <2>4, <2>8, <2>9
<1> QED
  BY <1>3, <1>4

(* A write adds to the end and does not move the front.                    *)
LEMMA AppendJoined ==
  ASSUME NEW data \in Seq(Data), NEW end \in Nat, NEW len \in Nat, Joined(data, end)
  PROVE  LET more == Append(data, [pos |-> end, len |-> len, off |-> 0])
         IN  Joined(more, end + len) /\ Begins(more, end + len) = Begins(data, end)
<1> DEFINE n == Len(data)
<1>1. PICK d : d = [pos |-> end, len |-> len, off |-> 0]
  OBVIOUS
<1>2. d \in Data /\ d.pos = end /\ d.len = len /\ d.off = 0
  BY <1>1 DEF Data
<1>3. PICK more : more = Append(data, d)
  OBVIOUS
<1>4. /\ more \in Seq(Data) /\ Len(more) = n + 1 /\ DOMAIN more = 1 .. n + 1 /\ more[n + 1] = d
      /\ \A k \in 1 .. n : more[k] = data[k]
  BY <1>2, <1>3, AppendProperties, LenProperties
<1>5. n \in Nat /\ DOMAIN data = 1 .. n
  BY LenProperties
<1>6. Joined(more, end + len)
  <2> SUFFICES ASSUME NEW k \in 1 .. n + 1
               PROVE  /\ more[k].pos + more[k].len = IF k = n + 1 THEN end + len ELSE more[k + 1].pos
                      /\ k > 1 => more[k].off = 0
    BY <1>4 DEF Joined
  <2>1. CASE k = n + 1
    BY <1>2, <1>4, <1>5, <2>1
  <2>2. CASE k # n + 1
    <3>1. k \in 1 .. n
      BY <1>5, <2>2
    <3>4. k = n \/ k + 1 \in 1 .. n
      <4> HIDE DEF n
      <4> QED
        BY <1>5, <3>1, Between
    <3>2. data[k].pos + data[k].len = (IF k = n THEN end ELSE data[k + 1].pos)
          /\ (k > 1 => data[k].off = 0)
      BY <1>5, <3>1 DEF Joined
    <3>3. more[k] = data[k] /\ more[k + 1] = IF k = n THEN d ELSE data[k + 1]
      BY <1>4, <3>1, <3>4
    <3> QED
      BY <1>2, <2>2, <3>2, <3>3
  <2> QED
    BY <2>1, <2>2
<1>7. Begins(more, end + len) = Begins(data, end)
  <2>1. more # <<>>
    BY <1>4, <1>5, EmptySeq
  <2>2. CASE data = <<>>
    <3>1. n = 0
      BY <2>2, Len(<<>>) = 0
    <3>2. more[1] = d
      BY <1>4, <3>1
    <3>3. Begins(more, end + len) = d.pos + d.off /\ Begins(data, end) = end
      BY <2>1, <2>2, <3>2 DEF Begins
    <3> QED
      BY <1>2, <3>3
  <2>3. CASE data # <<>>
    <3>1. n # 0
      BY <2>3, EmptySeq
    <3>2. more[1] = data[1]
      BY <1>4, <1>5, <3>1
    <3> QED
      BY <2>1, <2>3, <3>2 DEF Begins
  <2> QED
    BY <2>2, <2>3
<1> QED
  BY <1>1, <1>3, <1>6, <1>7

LEMMA PositionBegins ==
  ASSUME TypeOK, NEW e \in Endpoints
  PROVE  Position(e) = Begins(inData[e], written[e]) /\ written[e] \in Nat /\ inData[e] \in Seq(Data)
BY TailDrops DEF Position, Begins, TypeOK

LEMMA StreamInit == Init => StreamInv
<1> SUFFICES ASSUME Init PROVE StreamInv
  OBVIOUS
<1>1. Replies = <<>> /\ Len(Replies) = 0 /\ \A e \in Endpoints : inData[e] = <<>> /\ written[e] = 0
  BY NothingYet, Len(<<>>) = 0 DEF Init
<1>2. DataJoined
  BY <1>1 DEF DataJoined, Joined
<1>3. \A e \in Endpoints : Reached(e, Len(Replies) + 1, Position(e))
  BY <1>1 DEF Reached, Position
<1> QED
  BY <1>1, <1>2, <1>3 DEF StreamInv, InStreamIntact

(* A new reply leaves what was reached before it as it was.                *)
LEMMA ReachedStays ==
  ASSUME TypeOK, NEW reply, Grown(Replies, reply, Replies')
  PROVE  /\ \A e : \A i \in 1 .. Len(Replies) : /\ Carries(i, e)' <=> Carries(i, e)
                                                /\ EndOf(i)' = EndOf(i)
                                                /\ Replies'[i] = Replies[i]
         /\ \A e, p : \A m \in 1 .. Len(Replies) + 1 : Reached(e, m, p) => Reached(e, m, p)'
<1>1. PICK n \in Nat : n = Len(Replies) /\ DOMAIN Replies = 1 .. n
  BY Domains
<1>2. \A e : \A i \in 1 .. n : /\ Carries(i, e)' <=> Carries(i, e)
                               /\ EndOf(i)' = EndOf(i) /\ Replies'[i] = Replies[i]
  BY <1>1 DEF Grown, Carries, EndOf
<1>3. ASSUME NEW e, NEW p, NEW m \in 1 .. n + 1, Reached(e, m, p)
      PROVE  Reached(e, m, p)'
  <2>1. \A i \in 1 .. m - 1 : i \in 1 .. n
    OBVIOUS
  <2>2. \A i \in 1 .. m - 1 : \A j \in i + 1 .. m - 1 : j \in 1 .. n
    OBVIOUS
  <2>3. CASE p = 0 /\ \A i \in 1 .. m - 1 : ~Carries(i, e)
    BY <1>2, <2>1, <2>3 DEF Reached
  <2>4. CASE \E i \in 1 .. m - 1 : /\ Carries(i, e) /\ EndOf(i) = p
                                   /\ \A j \in i + 1 .. m - 1 : ~Carries(j, e)
    <3>1. PICK i \in 1 .. m - 1 : /\ Carries(i, e) /\ EndOf(i) = p
                                  /\ \A j \in i + 1 .. m - 1 : ~Carries(j, e)
      BY <2>4
    <3>2. Carries(i, e)' /\ EndOf(i)' = p /\ \A j \in i + 1 .. m - 1 : ~Carries(j, e)'
      BY <1>2, <2>1, <2>2, <3>1
    <3> QED
      BY <3>2 DEF Reached
  <2> QED
    BY <1>3, <2>3, <2>4 DEF Reached
<1> QED
  BY <1>1, <1>2, <1>3

(* A reply that carries no data of e changes nothing for e; one that does  *)
(* moves e to its end.                                                     *)
LEMMA ReachedNext ==
  ASSUME TypeOK, NEW reply, Grown(Replies, reply, Replies'), NEW e, NEW n \in Nat,
         n = Len(Replies)
  PROVE  /\ ~Carries(n + 1, e)' => \A p : Reached(e, n + 1, p) => Reached(e, n + 2, p)'
         /\ Carries(n + 1, e)' => Reached(e, n + 2, EndOf(n + 1))'
<1>1. (n + 2) - 1 = n + 1 /\ (n + 1) - 1 = n /\ n + 1 \in 1 .. n + 1
  OBVIOUS
<1>2. ASSUME ~Carries(n + 1, e)', NEW p, Reached(e, n + 1, p)'
      PROVE  Reached(e, n + 2, p)'
  <2>2. \A i \in Int : \A j \in i .. n + 1 : j = n + 1 \/ j \in i .. n
    OBVIOUS
  <2>3. CASE p = 0 /\ \A i \in 1 .. n : ~Carries(i, e)'
    <3>1. \A i \in 1 .. n + 1 : ~Carries(i, e)'
      BY <1>2, <2>2, <2>3
    <3> QED
      BY <1>1, <2>3, <3>1 DEF Reached
  <2>4. CASE \E i \in 1 .. n : /\ Carries(i, e)' /\ EndOf(i)' = p
                               /\ \A j \in i + 1 .. n : ~Carries(j, e)'
    <3>1. PICK i \in 1 .. n : /\ Carries(i, e)' /\ EndOf(i)' = p
                              /\ \A j \in i + 1 .. n : ~Carries(j, e)'
      BY <2>4
    <3>2. \A j \in i + 1 .. n + 1 : ~Carries(j, e)'
      BY <1>2, <2>2, <3>1
    <3>3. i \in 1 .. n + 1
      OBVIOUS
    <3> QED
      BY <1>1, <3>1, <3>2, <3>3 DEF Reached
  <2> QED
    BY <1>1, <1>2, <2>3, <2>4 DEF Reached
<1>3. ASSUME Carries(n + 1, e)'
      PROVE  Reached(e, n + 2, EndOf(n + 1))'
  <2>1. \A j \in (n + 1) + 1 .. n + 1 : FALSE
    OBVIOUS
  <2> QED
    BY <1>1, <1>3, <2>1 DEF Reached
<1>4. \A p : Reached(e, n + 1, p) => Reached(e, n + 1, p)'
  BY <1>1, ReachedStays
<1> QED
  BY <1>2, <1>3, <1>4

LEMMA StreamGrows ==
  ASSUME TypeOK, TypeOK', InStreamIntact, NEW reply \in Reply, Replies' = Append(Replies, reply),
         \A e \in Endpoints :
           IF reply.payload.kind = "write" /\ reply.ep = e
             THEN reply.payload.at = Position(e) /\ Position(e)' = Position(e) + reply.length
             ELSE Position(e)' = Position(e)
  PROVE  InStreamIntact'
<1>1. PICK n \in Nat : n = Len(Replies) /\ DOMAIN Replies = 1 .. n
  BY Domains
<1>2. Grown(Replies, reply, Replies')
  BY Domains, GrownBy
<1>3. /\ Len(Replies') = n + 1 /\ DOMAIN Replies' = 1 .. n + 1 /\ Replies'[n + 1] = reply
      /\ Len(Replies') + 1 = n + 2
  BY <1>1, <1>2 DEF Grown
<1> SUFFICES ASSUME NEW e \in Endpoints
             PROVE  /\ \A i \in 1 .. n + 1 :
                         Carries(i, e)' => Reached(e, i, Replies[i].payload.at)'
                    /\ Reached(e, n + 2, Position(e))'
  BY <1>3 DEF InStreamIntact
<1>4. PICK p : p = Position(e) /\ Reached(e, n + 1, p)
  BY <1>1 DEF InStreamIntact
<1>5. Carries(n + 1, e)' <=> reply.payload.kind = "write" /\ reply.ep = e
  BY <1>3 DEF Carries
<1>6. ASSUME NEW i \in 1 .. n + 1, Carries(i, e)'
      PROVE  Reached(e, i, Replies[i].payload.at)'
  <2>1. CASE i \in 1 .. n
    <3>1. Carries(i, e) /\ Replies'[i] = Replies[i]
      BY <1>1, <1>2, <1>6, <2>1, ReachedStays
    <3>2. PICK q : q = Replies[i].payload.at /\ Reached(e, i, q)
      BY <1>1, <2>1, <3>1 DEF InStreamIntact
    <3>3. Reached(e, i, q)'
      BY <1>1, <1>2, <3>2, ReachedStays
    <3> QED
      BY <3>1, <3>2, <3>3
  <2>2. CASE i = n + 1
    <3>1. reply.payload.at = p
      BY <1>4, <1>5, <1>6, <2>2
    <3>2. Reached(e, n + 1, p)'
      <4>1. n + 1 \in 1 .. n + 1
        OBVIOUS
      <4> QED
        BY <1>1, <1>2, <1>4, <4>1, ReachedStays
    <3> QED
      BY <1>3, <2>2, <3>1, <3>2
  <2>3. i \in 1 .. n \/ i = n + 1
    OBVIOUS
  <2> QED
    BY <2>1, <2>2, <2>3
<1>7. Reached(e, n + 2, Position(e))'
  <2>1. CASE Carries(n + 1, e)'
    <3>1. Position(e)' = EndOf(n + 1)'
      BY <1>3, <1>5, <2>1 DEF EndOf
    <3>2. Reached(e, n + 2, EndOf(n + 1))'
      BY <1>1, <1>2, <2>1, ReachedNext
    <3> QED
      BY <3>1, <3>2
  <2>2. CASE ~Carries(n + 1, e)'
    <3>1. Position(e)' = p
      BY <1>4, <1>5, <2>2
    <3>2. Reached(e, n + 2, p)'
      BY <1>1, <1>2, <1>4, <2>2, ReachedNext
    <3> QED
      BY <3>1, <3>2
  <2> QED
    BY <2>1, <2>2
<1> QED
  BY <1>6, <1>7

LEMMA StreamStep ==
  ASSUME TypeOK, TypeOK', UrbInv, OrderInv, StreamInv, [Next]_queues
  PROVE  StreamInv'
<1>0. DataJoined /\ InStreamIntact /\ UnlinksOut /\ WaitingShape
  BY DEF StreamInv, OrderInv
<1>1. ASSUME UNCHANGED <<inData, written>>
      PROVE  DataJoined' /\ \A e \in Endpoints : Position(e)' = Position(e)
  BY <1>0, <1>1 DEF DataJoined, Position
<1>2. ASSUME UNCHANGED Replies, \A e \in Endpoints : Position(e)' = Position(e)
      PROVE  InStreamIntact'
  BY <1>0, <1>2 DEF InStreamIntact, Reached, Carries, EndOf
<1>3. CASE AnswerStep
  <2>1. PICK reply \in Reply :
          /\ reply.payload.kind # "write" /\ Replies' = Append(Replies, reply)
          /\ UNCHANGED <<inData, written>>
    BY <1>3 DEF AnswerStep, Answers
  <2>2. InStreamIntact'
    BY <1>0, <1>1, <2>1, StreamGrows
  <2> QED
    BY <1>1, <2>1, <2>2 DEF StreamInv
<1>4. CASE QueueStep \/ UNCHANGED <<Replies, inCmds, inData, written>>
  <2>1. UNCHANGED <<Replies, inData, written>>
    BY <1>4 DEF QueueStep
  <2> QED
    BY <1>1, <1>2, <2>1 DEF StreamInv
<1>5. CASE SendStep
  <2>1. PICK e \in Endpoints, reply \in Reply, len \in Nat, cmd \in Command, d \in Data :
          /\ cmd = Head(inCmds[e]) /\ d = Head(inData[e])
          /\ inCmds[e] # <<>> /\ inData[e] # <<>> /\ len <= d.len - d.off
          /\ reply = ReplyTo(cmd, [kind |-> "write", at |-> d.pos + d.off], len, 0)
          /\ Replies' = Append(Replies, reply)
          /\ inData' = [inData EXCEPT ![e] = Advanced(@, len)]
          /\ UNCHANGED written
    BY <1>5 DEF SendStep
  <2>2. cmd.ep = e /\ cmd.direction = "In" /\ IsSubmit(cmd)
    BY <1>0, <2>1, TailDrops DEF WaitingShape, TypeOK, IsTransfer
  <2>3. PICK data \in Seq(Data), end \in Nat : data = inData[e] /\ end = written[e]
    BY PositionBegins
  <2>4. Joined(data, end)
    BY <1>0, <2>3 DEF DataJoined
  <2>5. /\ Joined(Advanced(data, len), end)
        /\ Begins(Advanced(data, len), end) = Begins(data, end) + len
    BY <2>1, <2>3, <2>4, AdvanceJoined
  <2>6. /\ inData'[e] = Advanced(data, len) /\ written' = written
        /\ \A f \in Endpoints \ {e} : inData'[f] = inData[f]
    BY <2>1, <2>3 DEF TypeOK
  <2>7. DataJoined'
    BY <1>0, <2>3, <2>5, <2>6 DEF DataJoined
  <2>8. /\ Position(e) = d.pos + d.off
        /\ Position(e)' = Position(e) + len
        /\ \A f \in Endpoints \ {e} : Position(f)' = Position(f)
    <3>1. Position(e) = Begins(data, end)
      BY <2>3, PositionBegins
    <3>2. \A f \in Endpoints : Position(f)' = Begins(inData'[f], written'[f])
      BY PositionBegins, TailDrops DEF Position, Begins, TypeOK
    <3>3. Position(e) = d.pos + d.off
      BY <2>1 DEF Position
    <3>4. \A f \in Endpoints \ {e} : Position(f)' = Position(f)
      BY <2>6 DEF Position
    <3> QED
      BY <2>3, <2>5, <2>6, <3>1, <3>2, <3>3, <3>4
  <2>9. /\ reply.ep = e /\ reply.length = len
        /\ reply.payload = IF len > 0 THEN [kind |-> "write", at |-> d.pos + d.off] ELSE NoPayload
    BY <2>1, <2>2 DEF ReplyTo
  <2>10. /\ reply.payload.kind = "write" => reply.payload.at = Position(e)
         /\ reply.payload.kind # "write" => len = 0
    BY <2>8, <2>9 DEF NoPayload
  <2>11. Position(e) \in Int
    <3>1. data # <<>> /\ data[1] = d /\ 1 \in DOMAIN data
      BY <2>1, <2>3, TailDrops
    <3> QED
      BY <2>8, <3>1, JoinedFields
  <2>12. InStreamIntact'
    <3>1. ASSUME NEW f \in Endpoints
          PROVE  IF reply.payload.kind = "write" /\ reply.ep = f
                   THEN reply.payload.at = Position(f) /\ Position(f)' = Position(f) + reply.length
                   ELSE Position(f)' = Position(f)
      BY <2>8, <2>9, <2>10, <2>11
    <3> QED
      BY <1>0, <2>1, <3>1, StreamGrows
  <2> QED
    BY <2>7, <2>12 DEF StreamInv
<1>6. CASE WriteStep
  <2>1. PICK e \in Endpoints, len \in Nat : Enqueue(e, len)
    BY <1>6 DEF WriteStep
  <2>2. PICK data \in Seq(Data), end \in Nat : data = inData[e] /\ end = written[e]
    BY PositionBegins
  <2>3. PICK more : more = Append(data, [pos |-> end, len |-> len, off |-> 0])
    OBVIOUS
  <2>4. /\ inData'[e] = more /\ written'[e] = end + len
        /\ \A f \in Endpoints \ {e} : inData'[f] = inData[f] /\ written'[f] = written[f]
    BY <2>1, <2>2, <2>3 DEF Enqueue, TypeOK
  <2>5. Joined(data, end)
    BY <1>0, <2>2 DEF DataJoined
  <2>6. Joined(more, end + len) /\ Begins(more, end + len) = Begins(data, end)
    BY <2>2, <2>3, <2>5, AppendJoined
  <2>7. DataJoined'
    BY <1>0, <2>4, <2>6 DEF DataJoined
  <2>8. \A f \in Endpoints : Position(f)' = Position(f)
    <3>1. \A f \in Endpoints : Position(f)' = Begins(inData'[f], written'[f])
      BY PositionBegins, TailDrops DEF Position, Begins, TypeOK
    <3>2. Position(e)' = Position(e)
      BY <2>2, <2>4, <2>6, <3>1, PositionBegins
    <3>3. \A f \in Endpoints \ {e} : Position(f)' = Position(f)
      BY <2>4 DEF Position
    <3> QED
      BY <3>2, <3>3
  <2> QED
    BY <1>2, <1>6, <2>7, <2>8 DEF StreamInv, WriteStep
<1> QED
  BY <1>0, <1>3, <1>4, <1>5, <1>6, StepKinds

(* The replies to the IN transfers of an endpoint carry the bytes that the *)
(* client wrote to it: each byte once, in order, without a gap, however    *)
(* long the writes and the transfers are and however they meet             *)
(* (_sendDataForInEndpoint, 628-656).                                      *)
THEOREM StreamsIntact == Spec => []InStreamIntact
<1>1. Init => UrbInv /\ OrderInv /\ StreamInv
  BY UrbInit, OrderInit, StreamInit
<1>2. TypeOK /\ TypeOK' /\ UrbInv /\ OrderInv /\ StreamInv /\ [Next]_queues
        => UrbInv' /\ OrderInv' /\ StreamInv'
  BY UrbStep, OrderStep, StreamStep
<1>3. StreamInv => InStreamIntact
  BY DEF StreamInv
<1>4. Spec => []TypeOK
  BY TypeCorrect
<1> QED
  BY <1>1, <1>2, <1>3, <1>4, PTL DEF Spec

(***************************************************************************)
(* Room.  A host that makes room in what it submits has made it in         *)
(* everything it issued.                                                   *)
(***************************************************************************)
IssuedMakeRoom == \A n \in DOMAIN issued : MakesRoom(issued[n])

LEMMA IssuedMakeRoomStep ==
  ASSUME HostMakesRoom, TypeOK, TypeOK', IssuedMakeRoom, [Next]_queues
  PROVE  IssuedMakeRoom'
<1>1. CASE Host
  <2>1. PICK cmd : Issue(cmd) /\ MakesRoom(cmd)
    <3>1. \A s \in Shapes : MakesRoom(SubmitCmd(Len(issued) + 1, s))
      BY DEF HostMakesRoom, MakesRoom, SubmitCmd, IsStandard, IsSubmit
    <3>2. \A t, e : MakesRoom(UnlinkCmd(Len(issued) + 1, t, e))
      BY DEF MakesRoom, UnlinkCmd, IsStandard, IsSubmit
    <3>3. CASE HostSubmit
      BY <3>1, <3>3 DEF HostSubmit
    <3>4. CASE HostUnlink
      BY <3>2, <3>4 DEF HostUnlink
    <3> QED
      BY <1>1, <3>3, <3>4 DEF Host
  <2>2. Grown(issued, cmd, issued')
    BY <2>1, LastOf, GrownBy DEF Issue, TypeOK
  <2>3. \A n \in DOMAIN issued' : n \in DOMAIN issued \/ n = Len(issued) + 1
    BY <2>2, Domains DEF Grown
  <2> QED
    BY <2>1, <2>2, <2>3 DEF IssuedMakeRoom, Grown
<1>2. CASE UNCHANGED issued
  BY <1>2 DEF IssuedMakeRoom
<1>3. CASE ~Host
  BY <1>2, <1>3, QuietMoves, PushMoves DEF Next, QuietStep, Handle, Send, hostVars
<1> QED
  BY <1>1, <1>3

LEMMA FitsStep ==
  ASSUME TypeOK, TypeOK', UrbInv, OrderInv, IssuedMakeRoom, ReplyFits, [Next]_queues
  PROVE  ReplyFits'
<1>0. UnlinksOut /\ WaitingShape
  BY DEF OrderInv
<1>1. \A i \in DOMAIN Replies : issued'[Replies[i].seqnum] = issued[Replies[i].seqnum]
  BY RepliesMove DEF UrbInv, LineInv, RepliesOK
<1>2. ASSUME NEW reply \in Reply, Replies' = Append(Replies, reply), UNCHANGED issued,
             reply.direction = "In" => reply.length <= issued[reply.seqnum].length
      PROVE  ReplyFits'
  <2>1. Grown(Replies, reply, Replies')
    BY <1>2, Domains, GrownBy
  <2>2. \A i \in DOMAIN Replies' : i \in DOMAIN Replies \/ i = Len(Replies) + 1
    BY <2>1, Domains DEF Grown
  <2> QED
    BY <1>2, <2>1, <2>2 DEF ReplyFits, Grown
<1>3. CASE AnswerStep
  <2>1. PICK cmd \in Command, reply \in Reply :
          /\ cmd = issued[Handled + 1] /\ cmd.seqnum = Handled + 1 /\ Handled + 1 \in DOMAIN issued
          /\ Answers(cmd, reply) /\ Replies' = Append(Replies, reply) /\ UNCHANGED issued
    BY <1>3 DEF AnswerStep
  <2>2. reply.direction = "In" => reply.length <= issued[reply.seqnum].length
    BY <2>1 DEF Answers, IssuedMakeRoom
  <2> QED
    BY <1>2, <2>1, <2>2
<1>4. CASE SendStep
  <2>1. PICK e \in Endpoints, reply \in Reply, len \in Nat, cmd \in Command, d \in Data :
          /\ cmd = Head(inCmds[e]) /\ inCmds[e] # <<>> /\ len <= cmd.length
          /\ reply = ReplyTo(cmd, [kind |-> "write", at |-> d.pos + d.off], len, 0)
          /\ Replies' = Append(Replies, reply) /\ UNCHANGED issued
    BY <1>4 DEF SendStep
  <2>2. cmd = issued[cmd.seqnum] /\ IsSubmit(cmd)
    <3>1. 1 \in DOMAIN inCmds[e] /\ cmd = inCmds[e][1]
      BY <2>1, TailDrops DEF TypeOK
    <3> QED
      BY <3>1 DEF UrbInv, LineInv, WaitingOK
  <2>3. reply.seqnum = cmd.seqnum /\ reply.length = len
    BY <2>1, <2>2 DEF ReplyTo
  <2> QED
    BY <1>2, <2>1, <2>2, <2>3
<1>5. CASE UNCHANGED Replies
  BY <1>1, <1>5 DEF ReplyFits
<1> QED
  BY <1>0, <1>3, <1>4, <1>5, StepKinds DEF QueueStep, WriteStep

(* No reply carries more bytes than the host has room for, whatever the    *)
(* descriptors and the data are, as long as the host makes room for what   *)
(* it asks of a standard request (_reply, 490-504; the caps at 637, 765).  *)
THEOREM RepliesFit == ASSUME HostMakesRoom PROVE Spec => []ReplyFits
<1>1. Init => UrbInv /\ OrderInv /\ IssuedMakeRoom /\ ReplyFits
  <2>1. Init => IssuedMakeRoom /\ ReplyFits
    BY NothingYet DEF Init, IssuedMakeRoom, ReplyFits
  <2> QED
    BY <2>1, UrbInit, OrderInit
<1>2. TypeOK /\ TypeOK' /\ UrbInv /\ OrderInv /\ IssuedMakeRoom /\ ReplyFits /\ [Next]_queues
        => UrbInv' /\ OrderInv' /\ IssuedMakeRoom' /\ ReplyFits'
  BY UrbStep, OrderStep, IssuedMakeRoomStep, FitsStep
<1>3. Spec => []TypeOK
  BY TypeCorrect
<1> QED
  BY <1>1, <1>2, <1>3, PTL DEF Spec
==============================================================================
