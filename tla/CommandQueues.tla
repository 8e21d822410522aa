---------------------------- MODULE CommandQueues ----------------------------
(***************************************************************************)
(* The queues of a VirtualUSBDevice (the global _s of                      *)
(* VirtualUSBDevice.cpp) and the handlers that move commands, data and     *)
(* replies between them, without the threads that run them: every step is  *)
(* a critical section of _s.lock, or one iteration of the loop of          *)
(* _sendDataForInEndpoint, during which the lock stays taken (serving).    *)
(* The host is the vhci driver at the other end of the socket pair.        *)
(***************************************************************************)
EXTENDS UsbipCommands, SequencesExt

CONSTANTS
  Shapes,       \* the SUBMIT commands the host may issue, without seqnum
  UnlinkEps,    \* base.ep of the UNLINK commands
  WriteEps,     \* the endpoint indexes clients write to
  WriteLens,    \* the lengths they write
  MaxCommands,  \* bound: commands the host issues
  MaxWrites     \* bound: calls of write()

Endpoints == 0 .. MaxCount - 1
NoEp      == MaxCount

ASSUME ShapesAssumption ==
  Shapes \subseteq [command : {"Submit", "Bad"}, direction : Directions,
                    ep : EpNumbers, length : Nat, setup : SetupRequest]
ASSUME HostAssumption ==
  /\ UnlinkEps \subseteq EpNumbers
  /\ WriteEps \subseteq Endpoints
  /\ WriteLens \subseteq Nat
  /\ MaxCommands \in Nat
  /\ MaxWrites \in Nat

VARIABLES
  issued,      \* every command the host has issued; issued[n] has seqnum n
  wire,        \* commands in the socket, not yet read
  rcmd,        \* the command _readThread has read and not yet queued, if any
  cmds,        \* _s.cmds
  reps,        \* _s.reps
  wrep,        \* the reply _writeThread has taken and not yet written, if any
  sent,        \* replies written to the socket
  inCmds,      \* _s.inCmds, per endpoint
  inData,      \* _s.inData, per endpoint
  written,     \* bytes written so far, per endpoint
  writes,      \* number of calls of write()
  configDesc,  \* _s.configDesc: an index of ConfigDescs, 0 for nullptr
  serving,     \* the endpoint _sendDataForInEndpoint is working on, or NoEp
  err          \* _s.err, or "none"

hostVars  == <<issued, wire>>
handVars  == <<rcmd, wrep>>
queueVars == <<reps, inCmds, inData, configDesc, serving>>
dataVars  == <<written, writes>>
queues    == <<issued, wire, rcmd, cmds, reps, wrep, sent, inCmds, inData, written,
               writes, configDesc, serving, err>>

(* A _Data: len bytes of which off were sent; they are the bytes from pos  *)
(* on of everything written to the endpoint.                               *)
Data   == {d \in [pos : Nat, len : Nat, off : Nat] : d.off <= d.len}
Causes == {"none", "stopped", "command", "transport", "start"}

(* All replies made so far.                                                *)
Replies == (sent \o wrep) \o reps

(***************************************************************************)
(* The host.  It unlinks a URB at most once; the URB's reply may be on its *)
(* way already.                                                            *)
(***************************************************************************)
Issue(cmd) ==
  /\ Len(issued) < MaxCommands
  /\ issued' = Append(issued, cmd)
  /\ wire' = Append(wire, cmd)

NoSetup == [type |-> "Standard", recipient |-> "Device", request |-> "Unsupported",
            high |-> "Unsupported", low |-> 0, wLength |-> 0]

SubmitCmd(n, s) ==
  [command |-> s.command, seqnum |-> n, direction |-> s.direction, ep |-> s.ep,
   length |-> s.length, setup |-> s.setup, target |-> 0]

UnlinkCmd(n, t, e) ==
  [command |-> "Unlink", seqnum |-> n, direction |-> "Out", ep |-> e,
   length |-> 0, setup |-> NoSetup, target |-> t]

HostSubmit ==
  \E s \in Shapes : Issue(SubmitCmd(Len(issued) + 1, s))

HostUnlink ==
  \E t \in DOMAIN issued, e \in UnlinkEps :
    /\ IsSubmit(issued[t])
    /\ \A i \in DOMAIN issued : issued[i].target # t
    /\ Issue(UnlinkCmd(Len(issued) + 1, t, e))

(***************************************************************************)
(* The handlers of _handleCmd for the commands they accept.                *)
(***************************************************************************)
Queue(reply) == reps' = Append(reps, reply)

SubmitStandard(cmd) ==
  /\ IsStandard(cmd)
  /\ \/ /\ cmd.setup.request = "GetStatus"
        /\ Queue(StatusReply(cmd, ConfigDescs[configDesc].selfPowered))
        /\ UNCHANGED configDesc
     \/ /\ cmd.setup.request = "GetDescriptor"
        /\ \E stray \in StrayLens : Queue(DescriptorReply(cmd, stray))
        /\ UNCHANGED configDesc
     \/ /\ cmd.setup.request = "SetConfiguration"
        /\ \E i \in ConfigIndex(cmd.setup.low) :
             /\ \A j \in ConfigIndex(cmd.setup.low) : i <= j
             /\ configDesc' = i
        /\ Queue(ReplyTo(cmd, NoPayload, 0, 0))
  /\ UNCHANGED <<inCmds, inData, serving>>

SubmitOut(cmd) ==
  /\ IsTransfer(cmd) /\ cmd.direction = "Out"
  /\ Queue(ReplyTo(cmd, NoPayload, cmd.length, 0))
  /\ UNCHANGED <<inCmds, inData, configDesc, serving>>

(* Mutants: the data already there is not sent; the command is queued in   *)
(* front.                                                                  *)
SubmitInNoSend(cmd) ==
  /\ IsTransfer(cmd) /\ cmd.direction = "In"
  /\ inCmds' = [inCmds EXCEPT ![cmd.ep] = Append(@, cmd)]
  /\ UNCHANGED <<reps, inData, configDesc, serving>>

SubmitInFront(cmd) ==
  /\ IsTransfer(cmd) /\ cmd.direction = "In"
  /\ inCmds' = [inCmds EXCEPT ![cmd.ep] = <<cmd>> \o @]
  /\ serving' = cmd.ep
  /\ UNCHANGED <<reps, inData, configDesc>>

SubmitIn(cmd) ==
  /\ IsTransfer(cmd) /\ cmd.direction = "In"
  /\ inCmds' = [inCmds EXCEPT ![cmd.ep] = Append(@, cmd)]
  /\ serving' = cmd.ep
  /\ UNCHANGED <<reps, inData, configDesc>>

(* The IN command with sequence number t is the i-th of endpoint e, and    *)
(* the first one found.                                                    *)
WaitsAt(t, e, i) == i \in DOMAIN inCmds[e] /\ inCmds[e][i].seqnum = t

FirstAt(t, e, i) ==
  /\ WaitsAt(t, e, i)
  /\ \A f \in Endpoints : \A j \in DOMAIN inCmds[f] :
       WaitsAt(t, f, j) => e < f \/ (e = f /\ i <= j)

Unlink(cmd) ==
  /\ IsUnlink(cmd)
  /\ \/ \E e \in Endpoints : \E i \in DOMAIN inCmds[e] :
          /\ FirstAt(cmd.target, e, i)
          /\ inCmds' = [inCmds EXCEPT ![e] = RemoveAt(@, i)]
          /\ Queue(ReplyTo(cmd, NoPayload, 0, UnlinkStatus(TRUE)))
     \/ /\ \A e \in Endpoints : \A i \in DOMAIN inCmds[e] : ~WaitsAt(cmd.target, e, i)
        /\ Queue(ReplyTo(cmd, NoPayload, 0, UnlinkStatus(FALSE)))
        /\ UNCHANGED inCmds
  /\ UNCHANGED <<inData, configDesc, serving>>

Accept(cmd) ==
  /\ ~Rejected(cmd, configDesc # 0)
  /\ SubmitStandard(cmd) \/ SubmitOut(cmd) \/ SubmitIn(cmd) \/ Unlink(cmd)

(***************************************************************************)
(* One iteration of _sendDataForInEndpoint: the first waiting command      *)
(* takes as much of the first data as it asked for.                        *)
(***************************************************************************)
Served(e) == inCmds[e] # <<>> /\ inData[e] # <<>>

(* Mutant: the data is popped like the command, unconditionally.           *)
AdvancedAlways(data, len) == Tail(data)

Advanced(data, len) ==
  LET d == Head(data) IN
  IF d.off + len = d.len
    THEN Tail(data)
    ELSE [data EXCEPT ![1] = [d EXCEPT !.off = d.off + len]]

(* Mutant: the command stays as long as data is left.                      *)
SendOneKeepsCommand ==
  LET e   == serving
      cmd == Head(inCmds[e])
      d   == Head(inData[e])
      len == AtMost(d.len - d.off, cmd.length)
  IN  /\ serving # NoEp
      /\ Served(e)
      /\ Queue(ReplyTo(cmd, [kind |-> "write", at |-> d.pos + d.off], len, 0))
      /\ inCmds' = [inCmds EXCEPT ![e] = IF d.off + len = d.len THEN Tail(@) ELSE @]
      /\ inData' = [inData EXCEPT ![e] = Advanced(@, len)]
      /\ UNCHANGED <<configDesc, serving>>

SendOne ==
  LET e   == serving
      cmd == Head(inCmds[e])
      d   == Head(inData[e])
      len == AtMost(d.len - d.off, cmd.length)
  IN  /\ serving # NoEp
      /\ Served(e)
      /\ Queue(ReplyTo(cmd, [kind |-> "write", at |-> d.pos + d.off], len, 0))
      /\ inCmds' = [inCmds EXCEPT ![e] = Tail(@)]
      /\ inData' = [inData EXCEPT ![e] = Advanced(@, len)]
      /\ UNCHANGED <<configDesc, serving>>

SendDone ==
  /\ serving # NoEp
  /\ ~Served(serving)
  /\ serving' = NoEp
  /\ UNCHANGED <<reps, inCmds, inData, configDesc>>

(* write() up to its call of _sendDataForInEndpoint.                       *)
Enqueue(e, len) ==
  /\ writes < MaxWrites
  /\ inData' = [inData EXCEPT ![e] = Append(@, [pos |-> written[e], len |-> len, off |-> 0])]
  /\ written' = [written EXCEPT ![e] = @ + len]
  /\ writes' = writes + 1
  /\ serving' = e
  /\ UNCHANGED <<reps, inCmds, configDesc>>
------------------------------------------------------------------------------
(***************************************************************************)
(* The steps of the device.                                                *)
(***************************************************************************)
Init ==
  /\ issued = <<>> /\ wire = <<>> /\ rcmd = <<>> /\ cmds = <<>>
  /\ reps = <<>> /\ wrep = <<>> /\ sent = <<>>
  /\ inCmds = [e \in Endpoints |-> <<>>]
  /\ inData = [e \in Endpoints |-> <<>>]
  /\ written = [e \in Endpoints |-> 0]
  /\ writes = 0
  /\ configDesc = 0
  /\ serving = NoEp
  /\ err = "none"

Host ==
  /\ HostSubmit \/ HostUnlink
  /\ UNCHANGED <<cmds, handVars, queueVars, sent, dataVars, err>>

(* _readThread: a command the device understands is read, without the     *)
(* lock, and queued.                                                       *)
Receive ==
  /\ rcmd = <<>>
  /\ wire # <<>>
  /\ Head(wire).command # "Bad"
  /\ rcmd' = <<Head(wire)>>
  /\ wire' = Tail(wire)
  /\ UNCHANGED <<issued, cmds, wrep, queueVars, sent, dataVars, err>>

Push ==
  /\ rcmd # <<>> /\ serving = NoEp
  /\ cmds' = cmds \o rcmd
  /\ rcmd' = <<>>
  /\ UNCHANGED <<hostVars, wrep, queueVars, sent, dataVars, err>>

(* read(): the oldest command is handled, or its handler throws.           *)
Handle ==
  /\ err = "none" /\ serving = NoEp
  /\ cmds # <<>>
  /\ cmds' = Tail(cmds)
  /\ \/ /\ Accept(Head(cmds))
        /\ UNCHANGED err
     \/ /\ Rejected(Head(cmds), configDesc # 0)
        /\ err' = "command"
        /\ UNCHANGED queueVars
  /\ UNCHANGED <<hostVars, handVars, sent, dataVars>>

Send ==
  /\ SendOne \/ SendDone
  /\ UNCHANGED <<hostVars, handVars, cmds, sent, dataVars, err>>

Write ==
  /\ err = "none" /\ serving = NoEp
  /\ \E e \in WriteEps, len \in WriteLens : Enqueue(e, len)
  /\ UNCHANGED <<hostVars, handVars, cmds, sent, err>>

(* _writeThread: the oldest reply is taken out of the queue, and written   *)
(* without the lock.  After a failure the socket is shut: a reply that was *)
(* taken before stays where it is.                                         *)
Take ==
  /\ err = "none" /\ serving = NoEp
  /\ wrep = <<>>
  /\ reps # <<>>
  /\ wrep' = <<Head(reps)>>
  /\ reps' = Tail(reps)
  /\ UNCHANGED <<hostVars, rcmd, cmds, inCmds, inData, configDesc, serving, sent,
                 dataVars, err>>

Transmit ==
  /\ err = "none"
  /\ wrep # <<>>
  /\ sent' = sent \o wrep
  /\ wrep' = <<>>
  /\ UNCHANGED <<hostVars, rcmd, cmds, queueVars, dataVars, err>>

(* The device is stopped, or the connection or the start fails.            *)
Fail ==
  /\ err = "none" /\ serving = NoEp
  /\ err' \in {"stopped", "transport", "start"}
  /\ UNCHANGED <<hostVars, handVars, cmds, queueVars, sent, dataVars>>

Next == Host \/ Receive \/ Push \/ Handle \/ Send \/ Write \/ Take \/ Transmit \/ Fail

Spec == Init /\ [][Next]_queues
------------------------------------------------------------------------------
(***************************************************************************)
(* Properties.                                                             *)
(***************************************************************************)
TypeOK ==
  /\ issued \in Seq(Command) /\ wire \in Seq(Command) /\ cmds \in Seq(Command)
  /\ reps \in Seq(Reply) /\ sent \in Seq(Reply)
  /\ rcmd \in Seq(Command) /\ Len(rcmd) <= 1
  /\ wrep \in Seq(Reply) /\ Len(wrep) <= 1
  /\ inCmds \in [Endpoints -> Seq(Command)]
  /\ inData \in [Endpoints -> Seq(Data)]
  /\ written \in [Endpoints -> Nat]
  /\ writes \in Nat
  /\ configDesc \in 0 .. Len(ConfigDescs)
  /\ serving \in Endpoints \cup {NoEp}
  /\ err \in Causes

(* No command is lost and none is answered twice: wherever the queues and  *)
(* the handlers have taken it, every command is in exactly one place       *)
(* (waiting somewhere, answered, or taken back by an unlink), except for   *)
(* the one whose handler threw (read 154-157, 165).                        *)
At(seq, n) == {i \in DOMAIN seq : seq[i].seqnum = n}

Whereabouts(n) ==
  {<<"wire", 0, i>> : i \in At(wire, n)} \cup {<<"rcmd", 0, i>> : i \in At(rcmd, n)}
  \cup {<<"cmds", 0, i>> : i \in At(cmds, n)} \cup {<<"answered", 0, i>> : i \in At(Replies, n)}
  \cup (UNION {{<<"inCmds", e, i>> : i \in At(inCmds[e], n)} : e \in Endpoints})
  \cup {<<"cancelled", 0, i>> : i \in {j \in DOMAIN Replies :
           /\ Replies[j].command = "RetUnlink" /\ Replies[j].status = -ECONNRESET
           /\ issued[Replies[j].seqnum].target = n}}

NoCommandLost ==
  \A n \in DOMAIN issued :
    /\ Cardinality(Whereabouts(n)) <= 1
    /\ Whereabouts(n) = {} => err = "command"

(* The bytes an IN endpoint returns to the host are the bytes written to   *)
(* it, each once, in order and without a gap, however the writes and the   *)
(* host's requests cut them up (_sendDataForInEndpoint, 637-647).          *)
Carries(i, e) == Replies[i].payload.kind = "write" /\ Replies[i].ep = e

EndOf(i) == Replies[i].payload.at + Replies[i].length

(* The replies before the n-th have carried the bytes of e up to p.        *)
Reached(e, n, p) ==
  \/ p = 0 /\ \A i \in 1 .. n - 1 : ~Carries(i, e)
  \/ \E i \in 1 .. n - 1 :
       /\ Carries(i, e) /\ EndOf(i) = p
       /\ \A j \in i + 1 .. n - 1 : ~Carries(j, e)

Position(e) ==
  IF inData[e] = <<>> THEN written[e] ELSE Head(inData[e]).pos + Head(inData[e]).off

InStreamIntact ==
  \A e \in Endpoints :
    /\ \A i \in DOMAIN Replies : Carries(i, e) => Reached(e, i, Replies[i].payload.at)
    /\ Reached(e, Len(Replies) + 1, Position(e))

(* The IN transfers of an endpoint are answered in the order the host      *)
(* submitted them, also when unlinks take some of them out of the queue.   *)
ReturnsIn(i, e) ==
  /\ Replies[i].command = "RetSubmit" /\ Replies[i].direction = "In" /\ Replies[i].ep = e
  /\ IsTransfer(issued[Replies[i].seqnum])

InOrder ==
  \A e \in Endpoints :
    /\ \A i, j \in DOMAIN Replies :
         i < j /\ ReturnsIn(i, e) /\ ReturnsIn(j, e) => Replies[i].seqnum < Replies[j].seqnum
    /\ \A i \in DOMAIN Replies, k \in DOMAIN inCmds[e] :
         ReturnsIn(i, e) => Replies[i].seqnum < inCmds[e][k].seqnum
    /\ \A k, l \in DOMAIN inCmds[e] :
         k < l => inCmds[e][k].seqnum < inCmds[e][l].seqnum

(* Outside _sendDataForInEndpoint no endpoint has both a waiting command   *)
(* and data for it: nobody would look at the two again until the next      *)
(* write() or command for that endpoint (_handleCmdSubmitEPXIn, write).    *)
NoStalledIn ==
  \A e \in Endpoints : serving # e => inCmds[e] = <<>> \/ inData[e] = <<>>

(* A host makes room for what it asks of a standard request: as much as    *)
(* wLength, and for GET_STATUS at least the two bytes the device answers.  *)
MakesRoom(cmd) ==
  IsStandard(cmd) /\ cmd.direction = "In" =>
    /\ cmd.setup.request = "GetDescriptor" => cmd.setup.wLength <= cmd.length
    /\ cmd.setup.request = "GetStatus" => cmd.length >= 2

HostMakesRoom == \A s \in Shapes : MakesRoom(s)

(* No reply to such a host carries more bytes than there is room for: the  *)
(* host takes actual_length bytes into a buffer of transfer_buffer_length  *)
(* (_reply, 490-504; the caps at 637 and 765).                             *)
ReplyFits ==
  \A i \in DOMAIN Replies :
    Replies[i].direction = "In" => Replies[i].length <= issued[Replies[i].seqnum].length

(* Every command other than an IN transfer is answered, and an IN transfer *)
(* is answered if data is there for it, unless it is unlinked or the       *)
(* device fails: the read thread, the client's read() and the write thread *)
(* between them leave nothing behind in a queue.                           *)
Answered(n)  == At(sent, n) # {}
Withdrawn(n) == \E t \in DOMAIN issued : issued[t].target = n

AwaitsData(n) ==
  /\ n \in DOMAIN issued
  /\ IsTransfer(issued[n]) /\ issued[n].direction = "In"
  /\ \E e \in Endpoints : e = issued[n].ep /\ inData[e] = <<>>

Blocked == \E i \in DOMAIN wire : wire[i].command = "Bad"

CommandsAnswered ==
  \A n \in 1 .. MaxCommands :
    n \in DOMAIN issued ~>
      Answered(n) \/ Withdrawn(n) \/ AwaitsData(n) \/ Blocked \/ err # "none"

(* The queues keep the promise of UrbService.  A URB is open from its      *)
(* submission until its verdict is queued.                                 *)
Verdict(r) ==
  IF r.command = "RetSubmit"
    THEN [urb |-> r.seqnum, verdict |-> "returned"]
    ELSE [urb |-> issued[r.seqnum].target,
          verdict |-> IF r.status = -ECONNRESET THEN "cancelled" ELSE "missed"]

Verdicts == [i \in DOMAIN Replies |-> Verdict(Replies[i])]

OpenUrbs ==
  {n \in DOMAIN issued :
     /\ IsSubmit(issued[n])
     /\ \A i \in DOMAIN Verdicts :
          Verdicts[i].urb = n => Verdicts[i].verdict = "missed"}

Service == INSTANCE UrbService
             WITH Urbs <- 1 .. MaxCommands, open <- OpenUrbs, verdicts <- Verdicts

(* Every transfer is decided once; an unlink's answer tells the truth      *)
(* about the transfer (_handleCmdUnlink, 676-680).                         *)
ImplementsUrbService == Service!Spec

(* A reply to GetDescriptor carries the descriptor that was asked for: a   *)
(* device descriptor's is no longer than the descriptor, whose length is   *)
(* _DescLen(const DeviceDescriptor&) (VirtualUSBDevice.cpp 351-354), and   *)
(* one for a descriptor the device does not have fails with status 1       *)
(* (758-766).                                                              *)
DeviceDescriptorFits ==
  \A i \in DOMAIN Replies :
    Replies[i].payload.kind = "device" => Replies[i].length <= DeviceDescLen

MissingDescriptorFails ==
  \A i \in DOMAIN Replies :
    LET cmd == issued[Replies[i].seqnum] IN
    /\ IsStandard(cmd) /\ cmd.setup.request = "GetDescriptor"
    /\ DescriptorFor(cmd.setup, 0).kind = "none"
    => Replies[i].status = 1

DescriptorsAnswered == DeviceDescriptorFits /\ MissingDescriptorFails
==============================================================================
