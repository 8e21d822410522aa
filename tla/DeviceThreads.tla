---------------------------- MODULE DeviceThreads ----------------------------
(***************************************************************************)
(* The threads of a VirtualUSBDevice: the client threads that call         *)
(* start(), read(), write() and stop(), the read thread and the write      *)
(* thread that start() spawns, and _reset(), which any of them may run.    *)
(*                                                                         *)
(* A critical section of _s.lock is one step, except that a thread keeps   *)
(* the lock through the iterations of _sendDataForInEndpoint and from a    *)
(* failure inside start() to its catch clause.  _s.signal is the set       *)
(* waiting of the threads blocked on it; notify_all empties it.            *)
(***************************************************************************)
EXTENDS CommandQueues

CONSTANTS
  Readers, Writers, Stoppers,        \* client threads, by the call they make
  Starter, ReadThread, WriteThread,  \* the caller of start(); the device's threads
  Timeouts,                          \* timeouts of read(): "zero", "finite", "forever"
  StartMayFail,                      \* start() may fail before the threads exist
  SpawnMayFail,                      \* a std::thread constructor may throw
  PeerMayClose                       \* the host may close the connection

DeviceThreadSet == {ReadThread, WriteThread}
Clients         == Readers \cup Writers \cup Stoppers \cup {Starter}
Threads         == Clients \cup DeviceThreadSet

ASSUME ThreadsAssumption ==
  /\ ReadThread # WriteThread
  /\ Clients \cap DeviceThreadSet = {}
  /\ Readers \cap Writers = {} /\ Readers \cap Stoppers = {} /\ Writers \cap Stoppers = {}
  /\ Starter \notin Readers \cup Writers \cup Stoppers
  /\ Timeouts \subseteq {"zero", "finite", "forever"}
  /\ {StartMayFail, SpawnMayFail, PeerMayClose} \subseteq BOOLEAN

VARIABLES
  pc,       \* where each thread is
  waiting,  \* the threads blocked in _s.signal.wait
  state,    \* _s.state, as the set of its flags
  socket,   \* _s.socket: "none" (-1, never opened), "open", "shut" or "closed"
  peer,     \* the other end: "absent", "attached" or "closed"
  timeout   \* the timeout of each read() call

threadVars == <<waiting, state, socket, peer, timeout>>
vars       == <<queues, pc, threadVars>>

Running == {"ReadThreadRunning", "WriteThreadRunning"}
Flags   == {"Started", "Reset"} \cup Running

(* Nobody holds _s.lock between two steps.                                 *)
Free == serving = NoEp /\ pc[Starter] # "throwing"

Goto(t, label) == pc' = [pc EXCEPT ![t] = label]
NotifyAll      == waiting' = {}
Wait(t)        == waiting' = waiting \cup {t}

(* _reply notifies all waiting threads.                                    *)
\* Mutant: it notifies nobody.
NotifyReplyNobody == UNCHANGED waiting

NotifyReply == waiting' = IF reps' = reps THEN waiting ELSE {}

(***************************************************************************)
(* _reset.  A thread that finds the Reset flag set goes on; the first one  *)
(* sets it, records its cause, wakes everybody, shuts the socket down and  *)
(* waits until neither thread flag is set before it closes the socket.     *)
(***************************************************************************)
AfterReset(t) == IF t \in DeviceThreadSet THEN "exiting" ELSE "idle"

CloseSocket == socket' = IF socket = "none" THEN "none" ELSE "closed"

AlreadyReset(t) ==
  /\ "Reset" \in state
  /\ Goto(t, AfterReset(t))
  /\ UNCHANGED <<state, err, socket, waiting>>

\* Mutants: nobody is notified; the socket is not shut down.
EnterResetSilent(t, cause) ==
  /\ "Reset" \notin state
  /\ state' = state \cup {"Reset"}
  /\ err' = cause
  /\ \/ /\ state \cap Running = {}
        /\ CloseSocket /\ Goto(t, AfterReset(t)) /\ UNCHANGED waiting
     \/ /\ state \cap Running # {}
        /\ Wait(t) /\ socket' = "shut" /\ Goto(t, "resetting")

EnterResetNoShutdown(t, cause) ==
  /\ "Reset" \notin state
  /\ state' = state \cup {"Reset"}
  /\ err' = cause
  /\ \/ /\ state \cap Running = {}
        /\ NotifyAll /\ CloseSocket /\ Goto(t, AfterReset(t))
     \/ /\ state \cap Running # {}
        /\ waiting' = {t} /\ UNCHANGED socket /\ Goto(t, "resetting")

EnterReset(t, cause) ==
  /\ "Reset" \notin state
  /\ state' = state \cup {"Reset"}
  /\ err' = cause
  /\ \/ /\ state \cap Running = {}
        /\ NotifyAll
        /\ CloseSocket
        /\ Goto(t, AfterReset(t))
     \/ /\ state \cap Running # {}
        /\ waiting' = {t}
        /\ socket' = "shut"
        /\ Goto(t, "resetting")

\* Mutant: the cause is recorded before the short-circuit.
ResetOverwrites(t, cause) ==
  \/ /\ "Reset" \in state /\ err' = cause
     /\ Goto(t, AfterReset(t))
     /\ UNCHANGED <<state, socket, waiting>>
  \/ EnterReset(t, cause)

Reset(t, cause) == AlreadyReset(t) \/ EnterReset(t, cause)

(* The waiting thread is woken and looks at the flags again.               *)
\* Mutant: the flags are not looked at again.
ResetWakeOnce(t) ==
  /\ pc[t] = "resetting" /\ t \notin waiting /\ Free
  /\ CloseSocket
  /\ Goto(t, AfterReset(t))
  /\ UNCHANGED <<queues, waiting, state, peer, timeout>>

ResetWake(t) ==
  /\ pc[t] = "resetting" /\ t \notin waiting /\ Free
  /\ \/ /\ state \cap Running = {}
        /\ CloseSocket
        /\ Goto(t, AfterReset(t))
        /\ UNCHANGED waiting
     \/ /\ state \cap Running # {}
        /\ Wait(t)
        /\ UNCHANGED <<pc, socket>>
  /\ UNCHANGED <<queues, state, peer, timeout>>

(***************************************************************************)
(* start(), called once: its assert stops the program otherwise.  It keeps *)
(* the lock throughout, so its steps up to the end or to a failure are     *)
(* one.  The thread flags are set before the threads are spawned.          *)
(***************************************************************************)
StartSucceeds ==
  /\ pc[Starter] = "idle" /\ state = {} /\ Free
  /\ state' = {"Started"} \cup Running
  /\ socket' = "open" /\ peer' = "attached"
  /\ pc' = [pc EXCEPT ![ReadThread] = "init", ![WriteThread] = "init"]
  /\ UNCHANGED <<queues, waiting, timeout>>

StartFails ==
  /\ StartMayFail
  /\ pc[Starter] = "idle" /\ state = {} /\ Free
  /\ state' = {"Started"}
  /\ socket' \in {"none", "open"}
  /\ Goto(Starter, "throwing")
  /\ UNCHANGED <<queues, waiting, peer, timeout>>

SpawnFails ==
  /\ SpawnMayFail
  /\ pc[Starter] = "idle" /\ state = {} /\ Free
  /\ state' = {"Started"} \cup Running
  /\ socket' = "open" /\ peer' = "attached"
  /\ \E readThread \in {"absent", "init"} :
       pc' = [pc EXCEPT ![ReadThread] = readThread, ![Starter] = "throwing"]
  /\ UNCHANGED <<queues, waiting, timeout>>

StartCatch ==
  /\ pc[Starter] = "throwing"
  /\ EnterReset(Starter, "start")
  /\ UNCHANGED <<hostVars, handVars, cmds, queueVars, sent, dataVars, peer, timeout>>

Start == StartSucceeds \/ StartFails \/ SpawnFails \/ StartCatch

(***************************************************************************)
(* read(): handle commands until one is for the caller (an OUT transfer),  *)
(* until the timeout, or until the device fails.                           *)
(***************************************************************************)
ReadCall(r) ==
  /\ pc[r] = "idle"
  /\ timeout' \in {[timeout EXCEPT ![r] = t] : t \in Timeouts}
  /\ Goto(r, "reading")
  /\ UNCHANGED <<queues, waiting, state, socket, peer>>

(* The thread is at the head of the wait loop, for the first time or woken.*)
AtCheck(r) == pc[r] = "reading" \/ (pc[r] = "sleeping" /\ r \notin waiting)

(* The error is rethrown; _reset has nothing left to do.                   *)
ReadFails(r) ==
  /\ err # "none"
  /\ AlreadyReset(r)
  /\ UNCHANGED <<hostVars, cmds, queueVars, sent, dataVars>>

AfterAccept(cmd) ==
  IF IsTransfer(cmd)
    THEN IF cmd.direction = "In" THEN "serving" ELSE "idle"
    ELSE "reading"

\* Mutant: the error is not looked at.
ReadHandlesAnyway(r) ==
  /\ cmds # <<>>
  /\ cmds' = Tail(cmds)
  /\ Accept(Head(cmds))
  /\ NotifyReply
  /\ Goto(r, AfterAccept(Head(cmds)))
  /\ UNCHANGED <<err, state, socket, hostVars, sent, dataVars>>

ReadHandles(r) ==
  /\ err = "none" /\ cmds # <<>>
  /\ cmds' = Tail(cmds)
  /\ \/ /\ Accept(Head(cmds))
        /\ NotifyReply
        /\ Goto(r, AfterAccept(Head(cmds)))
        /\ UNCHANGED <<err, state, socket>>
     \/ /\ Rejected(Head(cmds), configDesc # 0)
        /\ EnterReset(r, "command")
        /\ UNCHANGED queueVars
  /\ UNCHANGED <<hostVars, sent, dataVars>>

ReadFindsNothing(r) ==
  /\ err = "none" /\ cmds = <<>>
  /\ \/ timeout[r] = "zero" /\ Goto(r, "idle") /\ UNCHANGED waiting
     \/ timeout[r] # "zero" /\ Goto(r, "sleeping") /\ Wait(r)
  /\ UNCHANGED <<queues, state, socket>>

ReadStep(r) ==
  /\ AtCheck(r) /\ Free
  /\ ReadFails(r) \/ ReadHandles(r) \/ ReadFindsNothing(r)
  /\ UNCHANGED <<handVars, peer, timeout>>

(* wait_for reports a timeout if the time is over when it returns, also if *)
(* the thread was notified before.                                         *)
ReadTimeout(r) ==
  /\ pc[r] = "sleeping" /\ timeout[r] = "finite" /\ Free
  /\ Goto(r, "idle")
  /\ waiting' = waiting \ {r}
  /\ UNCHANGED <<queues, state, socket, peer, timeout>>

(***************************************************************************)
(* write().  A call after a failure throws and changes nothing.            *)
(***************************************************************************)
WriteCall(w) ==
  /\ pc[w] = "idle" /\ Free
  /\ err = "none"
  /\ \E e \in WriteEps, len \in WriteLens : Enqueue(e, len)
  /\ Goto(w, "serving")
  /\ UNCHANGED <<hostVars, handVars, cmds, sent, err, threadVars>>

(* _sendDataForInEndpoint, for read() or write().                          *)
Serve(t) ==
  /\ pc[t] = "serving"
  /\ \/ SendOne /\ NotifyReply /\ UNCHANGED pc
     \/ SendDone /\ UNCHANGED waiting /\ Goto(t, IF t \in Readers THEN "reading" ELSE "idle")
  /\ UNCHANGED <<hostVars, handVars, cmds, sent, dataVars, err,
                 state, socket, peer, timeout>>

(* stop(), and the destructor.                                             *)
Stop(s) ==
  /\ pc[s] = "idle" /\ Free
  /\ Reset(s, "stopped")
  /\ UNCHANGED <<hostVars, handVars, cmds, queueVars, sent, dataVars, peer, timeout>>

(***************************************************************************)
(* _readThread.  Its recv first drains what the host had sent before the   *)
(* connection was shut down or closed.                                     *)
(***************************************************************************)
ReadInit ==
  /\ pc[ReadThread] = "init" /\ Free
  /\ Goto(ReadThread, "recv")
  /\ UNCHANGED <<queues, threadVars>>

ReadRecv ==
  /\ pc[ReadThread] = "recv"
  /\ \/ /\ wire # <<>> /\ Head(wire).command # "Bad"
        /\ rcmd' = <<Head(wire)>>
        /\ wire' = Tail(wire)
        /\ Goto(ReadThread, "push")
     \/ /\ \/ wire # <<>> /\ Head(wire).command = "Bad"
           \/ wire = <<>> /\ (socket # "open" \/ peer = "closed")
        /\ Goto(ReadThread, "failed")
        /\ UNCHANGED <<rcmd, wire>>
  /\ UNCHANGED <<issued, cmds, queueVars, sent, dataVars, err,
                 waiting, state, socket, peer, wrep, timeout>>

\* Mutant: one thread is notified, which may be the wrong one.
ReadPushNotifiesOne ==
  /\ pc[ReadThread] = "push" /\ Free
  /\ cmds' = cmds \o rcmd
  /\ rcmd' = <<>>
  /\ waiting' \in (IF waiting = {} THEN {{}} ELSE {waiting \ {t} : t \in waiting})
  /\ Goto(ReadThread, "recv")
  /\ UNCHANGED <<hostVars, queueVars, sent, dataVars, err, state, socket, peer, wrep, timeout>>

\* Mutant: the command is copied and not moved.
ReadPushCopies ==
  /\ pc[ReadThread] = "push" /\ Free
  /\ cmds' = cmds \o rcmd
  /\ NotifyAll
  /\ Goto(ReadThread, "recv")
  /\ UNCHANGED <<hostVars, handVars, queueVars, sent, dataVars, err, state, socket, peer, timeout>>

ReadPush ==
  /\ pc[ReadThread] = "push" /\ Free
  /\ cmds' = cmds \o rcmd
  /\ rcmd' = <<>>
  /\ NotifyAll
  /\ Goto(ReadThread, "recv")
  /\ UNCHANGED <<hostVars, queueVars, sent, dataVars, err, state, socket, peer, wrep, timeout>>

(***************************************************************************)
(* _writeThread.                                                           *)
(***************************************************************************)
WriteInit ==
  /\ pc[WriteThread] = "init" /\ Free
  /\ Goto(WriteThread, "take")
  /\ UNCHANGED <<queues, threadVars>>

\* Mutant: the reply is copied and not removed.
WriteTakePeeks ==
  /\ pc[WriteThread] = "take" /\ WriteThread \notin waiting /\ Free
  /\ err = "none" /\ reps # <<>>
  /\ wrep' = <<Head(reps)>>
  /\ Goto(WriteThread, "send")
  /\ UNCHANGED <<hostVars, rcmd, cmds, queueVars, sent, dataVars, err,
                 waiting, state, socket, peer, timeout>>

WriteTake ==
  /\ pc[WriteThread] = "take" /\ WriteThread \notin waiting /\ Free
  /\ \/ /\ err # "none"
        /\ Goto(WriteThread, "failed")
        /\ UNCHANGED <<reps, wrep, waiting>>
     \/ /\ err = "none" /\ reps # <<>>
        /\ wrep' = <<Head(reps)>>
        /\ reps' = Tail(reps)
        /\ Goto(WriteThread, "send")
        /\ UNCHANGED waiting
     \/ /\ err = "none" /\ reps = <<>>
        /\ Wait(WriteThread)
        /\ UNCHANGED <<pc, reps, wrep>>
  /\ UNCHANGED <<hostVars, cmds, inCmds, inData, configDesc, serving, sent, dataVars, err,
                 state, socket, peer, rcmd, timeout>>

WriteSend ==
  /\ pc[WriteThread] = "send"
  /\ \/ /\ socket = "open" /\ peer = "attached"
        /\ sent' = sent \o wrep
        /\ wrep' = <<>>
        /\ Goto(WriteThread, "take")
     \/ /\ socket # "open" \/ peer = "closed"
        /\ Goto(WriteThread, "failed")
        /\ UNCHANGED <<sent, wrep>>
  /\ UNCHANGED <<hostVars, cmds, queueVars, dataVars, err,
                 waiting, state, socket, peer, rcmd, timeout>>

(***************************************************************************)
(* The end of both threads: the catch clause and the flag.                 *)
(***************************************************************************)
ThreadCatch(t) ==
  /\ pc[t] = "failed" /\ Free
  /\ Reset(t, "transport")
  /\ UNCHANGED <<hostVars, handVars, cmds, queueVars, sent, dataVars, peer, timeout>>

FlagOf(t) == IF t = ReadThread THEN "ReadThreadRunning" ELSE "WriteThreadRunning"

ThreadExit(t) ==
  /\ pc[t] = "exiting" /\ Free
  /\ state' = state \ {FlagOf(t)}
  /\ NotifyAll
  /\ Goto(t, "done")
  /\ UNCHANGED <<queues, socket, peer, timeout>>

(***************************************************************************)
(* The environment: the host, and wake-ups for no reason.                  *)
(***************************************************************************)
HostActs ==
  /\ peer = "attached" /\ socket = "open"
  /\ HostSubmit \/ HostUnlink
  /\ UNCHANGED <<handVars, cmds, queueVars, sent, dataVars, err, pc, threadVars>>

HostCloses ==
  /\ PeerMayClose /\ peer = "attached"
  /\ peer' = "closed"
  /\ UNCHANGED <<queues, pc, waiting, state, socket, timeout>>

SpuriousWakeup(t) ==
  /\ t \in waiting
  /\ waiting' = waiting \ {t}
  /\ UNCHANGED <<queues, pc, state, socket, peer, timeout>>
------------------------------------------------------------------------------
Begin ==
  /\ Init
  /\ pc = [t \in Threads |-> IF t \in DeviceThreadSet THEN "absent" ELSE "idle"]
  /\ waiting = {} /\ state = {} /\ socket = "none" /\ peer = "absent"
  /\ timeout = [r \in Readers |-> "zero"]

ReadThreadStep  == ReadInit \/ ReadRecv \/ ReadPush
WriteThreadStep == WriteInit \/ WriteTake \/ WriteSend

Step ==
  \/ Start
  \/ \E r \in Readers : ReadCall(r) \/ ReadStep(r) \/ ReadTimeout(r)
  \/ \E w \in Writers : WriteCall(w)
  \/ \E t \in Readers \cup Writers : Serve(t)
  \/ \E s \in Stoppers : Stop(s)
  \/ ReadThreadStep \/ WriteThreadStep
  \/ \E t \in DeviceThreadSet : ThreadCatch(t) \/ ThreadExit(t)
  \/ \E t \in Threads : ResetWake(t) \/ SpuriousWakeup(t)
  \/ HostActs \/ HostCloses

ThreadSpec == Begin /\ [][Step]_vars

(* A thread that can go on does; nobody is obliged to make a call.         *)
Fairness ==
  /\ WF_vars(StartCatch)
  /\ WF_vars(ReadThreadStep) /\ WF_vars(WriteThreadStep)
  /\ \A t \in DeviceThreadSet : WF_vars(ThreadCatch(t) \/ ThreadExit(t))
  /\ \A t \in Threads : WF_vars(ResetWake(t))
  /\ \A r \in Readers : WF_vars(ReadStep(r))
  /\ \A t \in Readers \cup Writers : WF_vars(Serve(t))

FairThreadSpec == ThreadSpec /\ Fairness

(* The application calls read() again and again, as main.cpp does.         *)
FairAppSpec == FairThreadSpec /\ \A r \in Readers : WF_vars(ReadCall(r))
------------------------------------------------------------------------------
(***************************************************************************)
(* Properties.                                                             *)
(***************************************************************************)
Labels == {"absent", "idle", "throwing", "reading", "sleeping", "serving", "resetting",
           "init", "recv", "push", "take", "send", "failed", "exiting", "done"}

ThreadTypeOK ==
  /\ pc \in [Threads -> Labels]
  /\ waiting \subseteq Threads
  /\ state \subseteq Flags
  /\ socket \in {"none", "open", "shut", "closed"}
  /\ peer \in {"absent", "attached", "closed"}
  /\ timeout \in [Readers -> {"zero", "finite", "forever"}]
  /\ rcmd # <<>> <=> pc[ReadThread] = "push"
  /\ pc[WriteThread] = "send" => wrep # <<>>
  /\ pc[WriteThread] \in {"absent", "init", "take"} => wrep = <<>>

Gone(t) == pc[t] \in {"absent", "done"}

(* The socket is there as long as the read or the write thread may use it: *)
(* the two keep a copy of the descriptor and use it without the lock       *)
(* (_readThread 385-389, _writeThread 422-426, _reset 860-874).            *)
SocketOutlivesThreads ==
  \A t \in DeviceThreadSet : ~Gone(t) => socket \in {"open", "shut"}

(* No wake-up is lost: a thread blocked on _s.signal has nothing to do,    *)
(* whatever happened between its last look and now (the wait loops of read *)
(* 125-153, _writeThread 433-441 and _reset 861-864 share one condition    *)
(* variable).                                                              *)
NoLostWakeup ==
  \A t \in waiting :
    CASE pc[t] = "sleeping"  -> cmds = <<>> /\ err = "none"
      [] pc[t] = "take"      -> reps = <<>> /\ err = "none"
      [] pc[t] = "resetting" -> state \cap Running # {}
      [] OTHER               -> FALSE

(* When a caller of read() and the write thread sleep, nobody is serving   *)
(* an endpoint and the read thread has nothing to read, the host is owed   *)
(* nothing: every command has its answer, was taken back, or is a request  *)
(* for data that is not there (the handlers run inside read, 154-159, the  *)
(* replies go out at 433-449).                                             *)
AllAsleep ==
  /\ WriteThread \in waiting /\ pc[WriteThread] = "take"
  /\ \E r \in Readers : r \in waiting /\ pc[r] = "sleeping"
  /\ pc[ReadThread] = "recv" /\ wire = <<>>
  /\ serving = NoEp

TakenBack(n) ==
  \E i \in DOMAIN sent :
    /\ sent[i].command = "RetUnlink" /\ sent[i].status = -ECONNRESET
    /\ issued[sent[i].seqnum].target = n

Starved(n) == \E e \in Endpoints : At(inCmds[e], n) # {} /\ inData[e] = <<>>

AsleepMeansServed ==
  AllAsleep => \A n \in DOMAIN issued : Answered(n) \/ TakenBack(n) \/ Starved(n)

(* Whoever fails later, the error that callers see is the first cause      *)
(* (the comments at 110, 165, 204: "the original cause (eg ErrStopped)").  *)
FirstCauseWins == [][err # "none" => err' = err]_vars

(* Once the device has failed, no step of any thread answers a command,    *)
(* takes data or sends a reply, not even one that was in hand.             *)
QuietAfterFailure == [][err # "none" => UNCHANGED <<queueVars, sent, dataVars>>]_vars

(* The threads keep the discipline of the queues: what CommandQueues       *)
(* excludes does not happen between them either.                           *)
ImplementsCommandQueues == Spec

(* A failure, whatever its cause, releases every client from read() and    *)
(* write() ("Wake threads so they can observe `_s.err`", 846).             *)
CallsReturn ==
  \A c \in Readers \cup Writers :
    (err # "none" /\ pc[c] # "idle") ~> pc[c] = "idle"

(* After a failure both threads exit and the socket is closed (_reset,     *)
(* 860-874: "Wait until the threads exit", "Close sockets now that the     *)
(* thread has exited"), whoever it is that waits for them: a client, one   *)
(* of the two threads, or a start() that could not create one (102-109).   *)
ShutDown ==
  /\ socket \in {"none", "closed"}
  /\ \A t \in DeviceThreadSet : Gone(t)

ShutdownCompletes == err # "none" ~> ShutDown

(* If the first to fail was a client (stop(), or read() with a command it  *)
(* rejects) there is always a thread that can bring the shutdown on:       *)
(* nobody waits for a thread that waits for it, or for the lock, or for a  *)
(* recv() that returns nothing (_reset 846-864, _readThread 395-414).      *)
CanGoOn(t) ==
  /\ t \notin waiting
  /\ pc[t] = "recv" => wire # <<>> \/ socket # "open" \/ peer = "closed"

ShutdownGoesOn ==
  err \in {"stopped", "command"} /\ ~ShutDown =>
    /\ Free
    /\ \E t \in Threads :
         /\ CanGoOn(t)
         /\ pc[t] = "resetting" \/ (t \in DeviceThreadSet /\ ~Gone(t))

(* So the shutdown that a client began ends, whatever fails on the way.    *)
ClientShutdownCompletes == err \in {"stopped", "command"} ~> ShutDown
==============================================================================
