-------------------------------- MODULE CdcApp --------------------------------
(***************************************************************************)
(* main.cpp: the serial port application on top of a VirtualUSBDevice.     *)
(* The main thread takes transfers from the device and handles them; the   *)
(* response thread writes a line whenever a terminal is there.  They share *)
(* _State, under its own lock, and the device, under the device's.  Any    *)
(* error ends the process: an exception of the main thread by _exit(1),    *)
(* one of the response thread, which catches none, by std::terminate.      *)
(*                                                                         *)
(* The device is CommandQueues; its steps happen as before, run by the     *)
(* device's own threads or inside the application's read() and write().    *)
(***************************************************************************)
EXTENDS CommandQueues

CONSTANTS
  Out2, In2,      \* endpoint indexes of the data interface
  LineCodingLen,  \* sizeof(_LineCoding)
  TextLen         \* sizeof(text), the line the response thread writes

ASSUME AppAssumption ==
  /\ Out2 \in Endpoints
  /\ In2 \in WriteEps
  /\ LineCodingLen \in Nat
  /\ TextLen \in WriteLens

VARIABLES
  dtePresent,  \* _State.dtePresent
  mainAt,      \* where the main thread is
  xfer,        \* the transfer it handles
  respAt,      \* where the response thread is
  process,     \* whether the process runs, and how it ended
  late         \* history: lines written since the terminal left

appVars == <<dtePresent, mainAt, xfer, respAt, process, late>>
allVars == <<queues, appVars>>

MainPlaces == {"start", "resetting", "spawn", "read", "handle", "caught"}
RespPlaces == {"absent", "check", "waiting", "write", "sleep"}
Running    == process = "running"

(***************************************************************************)
(* The main thread.                                                        *)
(***************************************************************************)
NoXfer == [ep |-> 0, len |-> 0, setup |-> NoSetup]

(* dev.start() returns, or throws.  When it cannot create one of the       *)
(* device's threads it does neither: it waits in _reset for ever, for the  *)
(* end of a thread that does not exist (DeviceThreads!SpawnFails).         *)
Start ==
  /\ mainAt = "start"
  /\ \/ /\ mainAt' = "spawn"
        /\ UNCHANGED queues
     \/ /\ Fail
        /\ err' = "start"
        /\ mainAt' \in {"caught", "resetting"}
  /\ UNCHANGED <<dtePresent, xfer, respAt, process, late>>

(* The response thread is created, or std::thread throws.                  *)
\* Mutant: the application goes on without the thread.
SpawnIgnored ==
  /\ mainAt = "spawn"
  /\ mainAt' = "read"
  /\ respAt' \in {"check", "absent"}
  /\ UNCHANGED <<queues, dtePresent, xfer, process, late>>

Spawn ==
  /\ mainAt = "spawn"
  /\ \/ mainAt' = "read" /\ respAt' = "check"
     \/ mainAt' = "caught" /\ UNCHANGED respAt
  /\ UNCHANGED <<queues, dtePresent, xfer, process, late>>

(* dev.read(): a command is handled in the device; an OUT transfer comes   *)
(* back, a command the device rejects or the device's error is thrown.     *)
XferOf(cmd) == [ep |-> cmd.ep, len |-> cmd.length, setup |-> cmd.setup]

ReadXfer ==
  /\ mainAt = "read"
  /\ Handle
  /\ LET cmd == Head(cmds) IN
       IF err' # "none"
         THEN mainAt' = "caught" /\ UNCHANGED xfer
         ELSE IF IsTransfer(cmd) /\ cmd.direction = "Out"
                THEN mainAt' = "handle" /\ xfer' = XferOf(cmd)
                ELSE UNCHANGED <<mainAt, xfer>>
  /\ UNCHANGED <<dtePresent, respAt, process, late>>

(* The read past the table of configuration descriptors may also kill the  *)
(* process.                                                                *)
ReadBeyondTable ==
  /\ mainAt = "read"
  /\ err = "none" /\ serving = NoEp /\ cmds # <<>>
  /\ LET cmd == Head(cmds) IN
       /\ IsStandard(cmd) /\ StandardSupported(cmd, configDesc # 0)
       /\ cmd.setup.request = "GetDescriptor" /\ PastTheTable(cmd.setup)
  /\ process' = "aborted"
  /\ UNCHANGED <<queues, dtePresent, mainAt, xfer, respAt, late>>

ReadThrows ==
  /\ mainAt = "read"
  /\ err # "none"
  /\ mainAt' = "caught"
  /\ UNCHANGED <<queues, dtePresent, xfer, respAt, process, late>>

(* _handleXferEP0 and _handleXferEPX.  A transfer that comes back is an    *)
(* OUT transfer, so only the DirectionOut half can be reached.             *)
XferOK(x) ==
  IF x.ep = 0
    THEN /\ x.setup.type = "Class"
         /\ x.setup.recipient = "Interface"
         /\ \/ x.setup.request = "SET_LINE_CODING" /\ x.len = LineCodingLen
            \/ x.setup.request \in {"SET_CONTROL_LINE_STATE", "SEND_BREAK"}
    ELSE x.ep = Out2

SetsLine(x) == XferOK(x) /\ x.ep = 0 /\ x.setup.request = "SET_CONTROL_LINE_STATE"

\* Mutant: the response thread is not notified.
LineStateSilent(present) ==
  /\ dtePresent' = present
  /\ late' = IF present THEN 0 ELSE late
  /\ UNCHANGED respAt

LineState(present) ==
  /\ dtePresent' = present
  /\ late' = IF present THEN 0 ELSE late
  /\ respAt' = IF respAt = "waiting" THEN "check" ELSE respAt

\* Mutant: a transfer that cannot be handled is dropped.
HandleXferIgnores ==
  /\ mainAt = "handle"
  /\ mainAt' = "read"
  /\ IF SetsLine(xfer)
       THEN LineState(xfer.setup.low % 2 = 1)
       ELSE UNCHANGED <<dtePresent, late, respAt>>
  /\ UNCHANGED <<queues, xfer, process>>

HandleXfer ==
  /\ mainAt = "handle"
  /\ mainAt' = IF XferOK(xfer) THEN "read" ELSE "caught"
  /\ IF SetsLine(xfer)
       THEN LineState(xfer.setup.low % 2 = 1)
       ELSE UNCHANGED <<dtePresent, late, respAt>>
  /\ UNCHANGED <<queues, xfer, process>>

(* The outer catch of main().                                              *)
Exit ==
  /\ mainAt = "caught"
  /\ process' = "exited"
  /\ UNCHANGED <<queues, dtePresent, mainAt, xfer, respAt, late>>

(***************************************************************************)
(* The response thread.                                                    *)
(***************************************************************************)
\* Mutant: a wait that returns is taken for a terminal.
RespCheckOnce ==
  /\ respAt = "check"
  /\ respAt' = "write"
  /\ UNCHANGED <<queues, dtePresent, mainAt, xfer, process, late>>

RespCheck ==
  /\ respAt = "check"
  /\ respAt' = IF dtePresent THEN "write" ELSE "waiting"
  /\ UNCHANGED <<queues, dtePresent, mainAt, xfer, process, late>>

(* A condition variable may return without a notification.                 *)
RespSpurious ==
  /\ respAt = "waiting"
  /\ respAt' = "check"
  /\ UNCHANGED <<queues, dtePresent, mainAt, xfer, process, late>>

(* dev.write(), without _State.lock; it throws if the device has failed.   *)
\* Mutant: the device's lock is not taken.
RespWriteUnlocked ==
  /\ respAt = "write"
  /\ err = "none"
  /\ Enqueue(In2, TextLen)
  /\ respAt' = "sleep"
  /\ late' = IF dtePresent THEN 0 ELSE late + 1
  /\ UNCHANGED <<hostVars, handVars, cmds, sent, err, dtePresent, mainAt, xfer, process>>

RespWrite ==
  /\ respAt = "write"
  /\ err = "none" /\ serving = NoEp
  /\ Enqueue(In2, TextLen)
  /\ respAt' = "sleep"
  /\ late' = IF dtePresent THEN 0 ELSE late + 1
  /\ UNCHANGED <<hostVars, handVars, cmds, sent, err, dtePresent, mainAt, xfer, process>>

RespTerminates ==
  /\ respAt = "write"
  /\ err # "none" /\ serving = NoEp
  /\ process' = "aborted"
  /\ UNCHANGED <<queues, dtePresent, mainAt, xfer, respAt, late>>

(* write() returns when the transfers are served; usleep().                *)
RespWakeUp ==
  /\ respAt = "sleep" /\ serving = NoEp
  /\ respAt' = "check"
  /\ UNCHANGED <<queues, dtePresent, mainAt, xfer, process, late>>
------------------------------------------------------------------------------
AppInit ==
  /\ Init
  /\ dtePresent = FALSE
  /\ mainAt = "start"
  /\ xfer = NoXfer
  /\ respAt = "absent"
  /\ process = "running"
  /\ late = 0

Main == Start \/ Spawn \/ ReadXfer \/ ReadBeyondTable \/ ReadThrows \/ HandleXfer \/ Exit

Resp == RespCheck \/ RespSpurious \/ RespWrite \/ RespTerminates \/ RespWakeUp

(* The device's threads and the host, once start() has attached the        *)
(* device.                                                                 *)
Attached == mainAt # "start" /\ (err = "start" => mainAt = "resetting")

DeviceHost     == Host /\ Attached /\ UNCHANGED appVars
DeviceReceive  == (Receive \/ Push) /\ Attached /\ UNCHANGED appVars
DeviceSend     == Send /\ UNCHANGED appVars
DeviceTransmit == (Take \/ Transmit) /\ UNCHANGED appVars
DeviceFails    == Fail /\ err' = "transport" /\ Attached /\ UNCHANGED appVars

AppNext ==
  /\ Running
  /\ Main \/ Resp \/ DeviceHost \/ DeviceReceive \/ DeviceSend \/ DeviceTransmit \/ DeviceFails

AppSpec == AppInit /\ [][AppNext]_allVars

(* Every thread that can run does: start() returns, throws or gets into    *)
(* _reset.  Wake-ups without a reason, failures, what the host does and    *)
(* the device's threads, once one is missing, are not promised.            *)
AppFairSpec ==
  /\ AppSpec
  /\ WF_allVars(Running /\ Main)
  /\ WF_allVars(Running /\ (RespCheck \/ RespWrite \/ RespTerminates \/ RespWakeUp))
  /\ WF_allVars(Running /\ mainAt # "resetting" /\ DeviceReceive)
  /\ WF_allVars(Running /\ DeviceSend)
  /\ WF_allVars(Running /\ DeviceTransmit)
------------------------------------------------------------------------------
(***************************************************************************)
(* Properties.                                                             *)
(***************************************************************************)
(* The main thread reads and handles transfers only once both start() and  *)
(* the creation of the response thread have succeeded (main.cpp:159-180),  *)
(* and an error that start() or read() throws is not missed.               *)
AppTypeOK ==
  /\ mainAt \in {"start", "resetting", "spawn"} => respAt = "absent"
  /\ mainAt \in {"read", "handle"} => respAt # "absent"
  /\ err = "start" => respAt = "absent" /\ mainAt \in {"resetting", "caught"}
  /\ mainAt = "resetting" => err = "start"
  /\ err = "command" => mainAt = "caught"
  /\ dtePresent \in BOOLEAN
  /\ mainAt \in MainPlaces
  /\ xfer \in [ep : EpNumbers, len : Nat, setup : SetupRequest]
  /\ respAt \in RespPlaces
  /\ process \in {"running", "exited", "aborted"}
  /\ late \in Nat

(* The response thread looks at dtePresent under _State.lock and writes    *)
(* after it has released it (135-138), so it may write to a terminal that  *)
(* has left, but never more than the one line it was about to write.       *)
LateWrites == late <= 1

(* A terminal that is there is served: the next line is written to it,     *)
(* unless it leaves or the process ends (_threadResponse, 128-140).        *)
TerminalServed ==
  \A k \in 0 .. MaxWrites - 1 :
    dtePresent /\ writes = k ~> ~dtePresent \/ writes # k \/ ~Running

(* The process does not survive the device's failure, an exception of      *)
(* main(), nor a transfer it cannot handle: the main thread gets to _exit  *)
(* whatever the response thread is doing, which need not be the wait that  *)
(* main.cpp:185 expects.  The exception is a start() that never returns    *)
(* (VirtualUSBDevice.cpp:102-109).                                         *)
FailureEndsProcess ==
  \/ err # "none" /\ mainAt # "resetting"
  \/ mainAt = "caught"
  \/ mainAt = "handle" /\ ~XferOK(xfer)
  ~> ~Running

(* The host gets its answers although the application does other things    *)
(* between two calls of read(): a transfer in progress, the line written   *)
(* by the other thread, a lock taken for it.  A device whose start() does  *)
(* not return is excepted.                                                 *)
HostIsAnswered ==
  \A n \in 1 .. MaxCommands :
    n \in DOMAIN issued ~>
      \/ Answered(n) \/ Withdrawn(n) \/ AwaitsData(n) \/ Blocked
      \/ ~Running \/ mainAt = "resetting"

(* The application uses the device as its interface says: everything it    *)
(* does to the queues is a step of CommandQueues, whose invariants hold.   *)
UsesDevice == Spec

(* The host gets the line coding it asks for with GET_LINE_CODING          *)
(* (main.cpp:82-88).                                                       *)
LineCodingAnswered ==
  \A n \in 1 .. MaxCommands :
    (/\ n \in DOMAIN issued
     /\ IsTransfer(issued[n]) /\ issued[n].ep = 0 /\ issued[n].direction = "In"
     /\ issued[n].setup.request = "GET_LINE_CODING")
    ~> \/ Answered(n) \/ Withdrawn(n) \/ Blocked
       \/ ~Running \/ mainAt = "resetting"
==============================================================================
