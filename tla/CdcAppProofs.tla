---------------------------- MODULE CdcAppProofs ----------------------------
(***************************************************************************)
(* Proofs about CdcApp: the application uses the device by its interface,  *)
(* so the device's theorems hold in it, and it writes at most one line to  *)
(* a terminal that has left.                                               *)
(***************************************************************************)
EXTENDS CdcApp, ReplyOrderProofs

LEMMA InFacts == In2 \in WriteEps /\ TextLen \in WriteLens
BY AppAssumption

(* Every step of the application is one of the device's steps or leaves    *)
(* the device alone.                                                       *)
LEMMA StepOfDevice ==
  ASSUME AppNext
  PROVE  [Next]_queues
<1>1. ASSUME Start \/ Spawn
      PROVE  [Next]_queues
  BY <1>1 DEF Start, Spawn, Next
<1>2. ASSUME ReadXfer
      PROVE  [Next]_queues
  BY <1>2 DEF ReadXfer, Next
<1>3. ASSUME ReadBeyondTable \/ ReadThrows \/ HandleXfer \/ Exit
      PROVE  UNCHANGED queues
  BY <1>3 DEF ReadBeyondTable, ReadThrows, HandleXfer, Exit
<1>4. ASSUME RespCheck \/ RespSpurious \/ RespTerminates \/ RespWakeUp
      PROVE  UNCHANGED queues
  BY <1>4 DEF RespCheck, RespSpurious, RespTerminates, RespWakeUp
<1>5. ASSUME RespWrite
      PROVE  Write
  BY <1>5, InFacts DEF RespWrite, Write
<1>6. ASSUME DeviceHost \/ DeviceReceive \/ DeviceSend \/ DeviceTransmit \/ DeviceFails
      PROVE  Next
  BY <1>6 DEF DeviceHost, DeviceReceive, DeviceSend, DeviceTransmit, DeviceFails, Next
<1> QED
  BY <1>1, <1>2, <1>3, <1>4, <1>5, <1>6 DEF AppNext, Main, Resp, Next

(* Whatever the host does, the application implements the use of the       *)
(* device that CommandQueues describes.                                    *)
THEOREM UsesDeviceRightly == AppSpec => UsesDevice
<1>1. AppInit => Init
  BY DEF AppInit
<1>2. [AppNext]_allVars => [Next]_queues
  BY StepOfDevice DEF allVars
<1> QED
  BY <1>1, <1>2, PTL DEF AppSpec, UsesDevice, Spec

(* So nothing stalls on an endpoint of the application either.             *)
THEOREM NothingStallsInApp == AppSpec => []NoStalledIn
BY UsesDeviceRightly, NothingStalls, PTL DEF UsesDevice

(***************************************************************************)
(* No line was written late while the terminal is there, nor when the      *)
(* response thread is about to write: it has then seen the terminal after  *)
(* any line it wrote late.                                                 *)
(***************************************************************************)
LateInv ==
  /\ late \in {0, 1}
  /\ dtePresent => late = 0
  /\ respAt = "write" => late = 0

LEMMA LateStep ==
  ASSUME LateInv, [AppNext]_allVars
  PROVE  LateInv'
<1>1. CASE Start \/ Spawn
  BY <1>1 DEF LateInv, Start, Spawn
<1>2. CASE ReadXfer \/ ReadBeyondTable \/ ReadThrows \/ Exit
  BY <1>2 DEF LateInv, ReadXfer, ReadBeyondTable, ReadThrows, Exit
<1>3. CASE HandleXfer
  <2>1. CASE SetsLine(xfer)
    <3>1. \/ dtePresent' /\ late' = 0
          \/ ~dtePresent' /\ late' = late
      BY <1>3, <2>1 DEF HandleXfer, LineState
    <3>2. respAt' = "write" => respAt = "write"
      BY <1>3, <2>1 DEF HandleXfer, LineState
    <3> QED
      BY <3>1, <3>2 DEF LateInv
  <2>2. CASE ~SetsLine(xfer)
    BY <1>3, <2>2 DEF LateInv, HandleXfer
  <2> QED
    BY <2>1, <2>2
<1>4. CASE RespCheck
  BY <1>4 DEF LateInv, RespCheck
<1>5. CASE RespWrite
  BY <1>5 DEF LateInv, RespWrite
<1>6. CASE RespSpurious \/ RespTerminates \/ RespWakeUp
  BY <1>6 DEF LateInv, RespSpurious, RespTerminates, RespWakeUp
<1>7. CASE DeviceHost \/ DeviceReceive \/ DeviceSend \/ DeviceTransmit \/ DeviceFails
  BY <1>7 DEF LateInv, appVars, DeviceHost, DeviceReceive, DeviceSend, DeviceTransmit,
              DeviceFails
<1>8. CASE UNCHANGED allVars
  BY <1>8 DEF LateInv, allVars, appVars
<1> QED
  BY <1>1, <1>2, <1>3, <1>4, <1>5, <1>6, <1>7, <1>8 DEF AppNext, Main, Resp

(* However often the terminal comes and goes, at most one line is written  *)
(* after it has left.                                                      *)
THEOREM AtMostOneLate == AppSpec => []LateWrites
<1>1. AppInit => LateInv
  BY DEF AppInit, LateInv
<1>2. LateInv => LateWrites
  BY DEF LateInv, LateWrites
<1> QED
  BY <1>1, <1>2, LateStep, PTL DEF AppSpec

(* The response thread does not wait while a terminal is there: the        *)
(* notification (65) does not get lost between its look at dtePresent and  *)
(* its wait, whatever has come and gone meanwhile (131-132).               *)
NoTerminalMissed == respAt = "waiting" => ~dtePresent

(* The thread that waits for a terminal is notified of the one that comes. *)
THEOREM TerminalIsNoticed == AppSpec => []NoTerminalMissed
<1>1. AppInit => NoTerminalMissed
  BY DEF AppInit, NoTerminalMissed
<1>2. ASSUME NoTerminalMissed, [AppNext]_allVars PROVE NoTerminalMissed'
  <2>1. Start \/ Spawn \/ ReadXfer \/ ReadBeyondTable \/ ReadThrows \/ Exit
          => NoTerminalMissed'
    BY <1>2 DEF Start, Spawn, ReadXfer, ReadBeyondTable, ReadThrows, Exit, NoTerminalMissed
  <2>2. HandleXfer => NoTerminalMissed'
    BY <1>2 DEF HandleXfer, LineState, NoTerminalMissed
  <2>3. Resp => NoTerminalMissed'
    BY <1>2 DEF Resp, RespCheck, RespSpurious, RespWrite, RespTerminates, RespWakeUp,
                NoTerminalMissed
  <2>4. ASSUME UNCHANGED appVars PROVE NoTerminalMissed'
    BY <1>2, <2>4 DEF appVars, NoTerminalMissed
  <2> QED
    BY <1>2, <2>1, <2>2, <2>3, <2>4
    DEF AppNext, Main, DeviceHost, DeviceReceive, DeviceSend, DeviceTransmit, DeviceFails, allVars
<1> QED
  BY <1>1, <1>2, PTL DEF AppSpec

(***************************************************************************)
(* Types.  Only Spawn creates the response thread, after a start() that    *)
(* succeeded; only a start() that fails leaves the cause "start", after    *)
(* which the main thread exits or waits for ever.                          *)
(***************************************************************************)
LEMMA AppTypeInit == AppInit => AppTypeOK
<1>1. NoXfer \in [ep : EpNumbers, len : Nat, setup : SetupRequest]
  <2>1. NoSetup \in SetupRequest /\ 0 \in EpNumbers
    BY DEF NoSetup, SetupRequest, RequestTypes, Recipients, Requests, DescTypes, EpNumbers
  <2> QED
    BY <2>1 DEF NoXfer
<1>2. ASSUME AppInit
      PROVE  /\ respAt = "absent" /\ mainAt = "start" /\ err = "none" /\ dtePresent = FALSE
             /\ xfer = NoXfer /\ process = "running" /\ late = 0
  BY <1>2 DEF AppInit, Init
<1> QED
  BY <1>1, <1>2 DEF AppTypeOK, MainPlaces, RespPlaces

(* What the device does by itself sets no cause that main() waits for.     *)
LEMMA DeviceCauses ==
  ASSUME DeviceHost \/ DeviceReceive \/ DeviceSend \/ DeviceTransmit \/ DeviceFails
  PROVE  UNCHANGED appVars /\ (err' = err \/ (err = "none" /\ err' = "transport"))
BY DEF DeviceHost, DeviceReceive, DeviceSend, DeviceTransmit, DeviceFails, Host, Receive, Push,
       Send, Take, Transmit, Fail

LEMMA AppTypeStep ==
  ASSUME TypeOK, AppTypeOK, [AppNext]_allVars
  PROVE  AppTypeOK'
<1>1. CASE Start
  <2>1. /\ mainAt = "start"
        /\ \/ mainAt' = "spawn" /\ err' = err
           \/ mainAt' \in {"caught", "resetting"} /\ err' = "start"
        /\ UNCHANGED <<dtePresent, xfer, respAt, process, late>>
    BY <1>1 DEF Start, queues
  <2> QED
    BY <2>1 DEF AppTypeOK, MainPlaces
<1>2. CASE ReadXfer
  <2>1. err' = err \/ (err = "none" /\ err' = "command")
    BY <1>2 DEF ReadXfer, Handle
  <2>2. Head(cmds) \in Command
    BY <1>2, HeadTailProperties DEF ReadXfer, Handle, TypeOK
  <2>3. XferOf(Head(cmds)) \in [ep : EpNumbers, len : Nat, setup : SetupRequest]
    BY <2>2 DEF XferOf, Command
  <2>4. xfer' = xfer \/ xfer' = XferOf(Head(cmds))
    BY <1>2 DEF ReadXfer
  <2>5. mainAt' \in {"caught", "handle", "read"} /\ (err' # "none" => mainAt' = "caught")
    BY <1>2 DEF ReadXfer
  <2>6. UNCHANGED <<dtePresent, respAt, process, late>> /\ mainAt = "read"
    BY <1>2 DEF ReadXfer
  <2> QED
    BY <2>1, <2>3, <2>4, <2>5, <2>6 DEF AppTypeOK, MainPlaces
<1>3. CASE Spawn \/ ReadBeyondTable \/ ReadThrows \/ Exit
  BY <1>3 DEF AppTypeOK, Spawn, ReadBeyondTable, ReadThrows, Exit, queues, MainPlaces, RespPlaces
<1>4. CASE HandleXfer
  <2>1. /\ mainAt = "handle" /\ mainAt' \in {"read", "caught"}
        /\ UNCHANGED <<err, xfer, process>>
    BY <1>4 DEF HandleXfer, queues
  <2>2. /\ dtePresent' \in BOOLEAN
        /\ late' = late \/ late' = 0
        /\ respAt' = respAt \/ (respAt = "waiting" /\ respAt' = "check")
    BY <1>4 DEF HandleXfer, LineState, AppTypeOK
  <2> QED
    BY <2>1, <2>2 DEF AppTypeOK, MainPlaces, RespPlaces
<1>5. CASE RespCheck \/ RespSpurious \/ RespTerminates \/ RespWakeUp
  BY <1>5 DEF AppTypeOK, RespCheck, RespSpurious, RespTerminates, RespWakeUp, queues, RespPlaces
<1>6. CASE RespWrite
  BY <1>6 DEF AppTypeOK, RespWrite, RespPlaces
<1>7. CASE DeviceHost \/ DeviceReceive \/ DeviceSend \/ DeviceTransmit \/ DeviceFails
  BY <1>7, DeviceCauses DEF AppTypeOK, appVars
<1>8. CASE UNCHANGED allVars
  BY <1>8 DEF AppTypeOK, allVars, appVars, queues
<1> QED
  BY <1>1, <1>2, <1>3, <1>4, <1>5, <1>6, <1>7, <1>8 DEF AppNext, Main, Resp

(* The main thread does not read before start() and the creation of the    *)
(* response thread have both succeeded; no response thread exists after a  *)
(* start() that failed; main() has caught what a failed start() threw,     *)
(* unless start() does not return, and what a handler threw, however the   *)
(* threads and the device take turns.                                      *)
THEOREM AppTypeCorrect == AppSpec => []AppTypeOK
<1>1. AppSpec => []TypeOK
  BY UsesDeviceRightly, TypeCorrect, PTL DEF UsesDevice
<1>2. TypeOK /\ AppTypeOK /\ [AppNext]_allVars => AppTypeOK'
  BY AppTypeStep
<1> QED
  BY <1>1, <1>2, AppTypeInit, PTL DEF AppSpec

(* Nor does the program lose a command of the host, or answer one twice,   *)
(* whichever of its threads handles it.                                    *)
THEOREM NothingIsLostInApp == AppSpec => []NoCommandLost
BY UsesDeviceRightly, NothingIsLost, PTL DEF UsesDevice

(* Every transfer the host submits to the program is decided once, also    *)
(* when it takes transfers back while the program writes.                  *)
THEOREM AppDecidesOnce == AppSpec => ImplementsUrbService
BY UsesDeviceRightly, EveryUrbDecidedOnce, PTL DEF UsesDevice

(* The lines that the response thread writes reach the host one after the  *)
(* other and undivided, in the order of the host's requests for data,      *)
(* whatever the main thread does in between.                               *)
THEOREM LinesArriveIntact == AppSpec => [](InStreamIntact /\ InOrder)
<1>1. AppSpec => []InStreamIntact
  BY UsesDeviceRightly, StreamsIntact, PTL DEF UsesDevice
<1>2. AppSpec => []InOrder
  BY UsesDeviceRightly, TransfersInOrder, PTL DEF UsesDevice
<1> QED
  BY <1>1, <1>2, PTL

(* None of its replies is too long for a host that makes room for what it  *)
(* asks.                                                                   *)
THEOREM RepliesFitInApp == ASSUME HostMakesRoom PROVE AppSpec => []ReplyFits
BY UsesDeviceRightly, RepliesFit, PTL DEF UsesDevice
==============================================================================
