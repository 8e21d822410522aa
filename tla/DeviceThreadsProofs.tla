------------------------- MODULE DeviceThreadsProofs -------------------------
(***************************************************************************)
(* Proofs about DeviceThreads, for any number of client threads and any    *)
(* faults: the socket outlives the threads that use it, the first failure  *)
(* freezes the device, and the threads keep to the steps of CommandQueues, *)
(* so that its theorems hold of them.                                      *)
(***************************************************************************)
EXTENDS DeviceThreads, ReplyOrderProofs

(***************************************************************************)
(* The inductive invariant.  A device thread that has not exited keeps its *)
(* flag in _s.state, and while a flag is set the socket is not closed.     *)
(***************************************************************************)
PcType == pc \in [Threads -> Labels]

FlagsCover == \A t \in DeviceThreadSet : ~Gone(t) => FlagOf(t) \in state

SocketHeld == state \cap Running # {} => socket \in {"open", "shut"}

SocketInv == PcType /\ FlagsCover /\ SocketHeld

LEMMA Sets ==
  /\ Readers \subseteq Threads /\ Writers \subseteq Threads /\ Stoppers \subseteq Threads
  /\ Starter \in Threads /\ DeviceThreadSet \subseteq Threads
  /\ ReadThread \in DeviceThreadSet /\ WriteThread \in DeviceThreadSet
  /\ ReadThread # WriteThread
  /\ Readers \cap DeviceThreadSet = {} /\ Writers \cap DeviceThreadSet = {}
  /\ Stoppers \cap DeviceThreadSet = {} /\ Starter \notin DeviceThreadSet
  /\ Starter \notin Readers /\ Starter \notin Writers /\ Starter \notin Stoppers
BY ThreadsAssumption DEF Threads, Clients, DeviceThreadSet

LEMMA FlagsDiffer ==
  /\ \A t \in DeviceThreadSet : FlagOf(t) \in Running
  /\ \A t, u \in DeviceThreadSet : t # u => FlagOf(t) # FlagOf(u)
BY Sets DEF FlagOf, Running, DeviceThreadSet

LEMMA SocketInit == Begin => SocketInv
BY Sets DEF Begin, SocketInv, PcType, FlagsCover, SocketHeld, Gone, Running, Labels

(* A step that moves one thread and leaves the flags and the socket alone. *)
LEMMA MoveKeeps ==
  ASSUME SocketInv, UNCHANGED <<state, socket>>,
         NEW t \in Threads, NEW label \in Labels, Goto(t, label),
         t \in DeviceThreadSet => ~Gone(t)
  PROVE  SocketInv'
<1>1. PcType'
  BY DEF SocketInv, PcType, Goto
<1>2. FlagsCover'
  <2> SUFFICES ASSUME NEW u \in DeviceThreadSet, ~Gone(u)' PROVE FlagOf(u) \in state
    BY DEF FlagsCover, FlagOf
  <2>1. CASE u = t
    BY <2>1 DEF SocketInv, FlagsCover
  <2>2. CASE u # t
    <3>1. pc'[u] = pc[u]
      BY <2>2, Sets DEF Goto, SocketInv, PcType
    <3> QED
      BY <3>1 DEF SocketInv, FlagsCover, Gone
  <2> QED
    BY <2>1, <2>2
<1>3. SocketHeld'
  BY DEF SocketInv, SocketHeld
<1> QED
  BY <1>1, <1>2, <1>3 DEF SocketInv

LEMMA StutterKeeps ==
  ASSUME SocketInv, UNCHANGED <<pc, state, socket>>
  PROVE  SocketInv'
BY DEF SocketInv, PcType, FlagsCover, SocketHeld, Gone, FlagOf

LEMMA AfterResetLabel == \A t : AfterReset(t) \in Labels
BY DEF AfterReset, Labels

(* The thread closes the socket or shuts it down; the thread flags stay.   *)
LEMMA EnterResetKeeps ==
  ASSUME SocketInv, NEW t \in Threads, NEW cause, EnterReset(t, cause),
         t \in DeviceThreadSet => ~Gone(t)
  PROVE  SocketInv'
<1>1. state' \cap Running = state \cap Running /\ state \subseteq state'
  BY DEF EnterReset, Running
<1>2. PICK label \in Labels : Goto(t, label)
  BY AfterResetLabel DEF EnterReset, Labels
<1>3. PcType'
  BY <1>2 DEF SocketInv, PcType, Goto
<1>4. FlagsCover'
  <2> SUFFICES ASSUME NEW u \in DeviceThreadSet, ~Gone(u)' PROVE FlagOf(u) \in state'
    BY DEF FlagsCover, FlagOf
  <2>1. u # t => pc'[u] = pc[u]
    BY <1>2, Sets DEF Goto, SocketInv, PcType
  <2>2. ~Gone(u)
    BY <2>1 DEF Gone
  <2> QED
    BY <1>1, <2>2 DEF SocketInv, FlagsCover
<1>5. SocketHeld'
  BY <1>1 DEF EnterReset, SocketHeld
<1> QED
  BY <1>3, <1>4, <1>5 DEF SocketInv

LEMMA ResetKeeps ==
  ASSUME SocketInv, NEW t \in Threads, NEW cause, Reset(t, cause),
         t \in DeviceThreadSet => ~Gone(t)
  PROVE  SocketInv'
<1>1. CASE AlreadyReset(t)
  BY <1>1, MoveKeeps, AfterResetLabel DEF AlreadyReset
<1>2. CASE EnterReset(t, cause)
  BY <1>2, EnterResetKeeps
<1> QED
  BY <1>1, <1>2 DEF Reset

LEMMA ResetWakeKeeps ==
  ASSUME SocketInv, NEW t \in Threads, ResetWake(t)
  PROVE  SocketInv'
<1>1. ~Gone(t)
  BY DEF ResetWake, Gone
<1>2. CASE state \cap Running = {} /\ CloseSocket /\ Goto(t, AfterReset(t))
  <2>1. FlagsCover' /\ PcType'
    <3>1. \A u \in DeviceThreadSet : Gone(u) /\ u # t
      BY <1>1, <1>2, FlagsDiffer DEF SocketInv, FlagsCover
    <3>2. \A u \in DeviceThreadSet : pc'[u] = pc[u]
      BY <1>2, <3>1, Sets DEF Goto, SocketInv, PcType
    <3> QED
      BY <1>2, <3>1, <3>2, AfterResetLabel DEF Goto, SocketInv, PcType, FlagsCover, Gone
  <2>2. SocketHeld'
    BY <1>2 DEF SocketHeld, ResetWake
  <2> QED
    BY <2>1, <2>2 DEF SocketInv
<1>3. CASE UNCHANGED <<pc, socket>>
  BY <1>3, StutterKeeps DEF ResetWake
<1> QED
  BY <1>2, <1>3 DEF ResetWake

LEMMA ThreadExitKeeps ==
  ASSUME SocketInv, NEW t \in DeviceThreadSet, ThreadExit(t)
  PROVE  SocketInv'
<1>1. PcType'
  BY Sets DEF ThreadExit, Goto, SocketInv, PcType, Labels
<1>2. FlagsCover'
  <2> SUFFICES ASSUME NEW u \in DeviceThreadSet, ~Gone(u)' PROVE FlagOf(u) \in state'
    BY DEF FlagsCover, FlagOf
  <2>1. u # t
    BY Sets DEF ThreadExit, Goto, SocketInv, PcType, Gone
  <2>2. pc'[u] = pc[u]
    BY <2>1, Sets DEF ThreadExit, Goto, SocketInv, PcType
  <2>3. FlagOf(u) \in state
    BY <2>2 DEF SocketInv, FlagsCover, Gone
  <2> QED
    BY <2>1, <2>3, FlagsDiffer DEF ThreadExit
<1>3. SocketHeld'
  BY DEF ThreadExit, SocketInv, SocketHeld
<1> QED
  BY <1>1, <1>2, <1>3 DEF SocketInv

LEMMA StartKeeps ==
  ASSUME SocketInv, Start
  PROVE  SocketInv'
<1>1. CASE StartSucceeds \/ SpawnFails
  <2>1. state' = {"Started"} \cup Running /\ socket' = "open" /\ PcType'
    BY <1>1, Sets DEF StartSucceeds, SpawnFails, SocketInv, PcType, Labels
  <2> QED
    BY <2>1, FlagsDiffer DEF SocketInv, FlagsCover, SocketHeld, FlagOf
<1>2. CASE StartFails
  <2>1. \A u \in DeviceThreadSet : Gone(u)
    BY <1>2 DEF StartFails, SocketInv, FlagsCover
  <2>2. \A u \in DeviceThreadSet : pc'[u] = pc[u]
    BY <1>2, Sets DEF StartFails, Goto, SocketInv, PcType
  <2>3. state' \cap Running = {}
    BY <1>2 DEF StartFails, Running
  <2>4. PcType'
    BY <1>2 DEF StartFails, Goto, SocketInv, PcType, Labels
  <2> QED
    BY <2>1, <2>2, <2>3, <2>4 DEF SocketInv, FlagsCover, SocketHeld, Gone
<1>3. CASE StartCatch
  BY <1>3, Sets, EnterResetKeeps DEF StartCatch
<1> QED
  BY <1>1, <1>2, <1>3 DEF Start

LEMMA ReaderKeeps ==
  ASSUME SocketInv, NEW r \in Readers, ReadCall(r) \/ ReadStep(r) \/ ReadTimeout(r)
  PROVE  SocketInv'
<1>1. r \in Threads /\ r \notin DeviceThreadSet
  BY Sets
<1>2. CASE ReadCall(r)
  BY <1>1, <1>2, MoveKeeps DEF ReadCall, Labels
<1>3. CASE ReadTimeout(r)
  BY <1>1, <1>3, MoveKeeps DEF ReadTimeout, Labels
<1>4. CASE ReadFails(r)
  BY <1>1, <1>4, MoveKeeps, AfterResetLabel DEF ReadFails, AlreadyReset
<1>5. CASE ReadHandles(r)
  <2>1. CASE Goto(r, AfterAccept(Head(cmds))) /\ UNCHANGED <<state, socket>>
    <3>1. AfterAccept(Head(cmds)) \in Labels
      BY DEF AfterAccept, Labels
    <3> QED
      BY <1>1, <2>1, <3>1, MoveKeeps
  <2>2. CASE EnterReset(r, "command")
    BY <1>1, <2>2, EnterResetKeeps
  <2> QED
    BY <1>5, <2>1, <2>2 DEF ReadHandles
<1>6. CASE ReadFindsNothing(r)
  BY <1>1, <1>6, MoveKeeps DEF ReadFindsNothing, Labels
<1> QED
  BY <1>2, <1>3, <1>4, <1>5, <1>6 DEF ReadStep

LEMMA ServeKeeps ==
  ASSUME SocketInv, NEW t \in Readers \cup Writers, Serve(t)
  PROVE  SocketInv'
<1>1. t \in Threads /\ t \notin DeviceThreadSet
  BY Sets
<1>2. CASE UNCHANGED pc
  BY <1>2, StutterKeeps DEF Serve
<1>3. CASE Goto(t, IF t \in Readers THEN "reading" ELSE "idle")
  <2>1. (IF t \in Readers THEN "reading" ELSE "idle") \in Labels
    BY DEF Labels
  <2> QED
    BY <1>1, <1>3, <2>1, MoveKeeps DEF Serve
<1> QED
  BY <1>2, <1>3 DEF Serve

LEMMA DeviceThreadKeeps ==
  ASSUME SocketInv, ReadThreadStep \/ WriteThreadStep
  PROVE  SocketInv'
<1>1. ReadThread \in Threads /\ WriteThread \in Threads
  BY Sets
<1>2. CASE ReadThreadStep
  <2>1. /\ \E label \in Labels : Goto(ReadThread, label)
        /\ ~Gone(ReadThread) /\ UNCHANGED <<state, socket>>
    BY <1>2 DEF ReadThreadStep, ReadInit, ReadRecv, ReadPush, threadVars, Labels, Gone
  <2> QED
    BY <1>1, <2>1, MoveKeeps
<1>3. CASE WriteThreadStep
  <2>1. /\ UNCHANGED pc \/ \E label \in Labels : Goto(WriteThread, label)
        /\ ~Gone(WriteThread) /\ UNCHANGED <<state, socket>>
    BY <1>3 DEF WriteThreadStep, WriteInit, WriteTake, WriteSend, threadVars, Labels, Gone
  <2> QED
    BY <1>1, <2>1, MoveKeeps, StutterKeeps
<1> QED
  BY <1>2, <1>3

LEMMA SocketStep == SocketInv /\ [Step]_vars => SocketInv'
<1> SUFFICES ASSUME SocketInv, [Step]_vars PROVE SocketInv'
  OBVIOUS
<1>1. CASE Start
  BY <1>1, StartKeeps
<1>2. ASSUME NEW r \in Readers, ReadCall(r) \/ ReadStep(r) \/ ReadTimeout(r)
      PROVE  SocketInv'
  BY <1>2, ReaderKeeps
<1>3. ASSUME NEW w \in Writers, WriteCall(w) PROVE SocketInv'
  BY <1>3, Sets, MoveKeeps DEF WriteCall, threadVars, Labels
<1>4. ASSUME NEW t \in Readers \cup Writers, Serve(t) PROVE SocketInv'
  BY <1>4, ServeKeeps
<1>5. ASSUME NEW s \in Stoppers, Stop(s) PROVE SocketInv'
  BY <1>5, Sets, ResetKeeps DEF Stop
<1>6. CASE ReadThreadStep \/ WriteThreadStep
  BY <1>6, DeviceThreadKeeps
<1>7. ASSUME NEW t \in DeviceThreadSet, ThreadCatch(t) \/ ThreadExit(t) PROVE SocketInv'
  <2>1. t \in Threads
    BY Sets
  <2>2. CASE ThreadCatch(t)
    BY <2>1, <2>2, ResetKeeps DEF ThreadCatch, Gone
  <2>3. CASE ThreadExit(t)
    BY <2>3, ThreadExitKeeps
  <2> QED
    BY <1>7, <2>2, <2>3
<1>8. ASSUME NEW t \in Threads, ResetWake(t) \/ SpuriousWakeup(t) PROVE SocketInv'
  BY <1>8, ResetWakeKeeps, StutterKeeps DEF SpuriousWakeup
<1>9. CASE HostActs \/ HostCloses
  BY <1>9, StutterKeeps DEF HostActs, HostCloses, threadVars
<1>10. CASE UNCHANGED vars
  BY <1>10, StutterKeeps DEF vars, threadVars
<1> QED
  BY <1>1, <1>2, <1>3, <1>4, <1>5, <1>6, <1>7, <1>8, <1>9, <1>10 DEF Step

LEMMA SocketInvImplies == SocketInv => SocketOutlivesThreads
BY FlagsDiffer DEF SocketInv, FlagsCover, SocketHeld, SocketOutlivesThreads

(* No thread of the device ever uses a closed socket, whoever resets the   *)
(* device and at whatever moment.                                          *)
THEOREM SocketSafe == ThreadSpec => []SocketOutlivesThreads
BY SocketInit, SocketStep, SocketInvImplies, PTL DEF ThreadSpec

(***************************************************************************)
(* After a failure.  err is set together with the Reset flag, by a thread  *)
(* that holds the lock; from then on the socket is no longer open and      *)
(* nobody is in the sending loop.                                          *)
(***************************************************************************)
ErrIsReset  == err # "none" <=> "Reset" \in state
ResetIsShut == "Reset" \in state => socket # "open" /\ serving = NoEp
LockedStart == pc[Starter] = "throwing" => serving = NoEp

FailureInv == PcType /\ ErrIsReset /\ ResetIsShut /\ LockedStart

LEMMA FailureInit == Begin => FailureInv
<1> SUFFICES ASSUME Begin PROVE FailureInv
  OBVIOUS
<1>1. PcType
  BY SocketInit DEF SocketInv
<1>2. pc[Starter] = "idle"
  BY Sets DEF Begin
<1> QED
  BY <1>1, <1>2 DEF FailureInv, ErrIsReset, ResetIsShut, LockedStart, Begin, Init

(* A step that changes none of err, state, socket and serving, and does    *)
(* not make start() fail.                                                  *)
LEMMA CalmKeeps ==
  ASSUME FailureInv, PcType', UNCHANGED <<err, state, socket, serving>>,
         pc'[Starter] = "throwing" => pc[Starter] = "throwing"
  PROVE  FailureInv'
BY DEF FailureInv, ErrIsReset, ResetIsShut, LockedStart

LEMMA CalmMoveKeeps ==
  ASSUME FailureInv, PcType', UNCHANGED <<err, state, socket, serving>>,
         NEW t \in Threads, NEW label, Goto(t, label), label # "throwing"
  PROVE  FailureInv'
<1>1. pc'[Starter] = "throwing" => pc[Starter] = "throwing"
  BY Sets DEF Goto, FailureInv, PcType
<1> QED
  BY <1>1, CalmKeeps

LEMMA AfterResetCalm == \A t : AfterReset(t) # "throwing"
BY DEF AfterReset

LEMMA EnterResetFailure ==
  ASSUME FailureInv, PcType', NEW t \in Threads, NEW cause, cause # "none",
         EnterReset(t, cause), serving = NoEp, UNCHANGED serving
  PROVE  FailureInv'
<1>1. socket' # "open"
  BY DEF EnterReset, CloseSocket
<1>2. err' # "none" /\ "Reset" \in state'
  BY DEF EnterReset
<1> QED
  BY <1>1, <1>2 DEF FailureInv, ErrIsReset, ResetIsShut, LockedStart

LEMMA ResetFailure ==
  ASSUME FailureInv, PcType', NEW t \in Threads, NEW cause, cause # "none",
         Reset(t, cause), serving = NoEp, UNCHANGED serving
  PROVE  FailureInv'
<1>1. CASE AlreadyReset(t)
  BY <1>1, AfterResetCalm, CalmMoveKeeps DEF AlreadyReset
<1>2. CASE EnterReset(t, cause)
  BY <1>2, EnterResetFailure
<1> QED
  BY <1>1, <1>2 DEF Reset

LEMMA StartFailure ==
  ASSUME FailureInv, PcType', Start
  PROVE  FailureInv'
<1>1. CASE StartSucceeds
  BY <1>1, Sets DEF StartSucceeds, queues, FailureInv, ErrIsReset, ResetIsShut,
                    LockedStart, Running, Free
<1>2. CASE StartFails
  BY <1>2, Sets DEF StartFails, queues, FailureInv, ErrIsReset, ResetIsShut,
                    LockedStart, Running, Free
<1>3. CASE SpawnFails
  BY <1>3, Sets DEF SpawnFails, queues, FailureInv, ErrIsReset, ResetIsShut,
                    LockedStart, Running, Free
<1>4. CASE StartCatch
  <2>1. serving = NoEp /\ UNCHANGED serving
    BY <1>4 DEF StartCatch, FailureInv, LockedStart, queueVars
  <2> QED
    BY <1>4, <2>1, Sets, EnterResetFailure DEF StartCatch
<1> QED
  BY <1>1, <1>2, <1>3, <1>4 DEF Start

LEMMA ReaderFailure ==
  ASSUME FailureInv, PcType', NEW r \in Readers,
         ReadCall(r) \/ ReadStep(r) \/ ReadTimeout(r)
  PROVE  FailureInv'
<1>1. r \in Threads
  BY Sets
<1>2. CASE ReadCall(r)
  BY <1>1, <1>2, CalmMoveKeeps DEF ReadCall, queues
<1>3. CASE ReadTimeout(r)
  BY <1>1, <1>3, CalmMoveKeeps DEF ReadTimeout, queues
<1>4. CASE ReadFails(r)
  BY <1>1, <1>4, CalmMoveKeeps, AfterResetCalm DEF ReadFails, AlreadyReset, queueVars
<1>5. CASE ReadFindsNothing(r)
  BY <1>1, <1>5, CalmMoveKeeps DEF ReadFindsNothing, queues
<1>6. CASE Free /\ ReadHandles(r)
  <2>1. CASE EnterReset(r, "command") /\ UNCHANGED queueVars
    BY <1>1, <1>6, <2>1, EnterResetFailure DEF Free, queueVars
  <2>2. CASE Goto(r, AfterAccept(Head(cmds))) /\ UNCHANGED <<err, state, socket>>
    <3>1. pc'[Starter] = pc[Starter]
      BY <2>2, Sets DEF Goto, FailureInv, PcType
    <3>2. err = "none" /\ "Reset" \notin state /\ pc[Starter] # "throwing"
      BY <1>6 DEF ReadHandles, Free, FailureInv, ErrIsReset
    <3> QED
      BY <2>2, <3>1, <3>2 DEF FailureInv, ErrIsReset, ResetIsShut, LockedStart
  <2> QED
    BY <1>6, <2>1, <2>2 DEF ReadHandles
<1> QED
  BY <1>2, <1>3, <1>4, <1>5, <1>6 DEF ReadStep

LEMMA SendFailure ==
  ASSUME FailureInv, PcType', NEW t \in Readers \cup Writers, WriteCall(t) \/ Serve(t)
  PROVE  FailureInv'
<1>1. t \in Threads /\ t # Starter
  BY Sets
<1>2. UNCHANGED <<err, state, socket>>
  BY DEF WriteCall, Serve, threadVars
<1>3. pc'[Starter] = pc[Starter]
  BY <1>1, Sets DEF WriteCall, Serve, Goto, FailureInv, PcType
<1>4. err = "none" /\ pc[Starter] # "throwing"
  BY Sets DEF WriteCall, Serve, SendOne, SendDone, Free,
         FailureInv, ErrIsReset, ResetIsShut, LockedStart
<1> QED
  BY <1>2, <1>3, <1>4 DEF FailureInv, ErrIsReset, ResetIsShut, LockedStart

LEMMA DeviceThreadFailure ==
  ASSUME FailureInv, PcType', ReadThreadStep \/ WriteThreadStep
  PROVE  FailureInv'
<1>1. UNCHANGED <<err, state, socket, serving>>
  BY DEF ReadThreadStep, WriteThreadStep, ReadInit, ReadRecv, ReadPush,
         WriteInit, WriteTake, WriteSend, queues, queueVars, threadVars
<1>2. pc'[Starter] = pc[Starter]
  BY Sets DEF ReadThreadStep, WriteThreadStep, ReadInit, ReadRecv, ReadPush,
         WriteInit, WriteTake, WriteSend, Goto, FailureInv, PcType
<1> QED
  BY <1>1, <1>2, CalmKeeps

LEMMA EndFailure ==
  ASSUME FailureInv, PcType',
         NEW t \in Threads, ThreadCatch(t) \/ ThreadExit(t) \/ ResetWake(t) \/ Stop(t)
  PROVE  FailureInv'
<1>1. CASE ThreadCatch(t)
  BY <1>1, ResetFailure DEF ThreadCatch, Free, queueVars
<1>2. CASE Stop(t)
  BY <1>2, ResetFailure DEF Stop, Free, queueVars
<1>3. CASE ThreadExit(t)
  <2>1. pc'[Starter] = "throwing" => pc[Starter] = "throwing"
    BY <1>3, Sets DEF ThreadExit, Goto, FailureInv, PcType
  <2>2. "Reset" \in state' <=> "Reset" \in state
    BY <1>3 DEF ThreadExit, FlagOf
  <2> QED
    BY <1>3, <2>1, <2>2 DEF ThreadExit, queues, FailureInv, ErrIsReset, ResetIsShut, LockedStart
<1>4. CASE ResetWake(t)
  <2>1. socket' = "open" => socket = "open"
    BY <1>4 DEF ResetWake, CloseSocket
  <2>2. pc'[Starter] = "throwing" => pc[Starter] = "throwing"
    BY <1>4, Sets, AfterResetCalm DEF ResetWake, Goto, FailureInv, PcType
  <2> QED
    BY <1>4, <2>1, <2>2 DEF ResetWake, queues, FailureInv, ErrIsReset, ResetIsShut, LockedStart
<1> QED
  BY <1>1, <1>2, <1>3, <1>4

LEMMA FailureStep == SocketInv /\ FailureInv /\ [Step]_vars => FailureInv'
<1> SUFFICES ASSUME SocketInv, FailureInv, [Step]_vars PROVE FailureInv'
  OBVIOUS
<1>0. PcType'
  BY SocketStep DEF SocketInv
<1>1. CASE Start
  BY <1>0, <1>1, StartFailure
<1>2. ASSUME NEW r \in Readers, ReadCall(r) \/ ReadStep(r) \/ ReadTimeout(r)
      PROVE  FailureInv'
  BY <1>0, <1>2, ReaderFailure
<1>3. ASSUME NEW t \in Readers \cup Writers, WriteCall(t) \/ Serve(t)
      PROVE  FailureInv'
  BY <1>0, <1>3, SendFailure
<1>4. CASE ReadThreadStep \/ WriteThreadStep
  BY <1>0, <1>4, DeviceThreadFailure
<1>5. ASSUME NEW t \in Threads, ThreadCatch(t) \/ ThreadExit(t) \/ ResetWake(t) \/ Stop(t)
      PROVE  FailureInv'
  BY <1>0, <1>5, EndFailure
<1>6. CASE UNCHANGED <<pc, err, state, socket, serving>>
  BY <1>0, <1>6, CalmKeeps
<1>7. (\E t \in Threads : SpuriousWakeup(t)) \/ HostActs \/ HostCloses \/ UNCHANGED vars
      => UNCHANGED <<pc, err, state, socket, serving>>
  BY DEF SpuriousWakeup, HostActs, HostCloses, vars, queues, queueVars, threadVars
<1> QED
  BY <1>1, <1>2, <1>3, <1>4, <1>5, <1>6, <1>7, Sets DEF Step

(* What a step after a failure may change.                                 *)
LEMMA AfterFailure ==
  ASSUME FailureInv, err # "none", [Step]_vars
  PROVE  err' = err /\ UNCHANGED <<queueVars, sent, dataVars>>
<1>1. "Reset" \in state /\ socket # "open" /\ serving = NoEp
  BY DEF FailureInv, ErrIsReset, ResetIsShut
<1>2. CASE Start
  BY <1>1, <1>2 DEF Start, StartSucceeds, StartFails, SpawnFails, StartCatch, EnterReset
<1>3. ASSUME NEW r \in Readers, ReadCall(r) \/ ReadStep(r) \/ ReadTimeout(r)
      PROVE  err' = err /\ UNCHANGED <<queueVars, sent, dataVars>>
  BY <1>3 DEF ReadCall, ReadStep, ReadFails, AlreadyReset, ReadHandles, ReadFindsNothing,
              ReadTimeout, queues, queueVars, dataVars
<1>4. ASSUME NEW t \in Readers \cup Writers, WriteCall(t) \/ Serve(t)
      PROVE  FALSE
  BY <1>1, <1>4 DEF WriteCall, Serve, SendOne, SendDone
<1>5. ASSUME NEW t \in Threads, Stop(t) \/ ThreadCatch(t) \/ ThreadExit(t) \/ ResetWake(t)
      PROVE  err' = err /\ UNCHANGED <<queueVars, sent, dataVars>>
  BY <1>1, <1>5 DEF Stop, ThreadCatch, Reset, AlreadyReset, EnterReset, ThreadExit, ResetWake,
                    queues, queueVars, dataVars
<1>6. CASE ReadThreadStep
  BY <1>6 DEF ReadThreadStep, ReadInit, ReadRecv, ReadPush, queues, queueVars, dataVars
<1>7. CASE WriteThreadStep
  BY <1>1, <1>7 DEF WriteThreadStep, WriteInit, WriteTake, WriteSend,
                    queues, queueVars, dataVars
<1>8. CASE \/ \E t \in Threads : SpuriousWakeup(t)
           \/ HostActs \/ HostCloses \/ UNCHANGED vars
  BY <1>8 DEF SpuriousWakeup, HostActs, HostCloses, vars, queues, queueVars, dataVars
<1> QED
  BY <1>2, <1>3, <1>4, <1>5, <1>6, <1>7, <1>8, Sets DEF Step

LEMMA FailureAlways == ThreadSpec => [](SocketInv /\ FailureInv)
BY SocketInit, SocketStep, FailureInit, FailureStep, PTL DEF ThreadSpec

(* The error that callers see is the first cause, in every behaviour.      *)
THEOREM FirstCause == ThreadSpec => FirstCauseWins
<1>1. FailureInv /\ [Step]_vars => [err # "none" => err' = err]_vars
  BY AfterFailure
<1> QED
  BY <1>1, FailureAlways, PTL DEF ThreadSpec, FirstCauseWins

(* No step of any thread after a failure answers a command, takes data or  *)
(* sends a reply.                                                          *)
THEOREM Quiet == ThreadSpec => QuietAfterFailure
<1>1. FailureInv /\ [Step]_vars
      => [err # "none" => UNCHANGED <<queueVars, sent, dataVars>>]_vars
  BY AfterFailure
<1> QED
  BY <1>1, FailureAlways, PTL DEF ThreadSpec, QuietAfterFailure

(***************************************************************************)
(* No wake-up is lost.  A blocked thread waits for a condition that only   *)
(* steps that notify everybody make true; and a step that moves a thread   *)
(* moves one that is not blocked.                                          *)
(***************************************************************************)
Stays(t) ==
  \/ pc[t] = "sleeping" /\ cmds = <<>> /\ err = "none"
  \/ pc[t] = "take" /\ reps = <<>> /\ err = "none"
  \/ pc[t] = "resetting" /\ state \cap Running # {}

WaitInv == waiting \subseteq Threads /\ \A t \in waiting : Stays(t)

LEMMA WaitInit == Begin => WaitInv
BY DEF Begin, WaitInv

LEMMA WaitInvImplies == WaitInv => NoLostWakeup
BY DEF WaitInv, Stays, NoLostWakeup

(* What a blocked thread waits for does not come about.                    *)
Unmoved ==
  /\ cmds' = cmds /\ reps' = reps /\ err' = err
  /\ state' \cap Running = state \cap Running

(* A thread t that is not blocked moves, and may block.                    *)
LEMMA MoverKeeps ==
  ASSUME PcType, WaitInv, Unmoved, NEW t \in Threads, t \notin waiting,
         NEW label, Goto(t, label),
         waiting' = waiting \/ (waiting' = waiting \cup {t} /\ Stays(t)')
  PROVE  WaitInv'
<1>1. ASSUME NEW u \in waiting PROVE Stays(u)'
  <2>1. pc'[u] = pc[u]
    BY <1>1 DEF Goto, PcType, WaitInv
  <2> QED
    BY <1>1, <2>1 DEF WaitInv, Stays, Unmoved
<1> QED
  BY <1>1 DEF WaitInv

(* Nobody moves; some are woken.                                           *)
LEMMA WokenKeeps ==
  ASSUME WaitInv, Unmoved, UNCHANGED pc, waiting' \subseteq waiting
  PROVE  WaitInv'
BY DEF WaitInv, Stays, Unmoved

LEMMA AllWokenKeeps ==
  ASSUME waiting' = {} PROVE WaitInv'
BY DEF WaitInv

LEMMA EnterResetWait ==
  ASSUME PcType, NEW t \in Threads, NEW cause, EnterReset(t, cause)
  PROVE  WaitInv'
<1>1. CASE waiting' = {}
  BY <1>1, AllWokenKeeps
<1>2. CASE state \cap Running # {} /\ waiting' = {t} /\ Goto(t, "resetting")
  <2>1. state' \cap Running # {}
    BY <1>2 DEF EnterReset
  <2>2. pc'[t] = "resetting"
    BY <1>2 DEF Goto, PcType
  <2> QED
    BY <1>2, <2>1, <2>2 DEF WaitInv, Stays
<1> QED
  BY <1>1, <1>2 DEF EnterReset, NotifyAll

LEMMA ResetWait ==
  ASSUME PcType, WaitInv, NEW t \in Threads, t \notin waiting, NEW cause,
         Reset(t, cause), UNCHANGED <<cmds, reps>>
  PROVE  WaitInv'
<1>1. CASE AlreadyReset(t)
  BY <1>1, MoverKeeps DEF AlreadyReset, Unmoved
<1>2. CASE EnterReset(t, cause)
  BY <1>2, EnterResetWait
<1> QED
  BY <1>1, <1>2 DEF Reset

(* start() runs while nobody waits for a flag and the threads do not exist.*)
LEMMA StartWait ==
  ASSUME SocketInv, WaitInv, Start
  PROVE  WaitInv'
<1>1. CASE StartCatch
  BY <1>1, Sets, EnterResetWait DEF StartCatch, SocketInv
<1>2. CASE StartSucceeds \/ StartFails \/ SpawnFails
  <2>1. state = {} /\ pc[Starter] = "idle" /\ UNCHANGED <<waiting, cmds, reps, err>>
    BY <1>2 DEF StartSucceeds, StartFails, SpawnFails, queues
  <2>2. \A u \in DeviceThreadSet \cup {Starter} : u \notin waiting
    BY <2>1 DEF SocketInv, FlagsCover, Gone, WaitInv, Stays
  <2>3. \A u \in waiting : pc'[u] = pc[u]
    BY <1>2, <2>2, Sets DEF StartSucceeds, StartFails, SpawnFails, Goto,
                            SocketInv, PcType, WaitInv
  <2>4. ASSUME NEW u \in waiting PROVE Stays(u)'
    BY <2>1, <2>3, <2>4 DEF WaitInv, Stays
  <2> QED
    BY <2>1, <2>4 DEF WaitInv
<1> QED
  BY <1>1, <1>2 DEF Start

LEMMA ReadHandlesWait ==
  ASSUME PcType, WaitInv, NEW r \in Threads, r \notin waiting, ReadHandles(r)
  PROVE  WaitInv'
<1>1. CASE EnterReset(r, "command")
  BY <1>1, EnterResetWait
<1>2. CASE NotifyReply /\ Goto(r, AfterAccept(Head(cmds))) /\ UNCHANGED <<err, state>>
  <2>1. CASE waiting' = {}
    BY <2>1, AllWokenKeeps
  <2>2. CASE waiting' = waiting /\ reps' = reps
    <3>1. ASSUME NEW u \in waiting PROVE Stays(u)'
      <4>1. pc'[u] = pc[u]
        BY <1>2, <3>1 DEF Goto, PcType, WaitInv
      <4>2. ~(pc[u] = "sleeping")
        BY <3>1 DEF WaitInv, Stays, ReadHandles
      <4> QED
        BY <1>2, <2>2, <3>1, <4>1, <4>2 DEF WaitInv, Stays
    <3> QED
      BY <2>2, <3>1 DEF WaitInv
  <2> QED
    BY <1>2, <2>1, <2>2 DEF NotifyReply
<1> QED
  BY <1>1, <1>2 DEF ReadHandles

LEMMA ReaderWait ==
  ASSUME PcType, WaitInv, NEW r \in Readers, ReadCall(r) \/ ReadStep(r) \/ ReadTimeout(r)
  PROVE  WaitInv'
<1>1. r \in Threads
  BY Sets
<1>2. CASE ReadCall(r)
  BY <1>1, <1>2, MoverKeeps DEF ReadCall, queues, Unmoved, WaitInv, Stays
<1>3. CASE ReadTimeout(r)
  <2>1. ASSUME NEW u \in waiting \ {r} PROVE Stays(u)'
    <3>1. pc'[u] = pc[u]
      BY <1>3, <2>1 DEF ReadTimeout, Goto, PcType, WaitInv
    <3> QED
      BY <1>3, <2>1, <3>1 DEF ReadTimeout, queues, WaitInv, Stays
  <2> QED
    BY <1>3, <2>1 DEF ReadTimeout, WaitInv
<1>4. CASE ReadStep(r)
  <2>1. r \notin waiting
    BY <1>4 DEF ReadStep, AtCheck, WaitInv, Stays
  <2>2. CASE ReadFails(r)
    BY <1>1, <2>1, <2>2, MoverKeeps DEF ReadFails, AlreadyReset, queueVars, Unmoved
  <2>3. CASE ReadHandles(r)
    BY <1>1, <2>1, <2>3, ReadHandlesWait
  <2>4. CASE ReadFindsNothing(r)
    <3>1. Unmoved
      BY <2>4 DEF ReadFindsNothing, queues, Unmoved
    <3>2. CASE Goto(r, "idle") /\ UNCHANGED waiting
      BY <1>1, <2>1, <3>1, <3>2, MoverKeeps
    <3>3. CASE Goto(r, "sleeping") /\ Wait(r)
      <4>1. Stays(r)'
        BY <1>1, <2>4, <3>1, <3>3 DEF Goto, PcType, Stays, ReadFindsNothing, Unmoved
      <4> QED
        BY <1>1, <2>1, <3>1, <3>3, <4>1, MoverKeeps DEF Wait
    <3> QED
      BY <2>4, <3>2, <3>3 DEF ReadFindsNothing
  <2> QED
    BY <1>4, <2>2, <2>3, <2>4 DEF ReadStep
<1> QED
  BY <1>2, <1>3, <1>4

LEMMA SendWait ==
  ASSUME PcType, WaitInv, NEW t \in Readers \cup Writers, WriteCall(t) \/ Serve(t)
  PROVE  WaitInv'
<1>1. t \in Threads
  BY Sets
<1>2. CASE WriteCall(t)
  <2>1. t \notin waiting /\ Goto(t, "serving") /\ waiting' = waiting
    BY <1>2 DEF WriteCall, WaitInv, Stays, threadVars
  <2>2. Unmoved
    BY <1>2 DEF WriteCall, Enqueue, threadVars, Unmoved
  <2> QED
    BY <1>1, <2>1, <2>2, MoverKeeps
<1>3. CASE Serve(t)
  <2>1. t \notin waiting
    BY <1>3 DEF Serve, WaitInv, Stays
  <2>2. CASE waiting' = {}
    BY <2>2, AllWokenKeeps
  <2>3. CASE waiting' = waiting /\ reps' = reps /\ UNCHANGED pc
    BY <1>3, <2>3, WokenKeeps DEF Serve, Unmoved
  <2>4. CASE SendDone /\ waiting' = waiting /\ Goto(t, IF t \in Readers THEN "reading" ELSE "idle")
    BY <1>1, <1>3, <2>1, <2>4, MoverKeeps DEF Serve, SendDone, Unmoved
  <2> QED
    BY <1>3, <2>2, <2>3, <2>4 DEF Serve, NotifyReply
<1> QED
  BY <1>2, <1>3

LEMMA DeviceThreadWait ==
  ASSUME PcType, WaitInv, ReadThreadStep \/ WriteThreadStep
  PROVE  WaitInv'
<1>1. ReadThread \in Threads /\ WriteThread \in Threads
  BY Sets
<1>2. CASE ReadInit \/ ReadRecv
  <2>1. ReadThread \notin waiting /\ waiting' = waiting /\ Unmoved
    BY <1>2 DEF ReadInit, ReadRecv, WaitInv, Stays, queues, queueVars, threadVars, Unmoved
  <2>2. \E label \in Labels : Goto(ReadThread, label)
    BY <1>2 DEF ReadInit, ReadRecv, Labels
  <2> QED
    BY <1>1, <2>1, <2>2, MoverKeeps
<1>3. CASE ReadPush
  BY <1>3, AllWokenKeeps DEF ReadPush, NotifyAll
<1>4. CASE WriteInit \/ WriteSend
  <2>1. WriteThread \notin waiting /\ waiting' = waiting /\ Unmoved
    BY <1>4 DEF WriteInit, WriteSend, WaitInv, Stays, queues, queueVars, threadVars, Unmoved
  <2>2. \E label \in Labels : Goto(WriteThread, label)
    BY <1>4 DEF WriteInit, WriteSend, Labels
  <2> QED
    BY <1>1, <2>1, <2>2, MoverKeeps
<1>5. CASE WriteTake
  <2>0. WriteThread \notin waiting /\ UNCHANGED <<cmds, err, state>>
    BY <1>5 DEF WriteTake
  <2>1. CASE UNCHANGED reps /\ waiting' = waiting /\ Goto(WriteThread, "failed")
    BY <1>1, <2>0, <2>1, MoverKeeps DEF Unmoved
  <2>2. CASE reps # <<>> /\ Goto(WriteThread, "send") /\ waiting' = waiting
    <3>1. ASSUME NEW u \in waiting PROVE Stays(u)'
      <4>1. pc'[u] = pc[u] /\ pc[u] # "take"
        BY <2>0, <2>2, <3>1 DEF Goto, PcType, WaitInv, Stays
      <4> QED
        BY <2>0, <3>1, <4>1 DEF WaitInv, Stays
    <3> QED
      BY <2>2, <3>1 DEF WaitInv
  <2>3. CASE err = "none" /\ reps = <<>> /\ Wait(WriteThread) /\ UNCHANGED <<pc, reps>>
    BY <1>1, <1>5, <2>0, <2>3 DEF WaitInv, Stays, Wait, WriteTake
  <2> QED
    BY <1>5, <2>1, <2>2, <2>3 DEF WriteTake
<1> QED
  BY <1>2, <1>3, <1>4, <1>5 DEF ReadThreadStep, WriteThreadStep

LEMMA EndWait ==
  ASSUME PcType, WaitInv,
         NEW t \in Threads, ThreadCatch(t) \/ ThreadExit(t) \/ ResetWake(t) \/ Stop(t)
  PROVE  WaitInv'
<1>1. CASE ThreadCatch(t) \/ Stop(t)
  <2>1. t \notin waiting
    BY <1>1 DEF ThreadCatch, Stop, WaitInv, Stays
  <2> QED
    BY <1>1, <2>1, ResetWait DEF ThreadCatch, Stop, queueVars
<1>2. CASE ThreadExit(t)
  BY <1>2, AllWokenKeeps DEF ThreadExit, NotifyAll
<1>3. CASE ResetWake(t)
  <2>1. t \notin waiting /\ Unmoved
    BY <1>3 DEF ResetWake, queues, Unmoved
  <2>2. CASE Goto(t, AfterReset(t)) /\ UNCHANGED waiting
    BY <2>1, <2>2, MoverKeeps
  <2>3. CASE state \cap Running # {} /\ Wait(t) /\ UNCHANGED <<pc, socket>>
    BY <1>3, <2>3 DEF ResetWake, queues, WaitInv, Stays, Wait
  <2> QED
    BY <1>3, <2>2, <2>3 DEF ResetWake
<1> QED
  BY <1>1, <1>2, <1>3

LEMMA WaitStep == SocketInv /\ WaitInv /\ [Step]_vars => WaitInv'
<1> SUFFICES ASSUME SocketInv, WaitInv, [Step]_vars PROVE WaitInv'
  OBVIOUS
<1>0. PcType
  BY DEF SocketInv
<1>1. CASE Start
  BY <1>1, StartWait
<1>2. ASSUME NEW r \in Readers, ReadCall(r) \/ ReadStep(r) \/ ReadTimeout(r)
      PROVE  WaitInv'
  BY <1>0, <1>2, ReaderWait
<1>3. ASSUME NEW t \in Readers \cup Writers, WriteCall(t) \/ Serve(t)
      PROVE  WaitInv'
  BY <1>0, <1>3, SendWait
<1>4. CASE ReadThreadStep \/ WriteThreadStep
  BY <1>0, <1>4, DeviceThreadWait
<1>5. ASSUME NEW t \in Threads, ThreadCatch(t) \/ ThreadExit(t) \/ ResetWake(t) \/ Stop(t)
      PROVE  WaitInv'
  BY <1>0, <1>5, EndWait
<1>6. CASE Unmoved /\ UNCHANGED pc /\ waiting' \subseteq waiting
  BY <1>6, WokenKeeps
<1>7. (\E t \in Threads : SpuriousWakeup(t)) \/ HostActs \/ HostCloses \/ UNCHANGED vars
      => Unmoved /\ UNCHANGED pc /\ waiting' \subseteq waiting
  BY DEF SpuriousWakeup, HostActs, HostCloses, vars, queues, queueVars, threadVars, Unmoved
<1> QED
  BY <1>1, <1>2, <1>3, <1>4, <1>5, <1>6, <1>7, Sets DEF Step

(* A thread blocked on _s.signal has nothing to do, whatever happened      *)
(* between its last look and now.                                          *)
THEOREM NoWakeupIsLost == ThreadSpec => []NoLostWakeup
BY SocketInit, SocketStep, WaitInit, WaitStep, WaitInvImplies, PTL DEF ThreadSpec

(***************************************************************************)
(* The hand-overs.  _readThread holds a command exactly while it is about  *)
(* to queue it; _writeThread holds a reply while it sends it, and keeps it *)
(* for ever if that fails.                                                 *)
(***************************************************************************)
CommandInHand == rcmd # <<>> <=> pc[ReadThread] = "push"

ReplyInHand ==
  /\ pc[WriteThread] = "send" => wrep # <<>>
  /\ pc[WriteThread] \in {"absent", "init", "take"} => wrep = <<>>

HandInv == CommandInHand /\ ReplyInHand

OtherTypes ==
  /\ state \subseteq Flags
  /\ socket \in {"none", "open", "shut", "closed"}
  /\ peer \in {"absent", "attached", "closed"}
  /\ timeout \in [Readers -> {"zero", "finite", "forever"}]

(* The threads run only after start() has set its flag.                    *)
StartedFirst == pc[WriteThread] # "absent" => "Started" \in state

LEMMA HandInit == Begin => HandInv
BY Sets DEF Begin, Init, HandInv, CommandInHand, ReplyInHand

LEMMA OtherInit == Begin => OtherTypes
BY DEF Begin, OtherTypes

LEMMA OtherStep == OtherTypes /\ [Step]_vars => OtherTypes'
<1> SUFFICES ASSUME OtherTypes, [Step]_vars PROVE OtherTypes'
  OBVIOUS
<1>1. ASSUME NEW t, NEW cause, Reset(t, cause), UNCHANGED <<peer, timeout>>
      PROVE  OtherTypes'
  BY <1>1 DEF Reset, AlreadyReset, EnterReset, CloseSocket, OtherTypes, Flags
<1>2. CASE Start
  <2>1. CASE StartCatch
    BY <1>1, <2>1 DEF StartCatch, Reset
  <2>2. CASE StartSucceeds \/ StartFails \/ SpawnFails
    BY <2>2 DEF StartSucceeds, StartFails, SpawnFails, OtherTypes, Flags, Running
  <2> QED
    BY <1>2, <2>1, <2>2 DEF Start
<1>3. ASSUME NEW r \in Readers, ReadCall(r) \/ ReadStep(r) \/ ReadTimeout(r)
      PROVE  OtherTypes'
  <2>1. CASE ReadCall(r)
    BY <2>1, ThreadsAssumption DEF ReadCall, OtherTypes
  <2>2. CASE ReadStep(r)
    <3>1. UNCHANGED <<peer, timeout>>
      BY <2>2 DEF ReadStep
    <3>2. CASE UNCHANGED <<state, socket>>
      BY <3>1, <3>2 DEF OtherTypes
    <3> QED
      BY <1>1, <2>2, <3>1, <3>2
         DEF ReadStep, ReadFails, AlreadyReset, ReadHandles, ReadFindsNothing, Reset
  <2>3. CASE ReadTimeout(r)
    BY <2>3 DEF ReadTimeout, OtherTypes
  <2> QED
    BY <1>3, <2>1, <2>2, <2>3
<1>4. ASSUME NEW t \in Threads, Stop(t) \/ ThreadCatch(t) PROVE OtherTypes'
  BY <1>1, <1>4 DEF Stop, ThreadCatch
<1>5. ASSUME NEW t \in Threads, ThreadExit(t) \/ ResetWake(t) PROVE OtherTypes'
  BY <1>5 DEF ThreadExit, ResetWake, CloseSocket, OtherTypes
<1>6. CASE HostCloses
  BY <1>6 DEF HostCloses, OtherTypes
<1>7. CASE UNCHANGED <<state, socket, peer, timeout>>
  BY <1>7 DEF OtherTypes
<1>8. ASSUME NEW t, WriteCall(t) \/ Serve(t) \/ SpuriousWakeup(t)
      PROVE  UNCHANGED <<state, socket, peer, timeout>>
  BY <1>8 DEF WriteCall, Serve, SpuriousWakeup, threadVars
<1>9. ReadThreadStep \/ WriteThreadStep \/ HostActs \/ UNCHANGED vars
      => UNCHANGED <<state, socket, peer, timeout>>
  BY DEF ReadThreadStep, WriteThreadStep, ReadInit, ReadRecv, ReadPush,
         WriteInit, WriteTake, WriteSend, HostActs, vars, threadVars
<1> QED
  BY <1>2, <1>3, <1>4, <1>5, <1>6, <1>7, <1>8, <1>9, Sets DEF Step

LEMMA StartedInit == Begin => StartedFirst
BY Sets DEF Begin, StartedFirst

LEMMA StartedStep == PcType /\ StartedFirst /\ [Step]_vars => StartedFirst'
<1> SUFFICES ASSUME PcType, StartedFirst, [Step]_vars PROVE StartedFirst'
  OBVIOUS
<1>1. CASE Start
  BY <1>1, Sets DEF Start, StartSucceeds, StartFails, SpawnFails, StartCatch, EnterReset,
                    Goto, PcType, StartedFirst
<1>3. ASSUME NEW r \in Readers, ReadCall(r) \/ ReadStep(r) \/ ReadTimeout(r)
      PROVE  StartedFirst'
  <2>1. pc'[WriteThread] = pc[WriteThread]
    BY <1>3, Sets DEF ReadCall, ReadStep, ReadTimeout, ReadFails, AlreadyReset, ReadHandles,
       EnterReset, ReadFindsNothing, Goto, PcType
  <2>2. "Started" \in state => "Started" \in state'
    BY <1>3 DEF ReadCall, ReadStep, ReadTimeout, ReadFails, AlreadyReset, ReadHandles,
       EnterReset, ReadFindsNothing
  <2> QED
    BY <2>1, <2>2 DEF StartedFirst
<1>4. ASSUME NEW t \in Readers \cup Writers, WriteCall(t) \/ Serve(t)
      PROVE  StartedFirst'
  BY <1>4, Sets DEF WriteCall, Serve, threadVars, Goto, PcType, StartedFirst
<1>5. CASE ReadThreadStep \/ WriteThreadStep
  BY <1>5, Sets DEF ReadThreadStep, WriteThreadStep, ReadInit, ReadRecv, ReadPush,
         WriteInit, WriteTake, WriteSend, threadVars, Goto, PcType, StartedFirst
<1>6. ASSUME NEW t \in Threads, ThreadCatch(t) \/ ThreadExit(t) \/ ResetWake(t) \/ Stop(t)
      PROVE  StartedFirst'
  <2>1. "Started" \in state => "Started" \in state'
    BY <1>6 DEF ThreadCatch, ThreadExit, ResetWake, Stop, Reset, AlreadyReset, EnterReset, FlagOf
  <2>2. pc[WriteThread] = "absent" => pc'[WriteThread] = "absent"
    BY <1>6, Sets DEF ThreadCatch, ThreadExit, ResetWake, Stop, Reset, AlreadyReset, EnterReset,
       Goto, PcType
  <2> QED
    BY <2>1, <2>2 DEF StartedFirst
<1>7. CASE UNCHANGED <<pc, state>>
  BY <1>7 DEF StartedFirst
<1>8. (\E t \in Threads : SpuriousWakeup(t)) \/ HostActs \/ HostCloses \/ UNCHANGED vars
      => UNCHANGED <<pc, state>>
  BY DEF SpuriousWakeup, HostActs, HostCloses, vars, threadVars
<1> QED
  BY <1>1, <1>3, <1>4, <1>5, <1>6, <1>7, <1>8, Sets DEF Step

(***************************************************************************)
(* The hand-overs are disturbed by the two threads and by start() alone.   *)
(***************************************************************************)
Settles(t) ==
  \/ pc'[t] = pc[t]
  \/ /\ pc[t] \in {"failed", "resetting", "exiting"}
     /\ pc'[t] \in {"resetting", "exiting", "done"}

LEMMA ElsewhereKeeps ==
  ASSUME HandInv, UNCHANGED <<rcmd, wrep>>, \A t \in DeviceThreadSet : Settles(t)
  PROVE  HandInv'
<1>1. CommandInHand'
  BY Sets DEF HandInv, CommandInHand, Settles
<1>2. ReplyInHand'
  BY Sets DEF HandInv, ReplyInHand, Settles
<1> QED
  BY <1>1, <1>2 DEF HandInv

LEMMA ResetHand ==
  ASSUME PcType, HandInv, NEW t \in Threads, NEW cause, Reset(t, cause),
         UNCHANGED <<rcmd, wrep>>, t \in DeviceThreadSet => pc[t] = "failed"
  PROVE  HandInv'
<1>1. \E label \in {AfterReset(t), "resetting"} : Goto(t, label)
  BY DEF Reset, AlreadyReset, EnterReset
<1>2. ASSUME NEW u \in DeviceThreadSet PROVE Settles(u)
  BY <1>1, <1>2, Sets DEF AfterReset, Goto, PcType, Settles
<1> QED
  BY <1>2, ElsewhereKeeps

LEMMA StartHand ==
  ASSUME SocketInv, StartedFirst, HandInv, Start
  PROVE  HandInv'
<1>1. CASE StartCatch
  BY <1>1, Sets, ResetHand DEF StartCatch, Reset, SocketInv, handVars
<1>2. CASE StartSucceeds \/ StartFails \/ SpawnFails
  <2>1. state = {} /\ UNCHANGED <<rcmd, wrep>>
    BY <1>2 DEF StartSucceeds, StartFails, SpawnFails, queues
  <2>2. wrep = <<>> /\ rcmd = <<>>
    BY <2>1, Sets DEF SocketInv, FlagsCover, Gone, StartedFirst, HandInv, CommandInHand,
       ReplyInHand
  <2>3. pc'[ReadThread] # "push" /\ pc'[WriteThread] # "send"
    BY <1>2, <2>1, Sets DEF StartSucceeds, StartFails, SpawnFails, Goto,
                            SocketInv, PcType, FlagsCover, Gone
  <2> QED
    BY <2>1, <2>2, <2>3 DEF HandInv, CommandInHand, ReplyInHand
<1> QED
  BY <1>1, <1>2 DEF Start

LEMMA ReaderHand ==
  ASSUME PcType, HandInv, NEW r \in Readers, ReadCall(r) \/ ReadStep(r) \/ ReadTimeout(r)
  PROVE  HandInv'
<1>1. r \in Threads /\ r \notin DeviceThreadSet
  BY Sets
<1>2. UNCHANGED <<rcmd, wrep>>
  BY DEF ReadCall, ReadStep, ReadTimeout, queues, handVars
<1>3. UNCHANGED pc \/ \E label \in Labels : Goto(r, label)
  BY AfterResetLabel DEF ReadCall, ReadStep, ReadTimeout, ReadFails, AlreadyReset, ReadHandles,
     EnterReset, ReadFindsNothing, AfterAccept, Labels
<1>4. ASSUME NEW u \in DeviceThreadSet PROVE Settles(u)
  BY <1>1, <1>3, <1>4, Sets DEF Goto, PcType, Settles
<1> QED
  BY <1>2, <1>4, ElsewhereKeeps

LEMMA ReadThreadHand ==
  ASSUME PcType, HandInv, ReadThreadStep
  PROVE  HandInv'
<1>1. pc'[WriteThread] = pc[WriteThread] /\ UNCHANGED wrep
  BY Sets DEF ReadThreadStep, ReadInit, ReadRecv, ReadPush, Goto, PcType, queues
<1>2. ReplyInHand'
  BY <1>1 DEF HandInv, ReplyInHand
<1>3. CommandInHand'
  <2>1. CASE ReadInit
    BY <2>1, Sets DEF ReadInit, Goto, PcType, queues, HandInv, CommandInHand
  <2>2. CASE ReadRecv
    <3>1. <<Head(wire)>> # <<>>
      OBVIOUS
    <3> QED
      BY <2>2, <3>1, Sets DEF ReadRecv, Goto, PcType, HandInv, CommandInHand
  <2>3. CASE ReadPush
    BY <2>3, Sets DEF ReadPush, Goto, PcType, HandInv, CommandInHand
  <2> QED
    BY <2>1, <2>2, <2>3 DEF ReadThreadStep
<1> QED
  BY <1>2, <1>3 DEF HandInv

LEMMA WriteThreadHand ==
  ASSUME PcType, HandInv, WriteThreadStep
  PROVE  HandInv'
<1>1. pc'[ReadThread] = pc[ReadThread] /\ UNCHANGED rcmd
  BY Sets DEF WriteThreadStep, WriteInit, WriteTake, WriteSend, Goto, PcType, queues
<1>2. CommandInHand'
  BY <1>1 DEF HandInv, CommandInHand
<1>3. ReplyInHand'
  <2>1. CASE WriteInit
    BY <2>1, Sets DEF WriteInit, Goto, PcType, queues, HandInv, ReplyInHand
  <2>2. CASE WriteTake
    <3>1. wrep = <<>> /\ pc[WriteThread] = "take"
      BY <2>2 DEF WriteTake, HandInv, ReplyInHand
    <3>2. \/ pc'[WriteThread] = "failed" /\ wrep' = <<>>
          \/ pc'[WriteThread] = "send" /\ wrep' = <<Head(reps)>>
          \/ pc'[WriteThread] = "take" /\ wrep' = <<>>
      BY <2>2, <3>1, Sets DEF WriteTake, Goto, PcType
    <3>3. <<Head(reps)>> # <<>>
      OBVIOUS
    <3> QED
      BY <3>2, <3>3 DEF ReplyInHand
  <2>3. CASE WriteSend
    BY <2>3, Sets DEF WriteSend, Goto, PcType, HandInv, ReplyInHand
  <2> QED
    BY <2>1, <2>2, <2>3 DEF WriteThreadStep
<1> QED
  BY <1>2, <1>3 DEF HandInv

LEMMA HandStep ==
  SocketInv /\ StartedFirst /\ HandInv /\ [Step]_vars => HandInv'
<1> SUFFICES ASSUME SocketInv, StartedFirst, HandInv, [Step]_vars PROVE HandInv'
  OBVIOUS
<1>0. PcType
  BY DEF SocketInv
<1>1. CASE Start
  BY <1>1, StartHand
<1>2. ASSUME NEW r \in Readers, ReadCall(r) \/ ReadStep(r) \/ ReadTimeout(r)
      PROVE  HandInv'
  BY <1>0, <1>2, ReaderHand
<1>3. CASE ReadThreadStep
  BY <1>0, <1>3, ReadThreadHand
<1>4. CASE WriteThreadStep
  BY <1>0, <1>4, WriteThreadHand
<1>5. ASSUME NEW t \in Threads, (Stop(t) /\ t \in Stoppers) \/ ThreadCatch(t) PROVE HandInv'
  BY <1>0, <1>5, Sets, ResetHand DEF Stop, ThreadCatch, handVars
<1>7. ASSUME NEW t \in Readers \cup Writers, WriteCall(t) \/ Serve(t) PROVE HandInv'
  <2>1. UNCHANGED <<rcmd, wrep>>
    BY <1>7 DEF WriteCall, Serve, handVars
  <2>2. ASSUME NEW u \in DeviceThreadSet PROVE Settles(u)
    BY <1>0, <1>7, <2>2, Sets DEF WriteCall, Serve, Goto, PcType, Settles
  <2> QED
    BY <2>1, <2>2, ElsewhereKeeps
<1>8. ASSUME NEW t \in Threads,
             ResetWake(t) \/ SpuriousWakeup(t) \/ (t \in DeviceThreadSet /\ ThreadExit(t))
      PROVE  HandInv'
  <2>1. UNCHANGED <<rcmd, wrep>>
    BY <1>8 DEF ResetWake, SpuriousWakeup, ThreadExit, queues
  <2>2. ASSUME NEW u \in DeviceThreadSet PROVE Settles(u)
    BY <1>0, <1>8, <2>2, Sets
       DEF ResetWake, SpuriousWakeup, ThreadExit, AfterReset, Goto, PcType, Settles
  <2> QED
    BY <2>1, <2>2, ElsewhereKeeps
<1>9. CASE UNCHANGED <<pc, rcmd, wrep>>
  BY <1>9, ElsewhereKeeps DEF Settles
<1>10. HostActs \/ HostCloses \/ UNCHANGED vars => UNCHANGED <<pc, rcmd, wrep>>
  BY DEF HostActs, HostCloses, vars, queues, handVars
<1> QED
  BY <1>1, <1>2, <1>3, <1>4, <1>5, <1>7, <1>8, <1>9, <1>10, Sets DEF Step

(***************************************************************************)
(* The threads keep the discipline of the queues: every step of a thread   *)
(* is a step of CommandQueues, or leaves the queues alone.                 *)
(***************************************************************************)
LEMMA ResetIsFail ==
  ASSUME FailureInv, serving = NoEp, NEW t, NEW cause \in {"stopped", "transport", "start"},
         Reset(t, cause), UNCHANGED <<hostVars, handVars, cmds, queueVars, sent, dataVars>>
  PROVE  Fail \/ UNCHANGED queues
<1>1. CASE AlreadyReset(t)
  BY <1>1 DEF AlreadyReset, hostVars, handVars, queueVars, dataVars, queues
<1>2. CASE EnterReset(t, cause)
  BY <1>2 DEF EnterReset, FailureInv, ErrIsReset, Fail
<1> QED
  BY <1>1, <1>2 DEF Reset

LEMMA ReaderHandles ==
  ASSUME NEW r \in Readers, ReadCall(r) \/ ReadStep(r) \/ ReadTimeout(r)
  PROVE  Handle \/ UNCHANGED queues
<1>1. CASE ReadCall(r) \/ ReadTimeout(r)
  BY <1>1 DEF ReadCall, ReadTimeout
<1>2. CASE ReadStep(r) /\ ReadFindsNothing(r)
  BY <1>2 DEF ReadFindsNothing
<1>3. CASE ReadStep(r) /\ ReadFails(r)
  BY <1>3 DEF ReadStep, ReadFails, AlreadyReset, hostVars, handVars, queueVars, dataVars, queues
<1>4. CASE ReadStep(r) /\ ReadHandles(r)
  <2>1. serving = NoEp /\ UNCHANGED <<hostVars, handVars, sent, dataVars>>
    BY <1>4 DEF ReadStep, Free, ReadHandles
  <2>2. Rejected(Head(cmds), configDesc # 0) /\ EnterReset(r, "command") => err' = "command"
    BY DEF EnterReset
  <2> QED
    BY <1>4, <2>1, <2>2 DEF ReadHandles, Handle
<1> QED
  BY <1>1, <1>2, <1>3, <1>4 DEF ReadStep

LEMMA SenderServes ==
  ASSUME NEW t, WriteCall(t) \/ Serve(t)
  PROVE  Write \/ Send
BY DEF WriteCall, Serve, Free, Write, Send

LEMMA ReadThreadReceives ==
  ASSUME HandInv, ReadThreadStep
  PROVE  Receive \/ Push \/ UNCHANGED queues
<1>1. CASE ReadInit
  BY <1>1 DEF ReadInit
<1>2. CASE ReadRecv
  <2>1. rcmd = <<>>
    BY <1>2 DEF ReadRecv, HandInv, CommandInHand
  <2> QED
    BY <1>2, <2>1 DEF ReadRecv, Receive, queueVars, dataVars, queues
<1>3. CASE ReadPush
  <2>1. rcmd # <<>> /\ serving = NoEp
    BY <1>3 DEF ReadPush, Free, HandInv, CommandInHand
  <2> QED
    BY <1>3, <2>1 DEF ReadPush, Push
<1> QED
  BY <1>1, <1>2, <1>3 DEF ReadThreadStep

(* A socket that is open belongs to a device that has not failed.          *)
LEMMA WriteThreadTransmits ==
  ASSUME FailureInv, HandInv, WriteThreadStep
  PROVE  Take \/ Transmit \/ UNCHANGED queues
<1>1. CASE WriteInit
  BY <1>1 DEF WriteInit
<1>2. CASE WriteTake
  <2>1. wrep = <<>> /\ serving = NoEp
    BY <1>2 DEF WriteTake, Free, HandInv, ReplyInHand
  <2> QED
    BY <1>2, <2>1 DEF WriteTake, Take, hostVars, dataVars, queues
<1>3. CASE WriteSend
  <2>1. wrep # <<>>
    BY <1>3 DEF WriteSend, HandInv, ReplyInHand
  <2>2. socket = "open" => err = "none"
    BY DEF FailureInv, ErrIsReset, ResetIsShut
  <2> QED
    BY <1>3, <2>1, <2>2 DEF WriteSend, Transmit, hostVars, queueVars, dataVars, queues
<1> QED
  BY <1>1, <1>2, <1>3 DEF WriteThreadStep

LEMMA StepOfQueues ==
  ASSUME FailureInv, HandInv, [Step]_vars
  PROVE  [Next]_queues
<1> SUFFICES Next \/ UNCHANGED queues
  OBVIOUS
<1>1. CASE StartCatch
  BY <1>1, ResetIsFail DEF StartCatch, Reset, FailureInv, LockedStart, Next
<1>2. ASSUME NEW r \in Readers, ReadCall(r) \/ ReadStep(r) \/ ReadTimeout(r)
      PROVE  Next \/ UNCHANGED queues
  BY <1>2, ReaderHandles DEF Next
<1>3. ASSUME NEW t, WriteCall(t) \/ Serve(t) PROVE Next
  BY <1>3, SenderServes DEF Next
<1>4. ASSUME NEW t, Stop(t) \/ ThreadCatch(t) PROVE Next \/ UNCHANGED queues
  BY <1>4, ResetIsFail DEF Stop, ThreadCatch, Free, Next
<1>5. CASE ReadThreadStep
  BY <1>5, ReadThreadReceives DEF Next
<1>6. CASE WriteThreadStep
  BY <1>6, WriteThreadTransmits DEF Next
<1>7. CASE HostActs
  BY <1>7 DEF HostActs, Host, Next
<1>8. ASSUME NEW t, ThreadExit(t) \/ ResetWake(t) \/ SpuriousWakeup(t)
      PROVE  UNCHANGED queues
  BY <1>8 DEF ThreadExit, ResetWake, SpuriousWakeup
<1>9. StartSucceeds \/ StartFails \/ SpawnFails \/ HostCloses \/ UNCHANGED vars
      => UNCHANGED queues
  BY DEF StartSucceeds, StartFails, SpawnFails, HostCloses, vars
<1> QED
  BY <1>1, <1>2, <1>3, <1>4, <1>5, <1>6, <1>7, <1>8, <1>9 DEF Step, Start

(* The whole invariant.                                                    *)
ThreadInv ==
  SocketInv /\ FailureInv /\ WaitInv /\ OtherTypes /\ StartedFirst /\ HandInv

LEMMA ThreadInit == Begin => ThreadInv
BY SocketInit, FailureInit, WaitInit, OtherInit, StartedInit, HandInit DEF ThreadInv

LEMMA ThreadStep == ThreadInv /\ [Step]_vars => ThreadInv'
<1> SUFFICES ASSUME ThreadInv, [Step]_vars PROVE ThreadInv'
  OBVIOUS
<1>1. SocketInv' /\ FailureInv' /\ WaitInv'
  BY SocketStep, FailureStep, WaitStep DEF ThreadInv
<1>2. OtherTypes' /\ StartedFirst'
  BY OtherStep, StartedStep DEF ThreadInv, SocketInv
<1>3. HandInv'
  BY HandStep DEF ThreadInv
<1> QED
  BY <1>1, <1>2, <1>3 DEF ThreadInv

LEMMA ThreadAlways == ThreadSpec => []ThreadInv
BY ThreadInit, ThreadStep, PTL DEF ThreadSpec

(* The state of the threads is well typed in every behaviour: in           *)
(* particular the read thread holds a command just while it is about to    *)
(* queue it, and the write thread has a reply whenever it sends.           *)
THEOREM ThreadTypeCorrect == ThreadSpec => []ThreadTypeOK
<1>1. ThreadInv => ThreadTypeOK
  BY DEF ThreadInv, SocketInv, PcType, WaitInv, OtherTypes, HandInv, CommandInHand, ReplyInHand,
         ThreadTypeOK
<1> QED
  BY <1>1, ThreadAlways, PTL

(* The threads with their hand-overs are an implementation of the queues:  *)
(* whatever CommandQueues excludes does not happen between the threads.    *)
THEOREM ThreadsImplementQueues == ThreadSpec => ImplementsCommandQueues
<1>1. Begin => Init
  BY DEF Begin
<1>2. ThreadInv /\ [Step]_vars => [Next]_queues
  BY StepOfQueues DEF ThreadInv
<1> QED
  BY <1>1, <1>2, ThreadAlways, PTL DEF ThreadSpec, ImplementsCommandQueues, Spec

(***************************************************************************)
(* So the theorems of the queues hold of the threads, however many there   *)
(* are and however they take turns.                                        *)
(***************************************************************************)
(* No endpoint is left with both a request of the host and data for it     *)
(* once the sending loop is over (_handleCmdSubmitEPXIn, write: who adds   *)
(* the second one runs the loop).                                          *)
THEOREM NothingStallsInThreads == ThreadSpec => []NoStalledIn
BY ThreadsImplementQueues, NothingStalls, PTL DEF ImplementsCommandQueues

(* No command is lost or answered twice on its way through the threads.    *)
THEOREM NothingIsLostInThreads == ThreadSpec => []NoCommandLost
BY ThreadsImplementQueues, NothingIsLost, PTL DEF ImplementsCommandQueues

(* Whichever threads read and unlink, every transfer is decided once.      *)
THEOREM ThreadsDecideOnce == ThreadSpec => ImplementsUrbService
BY ThreadsImplementQueues, EveryUrbDecidedOnce, PTL DEF ImplementsCommandQueues

(* Several readers and the write thread do not reorder the IN transfers of *)
(* an endpoint.                                                            *)
THEOREM ThreadsKeepOrder == ThreadSpec => []InOrder
BY ThreadsImplementQueues, TransfersInOrder, PTL DEF ImplementsCommandQueues

(* Several writers to an endpoint do not tear its stream: the bytes of     *)
(* each write arrive together, and after those of the writes before it.    *)
THEOREM StreamsIntactInThreads == ThreadSpec => []InStreamIntact
BY ThreadsImplementQueues, StreamsIntact, PTL DEF ImplementsCommandQueues

(* While a caller of read() and the write thread sleep, the host is owed   *)
(* nothing but data that is not there: no reply, command or request for    *)
(* data lies anywhere without somebody awake to deal with it.              *)
THEOREM AsleepIsServed == ThreadSpec => []AsleepMeansServed
<1>1. TypeOK /\ ThreadInv /\ NoCommandLost /\ NoStalledIn => AsleepMeansServed
  <2> SUFFICES ASSUME TypeOK, ThreadInv, NoCommandLost, NoStalledIn, AllAsleep, NEW n \in DOMAIN issued
               PROVE  Answered(n) \/ TakenBack(n) \/ Starved(n)
    BY DEF AsleepMeansServed
  <2>1. wire = <<>> /\ rcmd = <<>> /\ serving = NoEp
    BY DEF AllAsleep, ThreadInv, HandInv, CommandInHand
  <2>2. wrep = <<>> /\ reps = <<>> /\ err = "none"
    BY DEF AllAsleep, ThreadInv, HandInv, ReplyInHand, WaitInv, Stays
  <2>3. cmds = <<>>
    BY DEF AllAsleep, ThreadInv, WaitInv, Stays
  <2>4. Replies = sent
    BY <2>2, ConcatEmptySeq DEF Replies, TypeOK
  <2>5. At(wire, n) = {} /\ At(rcmd, n) = {} /\ At(cmds, n) = {}
    BY <2>1, <2>3 DEF At
  <2>6. Whereabouts(n) # {}
    BY <2>2 DEF NoCommandLost
  <2>7. \/ At(Replies, n) # {}
        \/ \E e \in Endpoints : At(inCmds[e], n) # {}
        \/ \E j \in DOMAIN Replies : /\ Replies[j].command = "RetUnlink"
                                     /\ Replies[j].status = -ECONNRESET
                                     /\ issued[Replies[j].seqnum].target = n
    BY <2>5, <2>6 DEF Whereabouts
  <2>8. \A e \in Endpoints : At(inCmds[e], n) # {} => inData[e] = <<>>
    <3>1. \A e \in Endpoints : inCmds[e] = <<>> => At(inCmds[e], n) = {}
      BY DEF At
    <3> QED
      BY <2>1, <3>1, NoEpIsNone DEF NoStalledIn
  <2> QED
    BY <2>4, <2>7, <2>8 DEF Answered, TakenBack, Starved
<1>2. ThreadSpec => []TypeOK
  BY ThreadsImplementQueues, TypeCorrect, PTL DEF ImplementsCommandQueues
<1> QED
  BY <1>1, <1>2, ThreadAlways, NothingIsLostInThreads, NothingStallsInThreads, PTL

(***************************************************************************)
(* The end of the device.  A step moves nobody into or out of _reset and   *)
(* leaves err and the socket alone, or it is a start, or somebody enters   *)
(* _reset, or the one who waits there closes the socket.                   *)
(***************************************************************************)
Uninvolved ==
  /\ err' = err /\ socket' = socket
  /\ \A t \in Threads : pc'[t] = "resetting" <=> pc[t] = "resetting"
  /\ pc'[Starter] = "throwing" <=> pc[Starter] = "throwing"

StartsUp == StartSucceeds \/ StartFails \/ SpawnFails

Cleans(t) ==
  /\ pc[t] = "resetting" /\ state \cap Running = {}
  /\ CloseSocket /\ Goto(t, AfterReset(t))
  /\ UNCHANGED err

Enters(t) ==
  \E cause \in Causes \ {"none"} :
    /\ EnterReset(t, cause)
    /\ t \in DeviceThreadSet => cause = "transport"
    /\ t = Starter <=> cause = "start"
    /\ t # Starter => pc[Starter] # "throwing"

LEMMA MoveUninvolved ==
  ASSUME PcType, NEW t \in Threads, NEW label, Goto(t, label), UNCHANGED <<err, socket>>,
         pc[t] \notin {"resetting", "throwing"}, label \notin {"resetting", "throwing"}
  PROVE  Uninvolved
BY Sets DEF PcType, Goto, Uninvolved

LEMMA AfterResetOut == \A t : AfterReset(t) \notin {"resetting", "throwing"}
BY DEF AfterReset

LEMMA ReaderInvolved ==
  ASSUME PcType, NEW r \in Readers, ReadCall(r) \/ ReadStep(r) \/ ReadTimeout(r)
  PROVE  Uninvolved \/ Enters(r)
<1>1. r \in Threads /\ r \notin DeviceThreadSet /\ r # Starter
  BY Sets
<1>2. CASE ReadCall(r) \/ ReadTimeout(r)
  BY <1>1, <1>2, MoveUninvolved DEF ReadCall, ReadTimeout, queues
<1>3. CASE ReadStep(r)
  <2>1. pc[r] \notin {"resetting", "throwing"} /\ pc[Starter] # "throwing"
    BY <1>3 DEF ReadStep, AtCheck, Free
  <2>2. CASE ReadFails(r)
    BY <1>1, <2>1, <2>2, AfterResetOut, MoveUninvolved DEF ReadFails, AlreadyReset
  <2>3. CASE ReadFindsNothing(r)
    BY <1>1, <2>1, <2>3, MoveUninvolved DEF ReadFindsNothing, queues
  <2>4. CASE ReadHandles(r) /\ UNCHANGED <<err, socket>> /\ Goto(r, AfterAccept(Head(cmds)))
    <3>1. AfterAccept(Head(cmds)) \notin {"resetting", "throwing"}
      BY DEF AfterAccept
    <3> QED
      BY <1>1, <2>1, <2>4, <3>1, MoveUninvolved
  <2>5. CASE EnterReset(r, "command")
    BY <1>1, <2>1, <2>5 DEF Enters, Causes
  <2> QED
    BY <1>3, <2>2, <2>3, <2>4, <2>5 DEF ReadStep, ReadHandles
<1> QED
  BY <1>2, <1>3

LEMMA SenderUninvolved ==
  ASSUME PcType, NEW t \in Readers \cup Writers, WriteCall(t) \/ Serve(t)
  PROVE  Uninvolved
<1>1. t \in Threads
  BY Sets
<1>2. CASE WriteCall(t)
  BY <1>1, <1>2, MoveUninvolved DEF WriteCall, threadVars
<1>3. CASE Serve(t) /\ UNCHANGED pc
  BY <1>3 DEF Serve, Uninvolved
<1>4. CASE Serve(t) /\ Goto(t, IF t \in Readers THEN "reading" ELSE "idle")
  BY <1>1, <1>4, MoveUninvolved DEF Serve
<1> QED
  BY <1>2, <1>3, <1>4 DEF Serve

LEMMA DeviceThreadUninvolved ==
  ASSUME PcType, ReadThreadStep \/ WriteThreadStep
  PROVE  Uninvolved
<1>1. ReadThread \in Threads /\ WriteThread \in Threads
  BY Sets
<1>2. CASE ReadThreadStep
  BY <1>1, <1>2, MoveUninvolved DEF ReadThreadStep, ReadInit, ReadRecv, ReadPush, threadVars, queues
<1>3. CASE WriteThreadStep /\ UNCHANGED pc
  BY <1>3 DEF WriteThreadStep, WriteInit, WriteTake, WriteSend, threadVars, queues, Uninvolved
<1>4. CASE WriteThreadStep /\ ~UNCHANGED pc
  BY <1>1, <1>4, MoveUninvolved
  DEF WriteThreadStep, WriteInit, WriteTake, WriteSend, threadVars, queues
<1> QED
  BY <1>2, <1>3, <1>4

LEMMA EndInvolved ==
  ASSUME PcType,
         NEW t \in Threads,
         \/ t \in DeviceThreadSet /\ (ThreadCatch(t) \/ ThreadExit(t))
         \/ t \in Stoppers /\ Stop(t)
         \/ ResetWake(t)
  PROVE  Uninvolved \/ Enters(t) \/ Cleans(t)
<1>1. CASE t \in DeviceThreadSet /\ ThreadCatch(t)
  <2>1. t # Starter
    BY <1>1, Sets
  <2> QED
    BY <1>1, <2>1, AfterResetOut, MoveUninvolved
    DEF ThreadCatch, Free, Reset, AlreadyReset, Enters, Causes
<1>2. CASE t \in Stoppers /\ Stop(t)
  <2>1. t # Starter /\ t \notin DeviceThreadSet
    BY <1>2, Sets
  <2> QED
    BY <1>2, <2>1, AfterResetOut, MoveUninvolved
    DEF Stop, Free, Reset, AlreadyReset, Enters, Causes
<1>3. CASE ThreadExit(t)
  BY <1>3, MoveUninvolved DEF ThreadExit, queues
<1>4. CASE ResetWake(t)
  BY <1>4 DEF ResetWake, Cleans, queues, Uninvolved
<1> QED
  BY <1>1, <1>2, <1>3, <1>4

LEMMA WhoIsInvolved ==
  ASSUME PcType, [Step]_vars
  PROVE  \/ Uninvolved \/ StartsUp
         \/ \E t \in Threads : Enters(t) \/ Cleans(t)
<1>1. CASE StartCatch
  <2>1. Starter \in Threads /\ Starter \notin DeviceThreadSet
    BY Sets
  <2> QED
    BY <1>1, <2>1 DEF StartCatch, Enters, Causes
<1>2. ASSUME NEW r \in Readers, ReadCall(r) \/ ReadStep(r) \/ ReadTimeout(r)
      PROVE  Uninvolved \/ \E t \in Threads : Enters(t)
  BY <1>2, Sets, ReaderInvolved
<1>3. ASSUME NEW t \in Readers \cup Writers, WriteCall(t) \/ Serve(t) PROVE Uninvolved
  BY <1>3, SenderUninvolved
<1>4. CASE ReadThreadStep \/ WriteThreadStep
  BY <1>4, DeviceThreadUninvolved
<1>5. ASSUME NEW t \in Threads,
             \/ t \in DeviceThreadSet /\ (ThreadCatch(t) \/ ThreadExit(t))
             \/ t \in Stoppers /\ Stop(t)
             \/ ResetWake(t)
      PROVE  Uninvolved \/ \E u \in Threads : Enters(u) \/ Cleans(u)
  BY <1>5, EndInvolved
<1>6. (\E t \in Threads : SpuriousWakeup(t)) \/ HostActs \/ HostCloses \/ UNCHANGED vars
      => Uninvolved
  BY DEF SpuriousWakeup, HostActs, HostCloses, vars, queues, threadVars, Uninvolved
<1> QED
  BY <1>1, <1>2, <1>3, <1>4, <1>5, <1>6, Sets DEF Step, Start, StartsUp

(* One thread cleans up: the first to fail waits in _reset and closes the  *)
(* socket, which nobody closed before; whoever fails meanwhile goes on     *)
(* (_reset 842-874).                                                       *)
OneCleansUp ==
  \A t \in Threads : pc[t] = "resetting" =>
    /\ socket = "shut"
    /\ \A u \in Threads : pc[u] = "resetting" => u = t

(* The one in _reset is the first to fail; a device that failed has been   *)
(* cleaned up or has somebody at it; if a client failed first it is not    *)
(* one of the two threads that have to exit.                               *)
CleanInv ==
  /\ OneCleansUp
  /\ \A t \in Threads : pc[t] = "resetting" => err # "none"
  /\ pc[Starter] = "throwing" => err = "none"
  /\ err \in {"stopped", "command"} =>
       /\ \A t \in DeviceThreadSet : pc[t] # "resetting"
       /\ socket \in {"none", "closed"} \/ \E t \in Threads : pc[t] = "resetting"

LEMMA CleanInit == Begin => CleanInv
<1> SUFFICES ASSUME Begin PROVE CleanInv
  OBVIOUS
<1>1. \A t \in Threads : pc[t] \notin {"resetting", "throwing"}
  BY DEF Begin
<1> QED
  BY <1>1, Sets DEF Begin, Init, CleanInv, OneCleansUp

LEMMA EntersClean ==
  ASSUME PcType, FailureInv, CleanInv, NEW t \in Threads, Enters(t)
  PROVE  CleanInv'
<1>1. err = "none" /\ err' # "none"
  BY DEF Enters, EnterReset, FailureInv, ErrIsReset
<1>2. \A u \in Threads : pc[u] # "resetting"
  BY <1>1 DEF CleanInv
<1>3. \A u \in Threads : u # t => pc'[u] = pc[u]
  BY DEF Enters, EnterReset, Goto, PcType
<1>4. pc'[t] # "throwing"
  BY AfterResetOut DEF Enters, EnterReset, Goto, PcType
<1>5. pc'[Starter] # "throwing"
  BY <1>3, <1>4, Sets DEF Enters
<1>6. \/ pc'[t] = "resetting" /\ socket' = "shut"
      \/ pc'[t] # "resetting" /\ socket' \in {"none", "closed"}
  BY AfterResetOut DEF Enters, EnterReset, Goto, CloseSocket, PcType
<1>7. t \in DeviceThreadSet => err' = "transport"
  BY DEF Enters, EnterReset
<1>8. \A u \in DeviceThreadSet : u # t => pc'[u] # "resetting"
  BY <1>2, <1>3, Sets
<1> QED
  BY <1>1, <1>2, <1>3, <1>5, <1>6, <1>7, <1>8 DEF CleanInv, OneCleansUp

LEMMA CleansClean ==
  ASSUME PcType, CleanInv, NEW t \in Threads, Cleans(t)
  PROVE  CleanInv'
<1>1. \A u \in Threads : u # t => pc'[u] = pc[u] /\ pc[u] # "resetting"
  BY DEF Cleans, Goto, PcType, CleanInv, OneCleansUp
<1>2. pc'[t] \notin {"resetting", "throwing"}
  BY AfterResetOut DEF Cleans, Goto, PcType
<1>3. \A u \in Threads : pc'[u] # "resetting"
  BY <1>1, <1>2
<1>4. pc'[Starter] = "throwing" => pc[Starter] = "throwing"
  BY <1>1, <1>2, Sets
<1>5. socket' \in {"none", "closed"} /\ err' = err
  BY DEF Cleans, CloseSocket
<1> QED
  BY <1>3, <1>4, <1>5, Sets DEF CleanInv, OneCleansUp

LEMMA StartsClean ==
  ASSUME PcType, FailureInv, CleanInv, StartsUp
  PROVE  CleanInv'
<1>1. err = "none" /\ err' = "none"
  BY DEF StartsUp, StartSucceeds, StartFails, SpawnFails, FailureInv, ErrIsReset, queues
<1>2. \A u \in Threads : pc'[u] # "resetting"
  BY <1>1 DEF StartsUp, StartSucceeds, StartFails, SpawnFails, Goto, PcType, CleanInv
<1> QED
  BY <1>1, <1>2 DEF CleanInv, OneCleansUp

LEMMA CleanStep == PcType /\ FailureInv /\ CleanInv /\ [Step]_vars => CleanInv'
<1> SUFFICES ASSUME PcType, FailureInv, CleanInv, [Step]_vars PROVE CleanInv'
  OBVIOUS
<1>1. CASE Uninvolved
  BY <1>1, Sets DEF Uninvolved, CleanInv, OneCleansUp
<1> QED
  BY <1>1, WhoIsInvolved, StartsClean, EntersClean, CleansClean

LEMMA CleanAlways == ThreadSpec => []CleanInv
<1>1. ThreadInv => PcType /\ FailureInv
  BY DEF ThreadInv, SocketInv
<1> QED
  BY <1>1, CleanInit, CleanStep, ThreadAlways, PTL DEF ThreadSpec

(* However many threads fail at once, one of them waits in _reset and      *)
(* closes the socket, once.                                                *)
THEOREM CleanedUpOnce == ThreadSpec => []OneCleansUp
<1>1. CleanInv => OneCleansUp
  BY DEF CleanInv
<1> QED
  BY <1>1, CleanAlways, PTL

(***************************************************************************)
(* A flag without its thread exists only if start() could not create the   *)
(* thread.                                                                 *)
(***************************************************************************)
FlagsExact ==
  err # "start" /\ pc[Starter] # "throwing" =>
    \A t \in DeviceThreadSet : FlagOf(t) \in state => ~Gone(t)

(* No flag is set and no thread exits without clearing its own.            *)
KeepsUp ==
  \A t \in DeviceThreadSet :
    FlagOf(t) \in state' => FlagOf(t) \in state /\ (~Gone(t) => ~Gone(t)')

LEMMA MoveKeepsUp ==
  ASSUME PcType, NEW t \in Threads, NEW label, Goto(t, label), label \notin {"absent", "done"},
         state' \cap Running = state \cap Running
  PROVE  KeepsUp
BY Sets, FlagsDiffer DEF PcType, Goto, KeepsUp, Gone

LEMMA AfterResetAlive == \A t : AfterReset(t) \notin {"absent", "done"}
BY DEF AfterReset

LEMMA EnterKeepsUp ==
  ASSUME PcType, NEW t \in Threads, NEW cause, EnterReset(t, cause)
  PROVE  KeepsUp
<1>1. state' \cap Running = state \cap Running
  BY DEF EnterReset, Running
<1>2. \E label : Goto(t, label) /\ label \notin {"absent", "done"}
  BY AfterResetAlive DEF EnterReset
<1> QED
  BY <1>1, <1>2, MoveKeepsUp

LEMMA ResetKeepsUp ==
  ASSUME PcType, NEW t \in Threads, NEW cause, Reset(t, cause)
  PROVE  KeepsUp
BY EnterKeepsUp, AfterResetAlive, MoveKeepsUp DEF Reset, AlreadyReset

LEMMA ReaderKeepsUp ==
  ASSUME PcType, NEW r \in Readers, ReadCall(r) \/ ReadStep(r) \/ ReadTimeout(r)
  PROVE  KeepsUp
<1>1. r \in Threads
  BY Sets
<1>2. CASE ReadCall(r) \/ ReadTimeout(r)
  BY <1>1, <1>2, MoveKeepsUp DEF ReadCall, ReadTimeout
<1>3. CASE ReadFails(r)
  BY <1>1, <1>3, AfterResetAlive, MoveKeepsUp DEF ReadFails, AlreadyReset
<1>4. CASE ReadFindsNothing(r)
  BY <1>1, <1>4, MoveKeepsUp DEF ReadFindsNothing
<1>5. CASE ReadHandles(r)
  <2>1. AfterAccept(Head(cmds)) \notin {"absent", "done"}
    BY DEF AfterAccept
  <2> QED
    BY <1>1, <1>5, <2>1, MoveKeepsUp, EnterKeepsUp DEF ReadHandles
<1> QED
  BY <1>2, <1>3, <1>4, <1>5 DEF ReadStep

LEMMA SenderKeepsUp ==
  ASSUME PcType, NEW t \in Readers \cup Writers, WriteCall(t) \/ Serve(t)
  PROVE  KeepsUp
<1>1. t \in Threads
  BY Sets
<1>2. CASE WriteCall(t)
  BY <1>1, <1>2, MoveKeepsUp DEF WriteCall, threadVars
<1>3. CASE Serve(t) /\ UNCHANGED pc
  BY <1>3 DEF Serve, KeepsUp, Gone
<1>4. CASE Serve(t) /\ Goto(t, IF t \in Readers THEN "reading" ELSE "idle")
  BY <1>1, <1>4, MoveKeepsUp DEF Serve
<1> QED
  BY <1>2, <1>3, <1>4 DEF Serve

LEMMA DeviceThreadKeepsUp ==
  ASSUME PcType, ReadThreadStep \/ WriteThreadStep
  PROVE  KeepsUp
<1>1. ReadThread \in Threads /\ WriteThread \in Threads
  BY Sets
<1>2. CASE ReadThreadStep
  BY <1>1, <1>2, MoveKeepsUp DEF ReadThreadStep, ReadInit, ReadRecv, ReadPush, threadVars
<1>3. CASE WriteThreadStep /\ UNCHANGED pc
  BY <1>3 DEF WriteThreadStep, WriteInit, WriteTake, WriteSend, threadVars, KeepsUp, Gone
<1>4. CASE WriteThreadStep /\ ~UNCHANGED pc
  BY <1>1, <1>4, MoveKeepsUp DEF WriteThreadStep, WriteInit, WriteTake, WriteSend, threadVars
<1> QED
  BY <1>2, <1>3, <1>4

LEMMA EndKeepsUp ==
  ASSUME PcType, NEW t \in Threads,
         \/ Stop(t) \/ ThreadCatch(t) \/ ResetWake(t)
         \/ t \in DeviceThreadSet /\ ThreadExit(t)
  PROVE  KeepsUp
<1>1. CASE Stop(t) \/ ThreadCatch(t)
  BY <1>1, ResetKeepsUp DEF Stop, ThreadCatch
<1>2. CASE ResetWake(t) /\ Goto(t, AfterReset(t))
  BY <1>2, AfterResetAlive, MoveKeepsUp DEF ResetWake
<1>3. CASE ResetWake(t) /\ UNCHANGED pc
  BY <1>3 DEF ResetWake, KeepsUp, Gone
<1>4. CASE t \in DeviceThreadSet /\ ThreadExit(t)
  BY <1>4, FlagsDiffer, Sets DEF ThreadExit, Goto, PcType, KeepsUp, Gone
<1> QED
  BY <1>1, <1>2, <1>3, <1>4 DEF ResetWake

LEMMA StartKeepsUp ==
  ASSUME PcType, StartFails \/ StartCatch
  PROVE  KeepsUp
<1>1. CASE StartFails
  BY <1>1, FlagsDiffer DEF StartFails, KeepsUp, Running
<1>2. CASE StartCatch
  BY <1>2, Sets, EnterKeepsUp DEF StartCatch
<1> QED
  BY <1>1, <1>2

LEMMA FlagsKept ==
  ASSUME PcType, [Step]_vars
  PROVE  StartSucceeds \/ SpawnFails \/ KeepsUp
<1>1. StartFails \/ StartCatch => KeepsUp
  BY StartKeepsUp
<1>2. ASSUME NEW r \in Readers, ReadCall(r) \/ ReadStep(r) \/ ReadTimeout(r) PROVE KeepsUp
  BY <1>2, ReaderKeepsUp
<1>3. ASSUME NEW t \in Readers \cup Writers, WriteCall(t) \/ Serve(t) PROVE KeepsUp
  BY <1>3, SenderKeepsUp
<1>4. ReadThreadStep \/ WriteThreadStep => KeepsUp
  BY DeviceThreadKeepsUp
<1>5. ASSUME NEW t \in Threads,
             \/ Stop(t) \/ ThreadCatch(t) \/ ResetWake(t)
             \/ t \in DeviceThreadSet /\ ThreadExit(t)
      PROVE  KeepsUp
  BY <1>5, EndKeepsUp
<1>6. (\E t \in Threads : SpuriousWakeup(t)) \/ HostActs \/ HostCloses \/ UNCHANGED vars
      => KeepsUp
  BY DEF SpuriousWakeup, HostActs, HostCloses, vars, threadVars, KeepsUp, Gone
<1> QED
  BY <1>1, <1>2, <1>3, <1>4, <1>5, <1>6, Sets DEF Step, Start

LEMMA FlagsInit == Begin => FlagsExact
BY DEF Begin, FlagsExact

LEMMA FlagsStep ==
  PcType /\ PcType' /\ FailureInv /\ FlagsExact /\ [Step]_vars => FlagsExact'
<1> SUFFICES ASSUME PcType, PcType', FailureInv, FlagsExact, [Step]_vars,
                    err' # "start", pc'[Starter] # "throwing"
             PROVE  \A t \in DeviceThreadSet : FlagOf(t) \in state' => ~Gone(t)'
  BY DEF FlagsExact, FlagOf
<1>1. CASE StartSucceeds
  BY <1>1, Sets DEF StartSucceeds, Gone, DeviceThreadSet, PcType
<1>2. ~SpawnFails
  BY Sets DEF SpawnFails, PcType
<1>3. CASE KeepsUp
  <2>1. err # "start"
    BY AfterFailure
  <2>2. CASE pc[Starter] = "throwing"
    <3>1. Uninvolved => FALSE
      BY <2>2 DEF Uninvolved
    <3>2. ASSUME NEW t \in Threads, Enters(t) PROVE FALSE
      BY <2>2, <3>2 DEF Enters, EnterReset
    <3>3. ASSUME NEW t \in Threads, Cleans(t) PROVE FALSE
      BY <2>2, <3>3 DEF Cleans, Goto, PcType
    <3>4. ~StartsUp
      BY <2>2 DEF StartsUp, StartSucceeds, StartFails, SpawnFails
    <3> QED
      BY <3>1, <3>2, <3>3, <3>4, WhoIsInvolved
  <2>3. CASE pc[Starter] # "throwing"
    BY <1>3, <2>1, <2>3 DEF FlagsExact, KeepsUp
  <2> QED
    BY <2>2, <2>3
<1> QED
  BY <1>1, <1>2, <1>3, FlagsKept

LEMMA FlagsAlways == ThreadSpec => []FlagsExact
<1>1. ThreadInv => PcType /\ FailureInv
  BY DEF ThreadInv, SocketInv
<1> QED
  BY <1>1, FlagsInit, FlagsStep, ThreadAlways, PTL DEF ThreadSpec

(* A shutdown that a client began never gets stuck, whatever fails on the  *)
(* way: until the threads are gone and the socket is closed, the lock is   *)
(* free and some thread has something to do.                               *)
THEOREM ShutdownIsNotStuck == ThreadSpec => []ShutdownGoesOn
<1>1. ThreadInv /\ CleanInv /\ FlagsExact => ShutdownGoesOn
  <2> SUFFICES ASSUME ThreadInv, CleanInv, FlagsExact, err \in {"stopped", "command"}, ~ShutDown
               PROVE  /\ Free
                      /\ \E t \in Threads :
                           /\ CanGoOn(t)
                           /\ pc[t] = "resetting" \/ (t \in DeviceThreadSet /\ ~Gone(t))
    BY DEF ShutdownGoesOn
  <2>1. Free /\ socket # "open" /\ pc[Starter] # "throwing"
    BY DEF ThreadInv, FailureInv, ErrIsReset, ResetIsShut, CleanInv, Free
  <2>2. CASE \E t \in DeviceThreadSet : ~Gone(t)
    <3>1. PICK t \in DeviceThreadSet : ~Gone(t)
      BY <2>2
    <3>2. t \notin waiting
      BY Sets DEF ThreadInv, WaitInv, Stays, CleanInv
    <3> QED
      BY <2>1, <3>1, <3>2, Sets DEF CanGoOn
  <2>3. CASE \A t \in DeviceThreadSet : Gone(t)
    <3>1. state \cap Running = {}
      BY <2>1, <2>3, Sets DEF FlagsExact, FlagOf, Running
    <3>2. PICK t \in Threads : pc[t] = "resetting"
      BY <2>3 DEF CleanInv, ShutDown
    <3>3. t \notin waiting
      BY <3>1, <3>2 DEF ThreadInv, WaitInv, Stays
    <3> QED
      BY <2>1, <3>2, <3>3 DEF CanGoOn
  <2> QED
    BY <2>2, <2>3
<1> QED
  BY <1>1, ThreadAlways, CleanAlways, FlagsAlways, PTL

==============================================================================
