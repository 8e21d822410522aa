------------------------------ MODULE TaskProofs ------------------------------
(***************************************************************************)
(* Proofs about Task, for any number of tasks and calls: what a call for   *)
(* another task promises, which tasks run() wrongly takes for terminated,  *)
(* and that an idle pass of Run() leaves no task that it could have run.   *)
(***************************************************************************)
EXTENDS Task, SequenceTheorems, TLAPS

LEMMA RunningPop ==
  ASSUME NEW s \in Seq(Tasks), s # <<>>
  PROVE  /\ Head(s) \in Tasks /\ Tail(s) \in Seq(Tasks)
         /\ {Tail(s)[i] : i \in DOMAIN Tail(s)} \subseteq {s[i] : i \in DOMAIN s}
<1>1. Head(s) \in Tasks /\ Tail(s) \in Seq(Tasks)
  BY HeadTailProperties
<1>2. Len(Tail(s)) = Len(s) - 1 /\ Len(s) \in Nat
      /\ \A i \in 1 .. Len(Tail(s)) : Tail(s)[i] = s[i + 1]
  BY HeadTailProperties
<1>3. \A i \in DOMAIN Tail(s) : i + 1 \in DOMAIN s /\ Tail(s)[i] = s[i + 1]
  BY <1>1, <1>2
<1> QED
  BY <1>1, <1>3

LEMMA RunningPush ==
  ASSUME NEW s \in Seq(Tasks), NEW t \in Tasks
  PROVE  /\ <<t>> \o s \in Seq(Tasks) /\ <<t>> \o s # <<>>
         /\ {(<<t>> \o s)[i] : i \in DOMAIN (<<t>> \o s)}
              = {t} \cup {s[i] : i \in DOMAIN s}
<1> DEFINE r == <<t>> \o s
<1>1. /\ r \in Seq(Tasks) /\ Len(r) = Len(s) + 1 /\ Len(s) \in Nat
      /\ \A i \in 1 .. Len(s) + 1 : r[i] = IF i <= 1 THEN t ELSE s[i - 1]
  <2>1. <<t>> \in Seq(Tasks) /\ Len(<<t>>) = 1 /\ <<t>>[1] = t
    OBVIOUS
  <2>2. /\ r \in Seq(Tasks) /\ Len(r) = 1 + Len(s)
        /\ \A i \in 1 .. 1 + Len(s) : r[i] = IF i <= 1 THEN <<t>>[i] ELSE s[i - 1]
    BY <2>1, ConcatProperties
  <2> QED
    BY <2>1, <2>2
<1> HIDE DEF r
<1>2. DOMAIN r = 1 .. Len(s) + 1 /\ DOMAIN s = 1 .. Len(s)
  BY <1>1
<1>3. {r[i] : i \in DOMAIN r} = {t} \cup {s[i] : i \in DOMAIN s}
  <2>1. ASSUME NEW i \in DOMAIN r
        PROVE  r[i] \in {t} \cup {s[j] : j \in DOMAIN s}
    <3>1. CASE i <= 1
      BY <1>1, <1>2, <3>1
    <3>2. CASE ~(i <= 1)
      <4>1. i - 1 \in DOMAIN s /\ r[i] = s[i - 1]
        BY <1>1, <1>2, <3>2
      <4> QED
        BY <4>1
    <3> QED
      BY <3>1, <3>2
  <2>2. t \in {r[i] : i \in DOMAIN r}
    <3>1. 1 \in DOMAIN r /\ r[1] = t
      BY <1>1, <1>2
    <3> QED
      BY <3>1
  <2>3. ASSUME NEW j \in DOMAIN s
        PROVE  s[j] \in {r[i] : i \in DOMAIN r}
    <3>1. j + 1 \in DOMAIN r /\ r[j + 1] = s[j]
      BY <1>1, <1>2
    <3> QED
      BY <3>1
  <2> QED
    BY <2>1, <2>2, <2>3
<1>4. r # <<>>
  BY <1>1
<1> QED
  BY <1>1, <1>3, <1>4 DEF r

(***************************************************************************)
(* Type correctness.                                                       *)
(***************************************************************************)
LEMMA CurrentType ==
  ASSUME TypeOK, running # <<>>
  PROVE  /\ Current \in Tasks /\ Current \in Executing
         /\ Tail(running) \in Seq(Tasks)
         /\ {Tail(running)[i] : i \in DOMAIN Tail(running)} \subseteq Executing
<1>1. running \in Seq(Tasks)
  BY DEF TypeOK
<1>2. 1 \in DOMAIN running /\ Head(running) = running[1]
  BY <1>1
<1> QED
  BY <1>1, <1>2, RunningPop DEF Current, Executing

LEMMA RunType ==
  ASSUME TypeOK, NEW t \in Tasks, RunStopped(t) \/ RunBlocked(t) \/ RunOn(t)
  PROVE  /\ state' \in [Tasks -> States] /\ jmp' \in [Tasks -> Places]
         /\ running' \in Seq(Tasks)
         /\ orders' \in [Tasks -> {"none", "start", "pause", "resume"}]
         /\ lost' \subseteq Tasks
<1>1. CASE RunStopped(t)
  BY <1>1 DEF RunStopped, TypeOK
<1>2. CASE RunBlocked(t)
  BY <1>2 DEF RunBlocked, Epilogue, TypeOK, States, Places
<1>3. CASE RunOn(t)
  <2>1. running' \in Seq(Tasks)
    BY <1>3, RunningPush DEF RunOn, TypeOK
  <2> QED
    BY <1>3, <2>1 DEF RunOn, TypeOK, States
<1> QED
  BY <1>1, <1>2, <1>3

LEMMA ReturnedType ==
  ASSUME TypeOK, running # <<>>, Returned, running # <<>> => pos \in Tasks
  PROVE  running' \in Seq(Tasks) /\ pos' \in 1 .. N + 1 /\ didWork' \in BOOLEAN
<1>1. Tail(running) \in Seq(Tasks) /\ pos + 1 \in 1 .. N + 1
  BY CurrentType, TaskAssumption DEF Tasks
<1> QED
  BY <1>1 DEF Returned, TypeOK

(* A function runs only on behalf of a task whose turn it is.              *)
Types == TypeOK /\ (running # <<>> => pos \in Tasks)

LEMMA CallType ==
  ASSUME Types, running # <<>>, Call
  PROVE  Types'
<1>1. UNCHANGED <<pos, didWork, missed>> /\ calls' \in Nat
  BY DEF Call, Types, TypeOK
<1>2. /\ state' \in [Tasks -> States] /\ jmp' \in [Tasks -> Places]
      /\ cond' \in [Tasks -> BOOLEAN] /\ running' \in Seq(Tasks)
      /\ orders' \in [Tasks -> {"none", "start", "pause", "resume"}]
      /\ lost' \subseteq Tasks
  <2>1. CASE \E u \in Tasks : Start(u)
    BY <2>1 DEF Start, Order, Types, TypeOK, States, Places
  <2>2. CASE \E u \in Tasks : Pause(u)
    BY <2>2 DEF Pause, Order, Types, TypeOK, States
  <2>3. CASE \E u \in Tasks : Resume(u)
    BY <2>3 DEF Resume, Order, Types, TypeOK, States
  <2>4. CASE \E u \in Tasks : RunOther(u)
    <3>1. PICK u \in Tasks : RunStopped(u) \/ RunBlocked(u) \/ RunOn(u)
      BY <2>4 DEF RunOther
    <3>2. cond' = cond
      BY <2>4 DEF RunOther
    <3> QED
      BY <3>1, <3>2, RunType DEF Types, TypeOK
  <2>5. CASE PassWait
    BY <2>5, CurrentType DEF PassWait, Types, TypeOK, States
  <2> QED
    BY <2>1, <2>2, <2>3, <2>4, <2>5 DEF Call
<1> QED
  BY <1>1, <1>2 DEF Types, TypeOK

LEMMA TypeStep ==
  ASSUME Types, [Next]_vars
  PROVE  Types'
<1>1. CASE Schedule
  <2>1. pos \in Tasks /\ pos + 1 \in 1 .. N + 1
    BY <1>1, TaskAssumption DEF Schedule, Types, TypeOK, Tasks
  <2>2. /\ state' \in [Tasks -> States] /\ jmp' \in [Tasks -> Places]
        /\ running' \in Seq(Tasks)
        /\ orders' \in [Tasks -> {"none", "start", "pause", "resume"}]
        /\ lost' \subseteq Tasks
    BY <1>1, <2>1, RunType DEF Schedule, Types
  <2>3. running' # <<>> => pos' = pos
    BY <1>1 DEF Schedule, RunStopped, RunBlocked
  <2>4. UNCHANGED <<cond, didWork, calls, missed>> /\ pos' \in 1 .. N + 1
    BY <1>1, <2>1 DEF Schedule, Types, TypeOK
  <2> QED
    BY <2>1, <2>2, <2>3, <2>4 DEF Types, TypeOK
<1>2. CASE EndPass
  <2>1. 1 \in 1 .. N + 1
    BY TaskAssumption
  <2>2. /\ running = <<>> /\ pos' = 1 /\ didWork' = FALSE
        /\ UNCHANGED <<state, jmp, cond, running, calls, orders, lost>> /\ missed' = {}
    BY <1>2 DEF EndPass
  <2>3. running' = <<>>
    BY <2>2
  <2> QED
    BY <2>1, <2>2, <2>3 DEF Types, TypeOK
<1>3. CASE running # <<>> /\ Call
  BY <1>3, CallType
<1>4. CASE running # <<>> /\ Leave
  <2>1. running' \in Seq(Tasks) /\ pos' \in 1 .. N + 1 /\ didWork' \in BOOLEAN
    BY <1>4, ReturnedType DEF Leave, Yield, Return, Types
  <2>2. running' # <<>> => pos' = pos
    BY <1>4 DEF Leave, Yield, Return, Returned
  <2>3. UNCHANGED <<cond, calls, orders, lost, missed>>
    BY <1>4 DEF Leave, Yield, Return
  <2>4. state' \in [Tasks -> States] /\ jmp' \in [Tasks -> Places]
    BY <1>4, CurrentType DEF Leave, Yield, Return, Epilogue, Types, TypeOK, States, Places
  <2> QED
    BY <1>4, <2>1, <2>2, <2>3, <2>4 DEF Types, TypeOK
<1>5. CASE Change
  BY <1>5 DEF Change, Types, TypeOK
<1>6. CASE UNCHANGED vars
  BY <1>6 DEF vars, Types, TypeOK
<1> QED
  BY <1>1, <1>2, <1>3, <1>4, <1>5, <1>6 DEF Next, Body

LEMMA TypeInit ==
  ASSUME Init
  PROVE  Types
<1>1. 1 \in 1 .. N + 1 /\ 0 \in Nat
  BY TaskAssumption
<1>2. running = <<>> /\ <<>> \in Seq(Tasks)
  BY DEF Init
<1>3. /\ state \in [Tasks -> States] /\ jmp \in [Tasks -> Places]
      /\ cond \in [Tasks -> BOOLEAN]
      /\ orders \in [Tasks -> {"none", "start", "pause", "resume"}]
  BY DEF Init, States, Places
<1>4. pos = 1 /\ didWork = FALSE /\ calls = 0 /\ lost = {} /\ missed = {}
  BY DEF Init
<1> QED
  BY <1>1, <1>2, <1>3, <1>4 DEF Types, TypeOK

(***************************************************************************)
(* What a call for another task promises.                                  *)
(***************************************************************************)
OrdersInv ==
  \A t \in Tasks :
    /\ orders[t] # "none" => t \notin Executing
    /\ orders[t] = "pause" => state[t] = "Stop"
    /\ orders[t] = "start" => jmp[t] = "null"

LEMMA RunOrders ==
  ASSUME Types, OrdersInv, NEW t \in Tasks,
         RunStopped(t) \/ RunBlocked(t) \/ RunOn(t)
  PROVE  /\ OrdersInv'
         /\ \A u \in Executing' \ Executing :
              orders[u] # "pause" /\ (orders[u] = "start" => jmp[u] = "null")
<1>1. CASE RunStopped(t)
  BY <1>1 DEF RunStopped, OrdersInv, Executing
<1>2. CASE RunBlocked(t)
  <2>1. Executing' = Executing
    BY <1>2 DEF RunBlocked, Executing
  <2>2. /\ orders' = [orders EXCEPT ![t] = "none"]
        /\ \A u \in Tasks : u # t => state'[u] = state[u] /\ jmp'[u] = jmp[u]
    BY <1>2 DEF RunBlocked, Epilogue, Types, TypeOK
  <2> QED
    BY <2>1, <2>2 DEF OrdersInv, Types, TypeOK
<1>3. CASE RunOn(t)
  <2>1. Executing' = {t} \cup Executing
    <3>1. running \in Seq(Tasks) /\ running' = <<t>> \o running
      BY <1>3 DEF RunOn, Types, TypeOK
    <3>2. {(<<t>> \o running)[i] : i \in DOMAIN (<<t>> \o running)}
            = {t} \cup {running[i] : i \in DOMAIN running}
      BY <3>1, RunningPush
    <3> QED
      BY <3>1, <3>2 DEF Executing
  <2>2. /\ orders' = [orders EXCEPT ![t] = "none"]
        /\ \A u \in Tasks : u # t => state'[u] = state[u]
        /\ jmp' = jmp
    BY <1>3 DEF RunOn, Types, TypeOK
  <2>3. state[t] # "Stop"
    BY <1>3 DEF RunOn
  <2>4. OrdersInv'
    BY <2>1, <2>2 DEF OrdersInv, Types, TypeOK
  <2> QED
    BY <2>1, <2>3, <2>4 DEF OrdersInv
<1> QED
  BY <1>1, <1>2, <1>3

LEMMA OrderSpec ==
  ASSUME Types, NEW u \in Tasks, NEW o \in {"start", "pause", "resume"}, Order(u, o),
         UNCHANGED running
  PROVE  /\ Executing' = Executing
         /\ \A t \in Tasks : t # u \/ u \in Executing => orders'[t] = orders[t]
         /\ u \notin Executing => orders'[u] = o
BY DEF Order, Executing, Types, TypeOK

LEMMA OrdersStep ==
  ASSUME Types, OrdersInv, [Next]_vars
  PROVE  /\ OrdersInv'
         /\ \A t \in Executing' \ Executing :
              orders[t] # "pause" /\ (orders[t] = "start" => jmp[t] = "null")
<1>1. CASE Schedule
  <2>1. pos \in Tasks
    BY <1>1, TaskAssumption DEF Schedule, Types, TypeOK, Tasks
  <2> QED
    BY <1>1, <2>1, RunOrders DEF Schedule
<1>2. CASE EndPass \/ Change
  BY <1>2 DEF EndPass, Change, OrdersInv, Executing
<1>3. CASE running # <<>> /\ Call
  <2>1. CASE \E u \in Tasks : Start(u)
    <3>1. PICK u \in Tasks : Start(u)
      BY <2>1
    <3>2. /\ Executing' = Executing
          /\ \A t \in Tasks : t # u \/ u \in Executing => orders'[t] = orders[t]
          /\ u \notin Executing => orders'[u] = "start"
      BY <3>1, OrderSpec DEF Start
    <3>3. /\ \A t \in Tasks : t # u => state'[t] = state[t] /\ jmp'[t] = jmp[t]
          /\ jmp'[u] = "null"
      BY <3>1 DEF Start, Types, TypeOK
    <3> QED
      BY <3>2, <3>3 DEF OrdersInv
  <2>2. CASE \E u \in Tasks : Pause(u)
    <3>1. PICK u \in Tasks : Pause(u)
      BY <2>2
    <3>2. /\ Executing' = Executing
          /\ \A t \in Tasks : t # u \/ u \in Executing => orders'[t] = orders[t]
          /\ u \notin Executing => orders'[u] = "pause"
      BY <3>1, OrderSpec DEF Pause
    <3>3. /\ \A t \in Tasks : t # u => state'[t] = state[t]
          /\ state'[u] = "Stop" /\ jmp' = jmp
      BY <3>1 DEF Pause, Types, TypeOK
    <3> QED
      BY <3>2, <3>3 DEF OrdersInv
  <2>3. CASE \E u \in Tasks : Resume(u)
    <3>1. PICK u \in Tasks : Resume(u)
      BY <2>3
    <3>2. /\ Executing' = Executing
          /\ \A t \in Tasks : t # u \/ u \in Executing => orders'[t] = orders[t]
          /\ u \notin Executing => orders'[u] = "resume"
      BY <3>1, OrderSpec DEF Resume
    <3>3. /\ \A t \in Tasks : t # u => state'[t] = state[t]
          /\ jmp' = jmp
      BY <3>1 DEF Resume, Types, TypeOK
    <3> QED
      BY <3>2, <3>3 DEF OrdersInv
  <2>4. CASE \E u \in Tasks : RunOther(u)
    BY <2>4, RunOrders DEF RunOther
  <2>5. CASE PassWait
    <3>1. Current \in Executing /\ Current \in Tasks
      BY <1>3, CurrentType DEF Types
    <3>2. /\ Executing' = Executing /\ orders' = orders /\ jmp' = jmp
          /\ \A t \in Tasks : t # Current => state'[t] = state[t]
      BY <2>5, <3>1 DEF PassWait, Executing, Types, TypeOK
    <3> QED
      BY <3>1, <3>2 DEF OrdersInv
  <2> QED
    BY <1>3, <2>1, <2>2, <2>3, <2>4, <2>5 DEF Call
<1>4. CASE running # <<>> /\ Leave
  <2>1. Current \in Executing /\ Current \in Tasks
    BY <1>4, CurrentType DEF Types
  <2>2. Executing' \subseteq Executing
    <3>1. running' = Tail(running)
      BY <1>4 DEF Leave, Yield, Return, Returned
    <3> QED
      BY <1>4, <3>1, CurrentType DEF Types, Executing
  <2>3. /\ orders' = orders
        /\ \A t \in Tasks : t # Current => state'[t] = state[t] /\ jmp'[t] = jmp[t]
    BY <1>4 DEF Leave, Yield, Return, Epilogue, Types, TypeOK
  <2> QED
    BY <2>1, <2>2, <2>3 DEF OrdersInv
<1>5. CASE UNCHANGED vars
  BY <1>5 DEF vars, OrdersInv, Executing
<1> QED
  BY <1>1, <1>2, <1>3, <1>4, <1>5 DEF Next, Body

(***************************************************************************)
(* Before any task of this pass has worked, the tasks whose turn is over   *)
(* are stopped or wait for a condition that did not hold in their turn: no *)
(* function has run since, so only an interrupt can have changed it.       *)
(***************************************************************************)
IdleInv ==
  running = <<>> /\ ~didWork =>
    \A t \in Tasks : t < pos /\ Ready(t) => state[t] = "Wait" /\ t \in missed

LEMMA IdleStep ==
  ASSUME Types, IdleInv, [Next]_vars
  PROVE  IdleInv'
<1>1. CASE Schedule
  <2>1. pos \in Tasks /\ running = <<>> /\ didWork' = didWork /\ pos \in Int
    BY <1>1, TaskAssumption DEF Schedule, Types, TypeOK, Tasks
  <2>2. CASE RunStopped(pos) /\ pos' = pos + 1
    <3>1. UNCHANGED <<state, jmp, cond, missed>> /\ state[pos] = "Stop"
      BY <1>1, <2>2 DEF Schedule, RunStopped
    <3>2. \A t \in Tasks : t < pos' => t < pos \/ t = pos
      BY <2>1, <2>2 DEF Tasks
    <3> QED
      BY <2>1, <3>1, <3>2 DEF IdleInv, Ready, Blocked
  <2>3. CASE RunBlocked(pos) /\ pos' = pos + 1
    <3>1. /\ state'[pos] = "Stop" \/ (state'[pos] = "Wait" /\ jmp'[pos] = "wait" /\ ~cond'[pos])
          /\ \A t \in Tasks : t # pos => state'[t] = state[t] /\ jmp'[t] = jmp[t]
          /\ UNCHANGED <<cond, missed>>
      <4>1. UNCHANGED <<cond, missed>>
        BY <1>1 DEF Schedule
      <4> QED
        BY <2>1, <2>3, <4>1 DEF RunBlocked, Blocked, Epilogue, Types, TypeOK
    <3>2. \A t \in Tasks : t < pos' => t < pos \/ t = pos
      BY <2>1, <2>3 DEF Tasks
    <3> QED
      BY <2>1, <3>1, <3>2 DEF IdleInv, Ready, Blocked
  <2>4. CASE RunOn(pos)
    <3>1. running' # <<>>
      BY <2>1, <2>4, RunningPush DEF RunOn, Types, TypeOK
    <3> QED
      BY <3>1 DEF IdleInv
  <2> QED
    BY <1>1, <2>2, <2>3, <2>4 DEF Schedule
<1>2. CASE EndPass
  <2>1. pos' = 1 /\ \A t \in Tasks : ~(t < 1)
    BY <1>2 DEF EndPass, Tasks
  <2> QED
    BY <2>1 DEF IdleInv
<1>3. CASE running # <<>> /\ Call
  <2>1. CASE \E u \in Tasks : RunOther(u)
    <3>1. running' # <<>>
      BY <1>3, <2>1, RunningPush DEF RunOther, RunStopped, RunBlocked, RunOn, Types, TypeOK
    <3> QED
      BY <3>1 DEF IdleInv
  <2>2. CASE PassWait \/ \E u \in Tasks : Start(u) \/ Pause(u) \/ Resume(u)
    <3>1. running' # <<>>
      BY <1>3, <2>2 DEF PassWait, Start, Pause, Resume
    <3> QED
      BY <3>1 DEF IdleInv
  <2> QED
    BY <1>3, <2>1, <2>2 DEF Call
<1>4. CASE running # <<>> /\ Leave
  <2>1. running' = <<>> => didWork'
    BY <1>4 DEF Leave, Yield, Return, Returned
  <2> QED
    BY <2>1 DEF IdleInv
<1>5. CASE Change
  <2>1. PICK u \in Tasks :
          /\ cond' = [cond EXCEPT ![u] = ~@]
          /\ missed' = IF running = <<>> /\ u < pos THEN missed \cup {u} ELSE missed
    BY <1>5 DEF Change
  <2>2. /\ UNCHANGED <<state, jmp, running, pos, didWork>>
        /\ \A t \in Tasks : t # u => cond'[t] = cond[t]
    BY <1>5, <2>1 DEF Change, Types, TypeOK
  <2>3. SUFFICES ASSUME running = <<>>, ~didWork, NEW t \in Tasks, t < pos, Ready(t)'
                 PROVE  state[t] = "Wait" /\ t \in missed'
    BY <2>2 DEF IdleInv
  <2>4. CASE t = u
    BY <2>1, <2>2, <2>3, <2>4 DEF IdleInv, Ready
  <2>5. CASE t # u
    BY <2>1, <2>2, <2>3, <2>5 DEF IdleInv, Ready, Blocked
  <2> QED
    BY <2>4, <2>5
<1>6. CASE UNCHANGED vars
  BY <1>6 DEF vars, IdleInv, Ready, Blocked
<1> QED
  BY <1>1, <1>2, <1>3, <1>4, <1>5, <1>6 DEF Next, Body

(***************************************************************************)
(* A task that is in a TaskWait(), does not execute and is in state Run    *)
(* was resumed: its own TaskWait() left it in state Wait.                  *)
(***************************************************************************)
ResumedInv ==
  \A t \in Tasks :
    t \notin Executing /\ state[t] = "Run" /\ jmp[t] = "wait" => orders[t] = "resume"

LEMMA RunningRest ==
  ASSUME NEW s \in Seq(Tasks), s # <<>>, NEW i \in DOMAIN s, s[i] # Head(s)
  PROVE  \E j \in DOMAIN Tail(s) : Tail(s)[j] = s[i]
<1>1. /\ Tail(s) \in Seq(Tasks) /\ Len(Tail(s)) = Len(s) - 1 /\ Len(s) \in Nat /\ Head(s) = s[1]
      /\ \A j \in 1 .. Len(Tail(s)) : Tail(s)[j] = s[j + 1]
  BY HeadTailProperties, EmptySeq
<1>2. i \in 1 .. Len(s) /\ i # 1
  BY <1>1
<1>3. i - 1 \in 1 .. Len(Tail(s)) /\ (i - 1) + 1 = i
  BY <1>1, <1>2
<1>4. i - 1 \in DOMAIN Tail(s) /\ Tail(s)[i - 1] = s[i]
  BY <1>1, <1>3
<1> QED
  BY <1>4

LEMMA RunResumed ==
  ASSUME Types, ResumedInv, NEW t \in Tasks, t \notin Executing,
         RunStopped(t) \/ RunBlocked(t) \/ RunOn(t)
  PROVE  /\ ResumedInv'
         /\ \A u \in lost' \ lost :
              /\ state[u] = "Run" /\ jmp[u] = "wait"
              /\ u \notin Executing /\ orders[u] = "resume"
<1>1. CASE RunStopped(t)
  BY <1>1 DEF RunStopped, ResumedInv, Executing
<1>2. CASE RunBlocked(t)
  <2>1. Executing' = Executing /\ state'[t] # "Run"
        /\ \A u \in Tasks : u # t => /\ state'[u] = state[u] /\ jmp'[u] = jmp[u]
                                     /\ orders'[u] = orders[u]
    BY <1>2 DEF RunBlocked, Epilogue, Executing, Types, TypeOK
  <2>2. \A u \in lost' \ lost : u = t /\ state[t] = "Run" /\ jmp[t] = "wait"
    BY <1>2 DEF RunBlocked, Blocked
  <2> QED
    BY <2>1, <2>2 DEF ResumedInv
<1>3. CASE RunOn(t)
  <2>1. Executing' = {t} \cup Executing
    <3>1. running \in Seq(Tasks) /\ running' = <<t>> \o running
      BY <1>3 DEF RunOn, Types, TypeOK
    <3>2. {(<<t>> \o running)[i] : i \in DOMAIN (<<t>> \o running)}
            = {t} \cup {running[i] : i \in DOMAIN running}
      BY <3>1, RunningPush
    <3> QED
      BY <3>1, <3>2 DEF Executing
  <2>2. lost' \subseteq lost /\ jmp' = jmp
        /\ \A u \in Tasks : u # t => state'[u] = state[u] /\ orders'[u] = orders[u]
    BY <1>3 DEF RunOn, Types, TypeOK
  <2> QED
    BY <2>1, <2>2 DEF ResumedInv
<1> QED
  BY <1>1, <1>2, <1>3

LEMMA ResumedStep ==
  ASSUME Types, ResumedInv, [Next]_vars
  PROVE  /\ ResumedInv'
         /\ \A t \in lost' \ lost :
              /\ state[t] = "Run" /\ jmp[t] = "wait"
              /\ t \notin Executing /\ orders[t] = "resume"
<1>1. CASE Schedule
  <2>1. pos \in Tasks /\ pos \notin Executing
    BY <1>1, TaskAssumption DEF Schedule, Types, TypeOK, Tasks, Executing
  <2> QED
    BY <1>1, <2>1, RunResumed DEF Schedule
<1>2. CASE EndPass \/ Change
  BY <1>2 DEF EndPass, Change, ResumedInv, Executing
<1>3. CASE running # <<>> /\ Call
  <2>1. ASSUME NEW u \in Tasks, Start(u) \/ Pause(u) \/ Resume(u)
        PROVE  ResumedInv' /\ lost' = lost
    <3>1. PICK o \in {"start", "pause", "resume"} : Order(u, o) /\ (Resume(u) => o = "resume")
      BY <2>1 DEF Start, Pause, Resume
    <3>2. UNCHANGED <<running, lost>>
      BY <2>1 DEF Start, Pause, Resume
    <3>3. /\ Executing' = Executing
          /\ \A t \in Tasks : t # u => orders'[t] = orders[t]
          /\ u \notin Executing => orders'[u] = o
      BY <3>1, <3>2, OrderSpec
    <3>4. /\ \A t \in Tasks : t # u => state'[t] = state[t] /\ jmp'[t] = jmp[t]
          /\ state'[u] = "Run" => jmp'[u] = "null" \/ Resume(u)
      BY <2>1 DEF Start, Pause, Resume, Types, TypeOK
    <3> QED
      BY <3>1, <3>2, <3>3, <3>4 DEF ResumedInv
  <2>2. CASE \E u \in Tasks : RunOther(u)
    BY <2>2, RunResumed DEF RunOther
  <2>3. CASE PassWait
    <3>1. Current \in Executing /\ Current \in Tasks
      BY <1>3, CurrentType DEF Types
    <3>2. /\ Executing' = Executing /\ UNCHANGED <<orders, jmp, lost>>
          /\ \A t \in Tasks : t # Current => state'[t] = state[t]
      BY <2>3, <3>1 DEF PassWait, Executing, Types, TypeOK
    <3> QED
      BY <3>1, <3>2 DEF ResumedInv
  <2> QED
    BY <1>3, <2>1, <2>2, <2>3 DEF Call
<1>4. CASE running # <<>> /\ Leave
  <2>1. Current \in Tasks /\ running' = Tail(running) /\ running \in Seq(Tasks)
    BY <1>4, CurrentType DEF Types, TypeOK, Leave, Yield, Return, Returned
  <2>2. ASSUME NEW u \in Executing, u # Current PROVE u \in Executing'
    <3>1. PICK i \in DOMAIN running : running[i] = u
      BY <2>2 DEF Executing
    <3>2. \E j \in DOMAIN Tail(running) : Tail(running)[j] = u
      BY <1>4, <2>1, <2>2, <3>1, RunningRest DEF Current
    <3> QED
      BY <2>1, <3>2 DEF Executing
  <2>3. /\ UNCHANGED <<orders, lost>>
        /\ \A t \in Tasks : t # Current => state'[t] = state[t] /\ jmp'[t] = jmp[t]
        /\ state'[Current] # "Run"
    BY <1>4, <2>1 DEF Leave, Yield, Return, Epilogue, Types, TypeOK
  <2> QED
    BY <2>1, <2>2, <2>3 DEF ResumedInv
<1>5. CASE UNCHANGED vars
  BY <1>5 DEF vars, ResumedInv, Executing
<1> QED
  BY <1>1, <1>2, <1>3, <1>4, <1>5 DEF Next, Body

(***************************************************************************)
(* The theorems.                                                           *)
(***************************************************************************)
THEOREM TypeCorrect == Spec => []TypeOK
<1>1. Types => TypeOK
  BY DEF Types
<1> QED
  BY <1>1, TypeInit, TypeStep, PTL DEF Spec

LEMMA InvOrders == Spec => [](Types /\ OrdersInv)
<1>1. Init => OrdersInv
  BY DEF Init, OrdersInv
<1> QED
  BY <1>1, TypeInit, TypeStep, OrdersStep, PTL DEF Spec

(* However tasks call, run and interrupt each other, a paused task is not  *)
(* run and a started one begins at its beginning.                          *)
THEOREM OrdersAreHeld == Spec => OrdersHold
<1>1. Types /\ OrdersInv /\ [Next]_vars =>
        [\A t \in Executing' \ Executing :
           /\ orders[t] # "pause"
           /\ orders[t] = "start" => jmp[t] = "null"]_vars
  BY OrdersStep
<1> QED
  BY <1>1, InvOrders, PTL DEF Spec, OrdersHold

(* Only a resume() for a waiting task makes run() take the task for        *)
(* terminated, whatever else the tasks do to each other.                   *)
THEOREM OnlyAResumeLoses == Spec => OnlyResumeLoses
<1>1. Init => ResumedInv
  BY DEF Init, ResumedInv
<1>2. Types /\ ResumedInv /\ [Next]_vars => ResumedInv'
  BY ResumedStep
<1>3. Types /\ ResumedInv /\ [Next]_vars =>
        [\A t \in lost' \ lost :
           /\ state[t] = "Run" /\ jmp[t] = "wait"
           /\ t \notin Executing /\ orders[t] = "resume"]_vars
  BY ResumedStep
<1> QED
  BY <1>1, <1>2, <1>3, TypeInit, TypeStep, PTL DEF Spec, OnlyResumeLoses

(* The scheduler never goes idle with a task that is ready to run, unless  *)
(* an interrupt made it ready behind the scheduler's back.                 *)
THEOREM IdleMeansIdle == Spec => []IdleIsIdle
<1>1. Init => IdleInv
  BY DEF Init, IdleInv, Tasks
<1>2. Types /\ IdleInv => IdleIsIdle
  <2> SUFFICES ASSUME Types, IdleInv, running = <<>>, pos > N, ~didWork, NEW t \in Tasks,
                      Ready(t)
               PROVE  state[t] = "Wait" /\ t \in missed
    BY DEF IdleIsIdle
  <2>1. t < pos
    BY TaskAssumption DEF Tasks, Types, TypeOK
  <2> QED
    BY <2>1 DEF IdleInv
<1> QED
  BY <1>1, <1>2, TypeInit, TypeStep, IdleStep, PTL DEF Spec
==============================================================================
