--------------------------------- MODULE Task ---------------------------------
(***************************************************************************)
(* Task.cpp and the macros of Task.h: cooperative tasks.  A task's         *)
(* function returns at every TaskYield() and at a TaskWait() whose         *)
(* condition is false, having left in _jmp where to go on, and is called   *)
(* again by run().  What a function does between its macros is any         *)
(* sequence of calls of this interface, to itself or other tasks.          *)
(***************************************************************************)
EXTENDS Integers, Sequences

CONSTANTS
  N,        \* the number of tasks given to Run()
  MaxCalls  \* bound: calls that functions make

ASSUME TaskAssumption == N \in Nat \ {0} /\ MaxCalls \in Nat

Tasks  == 1 .. N
States == {"Run", "Wait", "Stop"}
Places == {"null", "yield", "wait"}

VARIABLES
  state,    \* _state
  jmp,      \* _jmp: nullptr, or a label in a TaskYield() or a TaskWait()
  cond,     \* the condition of the task's next or current TaskWait()
  running,  \* the tasks whose run() has called _fn(), the innermost first
  pos,      \* the task whose turn it is in Run()
  didWork,  \* didWork of Run()
  calls,    \* number of calls made by functions
  orders,   \* history: the last call for a task while it was not executing,
            \* until it executes again
  lost,     \* history: the tasks taken for terminated while they waited
            \* that have not executed since
  missed    \* history: the tasks whose condition an interrupt has changed
            \* since the current pass of Run() looked at it

vars == <<state, jmp, cond, running, pos, didWork, calls, orders, lost, missed>>

Executing == {running[i] : i \in DOMAIN running}

(***************************************************************************)
(* run(), up to the end of TaskBegin().  A task that is stopped does not   *)
(* run; one whose condition is false yields again in the state it is in;   *)
(* any other one gets to its own code.  _CurrentTask is the innermost      *)
(* running task.  _didWork is true for the tasks that got that far.        *)
(***************************************************************************)
(* A function that returns in state Run is taken for terminated.           *)
Epilogue(t) ==
  IF state[t] = "Run"
    THEN /\ state' = [state EXCEPT ![t] = "Stop"]
         /\ jmp' = [jmp EXCEPT ![t] = "null"]
    ELSE UNCHANGED <<state, jmp>>

Blocked(t) == jmp[t] = "wait" /\ ~cond[t]

RunStopped(t) ==
  /\ state[t] = "Stop"
  /\ UNCHANGED <<state, jmp, running, orders, lost>>

RunBlocked(t) ==
  /\ state[t] \in {"Run", "Wait"}
  /\ Blocked(t)
  /\ Epilogue(t)
  /\ lost' = IF state[t] = "Run" THEN lost \cup {t} ELSE lost
  /\ orders' = [orders EXCEPT ![t] = "none"]
  /\ UNCHANGED running

\* Mutant: the state is not looked at.
RunOnAlways(t) ==
  /\ ~Blocked(t)
  /\ state' = [state EXCEPT ![t] = "Run"]
  /\ running' = <<t>> \o running
  /\ orders' = [orders EXCEPT ![t] = "none"]
  /\ lost' = lost \ {t}
  /\ UNCHANGED jmp

RunOn(t) ==
  /\ state[t] \in {"Run", "Wait"}
  /\ ~Blocked(t)
  /\ state' = [state EXCEPT ![t] = "Run"]
  /\ running' = <<t>> \o running
  /\ orders' = [orders EXCEPT ![t] = "none"]
  /\ lost' = lost \ {t}
  /\ UNCHANGED jmp

(***************************************************************************)
(* Run(): one task after the other, over and over.                         *)
(***************************************************************************)
\* Mutant: the result of the last task counts.
ScheduleLast ==
  /\ running = <<>> /\ pos <= N
  /\ \/ /\ RunStopped(pos) \/ RunBlocked(pos)
        /\ pos' = pos + 1
        /\ didWork' = FALSE
     \/ /\ RunOn(pos)
        /\ UNCHANGED <<pos, didWork>>
  /\ UNCHANGED <<cond, calls, missed>>

Schedule ==
  /\ running = <<>> /\ pos <= N
  /\ \/ /\ RunStopped(pos) \/ RunBlocked(pos)
        /\ pos' = pos + 1
     \/ /\ RunOn(pos)
        /\ UNCHANGED pos
  /\ UNCHANGED <<cond, didWork, calls, missed>>

\* Mutant: the next pass starts before the first task.
EndPassBefore ==
  /\ running = <<>> /\ pos > N
  /\ pos' = 0
  /\ didWork' = FALSE
  /\ missed' = {}
  /\ UNCHANGED <<state, jmp, cond, running, calls, orders, lost>>

EndPass ==
  /\ running = <<>> /\ pos > N
  /\ pos' = 1
  /\ didWork' = FALSE
  /\ missed' = {}
  /\ UNCHANGED <<state, jmp, cond, running, calls, orders, lost>>

(* The innermost run() returns, to the function that called it or to Run().*)
\* Mutant: a task is not run any more once another one has worked.
ReturnedShort ==
  /\ running' = Tail(running)
  /\ IF Tail(running) = <<>>
       THEN pos' = N + 1 /\ didWork' = TRUE
       ELSE UNCHANGED <<pos, didWork>>

Returned ==
  /\ running' = Tail(running)
  /\ IF Tail(running) = <<>>
       THEN pos' = pos + 1 /\ didWork' = TRUE
       ELSE UNCHANGED <<pos, didWork>>

(***************************************************************************)
(* What the innermost function does.                                       *)
(***************************************************************************)
Current == Head(running)

(* TaskYield(), and TaskWait() with a condition that does not hold.        *)
\* Mutant: the state is left alone.
YieldAsItIs(place) ==
  /\ IF state[Current] = "Run"
       THEN /\ state' = [state EXCEPT ![Current] = "Stop"]
            /\ jmp' = [jmp EXCEPT ![Current] = "null"]
            /\ lost' = lost \cup {Current}
       ELSE /\ jmp' = [jmp EXCEPT ![Current] = place]
            /\ UNCHANGED <<state, lost>>
  /\ Returned
  /\ UNCHANGED <<cond, calls, orders, missed>>

Yield(place) ==
  /\ state' = [state EXCEPT ![Current] = "Wait"]
  /\ jmp' = [jmp EXCEPT ![Current] = place]
  /\ Returned
  /\ UNCHANGED <<cond, calls, orders, lost, missed>>

(* The end of the function.                                                *)
Return ==
  /\ Epilogue(Current)
  /\ Returned
  /\ UNCHANGED <<cond, calls, orders, lost, missed>>

Order(u, order) ==
  orders' = IF u \in Executing THEN orders ELSE [orders EXCEPT ![u] = order]

Start(u) ==
  /\ state' = [state EXCEPT ![u] = "Run"]
  /\ jmp' = [jmp EXCEPT ![u] = "null"]
  /\ Order(u, "start")
  /\ UNCHANGED <<cond, running, lost>>

Pause(u) ==
  /\ state' = [state EXCEPT ![u] = "Stop"]
  /\ Order(u, "pause")
  /\ UNCHANGED <<jmp, cond, running, lost>>

Resume(u) ==
  /\ state' = [state EXCEPT ![u] = "Run"]
  /\ Order(u, "resume")
  /\ UNCHANGED <<jmp, cond, running, lost>>

(* TaskWait() with a condition that holds: _setWaiting, then _setRunning.  *)
PassWait ==
  /\ cond[Current]
  /\ state' = [state EXCEPT ![Current] = "Run"]
  /\ UNCHANGED <<jmp, cond, running, orders, lost>>

RunOther(u) ==
  /\ u \notin Executing
  /\ RunStopped(u) \/ RunBlocked(u) \/ RunOn(u)
  /\ UNCHANGED cond

Call ==
  /\ calls < MaxCalls
  /\ calls' = calls + 1
  /\ \/ \E u \in Tasks : Start(u) \/ Pause(u) \/ Resume(u) \/ RunOther(u)
     \/ PassWait
  /\ UNCHANGED <<pos, didWork, missed>>

Leave == Yield("yield") \/ (~cond[Current] /\ Yield("wait")) \/ Return

(* Conditions change while functions run, which may be their doing, and    *)
(* between them by an interrupt (whose masking is commented out, 16, 23).  *)
Change ==
  /\ \E t \in Tasks :
       /\ cond' = [cond EXCEPT ![t] = ~@]
       /\ missed' = IF running = <<>> /\ t < pos THEN missed \cup {t} ELSE missed
  /\ UNCHANGED <<state, jmp, running, pos, didWork, calls, orders, lost>>
------------------------------------------------------------------------------
Init ==
  /\ state = [t \in Tasks |-> "Run"]
  /\ jmp = [t \in Tasks |-> "null"]
  /\ cond = [t \in Tasks |-> FALSE]
  /\ running = <<>>
  /\ pos = 1
  /\ didWork = FALSE
  /\ calls = 0
  /\ orders = [t \in Tasks |-> "none"]
  /\ lost = {}
  /\ missed = {}

Body == running # <<>> /\ (Call \/ Leave)

Next == Schedule \/ EndPass \/ Body \/ Change

Spec == Init /\ [][Next]_vars

(* Functions come to a macro or to their end: the tasks are cooperative.   *)
FairSpec == Spec /\ WF_vars(Schedule \/ EndPass) /\ WF_vars(running # <<>> /\ Leave)
------------------------------------------------------------------------------
(***************************************************************************)
(* Properties.                                                             *)
(***************************************************************************)
TypeOK ==
  /\ state \in [Tasks -> States]
  /\ jmp \in [Tasks -> Places]
  /\ cond \in [Tasks -> BOOLEAN]
  /\ running \in Seq(Tasks)
  /\ pos \in 1 .. N + 1
  /\ didWork \in BOOLEAN
  /\ calls \in Nat
  /\ orders \in [Tasks -> {"none", "start", "pause", "resume"}]
  /\ lost \subseteq Tasks
  /\ missed \subseteq Tasks

(* A call for a task that is not executing holds until the task executes   *)
(* again or another call comes, whatever the scheduler and nested run()s   *)
(* do in between: a paused task is not run, a started one is run from its  *)
(* beginning.  (For a task that is executing, it does not: its next        *)
(* TaskYield() overwrites the state, its end takes Run for terminated.)    *)
OrdersHold ==
  [][\A t \in Executing' \ Executing :
       /\ orders[t] # "pause"
       /\ orders[t] = "start" => jmp[t] = "null"]_vars

(* A task that can run: it was started or resumed, has yielded, or waits   *)
(* for a condition that holds.                                             *)
Ready(t) == state[t] = "Run" \/ (state[t] = "Wait" /\ ~Blocked(t))

(* When a pass of Run() finds no work (the point where the processor would *)
(* sleep until an interrupt, 22-23), no task is ready to run: a later task *)
(* has neither started nor resumed one nor made its condition true.  The   *)
(* only exception is a task that waits for a condition which an interrupt  *)
(* changed after the pass had looked at it.                                *)
IdleIsIdle ==
  running = <<>> /\ pos > N /\ ~didWork =>
    \A t \in Tasks : Ready(t) => state[t] = "Wait" /\ t \in missed

(* run() takes a function that returns in state Run for terminated and     *)
(* forgets its position (77-79).  It is wrong about a task that only waits *)
(* in one case: somebody called resume() for the waiting task.             *)
OnlyResumeLoses ==
  [][\A t \in lost' \ lost :
       /\ state[t] = "Run" /\ jmp[t] = "wait"
       /\ t \notin Executing /\ orders[t] = "resume"]_vars

(* A task that can run gets its turn, though others always have work.      *)
NoTaskStarves ==
  \A t \in Tasks : Ready(t) ~> t \in Executing \/ ~Ready(t)
==============================================================================
