----------------------------- MODULE RuntimeProofs -----------------------------
(* Proofs about Runtime for every set of clients, models and processes.       *)
EXTENDS Runtime, TLAPS

-----------------------------------------------------------------------------
(* The inductive invariant *)

Launches == {"switch", "start", "restart"}

\* What a call's position says of its operation; the shutdown only stops.
CallFits(a) ==
    LET x == act[a] IN
    /\ x.pc = "idle" => x.op = "none" /\ ~x.cleaning /\ ~x.ok
    /\ x.pc = "guard" <=> x.op = "delete"
    /\ x.pc \in {"start", "poll", "ready", "check"} => x.op \in Launches /\ ~x.cleaning
    /\ x.pc \in {"stop", "term", "grace", "kill", "ret"} => x.op \in Launches \cup {"stop"}
    /\ x.pc = "stop" /\ ~x.cleaning => ~x.ok
    /\ x.cleaning => x.op \in Launches /\ (x.pc = "ret" => ~x.ok)
    /\ x.op \in {"switch", "delete"} => x.target \in Models
    /\ a = App => x.op \in {"none", "stop"} /\ x.pc # "guard"
    /\ x.pc = "over" => a = App

\* A call of the switch service holds its lock from its entry to its return ...
SwitchLocked ==
    \A c \in Clients : sw.mu = c <=> act[c].pc \notin {"idle", "guard"}

\* ... and a start or a stop holds the supervisor's, a restart from one to the other.
HoldsOp(a) ==
    \/ act[a].pc \in {"term", "grace", "kill", "poll", "ready", "check"}
    \/ act[a].pc = "stop" /\ act[a].cleaning
    \/ act[a].pc = "start" /\ act[a].op = "restart"

OpLocked == \A a \in Actors : opMu = a <=> HoldsOp(a)

\* A stop is about the process that the supervisor has, and marked it.
StopsOwn(a) ==
    act[a].pc \in {"term", "grace", "kill"} =>
        /\ act[a].on \in Procs
        /\ sup.cmd \in {act[a].on, None}
        /\ sup.status \notin {"starting", "running"}

\* Once the stop of a switch, a restart or a stop is over, nothing is up.
NothingUp(c) ==
    \/ act[c].pc = "ret" /\ act[c].ok /\ act[c].op = "stop"
    \/ act[c].pc = "start" /\ act[c].op \in {"switch", "restart"}

StoppedIsDown == \A c \in Clients : NothingUp(c) => sup.status \notin Up

\* From its start to its return, what is coming up or running is what a call started.
Launching(c) ==
    \/ act[c].pc \in {"poll", "ready", "check"}
    \/ act[c].pc = "stop" /\ act[c].cleaning
    \/ act[c].pc = "ret" /\ act[c].ok /\ act[c].op \in Launches

LaunchIsOwn ==
    \A c \in Clients : Launching(c) /\ sup.status \in {"starting", "running"} =>
        /\ sup.cmd = act[c].on
        /\ proc[sup.cmd].via = act[c].op
        /\ proc[sup.cmd].path = act[c].target
        /\ act[c].pc = "check" => sup.status = "running"

\* At any other time the association is that of the process.
AssociationHolds ==
    (sup.status \in {"starting", "running"} /\ ~\E c \in Clients : Launching(c)) =>
        /\ sw.path = proc[sup.cmd].path
        /\ sw.active = IF proc[sup.cmd].via = "switch" THEN sw.path ELSE None

\* The model of a switch is there until the switch returns.
SwitchedIsReady == \A c \in Clients : act[c].op = "switch" => model[act[c].target] = "ready"

\* A process that is being stopped and has no signal yet is about to get one.
StoppingIsTermed ==
    \A p \in Procs : proc[p].st = "alive" /\ sup.status = "stopping"
        => \E a \in Actors : At(a, "term") /\ act[a].on = p

IInv ==
    /\ TypeOK
    /\ OneProcess
    /\ NoProcessIsLeftTermed
    /\ \A a \in Actors : CallFits(a) /\ StopsOwn(a)
    /\ SwitchLocked
    /\ OpLocked
    /\ StoppedIsDown
    /\ LaunchIsOwn
    /\ AssociationHolds
    /\ SwitchedIsReady
    /\ ServedModelExists
    /\ StoppingIsTermed

-----------------------------------------------------------------------------
(* Types *)

\* What a call that returns leaves as the association.
LEMMA AssociationType ==
    ASSUME TypeOK, NEW c \in Clients, CallFits(c), At(c, "ret")
    PROVE  /\ Association(c)[1] \in Models \cup {None}
           /\ Association(c)[2] \in Models \cup Others \cup {None}
<1>1. c \in Actors
  BY DEF Actors
<1>2. act[c].op \in {"switch", "start", "restart", "stop"}
  BY <1>1 DEF CallFits, At, Launches
<1>3. act[c].op = "switch" => act[c].target \in Models
  BY DEF CallFits
<1>4. act[c].target \in Models \cup Others \cup {None} /\ sw.active \in Models \cup {None}
        /\ sw.path \in Models \cup Others \cup {None}
  BY <1>1 DEF TypeOK
<1>5. CASE act[c].ok
  BY <1>2, <1>3, <1>4, <1>5 DEF Association
<1>6. CASE ~act[c].ok
  BY <1>4, <1>6 DEF Association
<1> QED
  BY <1>5, <1>6

\* The parts of the type invariant that most steps change.
CallType == [pc : Position,
             op : {"none", "switch", "start", "restart", "stop", "delete"},
             target : Models \cup Others \cup {None}, on : Procs \cup {None},
             saw : BOOLEAN, cleaning : BOOLEAN, ok : BOOLEAN]

ProcType == [st : {"unused", "alive", "termed", "killed", "gone", "reaped"},
             path : Models \cup Others \cup {None},
             via : {"none", "switch", "start", "restart"}]

CallsTyped == act \in [Actors -> CallType]
ProcsTyped == proc \in [Procs -> ProcType]

RestTyped ==
    /\ model \in [Models -> {"downloading", "ready", "deleted"}]
    /\ sup \in [status : Up \cup {"stopped", "failed"}, cmd : Procs \cup {None}]
    /\ sw \in [mu : Clients \cup {None}, active : Models \cup {None},
               path : Models \cup Others \cup {None}]
    /\ opMu \in Actors \cup {None}
    /\ closing \in {"no", "drained", "expired"}

\* The type invariant by calls, processes and the rest.
LEMMA TypeParts == TypeOK <=> CallsTyped /\ ProcsTyped /\ RestTyped
BY DEF TypeOK, CallsTyped, ProcsTyped, RestTyped, CallType, ProcType

\* A function of calls stays one when fields of one call are updated.
LEMMA CallUpdates ==
    ASSUME NEW f \in [Actors -> CallType], NEW a \in Actors
    PROVE  /\ \A s \in Position : [f EXCEPT ![a].pc = s] \in [Actors -> CallType]
           /\ \A s \in Position, b \in BOOLEAN : [f EXCEPT ![a].pc = s, ![a].ok = b] \in [Actors -> CallType]
           /\ \A s \in Position, b \in BOOLEAN : [f EXCEPT ![a].pc = s, ![a].cleaning = b] \in [Actors -> CallType]
           /\ \A s \in Position, p \in Procs \cup {None} :
                 [f EXCEPT ![a].pc = s, ![a].on = p] \in [Actors -> CallType]
           /\ \A s \in Position : [f EXCEPT ![a].pc = s, ![a].op = "stop"] \in [Actors -> CallType]
           /\ \A x \in CallType : [f EXCEPT ![a] = x] \in [Actors -> CallType]
<1>1. ASSUME NEW g \in [Actors -> CallType]
      PROVE  /\ \A s \in Position : [g EXCEPT ![a].pc = s] \in [Actors -> CallType]
             /\ \A b \in BOOLEAN : [g EXCEPT ![a].ok = b] \in [Actors -> CallType]
             /\ \A b \in BOOLEAN : [g EXCEPT ![a].cleaning = b] \in [Actors -> CallType]
             /\ \A p \in Procs \cup {None} : [g EXCEPT ![a].on = p] \in [Actors -> CallType]
             /\ [g EXCEPT ![a].op = "stop"] \in [Actors -> CallType]
  <2>1. \A s \in Position : [g EXCEPT ![a].pc = s] \in [Actors -> CallType]
    BY DEF CallType
  <2>2. \A b \in BOOLEAN : [g EXCEPT ![a].ok = b] \in [Actors -> CallType]
    BY DEF CallType
  <2>3. \A b \in BOOLEAN : [g EXCEPT ![a].cleaning = b] \in [Actors -> CallType]
    BY DEF CallType
  <2>4. \A p \in Procs \cup {None} : [g EXCEPT ![a].on = p] \in [Actors -> CallType]
    BY DEF CallType
  <2>5. [g EXCEPT ![a].op = "stop"] \in [Actors -> CallType]
    BY DEF CallType
  <2> QED
    BY <2>1, <2>2, <2>3, <2>4, <2>5
<1>2. ASSUME NEW s \in Position, NEW b \in BOOLEAN
      PROVE  /\ [f EXCEPT ![a].pc = s, ![a].ok = b] \in [Actors -> CallType]
             /\ [f EXCEPT ![a].pc = s, ![a].cleaning = b] \in [Actors -> CallType]
  BY <1>1
<1>3. ASSUME NEW s \in Position, NEW p \in Procs \cup {None}
      PROVE  [f EXCEPT ![a].pc = s, ![a].on = p] \in [Actors -> CallType]
  BY <1>1
<1>4. ASSUME NEW s \in Position
      PROVE  [f EXCEPT ![a].pc = s, ![a].op = "stop"] \in [Actors -> CallType]
  BY <1>1
<1>5. \A x \in CallType : [f EXCEPT ![a] = x] \in [Actors -> CallType]
  OBVIOUS
<1> QED
  BY <1>1, <1>2, <1>3, <1>4, <1>5

\* The calls a handler begins, and the one with which it is done.
LEMMA IdleTyped ==
    /\ Idle \in CallType
    /\ \A s \in {"start", "stop"}, o \in {"switch", "start", "restart", "stop"},
          t \in Models \cup Others \cup {None} :
          [Idle EXCEPT !.pc = s, !.op = o, !.target = t] \in CallType
    /\ \A m \in Models, b \in BOOLEAN :
          [Idle EXCEPT !.pc = "guard", !.op = "delete", !.target = m, !.saw = b] \in CallType
BY DEF Idle, CallType, Position

\* Every step keeps the types of the calls ...
LEMMA CallsTypedStep == ASSUME IInv, [Next]_vars PROVE CallsTyped'
<1> USE DEF CallsTyped
<1>0. CallsTyped /\ ProcsTyped /\ RestTyped /\ {"idle", "guard", "stop", "term", "grace", "kill", "start",
             "poll", "ready", "check", "ret", "over"} \subseteq Position
  BY TypeParts DEF IInv, Position
<1> USE <1>0
<1>1. ASSUME NEW c \in Clients, Call(c) PROVE CallsTyped'
  <2>0. c \in Actors
    BY DEF Actors
  <2>5. ASSUME NEW s \in {"start", "stop"}, NEW o \in {"switch", "start", "restart", "stop"},
               NEW t \in Models \cup Others \cup {None}, Enter(c, o, t, s)
        PROVE CallsTyped'
    BY <2>0, <2>5, CallUpdates, IdleTyped DEF Enter
  <2>1. ASSUME NEW m \in Models, Switch(c, m) PROVE CallsTyped'
    BY <2>1, <2>5 DEF Switch
  <2>2. ASSUME NEW m \in Models, ReadModel(c, m) PROVE CallsTyped'
    BY <2>0, <2>2, CallUpdates, IdleTyped DEF ReadModel
  <2>3. ASSUME NEW o \in {"start", "restart", "stop"}, NEW t \in Models \cup Others \cup {None}, Begin(c, o, t)
        PROVE CallsTyped'
    BY <2>3, <2>5 DEF Begin
  <2>4. CASE Active(c)
    BY <2>4 DEF Active
  <2> QED
    BY <1>1, <2>1, <2>2, <2>3, <2>4 DEF Call
<1>2. ASSUME NEW a \in Actors, NEW s, EndCall(a, s) PROVE CallsTyped'
  <2> DEFINE x == [Idle EXCEPT !.pc = IF a = App THEN "over" ELSE "idle"]
  <2>1. x \in CallType
    BY DEF CallType, Idle
  <2>2. act' = [act EXCEPT ![a] = x]
    BY <1>2 DEF EndCall
  <2> HIDE DEF x
  <2> QED
    BY <2>1, <2>2, CallUpdates
<1>3. ASSUME NEW a \in Actors, NEW b \in BOOLEAN, StopEnds(a, b) PROVE CallsTyped'
  <2> DEFINE s == IF b /\ ~act[a].cleaning /\ act[a].op \in {"switch", "restart"} THEN "start" ELSE "ret"
             k == b /\ ~act[a].cleaning
  <2>1. s \in Position /\ k \in BOOLEAN
    BY DEF CallType
  <2>2. act' = [act EXCEPT ![a].pc = s, ![a].ok = k]
    BY <1>3 DEF StopEnds
  <2> QED
    BY <2>1, <2>2, CallUpdates
<1>4. ASSUME NEW a \in Actors, Step(a) \/ StopCanceled(a) PROVE CallsTyped'
  <2>1. CASE RejectRestart(a) \/ Healthy(a) \/ NotReady(a) \/ StartFails(a) \/ StopTerm(a) \/ StopGraceOver(a)
             \/ Ready(a)
    BY <2>1, CallUpdates DEF RejectRestart, Healthy, NotReady, StartFails, Goto, StopTerm, StopGraceOver, Ready
  <2>2. CASE StopIdle(a) \/ StopDone(a) \/ StopKillOver(a) \/ StopCanceled(a)
    BY <1>3, <2>2 DEF StopIdle, StopDone, StopKillOver, StopCanceled
  <2>3. CASE StopBegin(a) \/ Check(a)
    BY <2>3, CallUpdates DEF StopBegin, RestTyped, Check
  <2>4. CASE Spawn(a)
    <3>1. PICK p \in Procs : act' = [act EXCEPT ![a].pc = "poll", ![a].on = p]
      BY <2>4 DEF Spawn, Launch
    <3> QED
      BY <3>1, CallUpdates
  <2>5. CASE Return(a)
    BY <1>2, <2>5 DEF Return
  <2> QED
    BY <1>4, <2>1, <2>2, <2>3, <2>4, <2>5 DEF Step
<1>5. ASSUME NEW c \in Clients, GuardModelDeletion(c) PROVE CallsTyped'
  BY <1>2, <1>5 DEF GuardModelDeletion, Delete, Actors
<1>6. CASE Shutdown
  BY <1>6, CallUpdates DEF Shutdown, CloseServer, Actors
<1>7. ASSUME NEW p \in Procs, Exit(p) \/ Wait(p) PROVE CallsTyped'
  BY <1>7 DEF Exit, Wait
<1>8. CASE UNCHANGED vars \/ \E m \in Models : Publish(m)
  BY <1>8 DEF vars, Publish
<1> QED
  BY <1>1, <1>4, <1>5, <1>6, <1>7, <1>8 DEF Next

\* ... those of the processes ...
LEMMA ProcsTypedStep == ASSUME IInv, [Next]_vars PROVE ProcsTyped'
<1> USE DEF ProcsTyped
<1>0. CallsTyped /\ ProcsTyped /\ RestTyped /\ \A a \in Actors : CallFits(a)
  BY TypeParts DEF IInv
<1>1. ASSUME NEW p, NEW s \in {"termed", "killed"}, Signal(p, s) PROVE ProcsTyped'
  BY <1>0, <1>1 DEF Signal, ProcType
<1>2. ASSUME NEW a \in Actors, Spawn(a) PROVE ProcsTyped'
  <2>1. act[a].op \in {"switch", "start", "restart"} /\ act[a].target \in Models \cup Others \cup {None}
    BY <1>0, <1>2 DEF Spawn, Launch, At, CallFits, Launches, CallsTyped, CallType
  <2>2. PICK p \in Procs : proc' = [proc EXCEPT ![p] =
                             [st |-> "alive", path |-> act[a].target, via |-> act[a].op]]
    BY <1>2 DEF Spawn, Launch
  <2> QED
    BY <1>0, <2>1, <2>2 DEF ProcType
<1>3. ASSUME NEW p \in Procs, Exit(p) \/ Wait(p) PROVE ProcsTyped'
  BY <1>0, <1>3 DEF Exit, Wait, ProcType
<1>4. CASE UNCHANGED proc
  BY <1>0, <1>4
<1>5. ASSUME NEW a \in Actors, Step(a) \/ StopCanceled(a) PROVE ProcsTyped'
  BY <1>1, <1>2, <1>4, <1>5
     DEF Step, RejectRestart, Healthy, NotReady, StartFails, StopTerm, StopGraceOver, Ready, StopIdle,
         StopDone, StopKillOver, StopCanceled, StopBegin, Check, Return, EndCall
<1>6. ASSUME NEW c \in Clients, Call(c) \/ GuardModelDeletion(c) PROVE ProcsTyped'
  BY <1>4, <1>6 DEF Call, Switch, Enter, ReadModel, Begin, Active, GuardModelDeletion, Delete, EndCall
<1>7. CASE Shutdown \/ UNCHANGED vars \/ \E m \in Models : Publish(m)
  BY <1>4, <1>7 DEF Shutdown, CloseServer, vars, Publish
<1> QED
  BY <1>3, <1>5, <1>6, <1>7 DEF Next

\* ... and the rest.
LEMMA RestTypedStep == ASSUME IInv, [Next]_vars PROVE RestTyped'
<1> USE DEF RestTyped, Up
<1>0. CallsTyped /\ ProcsTyped /\ RestTyped /\ TypeOK /\ \A a \in Actors : CallFits(a)
  BY TypeParts DEF IInv
<1>1. ASSUME NEW c \in Clients, Call(c) PROVE RestTyped'
  <2>1. CASE Active(c)
    BY <1>0, <2>1 DEF Active
  <2>2. ASSUME sw' \in {sw, [sw EXCEPT !.mu = c], [mu |-> c, active |-> None, path |-> None]},
               UNCHANGED <<model, sup, opMu, closing>>
        PROVE  RestTyped'
    BY <1>0, <2>2
  <2> QED
    BY <1>1, <2>1, <2>2 DEF Call, Switch, Enter, ReadModel, Begin
<1>2. ASSUME NEW c \in Clients, GuardModelDeletion(c) PROVE RestTyped'
  BY <1>0, <1>2 DEF GuardModelDeletion, Delete, EndCall
<1>3. ASSUME NEW a \in Actors, NEW b \in BOOLEAN, StopEnds(a, b) PROVE RestTyped'
  BY <1>0, <1>3 DEF StopEnds
<1>4. ASSUME NEW a \in Actors, Return(a) PROVE RestTyped'
  <2>1. CASE a = App
    BY <1>0, <1>4, <2>1 DEF Return, EndCall
  <2>2. CASE a # App
    <3>1. a \in Clients
      BY <2>2 DEF Actors
    <3> QED
      BY <1>0, <1>4, <2>2, <3>1, AssociationType DEF Return, EndCall
  <2> QED
    BY <2>1, <2>2
<1>5. ASSUME NEW a \in Actors, Spawn(a) PROVE RestTyped'
  BY <1>0, <1>5 DEF Spawn, Launch
<1>6. ASSUME NEW a \in Actors, Step(a) \/ StopCanceled(a), ~Return(a), ~Spawn(a) PROVE RestTyped'
  <2>1. CASE RejectRestart(a) \/ Healthy(a) \/ NotReady(a) \/ StartFails(a) \/ StopTerm(a) \/ StopGraceOver(a)
    BY <1>0, <2>1 DEF RejectRestart, Healthy, NotReady, StartFails, StopTerm, StopGraceOver
  <2>2. CASE StopIdle(a) \/ StopDone(a) \/ StopKillOver(a) \/ StopCanceled(a)
    BY <1>3, <2>2 DEF StopIdle, StopDone, StopKillOver, StopCanceled
  <2>3. CASE StopBegin(a) \/ Check(a) \/ Ready(a)
    BY <1>0, <2>3 DEF StopBegin, Check, Ready
  <2> QED
    BY <1>6, <2>1, <2>2, <2>3 DEF Step
<1>7. ASSUME NEW p \in Procs, Exit(p) \/ Wait(p) PROVE RestTyped'
  BY <1>0, <1>7 DEF Exit, Wait
<1>8. CASE Shutdown \/ UNCHANGED vars \/ \E m \in Models : Publish(m)
  BY <1>0, <1>8 DEF Shutdown, CloseServer, vars, Publish
<1> QED
  BY <1>1, <1>2, <1>4, <1>5, <1>6, <1>7, <1>8 DEF Next

\* Every step keeps every variable in its type.
LEMMA TypeStep == ASSUME IInv, [Next]_vars PROVE TypeOK'
<1>1. CallsTyped' /\ ProcsTyped' /\ RestTyped'
  BY CallsTypedStep, ProcsTypedStep, RestTypedStep
<1>2. TypeOK' <=> (CallsTyped /\ ProcsTyped /\ RestTyped)'
  BY DEF TypeOK, CallsTyped, ProcsTyped, RestTyped, CallType, ProcType
<1> QED
  BY <1>1, <1>2

-----------------------------------------------------------------------------
(* The process *)

\* What is up is one process that has not been reaped.
LEMMA OneProcessStep == ASSUME IInv, [Next]_vars PROVE OneProcess'
<1> USE DEF OneProcess, Unreaped, Up
<1>0. ProcsTyped /\ RestTyped /\ OneProcess
  BY TypeParts DEF IInv
<1> USE <1>0 DEF ProcsTyped, ProcType, RestTyped
<1>1. CASE UNCHANGED <<proc, sup>>
  BY <1>1
<1>2. ASSUME NEW p, NEW s \in {"termed", "killed"}, Signal(p, s), UNCHANGED sup PROVE OneProcess'
  BY <1>2 DEF Signal
<1>3. ASSUME NEW a \in Actors, Step(a) \/ StopCanceled(a) PROVE OneProcess'
  <2>1. CASE StopBegin(a)
    BY <2>1 DEF StopBegin
  <2>2. CASE Spawn(a)
    <3>1. PICK p \in Procs :
            /\ proc[p].st = "unused"
            /\ proc' = [proc EXCEPT ![p] = [st |-> "alive", path |-> act[a].target, via |-> act[a].op]]
            /\ sup' = [status |-> "starting", cmd |-> p]
      BY <2>2 DEF Spawn, Launch
    <3>2. sup.cmd = None
      BY <2>2 DEF Spawn
    <3>3. p # None
      BY RuntimeAssumption
    <3> QED
      BY <3>1, <3>2, <3>3
  <2>3. CASE Ready(a)
    BY <2>3 DEF Ready
  <2>4. CASE StopTerm(a) \/ StopGraceOver(a) \/ StopCanceled(a)
    BY <1>1, <1>2, <2>4 DEF StopTerm, StopGraceOver, StopCanceled, StopEnds
  <2> QED
    BY <1>1, <1>3, <2>1, <2>2, <2>3, <2>4
       DEF Step, RejectRestart, Healthy, NotReady, StartFails, StopIdle, StopDone, StopKillOver, StopEnds,
           Check, Return, EndCall
<1>4. ASSUME NEW p \in Procs, Exit(p) PROVE OneProcess'
  BY <1>4 DEF Exit
<1>5. ASSUME NEW p \in Procs, Wait(p) PROVE OneProcess'
  <2>1. sup.cmd = p
    BY <1>5 DEF Wait
  <2>2. sup' \in {[status |-> "stopped", cmd |-> None], [status |-> "failed", cmd |-> None]}
    BY <1>5, <2>1 DEF Wait
  <2> QED
    BY <1>5, <2>1, <2>2 DEF Wait
<1>6. CASE \E c \in Clients : Call(c) \/ GuardModelDeletion(c)
  BY <1>1, <1>6 DEF Call, Switch, Enter, ReadModel, Begin, Active, GuardModelDeletion, Delete, EndCall
<1>7. CASE Shutdown \/ UNCHANGED vars \/ \E m \in Models : Publish(m)
  BY <1>1, <1>7 DEF Shutdown, CloseServer, vars, Publish
<1> QED
  BY <1>3, <1>4, <1>5, <1>6, <1>7 DEF Next

-----------------------------------------------------------------------------
(* Positions and locks *)

\* What the steps that begin and end a call or a stop do to the calls.
LEMMA Entered ==
    ASSUME CallsTyped, NEW c \in Clients, NEW o, NEW t, NEW s, Enter(c, o, t, s)
    PROVE  /\ \A a \in Actors \ {c} : act'[a] = act[a]
           /\ act'[c].pc = s /\ act'[c].op = o /\ act'[c].target = t
           /\ ~act'[c].ok /\ ~act'[c].cleaning
<1>1. c \in Actors
  BY DEF Actors
<1>2. act'[c] = [Idle EXCEPT !.pc = s, !.op = o, !.target = t]
  BY <1>1 DEF Enter, CallsTyped
<1>3. act'[c].pc = s /\ act'[c].op = o /\ act'[c].target = t /\ ~act'[c].ok /\ ~act'[c].cleaning
  BY <1>2 DEF Idle
<1>4. \A a \in Actors \ {c} : act'[a] = act[a]
  BY DEF Enter, CallsTyped
<1> QED
  BY <1>3, <1>4

\* A deletion that has read its model goes to the guard.
LEMMA ReadsModel ==
    ASSUME CallsTyped, NEW c \in Clients, NEW m \in Models, ReadModel(c, m)
    PROVE  /\ \A a \in Actors \ {c} : act'[a] = act[a]
           /\ act'[c].pc = "guard" /\ act'[c].op = "delete" /\ act'[c].target = m
           /\ ~act'[c].ok /\ ~act'[c].cleaning /\ (act'[c].saw <=> model[m] = "ready")
<1>1. c \in Actors
  BY DEF Actors
<1>2. act'[c] = [Idle EXCEPT !.pc = "guard", !.op = "delete", !.target = m, !.saw = model[m] = "ready"]
  BY <1>1 DEF ReadModel, CallsTyped
<1>3. /\ act'[c].pc = "guard" /\ act'[c].op = "delete" /\ act'[c].target = m
      /\ ~act'[c].ok /\ ~act'[c].cleaning /\ (act'[c].saw <=> model[m] = "ready")
  BY <1>2 DEF Idle
<1>4. \A a \in Actors \ {c} : act'[a] = act[a]
  BY DEF ReadModel, CallsTyped
<1> QED
  BY <1>3, <1>4

\* A call that returns is idle again, and nothing of it remains.
LEMMA Ended ==
    ASSUME CallsTyped, NEW a \in Actors, NEW s, EndCall(a, s)
    PROVE  /\ \A b \in Actors \ {a} : act'[b] = act[b]
           /\ act'[a].pc = IF a = App THEN "over" ELSE "idle"
           /\ act'[a].op = "none" /\ ~act'[a].ok /\ ~act'[a].cleaning
<1> DEFINE x == [Idle EXCEPT !.pc = IF a = App THEN "over" ELSE "idle"]
<1>1. act'[a] = x /\ \A b \in Actors \ {a} : act'[b] = act[b]
  BY DEF EndCall, CallsTyped
<1>2. x.pc = (IF a = App THEN "over" ELSE "idle") /\ x.op = "none" /\ ~x.cleaning /\ ~x.ok
  BY DEF Idle
<1> HIDE DEF x
<1> QED
  BY <1>1, <1>2

\* A call whose stop has ended starts the next process, or returns.
LEMMA StopEnded ==
    ASSUME CallsTyped, NEW a \in Actors, NEW b \in BOOLEAN, StopEnds(a, b)
    PROVE  /\ \A d \in Actors \ {a} : act'[d] = act[d]
           /\ act'[a].pc = IF b /\ ~act[a].cleaning /\ act[a].op \in {"switch", "restart"}
                           THEN "start" ELSE "ret"
           /\ act'[a].op = act[a].op /\ act'[a].target = act[a].target
           /\ act'[a].on = act[a].on /\ act'[a].cleaning = act[a].cleaning
           /\ (act'[a].ok <=> b /\ ~act[a].cleaning)
BY DEF StopEnds, CallsTyped, CallType

\* A poll that ends reports whether the process is ready.
LEMMA Checked ==
    ASSUME CallsTyped, NEW a \in Actors, Check(a)
    PROVE  /\ \A b \in Actors \ {a} : act'[b] = act[b]
           /\ act[a].pc = "check" /\ act'[a].pc = "ret"
           /\ act'[a].op = act[a].op /\ act'[a].target = act[a].target
           /\ act'[a].on = act[a].on /\ act'[a].cleaning = act[a].cleaning
           /\ (act'[a].ok <=> sup.status = "running")
<1> DEFINE k == sup.status = "running"
<1>1. act' = [act EXCEPT ![a].pc = "ret", ![a].ok = k] /\ act[a].pc = "check"
  BY DEF Check, At
<1>2. k \in BOOLEAN
  OBVIOUS
<1> HIDE DEF k
<1>3. /\ \A b \in Actors \ {a} : act'[b] = act[b]
      /\ act'[a].pc = "ret"
      /\ act'[a].op = act[a].op /\ act'[a].target = act[a].target
      /\ act'[a].on = act[a].on /\ act'[a].cleaning = act[a].cleaning
      /\ (act'[a].ok <=> k)
  BY <1>1, <1>2 DEF CallsTyped, CallType
<1> QED
  BY <1>1, <1>3 DEF k

\* The shutdown goes to stop the process.
LEMMA ShutDown ==
    ASSUME CallsTyped, Shutdown
    PROVE  /\ App \in Actors
           /\ \A a \in Actors \ {App} : act'[a] = act[a]
           /\ act[App].pc = "idle" /\ act'[App].pc = "stop" /\ act'[App].op = "stop"
           /\ act'[App].cleaning = act[App].cleaning /\ act'[App].ok = act[App].ok
BY DEF Shutdown, CloseServer, Actors, At, CallsTyped, CallType

\* Where a call is and what it is go together.
LEMMA CallFitsStep == ASSUME IInv, [Next]_vars PROVE \A a \in Actors : CallFits(a)'
<1> USE DEF CallFits, Launches, At, Goto
<1>0. CallsTyped /\ (\A a \in Actors : CallFits(a)) /\ OpLocked
  BY TypeParts DEF IInv
<1>1. CASE UNCHANGED act
  BY <1>0, <1>1
<1>2. ASSUME NEW c \in Clients, NEW s \in {"start", "stop"},
             NEW o \in {"switch", "start", "restart", "stop"}, NEW t, Enter(c, o, t, s),
             o = "switch" => t \in Models, o = "stop" => s = "stop"
      PROVE \A a \in Actors : CallFits(a)'
  BY <1>0, <1>2, Entered, RuntimeAssumption DEF Actors
<1>3. ASSUME NEW c \in Clients, NEW m \in Models, ReadModel(c, m) PROVE \A a \in Actors : CallFits(a)'
  BY <1>0, <1>3, ReadsModel, RuntimeAssumption DEF Actors
<1>5. ASSUME NEW a \in Actors, NEW s, EndCall(a, s) PROVE \A b \in Actors : CallFits(b)'
  BY <1>0, <1>5, Ended
<1>6. ASSUME NEW a \in Actors, NEW b \in BOOLEAN, StopEnds(a, b), act[a].pc \in {"stop", "grace", "kill"}
      PROVE \A d \in Actors : CallFits(d)'
  <2>1. /\ \A d \in Actors \ {a} : act'[d] = act[d]
        /\ act'[a].pc \in {"start", "ret"} /\ (act'[a].pc = "start" => act[a].op \in Launches /\ ~act[a].cleaning)
        /\ act'[a].op = act[a].op /\ act'[a].target = act[a].target
        /\ act'[a].cleaning = act[a].cleaning
        /\ act'[a].ok => ~act[a].cleaning
    BY <1>0, <1>6, StopEnded
  <2>2. CallFits(a)'
    BY <1>0, <1>6, <2>1
  <2> QED
    BY <1>0, <2>1, <2>2
<1>4. CASE Shutdown
  BY <1>0, <1>4, ShutDown
<1> USE DEF CallsTyped, CallType
<1>7. ASSUME NEW a \in Actors, Step(a) \/ StopCanceled(a) PROVE \A b \in Actors : CallFits(b)'
  <2>1. CASE RejectRestart(a)
    BY <1>0, <2>1 DEF RejectRestart, OpLocked, HoldsOp
  <2>2. CASE StopIdle(a) \/ StopDone(a) \/ StopKillOver(a) \/ StopCanceled(a)
    BY <1>6, <2>2 DEF StopIdle, StopDone, StopKillOver, StopCanceled
  <2>3. CASE StopBegin(a) \/ StopTerm(a) \/ StopGraceOver(a)
    BY <1>0, <2>3 DEF StopBegin, StopTerm, StopGraceOver
  <2>4. CASE StartFails(a) \/ Healthy(a) \/ NotReady(a) \/ Ready(a)
    BY <1>0, <2>4 DEF StartFails, Healthy, NotReady, Ready
  <2>5. CASE Check(a)
    BY <1>0, <2>5 DEF Check
  <2>6. CASE Spawn(a)
    BY <1>0, <2>6 DEF Spawn, Launch
  <2>7. CASE Return(a)
    BY <1>5, <2>7 DEF Return
  <2> QED
    BY <1>7, <2>1, <2>2, <2>3, <2>4, <2>5, <2>6, <2>7 DEF Step
<1>8. ASSUME NEW c \in Clients, Call(c) \/ GuardModelDeletion(c) PROVE \A a \in Actors : CallFits(a)'
  BY <1>1, <1>2, <1>3, <1>5, <1>8 DEF Call, Switch, Begin, Active, GuardModelDeletion, Delete, Actors
<1>9. CASE (\E p \in Procs : Exit(p) \/ Wait(p)) \/ UNCHANGED vars \/ \E m \in Models : Publish(m)
  BY <1>1, <1>9 DEF Exit, Wait, vars, Publish
<1> QED
  BY <1>4, <1>7, <1>8, <1>9 DEF Next

\* The switch service's lock is held by the call that entered it.
LEMMA SwitchLockedStep == ASSUME IInv, [Next]_vars PROVE SwitchLocked'
<1> USE DEF SwitchLocked, At, Goto
<1>0. CallsTyped /\ RestTyped /\ SwitchLocked /\ \A a \in Actors : CallFits(a)
  BY TypeParts DEF IInv
<1>a. \A c \in Clients : c \in Actors /\ c # App /\ c # None
  BY RuntimeAssumption DEF Actors
<1>1. CASE UNCHANGED act /\ sw'.mu = sw.mu
  BY <1>0, <1>1
<1>2. ASSUME NEW c \in Clients, NEW s \in {"start", "stop"}, NEW o, NEW t, Enter(c, o, t, s), sw'.mu = c
      PROVE SwitchLocked'
  <2>1. act'[c].pc = s /\ \A a \in Actors \ {c} : act'[a] = act[a]
    BY <1>0, <1>2, Entered
  <2>2. sw.mu = None
    BY <1>2 DEF Enter
  <2> QED
    BY <1>0, <1>a, <1>2, <2>1, <2>2
<1>3. ASSUME NEW c \in Clients, Call(c) PROVE SwitchLocked'
  <2>1. ASSUME NEW m \in Models, Switch(c, m) PROVE SwitchLocked'
    <3>1. sw'.mu = c
      BY <1>0, <2>1 DEF Switch, RestTyped
    <3> QED
      BY <1>2, <2>1, <3>1 DEF Switch
  <2>2. ASSUME NEW m \in Models, ReadModel(c, m) PROVE SwitchLocked'
    <3>1. act'[c].pc = "guard" /\ \A a \in Actors \ {c} : act'[a] = act[a]
      BY <1>0, <2>2, ReadsModel
    <3>2. act[c].pc = "idle" /\ sw' = sw
      BY <2>2 DEF ReadModel
    <3> QED
      BY <1>0, <1>a, <3>1, <3>2
  <2>3. ASSUME NEW o \in {"start", "restart", "stop"}, NEW t, Begin(c, o, t) PROVE SwitchLocked'
    <3>1. sw'.mu = c
      BY <1>0, <2>3 DEF Begin, RestTyped
    <3> QED
      BY <1>2, <2>3, <3>1 DEF Begin
  <2>4. CASE Active(c)
    BY <1>0, <1>1, <2>4 DEF Active, RestTyped
  <2> QED
    BY <1>3, <2>1, <2>2, <2>3, <2>4 DEF Call
<1>4. ASSUME NEW c \in Clients, GuardModelDeletion(c) PROVE SwitchLocked'
  <2>1. EndCall(c, <<sw.active, sw.path>>) /\ sw.mu = None /\ act[c].pc = "guard"
    BY <1>4 DEF GuardModelDeletion, Delete
  <2>2. sw'.mu = None
    BY <2>1 DEF EndCall
  <2> QED
    BY <1>0, <1>a, <2>1, <2>2, Ended
<1>5. ASSUME NEW a \in Actors, Return(a) PROVE SwitchLocked'
  <2>1. act[a].pc = "ret" /\ \E s : EndCall(a, s)
    BY <1>5 DEF Return
  <2>2. sw'.mu = IF sw.mu = a THEN None ELSE sw.mu
    BY <1>5 DEF Return, EndCall
  <2>3. /\ \A b \in Actors \ {a} : act'[b] = act[b]
        /\ act'[a].pc = IF a = App THEN "over" ELSE "idle"
    BY <1>0, <2>1, Ended
  <2>4. ASSUME NEW c \in Clients PROVE sw'.mu = c <=> act'[c].pc \notin {"idle", "guard"}
    <3>1. CASE c = a
      BY <1>0, <1>a, <2>1, <2>2, <2>3, <3>1
    <3>2. CASE c # a
      <4>1. sw'.mu = c <=> sw.mu = c
        BY <1>a, <2>2, <3>2
      <4> QED
        BY <1>0, <1>a, <2>3, <3>2, <4>1
    <3> QED
      BY <3>1, <3>2
  <2> QED
    BY <2>4
<1>6. ASSUME NEW a \in Actors, NEW b \in BOOLEAN, StopEnds(a, b), act[a].pc \in {"stop", "grace", "kill"}
      PROVE SwitchLocked'
  <2>1. sw'.mu = sw.mu
    BY <1>0, <1>6 DEF StopEnds, RestTyped
  <2> QED
    BY <1>0, <1>a, <1>6, <2>1, StopEnded
<1>7. ASSUME NEW a \in Actors, NEW s, act[a].pc \notin {"idle", "guard"}, s \notin {"idle", "guard"},
             act'[a].pc = s, \A b \in Actors \ {a} : act'[b] = act[b], sw'.mu = sw.mu
      PROVE SwitchLocked'
  BY <1>0, <1>a, <1>7
<1>8. ASSUME NEW a \in Actors, Step(a) \/ StopCanceled(a) PROVE SwitchLocked'
  <2>1. CASE StopIdle(a) \/ StopDone(a) \/ StopKillOver(a) \/ StopCanceled(a)
    BY <1>6, <2>1 DEF StopIdle, StopDone, StopKillOver, StopCanceled
  <2>2. CASE RejectRestart(a) \/ StopBegin(a) \/ StopTerm(a) \/ StopGraceOver(a)
    BY <1>0, <1>7, <2>2 DEF RejectRestart, StopBegin, StopTerm, StopGraceOver, CallsTyped, CallType
  <2>3. CASE StartFails(a) \/ Spawn(a)
    BY <1>0, <1>7, <2>3 DEF StartFails, Spawn, Launch, CallsTyped, CallType
  <2>4. CASE Healthy(a) \/ NotReady(a) \/ Ready(a) \/ Check(a)
    BY <1>0, <1>7, <2>4 DEF Healthy, NotReady, Ready, Check, CallsTyped, CallType
  <2> QED
    BY <1>5, <1>8, <2>1, <2>2, <2>3, <2>4 DEF Step
<1>9. CASE Shutdown
  BY <1>0, <1>a, <1>9, ShutDown DEF Shutdown
<1>10. CASE (\E p \in Procs : Exit(p) \/ Wait(p)) \/ UNCHANGED vars \/ \E m \in Models : Publish(m)
  BY <1>1, <1>10 DEF Exit, Wait, vars, Publish
<1> QED
  BY <1>3, <1>4, <1>8, <1>9, <1>10 DEF Next

\* So is the supervisor's.
LEMMA OpLockedStep == ASSUME IInv, [Next]_vars PROVE OpLocked'
<1> USE DEF OpLocked, HoldsOp, At, Goto
<1>0. CallsTyped /\ RestTyped /\ OpLocked /\ \A a \in Actors : CallFits(a)
  BY TypeParts DEF IInv
<1>a. \A a \in Actors : a # None
  BY RuntimeAssumption
<1>1. CASE UNCHANGED <<act, opMu>>
  BY <1>0, <1>1
<1>2. ASSUME NEW a \in Actors, ~HoldsOp(a), ~HoldsOp(a)', \A b \in Actors \ {a} : act'[b] = act[b], opMu' = opMu
      PROVE OpLocked'
  BY <1>0, <1>2
<1>3. ASSUME NEW a \in Actors, opMu \in {None, a}, ~HoldsOp(a)', \A b \in Actors \ {a} : act'[b] = act[b],
             opMu' = None
      PROVE OpLocked'
  BY <1>0, <1>a, <1>3
<1>4. ASSUME NEW a \in Actors, opMu \in {None, a}, HoldsOp(a)', \A b \in Actors \ {a} : act'[b] = act[b],
             opMu' = a
      PROVE OpLocked'
  BY <1>0, <1>a, <1>4
<1>5. ASSUME NEW c \in Clients, Call(c) PROVE OpLocked'
  <2>0. c \in Actors
    BY DEF Actors
  <2>1. ASSUME NEW s \in {"start", "stop"}, NEW o, NEW t, Enter(c, o, t, s), o = "restart" => s = "stop"
        PROVE OpLocked'
    <3>1. /\ \A a \in Actors \ {c} : act'[a] = act[a]
          /\ act'[c].pc = s /\ act'[c].op = o /\ ~act'[c].cleaning
      BY <1>0, <2>1, Entered
    <3>2. act[c].pc = "idle" /\ opMu' = opMu
      BY <2>1 DEF Enter
    <3> QED
      BY <1>2, <2>0, <2>1, <3>1, <3>2
  <2>2. ASSUME NEW m \in Models, ReadModel(c, m) PROVE OpLocked'
    <3>1. /\ \A a \in Actors \ {c} : act'[a] = act[a]
          /\ act'[c].pc = "guard"
      BY <1>0, <2>2, ReadsModel
    <3>2. act[c].pc = "idle" /\ opMu' = opMu
      BY <2>2 DEF ReadModel
    <3> QED
      BY <1>2, <2>0, <3>1, <3>2
  <2> QED
    BY <1>1, <1>5, <2>1, <2>2 DEF Call, Switch, Begin, Active
<1>6. ASSUME NEW a \in Actors, NEW s, EndCall(a, s), act[a].pc \in {"ret", "guard"} PROVE OpLocked'
  BY <1>0, <1>2, <1>6, Ended DEF EndCall
<1>7. ASSUME NEW a \in Actors, NEW b \in BOOLEAN, StopEnds(a, b), opMu \in {None, a} PROVE OpLocked'
  <2>1. CASE b /\ ~act[a].cleaning /\ act[a].op = "restart"
    <3>1. opMu' = a
      BY <1>7, <2>1 DEF StopEnds
    <3>2. act'[a].pc = "start" /\ act'[a].op = "restart" /\ \A d \in Actors \ {a} : act'[d] = act[d]
      BY <1>0, <1>7, <2>1, StopEnded
    <3> QED
      BY <1>4, <1>7, <3>1, <3>2
  <2>2. CASE ~(b /\ ~act[a].cleaning /\ act[a].op = "restart")
    <3>1. opMu' = None
      BY <1>7, <2>2 DEF StopEnds
    <3> QED
      BY <1>0, <1>3, <1>7, <2>2, <3>1, StopEnded
  <2> QED
    BY <2>1, <2>2
<1>8. ASSUME NEW a \in Actors, Step(a) \/ StopCanceled(a) PROVE OpLocked'
  <2>1. CASE StopIdle(a) \/ StopDone(a) \/ StopKillOver(a) \/ StopCanceled(a)
    <3>1. opMu \in {None, a}
      BY <1>0, <2>1 DEF StopIdle, StopDone, StopKillOver, StopCanceled
    <3>2. StopEnds(a, TRUE) \/ StopEnds(a, FALSE)
      BY <2>1 DEF StopIdle, StopDone, StopKillOver, StopCanceled
    <3> QED
      BY <1>7, <3>1, <3>2
  <2>2. CASE RejectRestart(a)
    BY <1>0, <1>2, <2>2 DEF RejectRestart, CallsTyped, CallType
  <2>3. CASE StopBegin(a)
    BY <1>0, <1>4, <2>3 DEF StopBegin, CallsTyped, CallType
  <2>4. CASE StopTerm(a) \/ StopGraceOver(a) \/ Healthy(a) \/ NotReady(a) \/ Ready(a)
    BY <1>0, <1>4, <2>4 DEF StopTerm, StopGraceOver, Healthy, NotReady, Ready, CallsTyped, CallType
  <2>5. CASE StartFails(a) \/ Check(a)
    BY <1>0, <1>3, <2>5 DEF StartFails, Check, CallsTyped, CallType
  <2>6. CASE Spawn(a)
    BY <1>0, <1>4, <2>6 DEF Spawn, Launch, CallsTyped, CallType
  <2>7. CASE Return(a)
    BY <1>6, <2>7 DEF Return
  <2> QED
    BY <1>8, <2>1, <2>2, <2>3, <2>4, <2>5, <2>6, <2>7 DEF Step
<1>9. ASSUME NEW c \in Clients, GuardModelDeletion(c) PROVE OpLocked'
  BY <1>6, <1>9 DEF GuardModelDeletion, Delete, Actors
<1>10. CASE Shutdown
  BY <1>0, <1>2, <1>10, ShutDown DEF Shutdown, CloseServer, CallFits
<1>11. CASE (\E p \in Procs : Exit(p) \/ Wait(p)) \/ UNCHANGED vars \/ \E m \in Models : Publish(m)
  BY <1>1, <1>11 DEF Exit, Wait, vars, Publish
<1> QED
  BY <1>5, <1>8, <1>9, <1>10, <1>11 DEF Next

-----------------------------------------------------------------------------
(* Stops *)

\* The process of a stop is still the supervisor's, or gone.
LEMMA StopsOwnStep == ASSUME IInv, [Next]_vars PROVE \A a \in Actors : StopsOwn(a)'
<1> DEFINE S == {"term", "grace", "kill"}
<1> USE DEF StopsOwn, At, Goto
<1>0. CallsTyped /\ RestTyped /\ OpLocked /\ \A a \in Actors : CallFits(a) /\ StopsOwn(a)
  BY TypeParts DEF IInv
<1>1. ASSUME sup' = sup,
             \A b \in Actors : act'[b].pc \in S => act[b].pc \in S /\ act'[b].on = act[b].on
      PROVE  \A a \in Actors : StopsOwn(a)'
  BY <1>0, <1>1
<1>2. ASSUME NEW a \in Actors, sup' = sup, act'[a].pc \notin S, \A b \in Actors \ {a} : act'[b] = act[b]
      PROVE  \A b \in Actors : StopsOwn(b)'
  BY <1>1, <1>2
<1>3. ASSUME NEW a \in Actors, opMu \in {None, a}, \A b \in Actors \ {a} : act'[b] = act[b], StopsOwn(a)'
      PROVE  \A b \in Actors : StopsOwn(b)'
  <2>1. \A b \in Actors \ {a} : act[b].pc \notin S
    BY <1>0, <1>3, RuntimeAssumption DEF OpLocked, HoldsOp
  <2> QED
    BY <1>3, <2>1
<1>4. ASSUME NEW c \in Clients, Call(c) PROVE \A a \in Actors : StopsOwn(a)'
  <2>0. c \in Actors
    BY DEF Actors
  <2>1. ASSUME NEW s \in {"start", "stop"}, NEW o, NEW t, Enter(c, o, t, s) PROVE \A a \in Actors : StopsOwn(a)'
    <3>1. act'[c].pc = s /\ \A a \in Actors \ {c} : act'[a] = act[a]
      BY <1>0, <2>1, Entered
    <3> QED
      BY <1>2, <2>0, <2>1, <3>1 DEF Enter
  <2>2. ASSUME NEW m \in Models, ReadModel(c, m) PROVE \A a \in Actors : StopsOwn(a)'
    <3>1. act'[c].pc = "guard" /\ \A a \in Actors \ {c} : act'[a] = act[a]
      BY <1>0, <2>2, ReadsModel
    <3> QED
      BY <1>2, <2>0, <2>2, <3>1 DEF ReadModel
  <2> QED
    BY <1>1, <1>4, <2>1, <2>2 DEF Call, Switch, Begin, Active
<1>5. ASSUME NEW a \in Actors, NEW s, EndCall(a, s), sup' = sup PROVE \A b \in Actors : StopsOwn(b)'
  <2>1. act'[a].pc \notin S /\ \A b \in Actors \ {a} : act'[b] = act[b]
    BY <1>0, <1>5, Ended
  <2> QED
    BY <1>2, <1>5, <2>1
<1>6. ASSUME NEW a \in Actors, Step(a) \/ StopCanceled(a) PROVE \A b \in Actors : StopsOwn(b)'
  <2>1. CASE StopIdle(a) \/ StopDone(a) \/ StopKillOver(a) \/ StopCanceled(a)
    <3>1. sup' = sup /\ (StopEnds(a, TRUE) \/ StopEnds(a, FALSE))
      BY <2>1 DEF StopIdle, StopDone, StopKillOver, StopCanceled, StopEnds
    <3>2. act'[a].pc \notin S /\ \A b \in Actors \ {a} : act'[b] = act[b]
      BY <1>0, <3>1, StopEnded
    <3> QED
      BY <1>2, <3>1, <3>2
  <2>2. CASE RejectRestart(a) \/ StartFails(a) \/ Healthy(a) \/ NotReady(a) \/ Check(a)
    BY <1>0, <1>2, <2>2 DEF RejectRestart, StartFails, Healthy, NotReady, Check, CallsTyped, CallType
  <2>3. CASE StopBegin(a)
    <3>1. /\ \A b \in Actors \ {a} : act'[b] = act[b]
          /\ opMu \in {None, a} /\ sup.cmd # None /\ sup'.status = "stopping" /\ sup'.cmd = sup.cmd
          /\ act'[a].on = sup.cmd
      BY <1>0, <2>3 DEF StopBegin, CallsTyped, CallType, RestTyped
    <3> QED
      BY <1>0, <1>3, <3>1 DEF RestTyped
  <2>4. CASE StopTerm(a) \/ StopGraceOver(a)
    BY <1>0, <1>1, <2>4 DEF StopTerm, StopGraceOver, CallsTyped, CallType
  <2>5. CASE Spawn(a)
    <3>1. opMu \in {None, a} /\ act'[a].pc = "poll" /\ \A b \in Actors \ {a} : act'[b] = act[b]
      BY <1>0, <2>5 DEF Spawn, Launch, CallsTyped, CallType
    <3> QED
      BY <1>3, <3>1
  <2>6. CASE Ready(a)
    <3>1. opMu = a /\ act'[a].pc = "check" /\ \A b \in Actors \ {a} : act'[b] = act[b]
      BY <1>0, <2>6 DEF Ready, CallsTyped, CallType, OpLocked, HoldsOp
    <3> QED
      BY <1>3, <3>1
  <2>7. CASE Return(a)
    BY <1>5, <2>7 DEF Return, EndCall
  <2> QED
    BY <1>6, <2>1, <2>2, <2>3, <2>4, <2>5, <2>6, <2>7 DEF Step
<1>7. ASSUME NEW p \in Procs, Wait(p) PROVE \A b \in Actors : StopsOwn(b)'
  BY <1>0, <1>7 DEF Wait, RestTyped
<1>8. ASSUME NEW c \in Clients, GuardModelDeletion(c) PROVE \A b \in Actors : StopsOwn(b)'
  BY <1>5, <1>8 DEF GuardModelDeletion, Delete, EndCall, Actors
<1>9. CASE Shutdown
  <2>1. App \in Actors /\ act'[App].pc = "stop" /\ \A b \in Actors \ {App} : act'[b] = act[b]
    BY <1>0, <1>9, ShutDown
  <2> QED
    BY <1>2, <1>9, <2>1 DEF Shutdown, CloseServer
<1>10. CASE (\E p \in Procs : Exit(p)) \/ UNCHANGED vars \/ \E m \in Models : Publish(m)
  BY <1>1, <1>10 DEF Exit, vars, Publish
<1> QED
  BY <1>4, <1>6, <1>7, <1>8, <1>9, <1>10 DEF Next

\* A process that was asked to terminate is watched, and one being stopped gets a
\* signal: no path of Supervisor.stop leaves without SIGKILL or the process's end.
LEMMA SignalStep == ASSUME IInv, [Next]_vars PROVE NoProcessIsLeftTermed' /\ StoppingIsTermed'
<1> USE DEF NoProcessIsLeftTermed, StoppingIsTermed, At, Goto
<1>0. /\ CallsTyped /\ ProcsTyped /\ RestTyped /\ OneProcess /\ (\A a \in Actors : CallFits(a) /\ StopsOwn(a))
      /\ NoProcessIsLeftTermed /\ StoppingIsTermed
  BY TypeParts DEF IInv
<1>1. ASSUME \A p \in Procs : proc'[p].st = "termed" => proc[p].st = "termed",
             \A p \in Procs : proc'[p].st = "alive" => proc[p].st = "alive",
             sup'.status = "stopping" => sup.status = "stopping",
             \A a \in Actors : act[a].pc \in {"term", "grace"} => act'[a].pc = act[a].pc /\ act'[a].on = act[a].on
      PROVE  NoProcessIsLeftTermed' /\ StoppingIsTermed'
  BY <1>0, <1>1
<1>2. ASSUME UNCHANGED <<proc, sup>>, NEW a \in Actors, act[a].pc \notin {"term", "grace"},
             \A b \in Actors \ {a} : act'[b] = act[b]
      PROVE  NoProcessIsLeftTermed' /\ StoppingIsTermed'
  BY <1>1, <1>2
<1>3. ASSUME NEW p, NEW s \in {"termed", "killed"}, Signal(p, s)
      PROVE  /\ \A q \in Procs \ {p} : proc'[q].st = proc[q].st
             /\ p \in Procs => proc'[p].st # "alive" /\ (s = "killed" => proc'[p].st # "termed")
  BY <1>0, <1>3 DEF Signal, ProcsTyped, ProcType
<1>4. ASSUME NEW a \in Actors, Step(a) \/ StopCanceled(a) PROVE NoProcessIsLeftTermed' /\ StoppingIsTermed'
  <2>1. CASE RejectRestart(a) \/ StartFails(a) \/ Healthy(a) \/ NotReady(a) \/ Check(a)
    BY <1>0, <1>2, <2>1 DEF RejectRestart, StartFails, Healthy, NotReady, Check, CallsTyped, CallType
  <2>2. CASE StopIdle(a) \/ StopKillOver(a) \/ (StopCanceled(a) /\ act[a].pc = "kill")
    <3>1. UNCHANGED <<proc, sup>> /\ act[a].pc \in {"stop", "kill"} /\ (StopEnds(a, TRUE) \/ StopEnds(a, FALSE))
      BY <2>2 DEF StopIdle, StopKillOver, StopCanceled, StopEnds
    <3> QED
      BY <1>0, <1>2, <3>1, StopEnded
  <2>3. CASE StopBegin(a)
    <3>1. /\ \A b \in Actors \ {a} : act'[b] = act[b]
          /\ act[a].pc = "stop" /\ act'[a].pc = "term" /\ act'[a].on = sup.cmd
          /\ sup.cmd # None /\ proc' = proc
      BY <1>0, <2>3 DEF StopBegin, CallsTyped, CallType
    <3>2. NoProcessIsLeftTermed'
      BY <1>0, <3>1
    <3>3. \A p \in Procs : proc'[p].st = "alive" => p = sup.cmd
      BY <1>0, <3>1 DEF OneProcess, Unreaped
    <3> QED
      BY <3>1, <3>2, <3>3
  <2>4. CASE StopTerm(a)
    <3>1. /\ \A b \in Actors \ {a} : act'[b] = act[b]
          /\ act[a].pc = "term" /\ act'[a].pc = "grace" /\ act'[a].on = act[a].on /\ act[a].on \in Procs
          /\ sup' = sup /\ Signal(act[a].on, "termed")
      BY <1>0, <2>4 DEF StopTerm, CallsTyped, CallType, StopsOwn
    <3>2. /\ \A q \in Procs \ {act[a].on} : proc'[q].st = proc[q].st
          /\ proc'[act[a].on].st # "alive"
      BY <1>3, <3>1
    <3>3. NoProcessIsLeftTermed'
      BY <1>0, <3>1, <3>2
    <3>4. StoppingIsTermed'
      BY <1>0, <3>1, <3>2
    <3> QED
      BY <3>3, <3>4
  <2>5. CASE StopDone(a) \/ StopGraceOver(a) \/ (StopCanceled(a) /\ act[a].pc = "grace")
    <3>1. /\ \A b \in Actors \ {a} : act'[b] = act[b]
          /\ act[a].pc \in {"grace", "kill"} /\ sup' = sup
      BY <1>0, <2>5, StopEnded
         DEF StopDone, StopGraceOver, StopCanceled, CallsTyped, CallType, StopEnds
    <3>2. act[a].on \in Procs
      BY <1>0, <3>1 DEF StopsOwn
    <3>3. /\ \A q \in Procs \ {act[a].on} : proc'[q].st = proc[q].st
          /\ proc'[act[a].on].st \notin {"alive", "termed"}
      <4>1. CASE StopDone(a)
        BY <3>2, <4>1 DEF StopDone
      <4>2. CASE ~StopDone(a)
        BY <1>3, <2>5, <3>2, <4>2 DEF StopGraceOver, StopCanceled
      <4> QED
        BY <4>1, <4>2
    <3> QED
      BY <1>0, <3>1, <3>2, <3>3
  <2>6. CASE Spawn(a)
    <3>1. PICK p \in Procs :
            /\ proc[p].st = "unused"
            /\ proc' = [proc EXCEPT ![p] = [st |-> "alive", path |-> act[a].target, via |-> act[a].op]]
            /\ sup' = [status |-> "starting", cmd |-> p]
      BY <2>6 DEF Spawn, Launch
    <3>2. /\ \A b \in Actors \ {a} : act'[b] = act[b]
          /\ act[a].pc = "start"
      BY <1>0, <2>6 DEF Spawn, Launch, CallsTyped, CallType
    <3>3. \A q \in Procs : proc'[q].st = "termed" => proc[q].st = "termed"
      BY <1>0, <3>1 DEF ProcsTyped, ProcType
    <3> QED
      BY <1>0, <3>1, <3>2, <3>3
  <2>7. CASE Ready(a)
    <3>1. /\ \A b \in Actors \ {a} : act'[b] = act[b]
          /\ act[a].pc = "ready" /\ proc' = proc
          /\ sup'.status = "stopping" => sup.status = "stopping"
      BY <1>0, <2>7 DEF Ready, CallsTyped, CallType, RestTyped
    <3> QED
      BY <1>1, <3>1
  <2>8. CASE Return(a)
    <3>1. act[a].pc = "ret" /\ UNCHANGED <<proc, sup>> /\ \E s : EndCall(a, s)
      BY <2>8 DEF Return, EndCall
    <3> QED
      BY <1>0, <1>2, <3>1, Ended
  <2> QED
    BY <1>4, <2>1, <2>2, <2>3, <2>4, <2>5, <2>6, <2>7, <2>8 DEF Step, StopCanceled
<1>5. ASSUME NEW p \in Procs, Exit(p) \/ Wait(p) PROVE NoProcessIsLeftTermed' /\ StoppingIsTermed'
  <2>1. /\ \A q \in Procs : proc'[q].st = "termed" => proc[q].st = "termed"
        /\ \A q \in Procs : proc'[q].st = "alive" => proc[q].st = "alive"
    BY <1>0, <1>5 DEF Exit, Wait, ProcsTyped, ProcType
  <2>2. sup'.status = "stopping" => sup.status = "stopping"
    BY <1>5 DEF Exit, Wait
  <2> QED
    BY <1>1, <1>5, <2>1, <2>2 DEF Exit, Wait
<1>6. ASSUME NEW c \in Clients, Call(c) PROVE NoProcessIsLeftTermed' /\ StoppingIsTermed'
  <2>0. c \in Actors
    BY DEF Actors
  <2>1. ASSUME NEW s, NEW o, NEW t, Enter(c, o, t, s) PROVE NoProcessIsLeftTermed' /\ StoppingIsTermed'
    BY <1>0, <1>2, <2>0, <2>1, Entered DEF Enter
  <2>2. ASSUME NEW m \in Models, ReadModel(c, m) PROVE NoProcessIsLeftTermed' /\ StoppingIsTermed'
    <3>1. UNCHANGED <<proc, sup>> /\ act[c].pc = "idle"
      BY <2>2 DEF ReadModel
    <3> QED
      BY <1>0, <1>2, <2>0, <2>2, <3>1, ReadsModel
  <2> QED
    BY <1>1, <1>6, <2>1, <2>2 DEF Call, Switch, Begin, Active
<1>7. ASSUME NEW c \in Clients, GuardModelDeletion(c) PROVE NoProcessIsLeftTermed' /\ StoppingIsTermed'
  <2>1. c \in Actors /\ act[c].pc = "guard" /\ UNCHANGED <<proc, sup>> /\ \E s : EndCall(c, s)
    BY <1>7 DEF GuardModelDeletion, Delete, EndCall, Actors
  <2> QED
    BY <1>0, <1>2, <2>1, Ended
<1>8. CASE Shutdown
  <2>1. UNCHANGED <<proc, sup>>
    BY <1>8 DEF Shutdown, CloseServer
  <2> QED
    BY <1>0, <1>2, <1>8, <2>1, ShutDown
<1>9. CASE UNCHANGED vars \/ \E m \in Models : Publish(m)
  BY <1>1, <1>9 DEF vars, Publish
<1> QED
  BY <1>4, <1>5, <1>6, <1>7, <1>8, <1>9 DEF Next

-----------------------------------------------------------------------------
(* Launches and the association *)

\* Of two handlers in a call of the switch service there is one.
LEMMA OneCall ==
    ASSUME SwitchLocked, NEW c \in Clients, NEW d \in Clients,
           act[c].pc \notin {"idle", "guard"}, act[d].pc \notin {"idle", "guard"}
    PROVE  c = d
BY DEF SwitchLocked

\* Only a handler launches, and what it launches is new.
LEMMA Spawned ==
    ASSUME IInv, NEW a \in Actors, Spawn(a)
    PROVE  /\ a \in Clients /\ act[a].pc = "start" /\ act'[a].pc = "poll"
           /\ act'[a].op = act[a].op /\ act'[a].target = act[a].target /\ act[a].op \in Launches
           /\ \A b \in Actors \ {a} : act'[b] = act[b]
           /\ sup'.cmd \in Procs /\ sup'.cmd = act'[a].on /\ sup'.status = "starting"
           /\ proc'[sup'.cmd].path = act[a].target /\ proc'[sup'.cmd].via = act[a].op
           /\ sup.status \notin Up
           /\ UNCHANGED <<model, sw>>
<1>0. CallsTyped /\ ProcsTyped /\ RestTyped /\ CallFits(a)
  BY TypeParts DEF IInv
<1>1. PICK p \in Procs :
        /\ proc' = [proc EXCEPT ![p] = [st |-> "alive", path |-> act[a].target, via |-> act[a].op]]
        /\ sup' = [status |-> "starting", cmd |-> p]
        /\ act' = [act EXCEPT ![a].pc = "poll", ![a].on = p]
  BY DEF Spawn, Launch
<1>2. act[a].pc = "start" /\ sup.status \notin Up /\ UNCHANGED <<model, sw>>
  BY DEF Spawn, Launch, At
<1>3. act[a].op \in Launches /\ a \in Clients
  BY <1>0, <1>2 DEF CallFits, Launches, Actors
<1>4. /\ act'[a].pc = "poll" /\ act'[a].op = act[a].op /\ act'[a].target = act[a].target /\ act'[a].on = p
      /\ \A b \in Actors \ {a} : act'[b] = act[b]
  BY <1>0, <1>1 DEF CallsTyped, CallType
<1>5. proc'[p].path = act[a].target /\ proc'[p].via = act[a].op
  BY <1>0, <1>1 DEF ProcsTyped
<1> QED
  BY <1>1, <1>2, <1>3, <1>4, <1>5

\* Without a launch, what is up was up, and is what it was.
LEMMA ProcessKept ==
    ASSUME IInv, [Next]_vars, ~\E a \in Actors : Spawn(a)
    PROVE  /\ \A p \in Procs : proc'[p].path = proc[p].path /\ proc'[p].via = proc[p].via
           /\ sup'.status \in Up => sup.status \in Up
           /\ sup'.status \in {"starting", "running"} =>
                 /\ sup.status \in {"starting", "running"}
                 /\ sup'.cmd = sup.cmd /\ sup.cmd \in Procs
                 /\ sup.status = "running" => sup'.status = "running"
<1> DEFINE G == /\ \A p \in Procs : proc'[p].path = proc[p].path /\ proc'[p].via = proc[p].via
                /\ sup'.status \in Up => sup.status \in Up
                /\ sup'.status \in {"starting", "running"} =>
                      /\ sup.status \in {"starting", "running"}
                      /\ sup'.cmd = sup.cmd
                      /\ sup.status = "running" => sup'.status = "running"
<1>0. ProcsTyped /\ RestTyped /\ OneProcess
  BY TypeParts DEF IInv
<1>a. sup.status \in {"starting", "running"} => sup.cmd \in Procs
  BY <1>0 DEF OneProcess, RestTyped, Up
<1> SUFFICES G
  BY <1>a
<1> USE DEF Up
<1>1. CASE UNCHANGED <<proc, sup>>
  BY <1>1
<1>2. ASSUME NEW p, NEW s, Signal(p, s), UNCHANGED sup PROVE G
  BY <1>0, <1>2 DEF Signal, ProcsTyped, ProcType
<1>3. ASSUME NEW a \in Actors, Step(a) \/ StopCanceled(a) PROVE G
  <2>1. CASE StopBegin(a)
    BY <1>0, <2>1 DEF StopBegin, OneProcess, RestTyped
  <2>2. CASE Ready(a)
    BY <1>0, <2>2 DEF Ready, RestTyped
  <2>3. CASE StopTerm(a) \/ StopGraceOver(a) \/ StopCanceled(a)
    BY <1>1, <1>2, <2>3 DEF StopTerm, StopGraceOver, StopCanceled, StopEnds
  <2> QED
    BY <1>1, <1>3, <2>1, <2>2, <2>3
       DEF Step, RejectRestart, Healthy, NotReady, StartFails, StopIdle, StopDone, StopKillOver, StopEnds,
           Check, Return, EndCall
<1>4. ASSUME NEW p \in Procs, Exit(p) \/ Wait(p) PROVE G
  <2>1. \A q \in Procs : proc'[q].path = proc[q].path /\ proc'[q].via = proc[q].via
    BY <1>0, <1>4 DEF Exit, Wait, ProcsTyped, ProcType
  <2>2. sup' = sup \/ sup'.status \in {"stopped", "failed"}
    BY <1>4 DEF Exit, Wait
  <2> QED
    BY <2>1, <2>2
<1>5. CASE \E c \in Clients : Call(c) \/ GuardModelDeletion(c)
  BY <1>1, <1>5 DEF Call, Switch, Enter, ReadModel, Begin, Active, GuardModelDeletion, Delete, EndCall
<1>6. CASE Shutdown \/ UNCHANGED vars \/ \E m \in Models : Publish(m)
  BY <1>1, <1>6 DEF Shutdown, CloseServer, vars, Publish
<1> QED
  BY <1>3, <1>4, <1>5, <1>6 DEF Next

\* A stop that went well leaves nothing up, and one that did not leaves it marked.
LEMMA StopResult ==
    ASSUME IInv, NEW a \in Actors,
           StopIdle(a) \/ StopDone(a) \/ StopKillOver(a) \/ StopCanceled(a)
    PROVE  /\ sup' = sup /\ sup.status \notin {"starting", "running"}
           /\ \E good \in BOOLEAN : StopEnds(a, good) /\ (good => sup.status \notin Up)
<1>0. RestTyped /\ OneProcess /\ StopsOwn(a)
  BY TypeParts DEF IInv
<1> USE DEF Up
<1>1. CASE StopIdle(a)
  BY <1>0, <1>1 DEF StopIdle, StopEnds, OneProcess
<1>2. CASE StopDone(a)
  <2>1. act[a].on \in Procs /\ sup.cmd \in {act[a].on, None} /\ proc[act[a].on].st = "reaped"
    BY <1>0, <1>2 DEF StopDone, StopsOwn, At
  <2>2. sup.status \notin Up
    BY <1>0, <2>1 DEF OneProcess, Unreaped
  <2> QED
    BY <1>2, <2>2 DEF StopDone, StopEnds
<1>3. CASE StopKillOver(a) \/ StopCanceled(a)
  BY <1>0, <1>3 DEF StopKillOver, StopCanceled, StopEnds, StopsOwn, At
<1> QED
  BY <1>1, <1>2, <1>3

\* After a stop nothing is up until the same call launches.
LEMMA StoppedIsDownStep == ASSUME IInv, [Next]_vars PROVE StoppedIsDown'
<1> USE DEF StoppedIsDown, NothingUp
<1>0. CallsTyped /\ RestTyped /\ SwitchLocked /\ StoppedIsDown /\ \A a \in Actors : CallFits(a)
  BY TypeParts DEF IInv
<1>a. Clients \subseteq Actors
  BY DEF Actors
<1>1. ASSUME NEW a \in Actors, Spawn(a) PROVE StoppedIsDown'
  <2>1. \A c \in Clients : NothingUp(c)' => c = a
    BY <1>0, <1>1, <1>a, Spawned, OneCall
  <2> QED
    BY <1>1, <2>1, Spawned
<1>2. CASE ~\E a \in Actors : Spawn(a)
  <2>0. sup'.status \in Up => sup.status \in Up
    BY <1>2, ProcessKept
  <2>1. ASSUME UNCHANGED act PROVE StoppedIsDown'
    BY <1>0, <2>0, <2>1
  <2>2. ASSUME NEW a \in Actors, \A b \in Actors \ {a} : act'[b] = act[b],
               NothingUp(a)' => NothingUp(a) \/ sup.status \notin Up
        PROVE  StoppedIsDown'
    BY <1>0, <1>a, <2>0, <2>2
  <2>3. ASSUME NEW c \in Clients, Call(c) PROVE StoppedIsDown'
    <3>1. ASSUME NEW s, NEW o, NEW t, Enter(c, o, t, s), s = "start" /\ o \in {"switch", "restart"} => sup.status \notin Up,
                 s # "ret"
          PROVE  StoppedIsDown'
      BY <1>0, <1>a, <2>2, <3>1, Entered
    <3>2. ASSUME NEW m \in Models, ReadModel(c, m) PROVE StoppedIsDown'
      BY <1>0, <1>a, <2>2, <3>2, ReadsModel
    <3>3. CASE Active(c)
      BY <2>1, <3>3 DEF Active
    <3> QED
      BY <2>3, <3>1, <3>2, <3>3 DEF Call, Switch, Begin
  <2>4. ASSUME NEW a \in Actors, NEW s, EndCall(a, s) PROVE StoppedIsDown'
    BY <1>0, <2>2, <2>4, Ended
  <2>5. ASSUME NEW a \in Actors, Step(a) \/ StopCanceled(a) PROVE StoppedIsDown'
    <3>1. CASE StopIdle(a) \/ StopDone(a) \/ StopKillOver(a) \/ StopCanceled(a)
      <4>1. PICK good \in BOOLEAN : StopEnds(a, good) /\ (good => sup.status \notin Up)
        BY <3>1, StopResult
      <4> QED
        BY <1>0, <2>2, <4>1, StopEnded
    <3>2. CASE StopBegin(a) \/ StopTerm(a) \/ StopGraceOver(a) \/ Healthy(a) \/ NotReady(a) \/ Ready(a)
      BY <1>0, <2>2, <3>2 DEF StopBegin, StopTerm, StopGraceOver, Healthy, NotReady, Ready, Goto, CallsTyped, CallType
    <3>3. CASE RejectRestart(a) \/ StartFails(a) \/ Check(a)
      BY <1>0, <2>2, <3>3
         DEF RejectRestart, StartFails, Check, At, Goto, CallsTyped, CallType, CallFits, Launches
    <3>4. CASE Return(a)
      BY <2>4, <3>4 DEF Return
    <3> QED
      BY <1>2, <2>5, <3>1, <3>2, <3>3, <3>4 DEF Step
  <2>6. ASSUME NEW c \in Clients, GuardModelDeletion(c) PROVE StoppedIsDown'
    BY <1>a, <2>4, <2>6 DEF GuardModelDeletion, Delete
  <2>7. CASE Shutdown
    BY <1>0, <2>2, <2>7, ShutDown
  <2>8. CASE (\E p \in Procs : Exit(p) \/ Wait(p)) \/ UNCHANGED vars \/ \E m \in Models : Publish(m)
    BY <2>1, <2>8 DEF Exit, Wait, vars, Publish
  <2> QED
    BY <2>3, <2>5, <2>6, <2>7, <2>8 DEF Next
<1> QED
  BY <1>1, <1>2

\* What comes up during a call of the switch service is what the call launched.
LEMMA LaunchIsOwnStep == ASSUME IInv, [Next]_vars PROVE LaunchIsOwn'
<1> DEFINE Serving == {"starting", "running"}
<1> USE DEF LaunchIsOwn, Launching
<1>0. CallsTyped /\ RestTyped /\ SwitchLocked /\ LaunchIsOwn /\ \A a \in Actors : CallFits(a)
  BY TypeParts DEF IInv
<1>a. Clients \subseteq Actors
  BY DEF Actors
<1>1. ASSUME NEW a \in Actors, Spawn(a) PROVE LaunchIsOwn'
  <2>1. \A c \in Clients : Launching(c)' => c = a
    BY <1>0, <1>1, <1>a, Spawned, OneCall
  <2> QED
    BY <1>1, <2>1, Spawned
<1>2. CASE ~\E a \in Actors : Spawn(a)
  <2>0. /\ \A p \in Procs : proc'[p].path = proc[p].path /\ proc'[p].via = proc[p].via
        /\ sup'.status \in Serving =>
              /\ sup.status \in Serving
              /\ sup'.cmd = sup.cmd /\ sup.cmd \in Procs
              /\ sup.status = "running" => sup'.status = "running"
    BY <1>2, ProcessKept
  <2>1. ASSUME UNCHANGED act PROVE LaunchIsOwn'
    BY <1>0, <2>0, <2>1
  <2>2. ASSUME NEW a \in Actors, \A b \in Actors \ {a} : act'[b] = act[b],
               Launching(a)' =>
                  \/ sup'.status \notin Serving
                  \/ /\ Launching(a) /\ act'[a].on = act[a].on /\ act'[a].op = act[a].op
                     /\ act'[a].target = act[a].target
                     /\ act'[a].pc # "check"
        PROVE  LaunchIsOwn'
    BY <1>0, <1>a, <2>0, <2>2
  <2>3. ASSUME NEW c \in Clients, Call(c) PROVE LaunchIsOwn'
    <3>1. ASSUME NEW s \in {"start", "stop"}, NEW o, NEW t, Enter(c, o, t, s) PROVE LaunchIsOwn'
      BY <1>0, <1>a, <2>2, <3>1, Entered
    <3>2. ASSUME NEW m \in Models, ReadModel(c, m) PROVE LaunchIsOwn'
      BY <1>0, <1>a, <2>2, <3>2, ReadsModel
    <3>3. CASE Active(c)
      BY <2>1, <3>3 DEF Active
    <3> QED
      BY <2>3, <3>1, <3>2, <3>3 DEF Call, Switch, Begin
  <2>4. ASSUME NEW a \in Actors, NEW s, EndCall(a, s) PROVE LaunchIsOwn'
    BY <1>0, <2>2, <2>4, Ended
  <2>5. ASSUME NEW a \in Actors, Step(a) \/ StopCanceled(a) PROVE LaunchIsOwn'
    <3>1. CASE StopIdle(a) \/ StopDone(a) \/ StopKillOver(a) \/ StopCanceled(a)
      <4>1. sup' = sup /\ sup.status \notin Serving /\ \E good \in BOOLEAN : StopEnds(a, good)
        BY <3>1, StopResult
      <4> QED
        BY <1>0, <2>2, <4>1, StopEnded
    <3>2. CASE StopBegin(a)
      BY <1>0, <2>2, <3>2 DEF StopBegin, CallsTyped, CallType
    <3>3. CASE StopTerm(a) \/ StopGraceOver(a) \/ Healthy(a) \/ NotReady(a) \/ RejectRestart(a) \/ StartFails(a)
      BY <1>0, <2>2, <3>3
         DEF StopTerm, StopGraceOver, Healthy, NotReady, RejectRestart, StartFails, At, Goto, CallsTyped, CallType, CallFits
    <3>4. CASE Check(a)
      BY <1>0, <2>2, <3>4, Checked
    <3>5. CASE Ready(a)
      <4>1. /\ \A b \in Actors \ {a} : act'[b] = act[b]
            /\ act[a].pc = "ready" /\ act'[a].pc = "check"
            /\ act'[a].on = act[a].on /\ act'[a].op = act[a].op /\ act'[a].target = act[a].target
            /\ sup' = IF sup.cmd = act[a].on /\ sup.status = "starting"
                      THEN [sup EXCEPT !.status = "running"] ELSE sup
        BY <1>0, <3>5 DEF Ready, At, Goto, CallsTyped, CallType
      <4>2. ASSUME a \in Clients, sup.status \in Serving, sup.cmd = act[a].on PROVE sup'.status = "running"
        BY <1>0, <4>1, <4>2 DEF RestTyped
      <4> QED
        BY <1>0, <1>a, <2>0, <4>1, <4>2
    <3>6. CASE Return(a)
      BY <2>4, <3>6 DEF Return
    <3> QED
      BY <1>2, <2>5, <3>1, <3>2, <3>3, <3>4, <3>5, <3>6 DEF Step
  <2>6. ASSUME NEW c \in Clients, GuardModelDeletion(c) PROVE LaunchIsOwn'
    BY <1>a, <2>4, <2>6 DEF GuardModelDeletion, Delete
  <2>7. CASE Shutdown
    <3>1. App \in Actors /\ ~act[App].cleaning
      BY <1>0, <2>7, ShutDown DEF CallFits
    <3>2. act'[App].pc = "stop" /\ ~act'[App].cleaning /\ \A a \in Actors \ {App} : act'[a] = act[a]
      BY <1>0, <2>7, <3>1, ShutDown
    <3> QED
      BY <2>2, <3>1, <3>2
  <2>8. CASE (\E p \in Procs : Exit(p) \/ Wait(p)) \/ UNCHANGED vars \/ \E m \in Models : Publish(m)
    BY <2>1, <2>8 DEF Exit, Wait, vars, Publish
  <2> QED
    BY <2>3, <2>5, <2>6, <2>7, <2>8 DEF Next
<1> QED
  BY <1>1, <1>2

\* The association is that of the process whenever no call is launching one.
LEMMA AssociationHoldsStep == ASSUME IInv, [Next]_vars PROVE AssociationHolds'
<1> DEFINE Serving == {"starting", "running"}
           Fits == /\ sw.path = proc[sup.cmd].path
                   /\ sw.active = IF proc[sup.cmd].via = "switch" THEN sw.path ELSE None
<1>0. /\ CallsTyped /\ RestTyped /\ SwitchLocked /\ LaunchIsOwn /\ StoppedIsDown /\ AssociationHolds
      /\ \A a \in Actors : CallFits(a)
  BY TypeParts DEF IInv
<1>a. Clients \subseteq Actors /\ App \notin Clients
  BY RuntimeAssumption DEF Actors
<1> SUFFICES ASSUME sup'.status \in Serving, ~\E c \in Clients : Launching(c)' PROVE Fits'
  BY DEF AssociationHolds
<1>1. ~\E a \in Actors : Spawn(a)
  BY Spawned DEF Launching
<1>2. /\ proc'[sup'.cmd].path = proc[sup.cmd].path /\ proc'[sup'.cmd].via = proc[sup.cmd].via
      /\ sup.status \in Serving
  BY <1>1, ProcessKept
<1>3. ASSUME sw'.path = sw.path, sw'.active = sw.active, ~\E c \in Clients : Launching(c) PROVE Fits'
  BY <1>0, <1>2, <1>3 DEF AssociationHolds
<1>4. ASSUME NEW a \in Actors, \A b \in Actors \ {a} : act'[b] = act[b], ~(a \in Clients /\ Launching(a))
      PROVE  ~\E c \in Clients : Launching(c)
  BY <1>a, <1>4 DEF Launching
<1>5. ASSUME NEW c \in Clients, Call(c) PROVE Fits'
  <2>1. ASSUME NEW s, NEW o, NEW t, Enter(c, o, t, s), sw'.path = sw.path, sw'.active = sw.active PROVE Fits'
    <3>1. act[c].pc = "idle" /\ \A b \in Actors \ {c} : act'[b] = act[b]
      BY <1>0, <2>1, Entered DEF Enter, At
    <3> QED
      BY <1>3, <1>4, <1>a, <2>1, <3>1 DEF Launching
  <2>2. ASSUME NEW m \in Models, Switch(c, m) PROVE Fits'
    BY <1>0, <1>2, <2>1, <2>2 DEF Switch, Up, RestTyped
  <2>3. ASSUME NEW m \in Models, ReadModel(c, m) PROVE Fits'
    <3>1. act[c].pc = "idle" /\ sw' = sw /\ \A b \in Actors \ {c} : act'[b] = act[b]
      BY <1>0, <2>3, ReadsModel DEF ReadModel, At
    <3> QED
      BY <1>3, <1>4, <1>a, <3>1 DEF Launching
  <2>4. ASSUME NEW o, NEW t, Begin(c, o, t) PROVE Fits'
    BY <1>0, <2>1, <2>4 DEF Begin, RestTyped
  <2>5. CASE Active(c)
    BY <1>2, <2>5 DEF Active
  <2> QED
    BY <1>5, <2>2, <2>3, <2>4, <2>5 DEF Call
<1>6. ASSUME NEW a \in Actors, Return(a) PROVE Fits'
  <2>1. /\ act[a].pc = "ret" /\ \A b \in Actors \ {a} : act'[b] = act[b]
        /\ LET s == IF a = App THEN <<sw.active, sw.path>> ELSE Association(a)
           IN  sw'.active = s[1] /\ sw'.path = s[2]
    <3>1. \A s : EndCall(a, s) => /\ \A b \in Actors \ {a} : act'[b] = act[b]
                                  /\ sw'.active = s[1] /\ sw'.path = s[2]
      BY <1>0, Ended DEF EndCall
    <3> QED
      BY <1>6, <3>1 DEF Return, At
  <2>2. CASE a = App
    BY <1>3, <1>4, <1>a, <2>1, <2>2
  <2>3. CASE a # App /\ ~act[a].ok
    <3>1. sw'.path = sw.path /\ sw'.active = sw.active
      BY <1>2, <2>1, <2>3 DEF Association
    <3> QED
      BY <1>3, <1>4, <2>1, <2>3, <3>1 DEF Launching
  <2>4. CASE a # App /\ act[a].ok
    <3>1. a \in Clients /\ act[a].op \in Launches \cup {"stop"}
      BY <1>0, <2>1, <2>4 DEF Actors, CallFits
    <3>2. act[a].op # "stop"
      BY <1>0, <1>2, <2>1, <2>4, <3>1 DEF StoppedIsDown, NothingUp, Up
    <3>3. proc[sup.cmd].via = act[a].op /\ proc[sup.cmd].path = act[a].target
      BY <1>0, <1>2, <2>1, <2>4, <3>1, <3>2 DEF LaunchIsOwn, Launching
    <3> QED
      BY <1>2, <2>1, <2>4, <3>1, <3>2, <3>3 DEF Association, Launches
  <2> QED
    BY <2>2, <2>3, <2>4
<1>7. ASSUME NEW a \in Actors, Step(a) \/ StopCanceled(a) PROVE Fits'
  <2>1. CASE StopIdle(a) \/ StopDone(a) \/ StopKillOver(a) \/ StopCanceled(a)
    BY <1>2, <2>1, StopResult
  <2>2. CASE StopBegin(a)
    BY <1>0, <2>2 DEF StopBegin, RestTyped
  <2>3. CASE StopTerm(a) \/ StopGraceOver(a) \/ RejectRestart(a) \/ StartFails(a)
    <3>1. sw' = sw /\ act[a].pc \in {"term", "grace", "stop", "start"} /\ (act[a].pc = "stop" => opMu # a)
          /\ \A b \in Actors \ {a} : act'[b] = act[b]
      BY <1>0, <2>3 DEF StopTerm, StopGraceOver, RejectRestart, StartFails, At, Goto, CallsTyped
    <3>2. ~Launching(a)
      BY <1>0, <3>1 DEF Launching, IInv, OpLocked, HoldsOp
    <3> QED
      BY <1>3, <1>4, <3>1, <3>2
  <2>4. CASE Healthy(a) \/ NotReady(a) \/ Ready(a)
    <3>1. a \in Clients
      BY <1>0, <2>4 DEF Healthy, NotReady, Ready, At, CallFits, Actors, Launches
    <3>2. act'[a].pc \in {"ready", "check"} \/ (act'[a].pc = "stop" /\ act'[a].cleaning)
      BY <1>0, <2>4 DEF Healthy, NotReady, Ready, Goto, CallsTyped, CallType
    <3> QED
      BY <3>1, <3>2 DEF Launching
  <2>5. CASE Check(a)
    <3>1. /\ act[a].pc = "check" /\ act'[a].pc = "ret" /\ act'[a].op = act[a].op
          /\ (act'[a].ok <=> sup.status = "running")
      BY <1>0, <2>5, Checked
    <3>2. act[a].op \in Launches /\ a \in Clients
      BY <1>0, <3>1 DEF CallFits, Actors, Launches
    <3>3. sup.status = "running"
      BY <1>0, <1>2, <3>1, <3>2 DEF LaunchIsOwn, Launching
    <3> QED
      BY <3>1, <3>2, <3>3 DEF Launching
  <2> QED
    BY <1>1, <1>6, <1>7, <2>1, <2>2, <2>3, <2>4, <2>5 DEF Step
<1>8. ASSUME NEW c \in Clients, GuardModelDeletion(c) PROVE Fits'
  <2>1. EndCall(c, <<sw.active, sw.path>>) /\ act[c].pc = "guard"
    BY <1>8 DEF GuardModelDeletion, Delete, At
  <2>2. sw'.path = sw.path /\ sw'.active = sw.active /\ \A b \in Actors \ {c} : act'[b] = act[b]
    BY <1>0, <1>a, <2>1, Ended DEF EndCall
  <2> QED
    BY <1>3, <1>4, <1>a, <2>1, <2>2 DEF Launching
<1>9. CASE Shutdown
  BY <1>0, <1>3, <1>4, <1>9, <1>a, ShutDown DEF Shutdown
<1>10. CASE (\E p \in Procs : Exit(p) \/ Wait(p)) \/ UNCHANGED vars \/ \E m \in Models : Publish(m)
  <2>1. act' = act /\ sw' = sw
    BY <1>10 DEF Exit, Wait, vars, Publish
  <2> QED
    BY <1>3, <2>1 DEF Launching
<1> QED
  BY <1>5, <1>7, <1>8, <1>9, <1>10 DEF Next

-----------------------------------------------------------------------------
(* Models *)

\* A deletion waits for the call of the switch service to be over: its model stays.
LEMMA SwitchedIsReadyStep == ASSUME IInv, [Next]_vars PROVE SwitchedIsReady'
<1> USE DEF SwitchedIsReady
<1>0. CallsTyped /\ RestTyped /\ SwitchLocked /\ SwitchedIsReady /\ \A a \in Actors : CallFits(a)
  BY TypeParts DEF IInv
<1>a. Clients \subseteq Actors /\ None \notin Actors /\ \A c \in Clients : act[c].op = "switch" => act[c].target \in Models
  BY <1>0, RuntimeAssumption DEF Actors, CallFits
<1>1. ASSUME model' = model, NEW a \in Actors, \A b \in Actors \ {a} : act'[b] = act[b],
             act'[a].op = "switch" => \/ act[a].op = "switch" /\ act'[a].target = act[a].target
                                      \/ model[act'[a].target] = "ready"
      PROVE  SwitchedIsReady'
  BY <1>0, <1>1, <1>a
<1>2. ASSUME UNCHANGED <<model, act>> PROVE SwitchedIsReady'
  BY <1>0, <1>2
<1>3. ASSUME NEW c \in Clients, Call(c) PROVE SwitchedIsReady'
  <2>1. ASSUME NEW s, NEW o, NEW t, Enter(c, o, t, s), o = "switch" => model[t] = "ready" PROVE SwitchedIsReady'
    <3>1. act'[c].op = o /\ act'[c].target = t /\ \A b \in Actors \ {c} : act'[b] = act[b]
      BY <1>0, <2>1, Entered
    <3> QED
      BY <1>1, <1>a, <2>1, <3>1 DEF Enter
  <2>2. ASSUME NEW m \in Models, Switch(c, m) PROVE SwitchedIsReady'
    BY <2>1, <2>2 DEF Switch, Resolved
  <2>3. ASSUME NEW m \in Models, ReadModel(c, m) PROVE SwitchedIsReady'
    <3>1. act'[c].op = "delete" /\ model' = model /\ \A b \in Actors \ {c} : act'[b] = act[b]
      BY <1>0, <2>3, ReadsModel DEF ReadModel
    <3> QED
      BY <1>1, <1>a, <3>1
  <2>4. ASSUME NEW o \in {"start", "restart", "stop"}, NEW t, Begin(c, o, t) PROVE SwitchedIsReady'
    BY <2>1, <2>4 DEF Begin
  <2> QED
    BY <1>2, <1>3, <2>2, <2>3, <2>4 DEF Call, Active
<1>4. ASSUME NEW a \in Actors, Step(a) \/ StopCanceled(a) PROVE SwitchedIsReady'
  <2>1. CASE StopIdle(a) \/ StopDone(a) \/ StopKillOver(a) \/ StopCanceled(a)
    <3>1. model' = model /\ \E good \in BOOLEAN : StopEnds(a, good)
      BY <2>1 DEF StopIdle, StopDone, StopKillOver, StopCanceled, StopEnds
    <3> QED
      BY <1>0, <1>1, <3>1, StopEnded
  <2>2. CASE RejectRestart(a) \/ StopBegin(a) \/ StopTerm(a) \/ StopGraceOver(a)
    BY <1>0, <1>1, <2>2 DEF RejectRestart, StopBegin, StopTerm, StopGraceOver, Goto, CallsTyped, CallType
  <2>3. CASE StartFails(a) \/ Healthy(a) \/ NotReady(a) \/ Ready(a)
    BY <1>0, <1>1, <2>3 DEF StartFails, Healthy, NotReady, Ready, Goto, CallsTyped, CallType
  <2>4. CASE Check(a)
    <3>1. model' = model
      BY <2>4 DEF Check
    <3>2. /\ \A b \in Actors \ {a} : act'[b] = act[b]
          /\ act'[a].op = act[a].op /\ act'[a].target = act[a].target
      BY <1>0, <2>4, Checked
    <3> QED
      BY <1>1, <3>1, <3>2
  <2>5. CASE Spawn(a)
    BY <1>1, <2>5, Spawned
  <2>6. CASE Return(a)
    <3>1. model' = model /\ \E s : EndCall(a, s)
      BY <2>6 DEF Return
    <3> QED
      BY <1>0, <1>1, <3>1, Ended
  <2> QED
    BY <1>4, <2>1, <2>2, <2>3, <2>4, <2>5, <2>6 DEF Step
<1>5. ASSUME NEW c \in Clients, GuardModelDeletion(c) PROVE SwitchedIsReady'
  <2>1. sw.mu = None /\ \E s : EndCall(c, s)
    BY <1>5 DEF GuardModelDeletion, Delete
  <2>2. \A d \in Clients : act[d].op # "switch"
    BY <1>0, <1>a, <2>1 DEF SwitchLocked, CallFits
  <2> QED
    BY <1>0, <1>a, <2>1, <2>2, Ended
<1>6. CASE Shutdown
  BY <1>0, <1>1, <1>6, ShutDown DEF Shutdown, CloseServer
<1>7. ASSUME NEW m \in Models, Publish(m) PROVE SwitchedIsReady'
  BY <1>0, <1>7, <1>a DEF Publish, RestTyped
<1>8. CASE (\E p \in Procs : Exit(p) \/ Wait(p)) \/ UNCHANGED vars
  BY <1>2, <1>8 DEF Exit, Wait, vars
<1> QED
  BY <1>3, <1>4, <1>5, <1>6, <1>7, <1>8 DEF Next

\* What a deletion, which holds the lock, compares with is what the process serves.
LEMMA Deleted ==
    ASSUME IInv, NEW c \in Clients, GuardModelDeletion(c), sup.status \in {"starting", "running"}
    PROVE  /\ sw.path = proc[sup.cmd].path
           /\ sw.active = IF proc[sup.cmd].via = "switch" THEN sw.path ELSE None
<1>1. sw.mu = None /\ \A d \in Clients : d # None
  BY RuntimeAssumption DEF GuardModelDeletion, Actors
<1>2. ~\E d \in Clients : Launching(d)
  BY <1>1 DEF IInv, SwitchLocked, Launching
<1> QED
  BY <1>2 DEF IInv, AssociationHolds

\* The model of what is coming up or running by a switch is in the registry.
LEMMA ServedModelExistsStep == ASSUME IInv, [Next]_vars PROVE ServedModelExists'
<1>0. /\ CallsTyped /\ ProcsTyped /\ RestTyped /\ OneProcess /\ SwitchLocked /\ SwitchedIsReady /\ ServedModelExists
      /\ \A a \in Actors : CallFits(a)
  BY TypeParts DEF IInv
<1> USE DEF ServedModelExists
<1>1. ASSUME NEW a \in Actors, Spawn(a) PROVE ServedModelExists'
  BY <1>0, <1>1, Spawned DEF SwitchedIsReady
<1>2. CASE ~\E a \in Actors : Spawn(a)
  <2>1. /\ proc'[sup'.cmd].path = proc[sup.cmd].path /\ proc'[sup'.cmd].via = proc[sup.cmd].via
        /\ sup.status \in {"starting", "running"}
        \/ sup'.status \notin {"starting", "running"}
    BY <1>2, ProcessKept
  <2>2. CASE model' = model
    BY <1>0, <2>1, <2>2
  <2>3. ASSUME NEW m \in Models, Publish(m) PROVE ServedModelExists'
    BY <1>0, <2>1, <2>3 DEF Publish, RestTyped
  <2>4. ASSUME NEW c \in Clients, GuardModelDeletion(c) PROVE ServedModelExists'
    <3> SUFFICES ASSUME sup'.status \in {"starting", "running"}, proc'[sup'.cmd].via = "switch"
                 PROVE  model'[proc'[sup'.cmd].path] = "ready"
      OBVIOUS
    <3>1. sw.active = proc[sup.cmd].path /\ sup.status \in Up /\ model[sw.active] = "ready"
      BY <1>0, <2>1, <2>4, Deleted DEF Up
    <3>2. model' = [model EXCEPT ![act[c].target] = IF @ = "ready" /\ ~InUse(c) THEN "deleted" ELSE @]
      BY <2>4 DEF GuardModelDeletion, Delete
    <3>3. c \in Actors /\ act[c].target \in Models
      BY <1>0, <2>4 DEF GuardModelDeletion, Delete, At, CallFits, Actors
    <3>4. act[c].target = sw.active => InUse(c)
      BY <3>1 DEF InUse
    <3>5. model'[sw.active] = model[sw.active]
      BY <1>0, <3>2, <3>3, <3>4 DEF RestTyped
    <3> QED
      BY <2>1, <3>1, <3>5
  <2>5. CASE \E c \in Clients : Call(c)
    BY <2>2, <2>5 DEF Call, Switch, Enter, ReadModel, Begin, Active
  <2>6. CASE \E a \in Actors : Step(a) \/ StopCanceled(a)
    BY <1>2, <2>2, <2>6
       DEF Step, RejectRestart, Healthy, NotReady, StartFails, StopIdle, StopDone, StopKillOver, StopEnds,
           StopCanceled, StopBegin, StopTerm, StopGraceOver, Ready, Check, Return
  <2>7. CASE Shutdown \/ UNCHANGED vars \/ \E p \in Procs : Exit(p) \/ Wait(p)
    BY <2>2, <2>7 DEF Shutdown, CloseServer, vars, Exit, Wait
  <2> QED
    BY <2>3, <2>4, <2>5, <2>6, <2>7 DEF Next
<1> QED
  BY <1>1, <1>2

-----------------------------------------------------------------------------
(* The theorems *)

\* No call and no process.
LEMMA InitIInv == ASSUME Init PROVE IInv
<1> USE DEF Init, Idle
<1>1. TypeOK
  BY RuntimeAssumption DEF TypeOK, Position, Up, Actors
<1>2. OneProcess /\ NoProcessIsLeftTermed /\ StoppingIsTermed
  BY DEF OneProcess, Unreaped, Up, NoProcessIsLeftTermed, StoppingIsTermed
<1>3. \A a \in Actors : CallFits(a) /\ StopsOwn(a)
  BY DEF CallFits, StopsOwn
<1>4. SwitchLocked /\ OpLocked
  BY RuntimeAssumption DEF SwitchLocked, OpLocked, HoldsOp, Actors
<1>5. StoppedIsDown /\ LaunchIsOwn /\ AssociationHolds /\ SwitchedIsReady /\ ServedModelExists
  BY DEF StoppedIsDown, LaunchIsOwn, AssociationHolds, ServedModelExists, SwitchedIsReady, Up, Actors
<1> QED
  BY <1>1, <1>2, <1>3, <1>4, <1>5 DEF IInv

\* The invariant holds in every state of every run of the supervisor, the switch
\* service, deletions and the shutdown (supervisor.go, methods.go, app.go).
THEOREM Inductive == Spec => []IInv
<1>1. ASSUME IInv, [Next]_vars PROVE IInv'
  BY <1>1, TypeStep, OneProcessStep, SignalStep, CallFitsStep, StopsOwnStep, SwitchLockedStep, OpLockedStep,
     StoppedIsDownStep, LaunchIsOwnStep, AssociationHoldsStep, SwitchedIsReadyStep, ServedModelExistsStep
     DEF IInv
<1> QED
  BY <1>1, InitIInv, PTL DEF Spec

\* Every variable keeps its type.
THEOREM TypeCorrect == Spec => []TypeOK
BY Inductive, PTL DEF IInv

\* There is at most one vLLM process, and the supervisor's status and cmd tell of it,
\* after any sequence of starts, restarts and stops given up (supervisor.go:106-356).
THEOREM OneProcessHolds == Spec => []OneProcess
BY Inductive, PTL DEF IInv

\* No caller of a stop leaves behind a process that was only asked to terminate
\* (supervisor.go:322-356).
THEOREM NoProcessIsLeftTermedHolds == Spec => []NoProcessIsLeftTermed
BY Inductive, PTL DEF IInv

\* The model of what runs by a switch is in the registry and ready, whatever
\* deletions were under way (supervisor.go:506-521).
THEOREM ServedModelExistsHolds == Spec => []ServedModelExists
BY Inductive, PTL DEF IInv

\* The model that runtime.status reports as active is the one the process was
\* started on by runtime.switch (supervisor.go:452-504).
THEOREM ActiveIsServedHolds == Spec => []ActiveIsServed
<1>1. ASSUME IInv PROVE ActiveIsServed
  <2>1. \A c \in Clients : c # None
    BY RuntimeAssumption DEF Actors
  <2>2. sw.mu = None => ~\E c \in Clients : Launching(c)
    BY <1>1, <2>1 DEF IInv, SwitchLocked, Launching
  <2> QED
    BY <1>1, <2>2 DEF IInv, AssociationHolds, ActiveIsServed
<1> QED
  BY <1>1, Inductive, PTL

-----------------------------------------------------------------------------
(* Deletions *)

\* A model published before the run began is seen with its path.
SeenPublished ==
    /\ \A m \in Models \ Fresh : model[m] # "downloading"
    /\ \A a \in Actors : At(a, "guard") /\ act[a].target \notin Fresh => act[a].saw

\* A deletion that saw a published model keeps having seen one.
LEMMA SeenPublishedStep ==
    ASSUME IInv, SeenPublished, [Next]_vars PROVE SeenPublished'
<1> USE DEF SeenPublished, At, Goto
<1>0. CallsTyped /\ RestTyped /\ (\A a \in Actors : CallFits(a)) /\ SeenPublished
  BY TypeParts DEF IInv
<1>a. App \in Actors /\ App \notin Clients /\ Clients \subseteq Actors
  BY RuntimeAssumption DEF Actors
<1>1. ASSUME \A m \in Models : model'[m] = "downloading" => model[m] = "downloading", UNCHANGED act
      PROVE  SeenPublished'
  BY <1>0, <1>1
<1>2. ASSUME \A m \in Models : model'[m] = "downloading" => model[m] = "downloading",
             NEW a \in Actors, \A b \in Actors \ {a} : act'[b] = act[b],
             act'[a].pc # "guard" \/ (act'[a].target \notin Fresh => act'[a].saw)
      PROVE  SeenPublished'
  BY <1>0, <1>2, <1>a
<1>3. ASSUME NEW c \in Clients, Call(c) PROVE SeenPublished'
  <2>1. ASSUME NEW s \in {"start", "stop"}, NEW o, NEW t, Enter(c, o, t, s) PROVE SeenPublished'
    <3>1. act'[c].pc = s /\ \A b \in Actors \ {c} : act'[b] = act[b]
      BY <1>0, <2>1, Entered
    <3> QED
      BY <1>2, <1>a, <2>1, <3>1 DEF Enter
  <2>2. ASSUME NEW m \in Models, ReadModel(c, m) PROVE SeenPublished'
    <3>1. act'[c].target = m /\ (act'[c].saw <=> model[m] = "ready") /\ \A b \in Actors \ {c} : act'[b] = act[b]
      BY <1>0, <2>2, ReadsModel
    <3>2. model' = model /\ model[m] # "deleted"
      BY <2>2 DEF ReadModel
    <3>3. m \notin Fresh => act'[c].saw
      BY <1>0, <3>1, <3>2 DEF RestTyped
    <3> QED
      BY <1>2, <1>a, <3>1, <3>2, <3>3
  <2> QED
    BY <1>1, <1>3, <2>1, <2>2 DEF Call, Switch, Begin, Active
<1>4. ASSUME NEW a \in Actors, NEW s, EndCall(a, s),
             \A m \in Models : model'[m] = "downloading" => model[m] = "downloading"
      PROVE  SeenPublished'
  <2>1. act'[a].pc # "guard" /\ \A b \in Actors \ {a} : act'[b] = act[b]
    BY <1>0, <1>4, Ended
  <2> QED
    BY <1>2, <1>4, <2>1 DEF EndCall
<1>5. ASSUME NEW a \in Actors, Step(a) \/ StopCanceled(a) PROVE SeenPublished'
  <2>1. CASE StopIdle(a) \/ StopDone(a) \/ StopKillOver(a) \/ StopCanceled(a)
    <3>1. model' = model /\ \E good \in BOOLEAN : StopEnds(a, good)
      BY <2>1 DEF StopIdle, StopDone, StopKillOver, StopCanceled, StopEnds
    <3>2. act'[a].pc # "guard" /\ \A b \in Actors \ {a} : act'[b] = act[b]
      BY <1>0, <3>1, StopEnded
    <3> QED
      BY <1>2, <3>1, <3>2
  <2>2. CASE RejectRestart(a) \/ StopBegin(a) \/ StopTerm(a) \/ StopGraceOver(a)
    BY <1>0, <1>2, <2>2 DEF RejectRestart, StopBegin, StopTerm, StopGraceOver, CallsTyped, CallType
  <2>3. CASE StartFails(a) \/ Healthy(a) \/ NotReady(a) \/ Ready(a)
    BY <1>0, <1>2, <2>3 DEF StartFails, Healthy, NotReady, Ready, CallsTyped, CallType
  <2>4. CASE Check(a)
    <3>1. act[a].pc = "check" /\ act'[a].pc = "ret" /\ \A b \in Actors \ {a} : act'[b] = act[b]
      BY <1>0, <2>4, Checked
    <3> QED
      BY <1>2, <2>4, <3>1 DEF Check
  <2>5. CASE Spawn(a)
    BY <1>2, <2>5, Spawned DEF Spawn, Launch
  <2>6. CASE Return(a)
    BY <1>4, <2>6 DEF Return
  <2> QED
    BY <1>5, <2>1, <2>2, <2>3, <2>4, <2>5, <2>6 DEF Step
<1>6. ASSUME NEW c \in Clients, GuardModelDeletion(c) PROVE SeenPublished'
  <2>1. \A m \in Models : model'[m] = "downloading" => model[m] = "downloading"
    BY <1>0, <1>6 DEF GuardModelDeletion, Delete, RestTyped
  <2> QED
    BY <1>4, <1>6, <1>a, <2>1 DEF GuardModelDeletion, Delete
<1>7. CASE Shutdown
  <2>1. model' = model
    BY <1>7 DEF Shutdown, CloseServer
  <2> QED
    BY <1>0, <1>7, <2>1, ShutDown
<1>8. ASSUME NEW m \in Models, Publish(m) PROVE SeenPublished'
  BY <1>0, <1>1, <1>8 DEF Publish, RestTyped
<1>9. CASE (\E p \in Procs : Exit(p) \/ Wait(p)) \/ UNCHANGED vars
  BY <1>1, <1>9 DEF Exit, Wait, vars
<1> QED
  BY <1>3, <1>5, <1>6, <1>7, <1>8, <1>9 DEF Next

\* Only the guarded deletion removes a model.
LEMMA OnlyGuardDeletes ==
    ASSUME IInv, [Next]_vars, NEW m \in Models, model[m] = "ready", model'[m] = "deleted"
    PROVE  \E c \in Clients : GuardModelDeletion(c) /\ act[c].target = m /\ ~InUse(c)
<1>0. RestTyped /\ \A a \in Actors : CallFits(a)
  BY TypeParts DEF IInv
<1>1. model' # model
  OBVIOUS
<1>2. ~\E c \in Clients : Call(c)
  BY <1>1 DEF Call, Switch, Enter, ReadModel, Begin, Active
<1>3. ~\E a \in Actors : Step(a) \/ StopCanceled(a)
  BY <1>1 DEF Step, RejectRestart, Healthy, NotReady, StartFails, StopIdle, StopDone, StopKillOver, StopEnds,
       StopCanceled, StopBegin, StopTerm, StopGraceOver, Ready, Check, Return, Spawn, Launch
<1>4. ~(Shutdown \/ UNCHANGED vars \/ \E p \in Procs : Exit(p) \/ Wait(p))
  BY <1>1 DEF Shutdown, CloseServer, vars, Exit, Wait
<1>5. ~\E n \in Models : Publish(n)
  BY <1>0 DEF Publish, RestTyped
<1>6. PICK c \in Clients : GuardModelDeletion(c)
  BY <1>2, <1>3, <1>4, <1>5 DEF Next
<1>7. model' = [model EXCEPT ![act[c].target] = IF @ = "ready" /\ ~InUse(c) THEN "deleted" ELSE @]
  BY <1>6 DEF GuardModelDeletion, Delete
<1> QED
  BY <1>0, <1>6, <1>7 DEF RestTyped

\* A deletion takes the files from under no process, up or being stopped, that has
\* not been killed: a stop of a handler holds the lock of the switch service until it
\* has sent SIGKILL, and a process that is up is the one the association tells of.
LEMMA DeletionSpares ==
    ASSUME IInv, SeenPublished, [Next]_vars, NEW m \in Models \ Fresh,
           model[m] = "ready", model'[m] = "deleted", ~ShutdownStops, NEW p \in Live
    PROVE  proc[p].path # m
<1>0. RestTyped /\ OneProcess /\ p \in Procs /\ proc[p].st \in {"alive", "termed"}
  BY TypeParts DEF IInv, Live
<1>1. PICK c \in Clients : GuardModelDeletion(c) /\ act[c].target = m /\ ~InUse(c)
  BY OnlyGuardDeletes
<1>2. sup.cmd = p /\ sup.status \in Up
  BY <1>0 DEF OneProcess, Unreaped
<1>3. \A a \in Actors : ~At(a, "term") /\ ~At(a, "grace")
  <2>1. \A d \in Clients : act[d].pc \in {"idle", "guard"}
    BY <1>1, RuntimeAssumption DEF GuardModelDeletion, IInv, SwitchLocked, Actors
  <2> QED
    BY <2>1 DEF Actors, At, ShutdownStops
<1>4. proc[p].st = "alive" /\ sup.status # "stopping"
  BY <1>0, <1>3 DEF IInv, NoProcessIsLeftTermed, StoppingIsTermed
<1>5. sw.path = proc[p].path
  BY <1>1, <1>2, <1>4, Deleted DEF Up
<1>6. act[c].saw
  BY <1>1 DEF SeenPublished, GuardModelDeletion, Delete, Actors
<1> QED
  BY <1>1, <1>2, <1>5, <1>6 DEF InUse

\* A deletion of a model whose path was published before the run takes the files from
\* under no process that was started with that path as the row has it and was not
\* killed, before, during and after an expired shutdown, but for the moment in which
\* the shutdown itself stops the process (supervisor.go:485-521, methods.go:60-71).
THEOREM PublishedAreSpared ==
    Spec => [][\A m \in Models \ Fresh :
                  model[m] = "ready" /\ model'[m] = "deleted" /\ ~ShutdownStops =>
                      \A p \in Live : proc[p].path # m]_vars
<1>1. Init => SeenPublished
  BY DEF Init, SeenPublished, At, Idle, Actors
<1>2. Spec => [](IInv /\ SeenPublished)
  BY <1>1, Inductive, SeenPublishedStep, PTL DEF Spec
<1>3. ASSUME IInv, SeenPublished, [Next]_vars
      PROVE  [\A m \in Models \ Fresh :
                  model[m] = "ready" /\ model'[m] = "deleted" /\ ~ShutdownStops =>
                      \A p \in Live : proc[p].path # m]_vars
  BY <1>3, DeletionSpares
<1> QED
  BY <1>2, <1>3, PTL DEF Spec

\* Where no download ends while a deletion is under way, every deletion spares the
\* process that was started with the model's path, within the same limits; run
\* runtime_stale_path shows what happens where one does end.
THEOREM DeletionSparesLiveHolds == Fresh = {} => (Spec => DeletionSparesLive)
<1> SUFFICES ASSUME Fresh = {} PROVE Spec => DeletionSparesLive
  OBVIOUS
<1> DEFINE Spares(M) == \A m \in M :
              model[m] = "ready" /\ model'[m] = "deleted" /\ ~ShutdownStops =>
                  \A p \in Live : proc[p].path # m
<1>1. [Spares(Models \ Fresh)]_vars => [Spares(Models)]_vars
  OBVIOUS
<1> QED
  BY <1>1, PublishedAreSpared, PTL DEF DeletionSparesLive
=============================================================================
