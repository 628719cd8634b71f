------------------------------- MODULE Runtime -------------------------------
(***************************************************************************)
(* The vLLM supervisor and the switch service in front of it               *)
(* (ability/ability_runtime/supervisor.go), with the deletion of models    *)
(* that the switch service guards (ability/ability_model/methods.go) and   *)
(* the service's shutdown, which stops the supervisor without going        *)
(* through the switch service (app/app.go).                                *)
(*                                                                         *)
(* An actor is a request handler, or the shutdown.  It holds SwitchService.*)
(* mu (`sw.mu`) for a whole call and Supervisor.opMu for a start, a stop   *)
(* or a restart; every section of Supervisor.mu is one action.  A request's*)
(* context may be canceled, and a timer may fire, at any time.             *)
(***************************************************************************)
EXTENDS Naturals, FiniteSets

CONSTANTS
    Clients,    \* concurrent request handlers
    App,        \* the shutdown
    Models,     \* registered models; a model's id also stands for its path's text
    Fresh,      \* those whose download has not published a path yet
    Others,     \* other texts that a runtime may be started with, wherever they lead
    Procs,      \* vLLM processes that may be started in a run: a bound
    None

Actors == Clients \cup {App}

ASSUME RuntimeAssumption ==
    /\ App \notin Clients
    /\ Fresh \subseteq Models
    /\ Others \cap Models = {}
    /\ None \notin Models \cup Others \cup Procs \cup Actors

VARIABLES
    model,      \* status of a model's registry row
    proc,       \* the processes: state, path and call each was started with
    sup,        \* Supervisor: state.Status and cmd
    sw,         \* SwitchService: the holder of mu, active and modelPath
    opMu,       \* holder of Supervisor.opMu
    closing,    \* whether the HTTP server was shut down, and how that ended
    act         \* what each actor is doing

vars == <<model, proc, sup, sw, opMu, closing, act>>

Up == {"starting", "running", "stopping"}

\* What an actor keeps: its position and operation, the model or path it is for
\* (target), the process its start or stop is about (on), whether the path that it
\* read was not empty (saw), whether its stop cleans up a launch that never became
\* ready, and whether its call succeeds.
Idle == [pc |-> "idle", op |-> "none", target |-> None, on |-> None,
         saw |-> FALSE, cleaning |-> FALSE, ok |-> FALSE]

Position == {"idle", "guard", "stop", "term", "grace", "kill", "start",
             "poll", "ready", "check", "ret", "over"}

\* A process is "gone" when its leader exited and wait has not published it.
Unreaped == {p \in Procs : proc[p].st \in {"alive", "termed", "killed", "gone"}}

TypeOK ==
    /\ model \in [Models -> {"downloading", "ready", "deleted"}]
    /\ proc \in [Procs -> [st : {"unused", "alive", "termed", "killed", "gone", "reaped"},
                           path : Models \cup Others \cup {None},
                           via : {"none", "switch", "start", "restart"}]]
    /\ sup \in [status : Up \cup {"stopped", "failed"}, cmd : Procs \cup {None}]
    /\ sw \in [mu : Clients \cup {None}, active : Models \cup {None},
               path : Models \cup Others \cup {None}]
    /\ opMu \in Actors \cup {None}
    /\ closing \in {"no", "drained", "expired"}
    /\ act \in [Actors -> [pc : Position,
                           op : {"none", "switch", "start", "restart", "stop", "delete"},
                           target : Models \cup Others \cup {None}, on : Procs \cup {None},
                           saw : BOOLEAN, cleaning : BOOLEAN, ok : BOOLEAN]]

Init ==
    /\ model = [m \in Models |-> IF m \in Fresh THEN "downloading" ELSE "ready"]
    /\ proc = [p \in Procs |-> [st |-> "unused", path |-> None, via |-> "none"]]
    /\ sup = [status |-> "stopped", cmd |-> None]
    /\ sw = [mu |-> None, active |-> None, path |-> None]
    /\ opMu = None
    /\ closing = "no"
    /\ act = [a \in Actors |-> Idle]

At(a, s) == act[a].pc = s

Goto(a, s) == act' = [act EXCEPT ![a].pc = s]

-----------------------------------------------------------------------------
(* Calls of the switch service *)

\* A handler takes SwitchService.mu and begins operation o for t.  An idle one may
\* stand for a handler that waits for mu, and gets it after the shutdown's deadline
\* as well; only where every handler has returned there is none.
Enter(c, o, t, s) ==
    /\ At(c, "idle") /\ closing # "drained" /\ sw.mu = None
    /\ act' = [act EXCEPT ![c] = [Idle EXCEPT !.pc = s, !.op = o, !.target = t]]
    /\ UNCHANGED <<model, proc, sup, opMu, closing>>

\* ResolveRuntimeModel: the row says ready, and its directory is at its place.
Resolved(m) == model[m] = "ready"

\* Switch: the model must be ready; a runtime that is up is stopped first.
Switch(c, m) ==
    /\ Resolved(m)
    /\ IF sup.status \in Up
       THEN Enter(c, "switch", m, "stop") /\ sw' = [sw EXCEPT !.mu = c]
       ELSE Enter(c, "switch", m, "start") /\ sw' = [mu |-> c, active |-> None, path |-> None]

\* A direct start, a restart and a stop.
Begin(c, o, t) ==
    /\ Enter(c, o, t, IF o = "start" THEN "start" ELSE "stop")
    /\ sw' = [sw EXCEPT !.mu = c]

\* Active, through which reading the status drops an association that ended.
Active(c) ==
    /\ At(c, "idle") /\ closing # "drained" /\ sw.mu = None
    /\ sup.status \notin {"starting", "running"}
    /\ sw' = [sw EXCEPT !.active = None, !.path = None]
    /\ UNCHANGED <<model, proc, sup, opMu, closing, act>>

\* The <<active, modelPath>> that a's call leaves, given those it found.
Association(a) ==
    LET x == act[a] IN
    IF x.ok THEN CASE x.op = "switch" -> <<x.target, x.target>>
                   [] x.op \in {"start", "restart"} -> <<None, x.target>>
                   [] x.op = "stop" -> <<None, None>>
    ELSE IF x.op = "restart" /\ sup.status \notin {"starting", "running"} THEN <<None, None>>
    ELSE <<sw.active, sw.path>>

\* The call ends; SwitchService.mu is released when a holds it.
EndCall(a, association) ==
    /\ act' = [act EXCEPT ![a] = [Idle EXCEPT !.pc = IF a = App THEN "over" ELSE "idle"]]
    /\ sw' = [mu |-> IF sw.mu = a THEN None ELSE sw.mu,
              active |-> association[1], path |-> association[2]]
    /\ UNCHANGED <<proc, sup, opMu, closing>>

\* Wrong on purpose: a direct start leaves the association of the last switch.
ReturnKeepsActive(a) ==
    /\ At(a, "ret")
    /\ EndCall(a, IF a = App \/ act[a].op = "start" THEN <<sw.active, sw.path>>
                  ELSE Association(a))
    /\ UNCHANGED model

Return(a) ==
    /\ At(a, "ret")
    /\ EndCall(a, IF a = App THEN <<sw.active, sw.path>> ELSE Association(a))
    /\ UNCHANGED model

-----------------------------------------------------------------------------
(* Deletion of a model *)

\* The handler reads the model's row, without a lock: the path it will compare.
ReadModel(c, m) ==
    /\ At(c, "idle") /\ closing # "drained"
    /\ model[m] # "deleted"
    /\ act' = [act EXCEPT ![c] = [Idle EXCEPT !.pc = "guard", !.op = "delete", !.target = m,
                                              !.saw = model[m] = "ready"]]
    /\ UNCHANGED <<model, proc, sup, sw, opMu, closing>>

\* Wrong on purpose: only the registered id is compared.
InUseById(c) == sup.status \in Up /\ sw.active = act[c].target

\* The runtime is up and serves the model by id, or was given the text of the path
\* that was read: another text that leads to the same directory is not recognised.
InUse(c) ==
    /\ sup.status \in Up
    /\ \/ sw.active = act[c].target
       \/ act[c].saw /\ sw.path = act[c].target

\* Registry.Delete, which reads the row again, unless the model is in use.
Delete(c) ==
    /\ At(c, "guard")
    /\ model' = [model EXCEPT ![act[c].target] =
                    IF @ = "ready" /\ ~InUse(c) THEN "deleted" ELSE @]
    /\ EndCall(c, <<sw.active, sw.path>>)

\* Wrong on purpose: the check is made without the lock of the lifecycle.
GuardModelDeletionUnlocked(c) == Delete(c)

\* The deletion runs with SwitchService.mu held from the check to its end.
GuardModelDeletion(c) == sw.mu = None /\ Delete(c)

\* A download ends and publishes the model and its path.
Publish(m) ==
    /\ model[m] = "downloading"
    /\ model' = [model EXCEPT ![m] = "ready"]
    /\ UNCHANGED <<proc, sup, sw, opMu, closing, act>>

-----------------------------------------------------------------------------
(* Supervisor.stop, and the stop that begins a restart or a switch *)

\* The stop of a's call is over; what follows depends on the call.
StopEnds(a, good) ==
    LET goesOn == good /\ ~act[a].cleaning /\ act[a].op \in {"switch", "restart"}
    IN  /\ act' = [act EXCEPT ![a].pc = IF goesOn THEN "start" ELSE "ret",
                              ![a].ok = good /\ ~act[a].cleaning]
        /\ opMu' = IF goesOn /\ act[a].op = "restart" THEN a ELSE None
        /\ sw' = IF goesOn /\ act[a].op = "switch"
                 THEN [sw EXCEPT !.active = None, !.path = None] ELSE sw
        /\ UNCHANGED <<model, sup, closing>>

\* The options of a restart are validated before anything is stopped.
RejectRestart(a) ==
    /\ At(a, "stop") /\ act[a].op = "restart" /\ opMu # a
    /\ Goto(a, "ret")
    /\ UNCHANGED <<model, proc, sup, sw, opMu, closing>>

StopIdle(a) ==
    /\ At(a, "stop") /\ opMu \in {None, a}
    /\ sup.cmd = None
    /\ StopEnds(a, TRUE)
    /\ UNCHANGED proc

StopBegin(a) ==
    /\ At(a, "stop") /\ opMu \in {None, a}
    /\ sup.cmd # None
    /\ opMu' = a
    /\ sup' = [sup EXCEPT !.status = "stopping"]
    /\ act' = [act EXCEPT ![a].pc = "term", ![a].on = sup.cmd]
    /\ UNCHANGED <<model, proc, sw, closing>>

\* A signal to the process group; it means nothing to a leader that is gone.
Signal(p, s) == proc' = [proc EXCEPT ![p].st = IF @ \in {"alive", "termed"} THEN s ELSE @]

StopTerm(a) ==
    /\ At(a, "term")
    /\ Signal(act[a].on, "termed")
    /\ Goto(a, "grace")
    /\ UNCHANGED <<model, sup, sw, opMu, closing>>

StopDone(a) ==
    /\ At(a, "grace") \/ At(a, "kill")
    /\ proc[act[a].on].st = "reaped"
    /\ StopEnds(a, TRUE)
    /\ UNCHANGED proc

\* Wrong on purpose: a stop that its caller gives up leaves the process alone.
StopCanceledQuietly(a) ==
    /\ At(a, "grace") \/ At(a, "kill")
    /\ StopEnds(a, FALSE)
    /\ UNCHANGED proc

StopCanceled(a) ==
    /\ At(a, "grace") \/ At(a, "kill")
    /\ IF At(a, "grace") THEN Signal(act[a].on, "killed") ELSE UNCHANGED proc
    /\ StopEnds(a, FALSE)

StopGraceOver(a) ==
    /\ At(a, "grace")
    /\ Signal(act[a].on, "killed")
    /\ Goto(a, "kill")
    /\ UNCHANGED <<model, sup, sw, opMu, closing>>

\* Wrong on purpose: the wait after SIGKILL has no limit of its own.
StopKillWaits(a) == FALSE

StopKillOver(a) ==
    /\ At(a, "kill")
    /\ StopEnds(a, FALSE)
    /\ UNCHANGED proc

-----------------------------------------------------------------------------
(* Supervisor.start *)

StartFails(a) ==
    /\ At(a, "start") /\ opMu \in {None, a}
    /\ opMu' = None
    /\ act' = [act EXCEPT ![a].pc = "ret", ![a].ok = FALSE]
    /\ UNCHANGED <<model, proc, sup, sw, closing>>

Launch(a) ==
    /\ At(a, "start") /\ opMu \in {None, a}
    /\ opMu' = a
    /\ \E p \in Procs :
          /\ proc[p].st = "unused"
          /\ proc' = [proc EXCEPT ![p] =
                        [st |-> "alive", path |-> act[a].target, via |-> act[a].op]]
          /\ sup' = [status |-> "starting", cmd |-> p]
          /\ act' = [act EXCEPT ![a].pc = "poll", ![a].on = p]
    /\ UNCHANGED <<model, sw, closing>>

\* Wrong on purpose: only a runtime that is ready counts as active.
SpawnUnlessRunning(a) == sup.status # "running" /\ Launch(a)

Spawn(a) == sup.status \notin Up /\ Launch(a)

\* Whoever answers on the port.
Healthy(a) ==
    /\ At(a, "poll")
    /\ Goto(a, "ready")
    /\ UNCHANGED <<model, proc, sup, sw, opMu, closing>>

\* The process ended, or the readiness timeout or the caller ends the wait.
NotReady(a) ==
    /\ At(a, "poll")
    /\ act' = [act EXCEPT ![a].pc = "stop", ![a].cleaning = TRUE]
    /\ UNCHANGED <<model, proc, sup, sw, opMu, closing>>

Ready(a) ==
    /\ At(a, "ready")
    /\ sup' = IF sup.cmd = act[a].on /\ sup.status = "starting"
              THEN [sup EXCEPT !.status = "running"] ELSE sup
    /\ Goto(a, "check")
    /\ UNCHANGED <<model, proc, sw, opMu, closing>>

Check(a) ==
    /\ At(a, "check")
    /\ act' = [act EXCEPT ![a].pc = "ret", ![a].ok = sup.status = "running"]
    /\ opMu' = None
    /\ UNCHANGED <<model, proc, sup, sw, closing>>

-----------------------------------------------------------------------------
(* The process and the goroutine that waits for it; the shutdown *)

Exit(p) ==
    /\ proc[p].st \in {"alive", "termed", "killed"}
    /\ proc' = [proc EXCEPT ![p].st = "gone"]
    /\ UNCHANGED <<model, sup, sw, opMu, closing, act>>

\* wait: an end that nobody asked for is a failure when the exit was not clean.
Wait(p) ==
    /\ proc[p].st = "gone"
    /\ proc' = [proc EXCEPT ![p].st = "reaped"]
    /\ \/ sup.cmd # p /\ UNCHANGED sup
       \/ sup.cmd = p /\ sup' = [status |-> "stopped", cmd |-> None]
       \/ sup.cmd = p /\ sup.status # "stopping" /\ sup' = [status |-> "failed", cmd |-> None]
    /\ UNCHANGED <<model, sw, opMu, closing, act>>

\* The HTTP server's shutdown has ended: every handler returned, or the deadline
\* passed beside one that runs or waits, and then every wait of the stop that
\* follows is over at once.
CloseServer ==
    /\ At(App, "idle")
    /\ closing' \in {"drained", "expired"}
    /\ closing' = "drained" => \A c \in Clients : At(c, "idle")
    /\ act' = [act EXCEPT ![App].pc = "stop", ![App].op = "stop"]
    /\ UNCHANGED <<model, proc, sup, opMu>>

\* Wrong on purpose: the shutdown stops the runtime through the switch service,
\* whose lock a stuck handler may hold.
ShutdownThroughSwitch == sw.mu = None /\ CloseServer /\ sw' = [sw EXCEPT !.mu = App]

Shutdown == CloseServer /\ UNCHANGED sw

-----------------------------------------------------------------------------

Call(c) ==
    \/ \E m \in Models : Switch(c, m) \/ ReadModel(c, m)
    \/ \E o \in {"start", "restart"}, t \in Models \cup Others : Begin(c, o, t)
    \/ Begin(c, "stop", None)
    \/ Active(c)

\* What an actor does next without its context being canceled.
Step(a) ==
    \/ RejectRestart(a) \/ StopIdle(a) \/ StopBegin(a) \/ StopTerm(a) \/ StopDone(a)
    \/ StopGraceOver(a) \/ StopKillOver(a)
    \/ StartFails(a) \/ Spawn(a) \/ Healthy(a) \/ NotReady(a)
    \/ Ready(a) \/ Check(a) \/ Return(a)

Next ==
    \/ \E c \in Clients : Call(c) \/ GuardModelDeletion(c)
    \/ \E a \in Actors : Step(a) \/ StopCanceled(a)
    \/ \E p \in Procs : Exit(p) \/ Wait(p)
    \/ \E m \in Models : Publish(m)
    \/ Shutdown

Spec == Init /\ [][Next]_vars

\* Handlers keep running and their timers fire.  A goroutine that waits for a lock
\* gets it (a Go mutex does not starve), however many others take it meanwhile: so
\* a deletion is strongly fair, and so is the first step of the shutdown's stop.
\* Nothing is assumed of vLLM processes, of their being reaped, or of cancelation.
FairSpec ==
    /\ Spec
    /\ \A a \in Actors : WF_vars(Step(a))
    /\ \A c \in Clients : SF_vars(GuardModelDeletion(c))
    /\ SF_vars(StopIdle(App) \/ StopBegin(App))

-----------------------------------------------------------------------------
(* Properties *)

\* There is at most one vLLM process that has not been reaped, the supervisor
\* owns it, and its status says that there is one exactly while there is, after
\* any sequence of starts, stops given up and restarts (supervisor.go:106-109,
\* 296-311).
OneProcess ==
    /\ Unreaped = IF sup.cmd = None THEN {} ELSE {sup.cmd}
    /\ sup.status \in Up <=> sup.cmd # None

\* The model id that runtime.status reports was started by runtime.switch, and
\* is what the process serves: a direct start or a restart never inherits the
\* association of an earlier switch (supervisor.go:452-483).
ActiveIsServed ==
    (sw.mu = None /\ sw.active # None /\ sup.status \in {"starting", "running"})
        => proc[sup.cmd].via = "switch" /\ proc[sup.cmd].path = sw.active

\* While a model started by runtime.switch is coming up or serving, its registry
\* row is there and ready, whatever deletions were under way (supervisor.go:506-521).
ServedModelExists ==
    (sup.status \in {"starting", "running"} /\ proc[sup.cmd].via = "switch")
        => model[proc[sup.cmd].path] = "ready"

\* A stop that has returned, even one that failed or was given up, has sent
\* SIGKILL to a process it did not see end: no caller leaves behind a process
\* that was only asked to terminate (supervisor.go:340-353).
NoProcessIsLeftTermed ==
    \A p \in Procs : proc[p].st = "termed"
        => \E a \in Actors : At(a, "grace") /\ act[a].on = p

\* Processes that were not killed, nor have ended.
Live == {p \in Procs : proc[p].st \in {"alive", "termed"}}

\* The shutdown has marked the process as stopping, and not killed it yet.
ShutdownStops == At(App, "term") \/ At(App, "grace")

\* Deleting a model never takes the files from under a process that was started
\* on it, by id or with the text of its path as the row has it, and that was not
\* killed.  The code keeps no more: another text that leads to the same directory
\* is not recognised, contrary to docs/api_description.md:34, and the shutdown,
\* which takes no lock of the switch service, may be stopping the process while a
\* handler drops the association (supervisor.go:485-521, app.go:176-190).
DeletionSparesLive ==
    [][\A m \in Models : model[m] = "ready" /\ model'[m] = "deleted" /\ ~ShutdownStops =>
          \A p \in Live : proc[p].path # m]_vars

\* Every call returns, without its context being canceled and whatever the
\* process does: one that ignores SIGTERM, that never becomes ready, or that
\* cannot be reaped delays a caller and never hangs it, nor the shutdown
\* (supervisor.go:188-217, 322-356).
CallsReturn ==
    \A a \in Actors :
        ~(At(a, "idle") \/ At(a, "over")) ~> (At(a, "idle") \/ At(a, "over"))
=============================================================================
