---------------------------- MODULE ContainerRun ----------------------------
(***************************************************************************)
(* runIsolatedContainer of containerExecutor.ts with the shim inside the   *)
(* container: three processes (the host's event loop, the Docker daemon    *)
(* with its clients, the container) that meet in a result file, an exit    *)
(* code and a kill timer.  A worker makes one call after the other.        *)
(***************************************************************************)
EXTENDS Naturals

CONSTANTS
    Calls,      \* calls of runIsolatedContainer; also the containers' names
    SlowStart,  \* may timeoutMs pass before the container runs? (cold start, pull)
    Oom         \* may the cgroup's memory limit kill the container?

ASSUME ContainerAssumption == SlowStart \in BOOLEAN /\ Oom \in BOOLEAN

VARIABLES
    host,       \* "up", or "crashed" by an uncaught exception
    call        \* call[c]: the state of one call

vars == <<host, call>>

\* `ctr` is the container, `code` its exit code, `shim` what runs in it, `file`
\* /output/result.json, `dir` whether workDir exists, `out` the outcome.
CallState == [pc    : {"idle", "running", "done"},
              timer : {"off", "armed", "fired"},
              kill  : {"none", "sent", "over"},
              ctr   : {"none", "up", "exited"},
              code  : {"none", "0", "1", "125", "137"},
              shim  : {"none", "handler", "writing", "finished"},
              file  : {"absent", "partial", "success", "error"},
              dir   : BOOLEAN,
              out   : {"none", "success", "error", "timeout"}]

NewCall == [pc |-> "idle", timer |-> "off", kill |-> "none", ctr |-> "none", code |-> "none",
            shim |-> "none", file |-> "absent", dir |-> FALSE, out |-> "none"]

Init == host = "up" /\ call = [c \in Calls |-> NewCall]

\* Call c goes on as the record s.
Set(c, s) == call' = [call EXCEPT ![c] = s]

-----------------------------------------------------------------------------
(* The host.                                                               *)

\* The scratch directory, spawn('docker', ['run', ...]) and the timer.
Begin(c) ==
    /\ host = "up"
    /\ call[c].pc = "idle"
    /\ \A d \in Calls : call[d].pc # "running"
    /\ Set(c, [call[c] EXCEPT !.pc = "running", !.timer = "armed", !.dir = TRUE])
    /\ UNCHANGED host

\* There is no docker binary: the child's 'error' event has no listener.
SpawnFails(c) ==
    /\ host = "up"
    /\ call[c].pc = "idle"
    /\ \A d \in Calls : call[d].pc # "running"
    /\ Set(c, [call[c] EXCEPT !.pc = "running", !.dir = TRUE])
    /\ host' = "crashed"

\* The timer fires: spawn('docker', ['kill', name]), whose result nobody looks at.
TimerFiresOnly(c) ==            \* faulty variant: no docker kill
    /\ host = "up" /\ call[c].timer = "armed"
    /\ SlowStart \/ call[c].ctr # "none"
    /\ Set(c, [call[c] EXCEPT !.timer = "fired"])
    /\ UNCHANGED host

TimerResolves(c) ==             \* faulty variant: the timer itself settles the promise
    /\ host = "up" /\ call[c].timer = "armed"
    /\ SlowStart \/ call[c].ctr # "none"
    /\ Set(c, [call[c] EXCEPT !.timer = "fired", !.kill = "sent", !.pc = "done", !.out = "timeout"])
    /\ UNCHANGED host

TimerFires(c) ==
    /\ host = "up" /\ call[c].timer = "armed"
    /\ SlowStart \/ call[c].ctr # "none"
    /\ Set(c, [call[c] EXCEPT !.timer = "fired", !.kill = "sent"])
    /\ UNCHANGED host

\* What the 'close' handler makes of a call whose result file it can parse or
\* does not find.
OutcomeByCode(s) ==             \* faulty variant: the exit code is looked at first
    IF s.code = "137" THEN "timeout" ELSE IF s.file # "absent" THEN s.file ELSE "error"

OutcomeNoFallback(s) ==         \* faulty variant: no error outcome without a result file
    IF s.file = "absent" /\ s.code = "137" THEN "timeout" ELSE s.file

Outcome(s) ==
    IF s.file # "absent" THEN s.file ELSE IF s.code = "137" THEN "timeout" ELSE "error"

\* The docker client's 'close' event: clear the timer, read the result file if it
\* exists (JSON.parse of a truncated one throws out of the event handler), settle,
\* remove the scratch directory.
Close(c) ==
    /\ host = "up"
    /\ call[c].pc = "running"
    /\ call[c].ctr = "exited"
    /\ LET s == [call[c] EXCEPT !.timer = IF @ = "armed" THEN "off" ELSE @] IN
       \/ /\ call[c].file = "partial"
          /\ host' = "crashed"
          /\ Set(c, s)
       \/ /\ call[c].file # "partial"
          /\ Set(c, [s EXCEPT !.pc = "done", !.dir = FALSE, !.out = Outcome(s)])
          /\ UNCHANGED host

-----------------------------------------------------------------------------
(* The Docker daemon.  The container of a crashed host runs on.            *)

\* docker run: the container starts, or is refused (no image, bad mount).
Start(c) ==
    /\ call[c].timer # "off"
    /\ call[c].ctr = "none"
    /\ \/ Set(c, [call[c] EXCEPT !.ctr = "up", !.shim = "handler"])
       \/ Set(c, [call[c] EXCEPT !.ctr = "exited", !.code = "125"])
    /\ UNCHANGED host

\* docker kill: SIGKILL to a running container of that name, else an error.
Kill(c) ==
    /\ call[c].kill = "sent"
    /\ \/ /\ call[c].ctr = "up"
          /\ Set(c, [call[c] EXCEPT !.kill = "over", !.ctr = "exited", !.code = "137"])
       \/ /\ call[c].ctr # "up"
          /\ Set(c, [call[c] EXCEPT !.kill = "over"])
    /\ UNCHANGED host

\* The memory limit of the cgroup.
OomKill(c) ==
    /\ Oom
    /\ call[c].ctr = "up"
    /\ Set(c, [call[c] EXCEPT !.ctr = "exited", !.code = "137"])
    /\ UNCHANGED host

-----------------------------------------------------------------------------
(* The shim (runtime/shim.js) in the container.  The handler may also hang. *)

\* The handler returns or throws; writeFileSync opens the file.
BeginWrite(c) ==
    /\ call[c].ctr = "up"
    /\ call[c].shim = "handler"
    /\ Set(c, [call[c] EXCEPT !.shim = "writing", !.file = "partial"])
    /\ UNCHANGED host

\* The result file is whole.
EndWrite(c, status) ==
    /\ call[c].ctr = "up"
    /\ call[c].shim = "writing"
    /\ Set(c, [call[c] EXCEPT !.shim = "finished", !.file = status])
    /\ UNCHANGED host

\* Node exits, unless the handler left a timer or a socket open.
ShimExits(c) ==
    /\ call[c].ctr = "up"
    /\ call[c].shim = "finished"
    /\ Set(c, [call[c] EXCEPT !.ctr = "exited", !.code = "0"])
    /\ UNCHANGED host

\* User code ends the process itself: no result file.
HandlerExits(c) ==
    /\ call[c].ctr = "up"
    /\ call[c].shim = "handler"
    /\ \E code \in {"0", "1"} : Set(c, [call[c] EXCEPT !.ctr = "exited", !.code = code])
    /\ UNCHANGED host

-----------------------------------------------------------------------------
HostStep(c) == Begin(c) \/ SpawnFails(c) \/ TimerFires(c) \/ Close(c)
DockerStep(c) == Start(c) \/ Kill(c) \/ OomKill(c)
ShimStep(c) ==
    \/ BeginWrite(c) \/ ShimExits(c) \/ HandlerExits(c)
    \/ \E status \in {"success", "error"} : EndWrite(c, status)

Next == \E c \in Calls : HostStep(c) \/ DockerStep(c) \/ ShimStep(c)

Spec == Init /\ [][Next]_vars

\* Timers fire, events are delivered, the daemon serves its clients and a write
\* ends.  Nothing is assumed of user code: it may run for ever.
FairSpec ==
    /\ Spec
    /\ \A c \in Calls : /\ WF_vars(TimerFires(c)) /\ WF_vars(Close(c))
                        /\ WF_vars(Start(c)) /\ WF_vars(Kill(c))

-----------------------------------------------------------------------------
(* Properties.                                                             *)

TypeOK == host \in {"up", "crashed"} /\ call \in [Calls -> CallState]

\* "no containers are left behind": a call that has returned has neither a
\* running container nor a scratch directory.
NothingLeftBehind ==
    \A c \in Calls : call[c].pc = "done" => call[c].ctr = "exited" /\ ~call[c].dir

\* A result the handler produced in time to write it is never reported as a
\* timeout, even when the kill hits a shim that lingers after its write.
ResultBeatsKill ==
    \A c \in Calls : call[c].out = "timeout" => call[c].file = "absent"

\* A "timeout" is the caller's word for code that "times out": the kill timer has
\* fired.  The memory limit of the cgroup gives the same exit code without it.
TimeoutOnlyByTimer ==
    \A c \in Calls : call[c].out = "timeout" => call[c].timer = "fired"

\* "On timeout the host kills the container": whatever user code does, a call
\* comes back (or takes the worker process down).
EveryCallReturns ==
    \A c \in Calls : call[c].pc = "running" ~> call[c].pc = "done" \/ host = "crashed"

Runtime ==
    INSTANCE ExecutionRuntime WITH
        alive <- host = "up",
        call  <- [c \in Calls |-> CASE call[c].pc = "idle"    -> "idle"
                                    [] call[c].pc = "running" -> "running"
                                    [] call[c].pc = "done"    -> call[c].out],
        code  <- [c \in Calls |-> CASE call[c].file = "success" -> "returned"
                                    [] call[c].file = "error"   -> "threw"
                                    [] OTHER                    -> "none"]

\* runIsolatedContainer keeps the promise of an execution runtime: it settles once,
\* and its outcome agrees with what the shim reported, kills and crashes included.
ImplementsRuntime == Runtime!Spec
=============================================================================
