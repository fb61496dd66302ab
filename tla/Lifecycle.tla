----------------------------- MODULE Lifecycle -----------------------------
(***************************************************************************)
(* The life of a VM as the repository runs it: platform repository.rs and *)
(* the registries it owns (reconnect.rs, watch.rs, start_registry.rs,      *)
(* shutdown_workers.rs, force_stop_workers.rs, reboot_workers.rs,          *)
(* com1_terminal.rs Com1Sessions, agent.rs AgentSessions, gpu_runs.rs,     *)
(* display_runs.rs, display_launches.rs), above the Host Compute Service   *)
(* and below the application (app lib.rs) that lists, offers and refreshes. *)
(*                                                                         *)
(* One thread -- the UI's -- calls the repository; every start, shutdown,  *)
(* forced stop and reboot is a thread of its own; an agent connection is a *)
(* thread that writes what its guest reports; HCS calls back on threads of *)
(* its own.  A refresh -- once a second and after every operation -- runs  *)
(* in the steps the other threads can see between (`main` is where it is); *)
(* every other operation is one step.                                      *)
(*                                                                         *)
(* Each time HCS creates a VM's compute system it is a new *run*, numbered *)
(* per VM.  Numbers stand for what the code cannot confuse -- partition    *)
(* runtime ids, pipes, handles -- and for what it can: facts and shares    *)
(* are kept by VM id alone, and their number says which run they are of.   *)
(***************************************************************************)
EXTENDS Naturals, Sequences, FiniteSets, Functions

CONSTANTS
  VMs,          \* the VMs that exist at the beginning
  MaxRuns,      \* bound on the compute systems created for one VM
  MaxRestarts,  \* bound on how often VMLord itself is started again
  MaxNoise,     \* bound on the events that release nothing
  Capacity,     \* EVENT_CAPACITY of the event queue
  Faults,       \* which fallible host calls may fail: subset of FaultKinds
  Operations    \* what the user may ask for: subset of OperationKinds

FaultKinds ==
  {"open", "watch", "listen", "launch", "spawn", "list", "service", "crash"}

OperationKinds ==
  {"start", "stop", "force", "reboot", "delete", "console", "display"}

ASSUME ConstantsAssumption ==
  /\ IsFiniteSet(VMs)
  /\ MaxRuns \in Nat
  /\ MaxRestarts \in Nat
  /\ MaxNoise \in Nat
  /\ Capacity \in Nat \ {0}
  /\ Faults \subseteq FaultKinds
  /\ Operations \subseteq OperationKinds

VARIABLES
  \* The Host Compute Service, which outlives VMLord.
  sys,          \* VM -> "absent", "created" or "running"
  run,          \* VM -> the number of its last compute system
  undelivered,  \* VMs whose watched system exited with no callback made yet
  noise,        \* how many other events HCS has raised
  \* metadata.json
  known,        \* VMs that have a mapping
  installed,    \* VMs whose display_provisioning is Ready
  \* The process.
  phase,        \* "fresh", "ready", "unavailable" or "leaving"
  restarts,     \* how often it was started again
  main,         \* where a refresh is, "idle" outside one
  seen,         \* VM -> what HCS told the listing under way
  listed,       \* VM -> the row the window shows of it
  \* VmConnections and VmEventSink.
  conn,         \* VM -> the handle held for it and its watch
  nextGen,      \* the generation the next watch gets
  events,       \* the queue the watches push into
  \* What belongs to a run.
  console,      \* VM -> its COM1 session
  agent,        \* VM -> its agent connection and the shares it offers
  gpu,          \* VM -> GpuRuns: the run its shares were prepared for
  dsp,          \* VM -> DisplayRuns: likewise, and the run whose guest offered
  windows,      \* VM -> the runs whose display window this process opened
  \* The workers.
  starting,     \* VM -> its start worker's step, "none" if not listed
  parked,       \* products of finished starts: VM and the run it started
  adopting,     \* products a refresh has taken and not yet adopted
  asks          \* kind -> VM -> the request in flight, with the run it reached

hcsVars   == <<sys, run, undelivered, noise>>
storeVars == <<known, installed>>
procVars  == <<phase, restarts, main, seen, listed>>
heldVars  == <<conn, nextGen, events>>
runVars   == <<console, agent, gpu, dsp, windows>>
workVars  == <<starting, parked, adopting, asks>>
vars      == <<hcsVars, storeVars, procVars, heldVars, runVars, workVars>>

AskKinds == {"shutdown", "force", "reboot"}

\* A request is spawned, reaches the compute system, and is answered.
AskStates == {"none", "asking", "reached", "ok", "failed"}

\* Values that say "none".
NoConn    == [gen |-> 0, run |-> 0, watched |-> FALSE]
NoConsole == [st |-> "none", run |-> 0]
NoAgent   == [run |-> 0, gpu |-> 0, dsp |-> 0]
NoFacts   == [shares |-> 0, guest |-> 0]
NoAsk     == [st |-> "none", run |-> 0]

NoRow     == [state |-> "none", display |-> FALSE]

SysStates  == {"absent", "created", "running"}
RowStates  == {"none", "stopped", "starting", "running"}
EventKinds == {"exited", "disconnect", "other"}
RunNumbers == 0..MaxRuns

Rows      == [state : RowStates, display : BOOLEAN]
Conns     == [gen : Nat, run : RunNumbers, watched : BOOLEAN]
HcsEvents == [vm : VMs, gen : Nat, kind : EventKinds]
Consoles  == [st : {"none", "open", "over"}, run : RunNumbers]
Agents    == [run : RunNumbers, gpu : RunNumbers, dsp : RunNumbers]
Facts     == [shares : RunNumbers, guest : RunNumbers]
Requests  == [st : AskStates, run : RunNumbers]
Products  == VMs \X RunNumbers

HcsTypeOK ==
  /\ sys \in [VMs -> SysStates]
  /\ run \in [VMs -> RunNumbers]
  /\ undelivered \subseteq VMs
  /\ noise \in 0..MaxNoise

StoreTypeOK ==
  /\ known \subseteq VMs
  /\ installed \subseteq VMs

ProcTypeOK ==
  /\ phase \in {"fresh", "ready", "unavailable", "leaving"}
  /\ restarts \in 0..MaxRestarts
  /\ main \in {"idle", "list", "label", "take", "adopt", "listen", "shutdowns",
               "forces", "reboots", "events"}
  /\ seen \in [VMs -> SysStates]
  /\ listed \in [VMs -> Rows]

HeldTypeOK ==
  /\ conn \in [VMs -> Conns]
  /\ nextGen \in Nat \ {0}
  /\ events \in Seq(HcsEvents)
  /\ Len(events) <= Capacity

RunTypeOK ==
  /\ console \in [VMs -> Consoles]
  /\ agent \in [VMs -> Agents]
  /\ gpu \in [VMs -> RunNumbers]
  /\ dsp \in [VMs -> Facts]
  /\ windows \in [VMs -> SUBSET RunNumbers]

WorkTypeOK ==
  /\ starting \in [VMs -> {"none", "prepare", "create", "launch"}]
  /\ parked \in Seq(Products)
  /\ adopting \in Seq(Products)
  /\ asks \in [AskKinds -> [VMs -> Requests]]

\* Every variable has its type, and the event queue never holds more than
\* EVENT_CAPACITY events, whatever HCS raises between two drains (watch.rs push).
TypeOK ==
  /\ HcsTypeOK
  /\ StoreTypeOK
  /\ ProcTypeOK
  /\ HeldTypeOK
  /\ RunTypeOK
  /\ WorkTypeOK

Each(x) == [v \in VMs |-> x]

Init ==
  /\ sys = Each("absent")
  /\ run = Each(0)
  /\ undelivered = {}
  /\ noise = 0
  /\ known = VMs
  /\ installed = {}
  /\ phase = "fresh"
  /\ restarts = 0
  /\ main = "idle"
  /\ seen = Each("absent")
  /\ listed = Each(NoRow)
  /\ conn = Each(NoConn)
  /\ nextGen = 1
  /\ events = <<>>
  /\ console = Each(NoConsole)
  /\ agent = Each(NoAgent)
  /\ gpu = Each(0)
  /\ dsp = Each(NoFacts)
  /\ windows = Each({})
  /\ starting = Each("none")
  /\ parked = <<>>
  /\ adopting = <<>>
  /\ asks = [k \in AskKinds |-> Each(NoAsk)]
------------------------------------------------------------------------------
(* Helpers. *)

Idle == phase = "ready" /\ main = "idle"

Alive(v, r) == r # 0 /\ run[v] = r /\ sys[v] = "running"

Present(v) == sys[v] # "absent"

\* A fallible host call: it works, or the fault it may meet happens.
MayFail(kind) == IF kind \in Faults THEN {TRUE, FALSE} ELSE {TRUE}

\* Mutant of Push: the queue grows one past its capacity.
PushOverfull(queue, e) ==
  Append(IF Len(queue) > Capacity THEN Tail(queue) ELSE queue, e)

\* VmEventSink::push: a full queue loses its oldest event.
Push(queue, e) ==
  Append(IF Len(queue) = Capacity THEN Tail(queue) ELSE queue, e)

\* The VM's compute system goes away.  HCS reports it to the watch on that very
\* system, on a thread of its own and in its own time.
Gone(v) ==
  /\ sys' = [sys EXCEPT ![v] = "absent"]
  /\ undelivered' = IF Present(v) /\ conn[v].watched /\ conn[v].run = run[v]
                      THEN undelivered \cup {v} ELSE undelivered

\* Dropping a watch clears its callback: nothing it had not delivered comes.
Unwatch(dropped) == undelivered' = undelivered \ dropped

\* Mutant of Superseded: generations are not compared.
NeverSuperseded(e) == FALSE

\* VmConnections::is_superseded.
Superseded(e) == conn[e.vm].gen # 0 /\ conn[e.vm].gen # e.gen
------------------------------------------------------------------------------
(* The Host Compute Service and the guests (external). *)

\* A guest powers itself off, on its own or because it was asked to.
GuestExits(v) ==
  /\ sys[v] = "running"
  /\ Gone(v)
  /\ UNCHANGED <<run, noise, storeVars, procVars, heldVars, runVars, workVars>>

\* on_hcs_event: the callback of a watch queues that its system exited.
DeliverExit(v) ==
  /\ v \in undelivered
  /\ undelivered' = undelivered \ {v}
  /\ events' = Push(events, [vm |-> v, gen |-> conn[v].gen, kind |-> "exited"])
  /\ UNCHANGED <<sys, run, noise, storeVars, procVars, conn, nextGen, runVars,
                 workVars>>

\* The same callback for the events VMLord reports and takes no action on.
DeliverOther(v) ==
  /\ noise < MaxNoise
  /\ conn[v].watched
  /\ noise' = noise + 1
  /\ events' = Push(events, [vm |-> v, gen |-> conn[v].gen, kind |-> "other"])
  /\ UNCHANGED <<sys, run, undelivered, storeVars, procVars, conn, nextGen,
                 runVars, workVars>>

\* The service disconnects: each watch is told so.
DeliverDisconnect(v) ==
  /\ "service" \in Faults
  /\ noise < MaxNoise
  /\ conn[v].watched
  /\ noise' = noise + 1
  /\ events' = Push(events,
                    [vm |-> v, gen |-> conn[v].gen, kind |-> "disconnect"])
  /\ UNCHANGED <<sys, run, undelivered, storeVars, procVars, conn, nextGen,
                 runVars, workVars>>

\* A console's reader ends: its window was closed, or its pipe did.
ConsoleEnds(v) ==
  /\ console[v].st = "open"
  /\ console' = [console EXCEPT ![v].st = "over"]
  /\ UNCHANGED <<hcsVars, storeVars, procVars, heldVars, agent, gpu, dsp,
                 windows, workVars>>

\* A person closes a display window.
WindowCloses(v) ==
  /\ \E r \in windows[v] : windows' = [windows EXCEPT ![v] = @ \ {r}]
  /\ UNCHANGED <<hcsVars, storeVars, procVars, heldVars, console, agent, gpu,
                 dsp, workVars>>
------------------------------------------------------------------------------
(* The thread that serves a VM's agent.  (What the guest reports of its GPU is
   kept beside the shares and only shown.) *)

\* The guest reports that its display services are ready.
GuestOffersDisplay(v) ==
  /\ Alive(v, agent[v].run)
  /\ dsp' = [dsp EXCEPT ![v].guest = agent[v].run]
  /\ UNCHANGED <<hcsVars, storeVars, procVars, heldVars, console, agent, gpu,
                 windows, workVars>>
------------------------------------------------------------------------------
(* A start worker: VmStartPipeline::start. *)

\* prepare_gpu and prepare_display record what the coming run will offer.
StartPrepares(v) ==
  /\ starting[v] = "prepare"
  /\ starting' = [starting EXCEPT ![v] = "create"]
  /\ gpu' = [gpu EXCEPT ![v] = run[v] + 1]
  /\ dsp' = [dsp EXCEPT ![v].shares = run[v] + 1]
  /\ UNCHANGED <<hcsVars, storeVars, procVars, heldVars, console, agent,
                 windows, parked, adopting, asks>>

\* prepare_hcs_system creates the compute system, after tearing down one that
\* never ran.  A system in any other state is to be started as it is.
StartCreates(v) ==
  /\ starting[v] = "create"
  /\ starting' = [starting EXCEPT ![v] = "launch"]
  /\ IF sys[v] = "running"
       THEN UNCHANGED <<sys, run, undelivered>>
       ELSE /\ sys' = [sys EXCEPT ![v] = "created"]
            /\ run' = [run EXCEPT ![v] = @ + 1]
            /\ undelivered' =
                 IF Present(v) /\ conn[v].watched /\ conn[v].run = run[v]
                   THEN undelivered \cup {v} ELSE undelivered
  /\ UNCHANGED <<noise, storeVars, procVars, heldVars, runVars, parked,
                 adopting, asks>>

\* open_console_and_start: the console is up and HCS runs the system, so the
\* worker parks its product and ends.
StartLaunches(v) ==
  /\ starting[v] = "launch"
  /\ sys[v] = "created"
  /\ sys' = [sys EXCEPT ![v] = "running"]
  /\ starting' = [starting EXCEPT ![v] = "none"]
  /\ parked' = Append(parked, <<v, run[v]>>)
  /\ UNCHANGED <<run, undelivered, noise, storeVars, procVars, heldVars,
                 runVars, adopting, asks>>

\* A start fails at any step and ends with nothing.  A creation that failed is
\* torn down; a system that was created and not started stays created.
StartFails(v) ==
  /\ starting[v] # "none"
  /\ starting' = [starting EXCEPT ![v] = "none"]
  /\ \/ UNCHANGED hcsVars
     \/ /\ starting[v] = "create"
        /\ sys[v] = "created"
        /\ Gone(v)
        /\ UNCHANGED <<run, noise>>
  /\ UNCHANGED <<storeVars, procVars, heldVars, runVars, parked, adopting, asks>>
------------------------------------------------------------------------------
(* The workers that carry one request to HCS. *)

\* The request has reached the run the VM is in.
Reached(k, v) ==
  /\ asks[k][v].st = "asking"
  /\ v \in known
  /\ asks' = [asks EXCEPT ![k][v] = [st |-> "reached", run |-> run[v]]]
  /\ UNCHANGED <<run, noise, storeVars, procVars, heldVars, runVars, starting,
                 parked, adopting>>

\* A shutdown and a reboot are delivered to a guest that acts on its own
\* schedule, a reboot by HCS or by the guest's agent.
ShutdownReaches(v) ==
  /\ sys[v] = "running"
  /\ Reached("shutdown", v)
  /\ UNCHANGED <<sys, undelivered>>

RebootReaches(v) ==
  /\ sys[v] = "running"
  /\ Reached("reboot", v)
  /\ UNCHANGED <<sys, undelivered>>

\* A forced stop destroys the compute system, in whatever state it is.
ForceStopReaches(v) ==
  /\ Present(v)
  /\ Reached("force", v)
  /\ Gone(v)

\* HCS answers that it was delivered.
AskAnswered(k, v) ==
  /\ asks[k][v].st = "reached"
  /\ asks' = [asks EXCEPT ![k][v].st = "ok"]
  /\ UNCHANGED <<hcsVars, storeVars, procVars, heldVars, runVars, starting,
                 parked, adopting>>

\* There is no mapping or no system, HCS refuses, the wait times out or the
\* thread dies.
AskFails(k, v) ==
  /\ asks[k][v].st \in {"asking", "reached"}
  /\ asks' = [asks EXCEPT ![k][v].st = "failed"]
  /\ UNCHANGED <<hcsVars, storeVars, procVars, heldVars, runVars, starting,
                 parked, adopting>>
------------------------------------------------------------------------------
(* Operations of the main thread. *)

\* AgentConnection::start for the compute system that is there: it offers what
\* has been recorded for the VM.
Listening(v) == [run |-> run[v], gpu |-> gpu[v], dsp |-> dsp[v].shares]

Opened(v) == [st |-> "open", run |-> run[v]]

\* Com1Sessions::reap, as a function from the consoles to those not over.
Reap(c) == [v \in VMs |-> IF c[v].st = "over" THEN NoConsole ELSE c[v]]

\* A console is opened where none is left once those that are over are reaped.
Show(v, works) ==
  console' = IF Reap(console)[v].st = "none" /\ works
               THEN [Reap(console) EXCEPT ![v] = Opened(v)]
               ELSE Reap(console)

\* Starts the worker of a request.
Ask(k, v) == asks' = [asks EXCEPT ![k][v] = [st |-> "asking", run |-> 0]]

\* The window offers an operation for what the last listing said of the VM.
Offered(operation, v) ==
  LET row == listed[v]
  IN /\ operation \in Operations
     /\ CASE operation \in {"start", "delete"}   -> row.state = "stopped"
          [] operation = "stop"                  -> row.state \in {"starting",
                                                                   "running"}
          [] operation = "force"                 -> row.state # "none"
          [] operation \in {"reboot", "console"} -> row.state = "running"
          [] operation = "display"               -> row.display

\* refuse_if_starting, and refuse_unless_running against HCS as it is now.
NotStarting(v) == starting[v] = "none"

Runs(v) == sys[v] = "running"

\* What the repository itself checks before it does anything, against HCS and
\* its registries as they are now.  A console whose reader is over is reaped
\* first, so only one that is open refuses another.
Accepts(operation, v) ==
  /\ v \in known
  /\ CASE operation = "start"   -> NotStarting(v)
       [] operation = "stop"    -> asks["shutdown"][v].st = "none"
       [] operation = "force"   -> asks["force"][v].st = "none"
       [] operation = "reboot"  -> Runs(v) /\ asks["reboot"][v].st = "none"
       [] operation = "delete"  -> NotStarting(v) /\ ~Runs(v)
       [] operation = "console" -> Runs(v) /\ console[v].st # "open"
       [] operation = "display" -> v \in installed /\ Runs(v) /\ dsp[v].guest # 0

\* What can still fail of an operation that was accepted: its thread cannot be
\* spawned, or its viewer not be launched.
MaySpoil(operation) ==
  \/ "spawn" \in Faults /\ operation \in {"start", "force", "reboot"}
  \/ "launch" \in Faults /\ operation = "display"

Asked(operation, v) == Idle /\ Offered(operation, v) /\ Accepts(operation, v)

\* Where the main thread goes: the application lists and refreshes after an
\* operation that was accepted, and only refreshes after one that was not.
Proceed(step) == main' = step /\ UNCHANGED <<phase, restarts, seen, listed>>

\* An operation that is refused or fails changes nothing, but that asking for a
\* console of a VM that runs has reaped.  (A refused stop is in StopVm.)
Refused(v) ==
  /\ Idle
  /\ \E operation \in Operations \ {"stop"} :
       /\ Offered(operation, v)
       /\ ~Accepts(operation, v) \/ MaySpoil(operation)
       /\ console' = IF operation = "console" /\ v \in known /\ Runs(v)
                       THEN Reap(console) ELSE console
  /\ Proceed("take")
  /\ UNCHANGED <<hcsVars, storeVars, heldVars, agent, gpu, dsp, windows, workVars>>

\* start_vm.
StartVm(v) ==
  /\ Asked("start", v)
  /\ run[v] < MaxRuns
  /\ starting' = [starting EXCEPT ![v] = "prepare"]
  /\ Proceed("list")
  /\ UNCHANGED <<hcsVars, storeVars, heldVars, runVars, parked, adopting, asks>>

\* stop_vm: show_shutdown_console, then the request.  The console is shown even
\* when the request is then refused as a second one.
StopVm(v) ==
  /\ Idle
  /\ Offered("stop", v)
  /\ v \in known
  /\ \E works \in MayFail("launch") : Show(v, works)
  /\ \E spawns \in MayFail("spawn") :
       IF Accepts("stop", v) /\ spawns THEN Ask("shutdown", v) /\ Proceed("list")
                                       ELSE asks' = asks /\ Proceed("take")
  /\ UNCHANGED <<hcsVars, storeVars, heldVars, agent, gpu, dsp, windows,
                 starting, parked, adopting>>

\* force_stop_vm.
ForceStopVm(v) ==
  /\ Asked("force", v)
  /\ Ask("force", v)
  /\ Proceed("list")
  /\ UNCHANGED <<hcsVars, storeVars, heldVars, runVars, starting, parked,
                 adopting>>

\* reboot_vm.
RebootVm(v) ==
  /\ Asked("reboot", v)
  /\ Ask("reboot", v)
  /\ Proceed("list")
  /\ UNCHANGED <<hcsVars, storeVars, heldVars, runVars, starting, parked,
                 adopting>>

\* Mutant of DeleteVm: the handle is not given up.
DeleteVmKeepsHandle(v) ==
  /\ Asked("delete", v)
  /\ console' = [console EXCEPT ![v] = NoConsole]
  /\ agent' = [agent EXCEPT ![v] = NoAgent]
  /\ gpu' = [gpu EXCEPT ![v] = 0]
  /\ dsp' = [dsp EXCEPT ![v] = NoFacts]
  /\ known' = known \ {v}
  /\ sys' = [sys EXCEPT ![v] = "absent"]
  /\ Proceed("list")
  /\ UNCHANGED <<run, undelivered, noise, installed, heldVars, windows, workVars>>

\* delete_vm: what belongs to a run is given up before the pipeline, the handle
\* only after it succeeded.  A pipeline that failed leaves the mapping, and may
\* have removed the compute system.
DeleteVm(v) ==
  /\ Asked("delete", v)
  /\ console' = [console EXCEPT ![v] = NoConsole]
  /\ agent' = [agent EXCEPT ![v] = NoAgent]
  /\ gpu' = [gpu EXCEPT ![v] = 0]
  /\ dsp' = [dsp EXCEPT ![v] = NoFacts]
  /\ \/ /\ known' = known \ {v}
        /\ sys' = [sys EXCEPT ![v] = "absent"]
        /\ conn' = [conn EXCEPT ![v] = NoConn]
        /\ Unwatch({v})
        /\ Proceed("list")
     \/ /\ Gone(v) \/ UNCHANGED <<sys, undelivered>>
        /\ UNCHANGED <<known, conn>>
        /\ Proceed("take")
  /\ UNCHANGED <<run, noise, installed, nextGen, events, windows, workVars>>

\* open_console: one reader per VM, and only while it runs.
OpenConsole(v) ==
  /\ Asked("console", v)
  /\ \E works \in MayFail("launch") :
       /\ Show(v, works)
       /\ Proceed(IF works THEN "idle" ELSE "take")
  /\ UNCHANGED <<hcsVars, storeVars, heldVars, agent, gpu, dsp, windows, workVars>>

\* DisplayLaunches::start: a window is opened onto the run there is, or the one
\* it has is focused; and DisplayLaunches::close for each VM of a set.
OpenWindow(v) == windows' = [windows EXCEPT ![v] = @ \cup {run[v]}]

CloseWindows(S) == [v \in VMs |-> IF v \in S THEN {} ELSE windows[v]]

\* open_display.
OpenDisplay(v) ==
  /\ Asked("display", v)
  /\ OpenWindow(v)
  /\ UNCHANGED <<hcsVars, storeVars, procVars, heldVars, console, agent, gpu,
                 dsp, workVars>>
------------------------------------------------------------------------------
(* A refresh, in the order repository.rs runs it. *)

\* list_vms, first half: HCS is enumerated ...
ListReads ==
  /\ main = "list" \/ Idle
  /\ main' = "label"
  /\ seen' = sys
  /\ UNCHANGED <<hcsVars, storeVars, phase, restarts, listed, heldVars, runVars,
                 workVars>>

\* vm_state: a start in flight outranks anything HCS said short of running.
Row(v) ==
  LET state == IF v \notin known THEN "none"
               ELSE IF seen[v] = "running" THEN "running"
               ELSE IF starting[v] # "none" THEN "starting"
               ELSE "stopped"
  IN [state   |-> state,
      display |-> /\ state \in {"starting", "running"}
                  /\ v \in installed
                  /\ dsp[v].guest # 0]

\* ... second half: each VM is labelled, with the starts there are by then.
ListLabels ==
  /\ main = "label"
  /\ main' = "take"
  /\ seen' = Each("absent")
  /\ listed' = [v \in VMs |-> Row(v)]
  /\ UNCHANGED <<hcsVars, storeVars, phase, restarts, heldVars, runVars, workVars>>

\* A listing that fails makes the backend unavailable for good; the refresh it
\* was made for still runs.
ListFails ==
  /\ "list" \in Faults
  /\ main = "list" \/ Idle
  /\ main' = "take"
  /\ phase' = "unavailable"
  /\ UNCHANGED <<hcsVars, storeVars, restarts, seen, listed, heldVars, runVars,
                 workVars>>

\* take_started hands over everything parked.
RefreshTakes ==
  /\ main = "take"
  /\ main' = "adopt"
  /\ adopting' = parked
  /\ parked' = <<>>
  /\ UNCHANGED <<hcsVars, storeVars, phase, restarts, seen, listed, heldVars,
                 runVars, starting, asks>>

\* adopt_started and hold_started_system for one product: its console session
\* replaces the VM's, and the compute system that is there is opened, held and
\* watched as a new generation.  No system or a failed open leaves the previous
\* handle and its watch.
AdoptHolds ==
  /\ main = "adopt"
  /\ adopting # <<>>
  /\ main' = "listen"
  /\ LET v == Head(adopting)[1]
     IN /\ console' = [console EXCEPT ![v] = [st |-> "open",
                                              run |-> Head(adopting)[2]]]
        /\ \E opens \in MayFail("open"), watches \in MayFail("watch") :
             IF Present(v) /\ opens
               THEN /\ conn' = [conn EXCEPT ![v] = [gen |-> nextGen,
                                                    run |-> run[v],
                                                    watched |-> watches]]
                    /\ nextGen' = nextGen + 1
                    /\ Unwatch({v})
               ELSE UNCHANGED <<conn, nextGen, undelivered>>
  /\ UNCHANGED <<sys, run, noise, storeVars, phase, restarts, seen, listed, events,
                 agent, gpu, dsp, windows, workVars>>

\* listen_for_agent for the same product: the previous connection ends before
\* the new one binds.  A VM HCS names no partition for is left alone.
AdoptListens ==
  /\ main = "listen"
  /\ main' = "adopt"
  /\ adopting' = Tail(adopting)
  /\ LET v == Head(adopting)[1]
     IN \E binds \in MayFail("listen") :
          agent' = IF Present(v)
                     THEN [agent EXCEPT ![v] = IF binds THEN Listening(v)
                                                        ELSE NoAgent]
                     ELSE agent
  /\ UNCHANGED <<hcsVars, storeVars, phase, restarts, seen, listed, heldVars,
                 console, gpu, dsp, windows, starting, parked, asks>>

\* record_installed_desktops: a guest that offers its display has its desktop.
RecordInstalledDesktops ==
  /\ main = "adopt"
  /\ adopting = <<>>
  /\ main' = "shutdowns"
  /\ installed' = installed \cup {v \in known : dsp[v].guest # 0}
  /\ UNCHANGED <<hcsVars, known, phase, restarts, seen, listed, heldVars, runVars,
                 workVars>>

\* take_finished: the requests that were answered leave their registry.
Delivered(k) == {v \in VMs : asks[k][v].st = "ok"}

Collected(k) ==
  [asks EXCEPT ![k] = [v \in VMs |-> IF asks[k][v].st \in {"ok", "failed"}
                                       THEN NoAsk ELSE asks[k][v]]]

\* Gives something up for each VM of a set.
GiveUp(f, S, none) == [v \in VMs |-> IF v \in S THEN none ELSE f[v]]

\* finish_shutdowns gives up the agent, the facts and the handle of a VM whose
\* request was delivered, and leaves its console to end with the pipe.
FinishShutdowns ==
  /\ main = "shutdowns"
  /\ main' = "forces"
  /\ LET over == Delivered("shutdown")
     IN /\ agent' = GiveUp(agent, over, NoAgent)
        /\ gpu' = GiveUp(gpu, over, 0)
        /\ dsp' = GiveUp(dsp, over, NoFacts)
        /\ conn' = GiveUp(conn, over, NoConn)
        /\ Unwatch(over)
  /\ asks' = Collected("shutdown")
  /\ UNCHANGED <<sys, run, noise, storeVars, phase, restarts, seen, listed,
                 nextGen, events, console, windows, starting, parked, adopting>>

\* finish_force_stops gives up everything, the console and the display window
\* included, of a VM whose termination was confirmed.
FinishForceStops ==
  /\ main = "forces"
  /\ main' = "reboots"
  /\ LET over == Delivered("force")
     IN /\ console' = GiveUp(console, over, NoConsole)
        /\ agent' = GiveUp(agent, over, NoAgent)
        /\ gpu' = GiveUp(gpu, over, 0)
        /\ dsp' = GiveUp(dsp, over, NoFacts)
        /\ windows' = CloseWindows(over)
        /\ conn' = GiveUp(conn, over, NoConn)
        /\ Unwatch(over)
  /\ asks' = Collected("force")
  /\ UNCHANGED <<sys, run, noise, storeVars, phase, restarts, seen, listed,
                 nextGen, events, starting, parked, adopting>>

\* finish_reboots gives up nothing: the guest comes back to the same system.
FinishReboots ==
  /\ main = "reboots"
  /\ main' = "events"
  /\ asks' = Collected("reboot")
  /\ UNCHANGED <<hcsVars, storeVars, phase, restarts, seen, listed, heldVars,
                 runVars, starting, parked, adopting>>

\* The events a drain acts on, decided against the handles held before any of
\* them is released.
Current == {e \in Range(events) : ~Superseded(e)}

\* Mutant of Released: an exit is taken for an event that releases nothing.
ReleasedByDisconnect == {e.vm : e \in {x \in Current : x.kind = "disconnect"}}

Released == {e.vm : e \in {x \in Current : x.kind \in {"exited", "disconnect"}}}

\* Mutant of Stopped: only a disconnected service closes windows.
StoppedByDisconnect == {e.vm : e \in {x \in Current : x.kind = "disconnect"}}

Stopped == {e.vm : e \in {x \in Current : x.kind = "exited"}}

\* Mutant of DrainEvents: events that release nothing stay queued.
DrainEventsThatRelease ==
  /\ main = "events"
  /\ main' = "idle"
  /\ events' = IF Released = {} THEN events ELSE <<>>
  /\ console' = Reap(GiveUp(console, Released, NoConsole))
  /\ agent' = GiveUp(agent, Released, NoAgent)
  /\ gpu' = GiveUp(gpu, Released, 0)
  /\ conn' = GiveUp(conn, Released, NoConn)
  /\ windows' = CloseWindows(Stopped)
  /\ Unwatch(Released)
  /\ UNCHANGED <<sys, run, noise, storeVars, phase, restarts, seen, listed, nextGen,
                 dsp, workVars>>

\* drain_events, what refresh does with its answer, and the reap of consoles.
DrainEvents ==
  /\ main = "events"
  /\ main' = "idle"
  /\ events' = <<>>
  /\ console' = Reap(GiveUp(console, Released, NoConsole))
  /\ agent' = GiveUp(agent, Released, NoAgent)
  /\ gpu' = GiveUp(gpu, Released, 0)
  /\ conn' = GiveUp(conn, Released, NoConn)
  /\ windows' = CloseWindows(Stopped)
  /\ Unwatch(Released)
  /\ UNCHANGED <<sys, run, noise, storeVars, phase, restarts, seen, listed, nextGen,
                 dsp, workVars>>
------------------------------------------------------------------------------
(* The process. *)

\* Mutant of Running: the wrong state is asked for.
RunningIfCreated == {v \in known : sys[v] = "created"}

Running == {v \in known : sys[v] = "running"}

Findable == {v \in known : Present(v)}

\* run_recovery::restore: what the start of the run had prepared for its guest
\* is found again on disk.
RestoredShares == [v \in VMs |-> IF v \in Running THEN run[v] ELSE 0]

\* reconnect: the compute systems that are there are opened, held and watched,
\* in the order of the mappings.  One that cannot be opened is left out.
Reconnect ==
  \E held \in IF "open" \in Faults THEN SUBSET Findable ELSE {Findable} :
    \E gen \in [held -> 1..Cardinality(held)],
       watches \in [held -> MayFail("watch")] :
      /\ IsInjective(gen)
      /\ conn' = [v \in VMs |->
                    IF v \in held THEN [gen |-> gen[v], run |-> run[v],
                                        watched |-> watches[v]]
                                  ELSE NoConn]
      /\ nextGen' = Cardinality(held) + 1

\* initialize: VMLord reconnects, the running VMs get a console and an agent
\* connection, and what their guests are offered is recovered from disk.
Initialize ==
  /\ phase = "fresh"
  /\ phase' = "ready"
  /\ main' = "list"
  /\ Reconnect
  /\ \E works \in [Running -> MayFail("launch")] :
       console' = [v \in VMs |-> IF v \in Running /\ works[v] THEN Opened(v)
                                                             ELSE NoConsole]
  /\ gpu' = RestoredShares
  /\ dsp' = [v \in VMs |-> [shares |-> RestoredShares[v], guest |-> 0]]
  /\ \E binds \in [Running -> MayFail("listen")] :
       agent' = [v \in VMs |->
                   IF v \in Running /\ binds[v]
                     THEN [run |-> run[v], gpu |-> run[v], dsp |-> run[v]]
                     ELSE NoAgent]
  /\ UNCHANGED <<hcsVars, storeVars, restarts, seen, listed, events, windows, workVars>>

\* drop, first part: consoles and agents end and facts are forgotten.
Leave ==
  /\ phase \in {"ready", "unavailable"}
  /\ main = "idle"
  /\ restarts < MaxRestarts
  /\ phase' = "leaving"
  /\ console' = Each(NoConsole)
  /\ agent' = Each(NoAgent)
  /\ gpu' = Each(0)
  /\ dsp' = Each(NoFacts)
  /\ UNCHANGED <<hcsVars, storeVars, restarts, main, seen, listed, heldVars, windows,
                 workVars>>

\* Everything in the process is gone; HCS and metadata.json are not.
ProcessEnds ==
  /\ phase' = "fresh"
  /\ restarts' = restarts + 1
  /\ main' = "idle"
  /\ seen' = Each("absent")
  /\ listed' = Each(NoRow)
  /\ undelivered' = {}
  /\ conn' = Each(NoConn)
  /\ nextGen' = 1
  /\ events' = <<>>
  /\ console' = Each(NoConsole)
  /\ agent' = Each(NoAgent)
  /\ gpu' = Each(0)
  /\ dsp' = Each(NoFacts)
  /\ windows' = Each({})
  /\ starting' = Each("none")
  /\ parked' = <<>>
  /\ adopting' = <<>>
  /\ asks' = [k \in AskKinds |-> Each(NoAsk)]
  /\ UNCHANGED <<sys, run, noise, storeVars>>

\* drop, last part: every worker has been joined.
Left ==
  /\ phase = "leaving"
  /\ \A v \in VMs : starting[v] = "none"
  /\ \A k \in AskKinds, v \in VMs : asks[k][v].st \notin {"asking", "reached"}
  /\ ProcessEnds

\* The process is killed at any moment.
Crash ==
  /\ "crash" \in Faults
  /\ phase # "fresh"
  /\ restarts < MaxRestarts
  /\ ProcessEnds
------------------------------------------------------------------------------
Hcs(v) ==
  \/ GuestExits(v) \/ DeliverOther(v) \/ DeliverDisconnect(v)
  \/ ConsoleEnds(v) \/ WindowCloses(v)

StartWorker(v) ==
  StartPrepares(v) \/ StartCreates(v) \/ StartLaunches(v) \/ StartFails(v)

AskReaches(v) == ShutdownReaches(v) \/ RebootReaches(v) \/ ForceStopReaches(v)

User(v) ==
  \/ StartVm(v) \/ StopVm(v) \/ ForceStopVm(v) \/ RebootVm(v) \/ DeleteVm(v)
  \/ OpenConsole(v) \/ OpenDisplay(v) \/ Refused(v)

Refreshing ==
  \/ ListLabels \/ RefreshTakes \/ AdoptHolds \/ AdoptListens
  \/ RecordInstalledDesktops
  \/ FinishShutdowns \/ FinishForceStops \/ FinishReboots
  \/ DrainEvents

Next ==
  \/ \E v \in VMs : Hcs(v) \/ DeliverExit(v) \/ GuestOffersDisplay(v)
                    \/ StartWorker(v) \/ AskReaches(v) \/ User(v)
  \/ \E k \in AskKinds, v \in VMs : AskAnswered(k, v) \/ AskFails(k, v)
  \/ ListReads \/ ListFails \/ Refreshing
  \/ Initialize \/ Leave \/ Left \/ Crash

Spec == Init /\ [][Next]_vars

\* The application refreshes once a second for as long as it runs; a refresh
\* once begun runs to its end; every worker waits on HCS with a timeout, so it
\* ends; HCS delivers what it owes a watch.  Nothing says a user or a guest ever
\* does anything.
Fairness ==
  /\ WF_vars(ListReads)
  /\ WF_vars(Refreshing)
  /\ WF_vars(Left)
  /\ \A v \in VMs : WF_vars(DeliverExit(v)) /\ WF_vars(StartWorker(v))
  /\ \A k \in AskKinds, v \in VMs : WF_vars(AskAnswered(k, v) \/ AskFails(k, v))

FairSpec == Spec /\ Fairness
------------------------------------------------------------------------------
(* Properties. *)

\* Outside a refresh, every queued event is of the watch held now: whatever
\* ends a watch -- a stop, a delete, another start -- drains or supersedes what
\* it had queued before the refresh is over (reconnect.rs, watch.rs).
QueuedEventsAreCurrent ==
  main = "idle" => \A e \in Range(events) : conn[e.vm].gen = e.gen

\* Nothing comes to be for a VM that was deleted: no compute system, handle,
\* agent connection or console, and no start that would hand them over
\* (repository.rs delete_vm and the order of list, adopt and collect).
DeletedHasNothing ==
  \A v \in VMs \ known :
    /\ sys[v] = "absent"
    /\ conn[v] = NoConn
    /\ agent[v] = NoAgent
    /\ console[v] = NoConsole
    /\ starting[v] = "none"
    /\ \A i \in DOMAIN parked : parked[i][1] # v

\* A window is opened only onto a run whose own guest offered its display.
\* open_display does not keep this: see the README.
WindowsWereOffered ==
  [][\A v \in VMs : windows'[v] \ windows[v] # {} => dsp[v].guest = run[v]]_vars

\* An exit that is drained late -- the run it is of is over and another one is
\* alive -- never costs the live run its handle and its watch (watch.rs
\* drain_events, reconnect.rs is_superseded).
LateExitsSpareTheHandle ==
  [][DrainEvents /\ (\A e \in Range(events) : e.kind # "disconnect") =>
       \A v \in VMs : Alive(v, conn[v].run) => conn'[v] = conn[v]]_vars

\* Nor does it cost the live run its agent connection, except while the run is
\* still to be adopted, which opens another (repository.rs refresh).
LateExitsSpareTheAgent ==
  [][DrainEvents /\ (\A e \in Range(events) : e.kind # "disconnect") =>
       \A v \in VMs :
         Alive(v, agent[v].run) /\ <<v, agent[v].run>> \notin Range(parked)
           => agent'[v] = agent[v]]_vars

\* The answer to a stop that was about an earlier run leaves the handle and the
\* agent connection of the run that is alive (repository.rs finish_shutdowns,
\* finish_force_stops).  They do not keep this: see the README.
AnswersGiveUpTheirRun ==
  [][\A k \in {"shutdown", "force"}, v \in VMs :
       \/ k = "shutdown" /\ FinishShutdowns
       \/ k = "force" /\ FinishForceStops
       => /\ Alive(v, agent[v].run) /\ agent[v].run # asks[k][v].run
               => agent'[v] = agent[v]
          /\ Alive(v, conn[v].run) /\ conn[v].run # asks[k][v].run
               => conn'[v] = conn[v]]_vars

\* A session offers its guest what the start of its run prepared.  refresh does
\* not keep this: see the README.
SessionsOfferTheirShares ==
  \A v \in VMs : agent[v].run # 0 => /\ agent[v].gpu = agent[v].run
                                     /\ agent[v].dsp = agent[v].run

\* An agent connection does not outlive its run.
AgentsEnd ==
  \A v \in VMs, r \in 1..MaxRuns :
    (agent[v].run = r /\ ~Alive(v, r)) ~> (agent[v].run # r \/ Alive(v, r))

\* A run that goes on is, in the end, held and listened to for as long as it
\* does, whatever became of the runs before it and of VMLord itself.
LiveRunsAreHeld ==
  \A v \in VMs, r \in 1..MaxRuns :
    <>[](Alive(v, r) /\ phase = "ready")
      => <>[](conn[v].run = r /\ agent[v].run = r)

\* A display window does not outlive its run, whether the run powers off, reboots
\* or is stopped by force.  It is checked without the graceful stop: a run that
\* "stop" ended keeps its window, since its handle, and so the watch that would see
\* the exit, is given up as soon as the stop is accepted (repository.rs:517).
WindowsEnd ==
  \A v \in VMs, r \in 1..MaxRuns :
    (r \in windows[v] /\ ~Alive(v, r)) ~> (r \notin windows[v])
=============================================================================
