----------------------------- MODULE VmRecords -----------------------------
(***************************************************************************)
(* What VMLord keeps about a VM and what it keeps it about: the mapping    *)
(* document (metadata.rs), the VM's endpoint in the Host Network Service   *)
(* (hcn_endpoint.rs), its compute system, its files and the SSH port its   *)
(* guest is configured for -- under the operations that change them: a     *)
(* build from end to end (build.rs, cycle.rs, create.rs, guest_ready.rs),  *)
(* a start (start.rs), an edit (repository.rs update_vm, ssh_port.rs), a   *)
(* deletion (delete.rs, cleanup.rs), the refresh's own two writes and the  *)
(* collection of orphan endpoints when VMLord starts.                      *)
(*                                                                         *)
(* The UI thread (`main`) runs edits, deletions and refreshes; a build or  *)
(* a start is a worker thread of its VM.  A step is what happens between   *)
(* two accesses to the document: the document is read without a lock and   *)
(* written in place under DOCUMENT_LOCK, so that a reader may find it      *)
(* emptied and not yet written (`Torn`).                                   *)
(***************************************************************************)
EXTENDS Naturals, FiniteSets

CONSTANTS
  VMs,        \* names of VMs
  Endpoints,  \* identifiers of endpoints (Uuid::new_v4)
  None,       \* Option::None, and "no writer"
  Torn,       \* a document that does not parse
  Known,      \* the VMs that have a mapping, and files, at the beginning
  Offline,    \* the VMs created off the network and without SSH
  MaxDisk,    \* bound on the size of a disk, in units of growth
  MaxFaults,  \* bound on the calls that fail and on the kills
  Edits,      \* the sets of fields that one edit may change
  Operations  \* what may be asked of which VM: subset of OperationKinds \X VMs

Fields == {"net", "gpu", "disk", "port"}

\* The threads that write the document.
Threads == VMs \cup {"main"}

OperationKinds == {"create", "start", "edit", "delete", "exit", "report", "cancel"}

VARIABLES
  \* metadata.json
  doc,        \* VM -> its mapping or None; Torn while, or after, it is half written
  pen,        \* who is writing the document, and what: DOCUMENT_LOCK
  \* The Host Network Service and the Host Compute Service.
  hns,        \* the endpoints in VMLord's network
  stuck,      \* those HNS still has attached to a compute system that is gone
  sys,        \* VM -> its compute system and the endpoint it was built with
  \* The VM's directory, and the guest's own.
  files,      \* VM -> what is in its directory
  vhd,        \* VM -> the virtual size of its disk
  adapter,    \* VM -> the endpoint its config.json names
  guestPort,  \* VM -> the port the guest's SSH drop-ins name
  \* The process.
  phase,      \* "fresh", "ready" or "unavailable"
  reported,   \* DisplayRuns: VMs whose guest has reported its desktop ready
  cancelled,  \* VMs whose build was asked to stop
  main,       \* the UI thread
  worker,     \* VM -> its build or start thread
  faults,     \* the calls that have failed and the kills, so far
  \* History.
  debris,     \* VMs a kill or a failed rollback left something of
  adrift,     \* VMs a rollback could not stop, that run on as they did
  cut         \* VMs whose port moved in the guest and could not be recorded

storeVars == <<doc, pen>>
hostVars  == <<hns, stuck, sys>>
diskVars  == <<files, vhd, adapter, guestPort>>
procVars  == <<phase, reported, cancelled>>
ghostVars == <<debris, adrift, cut>>
vars      == <<storeVars, hostVars, diskVars, procVars, main, worker, faults, ghostVars>>

\* VmComputeSystemMapping.  `port` 0 is a VM without SSH, `desk` is
\* display_provisioning of a VM created with a desktop.
Mappings ==
  [ep : Endpoints \cup {None}, net : {"nat", "none"}, gpu : {"off", "on"},
   disk : 1..MaxDisk, port : 0..2, desk : {"requested", "ready"}]

\* What a creation records: no endpoint until the first start.
Fresh(v) == [ep   |-> None,
             net  |-> IF v \in Offline THEN "none" ELSE "nat",
             gpu  |-> "off",
             disk |-> 1,
             port |-> IF v \in Offline THEN 0 ELSE 1,
             desk |-> "requested"]

Documents == [VMs -> Mappings \cup {None}]

ASSUME ConstantsAssumption ==
  /\ IsFiniteSet(VMs) /\ IsFiniteSet(Endpoints)
  /\ None \notin Endpoints /\ None \notin Threads /\ "main" \notin VMs
  /\ Known \subseteq VMs /\ Offline \subseteq VMs
  /\ MaxDisk \in Nat \ {0} /\ MaxFaults \in Nat
  /\ Edits \subseteq SUBSET Fields
  /\ Operations \subseteq OperationKinds \X VMs
  /\ None \notin Mappings /\ None \notin Documents /\ Torn \notin Documents

NoPen == [by |-> None, doc |-> None]
Pens  == [by : Threads \cup {None}, doc : Documents \cup {None}]

\* The files that make a VM start, and the disk a deletion may leave.
FileKinds == {"config", "disk"}

NoSystem == [st |-> "absent", ep |-> None]
Systems  == [st : {"absent", "created", "running"}, ep : Endpoints \cup {None}]

\* The worker's steps: create.rs create, start.rs start, cycle.rs run.
WorkerSteps ==
  {"idle",
   "check", "files", "create", "register", "rollback",
   "built", "read", "net", "record", "dhcp", "system", "boot",
   "address", "port", "cloud", "stop", "undo", "remove", "forget"}

\* `ep` is the endpoint the start is on, `again` that it has replaced one,
\* `made` that the compute system was created, `m` the mapping it works from.
NoWorker == [pc |-> "idle", build |-> FALSE, m |-> None, ep |-> None,
             again |-> FALSE, made |-> FALSE]
Workers  == [pc : WorkerSteps, build : BOOLEAN, m : Mappings \cup {None},
             ep : Endpoints \cup {None}, again : BOOLEAN, made : BOOLEAN]

\* The UI thread's: a refresh; an edit; a deletion.
MainSteps ==
  {"idle", "rows", "desks", "desk",
   "grow", "grown", "config", "network", "gpu", "port", "moved", "accepted",
   "remove", "gone"}

\* `m` is the mapping an operation has read, `req` the one an edit asks for,
\* `snap` the list record_installed_desktops works through.
Idle  == [pc |-> "idle", vm |-> None, m |-> None, req |-> None, snap |-> None]
Mains == [pc : MainSteps, vm : VMs \cup {None}, m : Mappings \cup {None},
          req : Mappings \cup {None}, snap : Documents \cup {None}]

TypeOK ==
  /\ doc \in Documents \cup {Torn}
  /\ pen \in Pens
  /\ hns \subseteq Endpoints /\ stuck \subseteq Endpoints
  /\ sys \in [VMs -> Systems]
  /\ files \in [VMs -> SUBSET FileKinds]
  /\ vhd \in [VMs -> 0..MaxDisk]
  /\ adapter \in [VMs -> Endpoints \cup {None}]
  /\ guestPort \in [VMs -> 0..2]
  /\ phase \in {"fresh", "ready", "unavailable"}
  /\ reported \subseteq VMs /\ cancelled \subseteq VMs
  /\ main \in Mains
  /\ worker \in [VMs -> Workers]
  /\ faults \in 0..MaxFaults
  /\ debris \subseteq VMs /\ adrift \subseteq VMs /\ cut \subseteq VMs

Init ==
  /\ doc = [v \in VMs |-> IF v \in Known THEN Fresh(v) ELSE None]
  /\ pen = NoPen
  /\ hns = {} /\ stuck = {}
  /\ sys = [v \in VMs |-> NoSystem]
  /\ files = [v \in VMs |-> IF v \in Known THEN FileKinds ELSE {}]
  /\ vhd = [v \in VMs |-> IF v \in Known THEN 1 ELSE 0]
  /\ adapter = [v \in VMs |-> None]
  /\ guestPort = [v \in VMs |-> IF v \in Known THEN Fresh(v).port ELSE 0]
  /\ phase = "fresh"
  /\ reported = {} /\ cancelled = {}
  /\ main = Idle
  /\ worker = [v \in VMs |-> NoWorker]
  /\ faults = 0
  /\ debris = {} /\ adrift = {} /\ cut = {}

-----------------------------------------------------------------------------
(* The document and the faults.                                            *)

Allowed(op, v) == <<op, v>> \in Operations

\* A call of the host's fails, or the process is killed.
Fault == faults < MaxFaults /\ faults' = faults + 1

NoFault == UNCHANGED faults

\* What the document says, or will say once whoever is writing it has.
Content == IF pen # NoPen THEN pen.doc ELSE doc

\* load, without the lock: find_by_vm_name, list.
Readable == doc # Torn

\* insert and remove take the lock, load, and open the file for writing:
\* until WriteOut the file is empty.  The step after is the caller's.
Save(thread, v, mapping) ==
  /\ pen = NoPen
  /\ Readable
  /\ pen' = [by |-> thread, doc |-> [doc EXCEPT ![v] = mapping]]
  /\ doc' = Torn

\* The lock is taken and the document under it does not parse.
CannotSave == pen = NoPen /\ ~Readable

\* A thread goes on once what it is writing has been written.
Free(thread) == pen.by # thread

At(v, step) == worker[v].pc = step /\ Free(v)

\* v's worker goes to its next step.
Goes(v, step) == worker' = [worker EXCEPT ![v].pc = step]

\* v's worker is over: Finish::drop, and the registry's row is reaped.
Ends(v) == worker' = [worker EXCEPT ![v] = NoWorker]

\* A start that fails ends its thread; in a build it undoes the creation.
StartFails(v) == IF worker[v].build THEN Goes(v, "undo") ELSE Ends(v)

MainAt(step) == main.pc = step /\ Free("main")

MainGoes(step) == main' = [main EXCEPT !.pc = step]

\* A refused or failed operation: the application reports it and does not list.
Refused == main' = Idle

\* An accepted operation is followed by a refresh.
Refreshes == main' = [Idle EXCEPT !.pc = "rows"]

\* fs::write of the document completes.
WriteOut ==
  /\ pen # NoPen
  /\ doc' = pen.doc
  /\ pen' = NoPen
  /\ UNCHANGED <<hostVars, diskVars, procVars, main, worker, faults, ghostVars>>

\* What the writer does when its save has failed: the refresh goes on, an edit
\* or a deletion is an error, a creation is rolled back, a start has failed.
AfterFailedSave(thread) ==
  IF thread = "main"
  THEN /\ main' = IF main.pc = "desk" THEN main ELSE Idle
       /\ cut' = IF main.pc = "accepted" THEN cut \cup {main.vm} ELSE cut
       /\ UNCHANGED worker
  ELSE /\ \/ worker[thread].pc = "built"  /\ Goes(thread, "rollback")
          \/ worker[thread].pc = "dhcp"   /\ StartFails(thread)
          \/ worker[thread].pc = "forget" /\ Ends(thread)
       /\ UNCHANGED <<main, cut>>

\* fs::write fails after it has emptied the file.
WriteFails ==
  /\ pen # NoPen
  /\ Fault
  /\ pen' = NoPen
  /\ AfterFailedSave(pen.by)
  /\ UNCHANGED <<doc, hostVars, diskVars, procVars, debris, adrift>>

-----------------------------------------------------------------------------
(* Removing a VM: delete.rs, cleanup.rs.                                   *)

Parts == {"system", "endpoint", "files"}

\* The pipeline attempts every removal, whichever fails: the compute system,
\* the recorded endpoint, then the directory or all of it but the disk.
Teardown(v, m, failing, disks) ==
  /\ sys' = IF "system" \in failing THEN sys ELSE [sys EXCEPT ![v] = NoSystem]
  /\ hns' = IF "endpoint" \in failing THEN hns ELSE hns \ {m.ep}
  /\ stuck' = IF "endpoint" \in failing THEN stuck ELSE stuck \ {m.ep}
  /\ files' = IF "files" \in failing THEN files
              ELSE [files EXCEPT ![v] = IF disks THEN {} ELSE @ \cap {"disk"}]
  /\ IF failing = {} THEN NoFault ELSE Fault
  /\ UNCHANGED <<vhd, adapter, guestPort>>

-----------------------------------------------------------------------------
(* A creation: create.rs.                                                  *)

\* The name and the directory must both be free, still.
CreateChecks(v) ==
  /\ At(v, "check")
  /\ IF Readable /\ doc[v] = None /\ files[v] = {}
     THEN worker' = [worker EXCEPT ![v].pc = "files", ![v].m = Fresh(v)]
     ELSE Ends(v)
  /\ UNCHANGED <<storeVars, hostVars, diskVars, procVars, main, faults, ghostVars>>

\* The directory, the disk, the seed, the configuration and the state files;
\* any of them may fail, and a cancelled build stops at its next checkpoint.  A
\* directory that cannot be made ends the build with nothing to undo.
CreateFiles(v) ==
  /\ At(v, "files")
  /\ \/ /\ \/ v \notin cancelled /\ Goes(v, "create") /\ NoFault
           \/ v \in cancelled /\ Goes(v, "rollback") /\ NoFault
           \/ Fault /\ Goes(v, "rollback")
        /\ files' = [files EXCEPT ![v] = FileKinds]
        /\ vhd' = [vhd EXCEPT ![v] = worker[v].m.disk]
        /\ adapter' = [adapter EXCEPT ![v] = None]
        /\ guestPort' = [guestPort EXCEPT ![v] = worker[v].m.port]
     \/ Fault /\ Ends(v) /\ UNCHANGED diskVars
  /\ UNCHANGED <<storeVars, hostVars, procVars, main, ghostVars>>

\* create_hcs_system: a failed creation may have created, and is torn down.
CreateSystem(v) ==
  /\ At(v, "create")
  /\ \/ /\ v \notin cancelled
        /\ sys' = [sys EXCEPT ![v] = [st |-> "created", ep |-> None]]
        /\ worker' = [worker EXCEPT ![v].pc = "register", ![v].made = TRUE]
        /\ UNCHANGED <<faults, debris>>
     \/ /\ v \in cancelled
        /\ Goes(v, "rollback")
        /\ UNCHANGED <<sys, faults, debris>>
     \/ /\ Fault
        /\ Goes(v, "rollback")
        /\ \/ UNCHANGED <<sys, debris>>
           \/ /\ sys' = [sys EXCEPT ![v] = [st |-> "created", ep |-> None]]
              /\ debris' = debris \cup {v}
  /\ UNCHANGED <<storeVars, hns, stuck, diskVars, procVars, main, adrift, cut>>

\* store.insert of the new mapping.
CreateRegisters(v) ==
  /\ At(v, "register")
  /\ \/ Save(v, v, worker[v].m) /\ Goes(v, "built")
     \/ CannotSave /\ Goes(v, "rollback") /\ UNCHANGED storeVars
  /\ UNCHANGED <<hostVars, diskVars, procVars, main, faults, ghostVars>>

\* rollback, and CreationGuard::drop: what was created is removed, best effort.
CreateRollsBack(v) ==
  /\ At(v, "rollback")
  /\ \E failing \in SUBSET {"system", "files"} :
       /\ "system" \in failing => worker[v].made
       /\ sys' = IF worker[v].made /\ "system" \notin failing
                 THEN [sys EXCEPT ![v] = NoSystem] ELSE sys
       /\ files' = IF "files" \in failing THEN files ELSE [files EXCEPT ![v] = {}]
       /\ debris' = IF failing = {} THEN debris ELSE debris \cup {v}
       /\ IF failing = {} THEN NoFault ELSE Fault
  /\ Ends(v)
  /\ UNCHANGED <<storeVars, hns, stuck, vhd, adapter, guestPort, procVars, main, adrift, cut>>

\* cycle.rs: the last look at the cancellation before the start.
BuildContinues(v) ==
  /\ At(v, "built")
  /\ Goes(v, IF v \in cancelled THEN "undo" ELSE "read")
  /\ UNCHANGED <<storeVars, hostVars, diskVars, procVars, main, faults, ghostVars>>

-----------------------------------------------------------------------------
(* A start: start.rs, hcn_endpoint.rs.                                     *)

StartReads(v) ==
  /\ At(v, "read")
  /\ IF Readable /\ doc[v] # None /\ "config" \in files[v]
     THEN worker' = [worker EXCEPT ![v].pc = "net", ![v].m = doc[v]]
     ELSE StartFails(v)
  /\ UNCHANGED <<storeVars, hostVars, diskVars, procVars, main, faults, ghostVars>>

\* HcnEndpoint::open_if_present.
HnsHas(e) == e \in hns

\* HcnEndpoint::delete, which takes an endpoint that is not there as deleted,
\* and HcnEndpoint::create_with_identity.
Exchanged(old, new) ==
  /\ hns' = (hns \ old) \cup new
  /\ stuck' = stuck \ old

\* The mappings of v that a document, a snapshot or a thread holds.
MappingsOf(v) ==
  ({worker[v].m}
   \cup (IF Content = Torn THEN {} ELSE {Content[v]})
   \cup (IF main.snap = None THEN {} ELSE {main.snap[v]})
   \cup (IF main.vm = v THEN {main.m, main.req} ELSE {})) \ {None}

\* The endpoints that are v's, or were when what names them was read.
EndpointsOf(v) == {worker[v].ep, sys[v].ep, adapter[v]} \cup {m.ep : m \in MappingsOf(v)}

\* Uuid::new_v4: an identifier nothing has.
NewEndpoints ==
  {e \in Endpoints : e \notin hns \cup stuck /\ \A v \in VMs : e \notin EndpointsOf(v)}

\* attach_network for a VM off the network: the adapter of an earlier start goes.
StartOffNetwork(v) ==
  /\ At(v, "net")
  /\ worker[v].m.net = "none"
  /\ adapter' = [adapter EXCEPT ![v] = None]
  /\ Goes(v, "system")
  /\ UNCHANGED <<storeVars, hostVars, files, vhd, guestPort, procVars, main, faults,
                 ghostVars>>

\* ensure_endpoint, EndpointPolicy::Reuse: the recorded endpoint if HNS has it.
StartReuses(v) ==
  /\ At(v, "net")
  /\ worker[v].m.net = "nat" /\ ~worker[v].again
  /\ HnsHas(worker[v].m.ep)
  /\ worker' = [worker EXCEPT ![v].ep = worker[v].m.ep, ![v].pc = "dhcp"]
  /\ UNCHANGED <<storeVars, hostVars, diskVars, procVars, main, faults, ghostVars>>

\* ensure_endpoint creates: the VM has none, HNS lost it, or it is replaced
\* (EndpointPolicy::Replace), and then deleted first.  A failure may come before
\* the deletion, after it, or once the new one exists.
StartCreatesEndpoint(v) ==
  /\ At(v, "net")
  /\ worker[v].m.net = "nat"
  /\ worker[v].again \/ ~HnsHas(worker[v].m.ep)
  /\ LET old == IF worker[v].again THEN {worker[v].ep} ELSE {}
     IN \/ \E e \in NewEndpoints :
             /\ Exchanged(old, {e})
             /\ \/ /\ worker' = [worker EXCEPT ![v].ep = e, ![v].pc = "record"]
                   /\ NoFault
                \/ Fault /\ StartFails(v)
        \/ /\ Fault
           /\ StartFails(v)
           /\ Exchanged(old, {}) \/ UNCHANGED <<hns, stuck>>
  /\ UNCHANGED <<storeVars, sys, diskVars, procVars, main, ghostVars>>

\* Mutant: the endpoint is used and never recorded.
StartRecordsNothing(v) ==
  /\ At(v, "record")
  /\ Goes(v, "dhcp")
  /\ UNCHANGED <<storeVars, hostVars, diskVars, procVars, main, faults, ghostVars>>

\* store.insert of the mapping the start read, with its endpoint.
StartRecords(v) ==
  /\ At(v, "record")
  /\ \/ /\ Save(v, v, [worker[v].m EXCEPT !.ep = worker[v].ep])
        /\ Goes(v, "dhcp")
     \/ CannotSave /\ StartFails(v) /\ UNCHANGED storeVars
  /\ UNCHANGED <<hostVars, diskVars, procVars, main, faults, ghostVars>>

\* The adapter goes into config.json, and the address to the DHCP server.
StartRegistersAddress(v) ==
  /\ At(v, "dhcp")
  /\ adapter' = [adapter EXCEPT ![v] = worker[v].ep]
  /\ \/ Goes(v, "system") /\ NoFault
     \/ Fault /\ StartFails(v)
  /\ UNCHANGED <<storeVars, hostVars, files, vhd, guestPort, procVars, main, ghostVars>>

\* Mutant: a busy endpoint is a failure like any other.
EndpointBusyFails(v) == StartFails(v)

\* A start that HNS says is busy is made once more, on another endpoint.
EndpointBusy(v) ==
  IF worker[v].again \/ worker[v].ep = None
  THEN StartFails(v)
  ELSE worker' = [worker EXCEPT ![v].again = TRUE, ![v].pc = "net"]

\* prepare_hcs_system: a system that is only created is rebuilt, a running one
\* is left; a creation that fails is torn down.
StartPreparesSystem(v) ==
  /\ At(v, "system")
  /\ \/ /\ sys[v].st = "running"
        /\ Goes(v, "boot")
        /\ UNCHANGED <<sys, faults>>
     \/ /\ sys[v].st # "running"
        /\ worker[v].ep \notin stuck
        /\ sys' = [sys EXCEPT ![v] = [st |-> "created", ep |-> worker[v].ep]]
        /\ \/ Goes(v, "boot") /\ NoFault
           \/ Fault /\ StartFails(v)   \* the console could not be opened
     \/ /\ sys[v].st # "running"
        /\ worker[v].ep \in stuck
        /\ sys' = [sys EXCEPT ![v] = NoSystem]
        /\ EndpointBusy(v)
        /\ NoFault
     \/ /\ Fault
        /\ StartFails(v)
        /\ \/ UNCHANGED sys
           \/ sys[v].st # "running" /\ sys' = [sys EXCEPT ![v] = NoSystem]
  /\ UNCHANGED <<storeVars, hns, stuck, diskVars, procVars, main, ghostVars>>

\* start_hcs_system; a build reads the mapping again, for the endpoint it has
\* now, and keeps the one it has if that fails.  That HNS holds the endpoint is
\* found when the system is built with it (StartPreparesSystem); a host that says
\* so only here takes the same path.
StartBoots(v) ==
  /\ At(v, "boot")
  /\ \/ /\ sys[v].st = "created"
        /\ sys' = [sys EXCEPT ![v].st = "running"]
        /\ adrift' = adrift \ {v}
        /\ IF worker[v].build
           THEN worker' = [worker EXCEPT
                  ![v].pc = "address",
                  ![v].m  = IF Readable /\ doc[v] # None THEN doc[v] ELSE @]
           ELSE Ends(v)
        /\ NoFault
     \/ sys[v].st # "created" /\ StartFails(v) /\ UNCHANGED <<sys, faults, adrift>>
     \/ Fault /\ StartFails(v) /\ UNCHANGED <<sys, adrift>>
  /\ UNCHANGED <<storeVars, hns, stuck, diskVars, procVars, main, debris, cut>>

-----------------------------------------------------------------------------
(* The wait for the guest: guest_ready.rs, and how a build ends: cycle.rs. *)

\* wait: without SSH there is nothing to wait for.
AwaitNothing(v) ==
  /\ At(v, "address")
  /\ worker[v].m.port = 0
  /\ Ends(v)
  /\ UNCHANGED <<storeVars, hostVars, diskVars, procVars, main, faults, ghostVars>>

\* Each phase ends with what it waits for, with its own deadline, or with the
\* build's cancellation.  A mapping without an endpoint never has an address.
AwaitGuest(v, step, next) ==
  /\ At(v, step)
  /\ worker[v].m.port # 0
  /\ \/ v \in cancelled /\ Goes(v, "stop")
     \/ v \notin cancelled /\ worker[v].m.ep # None /\ Goes(v, next)
     \/ v \notin cancelled /\ Ends(v)
  /\ UNCHANGED <<storeVars, hostVars, diskVars, procVars, main, faults, ghostVars>>

AwaitAddress(v) == AwaitGuest(v, "address", "port")

AwaitPort(v) == AwaitGuest(v, "port", "cloud")

AwaitCloudInit(v) ==
  /\ At(v, "cloud")
  /\ IF v \in cancelled THEN Goes(v, "stop") \/ Ends(v) ELSE Ends(v)
  /\ UNCHANGED <<storeVars, hostVars, diskVars, procVars, main, faults, ghostVars>>

\* roll_back of a running VM: force_stop takes the adapter off, best effort, and
\* terminates.  It fails without a fault of the host's on a document it cannot
\* read, one that another thread is writing; the deletion follows all the same.
BuildStops(v) ==
  /\ At(v, "stop")
  /\ Goes(v, "undo")
  /\ \/ ~(Readable /\ doc[v] # None) /\ UNCHANGED <<sys, stuck, faults>>
     \/ /\ Readable /\ doc[v] # None
        /\ \E failing \in SUBSET {"detach", "terminate"} :
             /\ sys' = IF "terminate" \in failing THEN sys ELSE [sys EXCEPT ![v] = NoSystem]
             /\ stuck' = IF failing = {"detach"}
                         THEN stuck \cup ({sys[v].ep} \ {None}) ELSE stuck
             /\ IF failing = {} THEN NoFault ELSE Fault
  /\ adrift' = IF sys'[v].st = "running" THEN adrift \cup {v} ELSE adrift
  /\ UNCHANGED <<storeVars, hns, diskVars, procVars, main, debris, cut>>

\* roll_back deletes with the pipeline of a deletion; what it reports is logged.
BuildUndoes(v) ==
  /\ At(v, "undo")
  /\ \/ /\ Readable /\ doc[v] # None
        /\ \E failing \in SUBSET Parts :
             /\ Teardown(v, doc[v], failing, TRUE)
             /\ IF failing = {} THEN Goes(v, "remove") ELSE Ends(v)
     \/ /\ ~(Readable /\ doc[v] # None)
        /\ Ends(v)
        /\ UNCHANGED <<hostVars, diskVars, faults>>
  /\ UNCHANGED <<storeVars, procVars, main, ghostVars>>

BuildRemoves(v) ==
  /\ At(v, "remove")
  /\ \/ Save(v, v, None) /\ Goes(v, "forget")
     \/ CannotSave /\ Ends(v) /\ UNCHANGED storeVars
  /\ UNCHANGED <<hostVars, diskVars, procVars, main, faults, ghostVars>>

BuildForgets(v) ==
  /\ At(v, "forget")
  /\ Ends(v)
  /\ UNCHANGED <<storeVars, hostVars, diskVars, procVars, main, faults, ghostVars>>

Worker(v) ==
  \/ CreateChecks(v) \/ CreateFiles(v) \/ CreateSystem(v) \/ CreateRegisters(v)
  \/ CreateRollsBack(v) \/ BuildContinues(v)
  \/ StartReads(v) \/ StartOffNetwork(v) \/ StartReuses(v) \/ StartCreatesEndpoint(v)
  \/ StartRecords(v) \/ StartRegistersAddress(v) \/ StartPreparesSystem(v) \/ StartBoots(v)
  \/ AwaitNothing(v) \/ AwaitAddress(v) \/ AwaitPort(v) \/ AwaitCloudInit(v)
  \/ BuildStops(v) \/ BuildUndoes(v) \/ BuildRemoves(v) \/ BuildForgets(v)

-----------------------------------------------------------------------------
(* The UI thread: repository.rs.                                           *)

Asked(op, v) ==
  /\ main = Idle
  /\ phase = "ready"
  /\ Allowed(op, v)
  /\ Free(v)

\* refuse_if_building, refuse_if_starting.
Unoccupied(v) == worker[v].pc = "idle"

\* create_vm spawns a build.
CreateVm(v) ==
  /\ Asked("create", v)
  /\ Readable /\ doc[v] = None
  /\ Unoccupied(v)
  /\ files[v] = {}
  /\ worker' = [worker EXCEPT ![v] = [NoWorker EXCEPT !.pc = "check", !.build = TRUE]]
  /\ cancelled' = cancelled \ {v}
  /\ Refreshes
  /\ UNCHANGED <<storeVars, hostVars, diskVars, phase, reported, faults, ghostVars>>

\* cancel_build: the build stops at its next checkpoint.
CancelBuild(v) ==
  /\ Asked("cancel", v)
  /\ worker[v].build
  /\ v \notin cancelled
  /\ cancelled' = cancelled \cup {v}
  /\ UNCHANGED <<storeVars, hostVars, diskVars, phase, reported, main, worker, faults,
                 ghostVars>>

StartVm(v) ==
  /\ Asked("start", v)
  /\ Unoccupied(v)
  /\ Readable /\ doc[v] # None
  /\ worker' = [worker EXCEPT ![v] = [NoWorker EXCEPT !.pc = "read"]]
  /\ Refreshes
  /\ UNCHANGED <<storeVars, hostVars, diskVars, procVars, faults, ghostVars>>

\* The mapping an edit of these fields asks for.
Edited(m, fields) ==
  [m EXCEPT !.net  = IF "net" \in fields THEN (IF @ = "nat" THEN "none" ELSE "nat") ELSE @,
            !.gpu  = IF "gpu" \in fields THEN (IF @ = "on" THEN "off" ELSE "on") ELSE @,
            !.disk = IF "disk" \in fields THEN @ + 1 ELSE @,
            !.port = IF "port" \in fields THEN 3 - @ ELSE @]

\* update_vm: neither the GPU nor the disk changes under a VM that is live, and
\* a disk only grows.
UpdateVm(v) ==
  /\ Asked("edit", v)
  /\ Unoccupied(v)
  /\ Readable /\ doc[v] # None
  /\ \E fields \in Edits :
       /\ fields \cap {"gpu", "disk"} # {} => sys[v].st # "running"
       /\ "disk" \in fields => doc[v].disk < MaxDisk
       /\ "port" \in fields => doc[v].port # 0
       /\ main' = [Idle EXCEPT !.pc  = IF "disk" \in fields THEN "grow" ELSE "config",
                               !.vm  = v,
                               !.m   = doc[v],
                               !.req = Edited(doc[v], fields)]
  /\ UNCHANGED <<storeVars, hostVars, diskVars, procVars, worker, faults, ghostVars>>

\* vhd::expand_vhdx.
UpdateGrows ==
  /\ MainAt("grow")
  /\ \/ /\ "disk" \in files[main.vm]
        /\ vhd' = [vhd EXCEPT ![main.vm] = main.req.disk]
        /\ MainGoes("grown")
        /\ NoFault
     \/ "disk" \notin files[main.vm] /\ Refused /\ UNCHANGED <<vhd, faults>>
     \/ Fault /\ Refused /\ UNCHANGED vhd
  /\ UNCHANGED <<storeVars, hostVars, files, adapter, guestPort, procVars, worker, ghostVars>>

\* One field of an edit is recorded by writing the whole mapping back, as the
\* edit knows it, if the field changed.
RecordField(step, field, next) ==
  /\ MainAt(step)
  /\ \/ main.m[field] = main.req[field] /\ MainGoes(next) /\ UNCHANGED storeVars
     \/ /\ main.m[field] # main.req[field]
        /\ Save("main", main.vm, [main.m EXCEPT ![field] = main.req[field]])
        /\ MainGoes(next)
     \/ main.m[field] # main.req[field] /\ CannotSave /\ Refused /\ UNCHANGED storeVars
  /\ UNCHANGED <<hostVars, diskVars, procVars, worker, faults, ghostVars>>

\* Mutant: the edit goes on with the size it read.
RecordDiskSizeStale ==
  /\ MainAt("grown")
  /\ \/ /\ Save("main", main.vm, [main.m EXCEPT !.disk = main.req.disk])
        /\ MainGoes("config")
     \/ CannotSave /\ Refused /\ UNCHANGED storeVars
  /\ UNCHANGED <<hostVars, diskVars, procVars, worker, faults, ghostVars>>

\* record_disk_size, after which the edit knows the new size.
RecordDiskSize ==
  /\ MainAt("grown")
  /\ \/ /\ Save("main", main.vm, [main.m EXCEPT !.disk = main.req.disk])
        /\ main' = [main EXCEPT !.pc = "config", !.m.disk = main.req.disk]
     \/ CannotSave /\ Refused /\ UNCHANGED storeVars
  /\ UNCHANGED <<hostVars, diskVars, procVars, worker, faults, ghostVars>>

\* apply_topology, and the configuration is written back.
UpdateConfigures ==
  /\ MainAt("config")
  /\ \/ "config" \in files[main.vm] /\ MainGoes("network") /\ NoFault
     \/ "config" \notin files[main.vm] /\ Refused /\ NoFault
     \/ Fault /\ Refused
  /\ UNCHANGED <<storeVars, hostVars, diskVars, procVars, worker, ghostVars>>

RecordNetworkMode == RecordField("network", "net", "gpu")

RecordGpuMode == RecordField("gpu", "gpu", "port")

\* move_port asks the guest over the recorded port and at the recorded
\* endpoint's address.
Reachable(v, m) ==
  /\ sys[v].st = "running"
  /\ m.ep # None /\ HnsHas(m.ep) /\ m.ep = sys[v].ep
  /\ guestPort[v] = m.port

\* write_command and restart_command, run by the guest.
GuestWrites(v, port) == guestPort' = [guestPort EXCEPT ![v] = port]

\* The guest's files are written first.  A command that fails or outlives
\* COMMAND_TIMEOUT is a refusal, whether or not the guest has run it.
MoveSshPort ==
  /\ MainAt("port")
  /\ LET v == main.vm IN
     \/ /\ main.req.port = main.m.port
        /\ MainGoes("accepted")
        /\ UNCHANGED <<guestPort, faults, cut>>
     \/ /\ main.req.port # main.m.port /\ Reachable(v, main.m)
        /\ GuestWrites(v, main.req.port)
        /\ \/ MainGoes("moved") /\ UNCHANGED <<faults, cut>>
           \/ Fault /\ Refused /\ cut' = cut \cup {v}
     \/ /\ main.req.port # main.m.port
        /\ \/ ~Reachable(v, main.m) /\ NoFault
           \/ Fault
        /\ Refused
        /\ UNCHANGED <<guestPort, cut>>
  /\ UNCHANGED <<storeVars, hostVars, files, vhd, adapter, procVars, worker, debris, adrift>>

\* The record follows the guest.
RecordSshPort ==
  /\ MainAt("moved")
  /\ \/ /\ Save("main", main.vm, [main.m EXCEPT !.port = main.req.port])
        /\ MainGoes("accepted")
        /\ UNCHANGED cut
     \/ CannotSave /\ Refused /\ UNCHANGED storeVars /\ cut' = cut \cup {main.vm}
  /\ UNCHANGED <<hostVars, diskVars, procVars, worker, faults, debris, adrift>>

UpdateReturns ==
  /\ MainAt("accepted")
  /\ Refreshes
  /\ UNCHANGED <<storeVars, hostVars, diskVars, procVars, worker, faults, ghostVars>>

\* Mutant: the mapping goes whatever could not be removed.
DeleteVmRegardless(v, disks) ==
  /\ Asked("delete", v)
  /\ Unoccupied(v)
  /\ Readable /\ doc[v] # None
  /\ sys[v].st # "running"
  /\ reported' = reported \ {v}
  /\ \E failing \in SUBSET Parts : Teardown(v, doc[v], failing, disks)
  /\ main' = [Idle EXCEPT !.pc = "remove", !.vm = v]
  /\ UNCHANGED <<storeVars, phase, cancelled, worker, ghostVars>>

\* delete_vm: the mapping goes only if everything else has.
DeleteVm(v, disks) ==
  /\ Asked("delete", v)
  /\ Unoccupied(v)
  /\ Readable /\ doc[v] # None
  /\ sys[v].st # "running"
  /\ reported' = reported \ {v}
  /\ \E failing \in SUBSET Parts :
       /\ Teardown(v, doc[v], failing, disks)
       /\ IF failing = {}
          THEN main' = [Idle EXCEPT !.pc = "remove", !.vm = v]
          ELSE Refused
  /\ UNCHANGED <<storeVars, phase, cancelled, worker, ghostVars>>

DeleteRemoves ==
  /\ MainAt("remove")
  /\ \/ Save("main", main.vm, None) /\ MainGoes("gone")
     \/ CannotSave /\ Refused /\ UNCHANGED storeVars
  /\ UNCHANGED <<hostVars, diskVars, procVars, worker, faults, ghostVars>>

DeleteReturns ==
  /\ MainAt("gone")
  /\ Refreshes
  /\ UNCHANGED <<storeVars, hostVars, diskVars, procVars, worker, faults, ghostVars>>

\* The application's tick.
Tick ==
  /\ main = Idle
  /\ phase = "ready"
  /\ Refreshes
  /\ UNCHANGED <<storeVars, hostVars, diskVars, procVars, worker, faults, ghostVars>>

\* A listing that fails makes the backend unavailable, for good.
ListVms ==
  /\ MainAt("rows")
  /\ phase' = IF Readable THEN phase ELSE "unavailable"
  /\ MainGoes("desks")
  /\ UNCHANGED <<storeVars, hostVars, diskVars, reported, cancelled, worker, faults, ghostVars>>

\* record_installed_desktops reads the list once ...
ListDesktops ==
  /\ MainAt("desks")
  /\ main' = IF Readable THEN [main EXCEPT !.pc = "desk", !.snap = doc] ELSE Idle
  /\ UNCHANGED <<storeVars, hostVars, diskVars, procVars, worker, faults, ghostVars>>

Waiting == {v \in VMs : /\ main.snap[v] # None
                        /\ main.snap[v].desk = "requested"
                        /\ v \in reported}

\* ... and writes back, whole, each mapping whose guest has reported.
RecordDesktop ==
  /\ MainAt("desk")
  /\ \E v \in Waiting :
       /\ \/ Save("main", v, [main.snap[v] EXCEPT !.desk = "ready"])
          \/ CannotSave /\ UNCHANGED storeVars
       /\ main' = [main EXCEPT !.snap[v] = None]
  /\ UNCHANGED <<hostVars, diskVars, procVars, worker, faults, ghostVars>>

\* The refresh is over; the exits it drained have their reports forgotten.
EndRefresh ==
  /\ MainAt("desk")
  /\ Waiting = {}
  /\ main' = Idle
  /\ \E gone \in SUBSET {v \in reported : sys[v].st # "running"} :
       reported' = reported \ gone
  /\ UNCHANGED <<storeVars, hostVars, diskVars, phase, cancelled, worker, faults, ghostVars>>

\* orphan_endpoints: what list_in_vmlord_network finds and no mapping names.
Orphans == {e \in hns : \A v \in VMs : doc[v] # None => doc[v].ep # e}

\* initialize, with remove_orphan_endpoints.
Initialize ==
  /\ phase = "fresh"
  /\ \/ ~Readable /\ phase' = "unavailable" /\ UNCHANGED <<hns, stuck, faults>>
     \/ /\ Readable
        /\ phase' = "ready"
        /\ \/ Exchanged(Orphans, {}) /\ NoFault
           \/ Fault /\ UNCHANGED <<hns, stuck>>
  /\ UNCHANGED <<storeVars, sys, diskVars, reported, cancelled, main, worker, ghostVars>>

-----------------------------------------------------------------------------
(* Outside VMLord.                                                         *)

\* A VM stops; HNS may keep its endpoint attached to what is gone.
GuestExits(v) ==
  /\ Allowed("exit", v)
  /\ sys[v].st = "running"
  /\ sys' = [sys EXCEPT ![v] = NoSystem]
  /\ \/ UNCHANGED <<stuck, faults>>
     \/ Fault /\ stuck' = stuck \cup ({sys[v].ep} \ {None})
  /\ UNCHANGED <<storeVars, hns, diskVars, procVars, main, worker, ghostVars>>

\* An agent connection reports the guest's display ready.
GuestReports(v) ==
  /\ Allowed("report", v)
  /\ phase # "fresh"
  /\ sys[v].st = "running"
  /\ reported' = reported \cup {v}
  /\ UNCHANGED <<storeVars, hostVars, diskVars, phase, cancelled, main, worker, faults,
                 ghostVars>>

\* VMLord is killed, and the VMs go on.
Kill ==
  /\ phase # "fresh"
  /\ Fault
  /\ phase' = "fresh"
  /\ pen' = NoPen
  /\ main' = Idle
  /\ worker' = [v \in VMs |-> NoWorker]
  /\ reported' = {} /\ cancelled' = {}
  /\ debris' = debris \cup {v \in VMs : worker[v].build}
  /\ cut' = IF main.pc = "moved" \/ (main.pc = "accepted" /\ ~Free("main"))
            THEN cut \cup {main.vm} ELSE cut
  /\ UNCHANGED <<doc, hostVars, diskVars, adrift>>

Main ==
  \/ UpdateGrows \/ RecordDiskSize \/ UpdateConfigures \/ RecordNetworkMode
  \/ RecordGpuMode \/ MoveSshPort \/ RecordSshPort \/ UpdateReturns
  \/ DeleteRemoves \/ DeleteReturns
  \/ ListVms \/ ListDesktops \/ RecordDesktop \/ EndRefresh

User(v) ==
  \/ CreateVm(v) \/ CancelBuild(v) \/ StartVm(v) \/ UpdateVm(v)
  \/ \E disks \in BOOLEAN : DeleteVm(v, disks)

Next ==
  \/ WriteOut \/ WriteFails
  \/ Main \/ Tick \/ Initialize \/ Kill
  \/ \E v \in VMs : Worker(v) \/ User(v) \/ GuestExits(v) \/ GuestReports(v)

Spec == Init /\ [][Next]_vars

-----------------------------------------------------------------------------
(* Properties.                                                             *)

\* An edit that is accepted is recorded, all of it.
EditsTakeEffect ==
  main.pc = "accepted" /\ Content # Torn =>
    \A f \in Fields : Content[main.vm][f] = main.req[f]

\* A VM that VMLord has forgotten has no compute system and, but for a disk that
\* was to be kept, no files: deletions, failed creations and cancelled builds
\* remove what there is before the mapping.
ForgottenLeavesNothing ==
  Content # Torn =>
    \A v \in VMs : Content[v] = None /\ Unoccupied(v) /\ v \notin debris =>
      sys[v] = NoSystem /\ files[v] \subseteq {"disk"}

\* The endpoint a running VM is attached to is not deleted under it, neither as an
\* orphan when VMLord starts again (initialize) nor to be replaced (start.rs).  The
\* one exception is a VM that the rollback of its build was to stop and could not
\* (roll_back goes on to delete it): its endpoint may go while it runs.
RunningKeepsItsEndpoint ==
  \A v \in VMs \ adrift :
    sys[v].st = "running" /\ sys[v].ep # None => sys[v].ep \in hns

\* The recorded SSH port is the one the guest's configuration names.
PortsAgree ==
  Content # Torn =>
    \A v \in VMs :
      /\ Content[v] # None
      /\ v \notin cut
      /\ ~(main.vm = v /\ main.pc = "moved")
      => Content[v].port = guestPort[v]

\* The recorded size is never more than the disk's.
DiskHoldsItsRecord ==
  Content # Torn =>
    \A v \in VMs : Content[v] # None => Content[v].disk <= vhd[v]

\* A start fails for a reason: a call that failed, a document or a configuration
\* that could not be read, or a VM that was running when it was asked for.  An
\* endpoint that HNS still holds is not one: it is replaced.
StartsFailForAReason ==
  [][\A v \in VMs :
       /\ worker[v].pc \in {"net", "record", "dhcp", "system", "boot"}
       /\ worker'[v].pc \in {"idle", "undo"}
       /\ phase' = phase /\ faults' = faults
       => \/ sys'[v].st = "running"
          \/ CannotSave
          \/ worker[v].pc = "boot" /\ sys[v].st # "created"]_vars

\* What VMLord has recorded of a VM is so: the edits it accepted (update_vm), the
\* port (move_ssh_port) and the size of the disk (record_disk_size), through the
\* whole-mapping writes of three threads, failed calls and kills.
RecordsAreTrue == TypeOK /\ EditsTakeEffect /\ PortsAgree /\ DiskHoldsItsRecord
=============================================================================
