-------------------------- MODULE VmRecordsProofs --------------------------
(***************************************************************************)
(* What the mapping document says of every VM is so, and what it has       *)
(* forgotten is gone, for any number of VMs, endpoints, faults and kills.  *)
(*                                                                         *)
(* The argument goes VM by VM.  Three threads hold copies of a VM's        *)
(* mapping -- the worker that starts it, the edit, the refresh -- and each *)
(* writes its copy back whole.  `RInv` says of every copy what it says of  *)
(* the document: that its port is the guest's and its disk fits.  A step   *)
(* of one VM leaves the others as they are (`Apart`), whatever it does to  *)
(* the document they share.  For the endpoints, `NInv` says that no two    *)
(* VMs have one in common, and `AInv` that the document names the one a    *)
(* running VM is on.                                                       *)
(***************************************************************************)
EXTENDS VmRecords, TLAPS

-----------------------------------------------------------------------------
(* Typing: which copies there are at which step.                           *)

EditSteps == {"grow", "grown", "config", "network", "gpu", "port", "moved", "accepted"}

\* The steps before the mapping exists, and those at which it does.
CreateSteps == {"check", "files", "create", "register", "rollback"}
StartSteps  == {"built", "read", "net", "record", "dhcp", "system", "boot",
                "address", "port", "cloud", "stop", "undo"}

\* The steps at which the worker will use its copy of the mapping.
CopySteps == {"files", "create", "register", "net", "record", "dhcp", "system", "boot",
              "address", "port", "cloud"}

PenTyped == pen # NoPen => pen.by \in Threads /\ pen.doc \in Documents /\ doc = Torn

WorkersTyped == \A v \in VMs : worker[v].pc \in CopySteps => worker[v].m \in Mappings

MainTyped ==
  /\ main.pc \in EditSteps => main.vm \in VMs /\ main.m \in Mappings /\ main.req \in Mappings
  /\ main.pc = "remove" => main.vm \in VMs
  /\ main.pc = "desk" => main.snap \in Documents

TInv == TypeOK /\ PenTyped /\ WorkersTyped /\ MainTyped

-----------------------------------------------------------------------------
(* The records of one VM.                                                  *)

Recorded(v) == Content # Torn /\ Content[v] # None

Editing(v) == main.pc \in EditSteps /\ main.vm = v

\* A creation has no mapping yet, anywhere; a start has one.
Stages(v) ==
  /\ worker[v].pc \in CreateSteps => ~Recorded(v)
  /\ worker[v].pc \in CreateSteps /\ (Content # Torn \/ worker[v].pc # "rollback") =>
       (main.pc = "desk" => main.snap[v] = None)
  /\ worker[v].pc \in StartSteps => Content = Torn \/ Recorded(v)
  /\ Editing(v) => worker[v].pc = "idle" /\ (Content = Torn \/ Recorded(v))
  /\ main.pc = "remove" /\ main.vm = v => worker[v].pc = "idle"

\* What a creation has not made yet, a removal has removed, and a VM without a
\* mapping does not have.
Remains(v) ==
  /\ worker[v].pc \in {"check", "files"} => files[v] = {}
  /\ worker[v].pc \in {"register", "built"} => worker[v].made
  /\ worker[v].pc \in {"check", "files", "create", "register", "rollback", "built"} =>
       worker[v].build
  /\ worker[v].pc \in {"remove", "forget"} => sys[v] = NoSystem /\ files[v] = {}
  /\ main.pc = "remove" /\ main.vm = v => sys[v] = NoSystem /\ files[v] \subseteq {"disk"}
  /\ v \notin debris =>
       /\ worker[v].pc \in {"check", "files", "create"} => sys[v] = NoSystem
       /\ worker[v].pc = "rollback" /\ ~worker[v].made => sys[v] = NoSystem
       /\ worker[v].pc = "idle" /\ Content # Torn /\ Content[v] = None =>
            sys[v] = NoSystem /\ files[v] \subseteq {"disk"}

\* The copies of the mapping that are written back.
WritesBack == {"create", "register", "net", "record", "dhcp", "system"}

Ports(v) ==
  /\ v \notin cut =>
       /\ Recorded(v) /\ ~(main.vm = v /\ main.pc = "moved") => Content[v].port = guestPort[v]
       /\ worker[v].pc \in WritesBack => worker[v].m.port = guestPort[v]
       /\ main.pc = "desk" /\ main.snap[v] # None => main.snap[v].port = guestPort[v]
       /\ Editing(v) /\ main.pc \notin {"moved", "accepted"} => main.m.port = guestPort[v]
  /\ Editing(v) /\ main.pc = "moved" => main.req.port = guestPort[v]

Disks(v) ==
  /\ Recorded(v) => Content[v].disk <= vhd[v]
  /\ worker[v].pc \in WritesBack => worker[v].m.disk <= vhd[v]
  /\ main.pc = "desk" /\ main.snap[v] # None => main.snap[v].disk <= vhd[v]
  /\ Editing(v) =>
       /\ main.m.disk <= main.req.disk
       /\ main.m.disk <= vhd[v]
       /\ main.pc = "grow" /\ Recorded(v) => Content[v].disk <= main.req.disk
       /\ main.pc # "grow" => main.req.disk <= vhd[v]
       /\ main.pc \notin {"grow", "grown"} => main.m.disk = main.req.disk

RInv == \A v \in VMs : Stages(v) /\ Remains(v) /\ Ports(v) /\ Disks(v)

-----------------------------------------------------------------------------
(* An edit, when it changes one recorded field at most.                    *)

\* Edits of which no two fields are recorded after one another from the same
\* copy of the mapping; the size of the disk is written into the copy.
OneRecordPerEdit ==
  \A fields \in Edits : \A f, g \in fields \ {"disk"} : f = g

Alters(f) == main.m[f] # main.req[f]

\* Each field is as the edit asks from the step that records it on.
EInv ==
  main.pc \in EditSteps =>
    /\ ~(Alters("net") /\ Alters("gpu"))
    /\ ~(Alters("net") /\ Alters("port"))
    /\ ~(Alters("gpu") /\ Alters("port"))
    /\ main.pc = "moved" => Alters("port")
    /\ Recorded(main.vm) =>
         /\ Content[main.vm].disk =
              IF main.pc \in {"grow", "grown"} THEN main.m.disk ELSE main.req.disk
         /\ Content[main.vm].net =
              IF main.pc \in {"grow", "grown", "config", "network"}
              THEN main.m.net ELSE main.req.net
         /\ Content[main.vm].gpu =
              IF main.pc \in {"grow", "grown", "config", "network", "gpu"}
              THEN main.m.gpu ELSE main.req.gpu
         /\ Content[main.vm].port =
              IF main.pc = "accepted" THEN main.req.port ELSE main.m.port

-----------------------------------------------------------------------------
(* The document.                                                           *)

LEMMA ContentTyped ==
  ASSUME TInv
  PROVE  Content \in Documents \cup {Torn}
BY DEF TInv, TypeOK, PenTyped, Content

LEMMA ReadableIs ==
  ASSUME TInv, Readable
  PROVE  pen = NoPen /\ Content = doc /\ doc \in Documents /\ doc # Torn
BY DEF TInv, TypeOK, PenTyped, Content, Readable

LEMMA SaveIs ==
  ASSUME TInv, NEW thread \in Threads, NEW v \in VMs, NEW mapping \in Mappings \cup {None},
         Save(thread, v, mapping)
  PROVE  /\ doc' = Torn /\ pen' \in Pens /\ PenTyped'
         /\ Content = doc /\ Content # Torn /\ Content \in Documents
         /\ Content' \in Documents /\ Content' # Torn
         /\ Content'[v] = mapping
         /\ \A u \in VMs \ {v} : Content'[u] = Content[u]
<1>1. pen = NoPen /\ Content = doc /\ doc \in Documents /\ doc # Torn
  BY ReadableIs DEF Save
<1> DEFINE d == [doc EXCEPT ![v] = mapping]
<1>2. /\ d \in Documents /\ d[v] = mapping
      /\ \A u \in VMs \ {v} : d[u] = doc[u]
  BY <1>1 DEF Documents
<1>3. pen' = [by |-> thread, doc |-> d] /\ doc' = Torn
  BY DEF Save
<1> HIDE DEF d
<1>4. pen' \in Pens /\ pen'.doc = d /\ pen'.by = thread
  BY <1>2, <1>3 DEF Pens
<1>5. thread # None
  BY ConstantsAssumption
<1>6. pen' # NoPen
  BY <1>4, <1>5 DEF NoPen
<1>7. Content' = d
  BY <1>4, <1>6 DEF Content
<1>8. d # Torn
  BY <1>2, ConstantsAssumption
<1> QED
  BY <1>1, <1>2, <1>3, <1>4, <1>7, <1>8 DEF PenTyped

LEMMA SameStore ==
  ASSUME TInv, UNCHANGED storeVars
  PROVE  doc' = doc /\ pen' = pen /\ Content' = Content /\ PenTyped'
BY DEF storeVars, Content, TInv, PenTyped

-----------------------------------------------------------------------------
(* A worker's own step.                                                    *)

\* Only v's worker moves, to the given step, and keeps what it has.
Moves(v, step) ==
  /\ worker' \in [VMs -> Workers]
  /\ worker'[v].pc = step
  /\ worker'[v].m = worker[v].m /\ worker'[v].ep = worker[v].ep
  /\ worker'[v].build = worker[v].build
  /\ worker'[v].again = worker[v].again /\ worker'[v].made = worker[v].made
  /\ \A u \in VMs \ {v} : worker'[u] = worker[u]

Stops(v) ==
  /\ worker' \in [VMs -> Workers]
  /\ worker'[v] = NoWorker
  /\ worker'[v].pc = "idle"
  /\ \A u \in VMs \ {v} : worker'[u] = worker[u]

LEMMA GoesIs ==
  ASSUME worker \in [VMs -> Workers], NEW v \in VMs, NEW step \in WorkerSteps, Goes(v, step)
  PROVE  Moves(v, step)
BY DEF Goes, Moves, Workers

LEMMA EndsIs ==
  ASSUME worker \in [VMs -> Workers], NEW v \in VMs, Ends(v)
  PROVE  Stops(v)
<1>1. NoWorker \in Workers /\ NoWorker.pc = "idle"
  BY DEF NoWorker, Workers, WorkerSteps
<1>2. worker' = [worker EXCEPT ![v] = NoWorker]
  BY DEF Ends
<1> QED
  BY <1>1, <1>2 DEF Stops

LEMMA StartFailsIs ==
  ASSUME worker \in [VMs -> Workers], NEW v \in VMs, StartFails(v)
  PROVE  (worker[v].build /\ Moves(v, "undo")) \/ Stops(v)
<1>1. CASE worker[v].build
  BY <1>1, GoesIs DEF StartFails, WorkerSteps
<1>2. CASE ~worker[v].build
  BY <1>2, EndsIs DEF StartFails
<1> QED
  BY <1>1, <1>2

\* Only v's worker moves, with another copy of the mapping or another endpoint.
Turns(v, w) ==
  /\ worker' = [worker EXCEPT ![v] = w]
  /\ w \in Workers

LEMMA TurnsIs ==
  ASSUME worker \in [VMs -> Workers], NEW v \in VMs, NEW w, Turns(v, w)
  PROVE  /\ worker' \in [VMs -> Workers] /\ worker'[v] = w
         /\ \A u \in VMs \ {v} : worker'[u] = worker[u]
BY DEF Turns

-----------------------------------------------------------------------------
(* Typing.                                                                 *)

\* A step of v's worker types if its own copy does.
LEMMA WorkerTypes ==
  ASSUME TInv, NEW v \in VMs, worker' \in [VMs -> Workers],
         \A u \in VMs \ {v} : worker'[u] = worker[u],
         worker'[v].pc \in CopySteps => worker'[v].m \in Mappings
  PROVE  WorkersTyped'
BY DEF TInv, WorkersTyped

LEMMA MoveTypes ==
  ASSUME TInv, NEW v \in VMs, NEW step, Moves(v, step),
         step \in CopySteps => worker[v].pc \in CopySteps
  PROVE  WorkersTyped' /\ worker' \in [VMs -> Workers]
<1>1. worker[v].pc \in CopySteps => worker[v].m \in Mappings
  BY DEF TInv, WorkersTyped
<1> QED
  BY <1>1, WorkerTypes DEF Moves

LEMMA StopTypes ==
  ASSUME TInv, NEW v \in VMs, Stops(v)
  PROVE  WorkersTyped' /\ worker' \in [VMs -> Workers]
BY WorkerTypes DEF Stops, CopySteps

LEMMA FailTypes ==
  ASSUME TInv, NEW v \in VMs, StartFails(v)
  PROVE  WorkersTyped' /\ worker' \in [VMs -> Workers]
<1>1. worker \in [VMs -> Workers]
  BY DEF TInv, TypeOK
<1>2. CASE Moves(v, "undo")
  BY <1>2, MoveTypes DEF CopySteps
<1>3. CASE Stops(v)
  BY <1>3, StopTypes
<1> QED
  BY <1>1, <1>2, <1>3, StartFailsIs

\* The UI thread goes to another step of the same operation.
MainMoves(step) ==
  /\ main' \in Mains
  /\ main'.pc = step /\ main'.vm = main.vm /\ main'.m = main.m
  /\ main'.req = main.req /\ main'.snap = main.snap

LEMMA MainGoesIs ==
  ASSUME main \in Mains, NEW step \in MainSteps, MainGoes(step)
  PROVE  MainMoves(step)
BY DEF MainGoes, MainMoves, Mains

\* The UI thread is over with its operation: refused, or followed by a refresh.
MainLeaves == main' \in Mains /\ main'.pc \in {"idle", "rows"}

LEMMA RefusedIs ==
  ASSUME Refused
  PROVE  MainLeaves /\ main'.pc = "idle"
BY DEF Refused, MainLeaves, Idle, Mains, MainSteps

LEMMA RefreshesIs ==
  ASSUME Refreshes
  PROVE  MainLeaves /\ main'.pc = "rows"
<1>1. main' = [pc |-> "rows", vm |-> None, m |-> None, req |-> None, snap |-> None]
  BY DEF Refreshes, Idle
<1> QED
  BY <1>1 DEF MainLeaves, Mains, MainSteps

LEMMA LeaveTypes ==
  ASSUME MainLeaves
  PROVE  MainTyped'
BY DEF MainLeaves, MainTyped, EditSteps

LEMMA MainMoveTypes ==
  ASSUME TInv, NEW step, MainMoves(step),
         step \in EditSteps => main.pc \in EditSteps,
         step = "remove" => main.pc = "remove",
         step = "desk" => main.pc = "desk"
  PROVE  MainTyped' /\ main' \in Mains
BY DEF TInv, MainTyped, MainMoves

LEMMA MainSame ==
  ASSUME TInv, UNCHANGED main
  PROVE  MainTyped' /\ main' \in Mains
BY DEF TInv, TypeOK, MainTyped

LEMMA WorkerSame ==
  ASSUME TInv, UNCHANGED worker
  PROVE  WorkersTyped' /\ worker' \in [VMs -> Workers]
BY DEF TInv, TypeOK, WorkersTyped

LEMMA FaultIs ==
  ASSUME TInv, Fault \/ NoFault
  PROVE  faults' \in 0..MaxFaults
BY ConstantsAssumption DEF TInv, TypeOK, Fault, NoFault

\* The parts of the state that are functions of a VM.
DisksTyped ==
  /\ sys \in [VMs -> Systems]
  /\ files \in [VMs -> SUBSET FileKinds]
  /\ vhd \in [VMs -> 0..MaxDisk]
  /\ adapter \in [VMs -> Endpoints \cup {None}]
  /\ guestPort \in [VMs -> 0..2]

\* The parts that are sets or flags.
SetsTyped ==
  /\ hns \subseteq Endpoints /\ stuck \subseteq Endpoints
  /\ phase \in {"fresh", "ready", "unavailable"}
  /\ reported \subseteq VMs /\ cancelled \subseteq VMs
  /\ debris \subseteq VMs /\ adrift \subseteq VMs /\ cut \subseteq VMs

StoreTyped == doc \in Documents \cup {Torn} /\ pen \in Pens /\ PenTyped

LEMMA Types ==
  TInv <=> /\ StoreTyped /\ DisksTyped /\ SetsTyped
           /\ main \in Mains /\ MainTyped
           /\ worker \in [VMs -> Workers] /\ WorkersTyped
           /\ faults \in 0..MaxFaults
BY DEF TInv, TypeOK, StoreTyped, DisksTyped, SetsTyped

LEMMA TypesNext ==
  ASSUME StoreTyped', DisksTyped', SetsTyped', main' \in Mains, MainTyped',
         worker' \in [VMs -> Workers], WorkersTyped', faults' \in 0..MaxFaults
  PROVE  TInv'
BY DEF TInv, TypeOK, StoreTyped, DisksTyped, SetsTyped

LEMMA StoreSameTypes ==
  ASSUME TInv, UNCHANGED storeVars
  PROVE  StoreTyped'
BY Types, SameStore DEF StoreTyped

LEMMA SaveTypes ==
  ASSUME TInv, NEW thread \in Threads, NEW v \in VMs, NEW mapping \in Mappings \cup {None},
         Save(thread, v, mapping)
  PROVE  StoreTyped'
BY SaveIs DEF StoreTyped

LEMMA NoSystemTyped == NoSystem \in Systems
BY DEF NoSystem, Systems

LEMMA MappingFields ==
  ASSUME NEW m \in Mappings
  PROVE  /\ m.ep \in Endpoints \cup {None} /\ m.net \in {"nat", "none"}
         /\ m.gpu \in {"off", "on"} /\ m.disk \in 1..MaxDisk /\ m.port \in 0..2
         /\ m.desk \in {"requested", "ready"}
BY DEF Mappings

LEMMA FreshTyped ==
  ASSUME NEW v
  PROVE  Fresh(v) \in Mappings
BY ConstantsAssumption DEF Fresh, Mappings

LEMMA TeardownTypes ==
  ASSUME TInv, NEW v \in VMs, NEW m \in Mappings, NEW failing, NEW disks,
         Teardown(v, m, failing, disks)
  PROVE  /\ DisksTyped' /\ faults' \in 0..MaxFaults
         /\ hns' \subseteq Endpoints /\ stuck' \subseteq Endpoints
<1>1. sys' \in [VMs -> Systems]
  BY NoSystemTyped, Types DEF Teardown, DisksTyped
<1>2. files' \in [VMs -> SUBSET FileKinds]
  BY Types DEF Teardown, DisksTyped
<1>3. faults' \in 0..MaxFaults
  BY FaultIs DEF Teardown
<1>4. hns' \subseteq Endpoints /\ stuck' \subseteq Endpoints
  BY Types DEF Teardown, SetsTyped
<1> QED
  BY <1>1, <1>2, <1>3, <1>4, Types DEF Teardown, DisksTyped

LEMMA InitTypes == Init => TInv
<1> SUFFICES ASSUME Init PROVE TInv
  OBVIOUS
<1>1. \A v \in VMs : Fresh(v) \in Mappings
  BY FreshTyped
<1>2. StoreTyped
  BY <1>1 DEF Init, StoreTyped, PenTyped, Documents, NoPen, Pens
<1>3. DisksTyped
  <2>1. \A v \in VMs : Fresh(v).port \in 0..2
    BY <1>1, MappingFields
  <2> QED
    BY <2>1, NoSystemTyped, ConstantsAssumption DEF Init, DisksTyped
<1>4. SetsTyped
  BY DEF Init, SetsTyped
<1>5. main \in Mains /\ MainTyped
  BY DEF Init, Idle, Mains, MainSteps, MainTyped, EditSteps
<1>6. worker \in [VMs -> Workers] /\ WorkersTyped
  BY DEF Init, NoWorker, Workers, WorkerSteps, WorkersTyped, CopySteps
<1>7. faults \in 0..MaxFaults
  BY ConstantsAssumption DEF Init
<1> QED
  BY <1>2, <1>3, <1>4, <1>5, <1>6, <1>7, Types

LEMMA SetsSame ==
  ASSUME TInv, UNCHANGED <<hns, stuck, phase, reported, cancelled, adrift, cut>>,
         debris' \subseteq VMs
  PROVE  SetsTyped'
BY Types DEF SetsTyped

LEMMA DisksSame ==
  ASSUME TInv, UNCHANGED <<sys, diskVars>>
  PROVE  DisksTyped'
BY Types DEF DisksTyped, diskVars

LEMMA FaultsSame ==
  ASSUME TInv, UNCHANGED faults
  PROVE  faults' \in 0..MaxFaults
BY Types

\* A step that changes nothing but the worker, and perhaps the document.
LEMMA QuietTypes ==
  ASSUME TInv, UNCHANGED <<hostVars, diskVars, procVars, main, faults, ghostVars>>,
         StoreTyped', worker' \in [VMs -> Workers], WorkersTyped'
  PROVE  TInv'
<1>1. SetsTyped'
  BY SetsSame, Types DEF SetsTyped, hostVars, procVars, ghostVars
<1>2. DisksTyped'
  BY DisksSame DEF hostVars
<1>3. MainTyped' /\ main' \in Mains
  BY MainSame
<1> QED
  BY <1>1, <1>2, <1>3, FaultsSame, TypesNext

LEMMA CopyTyped ==
  ASSUME TInv, NEW v \in VMs, worker[v].pc \in CopySteps
  PROVE  worker[v].m \in Mappings
BY DEF TInv, WorkersTyped

LEMMA TypesOfCreation ==
  ASSUME TInv, NEW v \in VMs,
         CreateChecks(v) \/ CreateFiles(v) \/ CreateSystem(v) \/ CreateRegisters(v)
         \/ CreateRollsBack(v) \/ BuildContinues(v)
  PROVE  TInv'
<1>0. /\ worker \in [VMs -> Workers] /\ worker[v] \in Workers /\ v \in Threads
      /\ {"files", "create", "register", "rollback", "built", "undo", "read"} \subseteq WorkerSteps
  BY Types DEF WorkerSteps, Threads
<1>1. CASE CreateChecks(v)
  <2>1. StoreTyped'
    BY <1>1, StoreSameTypes DEF CreateChecks
  <2>2. CASE Ends(v)
    BY <2>1, <2>2, <1>0, <1>1, EndsIs, StopTypes, QuietTypes DEF CreateChecks
  <2>3. CASE worker' = [worker EXCEPT ![v].pc = "files", ![v].m = Fresh(v)]
    <3>1. /\ worker' \in [VMs -> Workers] /\ worker'[v].m = Fresh(v)
          /\ \A u \in VMs \ {v} : worker'[u] = worker[u]
      BY <2>3, <1>0, FreshTyped DEF Workers
    <3>2. WorkersTyped'
      BY <3>1, FreshTyped, WorkerTypes
    <3> QED
      BY <3>1, <3>2, <2>1, <1>1, QuietTypes DEF CreateChecks
  <2> QED
    BY <2>2, <2>3, <1>1 DEF CreateChecks
<1>2. CASE CreateFiles(v)
  <2>1. worker[v].pc = "files" /\ worker[v].m \in Mappings
    BY <1>2, CopyTyped DEF CreateFiles, At, CopySteps
  <2>2. WorkersTyped' /\ worker' \in [VMs -> Workers]
    <3>1. Goes(v, "create") \/ Goes(v, "rollback") \/ Ends(v)
      BY <1>2 DEF CreateFiles
    <3> QED
      BY <3>1, <2>1, <1>0, GoesIs, MoveTypes, EndsIs, StopTypes DEF CopySteps
  <2>3. faults' \in 0..MaxFaults
    BY <1>2, FaultIs DEF CreateFiles
  <2>4. DisksTyped'
    <3>1. worker[v].m.disk \in 0..MaxDisk /\ worker[v].m.port \in 0..2
      BY <2>1, MappingFields, ConstantsAssumption
    <3> QED
      BY <3>1, <1>2, Types DEF CreateFiles, DisksTyped, hostVars, diskVars
  <2>5. SetsTyped'
    BY <1>2, SetsSame, Types DEF CreateFiles, SetsTyped, hostVars, procVars, ghostVars
  <2> QED
    BY <2>2, <2>3, <2>4, <2>5, <1>2, StoreSameTypes, MainSame, TypesNext DEF CreateFiles
<1>3. CASE CreateSystem(v)
  <2>1. worker[v].pc = "create" /\ worker[v].m \in Mappings
    BY <1>3, CopyTyped DEF CreateSystem, At, CopySteps
  <2>2. WorkersTyped' /\ worker' \in [VMs -> Workers]
    <3>1. CASE Goes(v, "rollback")
      BY <3>1, <2>1, <1>0, GoesIs, MoveTypes DEF CopySteps
    <3>2. CASE worker' = [worker EXCEPT ![v].pc = "register", ![v].made = TRUE]
      <4>1. /\ worker' \in [VMs -> Workers] /\ worker'[v].m = worker[v].m
            /\ \A u \in VMs \ {v} : worker'[u] = worker[u]
        BY <3>2, <1>0 DEF Workers
      <4> QED
        BY <4>1, <2>1, WorkerTypes
    <3> QED
      BY <3>1, <3>2, <1>3 DEF CreateSystem
  <2>3. faults' \in 0..MaxFaults
    BY <1>3, FaultIs DEF CreateSystem, NoFault
  <2>4. DisksTyped'
    <3>1. [st |-> "created", ep |-> None] \in Systems
      BY DEF Systems
    <3> QED
      BY <3>1, <1>3, Types DEF CreateSystem, DisksTyped, diskVars
  <2>5. SetsTyped'
    BY <1>3, SetsSame, Types DEF CreateSystem, SetsTyped, procVars
  <2> QED
    BY <2>2, <2>3, <2>4, <2>5, <1>3, StoreSameTypes, MainSame, TypesNext DEF CreateSystem
<1>4. CASE CreateRegisters(v)
  <2>1. worker[v].m \in Mappings
    BY <1>4, CopyTyped DEF CreateRegisters, At, CopySteps
  <2>2. StoreTyped'
    BY <1>4, <2>1, <1>0, SaveTypes, StoreSameTypes DEF CreateRegisters
  <2>3. WorkersTyped' /\ worker' \in [VMs -> Workers]
    <3>1. Goes(v, "built") \/ Goes(v, "rollback")
      BY <1>4 DEF CreateRegisters
    <3> QED
      BY <3>1, <1>0, GoesIs, MoveTypes DEF CopySteps
  <2> QED
    BY <2>2, <2>3, <1>4, QuietTypes DEF CreateRegisters
<1>5. CASE CreateRollsBack(v)
  <2>1. WorkersTyped' /\ worker' \in [VMs -> Workers]
    BY <1>5, <1>0, EndsIs, StopTypes DEF CreateRollsBack
  <2>2. faults' \in 0..MaxFaults
    BY <1>5, FaultIs DEF CreateRollsBack
  <2>3. DisksTyped'
    BY <1>5, NoSystemTyped, Types DEF CreateRollsBack, DisksTyped
  <2>4. SetsTyped'
    BY <1>5, SetsSame, Types DEF CreateRollsBack, SetsTyped, procVars
  <2> QED
    BY <2>1, <2>2, <2>3, <2>4, <1>5, StoreSameTypes, MainSame, TypesNext DEF CreateRollsBack
<1>6. CASE BuildContinues(v)
  <2>1. Goes(v, "undo") \/ Goes(v, "read")
    BY <1>6 DEF BuildContinues
  <2>2. WorkersTyped' /\ worker' \in [VMs -> Workers]
    BY <2>1, <1>0, GoesIs, MoveTypes DEF CopySteps
  <2> QED
    BY <2>2, <1>6, StoreSameTypes, QuietTypes DEF BuildContinues
<1> QED
  BY <1>1, <1>2, <1>3, <1>4, <1>5, <1>6

LEMMA TypesOfStart ==
  ASSUME TInv, NEW v \in VMs,
         StartReads(v) \/ StartOffNetwork(v) \/ StartReuses(v) \/ StartCreatesEndpoint(v)
         \/ StartRecords(v) \/ StartRegistersAddress(v)
  PROVE  TInv'
<1>0. /\ worker \in [VMs -> Workers] /\ worker[v] \in Workers /\ v \in Threads
      /\ {"net", "record", "dhcp", "system"} \subseteq WorkerSteps
  BY Types DEF WorkerSteps, Threads
<1>1. CASE StartReads(v)
  <2>1. StoreTyped'
    BY <1>1, StoreSameTypes DEF StartReads
  <2>2. CASE StartFails(v)
    BY <2>1, <2>2, <1>1, FailTypes, QuietTypes DEF StartReads
  <2>3. CASE Readable /\ doc[v] # None /\ worker' = [worker EXCEPT ![v].pc = "net", ![v].m = doc[v]]
    <3>0. doc[v] \in Mappings
      BY <2>3, ReadableIs DEF Documents
    <3>1. /\ worker' \in [VMs -> Workers] /\ worker'[v].m = doc[v]
          /\ \A u \in VMs \ {v} : worker'[u] = worker[u]
      BY <3>0, <2>3, <1>0 DEF Workers
    <3>2. WorkersTyped'
      BY <3>0, <3>1, WorkerTypes
    <3> QED
      BY <3>1, <3>2, <2>1, <1>1, QuietTypes DEF StartReads
  <2> QED
    BY <2>2, <2>3, <1>1 DEF StartReads
<1>2. CASE StartOffNetwork(v)
  <2>1. WorkersTyped' /\ worker' \in [VMs -> Workers]
    BY <1>2, <1>0, GoesIs, MoveTypes DEF StartOffNetwork, At, CopySteps
  <2>2. DisksTyped'
    BY <1>2, Types DEF StartOffNetwork, DisksTyped, hostVars
  <2>3. SetsTyped'
    BY <1>2, SetsSame, Types DEF StartOffNetwork, SetsTyped, hostVars, procVars, ghostVars
  <2> QED
    BY <2>1, <2>2, <2>3, <1>2, StoreSameTypes, MainSame, FaultsSame, TypesNext DEF StartOffNetwork
<1>3. CASE StartReuses(v)
  <2>0. worker[v].m \in Mappings
    BY <1>3, CopyTyped DEF StartReuses, At, CopySteps
  <2>1. /\ worker' \in [VMs -> Workers] /\ worker'[v].m = worker[v].m
        /\ \A u \in VMs \ {v} : worker'[u] = worker[u]
    BY <1>3, <1>0, <2>0, MappingFields DEF StartReuses, Workers
  <2>2. WorkersTyped'
    BY <2>0, <2>1, WorkerTypes
  <2> QED
    BY <2>1, <2>2, <1>3, StoreSameTypes, QuietTypes DEF StartReuses
<1>4. CASE StartCreatesEndpoint(v)
  <2>0. worker[v].m \in Mappings
    BY <1>4, CopyTyped DEF StartCreatesEndpoint, At, CopySteps
  <2>1. WorkersTyped' /\ worker' \in [VMs -> Workers]
    <3>1. CASE StartFails(v)
      BY <3>1, FailTypes
    <3>2. CASE \E e \in NewEndpoints : worker' = [worker EXCEPT ![v].ep = e, ![v].pc = "record"]
      <4>1. PICK e \in Endpoints : worker' = [worker EXCEPT ![v].ep = e, ![v].pc = "record"]
        BY <3>2 DEF NewEndpoints
      <4>2. /\ worker' \in [VMs -> Workers] /\ worker'[v].m = worker[v].m
            /\ \A u \in VMs \ {v} : worker'[u] = worker[u]
        BY <4>1, <1>0 DEF Workers
      <4> QED
        BY <4>2, <2>0, WorkerTypes
    <3> QED
      BY <3>1, <3>2, <1>4 DEF StartCreatesEndpoint
  <2>2. hns' \subseteq Endpoints /\ stuck' \subseteq Endpoints
    BY <1>4, Types DEF StartCreatesEndpoint, Exchanged, NewEndpoints, SetsTyped
  <2>3. faults' \in 0..MaxFaults
    BY <1>4, FaultIs DEF StartCreatesEndpoint
  <2>4. SetsTyped'
    BY <2>2, <1>4, Types DEF StartCreatesEndpoint, SetsTyped, procVars, ghostVars
  <2> QED
    BY <2>1, <2>3, <2>4, <1>4, StoreSameTypes, DisksSame, MainSame, TypesNext
    DEF StartCreatesEndpoint
<1>5. CASE StartRecords(v)
  <2>0. worker[v].m \in Mappings
    BY <1>5, CopyTyped DEF StartRecords, At, CopySteps
  <2>1. [worker[v].m EXCEPT !.ep = worker[v].ep] \in Mappings
    BY <2>0, <1>0 DEF Mappings, Workers
  <2>2. StoreTyped'
    BY <1>5, <2>1, <1>0, SaveTypes, StoreSameTypes DEF StartRecords
  <2>3. WorkersTyped' /\ worker' \in [VMs -> Workers]
    BY <1>5, <1>0, GoesIs, MoveTypes, FailTypes DEF StartRecords, At, CopySteps
  <2> QED
    BY <2>2, <2>3, <1>5, QuietTypes DEF StartRecords
<1>6. CASE StartRegistersAddress(v)
  <2>1. WorkersTyped' /\ worker' \in [VMs -> Workers]
    BY <1>6, <1>0, GoesIs, MoveTypes, FailTypes DEF StartRegistersAddress, At, CopySteps
  <2>2. DisksTyped'
    <3>1. worker[v].ep \in Endpoints \cup {None}
      BY <1>0 DEF Workers
    <3> QED
      BY <3>1, <1>6, Types DEF StartRegistersAddress, DisksTyped, hostVars
  <2>3. SetsTyped'
    BY <1>6, SetsSame, Types DEF StartRegistersAddress, SetsTyped, hostVars, procVars, ghostVars
  <2>4. faults' \in 0..MaxFaults
    BY <1>6, FaultIs DEF StartRegistersAddress
  <2> QED
    BY <2>1, <2>2, <2>3, <2>4, <1>6, StoreSameTypes, MainSame, TypesNext
    DEF StartRegistersAddress
<1> QED
  BY <1>1, <1>2, <1>3, <1>4, <1>5, <1>6

\* A step that changes only v's worker, its system, what HNS keeps of it and the
\* count of faults.
LEMMA SystemTypes ==
  ASSUME TInv, UNCHANGED <<storeVars, hns, diskVars, procVars, main, debris, cut>>,
         stuck' \subseteq Endpoints, adrift' \subseteq VMs,
         sys' \in [VMs -> Systems], faults' \in 0..MaxFaults,
         worker' \in [VMs -> Workers], WorkersTyped'
  PROVE  TInv'
<1>1. DisksTyped'
  BY Types DEF DisksTyped, diskVars
<1>2. SetsTyped'
  BY Types DEF SetsTyped, procVars
<1> QED
  BY <1>1, <1>2, StoreSameTypes, MainSame, TypesNext

LEMMA TypesOfBoot ==
  ASSUME TInv, NEW v \in VMs,
         StartPreparesSystem(v) \/ StartBoots(v) \/ BuildStops(v)
  PROVE  TInv'
<1>0. /\ worker \in [VMs -> Workers] /\ worker[v] \in Workers /\ sys \in [VMs -> Systems]
      /\ {"boot", "net", "address", "undo"} \subseteq WorkerSteps
      /\ stuck \subseteq Endpoints /\ adrift \subseteq VMs
  BY Types DEF WorkerSteps, DisksTyped, SetsTyped
<1>1. CASE StartPreparesSystem(v)
  <2>0. worker[v].pc = "system" /\ worker[v].m \in Mappings /\ worker[v].ep \in Endpoints \cup {None}
    BY <1>1, <1>0, CopyTyped DEF StartPreparesSystem, At, CopySteps, Workers
  <2>1. sys' \in [VMs -> Systems]
    <3>1. [st |-> "created", ep |-> worker[v].ep] \in Systems
      BY <2>0 DEF Systems
    <3> QED
      BY <3>1, <1>0, <1>1, NoSystemTyped DEF StartPreparesSystem
  <2>2. faults' \in 0..MaxFaults
    BY <1>1, FaultIs DEF StartPreparesSystem, NoFault
  <2>3. Goes(v, "boot") \/ StartFails(v) \/ EndpointBusy(v)
    BY <1>1 DEF StartPreparesSystem
  <2>4. WorkersTyped' /\ worker' \in [VMs -> Workers]
    <3>1. CASE Goes(v, "boot")
      BY <3>1, <2>0, <1>0, GoesIs, MoveTypes DEF CopySteps
    <3>2. CASE StartFails(v)
      BY <3>2, FailTypes
    <3>3. CASE EndpointBusy(v) /\ ~StartFails(v)
      <4>1. worker' = [worker EXCEPT ![v].again = TRUE, ![v].pc = "net"]
        BY <3>3 DEF EndpointBusy
      <4>2. /\ worker' \in [VMs -> Workers] /\ worker'[v].m = worker[v].m
            /\ \A u \in VMs \ {v} : worker'[u] = worker[u]
        BY <4>1, <1>0 DEF Workers
      <4> QED
        BY <4>2, <2>0, WorkerTypes
    <3> QED
      BY <2>3, <3>1, <3>2, <3>3
  <2> QED
    BY <2>1, <2>2, <2>4, <1>0, <1>1, SystemTypes DEF StartPreparesSystem, ghostVars
<1>2. CASE StartBoots(v)
  <2>0. worker[v].pc = "boot" /\ worker[v].m \in Mappings
    BY <1>2, <1>0, CopyTyped DEF StartBoots, At, CopySteps
  <2>1. sys' \in [VMs -> Systems]
    BY <1>0, <1>2 DEF StartBoots, Systems
  <2>2. faults' \in 0..MaxFaults
    BY <1>2, FaultIs DEF StartBoots, NoFault
  <2>4. WorkersTyped' /\ worker' \in [VMs -> Workers]
    <3> DEFINE n == IF Readable /\ doc[v] # None THEN doc[v] ELSE worker[v].m
    <3>1. CASE StartFails(v)
      BY <3>1, FailTypes
    <3>2. CASE Ends(v)
      BY <3>2, <1>0, EndsIs, StopTypes
    <3>3. CASE worker' = [worker EXCEPT ![v].pc = "address", ![v].m = n]
      <4>1. n \in Mappings
        BY <2>0, ReadableIs DEF Documents
      <4> HIDE DEF n
      <4>2. /\ worker' \in [VMs -> Workers] /\ worker'[v].m = n
            /\ \A u \in VMs \ {v} : worker'[u] = worker[u]
        BY <3>3, <4>1, <1>0 DEF Workers
      <4> QED
        BY <4>1, <4>2, WorkerTypes
    <3> QED
      BY <3>1, <3>2, <3>3, <1>2, <1>0 DEF StartBoots
  <2> QED
    <3>1. stuck' \subseteq Endpoints /\ adrift' \subseteq VMs
      BY <1>0, <1>2 DEF StartBoots
    <3> QED
      BY <3>1, <2>1, <2>2, <2>4, <1>2, SystemTypes DEF StartBoots
<1>3. CASE BuildStops(v)
  <2>1. sys' \in [VMs -> Systems]
    BY <1>0, <1>3, NoSystemTyped DEF BuildStops
  <2>2. faults' \in 0..MaxFaults
    BY <1>3, FaultIs, Types DEF BuildStops, NoFault
  <2>3. WorkersTyped' /\ worker' \in [VMs -> Workers]
    BY <1>3, <1>0, GoesIs, MoveTypes DEF BuildStops, CopySteps
  <2> QED
    <3>1. stuck' \subseteq Endpoints /\ adrift' \subseteq VMs
      BY <1>0, <1>3 DEF BuildStops, Systems
    <3> QED
      BY <3>1, <2>1, <2>2, <2>3, <1>3, SystemTypes DEF BuildStops
<1> QED
  BY <1>1, <1>2, <1>3

LEMMA TypesOfEnd ==
  ASSUME TInv, NEW v \in VMs,
         AwaitNothing(v) \/ AwaitAddress(v) \/ AwaitPort(v) \/ AwaitCloudInit(v)
         \/ BuildUndoes(v) \/ BuildRemoves(v) \/ BuildForgets(v)
  PROVE  TInv'
<1>0. /\ worker \in [VMs -> Workers] /\ worker[v] \in Workers /\ v \in Threads
      /\ {"port", "cloud", "stop", "remove", "forget"} \subseteq WorkerSteps
  BY Types DEF WorkerSteps, Threads
<1>1. CASE AwaitNothing(v) \/ AwaitAddress(v) \/ AwaitPort(v) \/ AwaitCloudInit(v)
  <2>1. WorkersTyped' /\ worker' \in [VMs -> Workers]
    <3>1. \/ Ends(v) \/ Goes(v, "stop")
          \/ worker[v].pc \in CopySteps /\ (Goes(v, "port") \/ Goes(v, "cloud"))
      BY <1>1 DEF AwaitNothing, AwaitAddress, AwaitPort, AwaitCloudInit, AwaitGuest, At, CopySteps
    <3> QED
      BY <3>1, <1>0, EndsIs, GoesIs, StopTypes, MoveTypes DEF CopySteps
  <2>2. UNCHANGED <<storeVars, hostVars, diskVars, procVars, main, faults, ghostVars>>
    BY <1>1 DEF AwaitNothing, AwaitAddress, AwaitPort, AwaitCloudInit, AwaitGuest
  <2>3. StoreTyped'
    BY <2>2, StoreSameTypes
  <2> QED
    BY <2>1, <2>2, <2>3, QuietTypes
<1>2. CASE BuildUndoes(v)
  <2>1. WorkersTyped' /\ worker' \in [VMs -> Workers]
    <3>1. Ends(v) \/ Goes(v, "remove")
      BY <1>2 DEF BuildUndoes
    <3> QED
      BY <3>1, <1>0, EndsIs, GoesIs, StopTypes, MoveTypes DEF CopySteps
  <2>2. /\ DisksTyped' /\ faults' \in 0..MaxFaults
        /\ hns' \subseteq Endpoints /\ stuck' \subseteq Endpoints
    <3>1. CASE UNCHANGED <<hostVars, diskVars, faults>>
      BY <3>1, DisksSame, FaultsSame, Types DEF hostVars, SetsTyped
    <3>2. CASE Readable /\ doc[v] # None /\ \E failing \in SUBSET Parts : Teardown(v, doc[v], failing, TRUE)
      <4>1. doc[v] \in Mappings
        BY <3>2, ReadableIs DEF Documents
      <4> QED
        BY <4>1, <3>2, TeardownTypes
    <3> QED
      BY <3>1, <3>2, <1>2 DEF BuildUndoes
  <2>3. SetsTyped'
    BY <2>2, <1>2, Types DEF BuildUndoes, SetsTyped, procVars, ghostVars
  <2> QED
    BY <2>1, <2>2, <2>3, <1>2, StoreSameTypes, MainSame, TypesNext DEF BuildUndoes
<1>3. CASE BuildRemoves(v)
  <2>1. StoreTyped'
    BY <1>3, <1>0, SaveTypes, StoreSameTypes DEF BuildRemoves
  <2>2. WorkersTyped' /\ worker' \in [VMs -> Workers]
    BY <1>3, <1>0, EndsIs, GoesIs, StopTypes, MoveTypes DEF BuildRemoves, CopySteps
  <2> QED
    BY <2>1, <2>2, <1>3, QuietTypes DEF BuildRemoves
<1>4. CASE BuildForgets(v)
  <2>1. WorkersTyped' /\ worker' \in [VMs -> Workers]
    BY <1>4, <1>0, EndsIs, StopTypes DEF BuildForgets
  <2> QED
    BY <2>1, <1>4, StoreSameTypes, QuietTypes DEF BuildForgets
<1> QED
  BY <1>1, <1>2, <1>3, <1>4

\* A step of the UI thread that leaves the host and the directories alone.
LEMMA MainQuietTypes ==
  ASSUME TInv, UNCHANGED <<hostVars, diskVars, worker>>,
         phase' \in {"fresh", "ready", "unavailable"}, reported' \subseteq VMs,
         cancelled' = cancelled, debris' = debris, adrift' = adrift, cut' \subseteq VMs,
         faults' \in 0..MaxFaults, StoreTyped', MainTyped', main' \in Mains
  PROVE  TInv'
<1>1. SetsTyped'
  BY Types DEF SetsTyped, hostVars
<1>2. DisksTyped'
  BY DisksSame DEF hostVars
<1> QED
  BY <1>1, <1>2, WorkerSame, TypesNext

LEMMA EditTyped ==
  ASSUME TInv, main.pc \in EditSteps
  PROVE  main.vm \in VMs /\ main.m \in Mappings /\ main.req \in Mappings
BY DEF TInv, MainTyped

LEMMA TypesOfRecordField ==
  ASSUME TInv, NEW field \in {"net", "gpu"}, NEW step \in EditSteps, NEW next \in EditSteps,
         RecordField(step, field, next)
  PROVE  TInv'
<1>0. /\ main.pc \in EditSteps /\ main \in Mains /\ "main" \in Threads
      /\ next \in MainSteps /\ next # "desk" /\ next # "remove"
  BY Types DEF RecordField, MainAt, Threads, EditSteps, MainSteps
<1>1. [main.m EXCEPT ![field] = main.req[field]] \in Mappings
  BY <1>0, EditTyped DEF Mappings
<1>2. StoreTyped'
  BY <1>0, <1>1, EditTyped, SaveTypes, StoreSameTypes DEF RecordField
<1>3. MainTyped' /\ main' \in Mains
  <2>1. CASE MainGoes(next)
    BY <2>1, <1>0, MainGoesIs, MainMoveTypes
  <2>2. CASE Refused
    BY <2>2, RefusedIs, LeaveTypes DEF MainLeaves
  <2> QED
    BY <2>1, <2>2 DEF RecordField
<1> QED
  BY <1>2, <1>3, MainQuietTypes, Types DEF RecordField, SetsTyped, procVars, ghostVars

LEMMA TypesOfEdit ==
  ASSUME TInv,
         UpdateGrows \/ RecordDiskSize \/ UpdateConfigures \/ RecordNetworkMode
         \/ RecordGpuMode \/ MoveSshPort \/ RecordSshPort \/ UpdateReturns
  PROVE  TInv'
<1>0. /\ main \in Mains /\ "main" \in Threads
      /\ EditSteps \subseteq MainSteps
      /\ "desk" \notin EditSteps /\ "remove" \notin EditSteps
  BY Types DEF Threads, EditSteps, MainSteps
<1>1. CASE UpdateGrows
  <2>0. main.pc \in EditSteps
    BY <1>1 DEF UpdateGrows, MainAt, EditSteps
  <2>1. MainTyped' /\ main' \in Mains
    <3>1. CASE MainGoes("grown")
      BY <3>1, <2>0, <1>0, MainGoesIs, MainMoveTypes DEF MainSteps
    <3>2. CASE Refused
      BY <3>2, RefusedIs, LeaveTypes DEF MainLeaves
    <3> QED
      BY <3>1, <3>2, <1>1 DEF UpdateGrows
  <2>2. faults' \in 0..MaxFaults
    BY <1>1, FaultIs DEF UpdateGrows, NoFault
  <2>3. DisksTyped'
    <3>1. main.req.disk \in 0..MaxDisk
      BY <2>0, EditTyped, MappingFields, ConstantsAssumption
    <3> QED
      BY <3>1, <1>1, Types DEF UpdateGrows, DisksTyped, hostVars
  <2>4. SetsTyped'
    BY <1>1, SetsSame, Types DEF UpdateGrows, SetsTyped, hostVars, procVars, ghostVars
  <2> QED
    BY <2>1, <2>2, <2>3, <2>4, <1>1, StoreSameTypes, WorkerSame, TypesNext DEF UpdateGrows
<1>2. CASE RecordDiskSize
  <2>0. main.pc \in EditSteps
    BY <1>2 DEF RecordDiskSize, MainAt, EditSteps
  <2>1. [main.m EXCEPT !.disk = main.req.disk] \in Mappings
    BY <2>0, EditTyped DEF Mappings
  <2>2. StoreTyped'
    BY <2>0, <2>1, <1>0, <1>2, EditTyped, SaveTypes, StoreSameTypes DEF RecordDiskSize
  <2>3. MainTyped' /\ main' \in Mains
    <3>1. CASE main' = [main EXCEPT !.pc = "config", !.m.disk = main.req.disk]
      <4>1. /\ main' \in Mains /\ main'.pc = "config" /\ main'.vm = main.vm
            /\ main'.m = [main.m EXCEPT !.disk = main.req.disk] /\ main'.req = main.req
        <5>1. main' = [main EXCEPT !.pc = "config", !.m = [main.m EXCEPT !.disk = main.req.disk]]
          BY <3>1
        <5> QED
          BY <5>1, <2>1, <1>0 DEF Mains, MainSteps
      <4> QED
        BY <4>1, <2>0, <2>1, EditTyped DEF MainTyped, EditSteps
    <3>2. CASE Refused
      BY <3>2, RefusedIs, LeaveTypes DEF MainLeaves
    <3> QED
      BY <3>1, <3>2, <1>2 DEF RecordDiskSize
  <2> QED
    BY <2>2, <2>3, <1>2, MainQuietTypes, Types DEF RecordDiskSize, SetsTyped, procVars, ghostVars
<1>3. CASE UpdateConfigures
  <2>0. main.pc \in EditSteps
    BY <1>3 DEF UpdateConfigures, MainAt, EditSteps
  <2>1. MainTyped' /\ main' \in Mains
    <3>1. CASE MainGoes("network")
      BY <3>1, <2>0, <1>0, MainGoesIs, MainMoveTypes DEF MainSteps
    <3>2. CASE Refused
      BY <3>2, RefusedIs, LeaveTypes DEF MainLeaves
    <3> QED
      BY <3>1, <3>2, <1>3 DEF UpdateConfigures
  <2>2. faults' \in 0..MaxFaults
    BY <1>3, FaultIs DEF UpdateConfigures
  <2>3. StoreTyped'
    BY <1>3, StoreSameTypes DEF UpdateConfigures
  <2> QED
    BY <2>1, <2>2, <2>3, <1>3, MainQuietTypes, Types
    DEF UpdateConfigures, SetsTyped, procVars, ghostVars
<1>4. CASE RecordNetworkMode
  BY <1>4, TypesOfRecordField DEF RecordNetworkMode, EditSteps
<1>5. CASE RecordGpuMode
  BY <1>5, TypesOfRecordField DEF RecordGpuMode, EditSteps
<1>6. CASE MoveSshPort
  <2>0. main.pc \in EditSteps /\ main.vm \in VMs /\ main.req.port \in 0..2
    <3>1. main.pc \in EditSteps
      BY <1>6 DEF MoveSshPort, MainAt, EditSteps
    <3> QED
      BY <3>1, EditTyped, MappingFields
  <2>1. MainTyped' /\ main' \in Mains
    <3>1. CASE MainGoes("accepted") \/ MainGoes("moved")
      BY <3>1, <2>0, <1>0, MainGoesIs, MainMoveTypes DEF MainSteps
    <3>2. CASE Refused
      BY <3>2, RefusedIs, LeaveTypes DEF MainLeaves
    <3> QED
      BY <3>1, <3>2, <1>6 DEF MoveSshPort
  <2>2. faults' \in 0..MaxFaults
    BY <1>6, FaultIs DEF MoveSshPort, NoFault
  <2>3. DisksTyped'
    BY <2>0, <1>6, Types DEF MoveSshPort, GuestWrites, DisksTyped, hostVars
  <2>4. SetsTyped'
    BY <2>0, <1>6, Types DEF MoveSshPort, SetsTyped, hostVars, procVars
  <2> QED
    BY <2>1, <2>2, <2>3, <2>4, <1>6, StoreSameTypes, WorkerSame, TypesNext DEF MoveSshPort
<1>7. CASE RecordSshPort
  <2>0. main.pc \in EditSteps
    BY <1>7 DEF RecordSshPort, MainAt, EditSteps
  <2>1. [main.m EXCEPT !.port = main.req.port] \in Mappings
    BY <2>0, EditTyped DEF Mappings
  <2>2. StoreTyped'
    BY <2>0, <2>1, <1>0, <1>7, EditTyped, SaveTypes, StoreSameTypes DEF RecordSshPort
  <2>3. MainTyped' /\ main' \in Mains
    <3>1. CASE MainGoes("accepted")
      BY <3>1, <2>0, <1>0, MainGoesIs, MainMoveTypes DEF MainSteps
    <3>2. CASE Refused
      BY <3>2, RefusedIs, LeaveTypes DEF MainLeaves
    <3> QED
      BY <3>1, <3>2, <1>7 DEF RecordSshPort
  <2>4. cut' \subseteq VMs
    BY <2>0, <1>7, EditTyped, Types DEF RecordSshPort, SetsTyped
  <2> QED
    BY <2>2, <2>3, <2>4, <1>7, MainQuietTypes, Types DEF RecordSshPort, SetsTyped, procVars
<1>8. CASE UpdateReturns
  <2>1. MainTyped' /\ main' \in Mains
    BY <1>8, RefreshesIs, LeaveTypes DEF UpdateReturns, MainLeaves
  <2>2. StoreTyped'
    BY <1>8, StoreSameTypes DEF UpdateReturns
  <2> QED
    BY <2>1, <2>2, <1>8, MainQuietTypes, Types DEF UpdateReturns, SetsTyped, procVars, ghostVars
<1> QED
  BY <1>1, <1>2, <1>3, <1>4, <1>5, <1>6, <1>7, <1>8

LEMMA TypesOfRefresh ==
  ASSUME TInv,
         DeleteRemoves \/ DeleteReturns \/ ListVms \/ ListDesktops \/ RecordDesktop
         \/ EndRefresh \/ Tick
  PROVE  TInv'
<1>0. main \in Mains /\ "main" \in Threads
  BY Types DEF Threads
<1>1. CASE DeleteRemoves
  <2>1. StoreTyped'
    <3>1. main.vm \in VMs
      BY <1>1 DEF DeleteRemoves, MainAt, TInv, MainTyped
    <3> QED
      BY <3>1, <1>0, <1>1, SaveTypes, StoreSameTypes DEF DeleteRemoves
  <2>2. MainTyped' /\ main' \in Mains
    <3>1. CASE MainGoes("gone")
      BY <3>1, <1>0, MainGoesIs, MainMoveTypes DEF MainSteps, EditSteps
    <3>2. CASE Refused
      BY <3>2, RefusedIs, LeaveTypes DEF MainLeaves
    <3> QED
      BY <3>1, <3>2, <1>1 DEF DeleteRemoves
  <2> QED
    BY <2>1, <2>2, <1>1, MainQuietTypes, Types DEF DeleteRemoves, SetsTyped, procVars, ghostVars
<1>2. CASE DeleteReturns \/ Tick
  <2>1. MainTyped' /\ main' \in Mains
    BY <1>2, RefreshesIs, LeaveTypes DEF DeleteReturns, Tick, MainLeaves
  <2>2. StoreTyped'
    BY <1>2, StoreSameTypes DEF DeleteReturns, Tick
  <2> QED
    BY <2>1, <2>2, <1>2, MainQuietTypes, Types DEF DeleteReturns, Tick, SetsTyped, procVars, ghostVars
<1>3. CASE ListVms
  <2>1. MainTyped' /\ main' \in Mains
    BY <1>3, <1>0, MainGoesIs, MainMoveTypes DEF ListVms, MainSteps, EditSteps
  <2>2. StoreTyped'
    BY <1>3, StoreSameTypes DEF ListVms
  <2> QED
    BY <2>1, <2>2, <1>3, MainQuietTypes, Types DEF ListVms, SetsTyped, ghostVars
<1>4. CASE ListDesktops
  <2>1. MainTyped' /\ main' \in Mains
    <3>1. CASE main' = Idle
      BY <3>1, RefusedIs, LeaveTypes DEF MainLeaves, Refused
    <3>2. CASE Readable /\ main' = [main EXCEPT !.pc = "desk", !.snap = doc]
      <4>1. doc \in Documents
        BY <3>2, ReadableIs
      <4> QED
        BY <4>1, <3>2, <1>0 DEF Mains, MainSteps, MainTyped, EditSteps
    <3> QED
      BY <3>1, <3>2, <1>4 DEF ListDesktops
  <2>2. StoreTyped'
    BY <1>4, StoreSameTypes DEF ListDesktops
  <2> QED
    BY <2>1, <2>2, <1>4, MainQuietTypes, Types DEF ListDesktops, SetsTyped, procVars, ghostVars
<1>5. CASE RecordDesktop
  <2>0. main.pc = "desk" /\ main.snap \in Documents
    BY <1>5 DEF RecordDesktop, MainAt, TInv, MainTyped
  <2>1. PICK v \in Waiting :
          /\ \/ Save("main", v, [main.snap[v] EXCEPT !.desk = "ready"])
             \/ UNCHANGED storeVars
          /\ main' = [main EXCEPT !.snap[v] = None]
    BY <1>5 DEF RecordDesktop
  <2>2. v \in VMs /\ main.snap[v] \in Mappings
    BY <2>0 DEF Waiting, Documents
  <2>3. [main.snap[v] EXCEPT !.desk = "ready"] \in Mappings
    BY <2>2 DEF Mappings
  <2>4. StoreTyped'
    BY <2>1, <2>2, <2>3, <1>0, SaveTypes, StoreSameTypes
  <2>5. [main.snap EXCEPT ![v] = None] \in Documents
    BY <2>0, <2>2 DEF Documents
  <2>6. main' = [main EXCEPT !.snap = [main.snap EXCEPT ![v] = None]]
    BY <2>1
  <2>7. MainTyped' /\ main' \in Mains
    BY <2>0, <2>5, <2>6, <1>0 DEF Mains, MainTyped, EditSteps
  <2> QED
    BY <2>4, <2>7, <1>5, MainQuietTypes, Types DEF RecordDesktop, SetsTyped, procVars, ghostVars
<1>6. CASE EndRefresh
  <2>1. MainTyped' /\ main' \in Mains
    BY <1>6, RefusedIs, LeaveTypes DEF EndRefresh, MainLeaves, Refused
  <2>2. StoreTyped'
    BY <1>6, StoreSameTypes DEF EndRefresh
  <2> QED
    BY <2>1, <2>2, <1>6, MainQuietTypes, Types DEF EndRefresh, SetsTyped, ghostVars
<1> QED
  BY <1>1, <1>2, <1>3, <1>4, <1>5, <1>6

LEMMA EditedTyped ==
  ASSUME NEW m \in Mappings, NEW fields,
         "disk" \in fields => m.disk < MaxDisk,
         "port" \in fields => m.port # 0
  PROVE  /\ Edited(m, fields) \in Mappings
         /\ m.disk <= Edited(m, fields).disk
         /\ "disk" \notin fields => Edited(m, fields).disk = m.disk
         /\ \A f \in {"net", "gpu", "port"} : f \notin fields => Edited(m, fields)[f] = m[f]
<1> DEFINE n == IF "net" \in fields THEN (IF m.net = "nat" THEN "none" ELSE "nat") ELSE m.net
           g == IF "gpu" \in fields THEN (IF m.gpu = "on" THEN "off" ELSE "on") ELSE m.gpu
           d == IF "disk" \in fields THEN m.disk + 1 ELSE m.disk
           p == IF "port" \in fields THEN 3 - m.port ELSE m.port
<1>1. Edited(m, fields) = [m EXCEPT !.net = n, !.gpu = g, !.disk = d, !.port = p]
  BY DEF Edited, Mappings
<1>2. n \in {"nat", "none"} /\ g \in {"off", "on"}
  BY MappingFields
<1>3. d \in 1..MaxDisk /\ m.disk <= d
  BY MappingFields, ConstantsAssumption
<1>4. p \in 0..2
  BY MappingFields
<1>5. /\ "net" \notin fields => n = m.net
      /\ "gpu" \notin fields => g = m.gpu
      /\ "port" \notin fields => p = m.port
      /\ "disk" \notin fields => d = m.disk
  OBVIOUS
<1> HIDE DEF n, g, d, p
<1>6. Edited(m, fields) = [ep |-> m.ep, net |-> n, gpu |-> g, disk |-> d, port |-> p, desk |-> m.desk]
  BY <1>1 DEF Mappings
<1>7. Edited(m, fields) \in Mappings
  BY <1>6, <1>2, <1>3, <1>4, MappingFields DEF Mappings
<1>8. /\ Edited(m, fields).disk = d /\ Edited(m, fields).net = n
      /\ Edited(m, fields).gpu = g /\ Edited(m, fields).port = p
  BY <1>6
<1> QED
  BY <1>3, <1>5, <1>7, <1>8

\* An edit begins.
EditBegins(v, fields) ==
  /\ main' \in Mains
  /\ main'.pc = IF "disk" \in fields THEN "grow" ELSE "config"
  /\ main'.vm = v /\ main'.m = doc[v] /\ main'.req = Edited(doc[v], fields)
  /\ main'.snap = None

LEMMA UpdateVmIs ==
  ASSUME TInv, NEW v \in VMs, UpdateVm(v)
  PROVE  /\ main = Idle /\ worker[v].pc = "idle"
         /\ Content = doc /\ Content # Torn /\ doc[v] \in Mappings
         /\ \E fields \in Edits :
              /\ "disk" \in fields => doc[v].disk < MaxDisk
              /\ "port" \in fields => doc[v].port # 0
              /\ Edited(doc[v], fields) \in Mappings
              /\ EditBegins(v, fields)
         /\ UNCHANGED <<storeVars, hostVars, diskVars, procVars, worker, faults, ghostVars>>
<1>1. Readable /\ doc[v] # None
  BY DEF UpdateVm
<1>2. Content = doc /\ doc # Torn /\ doc \in Documents
  BY <1>1, ReadableIs
<1>3. doc[v] \in Mappings
  BY <1>1, <1>2 DEF Documents
<1>4. PICK fields \in Edits :
         /\ "disk" \in fields => doc[v].disk < MaxDisk
         /\ "port" \in fields => doc[v].port # 0
         /\ main' = [Idle EXCEPT !.pc  = IF "disk" \in fields THEN "grow" ELSE "config",
                                 !.vm  = v,
                                 !.m   = doc[v],
                                 !.req = Edited(doc[v], fields)]
  BY DEF UpdateVm
<1>5. Edited(doc[v], fields) \in Mappings
  BY <1>3, <1>4, EditedTyped
<1> DEFINE p == IF "disk" \in fields THEN "grow" ELSE "config"
<1>6. p \in {"grow", "config"}
  OBVIOUS
<1>7. main' = [Idle EXCEPT !.pc = p, !.vm = v, !.m = doc[v], !.req = Edited(doc[v], fields)]
  BY <1>4
<1> HIDE DEF p
<1>8. main' = [pc |-> p, vm |-> v, m |-> doc[v], req |-> Edited(doc[v], fields), snap |-> None]
  BY <1>7 DEF Idle
<1>9. /\ main' \in Mains /\ main'.pc = p /\ main'.vm = v
      /\ main'.m = doc[v] /\ main'.req = Edited(doc[v], fields) /\ main'.snap = None
  BY <1>3, <1>5, <1>6, <1>8 DEF Mains, MainSteps
<1>10. EditBegins(v, fields)
  BY <1>9 DEF EditBegins, p
<1> QED
  BY <1>2, <1>3, <1>4, <1>5, <1>10 DEF UpdateVm, Asked, Unoccupied

\* A thread of v begins, at the given step.
Begins(v, step) ==
  /\ worker' \in [VMs -> Workers]
  /\ worker'[v].pc = step /\ ~worker'[v].made /\ ~worker'[v].again
  /\ worker'[v].ep = None /\ worker'[v].m = None
  /\ \A u \in VMs \ {v} : worker'[u] = worker[u]

LEMMA NoWorkerIs ==
  /\ NoWorker \in Workers /\ ~NoWorker.made /\ ~NoWorker.again /\ NoWorker.pc = "idle"
  /\ NoWorker.ep = None /\ NoWorker.m = None
BY DEF NoWorker, Workers, WorkerSteps

LEMMA CreateVmIs ==
  ASSUME TInv, NEW v \in VMs, CreateVm(v)
  PROVE  Begins(v, "check") /\ MainLeaves
<1> DEFINE w == [NoWorker EXCEPT !.pc = "check", !.build = TRUE]
<1>1. w \in Workers /\ w.pc = "check" /\ ~w.made /\ ~w.again /\ w.ep = None /\ w.m = None
  BY NoWorkerIs DEF Workers, WorkerSteps
<1>2. worker \in [VMs -> Workers] /\ worker' = [worker EXCEPT ![v] = w]
  BY Types DEF CreateVm
<1> HIDE DEF w
<1> QED
  BY <1>1, <1>2, RefreshesIs DEF CreateVm, Begins

LEMMA StartVmIs ==
  ASSUME TInv, NEW v \in VMs, StartVm(v)
  PROVE  Begins(v, "read") /\ MainLeaves
<1> DEFINE w == [NoWorker EXCEPT !.pc = "read"]
<1>1. w \in Workers /\ w.pc = "read" /\ ~w.made /\ ~w.again /\ w.ep = None /\ w.m = None
  BY NoWorkerIs DEF Workers, WorkerSteps
<1>2. worker \in [VMs -> Workers] /\ worker' = [worker EXCEPT ![v] = w]
  BY Types DEF StartVm
<1> HIDE DEF w
<1> QED
  BY <1>1, <1>2, RefreshesIs DEF StartVm, Begins

LEMMA TypesOfUser ==
  ASSUME TInv, NEW v \in VMs, User(v)
  PROVE  TInv'
<1>1. CASE CreateVm(v) \/ StartVm(v)
  <2>1. MainLeaves /\ (Begins(v, "check") \/ Begins(v, "read"))
    BY <1>1, CreateVmIs, StartVmIs
  <2>2. WorkersTyped' /\ worker' \in [VMs -> Workers]
    BY <2>1, WorkerTypes DEF Begins, CopySteps
  <2>3. SetsTyped'
    BY <1>1, Types DEF CreateVm, StartVm, SetsTyped, hostVars, procVars, ghostVars
  <2>4. DisksTyped'
    BY <1>1, DisksSame DEF CreateVm, StartVm, hostVars
  <2>5. StoreTyped' /\ faults' \in 0..MaxFaults
    BY <1>1, StoreSameTypes, FaultsSame DEF CreateVm, StartVm
  <2> QED
    BY <2>1, <2>2, <2>3, <2>4, <2>5, LeaveTypes, TypesNext DEF MainLeaves
<1>2. CASE CancelBuild(v)
  <2>1. SetsTyped'
    BY <1>2, Types DEF CancelBuild, SetsTyped, hostVars, ghostVars
  <2>2. DisksTyped'
    BY <1>2, DisksSame DEF CancelBuild, hostVars
  <2> QED
    BY <2>1, <2>2, <1>2, StoreSameTypes, MainSame, WorkerSame, FaultsSame, TypesNext DEF CancelBuild
<1>3. CASE UpdateVm(v)
  <2>1. PICK fields \in Edits : Edited(doc[v], fields) \in Mappings /\ EditBegins(v, fields)
    BY <1>3, UpdateVmIs
  <2>2. MainTyped' /\ main' \in Mains
    <3>1. main'.pc \in {"grow", "config"}
      BY <2>1 DEF EditBegins
    <3> QED
      BY <3>1, <2>1, <1>3, UpdateVmIs DEF EditBegins, MainTyped, EditSteps
  <2> QED
    BY <2>2, <1>3, UpdateVmIs, StoreSameTypes, FaultsSame, MainQuietTypes, Types
    DEF SetsTyped, procVars, ghostVars
<1>4. CASE \E disks \in BOOLEAN : DeleteVm(v, disks)
  <2>1. PICK disks \in BOOLEAN : DeleteVm(v, disks)
    BY <1>4
  <2>2. doc[v] \in Mappings
    BY <2>1, ReadableIs DEF DeleteVm, Documents
  <2>3. /\ DisksTyped' /\ faults' \in 0..MaxFaults
        /\ hns' \subseteq Endpoints /\ stuck' \subseteq Endpoints
    BY <2>1, <2>2, TeardownTypes DEF DeleteVm
  <2>4. SetsTyped'
    BY <2>1, <2>3, Types DEF DeleteVm, SetsTyped, ghostVars
  <2>5. MainTyped' /\ main' \in Mains
    <3>1. CASE Refused
      BY <3>1, RefusedIs, LeaveTypes DEF MainLeaves
    <3>2. CASE main' = [Idle EXCEPT !.pc = "remove", !.vm = v]
      <4>1. main' = [pc |-> "remove", vm |-> v, m |-> None, req |-> None, snap |-> None]
        BY <3>2 DEF Idle
      <4> QED
        BY <4>1 DEF Mains, MainSteps, MainTyped, EditSteps
    <3> QED
      BY <3>1, <3>2, <2>1 DEF DeleteVm
  <2> QED
    BY <2>1, <2>3, <2>4, <2>5, StoreSameTypes, WorkerSame, TypesNext DEF DeleteVm
<1> QED
  BY <1>1, <1>2, <1>3, <1>4 DEF User

LEMMA TypesOfStore ==
  ASSUME TInv, WriteOut \/ WriteFails
  PROVE  TInv'
<1>0. NoPen \in Pens
  BY DEF NoPen, Pens
<1>1. CASE WriteOut
  <2>1. StoreTyped'
    BY <1>0, <1>1, Types DEF WriteOut, StoreTyped, PenTyped
  <2> QED
    BY <2>1, <1>1, WorkerSame, QuietTypes DEF WriteOut
<1>2. CASE WriteFails
  <2>1. StoreTyped' /\ faults' \in 0..MaxFaults
    BY <1>0, <1>2, FaultIs, Types DEF WriteFails, StoreTyped, PenTyped
  <2>2. DisksTyped'
    BY <1>2, DisksSame DEF WriteFails, hostVars
  <2>3. CASE pen.by = "main"
    <3>1. WorkersTyped' /\ worker' \in [VMs -> Workers]
      BY <2>3, <1>2, WorkerSame DEF WriteFails, AfterFailedSave
    <3>2. MainTyped' /\ main' \in Mains
      BY <2>3, <1>2, MainSame, RefusedIs, LeaveTypes DEF WriteFails, AfterFailedSave, MainLeaves, Refused
    <3>3. cut' \subseteq VMs
      <4>1. main.pc = "accepted" => main.vm \in VMs
        BY EditTyped DEF EditSteps
      <4> QED
        BY <4>1, <2>3, <1>2, Types DEF WriteFails, AfterFailedSave, SetsTyped
    <3>4. SetsTyped'
      BY <3>3, <1>2, Types DEF WriteFails, SetsTyped, hostVars, procVars
    <3> QED
      BY <3>1, <3>2, <3>4, <2>1, <2>2, TypesNext
  <2>4. CASE pen.by # "main"
    <3>0. pen.by \in VMs
      BY <2>4, <1>2 DEF WriteFails, TInv, PenTyped, Threads
    <3>1. WorkersTyped' /\ worker' \in [VMs -> Workers]
      <4>1. Goes(pen.by, "rollback") \/ StartFails(pen.by) \/ Ends(pen.by)
        BY <2>4, <1>2 DEF WriteFails, AfterFailedSave
      <4>2. worker \in [VMs -> Workers] /\ "rollback" \in WorkerSteps
        BY Types DEF WorkerSteps
      <4> QED
        BY <4>1, <4>2, <3>0, GoesIs, EndsIs, MoveTypes, StopTypes, FailTypes DEF CopySteps
    <3>2. UNCHANGED <<main, cut>>
      BY <2>4, <1>2 DEF WriteFails, AfterFailedSave
    <3>3. SetsTyped'
      BY <3>2, <1>2, Types DEF WriteFails, SetsTyped, hostVars, procVars
    <3> QED
      BY <3>1, <3>2, <3>3, <2>1, <2>2, MainSame, TypesNext
  <2> QED
    BY <2>3, <2>4
<1> QED
  BY <1>1, <1>2

LEMMA TypesOfHost ==
  ASSUME TInv,
         Initialize \/ Kill \/ \E v \in VMs : GuestExits(v) \/ GuestReports(v)
  PROVE  TInv'
<1>1. CASE Initialize
  <2>1. SetsTyped'
    BY <1>1, Types DEF Initialize, Exchanged, SetsTyped, ghostVars
  <2>2. faults' \in 0..MaxFaults
    BY <1>1, FaultIs DEF Initialize, NoFault
  <2>3. DisksTyped'
    BY <1>1, DisksSame DEF Initialize
  <2> QED
    BY <2>1, <2>2, <2>3, <1>1, StoreSameTypes, MainSame, WorkerSame, TypesNext DEF Initialize
<1>2. CASE Kill
  <2>1. StoreTyped'
    BY <1>2, Types DEF Kill, StoreTyped, PenTyped, NoPen, Pens
  <2>2. DisksTyped' /\ faults' \in 0..MaxFaults
    BY <1>2, DisksSame, FaultIs DEF Kill, hostVars
  <2>3. MainTyped' /\ main' \in Mains
    BY <1>2, RefusedIs, LeaveTypes DEF Kill, MainLeaves, Refused
  <2>4. WorkersTyped' /\ worker' \in [VMs -> Workers]
    BY <1>2 DEF Kill, NoWorker, Workers, WorkerSteps, WorkersTyped, CopySteps
  <2>5. cut' \subseteq VMs
    <3>1. main.pc \in {"moved", "accepted"} => main.vm \in VMs
      BY EditTyped DEF EditSteps
    <3> QED
      BY <3>1, <1>2, Types DEF Kill, SetsTyped
  <2>6. SetsTyped'
    BY <2>5, <1>2, Types DEF Kill, SetsTyped, hostVars
  <2> QED
    BY <2>1, <2>2, <2>3, <2>4, <2>6, TypesNext
<1>3. ASSUME NEW v \in VMs, GuestExits(v) PROVE TInv'
  <2>1. sys' \in [VMs -> Systems] /\ faults' \in 0..MaxFaults
    BY <1>3, NoSystemTyped, FaultIs, Types DEF GuestExits, DisksTyped, NoFault
  <2>2. DisksTyped'
    BY <2>1, <1>3, Types DEF GuestExits, DisksTyped, diskVars
  <2>3. stuck' \subseteq Endpoints
    <3>1. sys[v].ep \in Endpoints \cup {None}
      BY Types DEF DisksTyped, Systems
    <3> QED
      BY <3>1, <1>3, Types DEF GuestExits, SetsTyped
  <2>4. SetsTyped'
    BY <2>3, <1>3, Types DEF GuestExits, SetsTyped, procVars, ghostVars
  <2> QED
    BY <2>1, <2>2, <2>4, <1>3, StoreSameTypes, MainSame, WorkerSame, TypesNext DEF GuestExits
<1>4. ASSUME NEW v \in VMs, GuestReports(v) PROVE TInv'
  <2>1. SetsTyped'
    BY <1>4, Types DEF GuestReports, SetsTyped, hostVars, ghostVars
  <2>2. DisksTyped'
    BY <1>4, DisksSame DEF GuestReports, hostVars
  <2> QED
    BY <2>1, <2>2, <1>4, StoreSameTypes, MainSame, WorkerSame, FaultsSame, TypesNext DEF GuestReports
<1> QED
  BY <1>1, <1>2, <1>3, <1>4

LEMMA NextTypes ==
  ASSUME TInv, [Next]_vars
  PROVE  TInv'
<1>1. CASE Next
  <2>1. ASSUME NEW v \in VMs, Worker(v) PROVE TInv'
    BY <2>1, TypesOfCreation, TypesOfStart, TypesOfBoot, TypesOfEnd DEF Worker
  <2>2. CASE Main \/ Tick
    BY <2>2, TypesOfEdit, TypesOfRefresh DEF Main
  <2> QED
    BY <1>1, <2>1, <2>2, TypesOfStore, TypesOfUser, TypesOfHost DEF Next
<1>2. CASE UNCHANGED vars
  <2>1. SetsTyped'
    BY <1>2, Types DEF vars, SetsTyped, hostVars, procVars, ghostVars
  <2>2. UNCHANGED <<storeVars, sys, diskVars, main, worker, faults>>
    BY <1>2 DEF vars, hostVars
  <2> QED
    BY <2>1, <2>2, StoreSameTypes, DisksSame, MainSame, WorkerSame, FaultsSame, TypesNext
<1> QED
  BY <1>1, <1>2

\* The type invariant: no thread of VMLord writes back a mapping it does not
\* have, and no edit asks for a disk or a port that a mapping cannot hold.
THEOREM TypeCorrect == Spec => []TypeOK
<1>1. TInv /\ [Next]_vars => TInv'
  BY NextTypes
<1>2. TInv => TypeOK
  BY DEF TInv
<1> QED
  BY InitTypes, <1>1, <1>2, PTL DEF Spec

-----------------------------------------------------------------------------
(* The records: a VM that a step is not about.                             *)

RecordsOf(v) == Stages(v) /\ Remains(v) /\ Ports(v) /\ Disks(v)

SameVm(u) ==
  /\ worker'[u] = worker[u] /\ sys'[u] = sys[u] /\ files'[u] = files[u]
  /\ vhd'[u] = vhd[u] /\ guestPort'[u] = guestPort[u]
  /\ u \in debris => u \in debris'
  /\ u \in cut => u \in cut'

\* The document keeps u's mapping, unless it is lost as a whole.
Held(u) == Content' = Torn \/ (Content # Torn /\ Content'[u] = Content[u])

\* The UI thread takes up nothing of u's.
MainApart(u) ==
  \/ main' = main
  \/ /\ main'.pc \in EditSteps \cup {"remove"} => main'.vm # u
     /\ main'.pc = "desk" => main.pc = "desk" /\ main'.snap[u] \in {main.snap[u], None}
     /\ main.pc = "moved" /\ main.vm = u => u \in cut' \/ Content' = Torn

Apart(u) == SameVm(u) /\ Held(u) /\ MainApart(u)

LEMMA ApartKeeps ==
  ASSUME NEW u \in VMs, RecordsOf(u), Apart(u)
  PROVE  RecordsOf(u)'
<1>1. Stages(u)'
  BY DEF RecordsOf, Stages, Apart, SameVm, Held, MainApart, Recorded, Editing, EditSteps
<1>2. Remains(u)'
  BY DEF RecordsOf, Remains, Apart, SameVm, Held, MainApart
<1>3. Ports(u)'
  BY DEF RecordsOf, Ports, Apart, SameVm, Held, MainApart, Recorded, Editing, EditSteps
<1>4. Disks(u)'
  BY DEF RecordsOf, Disks, Apart, SameVm, Held, MainApart, Recorded, Editing, EditSteps
<1> QED
  BY <1>1, <1>2, <1>3, <1>4 DEF RecordsOf

\* A step that is v's leaves the others apart.
LEMMA OneMoves ==
  ASSUME RInv, NEW v \in VMs, RecordsOf(v)', \A u \in VMs \ {v} : Apart(u)
  PROVE  RInv'
<1>1. \A u \in VMs \ {v} : RecordsOf(u)'
  BY ApartKeeps DEF RInv, RecordsOf
<1> QED
  BY <1>1 DEF RInv, RecordsOf

LEMMA NobodyMoves ==
  ASSUME RInv, \A u \in VMs : Apart(u)
  PROVE  RInv'
BY ApartKeeps DEF RInv, RecordsOf

\* A step of v's worker that leaves the document, the UI thread and the other
\* workers alone.
LEMMA OthersApart ==
  ASSUME NEW v \in VMs, \A u \in VMs \ {v} : Held(u), main' = main,
         \A u \in VMs \ {v} :
           /\ worker'[u] = worker[u] /\ sys'[u] = sys[u] /\ files'[u] = files[u]
           /\ vhd'[u] = vhd[u] /\ guestPort'[u] = guestPort[u],
         debris \subseteq debris', cut' = cut
  PROVE  \A u \in VMs \ {v} : Apart(u)
BY DEF Apart, SameVm, MainApart

LEMMA SaveHolds ==
  ASSUME TInv, NEW thread \in Threads, NEW v \in VMs, NEW mapping \in Mappings \cup {None},
         Save(thread, v, mapping)
  PROVE  \A u \in VMs \ {v} : Held(u)
BY SaveIs DEF Held

LEMMA SameHolds ==
  ASSUME TInv, UNCHANGED storeVars
  PROVE  \A u \in VMs : Held(u)
<1>1. Content' = Content
  BY SameStore
<1> QED
  BY <1>1 DEF Held

\* A worker that is at a step keeps the UI thread off its VM.
LEMMA Busy ==
  ASSUME NEW v \in VMs, RecordsOf(v), worker[v].pc # "idle"
  PROVE  ~Editing(v) /\ ~(main.pc = "remove" /\ main.vm = v)
         /\ ~(main.vm = v /\ main.pc = "moved")
BY DEF RecordsOf, Stages, Editing, EditSteps

-----------------------------------------------------------------------------
(* The records: the steps of a worker.                                     *)

\* What v's worker has to show of its step: the UI thread is not at its VM.
LEMMA WorkerShows ==
  ASSUME NEW v \in VMs, RecordsOf(v), worker[v].pc # "idle", main' = main,
         worker'[v].pc \in CreateSteps => ~Recorded(v)',
         worker'[v].pc \in CreateSteps /\ (Content' # Torn \/ worker'[v].pc # "rollback") =>
           (main.pc = "desk" => main.snap[v] = None),
         worker'[v].pc \in StartSteps => Content' = Torn \/ Recorded(v)',
         Remains(v)',
         v \in cut => v \in cut',
         Recorded(v)' =>
           (v \notin cut => Content'[v].port = guestPort'[v]) /\ Content'[v].disk <= vhd'[v],
         worker'[v].pc \in WritesBack =>
           (v \notin cut => worker'[v].m.port = guestPort'[v]) /\ worker'[v].m.disk <= vhd'[v],
         main.pc = "desk" /\ main.snap[v] # None =>
           (v \notin cut => main.snap[v].port = guestPort'[v]) /\ main.snap[v].disk <= vhd'[v]
  PROVE  RecordsOf(v)'
<1>0. /\ ~Editing(v) /\ ~Editing(v)'
      /\ ~(main.pc = "remove" /\ main.vm = v) /\ ~(main'.pc = "remove" /\ main'.vm = v)
  BY Busy DEF Editing
<1>1. Stages(v)'
  BY <1>0 DEF Stages
<1>2. Ports(v)'
  BY <1>0 DEF Ports
<1>3. Disks(v)'
  BY <1>0 DEF Disks
<1> QED
  BY <1>1, <1>2, <1>3 DEF RecordsOf

\* What the records say of a VM whose worker is at a step, for citation.
LEMMA WorkerKnows ==
  ASSUME NEW v \in VMs, RecordsOf(v), worker[v].pc # "idle"
  PROVE  /\ Recorded(v) =>
              (v \notin cut => Content[v].port = guestPort[v]) /\ Content[v].disk <= vhd[v]
         /\ worker[v].pc \in WritesBack =>
              (v \notin cut => worker[v].m.port = guestPort[v]) /\ worker[v].m.disk <= vhd[v]
         /\ main.pc = "desk" /\ main.snap[v] # None =>
              (v \notin cut => main.snap[v].port = guestPort[v]) /\ main.snap[v].disk <= vhd[v]
         /\ worker[v].pc \in CreateSteps => ~Recorded(v)
         /\ worker[v].pc \in CreateSteps /\ (Content # Torn \/ worker[v].pc # "rollback") =>
              (main.pc = "desk" => main.snap[v] = None)
         /\ worker[v].pc \in StartSteps => Content = Torn \/ Recorded(v)
BY Busy DEF RecordsOf, Stages, Ports, Disks

\* A step that leaves the document, and v's port and disk, alone.
LEMMA KeptShows ==
  ASSUME NEW v \in VMs, RecordsOf(v), worker[v].pc # "idle", main' = main,
         Content' = Content, cut' = cut, guestPort'[v] = guestPort[v], vhd'[v] = vhd[v],
         worker'[v].pc \in CreateSteps => worker[v].pc \in CreateSteps,
         worker'[v].pc # "rollback" => worker[v].pc # "rollback" \/ worker'[v].pc = "idle",
         worker'[v].pc \in StartSteps => worker[v].pc \in StartSteps,
         worker'[v].pc \in WritesBack =>
           worker[v].pc \in WritesBack /\ worker'[v].m = worker[v].m,
         Remains(v)'
  PROVE  RecordsOf(v)'
<1>1. Recorded(v)' = Recorded(v)
  BY DEF Recorded
<1>2. /\ worker'[v].pc \in CreateSteps => ~Recorded(v)'
      /\ worker'[v].pc \in CreateSteps /\ (Content' # Torn \/ worker'[v].pc # "rollback") =>
           (main.pc = "desk" => main.snap[v] = None)
  BY <1>1, WorkerKnows DEF CreateSteps
<1>3. worker'[v].pc \in StartSteps => Content' = Torn \/ Recorded(v)'
  BY <1>1, WorkerKnows
<1>4. Recorded(v)' =>
           (v \notin cut => Content'[v].port = guestPort'[v]) /\ Content'[v].disk <= vhd'[v]
  BY <1>1, WorkerKnows
<1>5. worker'[v].pc \in WritesBack =>
           (v \notin cut => worker'[v].m.port = guestPort'[v]) /\ worker'[v].m.disk <= vhd'[v]
  BY WorkerKnows
<1>6. main.pc = "desk" /\ main.snap[v] # None =>
           (v \notin cut => main.snap[v].port = guestPort'[v]) /\ main.snap[v].disk <= vhd'[v]
  BY WorkerKnows
<1> QED
  BY <1>2, <1>3, <1>4, <1>5, <1>6, WorkerShows

\* Nothing of VMs but the worker changes.
LEMMA QuietOthers ==
  ASSUME TInv, NEW v \in VMs, UNCHANGED <<storeVars, hostVars, diskVars, main, ghostVars>>,
         \A u \in VMs \ {v} : worker'[u] = worker[u]
  PROVE  /\ \A u \in VMs \ {v} : Apart(u)
         /\ Content' = Content /\ main' = main /\ cut' = cut /\ debris' = debris
         /\ sys'[v] = sys[v] /\ files'[v] = files[v]
         /\ guestPort'[v] = guestPort[v] /\ vhd'[v] = vhd[v]
BY SameStore, SameHolds, OthersApart DEF hostVars, diskVars, ghostVars

LEMMA TheirRecords ==
  ASSUME RInv, NEW v \in VMs
  PROVE  RecordsOf(v)
BY DEF RInv, RecordsOf

LEMMA RecordsOfCreation ==
  ASSUME TInv, RInv, NEW v \in VMs,
         CreateChecks(v) \/ CreateFiles(v) \/ CreateSystem(v) \/ CreateRegisters(v)
         \/ CreateRollsBack(v) \/ BuildContinues(v)
  PROVE  RInv'
<1>0. /\ worker \in [VMs -> Workers] /\ worker[v] \in Workers /\ v \in Threads
      /\ {"files", "create", "register", "rollback", "built", "undo", "read"} \subseteq WorkerSteps
      /\ RecordsOf(v) /\ Remains(v)
  BY Types, TheirRecords DEF WorkerSteps, Threads, RecordsOf
<1>1. CASE CreateChecks(v)
  <2>0. worker[v].pc = "check"
    BY <1>1 DEF CreateChecks, At
  <2>1. CASE Ends(v)
    <3>1. Stops(v)
      BY <2>1, <1>0, EndsIs
    <3>2. /\ \A u \in VMs \ {v} : Apart(u)
          /\ Content' = Content /\ main' = main /\ cut' = cut /\ debris' = debris
          /\ sys'[v] = sys[v] /\ files'[v] = files[v]
          /\ guestPort'[v] = guestPort[v] /\ vhd'[v] = vhd[v]
      BY <3>1, <1>1, QuietOthers DEF Stops, CreateChecks
    <3>3. Remains(v)'
      BY <3>1, <3>2, <2>0, <1>0, Busy DEF Stops, Remains
    <3>4. RecordsOf(v)'
      BY <3>1, <3>2, <3>3, <2>0, <1>0, KeptShows
      DEF Stops, CreateSteps, StartSteps, WritesBack
    <3> QED
      BY <3>2, <3>4, OneMoves
  <2>2. CASE worker' = [worker EXCEPT ![v].pc = "files", ![v].m = Fresh(v)]
    <3>1. /\ worker'[v].pc = "files" /\ worker'[v].build = worker[v].build
          /\ \A u \in VMs \ {v} : worker'[u] = worker[u]
      BY <2>2, <1>0 DEF Workers
    <3>2. /\ \A u \in VMs \ {v} : Apart(u)
          /\ Content' = Content /\ main' = main /\ cut' = cut /\ debris' = debris
          /\ sys'[v] = sys[v] /\ files'[v] = files[v]
          /\ guestPort'[v] = guestPort[v] /\ vhd'[v] = vhd[v]
      BY <3>1, <1>1, QuietOthers DEF CreateChecks
    <3>3. Remains(v)'
      BY <3>1, <3>2, <2>0, <1>0, Busy DEF Remains
    <3>4. RecordsOf(v)'
      BY <3>1, <3>2, <3>3, <2>0, <1>0, KeptShows DEF CreateSteps, StartSteps, WritesBack
    <3> QED
      BY <3>2, <3>4, OneMoves
  <2> QED
    BY <2>1, <2>2, <1>1 DEF CreateChecks
<1>2. CASE CreateFiles(v)
  <2>0. worker[v].pc = "files" /\ worker[v].m \in Mappings
    BY <1>2, CopyTyped DEF CreateFiles, At, CopySteps
  <2>a. CASE Ends(v) /\ UNCHANGED diskVars
    <3>1. Stops(v)
      BY <2>a, <1>0, EndsIs
    <3>2. /\ \A u \in VMs \ {v} : Apart(u)
          /\ Content' = Content /\ main' = main /\ cut' = cut /\ debris' = debris
          /\ sys'[v] = sys[v] /\ files'[v] = files[v]
          /\ guestPort'[v] = guestPort[v] /\ vhd'[v] = vhd[v]
      BY <3>1, <2>a, <1>2, QuietOthers DEF Stops, CreateFiles
    <3>3. Remains(v)'
      BY <3>1, <3>2, <2>0, <1>0, Busy DEF Stops, Remains
    <3>4. RecordsOf(v)'
      BY <3>1, <3>2, <3>3, <2>0, <1>0, KeptShows
      DEF Stops, CreateSteps, StartSteps, WritesBack
    <3> QED
      BY <3>2, <3>4, OneMoves
  <2>b. CASE ~(Ends(v) /\ UNCHANGED diskVars)
    <3>1. Moves(v, "create") \/ Moves(v, "rollback")
      BY <2>b, <1>2, <1>0, GoesIs DEF CreateFiles
    <3>2. /\ worker'[v].pc \in {"create", "rollback"} /\ worker'[v].m = worker[v].m
          /\ worker'[v].made = worker[v].made /\ worker'[v].build = worker[v].build
          /\ \A u \in VMs \ {v} : worker'[u] = worker[u]
      BY <3>1 DEF Moves
    <3>3. /\ Content' = Content /\ main' = main /\ cut' = cut /\ debris' = debris
          /\ sys' = sys
          /\ guestPort'[v] = worker[v].m.port /\ vhd'[v] = worker[v].m.disk
          /\ \A u \in VMs \ {v} : /\ files'[u] = files[u] /\ vhd'[u] = vhd[u]
                                  /\ guestPort'[u] = guestPort[u]
      BY <2>b, <1>2, SameStore, Types DEF CreateFiles, hostVars, ghostVars, DisksTyped
    <3>4. \A u \in VMs \ {v} : Apart(u)
      BY <3>2, <3>3, <1>2, SameHolds, OthersApart DEF CreateFiles
    <3>5. Remains(v)'
      BY <3>2, <3>3, <2>0, <1>0, Busy DEF Remains
    <3>6. ~Recorded(v)' /\ (main.pc = "desk" => main.snap[v] = None)
      BY <2>0, <3>3, <1>0, WorkerKnows DEF CreateSteps, Recorded
    <3>7. worker'[v].m.disk <= vhd'[v]
      BY <2>0, <3>2, <3>3, MappingFields
    <3>8. RecordsOf(v)'
      BY <2>0, <3>2, <3>3, <3>5, <3>6, <3>7, <1>0, WorkerShows DEF StartSteps
    <3> QED
      BY <3>4, <3>8, OneMoves
  <2> QED
    BY <2>a, <2>b
<1>3. CASE CreateSystem(v)
  <2>0. worker[v].pc = "create"
    BY <1>3 DEF CreateSystem, At
  <2>1. /\ worker'[v].pc \in {"register", "rollback"} /\ worker'[v].m = worker[v].m
        /\ \A u \in VMs \ {v} : worker'[u] = worker[u]
        /\ worker'[v].pc = "register" => worker'[v].made
        /\ worker'[v].build = worker[v].build
        /\ worker'[v].pc = "rollback" => sys' = sys \/ v \in debris'
    <3>1. CASE worker' = [worker EXCEPT ![v].pc = "register", ![v].made = TRUE]
      BY <3>1, <1>0 DEF Workers
    <3>2. CASE Goes(v, "rollback") /\ (sys' = sys \/ v \in debris')
      BY <3>2, <1>0, GoesIs DEF Moves
    <3> QED
      BY <3>1, <3>2, <1>3 DEF CreateSystem
  <2>2. /\ Content' = Content /\ main' = main /\ cut' = cut /\ debris \subseteq debris'
        /\ files' = files /\ vhd' = vhd /\ guestPort' = guestPort
        /\ \A u \in VMs \ {v} : sys'[u] = sys[u]
    BY <1>3, SameStore, Types DEF CreateSystem, diskVars, DisksTyped
  <2>3. \A u \in VMs \ {v} : Apart(u)
    BY <2>1, <2>2, <1>3, SameHolds, OthersApart DEF CreateSystem
  <2>4. Remains(v)'
    BY <2>0, <2>1, <2>2, <1>0, Busy DEF Remains
  <2>5. RecordsOf(v)'
    BY <2>0, <2>1, <2>2, <2>4, <1>0, KeptShows DEF CreateSteps, StartSteps, WritesBack
  <2> QED
    BY <2>3, <2>5, OneMoves
<1>4. CASE CreateRegisters(v)
  <2>0. worker[v].pc = "register" /\ worker[v].m \in Mappings
    BY <1>4, CopyTyped DEF CreateRegisters, At, CopySteps
  <2>1. /\ main' = main /\ cut' = cut /\ debris' = debris
        /\ sys' = sys /\ files' = files /\ vhd' = vhd /\ guestPort' = guestPort
    BY <1>4 DEF CreateRegisters, hostVars, diskVars, ghostVars
  <2>2. CASE Save(v, v, worker[v].m) /\ Goes(v, "built")
    <3>1. Moves(v, "built")
      BY <2>2, <1>0, GoesIs
    <3>2. Content' # Torn /\ Content'[v] = worker[v].m /\ \A u \in VMs \ {v} : Held(u)
      BY <2>2, <2>0, <1>0, SaveIs, SaveHolds
    <3>3. \A u \in VMs \ {v} : Apart(u)
      BY <3>1, <3>2, <2>1, OthersApart DEF Moves
    <3>4. Recorded(v)'
      BY <3>2, <2>0, ConstantsAssumption DEF Recorded
    <3>5. Remains(v)'
      BY <3>1, <2>0, <2>1, <1>0, Busy DEF Remains, Moves
    <3>6. /\ v \notin cut => Content'[v].port = guestPort'[v]
          /\ Content'[v].disk <= vhd'[v]
      BY <3>2, <2>0, <2>1, <1>0, WorkerKnows DEF WritesBack
    <3>7. main.pc = "desk" => main.snap[v] = None
      BY <2>0, <1>0, WorkerKnows DEF CreateSteps
    <3>8. RecordsOf(v)'
      BY <3>1, <3>4, <3>5, <3>6, <3>7, <2>0, <2>1, <1>0, WorkerShows
      DEF Moves, CreateSteps, StartSteps, WritesBack
    <3> QED
      BY <3>3, <3>8, OneMoves
  <2>3. CASE CannotSave /\ Goes(v, "rollback") /\ UNCHANGED storeVars
    <3>1. Moves(v, "rollback")
      BY <2>3, <1>0, GoesIs
    <3>2. Content' = Content /\ Content = Torn
      BY <2>3, SameStore DEF CannotSave, Readable, Content
    <3>3. \A u \in VMs \ {v} : Apart(u)
      BY <3>1, <2>1, <2>3, SameHolds, OthersApart DEF Moves
    <3>4. Remains(v)'
      BY <3>1, <3>2, <2>0, <2>1, <1>0, Busy DEF Remains, Moves
    <3>5. RecordsOf(v)'
      BY <3>1, <3>2, <3>4, <2>0, <2>1, <1>0, KeptShows
      DEF Moves, CreateSteps, StartSteps, WritesBack
    <3> QED
      BY <3>3, <3>5, OneMoves
  <2> QED
    BY <2>2, <2>3, <1>4 DEF CreateRegisters
<1>5. CASE CreateRollsBack(v)
  <2>0. worker[v].pc = "rollback"
    BY <1>5 DEF CreateRollsBack, At
  <2>1. Stops(v)
    BY <1>5, <1>0, EndsIs DEF CreateRollsBack
  <2>2. /\ Content' = Content /\ main' = main /\ cut' = cut /\ debris \subseteq debris'
        /\ vhd' = vhd /\ guestPort' = guestPort
        /\ \A u \in VMs \ {v} : sys'[u] = sys[u] /\ files'[u] = files[u]
    BY <1>5, SameStore, Types DEF CreateRollsBack, DisksTyped
  <2>3. v \notin debris' =>
           /\ worker[v].made => sys'[v] = NoSystem
           /\ ~worker[v].made => sys'[v] = sys[v]
           /\ files'[v] = {}
    BY <1>5, Types DEF CreateRollsBack, DisksTyped
  <2>4. \A u \in VMs \ {v} : Apart(u)
    BY <2>1, <2>2, <1>5, SameHolds, OthersApart DEF CreateRollsBack, Stops
  <2>5. Remains(v)'
    BY <2>0, <2>1, <2>2, <2>3, <1>0, Busy DEF Remains, Stops
  <2>6. RecordsOf(v)'
    BY <2>0, <2>1, <2>2, <2>5, <1>0, KeptShows DEF Stops, CreateSteps, StartSteps, WritesBack
  <2> QED
    BY <2>4, <2>6, OneMoves
<1>6. CASE BuildContinues(v)
  <2>0. worker[v].pc = "built"
    BY <1>6 DEF BuildContinues, At
  <2>1. Moves(v, "undo") \/ Moves(v, "read")
    BY <1>6, <1>0, GoesIs DEF BuildContinues
  <2>2. /\ \A u \in VMs \ {v} : Apart(u)
        /\ Content' = Content /\ main' = main /\ cut' = cut /\ debris' = debris
        /\ sys'[v] = sys[v] /\ files'[v] = files[v]
        /\ guestPort'[v] = guestPort[v] /\ vhd'[v] = vhd[v]
    BY <2>1, <1>6, QuietOthers DEF Moves, BuildContinues
  <2>3. Remains(v)'
    BY <2>0, <2>1, <2>2, <1>0, Busy DEF Remains, Moves
  <2>4. RecordsOf(v)'
    BY <2>0, <2>1, <2>2, <2>3, <1>0, KeptShows DEF Moves, CreateSteps, StartSteps, WritesBack
  <2> QED
    BY <2>2, <2>4, OneMoves
<1> QED
  BY <1>1, <1>2, <1>3, <1>4, <1>5, <1>6

\* A step of a start, whatever it does to the host: the mapping is there, and
\* stays as it is.
LEMMA StartShows ==
  ASSUME NEW v \in VMs, RecordsOf(v), worker[v].pc \in StartSteps, main' = main,
         Content' = Content, cut' = cut, guestPort'[v] = guestPort[v], vhd'[v] = vhd[v],
         worker'[v].pc \in (StartSteps \ {"built"}) \cup {"idle"},
         worker'[v].pc \in WritesBack =>
           worker[v].pc \in WritesBack /\ worker'[v].m = worker[v].m
  PROVE  RecordsOf(v)'
<1>1. worker[v].pc # "idle" /\ (Content = Torn \/ Recorded(v))
  BY WorkerKnows DEF StartSteps
<1>2. Remains(v)'
  BY <1>1, Busy DEF Remains, StartSteps, Recorded
<1> QED
  BY <1>1, <1>2, KeptShows DEF StartSteps, CreateSteps

LEMMA FailShows ==
  ASSUME TInv, NEW v \in VMs, RecordsOf(v), worker[v].pc \in StartSteps, StartFails(v),
         main' = main, Content' = Content, cut' = cut,
         guestPort'[v] = guestPort[v], vhd'[v] = vhd[v]
  PROVE  RecordsOf(v)' /\ \A u \in VMs \ {v} : worker'[u] = worker[u]
<1>1. Moves(v, "undo") \/ Stops(v)
  BY StartFailsIs, Types
<1>2. /\ worker'[v].pc \in {"undo", "idle"}
      /\ \A u \in VMs \ {v} : worker'[u] = worker[u]
  BY <1>1 DEF Moves, Stops
<1> QED
  BY <1>2, StartShows DEF StartSteps, WritesBack

\* A step of a worker that touches the host but neither the document nor what
\* the others have.
LEMMA HostOthers ==
  ASSUME TInv, NEW v \in VMs, UNCHANGED <<storeVars, files, vhd, guestPort, main, debris, cut>>,
         \A u \in VMs \ {v} : worker'[u] = worker[u] /\ sys'[u] = sys[u]
  PROVE  \A u \in VMs \ {v} : Apart(u)
BY SameHolds, OthersApart

LEMMA RecordsOfStart ==
  ASSUME TInv, RInv, NEW v \in VMs,
         StartReads(v) \/ StartOffNetwork(v) \/ StartReuses(v) \/ StartCreatesEndpoint(v)
         \/ StartRecords(v) \/ StartRegistersAddress(v)
  PROVE  RInv'
<1>0. /\ worker \in [VMs -> Workers] /\ worker[v] \in Workers /\ v \in Threads
      /\ {"net", "record", "dhcp", "system"} \subseteq WorkerSteps
      /\ RecordsOf(v) /\ Remains(v)
  BY Types, TheirRecords DEF WorkerSteps, Threads, RecordsOf
<1>1. CASE StartReads(v)
  <2>0. /\ worker[v].pc = "read" /\ Content' = Content /\ main' = main /\ cut' = cut
        /\ guestPort' = guestPort /\ vhd' = vhd /\ sys' = sys /\ files' = files /\ debris' = debris
    BY <1>1, SameStore DEF StartReads, At, hostVars, diskVars, ghostVars
  <2>1. CASE StartFails(v)
    BY <2>0, <2>1, <1>0, <1>1, FailShows, HostOthers, OneMoves
    DEF StartReads, StartSteps, hostVars, diskVars
  <2>2. CASE Readable /\ doc[v] # None /\ worker' = [worker EXCEPT ![v].pc = "net", ![v].m = doc[v]]
    <3>0. Content = doc /\ doc # Torn /\ doc \in Documents /\ Recorded(v)
      BY <2>2, ReadableIs DEF Recorded
    <3>1. /\ worker'[v].pc = "net" /\ worker'[v].m = doc[v]
          /\ \A u \in VMs \ {v} : worker'[u] = worker[u]
      BY <2>2, <1>0 DEF Workers
    <3>2. /\ v \notin cut => doc[v].port = guestPort[v]
          /\ doc[v].disk <= vhd[v]
      BY <3>0, <2>0, <1>0, WorkerKnows
    <3>3. Remains(v)'
      BY <3>1, <2>0, <1>0, Busy DEF Remains
    <3>4. Recorded(v)'
      BY <3>0, <2>0 DEF Recorded
    <3>5. main.pc = "desk" /\ main.snap[v] # None =>
           (v \notin cut => main.snap[v].port = guestPort'[v]) /\ main.snap[v].disk <= vhd'[v]
      BY <2>0, <1>0, WorkerKnows
    <3>6. RecordsOf(v)'
      BY <3>0, <3>1, <3>2, <3>3, <3>4, <3>5, <2>0, <1>0, WorkerShows DEF CreateSteps
    <3>7. \A u \in VMs \ {v} : Apart(u)
      BY <3>1, <1>1, HostOthers DEF StartReads, ghostVars, hostVars, diskVars
    <3> QED
      BY <3>6, <3>7, OneMoves
  <2> QED
    BY <2>1, <2>2, <1>1 DEF StartReads
<1>2. CASE StartOffNetwork(v)
  <2>1. Moves(v, "system")
    BY <1>2, <1>0, GoesIs DEF StartOffNetwork
  <2>2. RecordsOf(v)'
    BY <2>1, <1>0, <1>2, SameStore, StartShows
    DEF StartOffNetwork, At, Moves, StartSteps, WritesBack, ghostVars
  <2>3. \A u \in VMs \ {v} : Apart(u)
    BY <2>1, <1>2, HostOthers DEF StartOffNetwork, ghostVars, Moves, hostVars
  <2> QED
    BY <2>2, <2>3, OneMoves
<1>3. CASE StartReuses(v)
  <2>1. /\ worker'[v].pc = "dhcp" /\ worker'[v].m = worker[v].m
        /\ \A u \in VMs \ {v} : worker'[u] = worker[u]
    BY <1>3, <1>0 DEF StartReuses, Workers
  <2>2. RecordsOf(v)'
    BY <2>1, <1>0, <1>3, SameStore, StartShows
    DEF StartReuses, At, StartSteps, WritesBack, ghostVars, diskVars
  <2>3. \A u \in VMs \ {v} : Apart(u)
    BY <2>1, <1>3, HostOthers DEF StartReuses, ghostVars, hostVars, diskVars
  <2> QED
    BY <2>2, <2>3, OneMoves
<1>4. CASE StartCreatesEndpoint(v)
  <2>0. /\ worker[v].pc = "net" /\ Content' = Content /\ main' = main /\ cut' = cut
        /\ guestPort' = guestPort /\ vhd' = vhd /\ sys' = sys
    BY <1>4, SameStore DEF StartCreatesEndpoint, At, diskVars, ghostVars
  <2>1. CASE StartFails(v)
    BY <2>0, <2>1, <1>0, <1>4, FailShows, HostOthers, OneMoves
    DEF ghostVars, StartCreatesEndpoint, StartSteps, diskVars
  <2>2. CASE \E e \in NewEndpoints : worker' = [worker EXCEPT ![v].ep = e, ![v].pc = "record"]
    <3>1. /\ worker'[v].pc = "record" /\ worker'[v].m = worker[v].m
          /\ \A u \in VMs \ {v} : worker'[u] = worker[u]
      BY <2>2, <1>0 DEF Workers
    <3>2. RecordsOf(v)'
      BY <3>1, <2>0, <1>0, StartShows DEF StartSteps, WritesBack
    <3>3. \A u \in VMs \ {v} : Apart(u)
      BY <3>1, <2>0, <1>4, HostOthers DEF StartCreatesEndpoint, ghostVars, diskVars
    <3> QED
      BY <3>2, <3>3, OneMoves
  <2> QED
    BY <2>1, <2>2, <1>4 DEF StartCreatesEndpoint
<1>5. CASE StartRecords(v)
  <2>0. /\ worker[v].pc = "record" /\ main' = main /\ cut' = cut /\ debris' = debris
        /\ guestPort' = guestPort /\ vhd' = vhd /\ sys' = sys /\ files' = files
        /\ worker[v].m \in Mappings
    BY <1>5, CopyTyped DEF StartRecords, At, CopySteps, hostVars, diskVars, ghostVars
  <2> DEFINE n == [worker[v].m EXCEPT !.ep = worker[v].ep]
  <2>1. CASE Save(v, v, n) /\ Goes(v, "dhcp")
    <3>0. /\ n \in Mappings /\ n.port = worker[v].m.port /\ n.disk = worker[v].m.disk
      BY <2>0, <1>0 DEF Mappings, Workers
    <3> HIDE DEF n
    <3>1. Moves(v, "dhcp")
      BY <2>1, <1>0, GoesIs
    <3>2. /\ Content' # Torn /\ Content'[v] = n
          /\ \A u \in VMs \ {v} : Held(u)
      BY <3>0, <2>1, <1>0, SaveIs, SaveHolds
    <3>3. \A u \in VMs \ {v} : Apart(u)
      BY <3>1, <3>2, <2>0, OthersApart DEF Moves
    <3>4. Recorded(v)'
      BY <3>0, <3>2, ConstantsAssumption DEF Recorded
    <3>5. Remains(v)'
      BY <3>1, <2>0, <1>0, Busy DEF Remains, Moves
    <3>6. /\ v \notin cut => worker[v].m.port = guestPort[v]
          /\ worker[v].m.disk <= vhd[v]
      BY <2>0, <1>0, WorkerKnows DEF WritesBack
    <3>7. main.pc = "desk" /\ main.snap[v] # None =>
           (v \notin cut => main.snap[v].port = guestPort'[v]) /\ main.snap[v].disk <= vhd'[v]
      BY <2>0, <1>0, WorkerKnows
    <3>8. RecordsOf(v)'
      BY <3>0, <3>1, <3>2, <3>4, <3>5, <3>6, <3>7, <2>0, <1>0, WorkerShows
      DEF Moves, CreateSteps
    <3> QED
      BY <3>3, <3>8, OneMoves
  <2>2. CASE StartFails(v) /\ UNCHANGED storeVars
    BY <2>0, <2>2, <1>0, <1>5, SameStore, FailShows, HostOthers, OneMoves
    DEF StartRecords, StartSteps, diskVars
  <2> QED
    BY <2>1, <2>2, <1>5 DEF StartRecords
<1>6. CASE StartRegistersAddress(v)
  <2>0. /\ worker[v].pc = "dhcp" /\ Content' = Content /\ main' = main /\ cut' = cut
        /\ guestPort' = guestPort /\ vhd' = vhd /\ sys' = sys
    BY <1>6, SameStore DEF StartRegistersAddress, At, hostVars, ghostVars
  <2>1. CASE StartFails(v)
    BY <2>0, <2>1, <1>0, <1>6, FailShows, HostOthers, OneMoves
    DEF ghostVars, StartRegistersAddress, StartSteps
  <2>2. CASE Goes(v, "system")
    <3>1. Moves(v, "system")
      BY <2>2, <1>0, GoesIs
    <3>2. RecordsOf(v)'
      BY <3>1, <2>0, <1>0, StartShows DEF Moves, StartSteps, WritesBack
    <3>3. \A u \in VMs \ {v} : Apart(u)
      BY <3>1, <2>0, <1>6, HostOthers DEF StartRegistersAddress, ghostVars, Moves
    <3> QED
      BY <3>2, <3>3, OneMoves
  <2> QED
    BY <2>1, <2>2, <1>6 DEF StartRegistersAddress
<1> QED
  BY <1>1, <1>2, <1>3, <1>4, <1>5, <1>6

LEMMA RecordsOfBoot ==
  ASSUME TInv, RInv, NEW v \in VMs,
         StartPreparesSystem(v) \/ StartBoots(v) \/ BuildStops(v)
         \/ AwaitNothing(v) \/ AwaitAddress(v) \/ AwaitPort(v) \/ AwaitCloudInit(v)
  PROVE  RInv'
<1>0. /\ worker \in [VMs -> Workers] /\ worker[v] \in Workers /\ sys \in [VMs -> Systems]
      /\ {"boot", "net", "address", "port", "cloud", "stop", "undo"} \subseteq WorkerSteps
      /\ RecordsOf(v)
  BY Types, TheirRecords DEF WorkerSteps, DisksTyped
<1>1. /\ worker[v].pc \in StartSteps /\ Content' = Content /\ main' = main /\ cut' = cut
      /\ guestPort' = guestPort /\ vhd' = vhd /\ files' = files
      /\ \A u \in VMs \ {v} : sys'[u] = sys[u]
      /\ UNCHANGED <<storeVars, files, vhd, guestPort, main, debris, cut>>
  BY <1>0, SameStore
  DEF StartPreparesSystem, StartBoots, BuildStops, AwaitNothing, AwaitAddress, AwaitPort,
      AwaitCloudInit, AwaitGuest, At, StartSteps, diskVars, hostVars, ghostVars
<1>2. \/ StartFails(v)
      \/ /\ worker'[v].pc \in (StartSteps \ {"built"}) \cup {"idle"}
         /\ worker'[v].pc \in WritesBack =>
              worker[v].pc \in WritesBack /\ worker'[v].m = worker[v].m
         /\ \A u \in VMs \ {v} : worker'[u] = worker[u]
  <2>1. CASE StartPreparesSystem(v)
    <3>1. worker[v].pc = "system"
      BY <2>1 DEF StartPreparesSystem, At
    <3>2. CASE Goes(v, "boot")
      BY <3>2, <1>0, GoesIs DEF Moves, StartSteps, WritesBack
    <3>3. CASE worker' = [worker EXCEPT ![v].again = TRUE, ![v].pc = "net"]
      BY <3>1, <3>3, <1>0 DEF Workers, StartSteps, WritesBack
    <3> QED
      BY <3>2, <3>3, <2>1 DEF StartPreparesSystem, EndpointBusy
  <2>2. CASE StartBoots(v)
    <3> DEFINE n == IF Readable /\ doc[v] # None THEN doc[v] ELSE worker[v].m
    <3>1. CASE worker' = [worker EXCEPT ![v].pc = "address", ![v].m = n]
      <4> HIDE DEF n
      <4> QED
        BY <3>1, <1>0 DEF Workers, StartSteps, WritesBack
    <3>2. CASE Ends(v)
      BY <3>2, <1>0, EndsIs DEF Stops, WritesBack
    <3> QED
      BY <3>1, <3>2, <2>2, <1>0 DEF StartBoots
  <2>3. CASE BuildStops(v) \/ AwaitNothing(v) \/ AwaitAddress(v) \/ AwaitPort(v) \/ AwaitCloudInit(v)
    <3>1. Ends(v) \/ Goes(v, "undo") \/ Goes(v, "stop") \/ Goes(v, "port") \/ Goes(v, "cloud")
      BY <2>3 DEF BuildStops, AwaitNothing, AwaitAddress, AwaitPort, AwaitCloudInit, AwaitGuest
    <3> QED
      BY <3>1, <1>0, EndsIs, GoesIs DEF Moves, Stops, StartSteps, WritesBack
  <2> QED
    BY <2>1, <2>2, <2>3
<1>3. RecordsOf(v)' /\ \A u \in VMs \ {v} : worker'[u] = worker[u]
  BY <1>0, <1>1, <1>2, FailShows, StartShows
<1> QED
  BY <1>1, <1>3, HostOthers, OneMoves

\* What the pipeline of a deletion leaves when nothing of it fails.
LEMMA TeardownIs ==
  ASSUME TInv, NEW v \in VMs, NEW m, NEW failing, NEW disks, Teardown(v, m, failing, disks)
  PROVE  /\ \A u \in VMs \ {v} : sys'[u] = sys[u] /\ files'[u] = files[u]
         /\ vhd' = vhd /\ guestPort' = guestPort
         /\ failing = {} => /\ sys'[v] = NoSystem /\ files'[v] \subseteq {"disk"}
                            /\ disks = TRUE => files'[v] = {}
<1>1. sys \in [VMs -> Systems] /\ files \in [VMs -> SUBSET FileKinds]
  BY Types DEF DisksTyped
<1>2. \A u \in VMs \ {v} : sys'[u] = sys[u] /\ files'[u] = files[u]
  BY <1>1 DEF Teardown
<1>3. failing = {} => sys'[v] = NoSystem /\ files'[v] = IF disks THEN {} ELSE files[v] \cap {"disk"}
  BY <1>1 DEF Teardown
<1> QED
  BY <1>2, <1>3 DEF Teardown

LEMMA RecordsOfEnd ==
  ASSUME TInv, RInv, NEW v \in VMs, BuildUndoes(v) \/ BuildRemoves(v) \/ BuildForgets(v)
  PROVE  RInv'
<1>0. /\ worker \in [VMs -> Workers] /\ worker[v] \in Workers /\ v \in Threads
      /\ {"remove", "forget"} \subseteq WorkerSteps
      /\ RecordsOf(v) /\ Remains(v)
  BY Types, TheirRecords DEF WorkerSteps, Threads, RecordsOf
<1>1. CASE BuildUndoes(v)
  <2>0. /\ worker[v].pc = "undo" /\ Content' = Content /\ main' = main /\ cut' = cut
        /\ debris' = debris
    BY <1>1, SameStore DEF BuildUndoes, At, ghostVars
  <2>1. /\ vhd' = vhd /\ guestPort' = guestPort
        /\ \A u \in VMs \ {v} : sys'[u] = sys[u] /\ files'[u] = files[u]
    <3>1. CASE \E failing \in SUBSET Parts : Teardown(v, doc[v], failing, TRUE)
      BY <3>1, TeardownIs
    <3>2. CASE UNCHANGED <<hostVars, diskVars>>
      BY <3>2 DEF hostVars, diskVars
    <3> QED
      BY <3>1, <3>2, <1>1 DEF BuildUndoes
  <2>2. Stops(v) \/ (Moves(v, "remove") /\ sys'[v] = NoSystem /\ files'[v] = {})
    <3>1. CASE Ends(v)
      BY <3>1, <1>0, EndsIs
    <3>2. CASE Teardown(v, doc[v], {}, TRUE) /\ Goes(v, "remove")
      BY <3>2, <1>0, GoesIs, TeardownIs
    <3> QED
      BY <3>1, <3>2, <1>1 DEF BuildUndoes
  <2>3. \A u \in VMs \ {v} : Apart(u)
    BY <2>0, <2>1, <2>2, <1>1, SameHolds, OthersApart DEF BuildUndoes, Moves, Stops
  <2>4. RecordsOf(v)'
    <3>1. CASE Stops(v)
      BY <3>1, <2>0, <2>1, <1>0, StartShows DEF Stops, StartSteps, WritesBack
    <3>2. CASE Moves(v, "remove") /\ sys'[v] = NoSystem /\ files'[v] = {}
      <4>1. Remains(v)'
        BY <3>2, <2>0, <1>0, Busy DEF Remains, Moves
      <4> QED
        BY <4>1, <3>2, <2>0, <2>1, <1>0, KeptShows DEF Moves, CreateSteps, StartSteps, WritesBack
    <3> QED
      BY <3>1, <3>2, <2>2
  <2> QED
    BY <2>3, <2>4, OneMoves
<1>2. CASE BuildRemoves(v)
  <2>0. /\ worker[v].pc = "remove" /\ main' = main /\ cut' = cut /\ debris' = debris
        /\ vhd' = vhd /\ guestPort' = guestPort /\ sys' = sys /\ files' = files
    BY <1>2 DEF BuildRemoves, At, hostVars, diskVars, ghostVars
  <2>1. CASE Save(v, v, None) /\ Goes(v, "forget")
    <3>1. Moves(v, "forget")
      BY <2>1, <1>0, GoesIs
    <3>2. Content'[v] = None /\ \A u \in VMs \ {v} : Held(u)
      BY <2>1, <1>0, SaveIs, SaveHolds
    <3>3. \A u \in VMs \ {v} : Apart(u)
      BY <3>1, <3>2, <2>0, OthersApart DEF Moves
    <3>4. Remains(v)' /\ ~Recorded(v)'
      BY <3>1, <3>2, <2>0, <1>0, Busy DEF Remains, Moves, Recorded
    <3>5. main.pc = "desk" /\ main.snap[v] # None =>
           (v \notin cut => main.snap[v].port = guestPort'[v]) /\ main.snap[v].disk <= vhd'[v]
      BY <2>0, <1>0, WorkerKnows
    <3>6. RecordsOf(v)'
      BY <3>1, <3>4, <3>5, <2>0, <1>0, WorkerShows DEF Moves, CreateSteps, StartSteps, WritesBack
    <3> QED
      BY <3>3, <3>6, OneMoves
  <2>2. CASE CannotSave /\ Ends(v) /\ UNCHANGED storeVars
    <3>1. Stops(v)
      BY <2>2, <1>0, EndsIs
    <3>2. Content' = Content
      BY <2>2, SameStore
    <3>3. \A u \in VMs \ {v} : Apart(u)
      BY <3>1, <2>0, <2>2, SameHolds, OthersApart DEF Stops
    <3>4. Remains(v)'
      BY <3>1, <2>0, <1>0, Busy DEF Remains, Stops
    <3>5. RecordsOf(v)'
      BY <3>1, <3>2, <3>4, <2>0, <1>0, KeptShows DEF Stops, CreateSteps, StartSteps, WritesBack
    <3> QED
      BY <3>3, <3>5, OneMoves
  <2> QED
    BY <2>1, <2>2, <1>2 DEF BuildRemoves
<1>3. CASE BuildForgets(v)
  <2>0. /\ worker[v].pc = "forget" /\ main' = main /\ cut' = cut /\ debris' = debris
        /\ vhd' = vhd /\ guestPort' = guestPort /\ sys' = sys /\ files' = files
        /\ Content' = Content
    BY <1>3, SameStore DEF BuildForgets, At, hostVars, diskVars, ghostVars
  <2>1. Stops(v)
    BY <1>3, <1>0, EndsIs DEF BuildForgets
  <2>2. \A u \in VMs \ {v} : Apart(u)
    BY <2>0, <2>1, <1>3, SameHolds, OthersApart DEF Stops, BuildForgets
  <2>3. Remains(v)'
    BY <2>0, <2>1, <1>0, Busy DEF Remains, Stops
  <2>4. RecordsOf(v)'
    BY <2>0, <2>1, <2>3, <1>0, KeptShows DEF Stops, CreateSteps, StartSteps, WritesBack
  <2> QED
    BY <2>2, <2>4, OneMoves
<1> QED
  BY <1>1, <1>2, <1>3

-----------------------------------------------------------------------------
(* The records: the steps of an edit.                                      *)

LEMMA EditKnows ==
  ASSUME TInv, RInv, main.pc \in EditSteps, NEW v, v = main.vm
  PROVE  /\ v \in VMs /\ RecordsOf(v) /\ worker[v].pc = "idle"
         /\ Content = Torn \/ Recorded(v)
         /\ Recorded(v) => Content[v].disk <= vhd[v]
         /\ Recorded(v) /\ v \notin cut /\ main.pc # "moved" => Content[v].port = guestPort[v]
         /\ v \notin cut /\ main.pc \notin {"moved", "accepted"} => main.m.port = guestPort[v]
         /\ main.pc = "moved" => main.req.port = guestPort[v]
         /\ main.m.disk <= main.req.disk /\ main.m.disk <= vhd[v]
         /\ main.pc = "grow" /\ Recorded(v) => Content[v].disk <= main.req.disk
         /\ main.pc # "grow" => main.req.disk <= vhd[v]
         /\ main.pc \notin {"grow", "grown"} => main.m.disk = main.req.disk
<1>1. main.vm \in VMs
  BY EditTyped
<1>2. RecordsOf(main.vm) /\ Editing(main.vm)
  BY <1>1, TheirRecords DEF Editing
<1>3. worker[main.vm].pc = "idle" /\ (Content = Torn \/ Recorded(main.vm))
  BY <1>2 DEF RecordsOf, Stages
<1>4. /\ Recorded(main.vm) /\ main.vm \notin cut /\ main.pc # "moved" =>
           Content[main.vm].port = guestPort[main.vm]
      /\ main.vm \notin cut /\ main.pc \notin {"moved", "accepted"} =>
           main.m.port = guestPort[main.vm]
      /\ main.pc = "moved" => main.req.port = guestPort[main.vm]
  BY <1>2 DEF RecordsOf, Ports
<1>5. /\ Recorded(main.vm) => Content[main.vm].disk <= vhd[main.vm]
      /\ main.m.disk <= main.req.disk /\ main.m.disk <= vhd[main.vm]
      /\ main.pc = "grow" /\ Recorded(main.vm) => Content[main.vm].disk <= main.req.disk
      /\ main.pc # "grow" => main.req.disk <= vhd[main.vm]
      /\ main.pc \notin {"grow", "grown"} => main.m.disk = main.req.disk
  BY <1>2 DEF RecordsOf, Disks
<1> QED
  BY <1>1, <1>2, <1>3, <1>4, <1>5

\* What a step of the edit has to show of the VM: its worker is idle.
LEMMA EditShows ==
  ASSUME NEW v \in VMs, worker'[v].pc = "idle", Content' = Torn \/ Recorded(v)',
         main'.pc # "remove", main'.pc # "desk",
         Recorded(v)' => Content'[v].disk <= vhd'[v],
         Recorded(v)' /\ v \notin cut' /\ main'.pc # "moved" => Content'[v].port = guestPort'[v],
         main'.pc \in EditSteps =>
           /\ main'.vm = v
           /\ v \notin cut' /\ main'.pc \notin {"moved", "accepted"} =>
                main'.m.port = guestPort'[v]
           /\ main'.pc = "moved" => main'.req.port = guestPort'[v]
           /\ main'.m.disk <= main'.req.disk /\ main'.m.disk <= vhd'[v]
           /\ main'.pc = "grow" /\ Recorded(v)' => Content'[v].disk <= main'.req.disk
           /\ main'.pc # "grow" => main'.req.disk <= vhd'[v]
           /\ main'.pc \notin {"grow", "grown"} => main'.m.disk = main'.req.disk
  PROVE  RecordsOf(v)'
<1>1. Stages(v)'
  BY DEF Stages, CreateSteps, StartSteps, Editing
<1>2. Remains(v)'
  BY DEF Remains, Recorded
<1>3. Ports(v)'
  BY DEF Ports, WritesBack, Editing, EditSteps
<1>4. Disks(v)'
  BY DEF Disks, WritesBack, Editing
<1> QED
  BY <1>1, <1>2, <1>3, <1>4 DEF RecordsOf

\* The others are apart from an edit of v.
LEMMA EditApart ==
  ASSUME NEW v \in VMs, main.vm = v, \A u \in VMs \ {v} : Held(u),
         UNCHANGED <<worker, hostVars, files, debris>>,
         \A u \in VMs \ {v} : vhd'[u] = vhd[u] /\ guestPort'[u] = guestPort[u],
         cut \subseteq cut',
         main'.pc # "desk", main'.pc \in EditSteps \cup {"remove"} => main'.vm = v
  PROVE  \A u \in VMs \ {v} : Apart(u)
BY DEF Apart, SameVm, MainApart, hostVars

LEMMA MappingRecorded ==
  ASSUME NEW v \in VMs, Content' # Torn, Content'[v] \in Mappings
  PROVE  Recorded(v)'
BY ConstantsAssumption DEF Recorded

LEMMA RecordsOfField ==
  ASSUME TInv, RInv, NEW field \in {"net", "gpu"},
         NEW step \in {"network", "gpu"}, NEW next \in {"gpu", "port"},
         RecordField(step, field, next)
  PROVE  RInv'
<1> DEFINE n == [main.m EXCEPT ![field] = main.req[field]]
<1>a. main.pc = step /\ main.pc \in EditSteps
  BY DEF RecordField, MainAt, EditSteps
<1>b. PICK v \in VMs : v = main.vm
  BY <1>a, EditTyped
<1>0. /\ main.pc = step /\ main.pc \in EditSteps /\ main \in Mains /\ "main" \in Threads
      /\ next \in MainSteps /\ step \notin {"grow", "grown", "moved", "accepted"}
      /\ next \notin {"grow", "grown", "moved", "accepted", "desk", "remove"}
  BY Types DEF RecordField, MainAt, Threads, EditSteps, MainSteps
<1>1. /\ UNCHANGED <<worker, hostVars, files, vhd, guestPort, debris, cut>>
  BY DEF RecordField, diskVars, ghostVars
<1>2. n \in Mappings /\ n.port = main.m.port /\ n.disk = main.m.disk
  BY <1>0, EditTyped DEF Mappings
<1>3. CASE Refused /\ UNCHANGED storeVars
  <2>1. MainLeaves /\ Content' = Content /\ \A u \in VMs : Held(u)
    BY <1>3, RefusedIs, SameStore, SameHolds
  <2>2. RecordsOf(v)'
    BY <2>1, <1>0, <1>1, <1>b, EditKnows, EditShows DEF MainLeaves, EditSteps, Recorded
  <2>3. \A u \in VMs \ {v} : Apart(u)
    BY <2>1, <1>0, <1>1, <1>b, EditKnows, EditApart DEF MainLeaves, EditSteps
  <2> QED
    BY <2>2, <2>3, <1>0, <1>b, EditKnows, OneMoves
<1>4. CASE MainGoes(next) /\ UNCHANGED storeVars
  <2>1. MainMoves(next) /\ Content' = Content /\ \A u \in VMs : Held(u)
    BY <1>4, <1>0, MainGoesIs, SameStore, SameHolds
  <2>2. RecordsOf(v)'
    BY <2>1, <1>0, <1>1, <1>b, EditKnows, EditShows DEF MainMoves, Recorded
  <2>3. \A u \in VMs \ {v} : Apart(u)
    BY <2>1, <1>0, <1>1, <1>b, EditKnows, EditApart DEF MainMoves
  <2> QED
    BY <2>2, <2>3, <1>0, <1>b, EditKnows, OneMoves
<1>5. CASE MainGoes(next) /\ Save("main", v, n)
  <2> HIDE DEF n
  <2>1. /\ MainMoves(next) /\ Content' # Torn /\ Content'[v] = n /\ Recorded(v)'
        /\ \A u \in VMs \ {v} : Held(u)
    BY <1>5, <1>0, <1>2, MainGoesIs, <1>b, EditTyped, SaveIs, SaveHolds, MappingRecorded
  <2>2. RecordsOf(v)'
    BY <2>1, <1>0, <1>1, <1>2, <1>b, EditKnows, EditShows DEF MainMoves
  <2>3. \A u \in VMs \ {v} : Apart(u)
    BY <2>1, <1>0, <1>1, <1>b, EditKnows, EditApart DEF MainMoves
  <2> QED
    BY <2>2, <2>3, <1>0, <1>b, EditKnows, OneMoves
<1> QED
  BY <1>b, <1>3, <1>4, <1>5 DEF RecordField

LEMMA RecordsOfEdit ==
  ASSUME TInv, RInv,
         UpdateGrows \/ RecordDiskSize \/ UpdateConfigures \/ RecordNetworkMode
         \/ RecordGpuMode \/ MoveSshPort \/ RecordSshPort \/ UpdateReturns
  PROVE  RInv'
<1>0. CASE RecordNetworkMode \/ RecordGpuMode
  BY <1>0, RecordsOfField DEF RecordNetworkMode, RecordGpuMode
<1> SUFFICES ASSUME UpdateGrows \/ RecordDiskSize \/ UpdateConfigures
                    \/ MoveSshPort \/ RecordSshPort \/ UpdateReturns
             PROVE  RInv'
  BY <1>0
<1>a. main.pc \in EditSteps
  BY DEF UpdateGrows, RecordDiskSize, UpdateConfigures, MoveSshPort, RecordSshPort,
         UpdateReturns, MainAt, EditSteps
<1>b. PICK v \in VMs : v = main.vm
  BY <1>a, EditTyped
<1>c. /\ main \in Mains /\ "main" \in Threads
      /\ vhd \in [VMs -> 0..MaxDisk] /\ guestPort \in [VMs -> 0..2]
      /\ main.m \in Mappings /\ main.req \in Mappings
      /\ {"grown", "network", "accepted", "moved"} \subseteq MainSteps
  BY <1>a, EditTyped, Types DEF Threads, DisksTyped, MainSteps
<1>1. CASE UpdateGrows
  <2>1. /\ main.pc = "grow" /\ UNCHANGED <<worker, hostVars, files, guestPort, debris, cut>>
        /\ Content' = Content /\ \A u \in VMs : Held(u)
        /\ \A u \in VMs \ {v} : vhd'[u] = vhd[u]
    BY <1>1, <1>b, <1>c, SameStore, SameHolds DEF UpdateGrows, MainAt, ghostVars
  <2>2. CASE vhd' = [vhd EXCEPT ![v] = main.req.disk] /\ MainGoes("grown")
    <3>1. MainMoves("grown") /\ vhd'[v] = main.req.disk
      BY <2>2, <1>c, MainGoesIs
    <3>2. main.m.disk \in Nat /\ main.req.disk \in Nat /\ main.m.disk <= main.req.disk
      BY <1>a, <1>b, <1>c, EditKnows, MappingFields
    <3>3. Recorded(v) => Content[v].disk <= vhd'[v]
      BY <3>1, <2>1, <1>a, <1>b, EditKnows
    <3>4. RecordsOf(v)'
      BY <3>1, <3>2, <3>3, <2>1, <1>a, <1>b, EditKnows, EditShows DEF MainMoves, Recorded
    <3>5. \A u \in VMs \ {v} : Apart(u)
      BY <3>1, <2>1, <1>b, EditApart DEF MainMoves
    <3> QED
      BY <3>4, <3>5, OneMoves
  <2>3. CASE Refused /\ UNCHANGED vhd
    <3>1. MainLeaves
      BY <2>3, RefusedIs
    <3>2. RecordsOf(v)'
      BY <3>1, <2>1, <2>3, <1>a, <1>b, EditKnows, EditShows DEF MainLeaves, EditSteps, Recorded
    <3>3. \A u \in VMs \ {v} : Apart(u)
      BY <3>1, <2>1, <1>b, EditApart DEF MainLeaves, EditSteps
    <3> QED
      BY <3>2, <3>3, OneMoves
  <2> QED
    BY <2>2, <2>3, <1>1, <1>b DEF UpdateGrows
<1>2. CASE RecordDiskSize
  <2>1. /\ main.pc = "grown" /\ UNCHANGED <<worker, hostVars, files, vhd, guestPort, debris, cut>>
    BY <1>2 DEF RecordDiskSize, MainAt, diskVars, ghostVars
  <2> DEFINE n == [main.m EXCEPT !.disk = main.req.disk]
  <2>2. CASE Save("main", v, n) /\ main' = [main EXCEPT !.pc = "config", !.m.disk = main.req.disk]
    <3>1. n \in Mappings /\ n.disk = main.req.disk /\ n.port = main.m.port
      BY <1>c DEF Mappings
    <3>2. main' = [main EXCEPT !.pc = "config", !.m = n]
      BY <2>2
    <3> HIDE DEF n
    <3>3. main'.pc = "config" /\ main'.vm = v /\ main'.m = n /\ main'.req = main.req
      BY <3>2, <1>b, <1>c DEF Mains
    <3>4. /\ Content' # Torn /\ Content'[v] = n /\ Recorded(v)' /\ \A u \in VMs \ {v} : Held(u)
      BY <3>1, <2>2, <1>c, SaveIs, SaveHolds, MappingRecorded
    <3>5. main.req.disk \in Nat
      BY <1>c, MappingFields
    <3>6. RecordsOf(v)'
      BY <3>1, <3>3, <3>4, <3>5, <2>1, <1>a, <1>b, EditKnows, EditShows DEF EditSteps
    <3>7. \A u \in VMs \ {v} : Apart(u)
      BY <3>3, <3>4, <2>1, <1>b, EditApart
    <3> QED
      BY <3>6, <3>7, OneMoves
  <2>3. CASE Refused /\ UNCHANGED storeVars
    <3>1. MainLeaves /\ Content' = Content /\ \A u \in VMs : Held(u)
      BY <2>3, RefusedIs, SameStore, SameHolds
    <3>2. RecordsOf(v)'
      BY <3>1, <2>1, <1>a, <1>b, EditKnows, EditShows DEF MainLeaves, EditSteps, Recorded
    <3>3. \A u \in VMs \ {v} : Apart(u)
      BY <3>1, <2>1, <1>b, EditApart DEF MainLeaves, EditSteps
    <3> QED
      BY <3>2, <3>3, OneMoves
  <2> QED
    BY <2>2, <2>3, <1>2, <1>b DEF RecordDiskSize
<1>3. CASE UpdateConfigures
  <2>1. /\ main.pc = "config" /\ UNCHANGED <<worker, hostVars, files, vhd, guestPort, debris, cut>>
        /\ Content' = Content /\ \A u \in VMs : Held(u)
    BY <1>3, SameStore, SameHolds DEF UpdateConfigures, MainAt, diskVars, ghostVars
  <2>2. MainMoves("network") \/ MainLeaves
    BY <1>3, <1>c, MainGoesIs, RefusedIs DEF UpdateConfigures
  <2>3. RecordsOf(v)'
    BY <2>1, <2>2, <1>a, <1>b, EditKnows, EditShows DEF MainMoves, MainLeaves, EditSteps, Recorded
  <2>4. \A u \in VMs \ {v} : Apart(u)
    BY <2>1, <2>2, <1>b, EditApart DEF MainMoves, MainLeaves, EditSteps
  <2> QED
    BY <2>3, <2>4, OneMoves
<1>4. CASE MoveSshPort
  <2>1. /\ main.pc = "port" /\ UNCHANGED <<worker, hostVars, files, vhd, debris>>
        /\ Content' = Content /\ (\A u \in VMs : Held(u)) /\ cut \subseteq cut'
    BY <1>4, SameStore, SameHolds DEF MoveSshPort, MainAt
  <2>2. \/ /\ main.req.port = main.m.port /\ MainMoves("accepted")
           /\ UNCHANGED <<guestPort, cut>>
        \/ guestPort' = [guestPort EXCEPT ![v] = main.req.port] /\ MainMoves("moved")
        \/ guestPort' = [guestPort EXCEPT ![v] = main.req.port] /\ MainLeaves /\ v \in cut'
        \/ MainLeaves /\ UNCHANGED guestPort
    BY <1>4, <1>b, <1>c, MainGoesIs, RefusedIs DEF MoveSshPort, GuestWrites
  <2>3. /\ \A u \in VMs \ {v} : guestPort'[u] = guestPort[u]
        /\ \/ MainMoves("accepted") /\ guestPort'[v] = guestPort[v]
           \/ MainMoves("moved") /\ guestPort'[v] = main.req.port
           \/ MainLeaves /\ (v \in cut' \/ guestPort'[v] = guestPort[v])
    BY <2>2, <1>c
  <2>4. RecordsOf(v)'
    BY <2>1, <2>3, <1>a, <1>b, EditKnows, EditShows DEF MainMoves, MainLeaves, EditSteps, Recorded
  <2>5. \A u \in VMs \ {v} : Apart(u)
    BY <2>1, <2>3, <1>b, EditApart DEF MainMoves, MainLeaves, EditSteps
  <2> QED
    BY <2>4, <2>5, OneMoves
<1>5. CASE RecordSshPort
  <2>1. /\ main.pc = "moved" /\ UNCHANGED <<worker, hostVars, files, vhd, guestPort, debris>>
        /\ cut \subseteq cut'
    BY <1>5 DEF RecordSshPort, MainAt, diskVars
  <2> DEFINE n == [main.m EXCEPT !.port = main.req.port]
  <2>2. CASE Save("main", v, n) /\ MainGoes("accepted")
    <3>1. n \in Mappings /\ n.disk = main.m.disk /\ n.port = main.req.port
      BY <1>c DEF Mappings
    <3> HIDE DEF n
    <3>2. MainMoves("accepted")
      BY <2>2, <1>c, MainGoesIs
    <3>3. /\ Content' # Torn /\ Content'[v] = n /\ Recorded(v)' /\ \A u \in VMs \ {v} : Held(u)
      BY <3>1, <2>2, <1>c, SaveIs, SaveHolds, MappingRecorded
    <3>4. RecordsOf(v)'
      BY <3>1, <3>2, <3>3, <2>1, <1>a, <1>b, EditKnows, EditShows DEF MainMoves
    <3>5. \A u \in VMs \ {v} : Apart(u)
      BY <3>2, <3>3, <2>1, <1>b, EditApart DEF MainMoves
    <3> QED
      BY <3>4, <3>5, OneMoves
  <2>3. CASE Refused /\ UNCHANGED storeVars /\ v \in cut'
    <3>1. MainLeaves /\ Content' = Content /\ \A u \in VMs : Held(u)
      BY <2>3, RefusedIs, SameStore, SameHolds
    <3>2. RecordsOf(v)'
      BY <3>1, <2>1, <2>3, <1>a, <1>b, EditKnows, EditShows DEF MainLeaves, EditSteps, Recorded
    <3>3. \A u \in VMs \ {v} : Apart(u)
      BY <3>1, <2>1, <1>b, EditApart DEF MainLeaves, EditSteps
    <3> QED
      BY <3>2, <3>3, OneMoves
  <2> QED
    BY <2>2, <2>3, <1>5, <1>b DEF RecordSshPort
<1>6. CASE UpdateReturns
  <2>1. /\ main.pc = "accepted" /\ UNCHANGED <<worker, hostVars, files, vhd, guestPort, debris, cut>>
        /\ Content' = Content /\ (\A u \in VMs : Held(u)) /\ MainLeaves
    BY <1>6, SameStore, SameHolds, RefreshesIs DEF UpdateReturns, MainAt, diskVars, ghostVars
  <2>2. RecordsOf(v)'
    BY <2>1, <1>a, <1>b, EditKnows, EditShows DEF MainLeaves, EditSteps, Recorded
  <2>3. \A u \in VMs \ {v} : Apart(u)
    BY <2>1, <1>b, EditApart DEF MainLeaves, EditSteps
  <2> QED
    BY <2>2, <2>3, OneMoves
<1> QED
  BY <1>1, <1>2, <1>3, <1>4, <1>5, <1>6

-----------------------------------------------------------------------------
(* The records: the other steps of the UI thread.                          *)

\* A step that leaves what the VMs have as it is.
LEMMA AllApart ==
  ASSUME UNCHANGED <<worker, sys, files, vhd, guestPort, ghostVars>>,
         \A u \in VMs : Held(u),
         main' = main \/ (main.pc # "moved" /\ main'.pc \in {"idle", "rows", "desks", "gone"})
  PROVE  \A u \in VMs : Apart(u)
BY DEF Apart, SameVm, MainApart, ghostVars, EditSteps

LEMMA RecordsOfRefresh ==
  ASSUME TInv, RInv,
         DeleteRemoves \/ DeleteReturns \/ ListVms \/ ListDesktops \/ RecordDesktop
         \/ EndRefresh \/ Tick
  PROVE  RInv'
<1>0. main \in Mains /\ "main" \in Threads /\ {"desks", "desk", "gone"} \subseteq MainSteps
  BY Types DEF Threads, MainSteps
<1>a. UNCHANGED <<worker, sys, files, vhd, guestPort, ghostVars>>
  BY DEF DeleteRemoves, DeleteReturns, ListVms, ListDesktops, RecordDesktop, EndRefresh, Tick,
         hostVars, diskVars
<1>1. CASE DeleteRemoves
  <2>0. main.pc = "remove"
    BY <1>1 DEF DeleteRemoves, MainAt
  <2>1. PICK v \in VMs : v = main.vm
    BY <2>0 DEF TInv, MainTyped
  <2>2. RecordsOf(v) /\ worker[v].pc = "idle" /\ sys[v] = NoSystem /\ files[v] \subseteq {"disk"}
    BY <2>0, <2>1, TheirRecords DEF RecordsOf, Stages, Remains
  <2>3. CASE Save("main", v, None) /\ MainGoes("gone")
    <3>1. /\ MainMoves("gone") /\ Content' # Torn /\ Content'[v] = None
          /\ \A u \in VMs \ {v} : Held(u)
      BY <2>3, <1>0, MainGoesIs, SaveIs, SaveHolds
    <3>2. \A u \in VMs \ {v} : Apart(u)
      BY <3>1, <2>0, <1>a DEF Apart, SameVm, MainApart, MainMoves, ghostVars, EditSteps
    <3>3. ~Recorded(v)' /\ ~Editing(v)' /\ worker'[v].pc = "idle" /\ main'.pc = "gone"
      BY <3>1, <2>2, <1>a DEF Recorded, Editing, MainMoves, EditSteps
    <3>4. Stages(v)' /\ Remains(v)'
      BY <3>3, <2>2, <1>a DEF Stages, Remains, CreateSteps, StartSteps
    <3>5. Ports(v)' /\ Disks(v)'
      BY <3>3 DEF Ports, Disks, WritesBack
    <3> QED
      BY <3>2, <3>4, <3>5, OneMoves DEF RecordsOf
  <2>4. CASE Refused /\ UNCHANGED storeVars
    BY <2>4, <2>0, <1>a, RefusedIs, SameHolds, AllApart, NobodyMoves
  <2> QED
    BY <2>1, <2>3, <2>4, <1>1 DEF DeleteRemoves
<1>2. CASE DeleteReturns \/ Tick \/ ListVms \/ EndRefresh
  <2>1. main.pc # "moved"
    BY <1>2 DEF DeleteReturns, Tick, ListVms, EndRefresh, MainAt, Idle
  <2>2. main'.pc \in {"idle", "rows", "desks"}
    <3>1. CASE DeleteReturns \/ Tick
      BY <3>1, RefreshesIs DEF DeleteReturns, Tick
    <3>2. CASE ListVms
      BY <3>2, <1>0, MainGoesIs DEF ListVms, MainMoves
    <3>3. CASE EndRefresh
      BY <3>3 DEF EndRefresh, Idle
    <3> QED
      BY <3>1, <3>2, <3>3, <1>2
  <2>3. \A u \in VMs : Held(u)
    BY <1>2, SameHolds DEF DeleteReturns, Tick, ListVms, EndRefresh
  <2> QED
    BY <2>1, <2>2, <2>3, <1>a, AllApart, NobodyMoves
<1>3. CASE ListDesktops
  <2>0. main.pc = "desks" /\ Content' = Content /\ \A u \in VMs : Held(u)
    BY <1>3, SameStore, SameHolds DEF ListDesktops, MainAt
  <2>1. CASE main' = Idle
    BY <2>0, <2>1, <1>a, AllApart, NobodyMoves DEF Idle
  <2>2. CASE Readable /\ main' = [main EXCEPT !.pc = "desk", !.snap = doc]
    <3>1. Content = doc /\ doc # Torn /\ main'.pc = "desk" /\ main'.snap = Content
      BY <2>2, <1>0, ReadableIs DEF Mains
    <3>2. SUFFICES ASSUME NEW v \in VMs PROVE RecordsOf(v)'
      BY DEF RInv, RecordsOf
    <3>3. RecordsOf(v) /\ ~Editing(v)' /\ Recorded(v)' = Recorded(v)
      BY <3>1, <2>0, TheirRecords DEF Editing, EditSteps, Recorded
    <3>4. Stages(v)'
      BY <3>1, <3>3, <2>0, <1>a DEF RecordsOf, Stages, Recorded
    <3>5. Remains(v)'
      BY <3>1, <3>3, <2>0, <1>a DEF RecordsOf, Remains, ghostVars
    <3>6. Ports(v)'
      BY <3>1, <3>3, <2>0, <1>a DEF RecordsOf, Ports, Recorded, ghostVars
    <3>7. Disks(v)'
      BY <3>1, <3>3, <2>0, <1>a DEF RecordsOf, Disks, Recorded
    <3> QED
      BY <3>4, <3>5, <3>6, <3>7 DEF RecordsOf
  <2> QED
    BY <2>1, <2>2, <1>3 DEF ListDesktops
<1>4. CASE RecordDesktop
  <2>0. main.pc = "desk" /\ main.snap \in Documents
    BY <1>4 DEF RecordDesktop, MainAt, TInv, MainTyped
  <2>1. PICK v \in Waiting :
          /\ \/ Save("main", v, [main.snap[v] EXCEPT !.desk = "ready"])
             \/ UNCHANGED storeVars
          /\ main' = [main EXCEPT !.snap[v] = None]
    BY <1>4 DEF RecordDesktop
  <2>2. v \in VMs /\ main.snap[v] \in Mappings /\ main.snap[v] # None
    BY <2>0 DEF Waiting, Documents
  <2> DEFINE n == [main.snap[v] EXCEPT !.desk = "ready"]
  <2>3. n \in Mappings /\ n.port = main.snap[v].port /\ n.disk = main.snap[v].disk
    BY <2>2 DEF Mappings
  <2>4. /\ main'.pc = "desk" /\ main'.snap[v] = None
        /\ \A u \in VMs \ {v} : main'.snap[u] = main.snap[u]
    BY <2>0, <2>1, <2>2, <1>0 DEF Mains, Documents
  <2>5. CASE UNCHANGED storeVars
    <3>1. \A u \in VMs : Held(u)
      BY <2>5, SameHolds
    <3>2. \A u \in VMs : Apart(u)
      BY <3>1, <2>0, <2>4, <1>a DEF Apart, SameVm, MainApart, ghostVars, EditSteps
    <3> QED
      BY <3>2, NobodyMoves
  <2>6. CASE Save("main", v, n)
    <3> HIDE DEF n
    <3>1. /\ Content # Torn /\ Content' # Torn /\ Content'[v] = n /\ Recorded(v)'
          /\ \A u \in VMs \ {v} : Held(u)
      BY <2>2, <2>3, <2>6, <1>0, SaveIs, SaveHolds, MappingRecorded
    <3>2. \A u \in VMs \ {v} : Apart(u)
      BY <3>1, <2>0, <2>4, <1>a DEF Apart, SameVm, MainApart, ghostVars, EditSteps
    <3>3. RecordsOf(v)
      BY <2>2, TheirRecords
    <3>4. Stages(v)'
      BY <3>1, <3>3, <2>0, <2>2, <2>4, <1>a DEF RecordsOf, Stages, Editing, EditSteps
    <3>5. Remains(v)'
      BY <3>1, <3>3, <2>2, <2>4, <1>a DEF RecordsOf, Remains, Recorded, ghostVars
    <3>6. Ports(v)'
      BY <3>1, <3>3, <2>0, <2>2, <2>3, <2>4, <1>a DEF RecordsOf, Ports, Editing, EditSteps, ghostVars
    <3>7. Disks(v)'
      BY <3>1, <3>3, <2>0, <2>2, <2>3, <2>4, <1>a DEF RecordsOf, Disks, Editing, EditSteps
    <3> QED
      BY <3>2, <3>4, <3>5, <3>6, <3>7, <2>2, OneMoves DEF RecordsOf
  <2> QED
    BY <2>1, <2>5, <2>6
<1> QED
  BY <1>1, <1>2, <1>3, <1>4

LEMMA RecordsOfUser ==
  ASSUME TInv, RInv, NEW v \in VMs, User(v)
  PROVE  RInv'
<1>0. RecordsOf(v)
  BY TheirRecords
<1>a. main.pc = "idle"
  <2>1. main = Idle
    BY DEF User, CreateVm, CancelBuild, StartVm, UpdateVm, DeleteVm, Asked
  <2> QED
    BY <2>1 DEF Idle
<1>1. CASE CreateVm(v)
  <2>1. /\ Begins(v, "check") /\ MainLeaves /\ worker[v].pc = "idle" /\ files[v] = {}
        /\ Content' = Content /\ (\A u \in VMs : Held(u)) /\ Content # Torn /\ Content[v] = None
        /\ UNCHANGED <<sys, files, vhd, guestPort, debris, cut>>
    BY <1>1, CreateVmIs, SameStore, SameHolds, ReadableIs
    DEF CreateVm, Unoccupied, hostVars, diskVars, ghostVars
  <2>2. worker'[v].build
    <3>1. worker' = [worker EXCEPT ![v] = [NoWorker EXCEPT !.pc = "check", !.build = TRUE]]
      BY <1>1 DEF CreateVm
    <3> QED
      BY <3>1, NoWorkerIs, Types DEF Workers
  <2>3. \A u \in VMs \ {v} : Apart(u)
    BY <2>1, <1>a DEF Apart, SameVm, MainApart, Begins, MainLeaves, EditSteps
  <2>4. ~Recorded(v)' /\ ~Editing(v)' /\ worker'[v].pc = "check" /\ main'.pc \in {"idle", "rows"}
    BY <2>1 DEF Recorded, Editing, MainLeaves, Begins, EditSteps
  <2>5. Stages(v)'
    BY <2>4 DEF Stages, StartSteps
  <2>6. Remains(v)'
    BY <2>1, <2>2, <2>4, <1>0 DEF RecordsOf, Remains
  <2>7. Ports(v)' /\ Disks(v)'
    BY <2>4 DEF Ports, Disks, WritesBack
  <2> QED
    BY <2>3, <2>5, <2>6, <2>7, OneMoves DEF RecordsOf
<1>2. CASE StartVm(v)
  <2>1. /\ Begins(v, "read") /\ MainLeaves /\ worker[v].pc = "idle"
        /\ Content' = Content /\ (\A u \in VMs : Held(u)) /\ Recorded(v)
        /\ UNCHANGED <<sys, files, vhd, guestPort, debris, cut>>
    BY <1>2, StartVmIs, SameStore, SameHolds, ReadableIs
    DEF StartVm, Unoccupied, Recorded, hostVars, diskVars, ghostVars
  <2>3. \A u \in VMs \ {v} : Apart(u)
    BY <2>1, <1>a DEF Apart, SameVm, MainApart, Begins, MainLeaves, EditSteps
  <2>4. Recorded(v)' /\ ~Editing(v)' /\ worker'[v].pc = "read" /\ main'.pc \in {"idle", "rows"}
    BY <2>1 DEF Recorded, Editing, MainLeaves, Begins, EditSteps
  <2>5. Stages(v)' /\ Remains(v)'
    BY <2>4 DEF Stages, Remains, CreateSteps
  <2>6. Ports(v)'
    BY <2>1, <2>4, <1>a, <1>0 DEF RecordsOf, Ports, WritesBack
  <2>7. Disks(v)'
    BY <2>1, <2>4, <1>0 DEF RecordsOf, Disks, WritesBack
  <2> QED
    BY <2>3, <2>5, <2>6, <2>7, OneMoves DEF RecordsOf
<1>3. CASE CancelBuild(v)
  BY <1>3, SameHolds, AllApart, NobodyMoves DEF CancelBuild, hostVars, diskVars
<1>4. CASE UpdateVm(v)
  <2>1. /\ worker[v].pc = "idle" /\ Content = doc /\ Content # Torn /\ doc[v] \in Mappings
        /\ Content' = Content /\ \A u \in VMs : Held(u)
        /\ UNCHANGED <<worker, hostVars, files, vhd, guestPort, debris, cut>>
    BY <1>4, UpdateVmIs, SameStore, SameHolds DEF diskVars, ghostVars
  <2>2. PICK fields \in Edits :
          /\ "disk" \in fields => doc[v].disk < MaxDisk
          /\ "port" \in fields => doc[v].port # 0
          /\ EditBegins(v, fields)
    BY <1>4, UpdateVmIs
  <2>3. /\ doc[v].disk <= main'.req.disk
        /\ main'.pc # "grow" => main'.req.disk = doc[v].disk
        /\ main'.pc \in {"grow", "config"} /\ main'.m = doc[v] /\ main'.vm = v
    BY <2>1, <2>2, EditedTyped DEF EditBegins
  <2>4. Recorded(v) /\ Recorded(v)'
    BY <2>1, ConstantsAssumption DEF Recorded
  <2>5. Content[v].disk <= vhd[v] /\ (v \notin cut => Content[v].port = guestPort[v])
    BY <2>4, <1>a, <1>0 DEF RecordsOf, Ports, Disks
  <2>6. RecordsOf(v)'
    BY <2>1, <2>3, <2>4, <2>5, EditShows
  <2>7. \A u \in VMs \ {v} : Apart(u)
    BY <2>1, <2>3, <1>a DEF Apart, SameVm, MainApart, hostVars
  <2> QED
    BY <2>6, <2>7, OneMoves
<1>5. CASE \E disks \in BOOLEAN : DeleteVm(v, disks)
  <2>0. PICK disks \in BOOLEAN : DeleteVm(v, disks)
    BY <1>5
  <2>1. /\ worker[v].pc = "idle" /\ Content' = Content /\ (\A u \in VMs : Held(u))
        /\ Recorded(v) /\ Recorded(v)'
        /\ UNCHANGED <<worker, debris, cut>>
    BY <2>0, SameStore, SameHolds, ReadableIs DEF DeleteVm, Unoccupied, Recorded, ghostVars
  <2>2. PICK failing \in SUBSET Parts :
          /\ Teardown(v, doc[v], failing, disks)
          /\ IF failing = {} THEN main' = [Idle EXCEPT !.pc = "remove", !.vm = v] ELSE Refused
    BY <2>0 DEF DeleteVm
  <2>3. /\ \A u \in VMs \ {v} : sys'[u] = sys[u] /\ files'[u] = files[u]
        /\ vhd' = vhd /\ guestPort' = guestPort
        /\ failing = {} => sys'[v] = NoSystem /\ files'[v] \subseteq {"disk"}
    BY <2>2, TeardownIs
  <2>4. \/ main'.pc = "idle"
        \/ main'.pc = "remove" /\ main'.vm = v /\ failing = {}
    <3>1. CASE failing = {}
      <4>1. main' = [pc |-> "remove", vm |-> v, m |-> None, req |-> None, snap |-> None]
        BY <3>1, <2>2 DEF Idle
      <4> QED
        BY <4>1, <3>1
    <3>2. CASE failing # {}
      BY <3>2, <2>2, RefusedIs
    <3> QED
      BY <3>1, <3>2
  <2>5. \A u \in VMs \ {v} : Apart(u)
    BY <2>1, <2>3, <2>4, <1>a DEF Apart, SameVm, MainApart, EditSteps
  <2>6. Stages(v)'
    BY <2>1, <2>4 DEF Stages, CreateSteps, StartSteps, Editing, EditSteps
  <2>7. Remains(v)'
    BY <2>1, <2>3, <2>4 DEF Remains, Recorded
  <2>8. Ports(v)'
    BY <2>1, <2>3, <2>4, <1>a, <1>0 DEF RecordsOf, Ports, WritesBack, Editing, EditSteps
  <2>9. Disks(v)'
    BY <2>1, <2>3, <2>4, <1>0 DEF RecordsOf, Disks, WritesBack, Editing, EditSteps
  <2> QED
    BY <2>5, <2>6, <2>7, <2>8, <2>9, OneMoves DEF RecordsOf
<1> QED
  BY <1>1, <1>2, <1>3, <1>4, <1>5 DEF User

-----------------------------------------------------------------------------
(* The records: the end of a write, a kill and the guest.                  *)

LEMMA WriteOutIs ==
  ASSUME TInv, WriteOut
  PROVE  Content' = Content
BY DEF WriteOut, Content, NoPen

\* A failed write, and a kill in the middle of one, leave no document.
LEMMA LostIs ==
  ASSUME TInv, pen # NoPen, pen' = NoPen, doc' = doc
  PROVE  Content' = Torn
BY DEF TInv, PenTyped, Content

LEMMA RecordsOfStore ==
  ASSUME TInv, RInv, WriteOut \/ WriteFails
  PROVE  RInv'
<1>1. CASE WriteOut
  <2>1. \A u \in VMs : Held(u)
    <3>1. Content' = Content
      BY <1>1, WriteOutIs
    <3> QED
      BY <3>1 DEF Held
  <2> QED
    BY <2>1, <1>1, AllApart, NobodyMoves DEF WriteOut, hostVars, diskVars
<1>2. CASE WriteFails
  <2>1. /\ Content' = Torn /\ UNCHANGED <<sys, files, vhd, guestPort, debris>>
        /\ \A u \in VMs : Held(u) /\ ~Recorded(u)'
    BY <1>2, LostIs DEF WriteFails, Held, Recorded, hostVars, diskVars
  <2>2. CASE pen.by = "main"
    <3>1. worker' = worker /\ (main' = main \/ main' = Idle) /\ cut \subseteq cut'
      BY <1>2, <2>2 DEF WriteFails, AfterFailedSave
    <3>2. main' = main \/ main'.pc = "idle"
      BY <3>1 DEF Idle
    <3>3. \A u \in VMs : Apart(u)
      BY <2>1, <3>1, <3>2 DEF Apart, SameVm, MainApart, EditSteps
    <3> QED
      BY <3>3, NobodyMoves
  <2>3. CASE pen.by # "main"
    <3>0. PICK v \in VMs : v = pen.by
      BY <2>3, <1>2 DEF WriteFails, TInv, PenTyped, Threads
    <3>1. /\ main' = main /\ cut' = cut /\ worker \in [VMs -> Workers] /\ "rollback" \in WorkerSteps
          /\ RecordsOf(v) /\ Remains(v)
      BY <1>2, <2>3, Types, TheirRecords DEF WriteFails, AfterFailedSave, WorkerSteps, RecordsOf
    <3>2. \/ worker[v].pc = "built"  /\ Moves(v, "rollback")
          \/ worker[v].pc = "dhcp"   /\ (Moves(v, "undo") \/ Stops(v))
          \/ worker[v].pc = "forget" /\ Stops(v)
      BY <1>2, <2>3, <3>0, <3>1, GoesIs, EndsIs, StartFailsIs DEF WriteFails, AfterFailedSave
    <3>3. \A u \in VMs \ {v} : Apart(u)
      BY <2>1, <3>1, <3>2, OthersApart DEF Moves, Stops
    <3>4. Remains(v)'
      BY <2>1, <3>1, <3>2, Busy DEF Remains, Moves, Stops
    <3>5. worker[v].pc # "idle"
      BY <3>2
    <3>6. main.pc = "desk" /\ main.snap[v] # None =>
           (v \notin cut => main.snap[v].port = guestPort'[v]) /\ main.snap[v].disk <= vhd'[v]
      BY <2>1, <3>1, <3>5, WorkerKnows
    <3>7. worker'[v].pc \in {"rollback", "undo", "idle"}
      BY <3>2 DEF Moves, Stops
    <3>8. RecordsOf(v)'
      BY <2>1, <3>1, <3>4, <3>5, <3>6, <3>7, WorkerShows DEF CreateSteps, StartSteps, WritesBack
    <3> QED
      BY <3>3, <3>8, OneMoves
  <2> QED
    BY <2>2, <2>3
<1> QED
  BY <1>1, <1>2

LEMMA RecordsOfHost ==
  ASSUME TInv, RInv,
         Initialize \/ Kill \/ \E v \in VMs : GuestExits(v) \/ GuestReports(v)
  PROVE  RInv'
<1>1. CASE Initialize \/ \E v \in VMs : GuestReports(v)
  BY <1>1, SameHolds, AllApart, NobodyMoves DEF Initialize, GuestReports, hostVars, diskVars
<1>2. ASSUME NEW v \in VMs, GuestExits(v) PROVE RInv'
  <2>1. /\ Content' = Content /\ main' = main /\ cut' = cut /\ debris' = debris
        /\ UNCHANGED <<worker, files, vhd, guestPort>>
        /\ \A u \in VMs \ {v} : sys'[u] = sys[u]
        /\ sys'[v] = NoSystem
    BY <1>2, SameStore, Types DEF GuestExits, DisksTyped, diskVars, ghostVars
  <2>2. \A u \in VMs \ {v} : Apart(u)
    BY <2>1, <1>2, SameHolds, OthersApart DEF GuestExits
  <2>3. RecordsOf(v) /\ Recorded(v)' = Recorded(v) /\ Editing(v)' = Editing(v)
    BY <2>1, TheirRecords DEF Recorded, Editing
  <2>4. Stages(v)' /\ Ports(v)' /\ Disks(v)'
    BY <2>1, <2>3 DEF RecordsOf, Stages, Ports, Disks
  <2>5. Remains(v)'
    BY <2>1, <2>3 DEF RecordsOf, Remains
  <2> QED
    BY <2>2, <2>4, <2>5, OneMoves DEF RecordsOf
<1>3. CASE Kill
  <2>0. SUFFICES ASSUME NEW v \in VMs PROVE RecordsOf(v)'
    BY DEF RInv, RecordsOf
  <2>1. /\ UNCHANGED <<sys, files, vhd, guestPort>>
        /\ main'.pc = "idle" /\ worker'[v].pc = "idle"
        /\ cut \subseteq cut' /\ debris \subseteq debris'
        /\ worker[v].build => v \in debris'
        /\ main.pc = "moved" /\ main.vm = v => v \in cut'
    <3>1. main'.pc = "idle"
      BY <1>3 DEF Kill, Idle
    <3>2. worker'[v].pc = "idle"
      BY <1>3, NoWorkerIs DEF Kill
    <3> QED
      BY <3>1, <3>2, <1>3 DEF Kill, hostVars, diskVars
  <2>2. Content' = Torn \/ Content' = Content
    <3>1. CASE pen # NoPen
      BY <3>1, <1>3, LostIs DEF Kill
    <3>2. CASE pen = NoPen
      BY <3>2, <1>3 DEF Kill, Content
    <3> QED
      BY <3>1, <3>2
  <2>3. RecordsOf(v) /\ ~Editing(v)'
    BY <2>1, TheirRecords DEF Editing, EditSteps
  <2>4. Stages(v)'
    BY <2>1, <2>3 DEF Stages, CreateSteps, StartSteps
  <2>5. Remains(v)'
    <3>1. SUFFICES ASSUME v \notin debris', Content' # Torn, Content'[v] = None
                   PROVE  sys[v] = NoSystem /\ files[v] \subseteq {"disk"}
      BY <2>1 DEF Remains
    <3>2. ~Recorded(v) /\ Content = Content' /\ v \notin debris /\ ~worker[v].build
      BY <3>1, <2>1, <2>2 DEF Recorded
    <3>3. worker[v].pc \notin StartSteps
      BY <3>1, <3>2, <2>3 DEF RecordsOf, Stages
    <3>4. worker[v].pc \in {"idle", "remove", "forget"}
      <4>1. worker[v].pc \in WorkerSteps
        BY Types DEF Workers
      <4>2. worker[v].pc \notin {"check", "files", "create", "register", "rollback", "built"}
        BY <3>2, <2>3 DEF RecordsOf, Remains
      <4> QED
        BY <4>1, <4>2, <3>3 DEF WorkerSteps, StartSteps
    <3> QED
      BY <3>1, <3>2, <3>4, <2>3 DEF RecordsOf, Remains
  <2>6. Ports(v)'
    BY <2>1, <2>2, <2>3 DEF RecordsOf, Ports, WritesBack, Recorded
  <2>7. Disks(v)'
    BY <2>1, <2>2, <2>3 DEF RecordsOf, Disks, WritesBack, Recorded
  <2> QED
    BY <2>4, <2>5, <2>6, <2>7 DEF RecordsOf
<1> QED
  BY <1>1, <1>2, <1>3

LEMMA InitRecords ==
  ASSUME Init
  PROVE  RInv
<1>0. SUFFICES ASSUME NEW v \in VMs PROVE RecordsOf(v)
  BY DEF RInv, RecordsOf
<1>1. Content = doc /\ doc[v] = IF v \in Known THEN Fresh(v) ELSE None
  BY DEF Init, Content
<1>2. Fresh(v) \in Mappings /\ Fresh(v).disk = 1
  BY FreshTyped DEF Fresh
<1>3. /\ worker[v].pc = "idle" /\ main.pc = "idle" /\ ~Editing(v)
      /\ sys[v] = NoSystem
      /\ v \notin Known => files[v] = {}
      /\ vhd[v] = IF v \in Known THEN 1 ELSE 0
      /\ guestPort[v] = IF v \in Known THEN Fresh(v).port ELSE 0
  BY NoWorkerIs DEF Init, Idle, Editing, EditSteps
<1>4. Stages(v) /\ Remains(v)
  BY <1>1, <1>2, <1>3, ConstantsAssumption DEF Stages, Remains, CreateSteps, StartSteps
<1>5. Ports(v) /\ Disks(v)
  BY <1>1, <1>2, <1>3, ConstantsAssumption DEF Ports, Disks, WritesBack, Recorded
<1> QED
  BY <1>4, <1>5 DEF RecordsOf

LEMMA NextRecords ==
  ASSUME TInv, RInv, [Next]_vars
  PROVE  RInv'
<1>1. CASE Next
  <2>1. ASSUME NEW v \in VMs, Worker(v) PROVE RInv'
    BY <2>1, RecordsOfCreation, RecordsOfStart, RecordsOfBoot, RecordsOfEnd DEF Worker
  <2>2. CASE Main \/ Tick
    BY <2>2, RecordsOfEdit, RecordsOfRefresh DEF Main
  <2> QED
    BY <1>1, <2>1, <2>2, RecordsOfStore, RecordsOfUser, RecordsOfHost DEF Next
<1>2. CASE UNCHANGED vars
  BY <1>2, SameHolds, AllApart, NobodyMoves DEF vars, hostVars, diskVars
<1> QED
  BY <1>1, <1>2

LEMMA RecordsHold == Spec => [](TInv /\ RInv)
<1>1. Init => TInv /\ RInv
  BY InitTypes, InitRecords
<1>2. (TInv /\ RInv) /\ [Next]_vars => (TInv /\ RInv)'
  BY NextTypes, NextRecords
<1> QED
  BY <1>1, <1>2, PTL DEF Spec

\* A VM that VMLord has forgotten has no compute system and no files but a disk
\* that was to be kept, however many calls fail and whenever VMLord is killed: a
\* deletion and a rolled back build remove what there is before the mapping.
THEOREM ForgottenIsGone == Spec => []ForgottenLeavesNothing
<1>1. TInv /\ RInv => ForgottenLeavesNothing
  BY DEF RInv, Remains, ForgottenLeavesNothing, Unoccupied
<1> QED
  BY <1>1, RecordsHold, PTL

\* Whatever an edit changes, the recorded port is the one the guest's SSH names
\* and the recorded disk is no larger than the disk: three threads write whole
\* mappings back, and none writes back a port or a size that has changed since.
THEOREM PortsAndDisksHold == Spec => [](PortsAgree /\ DiskHoldsItsRecord)
<1>1. TInv /\ RInv => PortsAgree /\ DiskHoldsItsRecord
  BY DEF RInv, Ports, Disks, Recorded, PortsAgree, DiskHoldsItsRecord
<1> QED
  BY <1>1, RecordsHold, PTL

-----------------------------------------------------------------------------
(* An edit takes effect.                                                   *)

\* A worker writes no mapping but its own VM's.
LEMMA WorkerHolds ==
  ASSUME TInv, NEW v \in VMs, Worker(v)
  PROVE  main' = main /\ worker[v].pc # "idle" /\ \A u \in VMs \ {v} : Held(u)
<1>1. main' = main /\ worker[v].pc # "idle"
  BY DEF Worker, CreateChecks, CreateFiles, CreateSystem, CreateRegisters, CreateRollsBack,
         BuildContinues, StartReads, StartOffNetwork, StartReuses, StartCreatesEndpoint,
         StartRecords, StartRegistersAddress, StartPreparesSystem, StartBoots, AwaitNothing,
         AwaitAddress, AwaitPort, AwaitGuest, AwaitCloudInit, BuildStops, BuildUndoes,
         BuildRemoves, BuildForgets, At
<1>2. CASE UNCHANGED storeVars
  BY <1>1, <1>2, SameHolds
<1>3. CASE CreateRegisters(v) /\ Save(v, v, worker[v].m)
  <2>1. worker[v].m \in Mappings
    BY <1>3, CopyTyped DEF CreateRegisters, At, CopySteps
  <2> QED
    BY <1>1, <1>3, <2>1, SaveHolds DEF Threads
<1>4. CASE StartRecords(v) /\ Save(v, v, [worker[v].m EXCEPT !.ep = worker[v].ep])
  <2>1. worker[v].m \in Mappings /\ worker[v] \in Workers
    BY <1>4, CopyTyped, Types DEF StartRecords, At, CopySteps
  <2>2. [worker[v].m EXCEPT !.ep = worker[v].ep] \in Mappings
    BY <2>1 DEF Mappings, Workers
  <2> QED
    BY <1>1, <1>4, <2>2, SaveHolds DEF Threads
<1>5. CASE BuildRemoves(v) /\ Save(v, v, None)
  BY <1>1, <1>5, SaveHolds DEF Threads
<1> QED
  BY <1>2, <1>3, <1>4, <1>5
  DEF Worker, CreateChecks, CreateFiles, CreateSystem, CreateRegisters, CreateRollsBack,
      BuildContinues, StartReads, StartOffNetwork, StartReuses, StartCreatesEndpoint,
      StartRecords, StartRegistersAddress, StartPreparesSystem, StartBoots, AwaitNothing,
      AwaitAddress, AwaitPort, AwaitGuest, AwaitCloudInit, BuildStops, BuildUndoes,
      BuildRemoves, BuildForgets

LEMMA EditUndisturbed ==
  ASSUME EInv, main' = main, main.pc \in EditSteps => Held(main.vm)
  PROVE  EInv'
BY DEF EInv, Alters, Recorded, Held

LEMMA EditOver ==
  ASSUME main'.pc \notin EditSteps
  PROVE  EInv'
BY DEF EInv

\* The edit goes on with the same copy and the same document.
LEMMA EditGoesOn ==
  ASSUME EInv, main.pc \in EditSteps, NEW step \in EditSteps, MainMoves(step),
         Content' = Content,
         step \in {"grow", "grown"} <=> main.pc \in {"grow", "grown"},
         (step \in {"grow", "grown", "config", "network"}
            <=> main.pc \in {"grow", "grown", "config", "network"}) \/ ~Alters("net"),
         (step \in {"grow", "grown", "config", "network", "gpu"}
            <=> main.pc \in {"grow", "grown", "config", "network", "gpu"}) \/ ~Alters("gpu"),
         (step = "accepted" <=> main.pc = "accepted") \/ ~Alters("port"),
         step = "moved" => Alters("port")
  PROVE  EInv'
BY DEF EInv, MainMoves, Alters, Recorded

LEMMA EffectOfEdit ==
  ASSUME TInv, RInv, EInv,
         UpdateGrows \/ RecordDiskSize \/ UpdateConfigures \/ RecordNetworkMode
         \/ RecordGpuMode \/ MoveSshPort \/ RecordSshPort \/ UpdateReturns
  PROVE  EInv'
<1>1. CASE Refused \/ Refreshes
  BY <1>1, RefusedIs, RefreshesIs, EditOver DEF EditSteps
<1>a. main.pc \in EditSteps
  BY DEF UpdateGrows, RecordDiskSize, UpdateConfigures, MoveSshPort, RecordSshPort,
         RecordNetworkMode, RecordGpuMode, RecordField, UpdateReturns, MainAt, EditSteps
<1>b. PICK v \in VMs : v = main.vm
  BY <1>a, EditTyped
<1>c. /\ main \in Mains /\ "main" \in Threads
      /\ main.m \in Mappings /\ main.req \in Mappings
      /\ EditSteps \subseteq MainSteps
  BY <1>a, EditTyped, Types DEF Threads, MainSteps, EditSteps
<1>2. CASE UpdateGrows /\ MainGoes("grown")
  <2>1. main.pc = "grow" /\ Content' = Content
    BY <1>2, SameStore DEF UpdateGrows, MainAt
  <2> QED
    BY <2>1, <1>2, <1>a, <1>c, MainGoesIs, EditGoesOn DEF EditSteps
<1>3. CASE RecordDiskSize /\ ~Refused
  <2> DEFINE n == [main.m EXCEPT !.disk = main.req.disk]
  <2>1. /\ main.pc = "grown" /\ Save("main", v, n)
        /\ main' = [main EXCEPT !.pc = "config", !.m.disk = main.req.disk]
    BY <1>3, <1>b DEF RecordDiskSize, MainAt
  <2>2. /\ n \in Mappings /\ n.disk = main.req.disk
        /\ n.port = main.m.port /\ n.net = main.m.net /\ n.gpu = main.m.gpu
    BY <1>c DEF Mappings
  <2>3. main' = [main EXCEPT !.pc = "config", !.m = n]
    BY <2>1
  <2> HIDE DEF n
  <2>4. main'.pc = "config" /\ main'.vm = v /\ main'.m = n /\ main'.req = main.req
    BY <2>3, <1>b, <1>c DEF Mains
  <2>5. Content'[v] = n
    BY <2>1, <2>2, <1>c, SaveIs
  <2> QED
    BY <2>2, <2>4, <2>5, <1>a DEF EInv, Alters, Recorded
<1>4. CASE UpdateConfigures /\ MainGoes("network")
  <2>1. main.pc = "config" /\ Content' = Content
    BY <1>4, SameStore DEF UpdateConfigures, MainAt
  <2> QED
    BY <2>1, <1>4, <1>a, <1>c, MainGoesIs, EditGoesOn DEF EditSteps
<1>5. CASE RecordNetworkMode /\ MainGoes("gpu")
  <2>0. main.pc = "network"
    BY <1>5 DEF RecordNetworkMode, RecordField, MainAt
  <2>1. CASE ~Alters("net") /\ UNCHANGED storeVars
    BY <2>0, <2>1, <1>5, <1>a, <1>c, MainGoesIs, EditGoesOn, SameStore DEF EditSteps
  <2>2. CASE Alters("net") /\ Save("main", v, [main.m EXCEPT !["net"] = main.req["net"]])
    <3> DEFINE n == [main.m EXCEPT !.net = main.req.net]
    <3>1. /\ n \in Mappings /\ n.disk = main.m.disk
          /\ n.port = main.m.port /\ n.net = main.req.net /\ n.gpu = main.m.gpu
      BY <1>c DEF Mappings
    <3>2. Save("main", v, n)
      BY <2>2
    <3> HIDE DEF n
    <3>3. MainMoves("gpu") /\ Content'[v] = n
      BY <3>1, <3>2, <1>5, <1>c, MainGoesIs, SaveIs DEF EditSteps
    <3>4. main.m.disk = main.req.disk
      BY <2>0, <1>a, <1>b, EditKnows
    <3> QED
      BY <3>1, <3>3, <3>4, <2>0, <1>a, <1>b DEF EInv, MainMoves, Alters, Recorded
  <2> QED
    BY <2>1, <2>2, <1>5, <1>b, <1>1 DEF RecordNetworkMode, RecordField, Alters
<1>6. CASE RecordGpuMode /\ MainGoes("port")
  <2>0. main.pc = "gpu"
    BY <1>6 DEF RecordGpuMode, RecordField, MainAt
  <2>1. CASE ~Alters("gpu") /\ UNCHANGED storeVars
    BY <2>0, <2>1, <1>6, <1>a, <1>c, MainGoesIs, EditGoesOn, SameStore DEF EditSteps
  <2>2. CASE Alters("gpu") /\ Save("main", v, [main.m EXCEPT !["gpu"] = main.req["gpu"]])
    <3> DEFINE n == [main.m EXCEPT !.gpu = main.req.gpu]
    <3>1. /\ n \in Mappings /\ n.disk = main.m.disk
          /\ n.port = main.m.port /\ n.net = main.m.net /\ n.gpu = main.req.gpu
      BY <1>c DEF Mappings
    <3>2. Save("main", v, n)
      BY <2>2
    <3> HIDE DEF n
    <3>3. MainMoves("port") /\ Content'[v] = n
      BY <3>1, <3>2, <1>6, <1>c, MainGoesIs, SaveIs DEF EditSteps
    <3>4. main.m.disk = main.req.disk
      BY <2>0, <1>a, <1>b, EditKnows
    <3> QED
      BY <3>1, <3>3, <3>4, <2>0, <2>2, <1>a, <1>b DEF EInv, MainMoves, Alters, Recorded
  <2> QED
    BY <2>1, <2>2, <1>6, <1>b, <1>1 DEF RecordGpuMode, RecordField, Alters
<1>7. CASE MoveSshPort /\ ~Refused
  <2>0. main.pc = "port" /\ Content' = Content
    BY <1>7, SameStore DEF MoveSshPort, MainAt
  <2>1. CASE ~Alters("port") /\ MainGoes("accepted")
    BY <2>0, <2>1, <1>a, <1>c, MainGoesIs, EditGoesOn DEF EditSteps
  <2>2. CASE Alters("port") /\ MainGoes("moved")
    BY <2>0, <2>2, <1>a, <1>c, MainGoesIs, EditGoesOn DEF EditSteps
  <2> QED
    BY <2>1, <2>2, <1>7 DEF MoveSshPort, Alters
<1>8. CASE RecordSshPort /\ ~Refused
  <2> DEFINE n == [main.m EXCEPT !.port = main.req.port]
  <2>1. main.pc = "moved" /\ Save("main", v, n) /\ MainGoes("accepted")
    BY <1>8, <1>b DEF RecordSshPort, MainAt
  <2>2. /\ n \in Mappings /\ n.disk = main.m.disk
        /\ n.port = main.req.port /\ n.net = main.m.net /\ n.gpu = main.m.gpu
    BY <1>c DEF Mappings
  <2> HIDE DEF n
  <2>3. MainMoves("accepted") /\ Content'[v] = n
    BY <2>1, <2>2, <1>c, MainGoesIs, SaveIs DEF EditSteps
  <2>4. main.m.disk = main.req.disk
    BY <2>1, <1>a, <1>b, EditKnows
  <2>5. Alters("port")
    BY <2>1, <1>a DEF EInv
  <2> QED
    BY <2>2, <2>3, <2>4, <2>5, <1>a, <1>b DEF EInv, MainMoves, Alters, Recorded
<1>9. UpdateReturns => Refreshes
  BY DEF UpdateReturns
<1> QED
  BY <1>1, <1>2, <1>3, <1>4, <1>5, <1>6, <1>7, <1>8, <1>9
  DEF UpdateGrows, UpdateConfigures, RecordNetworkMode, RecordGpuMode, RecordField

LEMMA EffectOfUpdate ==
  ASSUME OneRecordPerEdit, TInv, NEW v \in VMs, UpdateVm(v)
  PROVE  EInv'
<1>1. /\ Content = doc /\ Content # Torn /\ doc[v] \in Mappings /\ Content' = Content
  BY UpdateVmIs, SameStore
<1>2. PICK fields \in Edits :
         /\ "disk" \in fields => doc[v].disk < MaxDisk
         /\ "port" \in fields => doc[v].port # 0
         /\ EditBegins(v, fields)
  BY UpdateVmIs
<1>3. /\ "disk" \notin fields => main'.req.disk = main'.m.disk
      /\ "net" \notin fields => main'.req["net"] = main'.m["net"]
      /\ "gpu" \notin fields => main'.req["gpu"] = main'.m["gpu"]
      /\ "port" \notin fields => main'.req["port"] = main'.m["port"]
  BY <1>1, <1>2, EditedTyped DEF EditBegins
<1>4. \A f, g \in fields : f # "disk" /\ g # "disk" => f = g
  BY <1>2 DEF OneRecordPerEdit
<1>5. /\ ~("net" \in fields /\ "gpu" \in fields) /\ ~("net" \in fields /\ "port" \in fields)
      /\ ~("gpu" \in fields /\ "port" \in fields)
  BY <1>4
<1>6. /\ main'.vm = v /\ main'.m = Content'[v]
      /\ main'.pc = IF "disk" \in fields THEN "grow" ELSE "config"
  BY <1>1, <1>2 DEF EditBegins
<1> QED
  BY <1>3, <1>5, <1>6 DEF EInv, Alters, EditSteps

LEMMA NextEffect ==
  ASSUME OneRecordPerEdit, TInv, RInv, EInv, [Next]_vars
  PROVE  EInv'
<1>0. main.pc \in EditSteps => main.vm \in VMs /\ worker[main.vm].pc = "idle"
  BY EditKnows
<1>1. ASSUME NEW v \in VMs, Worker(v) PROVE EInv'
  <2>1. main' = main /\ worker[v].pc # "idle" /\ \A u \in VMs \ {v} : Held(u)
    BY <1>1, WorkerHolds
  <2>2. main.pc \in EditSteps => Held(main.vm)
    BY <2>1, <1>0
  <2> QED
    BY <2>1, <2>2, EditUndisturbed
<1>2. CASE UpdateGrows \/ RecordDiskSize \/ UpdateConfigures \/ RecordNetworkMode
           \/ RecordGpuMode \/ MoveSshPort \/ RecordSshPort \/ UpdateReturns
  BY <1>2, EffectOfEdit
<1>3. CASE DeleteRemoves \/ DeleteReturns \/ ListVms \/ ListDesktops \/ RecordDesktop
           \/ EndRefresh \/ Tick
  <2>1. main'.pc \notin EditSteps
    <3>1. CASE Refused \/ Refreshes
      BY <3>1, RefusedIs, RefreshesIs DEF EditSteps
    <3>2. CASE MainGoes("gone") \/ MainGoes("desks")
      BY <3>2, Types DEF MainGoes, Mains, EditSteps
    <3>3. CASE main' = [main EXCEPT !.pc = "desk", !.snap = doc]
      BY <3>3, Types DEF Mains, EditSteps
    <3>4. CASE RecordDesktop
      <4>1. main.pc = "desk" /\ main'.pc = main.pc
        BY <3>4, Types DEF RecordDesktop, MainAt, Mains
      <4> QED
        BY <4>1 DEF EditSteps
    <3> QED
      BY <3>1, <3>2, <3>3, <3>4, <1>3
      DEF DeleteRemoves, DeleteReturns, ListVms, ListDesktops, EndRefresh, Tick, Refused
  <2> QED
    BY <2>1, EditOver
<1>4. ASSUME NEW v \in VMs, User(v) PROVE EInv'
  <2>1. CASE UpdateVm(v)
    BY <2>1, EffectOfUpdate
  <2>2. CASE CancelBuild(v)
    BY <2>2, <1>0, SameHolds, EditUndisturbed DEF CancelBuild
  <2>3. CASE CreateVm(v) \/ StartVm(v)
    BY <2>3, RefreshesIs, EditOver DEF CreateVm, StartVm, EditSteps
  <2>4. CASE \E disks \in BOOLEAN : DeleteVm(v, disks)
    <3>1. main'.pc \in {"remove", "idle"}
      <4>1. Refused \/ main' = [Idle EXCEPT !.pc = "remove", !.vm = v]
        BY <2>4 DEF DeleteVm
      <4>2. CASE Refused
        BY <4>2, RefusedIs
      <4>3. CASE main' = [Idle EXCEPT !.pc = "remove", !.vm = v]
        BY <4>3 DEF Idle
      <4> QED
        BY <4>1, <4>2, <4>3
    <3> QED
      BY <3>1, EditOver DEF EditSteps
  <2> QED
    BY <1>4, <2>1, <2>2, <2>3, <2>4 DEF User
<1>5. CASE WriteOut
  <2>1. Content' = Content /\ main' = main
    BY <1>5, WriteOutIs DEF WriteOut
  <2> QED
    BY <2>1, EditUndisturbed DEF Held
<1>6. CASE WriteFails
  <2>1. Content' = Torn
    BY <1>6, LostIs DEF WriteFails
  <2>2. main' = main \/ main' = Idle
    BY <1>6 DEF WriteFails, AfterFailedSave
  <2>3. CASE main' = main
    BY <2>1, <2>3, EditUndisturbed DEF Held
  <2>4. CASE main' = Idle
    BY <2>4, EditOver DEF Idle, EditSteps
  <2> QED
    BY <2>2, <2>3, <2>4
<1>7. CASE Initialize \/ \E v \in VMs : GuestExits(v) \/ GuestReports(v)
  BY <1>7, <1>0, SameHolds, EditUndisturbed DEF Initialize, GuestExits, GuestReports
<1>8. CASE Kill
  BY <1>8, EditOver DEF Kill, Idle, EditSteps
<1>9. CASE UNCHANGED vars
  BY <1>9, <1>0, SameHolds, EditUndisturbed DEF vars
<1> QED
  BY <1>1, <1>2, <1>3, <1>4, <1>5, <1>6, <1>7, <1>8, <1>9 DEF Next, Main

\* Where no edit changes two fields that are recorded from the same copy, all
\* that is recorded is so: the edits that were accepted, the ports and the
\* disks.  Without the hypothesis part of an accepted edit is lost: the second
\* record of the edit writes back the copy from before the first.
THEOREM RecordsStayTrue ==
  ASSUME OneRecordPerEdit
  PROVE  Spec => []RecordsAreTrue
<1>1. Init => TInv /\ RInv /\ EInv
  BY InitTypes, InitRecords DEF Init, EInv, Idle, EditSteps
<1>2. (TInv /\ RInv /\ EInv) /\ [Next]_vars => (TInv /\ RInv /\ EInv)'
  BY NextTypes, NextRecords, NextEffect
<1>3. TInv /\ RInv /\ EInv => RecordsAreTrue
  <2> SUFFICES ASSUME TInv, RInv, EInv PROVE RecordsAreTrue
    OBVIOUS
  <2>1. EditsTakeEffect
    <3> SUFFICES ASSUME main.pc = "accepted", Content # Torn
                 PROVE  \A f \in Fields : Content[main.vm][f] = main.req[f]
      BY DEF EditsTakeEffect
    <3>1. main.pc \in EditSteps /\ Recorded(main.vm)
      <4>1. main.pc \in EditSteps
        BY DEF EditSteps
      <4> QED
        BY <4>1, EditKnows
    <3>2. /\ Content[main.vm].disk = main.req.disk /\ Content[main.vm].net = main.req.net
          /\ Content[main.vm].gpu = main.req.gpu /\ Content[main.vm].port = main.req.port
      BY <3>1 DEF EInv
    <3> QED
      BY <3>2 DEF Fields
  <2>2. TypeOK /\ PortsAgree /\ DiskHoldsItsRecord
    BY DEF TInv, RInv, Ports, Disks, Recorded, PortsAgree, DiskHoldsItsRecord
  <2> QED
    BY <2>1, <2>2 DEF RecordsAreTrue
<1> QED
  BY <1>1, <1>2, <1>3, PTL DEF Spec

-----------------------------------------------------------------------------
(* The endpoints: no two VMs have one in common.                           *)

EndpointsApart ==
  \A u, v \in VMs : u # v => EndpointsOf(u) \cap EndpointsOf(v) \subseteq {None}

\* A start before it looks for its endpoint, and until it has a system.
BeforeNetwork == {"check", "files", "create", "register", "built", "read"}
OnNetwork     == {"net", "record", "dhcp", "system"}

\* A start that is made again has lost its system, and is on an endpoint that
\* HNS does not hold.
SecondTry(v) ==
  /\ worker[v].pc \in BeforeNetwork => worker[v].ep = None /\ ~worker[v].again
  /\ worker[v].pc \in OnNetwork /\ worker[v].ep # None => worker[v].m.net = "nat"
  /\ worker[v].pc \in OnNetwork /\ worker[v].again =>
       worker[v].ep # None /\ sys[v].st # "running"
  /\ worker[v].pc \in {"record", "dhcp", "system"} /\ worker[v].again =>
       worker[v].ep \notin stuck

NInv == EndpointsApart /\ \A v \in VMs : SecondTry(v)

\* What names an endpoint of v's.
LEMMA TheirEndpoints ==
  ASSUME NEW v
  PROVE  /\ worker[v].ep \in EndpointsOf(v) /\ sys[v].ep \in EndpointsOf(v)
         /\ adapter[v] \in EndpointsOf(v)
         /\ worker[v].m # None => worker[v].m.ep \in EndpointsOf(v)
         /\ Recorded(v) => Content[v].ep \in EndpointsOf(v)
         /\ main.snap # None /\ main.snap[v] # None => main.snap[v].ep \in EndpointsOf(v)
         /\ main.vm = v /\ main.m # None => main.m.ep \in EndpointsOf(v)
         /\ main.vm = v /\ main.req # None => main.req.ep \in EndpointsOf(v)
<1>1. /\ worker[v].m # None => worker[v].m \in MappingsOf(v)
      /\ Recorded(v) => Content[v] \in MappingsOf(v)
      /\ main.snap # None /\ main.snap[v] # None => main.snap[v] \in MappingsOf(v)
      /\ main.vm = v /\ main.m # None => main.m \in MappingsOf(v)
      /\ main.vm = v /\ main.req # None => main.req \in MappingsOf(v)
  BY DEF MappingsOf, Recorded
<1>2. /\ \A m \in MappingsOf(v) : m.ep \in EndpointsOf(v)
      /\ worker[v].ep \in EndpointsOf(v) /\ sys[v].ep \in EndpointsOf(v)
      /\ adapter[v] \in EndpointsOf(v)
  BY DEF EndpointsOf
<1> QED
  BY <1>1, <1>2

\* Nothing else does.
LEMMA NoOtherEndpoints ==
  ASSUME NEW v, NEW N,
         worker'[v].ep \in N, sys'[v].ep \in N, adapter'[v] \in N,
         worker'[v].m # None => worker'[v].m.ep \in N,
         Recorded(v)' => Content'[v].ep \in N,
         main'.snap # None /\ main'.snap[v] # None => main'.snap[v].ep \in N,
         main'.vm = v /\ main'.m # None => main'.m.ep \in N,
         main'.vm = v /\ main'.req # None => main'.req.ep \in N
  PROVE  EndpointsOf(v)' \subseteq N
<1>1. \A m \in MappingsOf(v)' : m.ep \in N
  BY DEF MappingsOf, Recorded
<1> QED
  BY <1>1 DEF EndpointsOf

\* A VM that a step is apart from keeps its endpoints.
LEMMA ApartNames ==
  ASSUME NEW u, worker'[u] = worker[u], sys'[u] = sys[u], adapter'[u] = adapter[u], Held(u),
         main' = main
  PROVE  EndpointsOf(u)' \subseteq EndpointsOf(u)
<1>1. Recorded(u)' => Content'[u].ep \in EndpointsOf(u)
  BY TheirEndpoints DEF Recorded, Held
<1> QED
  BY <1>1, TheirEndpoints, NoOtherEndpoints

LEMMA StayApart ==
  ASSUME EndpointsApart,
         \A u \in VMs : EndpointsOf(u)' \subseteq EndpointsOf(u) \cup {None}
  PROVE  EndpointsApart'
BY DEF EndpointsApart

LEMMA OneTakesNew ==
  ASSUME EndpointsApart, NEW v \in VMs, NEW e \in NewEndpoints,
         \A u \in VMs \ {v} : EndpointsOf(u)' \subseteq EndpointsOf(u) \cup {None},
         EndpointsOf(v)' \subseteq EndpointsOf(v) \cup {None, e}
  PROVE  EndpointsApart'
<1>1. \A u \in VMs : e \notin EndpointsOf(u)
  BY DEF NewEndpoints
<1> QED
  BY <1>1 DEF EndpointsApart

\* A step of v's worker: what it has to show of its own endpoints.
LEMMA WorkerNames ==
  ASSUME NEW v \in VMs, NEW N, main' = main,
         EndpointsOf(v) \subseteq N, None \in N,
         worker'[v].ep \in N, sys'[v].ep \in N, adapter'[v] \in N,
         worker'[v].m # None => worker'[v].m.ep \in N,
         Recorded(v)' => Content'[v].ep \in N
  PROVE  EndpointsOf(v)' \subseteq N
BY TheirEndpoints, NoOtherEndpoints

-----------------------------------------------------------------------------
(* The endpoints: the document.                                            *)

\* What the document names of u's it has, or had, the name of.
Written(u) == Recorded(u)' => Content'[u].ep \in EndpointsOf(u)

LEMMA SaveNames ==
  ASSUME TInv, NEW thread \in Threads, NEW v \in VMs, NEW mapping \in Mappings \cup {None},
         mapping # None => mapping.ep \in EndpointsOf(v), Save(thread, v, mapping)
  PROVE  \A u \in VMs : Written(u)
<1>1. /\ Content # Torn /\ Content'[v] = mapping
      /\ \A u \in VMs \ {v} : Content'[u] = Content[u]
  BY SaveIs
<1>2. \A u \in VMs : Recorded(u) => Content[u].ep \in EndpointsOf(u)
  BY TheirEndpoints
<1> QED
  BY <1>1, <1>2 DEF Recorded, Written

LEMMA SameNames ==
  ASSUME TInv, UNCHANGED storeVars
  PROVE  \A u \in VMs : Written(u)
<1>1. Content' = Content
  BY SameStore
<1>2. \A u \in VMs : Recorded(u) => Content[u].ep \in EndpointsOf(u)
  BY TheirEndpoints
<1> QED
  BY <1>1, <1>2 DEF Recorded, Written

-----------------------------------------------------------------------------
(* The endpoints: the steps of a worker.                                   *)

\* The host's part of a worker's step: HNS is left with no more to hold on to, but
\* for the endpoint of a VM that was stopped by force, and v's system and adapter are on the endpoint they were on, on the start's
\* or on none.
LEMMA WorkerHost ==
  ASSUME TInv, NEW v \in VMs, Worker(v)
  PROVE  /\ stuck' \subseteq stuck \cup ({sys[v].ep} \ {None})
         /\ worker[v].pc # "stop" => stuck' \subseteq stuck
         /\ sys'[v].ep \in {sys[v].ep, worker[v].ep, None}
         /\ adapter'[v] \in {adapter[v], worker[v].ep, None}
         /\ \A u \in VMs \ {v} : sys'[u] = sys[u] /\ adapter'[u] = adapter[u]
<1>0. /\ sys \in [VMs -> Systems] /\ adapter \in [VMs -> Endpoints \cup {None}]
      /\ sys[v] \in Systems /\ NoSystem.ep = None
  BY Types DEF DisksTyped, NoSystem
<1>1. CASE UNCHANGED <<hostVars, diskVars>>
  BY <1>0, <1>1 DEF hostVars, diskVars
<1>2. CASE CreateFiles(v) \/ StartOffNetwork(v) \/ StartRegistersAddress(v)
  BY <1>0, <1>2 DEF CreateFiles, StartOffNetwork, StartRegistersAddress, hostVars, diskVars
<1>3. CASE CreateSystem(v)
  BY <1>0, <1>3 DEF CreateSystem, diskVars
<1>4. CASE CreateRollsBack(v)
  BY <1>0, <1>4 DEF CreateRollsBack
<1>5. CASE StartCreatesEndpoint(v)
  BY <1>0, <1>5 DEF StartCreatesEndpoint, Exchanged, diskVars
<1>6. CASE StartPreparesSystem(v)
  BY <1>0, <1>6 DEF StartPreparesSystem, diskVars
<1>7. CASE StartBoots(v)
  <2>1. sys' = sys \/ sys' = [sys EXCEPT ![v].st = "running"]
    BY <1>7 DEF StartBoots
  <2>2. stuck' = stuck /\ adapter' = adapter
    BY <1>7 DEF StartBoots, diskVars
  <2>3. CASE sys' = [sys EXCEPT ![v].st = "running"]
    BY <1>0, <2>2, <2>3 DEF Systems
  <2> QED
    BY <2>1, <2>2, <2>3
<1>8. CASE BuildStops(v)
  BY <1>0, <1>8 DEF BuildStops, At, diskVars
<1>9. CASE BuildUndoes(v)
  <2>1. CASE UNCHANGED <<hostVars, diskVars>>
    BY <2>1, <1>1
  <2>2. CASE \E failing \in SUBSET Parts : Teardown(v, doc[v], failing, TRUE)
    BY <1>0, <2>2 DEF Teardown
  <2> QED
    BY <1>9, <2>1, <2>2 DEF BuildUndoes
<1> QED
  BY <1>1, <1>2, <1>3, <1>4, <1>5, <1>6, <1>7, <1>8, <1>9
  DEF Worker, CreateChecks, CreateRegisters, BuildContinues, StartReads, StartReuses,
      StartRecords, AwaitNothing, AwaitAddress, AwaitPort, AwaitGuest, AwaitCloudInit,
      BuildRemoves, BuildForgets

\* What a worker writes to the document names no endpoint but its VM's.
LEMMA WorkerWrites ==
  ASSUME TInv, NEW v \in VMs, Worker(v)
  PROVE  \A u \in VMs : Written(u)
<1>1. CASE UNCHANGED storeVars
  BY <1>1, SameNames
<1>2. CASE CreateRegisters(v) /\ Save(v, v, worker[v].m)
  <2>1. worker[v].m \in Mappings
    BY <1>2, CopyTyped DEF CreateRegisters, At, CopySteps
  <2> QED
    BY <1>2, <2>1, SaveNames, TheirEndpoints DEF Threads
<1>3. CASE StartRecords(v) /\ Save(v, v, [worker[v].m EXCEPT !.ep = worker[v].ep])
  <2>1. worker[v].m \in Mappings /\ worker[v] \in Workers
    BY <1>3, CopyTyped, Types DEF StartRecords, At, CopySteps
  <2>2. /\ [worker[v].m EXCEPT !.ep = worker[v].ep] \in Mappings
        /\ [worker[v].m EXCEPT !.ep = worker[v].ep].ep = worker[v].ep
    BY <2>1 DEF Mappings, Workers
  <2> QED
    BY <1>3, <2>2, SaveNames, TheirEndpoints DEF Threads
<1>4. CASE BuildRemoves(v) /\ Save(v, v, None)
  BY <1>4, SaveNames DEF Threads
<1> QED
  BY <1>1, <1>2, <1>3, <1>4
  DEF Worker, CreateChecks, CreateFiles, CreateSystem, CreateRegisters, CreateRollsBack,
      BuildContinues, StartReads, StartOffNetwork, StartReuses, StartCreatesEndpoint,
      StartRecords, StartRegistersAddress, StartPreparesSystem, StartBoots, AwaitNothing,
      AwaitAddress, AwaitPort, AwaitGuest, AwaitCloudInit, BuildStops, BuildUndoes,
      BuildRemoves, BuildForgets

LEMMA TryOver ==
  ASSUME NEW v, worker'[v].pc \notin BeforeNetwork \cup OnNetwork
  PROVE  SecondTry(v)'
BY DEF SecondTry, BeforeNetwork, OnNetwork

LEMMA StopOver ==
  ASSUME NEW v, Stops(v)
  PROVE  SecondTry(v)'
BY TryOver DEF Stops, BeforeNetwork, OnNetwork

LEMMA MoveOver ==
  ASSUME NEW v, NEW step, Moves(v, step), step \notin BeforeNetwork \cup OnNetwork
  PROVE  SecondTry(v)'
BY TryOver DEF Moves

LEMMA FailOver ==
  ASSUME TInv, NEW v \in VMs, StartFails(v)
  PROVE  SecondTry(v)'
BY Types, StartFailsIs, StopOver, MoveOver DEF BeforeNetwork, OnNetwork

LEMMA TryBefore ==
  ASSUME NEW v, SecondTry(v), worker[v].pc \in BeforeNetwork,
         worker'[v].pc \in BeforeNetwork \cup {"net"},
         worker'[v].ep = worker[v].ep, worker'[v].again = worker[v].again
  PROVE  SecondTry(v)'
BY DEF SecondTry, BeforeNetwork, OnNetwork

\* A worker that starts its VM over is on an endpoint HNS does not hold.
LEMMA WorkerTries ==
  ASSUME TInv, NEW v \in VMs, Worker(v), SecondTry(v)
  PROVE  SecondTry(v)'
<1>0. /\ worker \in [VMs -> Workers] /\ worker[v] \in Workers
      /\ sys \in [VMs -> Systems] /\ stuck \subseteq Endpoints
      /\ worker[v].pc # "stop" => stuck' \subseteq stuck
      /\ BeforeNetwork \cup OnNetwork \cup {"rollback", "undo", "boot", "stop", "port", "cloud",
                                            "remove", "forget"} \subseteq WorkerSteps
  BY Types, WorkerHost DEF DisksTyped, SetsTyped, BeforeNetwork, OnNetwork, WorkerSteps
<1>1. CASE Ends(v)
  BY <1>0, <1>1, EndsIs, StopOver
<1>2. CASE StartFails(v)
  BY <1>2, FailOver
<1>3. CASE \E step \in {"rollback", "undo", "boot", "stop", "port", "cloud", "remove", "forget"} :
             Goes(v, step)
  BY <1>0, <1>3, GoesIs, MoveOver DEF BeforeNetwork, OnNetwork
<1>4. CASE CreateChecks(v)
  <2>1. CASE worker' = [worker EXCEPT ![v].pc = "files", ![v].m = Fresh(v)]
    <3>1. /\ worker'[v].pc = "files" /\ worker'[v].ep = worker[v].ep
          /\ worker'[v].again = worker[v].again
      BY <1>0, <2>1 DEF Workers
    <3> QED
      BY <1>4, <3>1, TryBefore DEF CreateChecks, At, BeforeNetwork
  <2> QED
    BY <1>1, <1>4, <2>1 DEF CreateChecks
<1>5. CASE \/ At(v, "files") /\ Goes(v, "create")
           \/ At(v, "register") /\ Goes(v, "built")
           \/ At(v, "built") /\ Goes(v, "read")
  <2>1. PICK step \in {"create", "built", "read"} :
          Goes(v, step) /\ worker[v].pc \in BeforeNetwork
    BY <1>5 DEF At, BeforeNetwork
  <2>2. step \in BeforeNetwork
    BY DEF BeforeNetwork
  <2>3. Moves(v, step)
    BY <1>0, <2>1, <2>2, GoesIs
  <2> QED
    BY <2>1, <2>2, <2>3, TryBefore DEF Moves
<1>6. CASE At(v, "create") /\ worker' = [worker EXCEPT ![v].pc = "register", ![v].made = TRUE]
  <2>1. /\ worker'[v].pc = "register" /\ worker'[v].ep = worker[v].ep
        /\ worker'[v].again = worker[v].again
    BY <1>0, <1>6 DEF Workers
  <2> QED
    BY <1>6, <2>1, TryBefore DEF At, BeforeNetwork
<1>7. CASE At(v, "read") /\ worker' = [worker EXCEPT ![v].pc = "net", ![v].m = doc[v]]
  <2>1. /\ worker'[v].pc = "net" /\ worker'[v].ep = worker[v].ep
        /\ worker'[v].again = worker[v].again
    BY <1>0, <1>7 DEF Workers
  <2> QED
    BY <1>7, <2>1, TryBefore DEF At, BeforeNetwork
<1>8. CASE StartOffNetwork(v)
  <2>1. worker[v].ep = None /\ ~worker[v].again
    BY <1>8 DEF StartOffNetwork, At, SecondTry, OnNetwork
  <2>2. Moves(v, "system")
    BY <1>0, <1>8, GoesIs DEF StartOffNetwork, OnNetwork
  <2> QED
    BY <2>1, <2>2 DEF Moves, SecondTry, BeforeNetwork, OnNetwork
<1>9. CASE StartReuses(v)
  <2>1. /\ worker'[v].pc = "dhcp" /\ worker'[v].again = worker[v].again
        /\ worker'[v].m = worker[v].m
    BY <1>0, <1>9 DEF StartReuses, Workers
  <2>2. ~worker[v].again /\ worker[v].m.net = "nat"
    BY <1>9 DEF StartReuses
  <2> QED
    BY <2>1, <2>2 DEF SecondTry, BeforeNetwork, OnNetwork
<1>10. CASE StartCreatesEndpoint(v)
  <2>1. ASSUME NEW e \in NewEndpoints, worker' = [worker EXCEPT ![v].ep = e, ![v].pc = "record"]
        PROVE  SecondTry(v)'
    <3>1. /\ worker'[v].pc = "record" /\ worker'[v].again = worker[v].again
          /\ worker'[v].m = worker[v].m /\ worker'[v].ep = e
      BY <1>0, <2>1 DEF Workers
    <3>2. e # None /\ e \notin stuck
      BY ConstantsAssumption DEF NewEndpoints
    <3>3. /\ worker[v].pc = "net" /\ worker[v].m.net = "nat" /\ sys' = sys
      BY <1>10 DEF StartCreatesEndpoint, At
    <3> QED
      BY <1>0, <3>1, <3>2, <3>3 DEF SecondTry, BeforeNetwork, OnNetwork
  <2> QED
    BY <1>2, <1>10, <2>1 DEF StartCreatesEndpoint
<1>11. CASE \/ At(v, "record") /\ Goes(v, "dhcp") /\ UNCHANGED hostVars
            \/ At(v, "dhcp") /\ Goes(v, "system") /\ UNCHANGED hostVars
  <2>1. PICK step \in {"dhcp", "system"} :
          Goes(v, step) /\ worker[v].pc \in {"record", "dhcp"} /\ UNCHANGED hostVars
    BY <1>11 DEF At
  <2>2. Moves(v, step)
    BY <1>0, <2>1, GoesIs DEF OnNetwork
  <2>3. sys' = sys /\ stuck' = stuck
    BY <2>1 DEF hostVars
  <2> QED
    BY <2>1, <2>2, <2>3 DEF Moves, SecondTry, BeforeNetwork, OnNetwork
<1>12. CASE StartPreparesSystem(v)
  <2>1. CASE EndpointBusy(v) /\ sys' = [sys EXCEPT ![v] = NoSystem]
    <3>1. sys'[v].st # "running"
      BY <1>0, <2>1 DEF NoSystem
    <3>2. CASE worker[v].ep # None
               /\ worker' = [worker EXCEPT ![v].again = TRUE, ![v].pc = "net"]
      <4>1. /\ worker'[v].pc = "net" /\ worker'[v].ep = worker[v].ep
            /\ worker'[v].m = worker[v].m
        BY <1>0, <3>2 DEF Workers
      <4>2. worker[v].m.net = "nat"
        BY <1>12, <3>2 DEF StartPreparesSystem, At, SecondTry, OnNetwork
      <4> QED
        BY <3>1, <3>2, <4>1, <4>2 DEF SecondTry, BeforeNetwork, OnNetwork
    <3> QED
      BY <1>2, <2>1, <3>2 DEF EndpointBusy
  <2> QED
    BY <1>2, <1>3, <1>12, <2>1 DEF StartPreparesSystem
<1>13. CASE StartBoots(v)
  <2>1. CASE worker' = [worker EXCEPT
                  ![v].pc = "address",
                  ![v].m  = IF Readable /\ doc[v] # None THEN doc[v] ELSE @]
    <3>1. worker'[v].pc = "address"
      BY <1>0, <2>1 DEF Workers
    <3> QED
      BY <3>1, TryOver DEF BeforeNetwork, OnNetwork
  <2> QED
    BY <1>1, <1>2, <1>13, <2>1 DEF StartBoots
<1> QED
  <2>1. CASE CreateFiles(v) \/ CreateSystem(v) \/ CreateRegisters(v) \/ CreateRollsBack(v)
    <3>1. CASE CreateFiles(v) \/ CreateRegisters(v)
      BY <3>1, <1>1, <1>3, <1>5 DEF CreateFiles, CreateRegisters
    <3>2. CASE CreateSystem(v)
      BY <3>2, <1>3, <1>6 DEF CreateSystem
    <3>3. CASE CreateRollsBack(v)
      BY <3>3, <1>1 DEF CreateRollsBack
    <3> QED
      BY <2>1, <3>1, <3>2, <3>3
  <2>2. CASE BuildContinues(v) \/ StartReads(v) \/ StartRecords(v) \/ StartRegistersAddress(v)
    BY <2>2, <1>2, <1>3, <1>5, <1>7, <1>11
    DEF BuildContinues, StartReads, StartRecords, StartRegistersAddress
  <2>3. CASE AwaitNothing(v) \/ AwaitAddress(v) \/ AwaitPort(v) \/ AwaitCloudInit(v)
    BY <2>3, <1>1, <1>3 DEF AwaitNothing, AwaitAddress, AwaitPort, AwaitGuest, AwaitCloudInit
  <2>4. CASE BuildStops(v) \/ BuildUndoes(v) \/ BuildRemoves(v) \/ BuildForgets(v)
    BY <2>4, <1>1, <1>3 DEF BuildStops, BuildUndoes, BuildRemoves, BuildForgets
  <2> QED
    BY <2>1, <2>2, <2>3, <2>4, <1>4, <1>8, <1>9, <1>10, <1>12, <1>13 DEF Worker

\* The endpoints that v's worker will go on with are v's.
OwnNames(v) ==
  /\ worker'[v].ep \in EndpointsOf(v) \cup {None}
  /\ worker'[v].m # None => worker'[v].m.ep \in EndpointsOf(v) \cup {None}

LEMMA MoveNames ==
  ASSUME NEW v, NEW step, Moves(v, step)
  PROVE  OwnNames(v)
BY TheirEndpoints DEF Moves, OwnNames

LEMMA StopNames ==
  ASSUME NEW v, Stops(v)
  PROVE  OwnNames(v)
BY DEF Stops, NoWorker, OwnNames

LEMMA FailNames ==
  ASSUME TInv, NEW v \in VMs, StartFails(v)
  PROVE  OwnNames(v) /\ \A u \in VMs \ {v} : worker'[u] = worker[u]
BY Types, StartFailsIs, StopNames, MoveNames DEF Stops, Moves

\* No worker's step but one names an endpoint that was not its VM's, and that
\* one takes an endpoint nothing has.
LEMMA WorkerCopies ==
  ASSUME TInv, NEW v \in VMs, Worker(v)
  PROVE  /\ \A u \in VMs \ {v} : worker'[u] = worker[u]
         /\ \/ OwnNames(v)
            \/ \E e \in NewEndpoints : worker'[v].ep = e /\ worker'[v].m = worker[v].m
<1> DEFINE Others == \A u \in VMs \ {v} : worker'[u] = worker[u]
<1>0. /\ worker \in [VMs -> Workers] /\ worker[v] \in Workers
      /\ {"create", "rollback", "built", "undo", "read", "system", "dhcp", "boot", "stop", "port",
          "cloud", "remove", "forget"} \subseteq WorkerSteps
  BY Types DEF WorkerSteps
<1>1. CASE Ends(v)
  BY <1>0, <1>1, EndsIs, StopNames DEF Stops
<1>2. CASE StartFails(v)
  BY <1>2, FailNames
<1>3. CASE \E step \in {"create", "rollback", "built", "undo", "read", "system", "dhcp", "boot",
                        "stop", "port", "cloud", "remove", "forget"} : Goes(v, step)
  BY <1>0, <1>3, GoesIs, MoveNames DEF Moves
<1>4. CASE worker' = [worker EXCEPT ![v].pc = "files", ![v].m = Fresh(v)]
  <2>1. /\ worker'[v].ep = worker[v].ep /\ worker'[v].m = Fresh(v) /\ Others
    BY <1>0, <1>4 DEF Workers
  <2>2. Fresh(v).ep = None
    BY DEF Fresh
  <2> QED
    BY <2>1, <2>2, TheirEndpoints DEF OwnNames
<1>5. CASE worker' = [worker EXCEPT ![v].pc = "register", ![v].made = TRUE]
  <2>1. /\ worker'[v].ep = worker[v].ep /\ worker'[v].m = worker[v].m /\ Others
    BY <1>0, <1>5 DEF Workers
  <2> QED
    BY <2>1, TheirEndpoints DEF OwnNames
<1>6. CASE Readable /\ worker' = [worker EXCEPT ![v].pc = "net", ![v].m = doc[v]]
  <2>1. /\ worker'[v].ep = worker[v].ep /\ worker'[v].m = doc[v] /\ Others
    BY <1>0, <1>6 DEF Workers
  <2>2. doc[v] # None => doc[v].ep \in EndpointsOf(v)
    BY <1>6, ReadableIs, TheirEndpoints DEF Recorded
  <2> QED
    BY <2>1, <2>2, TheirEndpoints DEF OwnNames
<1>7. CASE StartReuses(v)
  <2>1. /\ worker'[v].ep = worker[v].m.ep /\ worker'[v].m = worker[v].m /\ Others
    BY <1>0, <1>7 DEF StartReuses, Workers
  <2>2. worker[v].m # None
    BY <1>7, CopyTyped, ConstantsAssumption DEF StartReuses, At, CopySteps
  <2> QED
    BY <2>1, <2>2, TheirEndpoints DEF OwnNames
<1>8. CASE StartCreatesEndpoint(v)
  <2>1. ASSUME NEW e \in NewEndpoints, worker' = [worker EXCEPT ![v].ep = e, ![v].pc = "record"]
        PROVE  worker'[v].ep = e /\ worker'[v].m = worker[v].m /\ Others
    BY <1>0, <2>1 DEF Workers
  <2> QED
    BY <1>2, <1>8, <2>1 DEF StartCreatesEndpoint
<1>9. CASE worker' = [worker EXCEPT ![v].again = TRUE, ![v].pc = "net"]
  <2>1. /\ worker'[v].ep = worker[v].ep /\ worker'[v].m = worker[v].m /\ Others
    BY <1>0, <1>9 DEF Workers
  <2> QED
    BY <2>1, TheirEndpoints DEF OwnNames
<1>10. CASE worker' = [worker EXCEPT
                  ![v].pc = "address",
                  ![v].m  = IF Readable /\ doc[v] # None THEN doc[v] ELSE @]
  <2>1. /\ worker'[v].ep = worker[v].ep /\ Others
        /\ worker'[v].m = IF Readable /\ doc[v] # None THEN doc[v] ELSE worker[v].m
    BY <1>0, <1>10 DEF Workers
  <2>2. Readable /\ doc[v] # None => doc[v].ep \in EndpointsOf(v)
    BY ReadableIs, TheirEndpoints DEF Recorded
  <2> QED
    BY <2>1, <2>2, TheirEndpoints DEF OwnNames
<1> HIDE DEF Others
<1> QED
  <2>1. CASE CreateChecks(v) \/ CreateFiles(v) \/ CreateRegisters(v) \/ CreateRollsBack(v)
    BY <2>1, <1>1, <1>3, <1>4 DEF CreateChecks, CreateFiles, CreateRegisters, CreateRollsBack
  <2>2. CASE CreateSystem(v)
    BY <2>2, <1>3, <1>5 DEF CreateSystem
  <2>3. CASE BuildContinues(v) \/ StartReads(v) \/ StartOffNetwork(v)
    BY <2>3, <1>2, <1>3, <1>6 DEF BuildContinues, StartReads, StartOffNetwork
  <2>4. CASE StartRecords(v) \/ StartRegistersAddress(v)
    BY <2>4, <1>2, <1>3 DEF StartRecords, StartRegistersAddress
  <2>5. CASE StartPreparesSystem(v) \/ StartBoots(v)
    BY <2>5, <1>1, <1>2, <1>3, <1>9, <1>10 DEF StartPreparesSystem, EndpointBusy, StartBoots
  <2>6. CASE AwaitNothing(v) \/ AwaitAddress(v) \/ AwaitPort(v) \/ AwaitCloudInit(v)
    BY <2>6, <1>1, <1>3 DEF AwaitNothing, AwaitAddress, AwaitPort, AwaitGuest, AwaitCloudInit
  <2>7. CASE BuildStops(v) \/ BuildUndoes(v) \/ BuildRemoves(v) \/ BuildForgets(v)
    BY <2>7, <1>1, <1>3 DEF BuildStops, BuildUndoes, BuildRemoves, BuildForgets
  <2> QED
    BY <2>1, <2>2, <2>3, <2>4, <2>5, <2>6, <2>7, <1>7, <1>8 DEF Worker

\* A VM that a step leaves alone is where it was.
LEMMA TryApart ==
  ASSUME NEW u, SecondTry(u), worker'[u] = worker[u],
         sys'[u].st = "running" => sys[u].st = "running",
         worker[u].ep \in stuck' => worker[u].ep \in stuck
  PROVE  SecondTry(u)'
BY DEF SecondTry

LEMMA EndpointsOfWorker ==
  ASSUME TInv, NInv, NEW v \in VMs, Worker(v)
  PROVE  NInv'
<1>1. /\ main' = main
      /\ \A u \in VMs \ {v} : Held(u) /\ worker'[u] = worker[u] /\ sys'[u] = sys[u]
                              /\ adapter'[u] = adapter[u]
  BY WorkerHolds, WorkerCopies, WorkerHost
<1>2. \A u \in VMs : SecondTry(u)'
  <2>1. \A u \in VMs \ {v} : SecondTry(u)'
    <3>1. SUFFICES ASSUME NEW u \in VMs \ {v} PROVE SecondTry(u)'
      OBVIOUS
    <3>2. worker[u].ep \in EndpointsOf(u) /\ sys[v].ep \in EndpointsOf(v)
      BY TheirEndpoints
    <3>3. worker[u].ep \in stuck' => worker[u].ep \in stuck
      BY <3>2, WorkerHost DEF NInv, EndpointsApart
    <3> QED
      BY <1>1, <3>3, TryApart DEF NInv
  <2> QED
    BY <2>1, WorkerTries DEF NInv
<1>3. \A u \in VMs \ {v} : EndpointsOf(u)' \subseteq EndpointsOf(u) \cup {None}
  BY <1>1, ApartNames
<1>4. /\ sys'[v].ep \in EndpointsOf(v) \cup {None} /\ adapter'[v] \in EndpointsOf(v) \cup {None}
      /\ Recorded(v)' => Content'[v].ep \in EndpointsOf(v)
  BY WorkerHost, WorkerWrites, TheirEndpoints DEF Written
<1>5. CASE OwnNames(v)
  <2> DEFINE N == EndpointsOf(v) \cup {None}
  <2>1. worker'[v].ep \in N /\ (worker'[v].m # None => worker'[v].m.ep \in N)
    BY <1>5 DEF OwnNames
  <2>2. EndpointsOf(v)' \subseteq N
    BY <1>1, <1>4, <2>1, WorkerNames
  <2> QED
    BY <1>2, <1>3, <2>2, StayApart DEF NInv
<1>6. ASSUME NEW e \in NewEndpoints, worker'[v].ep = e, worker'[v].m = worker[v].m
      PROVE  NInv'
  <2> DEFINE N == EndpointsOf(v) \cup {None, e}
  <2>1. worker'[v].ep \in N /\ (worker'[v].m # None => worker'[v].m.ep \in N)
    BY <1>6, TheirEndpoints
  <2>2. EndpointsOf(v)' \subseteq N
    BY <1>1, <1>4, <2>1, WorkerNames
  <2> QED
    BY <1>2, <1>3, <2>2, OneTakesNew DEF NInv
<1> QED
  BY <1>5, <1>6, WorkerCopies

-----------------------------------------------------------------------------
(* The endpoints: the UI thread.                                           *)

\* The UI thread goes on with no endpoint that was not u's.
MainKeeps(u) ==
  /\ main'.snap # None /\ main'.snap[u] # None => main'.snap[u].ep \in EndpointsOf(u)
  /\ main'.vm = u /\ main'.m # None => main'.m.ep \in EndpointsOf(u)
  /\ main'.vm = u /\ main'.req # None => main'.req.ep \in EndpointsOf(u)

MainClear == main'.snap = None /\ main'.m = None /\ main'.req = None

LEMMA ClearKeeps ==
  ASSUME NEW u, MainClear
  PROVE  MainKeeps(u)
BY DEF MainClear, MainKeeps

LEMMA LeaveClears ==
  ASSUME Refused \/ Refreshes
  PROVE  MainClear
<1>1. CASE Refused
  BY <1>1 DEF Refused, Idle, MainClear
<1>2. CASE Refreshes
  <2>1. main' = [pc |-> "rows", vm |-> None, m |-> None, req |-> None, snap |-> None]
    BY <1>2 DEF Refreshes, Idle
  <2> QED
    BY <2>1 DEF MainClear
<1> QED
  BY <1>1, <1>2

LEMMA MoveKeeps ==
  ASSUME NEW u, NEW step, MainMoves(step)
  PROVE  MainKeeps(u)
BY TheirEndpoints DEF MainMoves, MainKeeps

LEMMA StayKeeps ==
  ASSUME NEW u, main' = main
  PROVE  MainKeeps(u)
BY TheirEndpoints DEF MainKeeps

\* A step that begins no start and changes no endpoint of a system's.
LEMMA UiNames ==
  ASSUME NInv, stuck' \subseteq stuck,
         \A u \in VMs : /\ worker'[u] = worker[u] /\ adapter'[u] = adapter[u]
                        /\ sys'[u] = sys[u] \/ sys'[u] = NoSystem
                        /\ Written(u) /\ MainKeeps(u)
  PROVE  NInv'
<1>1. ASSUME NEW u \in VMs PROVE EndpointsOf(u)' \subseteq EndpointsOf(u) \cup {None}
  <2>1. /\ worker'[u].ep \in EndpointsOf(u) /\ adapter'[u] \in EndpointsOf(u)
        /\ worker'[u].m # None => worker'[u].m.ep \in EndpointsOf(u)
        /\ sys'[u].ep \in EndpointsOf(u) \cup {None}
    BY TheirEndpoints DEF NoSystem
  <2> QED
    BY <2>1, NoOtherEndpoints DEF Written, MainKeeps
<1>2. ASSUME NEW u \in VMs PROVE SecondTry(u)'
  <2>1. sys'[u].st = "running" => sys[u].st = "running"
    BY DEF NoSystem
  <2> QED
    BY <2>1, TryApart DEF NInv
<1> QED
  BY <1>1, <1>2, StayApart DEF NInv

\* The mapping an edit writes back names the endpoint of the copy it read.
LEMMA EditNames ==
  ASSUME TInv, main.pc \in EditSteps, NEW f \in {"net", "gpu", "disk", "port"},
         Save("main", main.vm, [main.m EXCEPT ![f] = main.req[f]])
  PROVE  \A u \in VMs : Written(u)
<1>1. main.vm \in VMs /\ main.m \in Mappings /\ main.req \in Mappings /\ main.m # None
  BY EditTyped, ConstantsAssumption
<1>2. /\ [main.m EXCEPT ![f] = main.req[f]] \in Mappings
      /\ [main.m EXCEPT ![f] = main.req[f]].ep = main.m.ep
  BY <1>1 DEF Mappings
<1>3. main.m.ep \in EndpointsOf(main.vm)
  BY <1>1, TheirEndpoints
<1> QED
  BY <1>1, <1>2, <1>3, SaveNames DEF Threads

LEMMA EndpointsOfField ==
  ASSUME TInv, NInv, NEW f \in {"net", "gpu"}, NEW step \in EditSteps, NEW next \in EditSteps,
         RecordField(step, f, next)
  PROVE  NInv'
<1>1. main.pc \in EditSteps /\ main \in Mains /\ next \in MainSteps
  BY Types DEF RecordField, MainAt, EditSteps, MainSteps
<1>2. \A u \in VMs : MainKeeps(u)
  BY <1>1, MainGoesIs, MoveKeeps, LeaveClears, ClearKeeps DEF RecordField
<1>3. \A u \in VMs : Written(u)
  BY <1>1, SameNames, EditNames DEF RecordField
<1> QED
  BY <1>2, <1>3, UiNames DEF RecordField, hostVars, diskVars

LEMMA EndpointsOfEdit ==
  ASSUME TInv, NInv,
         UpdateGrows \/ RecordDiskSize \/ UpdateConfigures \/ RecordNetworkMode
         \/ RecordGpuMode \/ MoveSshPort \/ RecordSshPort \/ UpdateReturns
  PROVE  NInv'
<1>0. main \in Mains /\ {"grown", "network", "moved", "accepted"} \subseteq MainSteps
  BY Types DEF MainSteps
<1>1. CASE RecordNetworkMode \/ RecordGpuMode
  BY <1>1, EndpointsOfField DEF RecordNetworkMode, RecordGpuMode, EditSteps
<1>2. CASE UpdateGrows \/ UpdateConfigures \/ UpdateReturns
  <2>1. \A u \in VMs : MainKeeps(u)
    BY <1>0, <1>2, MainGoesIs, MoveKeeps, LeaveClears, ClearKeeps
    DEF UpdateGrows, UpdateConfigures, UpdateReturns
  <2> QED
    BY <1>2, <2>1, SameNames, UiNames
    DEF UpdateGrows, UpdateConfigures, UpdateReturns, hostVars, diskVars
<1>3. CASE MoveSshPort
  <2>1. \A u \in VMs : MainKeeps(u)
    BY <1>0, <1>3, MainGoesIs, MoveKeeps, LeaveClears, ClearKeeps DEF MoveSshPort
  <2> QED
    BY <1>3, <2>1, SameNames, UiNames DEF MoveSshPort, hostVars
<1>4. CASE RecordDiskSize
  <2>1. main.pc \in EditSteps
    BY <1>4 DEF RecordDiskSize, MainAt, EditSteps
  <2>2. CASE /\ Save("main", main.vm, [main.m EXCEPT !.disk = main.req.disk])
             /\ main' = [main EXCEPT !.pc = "config", !.m.disk = main.req.disk]
    <3>1. main.m \in Mappings /\ main.m # None
      BY <2>1, EditTyped, ConstantsAssumption
    <3>2. /\ main'.vm = main.vm /\ main'.req = main.req /\ main'.snap = main.snap
          /\ main'.m = [main.m EXCEPT !.disk = main.req.disk]
      BY <1>0, <2>2 DEF Mains
    <3>3. main'.m.ep = main.m.ep
      BY <3>1, <3>2 DEF Mappings
    <3>4. \A u \in VMs : MainKeeps(u)
      BY <3>1, <3>2, <3>3, TheirEndpoints DEF MainKeeps
    <3>5. \A u \in VMs : Written(u)
      BY <2>1, <2>2, EditNames
    <3> QED
      BY <1>4, <3>4, <3>5, UiNames DEF RecordDiskSize, hostVars, diskVars
  <2>3. CASE Refused /\ UNCHANGED storeVars
    BY <1>4, <2>3, LeaveClears, ClearKeeps, SameNames, UiNames
    DEF RecordDiskSize, hostVars, diskVars
  <2> QED
    BY <1>4, <2>2, <2>3 DEF RecordDiskSize
<1>5. CASE RecordSshPort
  <2>1. main.pc \in EditSteps
    BY <1>5 DEF RecordSshPort, MainAt, EditSteps
  <2>2. \A u \in VMs : MainKeeps(u)
    BY <1>0, <1>5, MainGoesIs, MoveKeeps, LeaveClears, ClearKeeps DEF RecordSshPort
  <2>3. \A u \in VMs : Written(u)
    BY <1>5, <2>1, SameNames, EditNames DEF RecordSshPort
  <2> QED
    BY <1>5, <2>2, <2>3, UiNames DEF RecordSshPort, hostVars, diskVars
<1> QED
  BY <1>1, <1>2, <1>3, <1>4, <1>5

LEMMA EndpointsOfRefresh ==
  ASSUME TInv, NInv,
         DeleteRemoves \/ DeleteReturns \/ ListVms \/ ListDesktops \/ RecordDesktop
         \/ EndRefresh \/ Tick
  PROVE  NInv'
<1>0. main \in Mains /\ "main" \in Threads /\ {"desks", "desk", "gone"} \subseteq MainSteps
  BY Types DEF Threads, MainSteps
<1>a. UNCHANGED <<worker, sys, adapter, stuck>>
  BY DEF DeleteRemoves, DeleteReturns, ListVms, ListDesktops, RecordDesktop, EndRefresh, Tick,
         hostVars, diskVars
<1>1. CASE DeleteRemoves
  <2>1. main.vm \in VMs
    BY <1>1 DEF DeleteRemoves, MainAt, TInv, MainTyped
  <2>2. \A u \in VMs : Written(u)
    BY <1>0, <1>1, <2>1, SameNames, SaveNames DEF DeleteRemoves
  <2>3. \A u \in VMs : MainKeeps(u)
    BY <1>0, <1>1, MainGoesIs, MoveKeeps, LeaveClears, ClearKeeps DEF DeleteRemoves
  <2> QED
    BY <1>a, <2>2, <2>3, UiNames
<1>2. CASE DeleteReturns \/ Tick \/ ListVms \/ EndRefresh
  <2>1. \A u \in VMs : MainKeeps(u)
    BY <1>0, <1>2, MainGoesIs, MoveKeeps, LeaveClears, ClearKeeps
    DEF DeleteReturns, Tick, ListVms, EndRefresh, Refused
  <2> QED
    BY <1>a, <1>2, <2>1, SameNames, UiNames DEF DeleteReturns, Tick, ListVms, EndRefresh
<1>3. CASE ListDesktops
  <2>1. CASE main' = Idle
    BY <1>a, <1>3, <2>1, LeaveClears, ClearKeeps, SameNames, UiNames DEF ListDesktops, Refused
  <2>2. CASE Readable /\ main' = [main EXCEPT !.pc = "desk", !.snap = doc]
    <3>1. Content = doc /\ doc # Torn
      BY <2>2, ReadableIs
    <3>2. /\ main'.vm = main.vm /\ main'.m = main.m /\ main'.req = main.req
          /\ main'.snap = Content
      BY <1>0, <2>2, <3>1 DEF Mains
    <3>3. \A u \in VMs : MainKeeps(u)
      BY <3>1, <3>2, TheirEndpoints DEF MainKeeps, Recorded
    <3> QED
      BY <1>a, <1>3, <3>3, SameNames, UiNames DEF ListDesktops
  <2> QED
    BY <1>3, <2>1, <2>2 DEF ListDesktops
<1>4. CASE RecordDesktop
  <2>0. main.snap \in Documents /\ main.snap # None
    BY <1>4, ConstantsAssumption DEF RecordDesktop, MainAt, TInv, MainTyped
  <2>1. PICK v \in Waiting :
          /\ \/ Save("main", v, [main.snap[v] EXCEPT !.desk = "ready"])
             \/ UNCHANGED storeVars
          /\ main' = [main EXCEPT !.snap[v] = None]
    BY <1>4 DEF RecordDesktop
  <2>2. v \in VMs /\ main.snap[v] \in Mappings /\ main.snap[v] # None
    BY <2>0 DEF Waiting, Documents
  <2> DEFINE n == [main.snap[v] EXCEPT !.desk = "ready"]
  <2>3. n \in Mappings /\ n.ep = main.snap[v].ep
    BY <2>2 DEF Mappings
  <2>4. /\ main'.vm = main.vm /\ main'.m = main.m /\ main'.req = main.req
        /\ main'.snap = [main.snap EXCEPT ![v] = None]
    BY <1>0, <2>1 DEF Mains
  <2>5. main'.snap[v] = None /\ \A u \in VMs \ {v} : main'.snap[u] = main.snap[u]
    BY <2>0, <2>2, <2>4 DEF Documents
  <2>6. \A u \in VMs : MainKeeps(u)
    BY <2>0, <2>4, <2>5, TheirEndpoints DEF MainKeeps
  <2>7. n.ep \in EndpointsOf(v)
    BY <2>0, <2>2, <2>3, TheirEndpoints
  <2>8. CASE Save("main", v, n)
    <3> HIDE DEF n
    <3>1. \A u \in VMs : Written(u)
      BY <1>0, <2>2, <2>3, <2>7, <2>8, SaveNames
    <3> QED
      BY <1>a, <2>6, <3>1, UiNames
  <2>9. CASE UNCHANGED storeVars
    BY <1>a, <2>6, <2>9, SameNames, UiNames
  <2> QED
    BY <2>1, <2>8, <2>9
<1> QED
  BY <1>1, <1>2, <1>3, <1>4

\* A thread that begins has no endpoint and no copy.
LEMMA BeginNames ==
  ASSUME TInv, NInv, NEW v \in VMs, NEW step \in {"check", "read"}, Begins(v, step), MainClear,
         UNCHANGED <<storeVars, hostVars, adapter>>
  PROVE  NInv'
<1>1. /\ stuck' = stuck /\ sys' = sys /\ adapter' = adapter
      /\ \A u \in VMs : Written(u) /\ MainKeeps(u)
  BY SameNames, ClearKeeps DEF hostVars
<1>2. ASSUME NEW u \in VMs PROVE EndpointsOf(u)' \subseteq EndpointsOf(u) \cup {None}
  <2>1. /\ worker'[u].ep \in EndpointsOf(u) \cup {None}
        /\ worker'[u].m # None => worker'[u].m.ep \in EndpointsOf(u)
    BY TheirEndpoints DEF Begins
  <2>2. sys'[u].ep \in EndpointsOf(u) /\ adapter'[u] \in EndpointsOf(u)
    BY <1>1, TheirEndpoints
  <2> QED
    BY <1>1, <2>1, <2>2, NoOtherEndpoints DEF Written, MainKeeps
<1>3. \A u \in VMs \ {v} : SecondTry(u)'
  BY <1>1, TryApart DEF Begins, NInv
<1>4. SecondTry(v)'
  BY DEF Begins, SecondTry, OnNetwork
<1> QED
  BY <1>2, <1>3, <1>4, StayApart DEF NInv

LEMMA EndpointsOfUser ==
  ASSUME TInv, NInv, NEW v \in VMs, User(v)
  PROVE  NInv'
<1>1. CASE CreateVm(v) \/ StartVm(v)
  <2>1. PICK step \in {"check", "read"} : Begins(v, step)
    BY <1>1, CreateVmIs, StartVmIs
  <2>2. MainClear /\ UNCHANGED <<storeVars, hostVars, adapter>>
    BY <1>1, LeaveClears DEF CreateVm, StartVm, diskVars
  <2> QED
    BY <2>1, <2>2, BeginNames
<1>2. CASE CancelBuild(v)
  BY <1>2, StayKeeps, SameNames, UiNames DEF CancelBuild, hostVars, diskVars
<1>3. CASE UpdateVm(v)
  <2>1. PICK fields \in Edits : EditBegins(v, fields)
    BY <1>3, UpdateVmIs
  <2>2. Content = doc /\ Content # Torn /\ doc[v] \in Mappings /\ doc[v] # None
    BY <1>3, UpdateVmIs, ConstantsAssumption
  <2>3. Edited(doc[v], fields).ep = doc[v].ep
    BY <2>2 DEF Edited, Mappings
  <2>4. doc[v].ep \in EndpointsOf(v)
    BY <2>2, TheirEndpoints DEF Recorded
  <2>5. \A u \in VMs : MainKeeps(u)
    BY <2>1, <2>3, <2>4 DEF EditBegins, MainKeeps
  <2> QED
    BY <1>3, <2>5, SameNames, UiNames DEF UpdateVm, hostVars, diskVars
<1>4. CASE \E disks \in BOOLEAN : DeleteVm(v, disks)
  <2>1. MainClear
    <3>1. Refused \/ main' = [Idle EXCEPT !.pc = "remove", !.vm = v]
      BY <1>4 DEF DeleteVm
    <3>2. CASE main' = [Idle EXCEPT !.pc = "remove", !.vm = v]
      BY <3>2 DEF Idle, MainClear
    <3> QED
      BY <3>1, <3>2, LeaveClears
  <2>2. sys \in [VMs -> Systems]
    BY Types DEF DisksTyped
  <2>3. /\ stuck' \subseteq stuck /\ adapter' = adapter /\ worker' = worker
        /\ UNCHANGED storeVars
        /\ \A u \in VMs : sys'[u] = sys[u] \/ sys'[u] = NoSystem
    BY <1>4, <2>2 DEF DeleteVm, Teardown
  <2> QED
    BY <2>1, <2>3, ClearKeeps, SameNames, UiNames
<1> QED
  BY <1>1, <1>2, <1>3, <1>4 DEF User

-----------------------------------------------------------------------------
(* The endpoints: the document is written, or lost; the host.              *)

LEMMA KeptNames ==
  ASSUME NEW u, OwnNames(u), sys'[u].ep \in {sys[u].ep, None}, adapter'[u] = adapter[u],
         Written(u), MainKeeps(u)
  PROVE  EndpointsOf(u)' \subseteq EndpointsOf(u) \cup {None}
<1>1. sys'[u].ep \in EndpointsOf(u) \cup {None} /\ adapter'[u] \in EndpointsOf(u)
  BY TheirEndpoints
<1> QED
  BY <1>1, NoOtherEndpoints DEF OwnNames, Written, MainKeeps

LEMMA SameOwn ==
  ASSUME NEW u, worker'[u] = worker[u]
  PROVE  OwnNames(u)
BY TheirEndpoints DEF OwnNames

LEMMA LostNames ==
  ASSUME NEW u, Content' = Torn
  PROVE  Written(u)
BY DEF Written, Recorded

LEMMA IdleKeeps ==
  ASSUME NEW u, main' = main \/ main' = Idle
  PROVE  MainKeeps(u)
BY StayKeeps, LeaveClears, ClearKeeps DEF Refused

LEMMA EndpointsOfStore ==
  ASSUME TInv, NInv, WriteOut \/ WriteFails
  PROVE  NInv'
<1>0. stuck' = stuck /\ sys' = sys /\ adapter' = adapter
  BY DEF WriteOut, WriteFails, hostVars, diskVars
<1>1. CASE WriteOut
  <2>1. Content' = Content /\ main' = main /\ worker' = worker
    BY <1>1, WriteOutIs DEF WriteOut
  <2>2. \A u \in VMs : Written(u)
    BY <2>1, TheirEndpoints DEF Written, Recorded
  <2> QED
    BY <1>0, <2>1, <2>2, StayKeeps, UiNames
<1>2. CASE WriteFails
  <2>1. \A u \in VMs : Written(u) /\ MainKeeps(u)
    BY <1>2, LostIs, LostNames, IdleKeeps DEF WriteFails, AfterFailedSave
  <2>2. CASE worker' = worker
    BY <1>0, <2>1, <2>2, UiNames
  <2>3. CASE worker' # worker
    <3>1. PICK v \in Threads : v = pen.by
      BY <1>2 DEF WriteFails, TInv, PenTyped
    <3>2. v \in VMs /\ (Goes(v, "rollback") \/ StartFails(v) \/ Ends(v))
      BY <1>2, <2>3, <3>1 DEF WriteFails, AfterFailedSave, Threads
    <3>3. worker \in [VMs -> Workers] /\ "rollback" \in WorkerSteps
      BY Types DEF WorkerSteps
    <3>4. CASE Goes(v, "rollback")
      <4>1. Moves(v, "rollback")
        BY <3>2, <3>3, <3>4, GoesIs
      <4>2. OwnNames(v) /\ SecondTry(v)' /\ \A u \in VMs \ {v} : worker'[u] = worker[u]
        BY <4>1, MoveNames, MoveOver DEF Moves, BeforeNetwork, OnNetwork
      <4>3. \A u \in VMs : EndpointsOf(u)' \subseteq EndpointsOf(u) \cup {None}
        BY <1>0, <2>1, <4>2, SameOwn, KeptNames
      <4> QED
        BY <1>0, <4>2, <4>3, TryApart, StayApart DEF NInv
    <3>5. CASE StartFails(v)
      <4>1. OwnNames(v) /\ SecondTry(v)' /\ \A u \in VMs \ {v} : worker'[u] = worker[u]
        BY <3>2, <3>5, FailNames, FailOver
      <4>2. \A u \in VMs : EndpointsOf(u)' \subseteq EndpointsOf(u) \cup {None}
        BY <1>0, <2>1, <4>1, SameOwn, KeptNames
      <4> QED
        BY <1>0, <4>1, <4>2, TryApart, StayApart DEF NInv
    <3>6. CASE Ends(v)
      <4>1. OwnNames(v) /\ SecondTry(v)' /\ \A u \in VMs \ {v} : worker'[u] = worker[u]
        BY <3>2, <3>3, <3>6, EndsIs, StopNames, StopOver DEF Stops
      <4>2. \A u \in VMs : EndpointsOf(u)' \subseteq EndpointsOf(u) \cup {None}
        BY <1>0, <2>1, <4>1, SameOwn, KeptNames
      <4> QED
        BY <1>0, <4>1, <4>2, TryApart, StayApart DEF NInv
    <3> QED
      BY <3>2, <3>4, <3>5, <3>6
  <2> QED
    BY <2>2, <2>3
<1> QED
  BY <1>1, <1>2

LEMMA EndpointsOfHost ==
  ASSUME TInv, NInv,
         Initialize \/ Kill \/ \E v \in VMs : GuestExits(v) \/ GuestReports(v)
  PROVE  NInv'
<1>1. CASE Initialize
  <2>1. stuck' \subseteq stuck
    BY <1>1 DEF Initialize, Exchanged
  <2> QED
    BY <1>1, <2>1, StayKeeps, SameNames, UiNames DEF Initialize, diskVars
<1>2. CASE \E v \in VMs : GuestReports(v)
  BY <1>2, StayKeeps, SameNames, UiNames DEF GuestReports, hostVars, diskVars
<1>3. ASSUME NEW v \in VMs, GuestExits(v) PROVE NInv'
  <2>1. /\ UNCHANGED <<storeVars, adapter, main, worker>> /\ sys[v].st = "running"
        /\ sys'[v] = NoSystem /\ \A u \in VMs \ {v} : sys'[u] = sys[u]
        /\ stuck' \subseteq stuck \cup ({sys[v].ep} \ {None})
    BY <1>3, Types DEF GuestExits, DisksTyped, diskVars
  <2>2. NoSystem.ep = None /\ NoSystem.st # "running"
    BY DEF NoSystem
  <2>3. \A u \in VMs : EndpointsOf(u)' \subseteq EndpointsOf(u) \cup {None}
    BY <2>1, <2>2, StayKeeps, SameNames, SameOwn, KeptNames
  <2>4. ASSUME NEW u \in VMs \ {v} PROVE SecondTry(u)'
    <3>1. worker[u].ep \in EndpointsOf(u) /\ sys[v].ep \in EndpointsOf(v)
      BY TheirEndpoints
    <3>2. worker[u].ep \in stuck' => worker[u].ep \in stuck
      BY <2>1, <3>1 DEF NInv, EndpointsApart
    <3> QED
      BY <2>1, <3>2, TryApart DEF NInv
  <2>5. SecondTry(v)'
    BY <2>1 DEF NInv, SecondTry, OnNetwork
  <2> QED
    BY <2>3, <2>4, <2>5, StayApart DEF NInv
<1>4. CASE Kill
  <2>1. /\ stuck' = stuck /\ sys' = sys /\ adapter' = adapter /\ main' = Idle
        /\ \A u \in VMs : worker'[u] = NoWorker
    BY <1>4 DEF Kill, hostVars, diskVars
  <2>2. Content' = Torn \/ Content' = Content
    <3>1. CASE pen # NoPen
      BY <3>1, <1>4, LostIs DEF Kill
    <3>2. CASE pen = NoPen
      BY <3>2, <1>4 DEF Kill, Content
    <3> QED
      BY <3>1, <3>2
  <2>3. ASSUME NEW u \in VMs PROVE OwnNames(u) /\ Written(u) /\ MainKeeps(u)
    <3>1. OwnNames(u)
      BY <2>1, NoWorkerIs DEF OwnNames
    <3>2. Written(u)
      BY <2>2, TheirEndpoints DEF Written, Recorded
    <3> QED
      BY <2>1, <3>1, <3>2, IdleKeeps
  <2>4. \A u \in VMs : EndpointsOf(u)' \subseteq EndpointsOf(u) \cup {None}
    BY <2>1, <2>3, KeptNames
  <2>5. \A u \in VMs : SecondTry(u)'
    BY <2>1, NoWorkerIs, TryOver DEF BeforeNetwork, OnNetwork
  <2> QED
    BY <2>4, <2>5, StayApart DEF NInv
<1> QED
  BY <1>1, <1>2, <1>3, <1>4

LEMMA InitEndpoints ==
  ASSUME Init
  PROVE  NInv
<1>1. ASSUME NEW u \in VMs PROVE EndpointsOf(u) \subseteq {None} /\ SecondTry(u)
  <2>1. /\ worker[u].pc = "idle" /\ worker[u].ep = None /\ worker[u].m = None
        /\ sys[u].ep = None /\ adapter[u] = None
    BY NoWorkerIs DEF Init, NoSystem
  <2>2. main.vm = None /\ main.m = None /\ main.req = None /\ main.snap = None
    BY DEF Init, Idle
  <2>3. Content[u] # None => Content[u].ep = None
    BY DEF Init, Content, Fresh
  <2>4. \A m \in MappingsOf(u) : m = Content[u] /\ m # None
    BY <2>1, <2>2 DEF MappingsOf
  <2>5. EndpointsOf(u) \subseteq {None}
    BY <2>1, <2>3, <2>4 DEF EndpointsOf
  <2> QED
    BY <2>1, <2>5 DEF SecondTry, BeforeNetwork, OnNetwork
<1> QED
  BY <1>1 DEF NInv, EndpointsApart

LEMMA NextEndpoints ==
  ASSUME TInv, NInv, [Next]_vars
  PROVE  NInv'
<1>1. CASE Next
  <2>1. CASE Main \/ Tick
    BY <2>1, EndpointsOfEdit, EndpointsOfRefresh DEF Main
  <2> QED
    BY <1>1, <2>1, EndpointsOfWorker, EndpointsOfStore, EndpointsOfUser, EndpointsOfHost DEF Next
<1>2. CASE UNCHANGED vars
  BY <1>2, StayKeeps, SameNames, UiNames DEF vars, hostVars, diskVars
<1> QED
  BY <1>1, <1>2

-----------------------------------------------------------------------------
(* A start fails for a reason.                                             *)

Starting == {"net", "record", "dhcp", "system", "boot"}

LEMMA FaultCounts ==
  ASSUME TInv, Fault
  PROVE  faults' # faults
<1>1. faults \in Nat /\ faults' = faults + 1
  BY Types, ConstantsAssumption DEF Fault
<1> QED
  BY <1>1

\* A start that ends with no call failing.
LEMMA StartEnds ==
  ASSUME TInv, NInv, NEW v \in VMs, Worker(v), faults' = faults,
         worker[v].pc \in Starting, worker'[v].pc \in {"idle", "undo"}
  PROVE  \/ sys'[v].st = "running"
         \/ CannotSave
         \/ worker[v].pc = "boot" /\ sys[v].st # "created"
<1>0. /\ worker \in [VMs -> Workers] /\ worker[v] \in Workers
      /\ sys \in [VMs -> Systems] /\ sys[v] \in Systems
      /\ stuck \subseteq Endpoints /\ ~Fault
      /\ {"system", "dhcp", "boot"} \subseteq WorkerSteps
  BY Types, FaultCounts DEF DisksTyped, SetsTyped, WorkerSteps
<1>1. ASSUME NEW step \in {"system", "dhcp", "boot"}, Goes(v, step) PROVE FALSE
  <2>1. worker'[v].pc = step
    BY <1>0, <1>1, GoesIs DEF Moves
  <2> QED
    BY <2>1
<1>2. ~StartOffNetwork(v)
  BY <1>1 DEF StartOffNetwork
<1>3. ~StartReuses(v)
  <2>1. SUFFICES ASSUME StartReuses(v) PROVE worker'[v].pc = "dhcp"
    OBVIOUS
  <2> QED
    BY <1>0, <2>1 DEF StartReuses, Workers
<1>4. ~StartCreatesEndpoint(v)
  <2>1. SUFFICES ASSUME StartCreatesEndpoint(v) PROVE worker'[v].pc = "record"
    OBVIOUS
  <2>2. PICK e \in NewEndpoints : worker' = [worker EXCEPT ![v].ep = e, ![v].pc = "record"]
    BY <1>0, <2>1 DEF StartCreatesEndpoint
  <2> QED
    BY <1>0, <2>2 DEF Workers
<1>5. StartRecords(v) => CannotSave
  BY <1>1 DEF StartRecords
<1>6. ~StartRegistersAddress(v)
  BY <1>0, <1>1 DEF StartRegistersAddress
<1>7. ~StartPreparesSystem(v)
  <2>1. SUFFICES ASSUME StartPreparesSystem(v) PROVE FALSE
    OBVIOUS
  <2>2. At(v, "system") /\ worker[v].ep \in stuck /\ EndpointBusy(v)
    BY <1>0, <1>1, <2>1 DEF StartPreparesSystem
  <2>3. worker[v].ep # None
    BY <1>0, <2>2, ConstantsAssumption
  <2>4. ~worker[v].again
    BY <2>2 DEF NInv, SecondTry, At, OnNetwork
  <2>5. worker' = [worker EXCEPT ![v].again = TRUE, ![v].pc = "net"]
    BY <2>2, <2>3, <2>4 DEF EndpointBusy
  <2>6. worker'[v].pc = "net"
    BY <1>0, <2>5 DEF Workers
  <2> QED
    BY <2>6
<1>8. CASE StartBoots(v)
  <2>1. worker[v].pc = "boot"
    BY <1>8 DEF StartBoots, At
  <2>2. CASE sys' = [sys EXCEPT ![v].st = "running"]
    BY <1>0, <2>2 DEF Systems
  <2> QED
    BY <1>0, <1>8, <2>1, <2>2 DEF StartBoots
<1> QED
  BY <1>2, <1>3, <1>4, <1>5, <1>6, <1>7, <1>8
  DEF Worker, Starting, CreateChecks, CreateFiles, CreateSystem, CreateRegisters,
      CreateRollsBack, BuildContinues, StartReads, AwaitNothing, AwaitAddress, AwaitPort,
      AwaitGuest, AwaitCloudInit, BuildStops, BuildUndoes, BuildRemoves, BuildForgets, At

\* Only its own worker ends a start, unless a write fails or VMLord is killed.
LEMMA WhoEnds ==
  ASSUME TInv, Next, NEW v \in VMs, faults' = faults,
         worker[v].pc \in Starting, worker'[v].pc \in {"idle", "undo"}
  PROVE  Worker(v)
<1>0. ~Fault /\ worker'[v] # worker[v] /\ worker[v].pc # "idle"
  BY FaultCounts DEF Starting
<1>1. \A u \in VMs \ {v} : ~Worker(u)
  BY <1>0, WorkerCopies
<1>2. ASSUME NEW u \in VMs, User(u) PROVE FALSE
  <2>1. CASE CreateVm(u) \/ StartVm(u)
    <3>1. u # v
      BY <1>0, <2>1 DEF CreateVm, StartVm, Unoccupied
    <3>2. \A w \in VMs \ {u} : worker'[w] = worker[w]
      BY <2>1, CreateVmIs, StartVmIs DEF Begins
    <3> QED
      BY <1>0, <3>1, <3>2
  <2> QED
    BY <1>0, <1>2, <2>1 DEF User, CancelBuild, UpdateVm, DeleteVm
<1>3. ~Kill /\ ~WriteFails
  BY <1>0 DEF Kill, WriteFails
<1>4. ~(WriteOut \/ Tick \/ Initialize \/ \E u \in VMs : GuestExits(u) \/ GuestReports(u))
  BY <1>0 DEF WriteOut, Tick, Initialize, GuestExits, GuestReports
<1>5. ~Main
  BY <1>0 DEF Main, UpdateGrows, RecordDiskSize, UpdateConfigures, RecordNetworkMode,
              RecordGpuMode, RecordField, MoveSshPort, RecordSshPort, UpdateReturns,
              DeleteRemoves, DeleteReturns, ListVms, ListDesktops, RecordDesktop, EndRefresh
<1> QED
  BY <1>1, <1>2, <1>3, <1>4, <1>5 DEF Next

\* No start fails because HNS still holds the VM's endpoint: a start ends with
\* the VM running, because a call failed, because the document does not parse, or
\* because somebody else has dealt with the compute system in between.  A second
\* attempt is on an endpoint that nothing else has (Uuid::new_v4), so that no
\* other VM's exit can make HNS hold it.
THEOREM StartsFailForReasons == Spec => StartsFailForAReason
<1>1. Init => TInv /\ NInv
  BY InitTypes, InitEndpoints
<1>2. (TInv /\ NInv) /\ [Next]_vars => (TInv /\ NInv)'
  BY NextTypes, NextEndpoints
<1>3. (TInv /\ NInv) /\ [Next]_vars =>
        [\A v \in VMs :
           /\ worker[v].pc \in {"net", "record", "dhcp", "system", "boot"}
           /\ worker'[v].pc \in {"idle", "undo"}
           /\ phase' = phase /\ faults' = faults
           => \/ sys'[v].st = "running"
              \/ CannotSave
              \/ worker[v].pc = "boot" /\ sys[v].st # "created"]_vars
  BY StartEnds, WhoEnds DEF Starting
<1> QED
  BY <1>1, <1>2, <1>3, PTL DEF Spec, StartsFailForAReason

-----------------------------------------------------------------------------
(* The endpoint a running VM is attached to.                               *)

\* The mapping of v, while there is one, names this endpoint.
Named(v, e) == Recorded(v) => Content[v].ep = e

\* A start until its VM runs; what a build does before its VM has run or after
\* it has stopped it.
ToBoot == {"read", "net", "record", "dhcp", "system", "boot"}
NotUp  == CreateSteps \cup {"built", "undo", "remove", "forget"}

\* A running VM has a mapping, no build of it is before its boot or after its
\* end, and its endpoint is in HNS, is the recorded one and is not replaced.
RunInv(v) ==
  sys[v].st = "running" =>
    /\ Content = Torn \/ Recorded(v)
    /\ worker[v].pc \notin NotUp
    /\ worker[v].pc \in ToBoot => ~worker[v].build
    /\ sys[v].ep # None =>
         /\ sys[v].ep \in hns /\ Named(v, sys[v].ep)
         /\ worker[v].pc = "record" => Content = Torn

\* A start works from the recorded endpoint, has made the one it is to record,
\* is then on the recorded one, and builds the system with it.
StartInv(v) ==
  /\ worker[v].pc = "net" /\ ~worker[v].again => Named(v, worker[v].m.ep)
  /\ worker[v].pc = "record" => worker[v].ep \in hns
  /\ worker[v].pc \in {"dhcp", "system", "boot"} /\ worker[v].ep # None =>
       worker[v].ep \in hns /\ Named(v, worker[v].ep)
  /\ worker[v].pc = "boot" /\ sys[v].st = "created" => sys[v].ep = worker[v].ep

Attached(v) == RunInv(v) /\ StartInv(v)

\* An edit writes back the endpoint that is recorded; a process that has not
\* initialized has no start under way, whose endpoint would be an orphan.
CopyInv  == main.pc \in EditSteps => Named(main.vm, main.m.ep)
FreshInv == phase = "fresh" => \A v \in VMs : worker[v].pc = "idle"

AInv == (\A v \in VMs : Attached(v)) /\ CopyInv /\ FreshInv

\* The document keeps the endpoint of u, unless it is lost as a whole.
EndpointHeld(u) ==
  /\ Content = Torn => Content' = Torn
  /\ Recorded(u) => Content' = Torn \/ (Recorded(u)' /\ Content'[u].ep = Content[u].ep)

\* HNS keeps the endpoints u's system and start are on.
HnsKeeps(u) == \A e \in {sys[u].ep, worker[u].ep} : e # None /\ e \in hns => e \in hns'

LEMMA HeldEndpoint ==
  ASSUME NEW u, Held(u)
  PROVE  EndpointHeld(u)
BY DEF Held, EndpointHeld, Recorded

LEMMA NamedStill ==
  ASSUME NEW u, NEW e, Named(u, e), EndpointHeld(u), Content = Torn \/ Recorded(u)
  PROVE  Named(u, e)'
BY DEF Named, EndpointHeld, Recorded

LEMMA NotRunning ==
  ASSUME NEW v, sys'[v].st # "running"
  PROVE  RunInv(v)'
BY DEF RunInv

LEMMA StartOver ==
  ASSUME NEW v, worker'[v].pc \notin {"net", "record", "dhcp", "system", "boot"}
  PROVE  StartInv(v)'
BY DEF StartInv

\* A VM that goes on running, wherever its worker goes to.
LEMMA RunsOn ==
  ASSUME NEW v, RunInv(v), sys'[v] = sys[v], EndpointHeld(v),
         sys[v].st = "running" =>
           /\ worker'[v].pc \notin NotUp
           /\ worker'[v].pc \in ToBoot => ~worker'[v].build
           /\ sys[v].ep # None =>
                /\ sys[v].ep \in hns => sys[v].ep \in hns'
                /\ worker'[v].pc = "record" => Content' = Torn
  PROVE  RunInv(v)'
<1>1. SUFFICES ASSUME sys[v].st = "running" PROVE RunInv(v)'
  BY DEF RunInv
<1>2. Content = Torn \/ Recorded(v)
  BY <1>1 DEF RunInv
<1>3. Content' = Torn \/ Recorded(v)'
  BY <1>2 DEF EndpointHeld
<1>4. sys[v].ep # None => sys[v].ep \in hns' /\ Named(v, sys[v].ep)'
  BY <1>1, <1>2, NamedStill DEF RunInv
<1> QED
  BY <1>1, <1>3, <1>4 DEF RunInv, Named

\* A VM that a step is apart from, or that stops.
LEMMA AttachedStill ==
  ASSUME NEW u \in VMs, RecordsOf(u), Attached(u), hns \subseteq Endpoints,
         worker'[u] = worker[u], sys'[u] = sys[u] \/ sys'[u] = NoSystem,
         EndpointHeld(u), HnsKeeps(u)
  PROVE  Attached(u)'
<1>1. RunInv(u)'
  <2>1. CASE sys'[u] = NoSystem
    BY <2>1, NotRunning DEF NoSystem
  <2>2. CASE sys'[u] = sys[u]
    <3>1. worker[u].pc = "record" /\ Content = Torn => Content' = Torn
      BY DEF EndpointHeld
    <3>2. sys[u].ep # None /\ sys[u].ep \in hns => sys[u].ep \in hns'
      BY DEF HnsKeeps
    <3> QED
      BY <2>2, <3>1, <3>2, RunsOn DEF Attached, RunInv
  <2> QED
    BY <2>1, <2>2
<1>2. worker[u].ep # None /\ worker[u].ep \in hns => worker[u].ep \in hns'
  BY DEF HnsKeeps
<1>3. worker[u].pc \in {"net", "dhcp", "system", "boot"} => Content = Torn \/ Recorded(u)
  BY DEF RecordsOf, Stages, StartSteps
<1>4. worker[u].pc = "net" /\ ~worker[u].again => Named(u, worker[u].m.ep)'
  BY <1>3, NamedStill DEF Attached, StartInv
<1>5. worker[u].pc \in {"dhcp", "system", "boot"} /\ worker[u].ep # None =>
        worker[u].ep \in hns' /\ Named(u, worker[u].ep)'
  BY <1>2, <1>3, NamedStill DEF Attached, StartInv
<1>6. worker[u].pc = "record" => worker[u].ep \in hns'
  BY <1>2, ConstantsAssumption DEF Attached, StartInv
<1>7. sys'[u].st = "created" => sys'[u] = sys[u]
  BY DEF NoSystem
<1>8. StartInv(u)'
  BY <1>4, <1>5, <1>6, <1>7 DEF Attached, StartInv, Named
<1> QED
  BY <1>1, <1>8 DEF Attached

-----------------------------------------------------------------------------
(* The endpoint of a running VM: the steps of a worker.                    *)

\* A worker deletes no endpoint but one of its own VM's.
LEMMA OwnDeleted ==
  ASSUME TInv, NEW v \in VMs, Worker(v)
  PROVE  \E e \in EndpointsOf(v) : hns \ {e} \subseteq hns'
<1>1. CASE hns' = hns
  BY <1>1, TheirEndpoints
<1>2. CASE StartCreatesEndpoint(v)
  <2>1. hns \ {worker[v].ep} \subseteq hns'
    BY <1>2 DEF StartCreatesEndpoint, Exchanged
  <2> QED
    BY <2>1, TheirEndpoints
<1>3. CASE BuildUndoes(v) /\ hns' # hns
  <2>1. Readable /\ doc[v] # None /\ hns \ {doc[v].ep} \subseteq hns'
    BY <1>3 DEF BuildUndoes, Teardown, hostVars
  <2>2. doc[v].ep \in EndpointsOf(v)
    BY <2>1, ReadableIs, TheirEndpoints DEF Recorded
  <2> QED
    BY <2>1, <2>2
<1> QED
  BY <1>1, <1>2, <1>3
  DEF Worker, CreateChecks, CreateFiles, CreateSystem, CreateRegisters, CreateRollsBack,
      BuildContinues, StartReads, StartOffNetwork, StartReuses, StartRecords,
      StartRegistersAddress, StartPreparesSystem, StartBoots, AwaitNothing,
      AwaitAddress, AwaitPort, AwaitGuest, AwaitCloudInit, BuildStops,
      BuildRemoves, BuildForgets, hostVars

LEMMA OthersKeep ==
  ASSUME EndpointsApart, NEW v \in VMs, NEW e \in EndpointsOf(v), hns \ {e} \subseteq hns'
  PROVE  \A u \in VMs \ {v} : HnsKeeps(u)
<1>1. \A u \in VMs \ {v} : sys[u].ep \in EndpointsOf(u) /\ worker[u].ep \in EndpointsOf(u)
  BY TheirEndpoints
<1> QED
  BY <1>1 DEF HnsKeeps, EndpointsApart

\* A start that fails under a VM that runs is not a build's, so that nothing is
\* rolled back.
LEMMA FailAttached ==
  ASSUME TInv, NEW v \in VMs, Attached(v), worker[v].pc \in ToBoot, StartFails(v),
         sys'[v] = sys[v] \/ sys'[v].st # "running", EndpointHeld(v),
         sys[v].st = "running" /\ sys[v].ep # None /\ sys[v].ep \in hns => sys[v].ep \in hns'
  PROVE  Attached(v)'
<1>1. /\ worker'[v].pc \in {"idle", "undo"}
      /\ worker'[v].pc = "undo" => worker[v].build
  BY Types, StartFailsIs DEF Moves, Stops
<1>2. StartInv(v)'
  BY <1>1, StartOver
<1>3. sys[v].st = "running" => worker'[v].pc = "idle"
  BY <1>1 DEF Attached, RunInv
<1>4. RunInv(v)'
  <2>1. CASE sys'[v].st # "running"
    BY <2>1, NotRunning
  <2>2. CASE sys'[v] = sys[v]
    BY <1>3, <2>2, RunsOn DEF Attached, NotUp, CreateSteps, ToBoot
  <2> QED
    BY <2>1, <2>2
<1> QED
  BY <1>2, <1>4 DEF Attached

\* The steps of a build before its start and after its end: the VM is not up.
LEMMA NotUpAttached ==
  ASSUME TInv, NEW v \in VMs, Attached(v),
         CreateChecks(v) \/ CreateFiles(v) \/ CreateSystem(v) \/ CreateRegisters(v)
         \/ CreateRollsBack(v) \/ BuildContinues(v)
         \/ BuildStops(v) \/ BuildUndoes(v) \/ BuildRemoves(v) \/ BuildForgets(v),
         BuildStops(v) => sys'[v].st # "running"
  PROVE  Attached(v)'
<1>0. /\ worker \in [VMs -> Workers] /\ sys \in [VMs -> Systems]
      /\ {"create", "rollback", "built", "undo", "read", "remove", "forget"} \subseteq WorkerSteps
      /\ NoSystem.st # "running"
  BY Types DEF DisksTyped, WorkerSteps, NoSystem
<1>1. sys'[v].st # "running"
  <2>1. CASE BuildStops(v)
    BY <2>1
  <2>2. CASE ~BuildStops(v)
    <3>1. worker[v].pc \in NotUp
      BY <2>2
      DEF CreateChecks, CreateFiles, CreateSystem, CreateRegisters, CreateRollsBack,
          BuildContinues, BuildUndoes, BuildRemoves, BuildForgets, At, NotUp, CreateSteps
    <3>2. sys[v].st # "running"
      BY <3>1 DEF Attached, RunInv
    <3>3. \/ sys' = sys \/ sys' = [sys EXCEPT ![v] = NoSystem]
          \/ sys' = [sys EXCEPT ![v] = [st |-> "created", ep |-> None]]
      BY <2>2
      DEF CreateChecks, CreateFiles, CreateSystem, CreateRegisters, CreateRollsBack,
          BuildContinues, BuildUndoes, BuildRemoves, BuildForgets, Teardown, hostVars
    <3> QED
      BY <1>0, <3>2, <3>3
  <2> QED
    BY <2>1, <2>2
<1>2. worker'[v].pc \notin {"net", "record", "dhcp", "system", "boot"}
  <2>1. CASE Ends(v)
    BY <1>0, <2>1, EndsIs DEF Stops
  <2>2. CASE \E step \in {"create", "rollback", "built", "undo", "read", "remove", "forget"} :
               Goes(v, step)
    BY <1>0, <2>2, GoesIs DEF Moves
  <2>3. CASE worker' = [worker EXCEPT ![v].pc = "files", ![v].m = Fresh(v)]
    BY <1>0, <2>3 DEF Workers
  <2>4. CASE worker' = [worker EXCEPT ![v].pc = "register", ![v].made = TRUE]
    BY <1>0, <2>4 DEF Workers
  <2>5. CASE CreateChecks(v) \/ CreateFiles(v) \/ CreateRegisters(v) \/ CreateRollsBack(v)
    BY <2>5, <2>1, <2>2, <2>3 DEF CreateChecks, CreateFiles, CreateRegisters, CreateRollsBack
  <2>6. CASE CreateSystem(v)
    BY <2>6, <2>2, <2>4 DEF CreateSystem
  <2>7. CASE BuildContinues(v) \/ BuildStops(v) \/ BuildUndoes(v) \/ BuildRemoves(v)
             \/ BuildForgets(v)
    BY <2>7, <2>1, <2>2 DEF BuildContinues, BuildStops, BuildUndoes, BuildRemoves, BuildForgets
  <2> QED
    BY <2>5, <2>6, <2>7
<1> QED
  BY <1>1, <1>2, NotRunning, StartOver DEF Attached

\* The wait for the guest only moves the worker.
LEMMA AwaitAttached ==
  ASSUME TInv, NEW v \in VMs, Attached(v),
         AwaitNothing(v) \/ AwaitAddress(v) \/ AwaitPort(v) \/ AwaitCloudInit(v)
  PROVE  Attached(v)'
<1>0. /\ worker \in [VMs -> Workers] /\ {"port", "cloud", "stop"} \subseteq WorkerSteps
  BY Types DEF WorkerSteps
<1>1. /\ UNCHANGED <<storeVars, hostVars>>
      /\ Ends(v) \/ \E step \in {"port", "cloud", "stop"} : Goes(v, step)
  BY DEF AwaitNothing, AwaitAddress, AwaitPort, AwaitGuest, AwaitCloudInit
<1>2. worker'[v].pc \in {"idle", "port", "cloud", "stop"}
  BY <1>0, <1>1, EndsIs, GoesIs DEF Stops, Moves
<1>3. StartInv(v)'
  BY <1>2, StartOver
<1>4. EndpointHeld(v) /\ sys' = sys /\ hns' = hns
  BY <1>1, SameHolds, HeldEndpoint DEF hostVars
<1>5. RunInv(v)'
  BY <1>2, <1>4, RunsOn DEF Attached, NotUp, CreateSteps, ToBoot
<1> QED
  BY <1>3, <1>5 DEF Attached

\* A start goes on to its next step, and the VM with what it does.
LEMMA StartsOn ==
  ASSUME NEW v \in VMs, Attached(v), worker[v].pc \in ToBoot, worker'[v].pc \in ToBoot \ {"record"},
         worker'[v].build = worker[v].build, sys'[v] = sys[v], hns' = hns, EndpointHeld(v)
  PROVE  RunInv(v)'
BY RunsOn DEF Attached, RunInv, NotUp, CreateSteps, ToBoot

LEMMA NetworkAttached ==
  ASSUME TInv, NEW v \in VMs, RecordsOf(v), SecondTry(v), Attached(v),
         StartReads(v) \/ StartOffNetwork(v) \/ StartReuses(v)
  PROVE  Attached(v)'
<1>0. /\ worker \in [VMs -> Workers] /\ worker[v] \in Workers /\ "system" \in WorkerSteps
      /\ worker[v].pc \in {"read", "net"} /\ worker[v].pc \in ToBoot
  BY Types DEF WorkerSteps, ToBoot, StartReads, StartOffNetwork, StartReuses, At
<1>1. EndpointHeld(v) /\ sys' = sys /\ hns' = hns /\ Content' = Content
  BY SameStore, SameHolds, HeldEndpoint
  DEF StartReads, StartOffNetwork, StartReuses, hostVars
<1>2. CASE StartReads(v)
  <2>1. CASE Readable /\ doc[v] # None
             /\ worker' = [worker EXCEPT ![v].pc = "net", ![v].m = doc[v]]
    <3>1. /\ worker'[v].pc = "net" /\ worker'[v].m = doc[v]
          /\ worker'[v].build = worker[v].build
      BY <1>0, <2>1 DEF Workers
    <3>2. Content' = doc
      BY <1>1, <2>1, ReadableIs
    <3>3. StartInv(v)'
      BY <3>1, <3>2 DEF StartInv, Named
    <3>4. RunInv(v)'
      BY <1>0, <1>1, <3>1, StartsOn DEF ToBoot
    <3> QED
      BY <3>3, <3>4 DEF Attached
  <2>2. CASE StartFails(v)
    BY <1>0, <1>1, <2>2, FailAttached
  <2> QED
    BY <1>2, <2>1, <2>2 DEF StartReads
<1>3. CASE StartOffNetwork(v)
  <2>1. Moves(v, "system") /\ worker[v].ep = None
    BY <1>0, <1>3, GoesIs DEF StartOffNetwork, At, SecondTry, OnNetwork
  <2>2. RunInv(v)'
    BY <1>0, <1>1, <2>1, StartsOn DEF Moves, ToBoot
  <2>3. StartInv(v)'
    BY <2>1 DEF Moves, StartInv
  <2> QED
    BY <2>2, <2>3 DEF Attached
<1>4. CASE StartReuses(v)
  <2>1. /\ worker'[v].pc = "dhcp" /\ worker'[v].build = worker[v].build
        /\ worker'[v].ep = worker[v].m.ep /\ worker[v].m.ep \in hns
        /\ worker[v].pc = "net" /\ ~worker[v].again
    BY <1>0, <1>4 DEF StartReuses, Workers, HnsHas, At
  <2>2. RunInv(v)'
    BY <1>0, <1>1, <2>1, StartsOn DEF ToBoot
  <2>3. Named(v, worker[v].ep)'
    BY <1>1, <2>1 DEF Attached, StartInv, Named, Recorded
  <2>4. StartInv(v)'
    BY <1>1, <2>1, <2>3 DEF StartInv, Named
  <2> QED
    BY <2>2, <2>4 DEF Attached
<1> QED
  BY <1>2, <1>3, <1>4

\* A VM that runs on an endpoint the document names finds that endpoint in HNS,
\* so no other is made for it.
LEMMA EndpointAttached ==
  ASSUME TInv, NEW v \in VMs, RecordsOf(v), SecondTry(v), Attached(v), StartCreatesEndpoint(v)
  PROVE  Attached(v)'
<1>0. /\ worker \in [VMs -> Workers] /\ worker[v] \in Workers
      /\ worker[v].pc = "net" /\ worker[v].pc \in ToBoot
  BY Types DEF ToBoot, StartCreatesEndpoint, At
<1>1. EndpointHeld(v) /\ sys' = sys /\ Content' = Content
  BY SameStore, SameHolds, HeldEndpoint DEF StartCreatesEndpoint
<1>2. sys[v].st = "running" => ~worker[v].again /\ ~HnsHas(worker[v].m.ep) /\ hns \subseteq hns'
  BY <1>0 DEF StartCreatesEndpoint, SecondTry, OnNetwork, Exchanged
<1>3. sys[v].st = "running" /\ sys[v].ep # None => Content = Torn
  <2>1. SUFFICES ASSUME sys[v].st = "running", sys[v].ep # None, Content # Torn PROVE FALSE
    OBVIOUS
  <2>2. Recorded(v) /\ Named(v, sys[v].ep) /\ sys[v].ep \in hns
    BY <2>1 DEF Attached, RunInv
  <2>3. Named(v, worker[v].m.ep)
    BY <1>0, <1>2, <2>1 DEF Attached, StartInv
  <2> QED
    BY <1>2, <2>1, <2>2, <2>3 DEF Named, HnsHas
<1>4. CASE StartFails(v)
  BY <1>0, <1>1, <1>2, <1>4, FailAttached
<1>5. ASSUME NEW e \in NewEndpoints, worker' = [worker EXCEPT ![v].ep = e, ![v].pc = "record"],
             e \in hns'
      PROVE  Attached(v)'
  <2>1. /\ worker'[v].pc = "record" /\ worker'[v].ep = e /\ worker'[v].build = worker[v].build
    BY <1>0, <1>5 DEF Workers
  <2>2. StartInv(v)'
    BY <1>5, <2>1 DEF StartInv
  <2>3. sys[v].st = "running" => ~worker[v].build
    BY <1>0 DEF Attached, RunInv
  <2>4. RunInv(v)'
    BY <1>1, <1>2, <1>3, <2>1, <2>3, RunsOn DEF Attached, NotUp, CreateSteps
  <2> QED
    BY <2>2, <2>4 DEF Attached
<1> QED
  BY <1>4, <1>5 DEF StartCreatesEndpoint, Exchanged

LEMMA RecordAttached ==
  ASSUME TInv, NEW v \in VMs, RecordsOf(v), Attached(v),
         StartRecords(v) \/ StartRegistersAddress(v)
  PROVE  Attached(v)'
<1>0. /\ worker \in [VMs -> Workers] /\ worker[v] \in Workers
      /\ {"dhcp", "system"} \subseteq WorkerSteps
      /\ worker[v].pc \in {"record", "dhcp"} /\ worker[v].pc \in ToBoot
      /\ sys' = sys /\ hns' = hns
  BY Types DEF WorkerSteps, ToBoot, StartRecords, StartRegistersAddress, At, hostVars
<1>1. CASE UNCHANGED storeVars /\ StartFails(v)
  BY <1>0, <1>1, SameHolds, HeldEndpoint, FailAttached
<1>2. CASE StartRegistersAddress(v) /\ Goes(v, "system")
  <2>1. Moves(v, "system") /\ Content' = Content /\ EndpointHeld(v) /\ worker[v].pc = "dhcp"
    BY <1>0, <1>2, GoesIs, SameStore, SameHolds, HeldEndpoint DEF StartRegistersAddress, At
  <2>2. RunInv(v)'
    BY <1>0, <2>1, StartsOn DEF Moves, ToBoot
  <2>3. StartInv(v)'
    BY <1>0, <2>1 DEF Moves, Attached, StartInv, Named, Recorded
  <2> QED
    BY <2>2, <2>3 DEF Attached
<1>3. CASE /\ At(v, "record") /\ Save(v, v, [worker[v].m EXCEPT !.ep = worker[v].ep])
           /\ Goes(v, "dhcp")
  <2> DEFINE n == [worker[v].m EXCEPT !.ep = worker[v].ep]
  <2>1. worker[v].m \in Mappings /\ worker[v].pc = "record"
    BY <1>3, CopyTyped DEF At, CopySteps
  <2>2. n \in Mappings /\ n.ep = worker[v].ep
    BY <1>0, <2>1 DEF Mappings, Workers
  <2>3. Save(v, v, n)
    BY <1>3
  <2> HIDE DEF n
  <2>4. Content # Torn /\ Content' # Torn /\ Content'[v] = n
    BY <2>2, <2>3, SaveIs DEF Threads
  <2>5. Recorded(v)' /\ Content'[v].ep = worker[v].ep
    BY <2>2, <2>4, ConstantsAssumption DEF Recorded
  <2>6. Moves(v, "dhcp")
    BY <1>0, <1>3, GoesIs
  <2>7. StartInv(v)'
    BY <1>0, <2>1, <2>5, <2>6 DEF Moves, Attached, StartInv, Named
  <2>8. RunInv(v)'
    <3>1. sys[v].st = "running" => sys[v].ep = None /\ ~worker[v].build
      BY <1>0, <2>1, <2>4 DEF Attached, RunInv
    <3> QED
      BY <1>0, <2>5, <2>6, <3>1 DEF Moves, RunInv, NotUp, CreateSteps
  <2> QED
    BY <2>7, <2>8 DEF Attached
<1> QED
  BY <1>1, <1>2, <1>3 DEF StartRecords, StartRegistersAddress

LEMMA SystemAttached ==
  ASSUME TInv, NEW v \in VMs, RecordsOf(v), Attached(v), StartPreparesSystem(v)
  PROVE  Attached(v)'
<1>0. /\ worker \in [VMs -> Workers] /\ worker[v] \in Workers /\ "boot" \in WorkerSteps
      /\ sys \in [VMs -> Systems] /\ NoSystem.st = "absent"
      /\ worker[v].pc = "system" /\ worker[v].pc \in ToBoot /\ hns' = hns
      /\ EndpointHeld(v) /\ Content' = Content
  BY Types, SameStore, SameHolds, HeldEndpoint
  DEF DisksTyped, WorkerSteps, NoSystem, ToBoot, StartPreparesSystem, At
<1>1. CASE StartFails(v)
  <2>1. \/ sys' = sys \/ sys' = [sys EXCEPT ![v] = NoSystem]
        \/ sys' = [sys EXCEPT ![v] = [st |-> "created", ep |-> worker[v].ep]]
    BY DEF StartPreparesSystem
  <2>2. sys'[v] = sys[v] \/ sys'[v].st # "running"
    BY <1>0, <2>1
  <2> QED
    BY <1>0, <1>1, <2>2, FailAttached
<1>2. CASE sys[v].st = "running" /\ Goes(v, "boot") /\ sys' = sys
  <2>1. Moves(v, "boot")
    BY <1>0, <1>2, GoesIs
  <2>2. RunInv(v)'
    BY <1>0, <1>2, <2>1, StartsOn DEF Moves, ToBoot
  <2>3. StartInv(v)'
    BY <1>0, <1>2, <2>1 DEF Moves, Attached, StartInv, Named, Recorded
  <2> QED
    BY <2>2, <2>3 DEF Attached
<1>3. CASE /\ sys' = [sys EXCEPT ![v] = [st |-> "created", ep |-> worker[v].ep]]
           /\ Goes(v, "boot")
  <2>1. Moves(v, "boot") /\ sys'[v].st = "created" /\ sys'[v].ep = worker[v].ep
    BY <1>0, <1>3, GoesIs
  <2>2. RunInv(v)'
    BY <2>1, NotRunning
  <2>3. StartInv(v)'
    BY <1>0, <2>1 DEF Moves, Attached, StartInv, Named, Recorded
  <2> QED
    BY <2>2, <2>3 DEF Attached
<1>4. CASE /\ sys' = [sys EXCEPT ![v] = NoSystem]
           /\ worker' = [worker EXCEPT ![v].again = TRUE, ![v].pc = "net"]
  <2>1. worker'[v].pc = "net" /\ worker'[v].again /\ sys'[v].st # "running"
    BY <1>0, <1>4 DEF Workers
  <2>2. RunInv(v)' /\ StartInv(v)'
    BY <2>1, NotRunning DEF StartInv
  <2> QED
    BY <2>2 DEF Attached
<1> QED
  BY <1>1, <1>2, <1>3, <1>4 DEF StartPreparesSystem, EndpointBusy

\* What boots is the system the start has built, on the endpoint that is recorded.
LEMMA BootAttached ==
  ASSUME TInv, NEW v \in VMs, RecordsOf(v), Attached(v), StartBoots(v)
  PROVE  Attached(v)'
<1>0. /\ worker \in [VMs -> Workers] /\ worker[v] \in Workers
      /\ sys \in [VMs -> Systems] /\ sys[v] \in Systems
      /\ worker[v].pc = "boot" /\ worker[v].pc \in ToBoot /\ hns' = hns
      /\ EndpointHeld(v) /\ Content' = Content
  BY Types, SameStore, SameHolds, HeldEndpoint DEF DisksTyped, ToBoot, StartBoots, At
<1>1. CASE StartFails(v) /\ sys' = sys
  BY <1>0, <1>1, FailAttached
<1>2. CASE /\ sys[v].st = "created" /\ sys' = [sys EXCEPT ![v].st = "running"]
           /\ \/ Ends(v)
              \/ worker' = [worker EXCEPT
                   ![v].pc = "address",
                   ![v].m  = IF Readable /\ doc[v] # None THEN doc[v] ELSE @]
  <2>1. worker'[v].pc \in {"idle", "address"}
    <3>1. CASE Ends(v)
      BY <1>0, <3>1, EndsIs DEF Stops
    <3>2. CASE worker' = [worker EXCEPT
                  ![v].pc = "address",
                  ![v].m  = IF Readable /\ doc[v] # None THEN doc[v] ELSE @]
      BY <1>0, <3>2 DEF Workers
    <3> QED
      BY <1>2, <3>1, <3>2
  <2>2. sys'[v].ep = sys[v].ep /\ sys[v].ep = worker[v].ep
    BY <1>0, <1>2 DEF Systems, Attached, StartInv
  <2>3. Content' = Torn \/ Recorded(v)'
    BY <1>0 DEF RecordsOf, Stages, StartSteps, Recorded
  <2>4. worker[v].ep # None => worker[v].ep \in hns /\ Named(v, worker[v].ep)
    BY <1>0 DEF Attached, StartInv
  <2>5. RunInv(v)'
    BY <1>0, <2>1, <2>2, <2>3, <2>4
    DEF RunInv, NotUp, CreateSteps, ToBoot, Named, Recorded
  <2>6. StartInv(v)'
    BY <2>1, StartOver
  <2> QED
    BY <2>5, <2>6 DEF Attached
<1> QED
  BY <1>1, <1>2 DEF StartBoots

LEMMA WorkerAttached ==
  ASSUME TInv, RInv, NInv, AInv, NEW v \in VMs, Worker(v),
         BuildStops(v) => sys'[v].st # "running"
  PROVE  AInv'
<1>0. /\ main' = main /\ worker[v].pc # "idle" /\ hns \subseteq Endpoints
      /\ \A u \in VMs \ {v} : EndpointHeld(u) /\ worker'[u] = worker[u] /\ sys'[u] = sys[u]
  BY WorkerHolds, WorkerCopies, WorkerHost, HeldEndpoint, Types DEF SetsTyped
<1>1. \A u \in VMs \ {v} : Attached(u)'
  BY <1>0, OwnDeleted, OthersKeep, TheirRecords, AttachedStill DEF NInv, AInv
<1>2. RecordsOf(v) /\ SecondTry(v) /\ Attached(v)
  BY TheirRecords DEF NInv, AInv
<1>3. Attached(v)'
  BY <1>2, NotUpAttached, AwaitAttached, NetworkAttached, EndpointAttached, RecordAttached,
     SystemAttached, BootAttached DEF Worker
<1>4. CopyInv'
  <2>1. SUFFICES ASSUME main.pc \in EditSteps PROVE Named(main.vm, main.m.ep)'
    BY <1>0 DEF CopyInv
  <2>2. main.vm \in VMs /\ worker[main.vm].pc = "idle" /\ (Content = Torn \/ Recorded(main.vm))
    BY <2>1, EditKnows
  <2>3. main.vm # v /\ Named(main.vm, main.m.ep)
    BY <1>0, <2>1, <2>2 DEF AInv, CopyInv
  <2> QED
    BY <1>0, <2>2, <2>3, NamedStill DEF Named
<1>5. FreshInv'
  <2>1. phase' = phase
    BY DEF Worker, CreateChecks, CreateFiles, CreateSystem, CreateRegisters, CreateRollsBack,
           BuildContinues, StartReads, StartOffNetwork, StartReuses, StartCreatesEndpoint,
           StartRecords, StartRegistersAddress, StartPreparesSystem, StartBoots, AwaitNothing,
           AwaitAddress, AwaitPort, AwaitGuest, AwaitCloudInit, BuildStops, BuildUndoes,
           BuildRemoves, BuildForgets, procVars
  <2> QED
    BY <1>0, <2>1 DEF AInv, FreshInv
<1> QED
  BY <1>1, <1>3, <1>4, <1>5 DEF AInv

-----------------------------------------------------------------------------
(* The endpoint of a running VM: the UI thread.                            *)

\* The edit goes on with the copy it has, or is over.
CopyKept ==
  main'.pc \in EditSteps =>
    main.pc \in EditSteps /\ main'.vm = main.vm /\ main'.m.ep = main.m.ep

LEMMA CopyStill ==
  ASSUME TInv, RInv, CopyInv, CopyKept, \A u \in VMs : EndpointHeld(u)
  PROVE  CopyInv'
<1>1. SUFFICES ASSUME main'.pc \in EditSteps PROVE Named(main.vm, main.m.ep)'
  BY DEF CopyInv
<1>2. /\ main.pc \in EditSteps /\ main'.vm = main.vm /\ main'.m.ep = main.m.ep
      /\ main.vm \in VMs /\ (Content = Torn \/ Recorded(main.vm))
  BY <1>1, EditKnows DEF CopyKept
<1>3. Named(main.vm, main.m.ep)
  BY <1>2 DEF CopyInv
<1> QED
  BY <1>2, <1>3, NamedStill DEF Named

\* A step of the UI thread that deletes no endpoint and begins no start.
LEMMA UiAttached ==
  ASSUME TInv, RInv, AInv, UNCHANGED <<worker, sys, hns>>, \A u \in VMs : EndpointHeld(u),
         CopyKept, phase' = "fresh" => phase = "fresh"
  PROVE  AInv'
<1>1. \A u \in VMs : HnsKeeps(u)
  BY DEF HnsKeeps
<1>2. hns \subseteq Endpoints
  BY Types DEF SetsTyped
<1>3. \A u \in VMs : Attached(u)'
  BY <1>1, <1>2, TheirRecords, AttachedStill DEF AInv
<1> QED
  BY <1>3, CopyStill DEF AInv, FreshInv

LEMMA LeavesCopy ==
  ASSUME Refused \/ Refreshes
  PROVE  CopyKept
BY RefusedIs, RefreshesIs DEF MainLeaves, CopyKept, EditSteps

LEMMA MovesCopy ==
  ASSUME NEW step, MainMoves(step), step \in EditSteps => main.pc \in EditSteps
  PROVE  CopyKept
BY DEF MainMoves, CopyKept

LEMMA EndpointsHeld ==
  ASSUME TInv, UNCHANGED storeVars
  PROVE  \A u \in VMs : EndpointHeld(u)
BY SameHolds, HeldEndpoint

\* What an edit writes back names the recorded endpoint.
LEMMA EditHoldsEndpoint ==
  ASSUME TInv, CopyInv, main.pc \in EditSteps, NEW f \in {"net", "gpu", "disk", "port"},
         Save("main", main.vm, [main.m EXCEPT ![f] = main.req[f]])
  PROVE  \A u \in VMs : EndpointHeld(u)
<1> DEFINE n == [main.m EXCEPT ![f] = main.req[f]]
<1>1. main.vm \in VMs /\ main.m \in Mappings /\ main.req \in Mappings
  BY EditTyped
<1>2. n \in Mappings /\ n.ep = main.m.ep
  BY <1>1 DEF Mappings
<1>3. Save("main", main.vm, n)
  OBVIOUS
<1> HIDE DEF n
<1>4. /\ Content # Torn /\ Content' # Torn /\ Content'[main.vm] = n
      /\ \A u \in VMs \ {main.vm} : Content'[u] = Content[u]
  BY <1>1, <1>2, <1>3, SaveIs DEF Threads
<1>5. n # None
  BY <1>2, ConstantsAssumption
<1> QED
  BY <1>2, <1>4, <1>5 DEF EndpointHeld, Recorded, CopyInv, Named

LEMMA EditAttached ==
  ASSUME TInv, RInv, AInv,
         UpdateGrows \/ RecordDiskSize \/ UpdateConfigures \/ RecordNetworkMode
         \/ RecordGpuMode \/ MoveSshPort \/ RecordSshPort \/ UpdateReturns
  PROVE  AInv'
<1>0. /\ main \in Mains /\ main.pc \in EditSteps
      /\ {"grown", "network", "gpu", "port", "moved", "accepted"} \subseteq MainSteps
  BY Types
  DEF MainSteps, EditSteps, UpdateGrows, RecordDiskSize, UpdateConfigures, RecordNetworkMode,
      RecordGpuMode, RecordField, MoveSshPort, RecordSshPort, UpdateReturns, MainAt
<1>1. UNCHANGED <<worker, sys, hns, phase>>
  BY DEF UpdateGrows, RecordDiskSize, UpdateConfigures, RecordNetworkMode, RecordGpuMode,
         RecordField, MoveSshPort, RecordSshPort, UpdateReturns, hostVars, procVars
<1>2. \A step \in {"grown", "network", "gpu", "port", "moved", "accepted"} :
        MainGoes(step) => CopyKept
  BY <1>0, MainGoesIs, MovesCopy
<1>3. CopyKept
  <2>1. CASE RecordDiskSize
    <3>1. CASE main' = [main EXCEPT !.pc = "config", !.m.disk = main.req.disk]
      <4>1. main.m \in Mappings
        BY <1>0, EditTyped
      <4>2. main'.vm = main.vm /\ main'.m = [main.m EXCEPT !.disk = main.req.disk]
        BY <1>0, <3>1 DEF Mains
      <4>3. main'.m.ep = main.m.ep
        BY <4>1, <4>2 DEF Mappings
      <4> QED
        BY <1>0, <4>2, <4>3 DEF CopyKept
    <3> QED
      BY <2>1, <3>1, LeavesCopy DEF RecordDiskSize
  <2>2. CASE RecordNetworkMode \/ RecordGpuMode
    BY <2>2, <1>2, LeavesCopy DEF RecordNetworkMode, RecordGpuMode, RecordField
  <2>3. CASE UpdateGrows \/ UpdateConfigures \/ RecordSshPort \/ UpdateReturns
    BY <2>3, <1>2, LeavesCopy DEF UpdateGrows, UpdateConfigures, RecordSshPort, UpdateReturns
  <2>4. CASE MoveSshPort
    BY <2>4, <1>2, LeavesCopy DEF MoveSshPort
  <2> QED
    BY <2>1, <2>2, <2>3, <2>4
<1>4. \A u \in VMs : EndpointHeld(u)
  <2>1. CASE UNCHANGED storeVars
    BY <2>1, EndpointsHeld
  <2>2. CASE \E f \in {"net", "gpu", "disk", "port"} :
               Save("main", main.vm, [main.m EXCEPT ![f] = main.req[f]])
    BY <1>0, <2>2, EditHoldsEndpoint DEF AInv
  <2>3. CASE RecordNetworkMode \/ RecordGpuMode
    BY <2>1, <2>2, <2>3 DEF RecordNetworkMode, RecordGpuMode, RecordField
  <2>4. CASE RecordDiskSize
    BY <2>1, <2>2, <2>4 DEF RecordDiskSize
  <2>5. CASE RecordSshPort
    BY <2>1, <2>2, <2>5 DEF RecordSshPort
  <2> QED
    BY <2>1, <2>3, <2>4, <2>5 DEF UpdateGrows, UpdateConfigures, MoveSshPort, UpdateReturns
<1> QED
  BY <1>1, <1>3, <1>4, UiAttached

\* The endpoints a desktop's record is written back with are the recorded ones.
DesktopKeepsEndpoint ==
  RecordDesktop => \A v \in VMs : Recorded(v) => Content'[v].ep = Content[v].ep

LEMMA RefreshAttached ==
  ASSUME TInv, RInv, AInv, DesktopKeepsEndpoint,
         DeleteRemoves \/ DeleteReturns \/ ListVms \/ ListDesktops \/ RecordDesktop
         \/ EndRefresh \/ Tick
  PROVE  AInv'
<1>0. main \in Mains /\ "main" \in Threads /\ {"desks", "gone"} \subseteq MainSteps
  BY Types DEF Threads, MainSteps
<1>1. UNCHANGED <<worker, sys, hns>> /\ (phase' = "fresh" => phase = "fresh")
  BY DEF DeleteRemoves, DeleteReturns, ListVms, ListDesktops, RecordDesktop, EndRefresh, Tick,
         hostVars, procVars
<1>2. CASE DeleteReturns \/ ListVms \/ EndRefresh \/ Tick
  <2>1. CopyKept
    BY <1>0, <1>2, MainGoesIs, MovesCopy, LeavesCopy
    DEF DeleteReturns, ListVms, EndRefresh, Tick, Refused, EditSteps
  <2> QED
    BY <1>1, <1>2, <2>1, EndpointsHeld, UiAttached DEF DeleteReturns, ListVms, EndRefresh, Tick
<1>3. CASE ListDesktops
  <2>1. main'.pc \in {"desk", "idle"}
    BY <1>0, <1>3 DEF ListDesktops, Mains, Idle
  <2>2. CopyKept
    BY <2>1 DEF CopyKept, EditSteps
  <2> QED
    BY <1>1, <1>3, <2>2, EndpointsHeld, UiAttached DEF ListDesktops
<1>4. CASE RecordDesktop
  <2>0. main.snap \in Documents /\ main.pc = "desk"
    BY <1>4 DEF RecordDesktop, MainAt, TInv, MainTyped
  <2>1. PICK v \in Waiting :
          /\ \/ Save("main", v, [main.snap[v] EXCEPT !.desk = "ready"])
             \/ UNCHANGED storeVars
          /\ main' = [main EXCEPT !.snap[v] = None]
    BY <1>4 DEF RecordDesktop
  <2>2. v \in VMs /\ main.snap[v] \in Mappings
    BY <2>0 DEF Waiting, Documents
  <2>3. main'.pc = "desk"
    BY <1>0, <2>0, <2>1 DEF Mains
  <2>4. CopyKept
    BY <2>3 DEF CopyKept, EditSteps
  <2> DEFINE n == [main.snap[v] EXCEPT !.desk = "ready"]
  <2>5. n \in Mappings
    BY <2>2 DEF Mappings
  <2>6. CASE Save("main", v, n)
    <3> HIDE DEF n
    <3>1. /\ Content # Torn /\ Content' # Torn /\ Content'[v] = n /\ n # None
          /\ \A u \in VMs \ {v} : Content'[u] = Content[u]
      BY <1>0, <2>2, <2>5, <2>6, SaveIs, ConstantsAssumption
    <3>2. \A u \in VMs : EndpointHeld(u)
      BY <1>4, <3>1 DEF DesktopKeepsEndpoint, EndpointHeld, Recorded
    <3> QED
      BY <1>1, <2>4, <3>2, UiAttached
  <2>7. CASE UNCHANGED storeVars
    BY <1>1, <2>4, <2>7, EndpointsHeld, UiAttached
  <2> QED
    BY <2>1, <2>6, <2>7
<1>5. CASE DeleteRemoves
  <2>0. main.pc = "remove"
    BY <1>5 DEF DeleteRemoves, MainAt
  <2>1. PICK v \in VMs : v = main.vm
    BY <2>0 DEF TInv, MainTyped
  <2>2. CopyKept /\ main'.pc \notin EditSteps
    BY <1>0, <1>5, MainGoesIs, RefusedIs
    DEF DeleteRemoves, MainMoves, MainLeaves, CopyKept, EditSteps
  <2>3. CASE UNCHANGED storeVars
    BY <1>1, <2>2, <2>3, EndpointsHeld, UiAttached
  <2>4. CASE Save("main", v, None)
    <3>1. RecordsOf(v) /\ worker[v].pc = "idle" /\ sys[v] = NoSystem
      BY <2>0, <2>1, TheirRecords DEF RecordsOf, Stages, Remains
    <3>2. Attached(v)'
      BY <1>1, <3>1, NotRunning, StartOver DEF NoSystem, Attached
    <3>3. \A u \in VMs \ {v} : EndpointHeld(u) /\ HnsKeeps(u)
      BY <1>0, <1>1, <2>4, SaveHolds, HeldEndpoint DEF HnsKeeps
    <3>4. \A u \in VMs \ {v} : Attached(u)'
      BY <1>1, <3>3, TheirRecords, AttachedStill, Types DEF AInv, SetsTyped
    <3> QED
      BY <1>1, <2>2, <3>2, <3>4 DEF AInv, CopyInv, FreshInv
  <2> QED
    BY <1>5, <2>1, <2>3, <2>4 DEF DeleteRemoves
<1> QED
  BY <1>2, <1>3, <1>4, <1>5

LEMMA UserAttached ==
  ASSUME TInv, RInv, NInv, AInv, NEW v \in VMs, User(v)
  PROVE  AInv'
<1>0. worker \in [VMs -> Workers] /\ hns \subseteq Endpoints /\ sys \in [VMs -> Systems]
  BY Types DEF SetsTyped, DisksTyped
<1>1. CASE CancelBuild(v)
  BY <1>1, EndpointsHeld, UiAttached DEF CancelBuild, CopyKept, hostVars
<1>2. CASE UpdateVm(v)
  <2>1. PICK fields \in Edits : EditBegins(v, fields)
    BY <1>2, UpdateVmIs
  <2>2. UNCHANGED <<storeVars, worker, sys, hns, phase>> /\ Content = doc
    BY <1>2, UpdateVmIs DEF hostVars, procVars
  <2>3. CopyInv'
    BY <2>1, <2>2, SameStore DEF EditBegins, CopyInv, Named
  <2>4. \A u \in VMs : Attached(u)'
    BY <1>0, <2>2, EndpointsHeld, TheirRecords, AttachedStill DEF AInv, HnsKeeps
  <2> QED
    BY <2>2, <2>3, <2>4 DEF AInv, FreshInv
<1>3. CASE CreateVm(v) \/ StartVm(v)
  <2>1. PICK step \in {"check", "read"} : Begins(v, step) /\ (step = "check" => CreateVm(v))
    BY <1>3, CreateVmIs, StartVmIs
  <2>2. /\ UNCHANGED <<storeVars, sys, hns, phase>> /\ phase = "ready"
        /\ main'.pc = "rows" /\ worker[v].pc = "idle"
    BY <1>3, RefreshesIs DEF CreateVm, StartVm, Asked, Unoccupied, hostVars, procVars
  <2>3. CopyInv' /\ FreshInv'
    BY <2>2 DEF CopyInv, FreshInv, EditSteps
  <2>4. \A u \in VMs \ {v} : Attached(u)'
    BY <1>0, <2>1, <2>2, EndpointsHeld, TheirRecords, AttachedStill
    DEF AInv, HnsKeeps, Begins
  <2>5. StartInv(v)'
    BY <2>1, StartOver DEF Begins
  <2>6. RunInv(v)'
    <3>1. CASE CreateVm(v)
      <4>1. Content # Torn /\ Content[v] = None
        BY <3>1, ReadableIs DEF CreateVm
      <4>2. sys[v].st # "running"
        BY <4>1 DEF AInv, Attached, RunInv, Recorded
      <4> QED
        BY <2>2, <4>2, NotRunning
    <3>2. CASE StartVm(v) /\ worker'[v].pc = "read"
      <4>1. worker'[v].build = FALSE
        <5> DEFINE w == [NoWorker EXCEPT !.pc = "read"]
        <5>1. w.build = FALSE
          BY DEF NoWorker
        <5>2. worker' = [worker EXCEPT ![v] = w]
          BY <3>2 DEF StartVm
        <5> QED
          BY <1>0, <5>1, <5>2
      <4> QED
        BY <2>2, <3>2, <4>1, EndpointsHeld, RunsOn DEF AInv, Attached, NotUp, CreateSteps
    <3> QED
      BY <1>3, <2>1, <3>1, <3>2 DEF Begins
  <2> QED
    BY <2>3, <2>4, <2>5, <2>6 DEF AInv, Attached
<1>4. CASE \E disks \in BOOLEAN : DeleteVm(v, disks)
  <2>1. PICK disks \in BOOLEAN : DeleteVm(v, disks)
    BY <1>4
  <2>2. /\ Readable /\ doc[v] # None /\ sys[v].st # "running" /\ worker[v].pc = "idle"
        /\ UNCHANGED <<storeVars, worker, phase>>
        /\ hns \ {doc[v].ep} \subseteq hns'
        /\ \A u \in VMs \ {v} : sys'[u] = sys[u]
        /\ sys'[v] = sys[v] \/ sys'[v] = NoSystem
    BY <1>0, <2>1 DEF DeleteVm, Unoccupied, Teardown
  <2>3. main'.pc \notin EditSteps
    <3>1. CASE main' = [Idle EXCEPT !.pc = "remove", !.vm = v]
      BY <3>1 DEF Idle, EditSteps
    <3> QED
      BY <2>1, <3>1, RefusedIs DEF DeleteVm, EditSteps
  <2>4. doc[v].ep \in EndpointsOf(v)
    BY <2>2, ReadableIs, TheirEndpoints DEF Recorded
  <2>5. \A u \in VMs \ {v} : Attached(u)'
    BY <1>0, <2>2, <2>4, OthersKeep, EndpointsHeld, TheirRecords, AttachedStill DEF AInv, NInv
  <2>6. Attached(v)'
    BY <2>2, NotRunning, StartOver DEF NoSystem, Attached
  <2> QED
    BY <2>2, <2>3, <2>5, <2>6 DEF AInv, CopyInv, FreshInv
<1> QED
  BY <1>1, <1>2, <1>3, <1>4 DEF User

-----------------------------------------------------------------------------
(* The endpoint of a running VM: the document is written or lost; the host. *)

LEMMA StoreAttached ==
  ASSUME TInv, RInv, AInv, WriteOut \/ WriteFails
  PROVE  AInv'
<1>0. /\ sys' = sys /\ hns' = hns /\ phase' = phase
      /\ worker \in [VMs -> Workers] /\ hns \subseteq Endpoints
      /\ \A u \in VMs : HnsKeeps(u)
  BY Types DEF SetsTyped, WriteOut, WriteFails, hostVars, procVars, HnsKeeps
<1>1. CASE WriteOut
  <2>1. Content' = Content /\ main' = main /\ worker' = worker
    BY <1>1, WriteOutIs DEF WriteOut
  <2>2. \A u \in VMs : EndpointHeld(u)
    BY <2>1 DEF EndpointHeld, Recorded
  <2> QED
    BY <1>0, <2>1, <2>2, UiAttached DEF CopyKept
<1>2. CASE WriteFails
  <2>1. Content' = Torn
    BY <1>2, LostIs DEF WriteFails
  <2>2. CopyInv' /\ \A u \in VMs : EndpointHeld(u)
    BY <2>1 DEF CopyInv, Named, Recorded, EndpointHeld
  <2>3. CASE worker' = worker
    BY <1>0, <2>2, <2>3, TheirRecords, AttachedStill DEF AInv, FreshInv
  <2>4. CASE worker' # worker
    <3>1. PICK v \in Threads : v = pen.by
      BY <1>2 DEF WriteFails, TInv, PenTyped
    <3>2. /\ v \in VMs
          /\ \/ worker[v].pc = "built" /\ Goes(v, "rollback")
             \/ worker[v].pc = "dhcp" /\ StartFails(v)
             \/ worker[v].pc = "forget" /\ Ends(v)
      BY <1>2, <2>4, <3>1 DEF WriteFails, AfterFailedSave, Threads
    <3>3. Attached(v)' /\ \A u \in VMs \ {v} : worker'[u] = worker[u]
      <4>0. Attached(v) /\ "rollback" \in WorkerSteps
        BY <3>2 DEF AInv, WorkerSteps
      <4>1. CASE worker[v].pc = "dhcp" /\ StartFails(v)
        <5>1. Attached(v)'
          BY <1>0, <2>2, <3>2, <4>0, <4>1, FailAttached DEF ToBoot
        <5> QED
          BY <3>2, <4>1, <5>1, FailNames
      <4>2. CASE worker[v].pc \in {"built", "forget"} /\ (Goes(v, "rollback") \/ Ends(v))
        <5>1. /\ worker'[v].pc \in {"rollback", "idle"}
              /\ \A u \in VMs \ {v} : worker'[u] = worker[u]
          BY <1>0, <3>2, <4>0, <4>2, GoesIs, EndsIs DEF Moves, Stops
        <5>2. sys'[v].st # "running"
          BY <1>0, <4>0, <4>2 DEF Attached, RunInv, NotUp
        <5> QED
          BY <5>1, <5>2, NotRunning, StartOver DEF Attached
      <4> QED
        BY <3>2, <4>1, <4>2
    <3>4. \A u \in VMs \ {v} : Attached(u)'
      BY <1>0, <2>2, <3>3, TheirRecords, AttachedStill DEF AInv
    <3>5. FreshInv'
      BY <1>0, <3>2 DEF AInv, FreshInv
    <3> QED
      BY <2>2, <3>3, <3>4, <3>5 DEF AInv
  <2> QED
    BY <2>3, <2>4
<1> QED
  BY <1>1, <1>2

\* The orphans collected when VMLord starts are not endpoints of running VMs,
\* whose mappings name them, nor of starts, of which there are none.
LEMMA HostAttached ==
  ASSUME TInv, RInv, AInv,
         Initialize \/ Kill \/ \E v \in VMs : GuestExits(v) \/ GuestReports(v)
  PROVE  AInv'
<1>0. /\ worker \in [VMs -> Workers] /\ hns \subseteq Endpoints /\ sys \in [VMs -> Systems]
  BY Types DEF SetsTyped, DisksTyped
<1>1. CASE Initialize
  <2>1. /\ UNCHANGED <<storeVars, sys, main, worker>> /\ phase = "fresh" /\ phase' # "fresh"
        /\ hns' = hns \/ (Readable /\ hns' = hns \ Orphans)
    BY <1>1 DEF Initialize, Exchanged
  <2>2. \A u \in VMs : worker[u].pc = "idle" /\ StartInv(u)'
    BY <2>1, StartOver DEF AInv, FreshInv
  <2>3. ASSUME NEW u \in VMs PROVE RunInv(u)'
    <3>1. ASSUME sys[u].st = "running", sys[u].ep # None PROVE sys[u].ep \in hns'
      <4>1. /\ sys[u].ep \in hns /\ Named(u, sys[u].ep) /\ (Content = Torn \/ Recorded(u))
        BY <3>1 DEF AInv, Attached, RunInv
      <4>2. Readable => sys[u].ep \notin Orphans
        BY <4>1, ReadableIs DEF Orphans, Named, Recorded
      <4> QED
        BY <2>1, <4>1, <4>2
    <3> QED
      BY <2>1, <2>2, <3>1, EndpointsHeld, RunsOn DEF AInv, Attached, NotUp, CreateSteps, ToBoot
  <2>4. CopyInv'
    BY <2>1, EndpointsHeld, CopyStill DEF AInv, CopyKept
  <2> QED
    BY <2>1, <2>2, <2>3, <2>4 DEF AInv, Attached, FreshInv
<1>2. CASE Kill
  <2>1. /\ sys' = sys /\ hns' = hns /\ main' = Idle
        /\ \A u \in VMs : worker'[u] = NoWorker
    BY <1>2 DEF Kill, hostVars
  <2>2. Content' = Torn \/ Content' = Content
    <3>1. CASE pen # NoPen
      BY <3>1, <1>2, LostIs DEF Kill
    <3>2. CASE pen = NoPen
      BY <3>2, <1>2 DEF Kill, Content
    <3> QED
      BY <3>1, <3>2
  <2>3. \A u \in VMs : EndpointHeld(u) /\ worker'[u].pc = "idle"
    BY <2>1, <2>2, NoWorkerIs DEF EndpointHeld, Recorded
  <2>4. \A u \in VMs : Attached(u)'
    BY <2>1, <2>3, RunsOn, StartOver DEF AInv, Attached, NotUp, CreateSteps, ToBoot
  <2>5. CopyInv'
    BY <2>1 DEF CopyInv, Idle, EditSteps
  <2> QED
    BY <2>3, <2>4, <2>5 DEF AInv, FreshInv
<1>3. CASE \E v \in VMs : GuestReports(v)
  BY <1>3, EndpointsHeld, UiAttached DEF GuestReports, CopyKept, hostVars
<1>4. ASSUME NEW v \in VMs, GuestExits(v) PROVE AInv'
  <2>1. /\ UNCHANGED <<storeVars, hns, phase, main, worker>>
        /\ sys'[v] = NoSystem /\ \A u \in VMs \ {v} : sys'[u] = sys[u]
    BY <1>0, <1>4 DEF GuestExits, procVars
  <2>2. \A u \in VMs : Attached(u)'
    BY <1>0, <2>1, EndpointsHeld, TheirRecords, AttachedStill DEF AInv, HnsKeeps
  <2>3. CopyInv'
    BY <2>1, EndpointsHeld, CopyStill DEF AInv, CopyKept
  <2> QED
    BY <2>1, <2>2, <2>3 DEF AInv, FreshInv
<1> QED
  BY <1>1, <1>2, <1>3, <1>4

LEMMA InitAttached ==
  ASSUME Init
  PROVE  AInv
<1>1. \A v \in VMs : worker[v].pc = "idle" /\ sys[v].st # "running"
  BY NoWorkerIs DEF Init, NoSystem
<1>2. \A v \in VMs : Attached(v)
  BY <1>1 DEF Attached, RunInv, StartInv
<1>3. CopyInv
  BY DEF Init, Idle, CopyInv, EditSteps
<1> QED
  BY <1>1, <1>2, <1>3 DEF AInv, FreshInv

\* A rollback that asks a running VM to stop has stopped it.
RollbackStops == \A v \in VMs : BuildStops(v) => sys'[v].st # "running"

LEMMA NextAttached ==
  ASSUME TInv, RInv, NInv, AInv, [Next]_vars, [DesktopKeepsEndpoint /\ RollbackStops]_vars
  PROVE  AInv'
<1>1. CASE UNCHANGED vars
  BY <1>1, EndpointsHeld, UiAttached DEF vars, hostVars, procVars, CopyKept
<1>2. CASE Next /\ DesktopKeepsEndpoint /\ RollbackStops
  <2>1. CASE Main \/ Tick
    BY <1>2, <2>1, EditAttached, RefreshAttached DEF Main
  <2>2. CASE \E v \in VMs : Worker(v)
    BY <1>2, <2>2, WorkerAttached DEF RollbackStops
  <2> QED
    BY <1>2, <2>1, <2>2, StoreAttached, UserAttached, HostAttached DEF Next
<1> QED
  BY <1>1, <1>2

\* Nothing but a rollback that could not stop its VM leaves one adrift.
LEMMA NoneAdrift ==
  ASSUME adrift = {}, [Next]_vars, [DesktopKeepsEndpoint /\ RollbackStops]_vars
  PROVE  adrift' = {}
<1>1. CASE UNCHANGED vars
  BY <1>1 DEF vars, ghostVars
<1>2. CASE Next /\ RollbackStops
  <2>1. CASE WriteOut \/ WriteFails \/ Tick \/ Initialize \/ Kill
    BY <2>1 DEF WriteOut, WriteFails, Tick, Initialize, Kill, ghostVars
  <2>2. CASE Main
    BY <2>2 DEF Main, UpdateGrows, RecordDiskSize, UpdateConfigures, RecordNetworkMode,
                RecordGpuMode, RecordField, MoveSshPort, RecordSshPort, UpdateReturns,
                DeleteRemoves, DeleteReturns, ListVms, ListDesktops, RecordDesktop, EndRefresh,
                ghostVars
  <2>3. ASSUME NEW v \in VMs, User(v) \/ GuestExits(v) \/ GuestReports(v)
        PROVE  adrift' = adrift
    BY <2>3 DEF User, CreateVm, CancelBuild, StartVm, UpdateVm, DeleteVm, GuestExits,
                GuestReports, ghostVars
  <2>4. ASSUME NEW v \in VMs, Worker(v) PROVE adrift' = {}
    <3>1. CASE BuildStops(v)
      BY <1>2, <3>1 DEF RollbackStops, BuildStops
    <3>2. CASE StartBoots(v)
      BY <3>2 DEF StartBoots
    <3> QED
      BY <2>4, <3>1, <3>2
      DEF Worker, CreateChecks, CreateFiles, CreateSystem, CreateRegisters, CreateRollsBack,
          BuildContinues, StartReads, StartOffNetwork, StartReuses, StartCreatesEndpoint,
          StartRecords, StartRegistersAddress, StartPreparesSystem, AwaitNothing,
          AwaitAddress, AwaitPort, AwaitGuest, AwaitCloudInit, BuildUndoes, BuildRemoves,
          BuildForgets, ghostVars
  <2> QED
    BY <1>2, <2>1, <2>2, <2>3, <2>4 DEF Next
<1> QED
  BY <1>1, <1>2

\* The endpoint a running VM is attached to is never deleted under it but in two
\* ways: a desktop's record is written back with an endpoint that is no longer the
\* recorded one (record_installed_desktops, repository.rs), or a build is rolled
\* back and its VM could not be stopped (cycle.rs roll_back).  Where no step does
\* either, no VM is adrift and every running one has its endpoint, whatever else
\* fails and however VMLord is killed.
THEOREM EndpointsOfRunningStay ==
  Spec /\ [][DesktopKeepsEndpoint /\ RollbackStops]_vars
    => [](RunningKeepsItsEndpoint /\ adrift = {})
<1> DEFINE IInv == TInv /\ RInv /\ NInv /\ AInv /\ adrift = {}
<1>1. Init => IInv
  BY InitTypes, InitRecords, InitEndpoints, InitAttached DEF Init
<1>2. IInv /\ [Next]_vars /\ [DesktopKeepsEndpoint /\ RollbackStops]_vars => IInv'
  BY NextTypes, NextRecords, NextEndpoints, NextAttached, NoneAdrift
<1>3. IInv => RunningKeepsItsEndpoint /\ adrift = {}
  BY DEF AInv, Attached, RunInv, RunningKeepsItsEndpoint
<1> QED
  BY <1>1, <1>2, <1>3, PTL DEF Spec
=============================================================================
