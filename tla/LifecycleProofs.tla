--------------------------- MODULE LifecycleProofs ---------------------------
(***************************************************************************)
(* What holds of the life of a VM for any finite set of VMs, any number of *)
(* runs and restarts, any capacity of the event queue, any faults and any  *)
(* operations: the types and the capacity, that outside a refresh no event *)
(* of a watch that is gone is queued, that nothing comes to be for a VM    *)
(* that was deleted, and that an exit drained late never costs a live run  *)
(* its handle nor, where no open of a compute system fails, its agent's    *)
(* connection.                                                             *)
(*                                                                         *)
(* They are proved from one inductive invariant, Inv.  There is one lemma  *)
(* for each conjunct of it, and in each a step for every action that can   *)
(* disturb the conjunct; the actions that leave its variables alone are    *)
(* its first step.                                                         *)
(***************************************************************************)
EXTENDS Lifecycle, TLAPS, FiniteSetTheorems

\* A run number still to be given exists while a start is before its creation;
\* the process that is leaving was allowed to; a product is being listened for.
BoundsInv ==
  /\ \A v \in VMs : starting[v] \in {"prepare", "create"} => run[v] < MaxRuns
  /\ phase = "leaving" => restarts < MaxRestarts
  /\ main = "listen" => adopting # <<>>

\* A process that has not initialized has nothing left of the one before it.
FreshInv ==
  phase = "fresh" =>
    /\ main = "idle"
    /\ events = <<>>
    /\ undelivered = {}
    /\ \A v \in VMs : conn[v] = NoConn

\* The run a handle is of is over.
Over(v) == conn[v].run < run[v] \/ sys[v] = "absent"

\* Generations are numbered in the order the handles were held, and an exit that
\* is owed or queued by the watch held now is of a run that is over.
HandleInv ==
  /\ \A v \in VMs : /\ conn[v].gen < nextGen
                    /\ conn[v].gen = 0 => conn[v] = NoConn
                    /\ conn[v].run <= run[v]
  /\ \A v \in undelivered : conn[v].gen # 0 /\ Over(v)
  /\ \A e \in Range(events) :
       /\ e.gen # 0
       /\ e.gen < nextGen
       /\ e.kind = "exited" /\ conn[e.vm].gen = e.gen => Over(e.vm)

\* A product of the VM is in the sequence.
Waits(v, products) == \E i \in DOMAIN products : products[i][1] = v

\* A row that says "stopped" is right about the starts for as long as it can be
\* acted on: it was labelled when no start was listed, everything parked by then
\* has been adopted, and accepting a start has the rows read again.
RowsInv ==
  /\ main \notin {"adopt", "listen"} => adopting = <<>>
  /\ phase = "ready" /\ main \notin {"list", "label"} =>
       \A v \in VMs : listed[v].state = "stopped" =>
         /\ starting[v] = "none"
         /\ main # "take" => ~Waits(v, parked)

\* DeletedHasNothing, and no product of the VM on its way either.
DeletedInv ==
  \A v \in VMs \ known :
    /\ sys[v] = "absent"
    /\ conn[v] = NoConn
    /\ agent[v] = NoAgent
    /\ console[v] = NoConsole
    /\ starting[v] = "none"
    /\ ~Waits(v, parked)
    /\ ~Waits(v, adopting)

\* The inductive invariant of the specification.
Inv ==
  /\ TypeOK
  /\ BoundsInv
  /\ FreshInv
  /\ HandleInv
  /\ RowsInv
  /\ DeletedInv
  /\ QueuedEventsAreCurrent
------------------------------------------------------------------------------
\* Push keeps a queue a sequence of events, within its capacity.
LEMMA PushType ==
  ASSUME NEW S, NEW queue \in Seq(S), Len(queue) <= Capacity, NEW e \in S
  PROVE  Push(queue, e) \in Seq(S) /\ Len(Push(queue, e)) <= Capacity
BY ConstantsAssumption DEF Push

\* What says "none" is of its type.
LEMMA Nones ==
  /\ 0 \in RunNumbers
  /\ NoConn \in Conns
  /\ NoConsole \in Consoles
  /\ NoAgent \in Agents
  /\ NoFacts \in Facts
  /\ NoAsk \in Requests
  /\ NoRow \in Rows
<1>1. 0 \in RunNumbers
  BY ConstantsAssumption DEF RunNumbers
<1> QED
  BY <1>1 DEF NoConn, Conns, NoConsole, Consoles, NoAgent, Agents, NoFacts,
              Facts, NoAsk, Requests, AskStates, NoRow, Rows, RowStates

\* A host call works or does not.
LEMMA MayFailType == \A kind : MayFail(kind) \subseteq BOOLEAN
BY DEF MayFail

\* The run a start is about to create has a number.
LEMMA NextRun ==
  ASSUME TypeOK, BoundsInv, NEW v \in VMs, starting[v] \in {"prepare", "create"}
  PROVE  run[v] + 1 \in RunNumbers
BY ConstantsAssumption DEF TypeOK, HcsTypeOK, BoundsInv, RunNumbers

\* A reap keeps consoles consoles.
LEMMA ReapType ==
  ASSUME NEW c \in [VMs -> Consoles] PROVE Reap(c) \in [VMs -> Consoles]
BY Nones DEF Reap

\* Showing a console, which opens one only where none is left.
LEMMA ShowType ==
  ASSUME TypeOK, NEW v \in VMs, NEW works, Show(v, works)
  PROVE  console' \in [VMs -> Consoles]
<1>1. Reap(console) \in [VMs -> Consoles]
  BY ReapType DEF TypeOK, RunTypeOK
<1>2. Opened(v) \in Consoles
  BY DEF TypeOK, HcsTypeOK, Opened, Consoles
<1> QED  BY <1>1, <1>2 DEF Show

\* Giving up keeps a type that has the value given.
LEMMA GiveUpType ==
  ASSUME NEW T, NEW f \in [VMs -> T], NEW S, NEW none \in T
  PROVE  GiveUp(f, S, none) \in [VMs -> T]
BY DEF GiveUp

\* An empty sequence is of every type and within every capacity.
LEMMA EmptyQueue == \A S : <<>> \in Seq(S) /\ Len(<<>>) <= Capacity
BY ConstantsAssumption

\* The types of what HCS keeps.
LEMMA HcsTypes ==
  ASSUME TypeOK, BoundsInv, Next
  PROVE  HcsTypeOK'
<1>1. CASE UNCHANGED <<hcsVars>>
  BY <1>1 DEF TypeOK, HcsTypeOK, hcsVars
<1>2. ASSUME NEW v \in VMs, GuestExits(v)
      PROVE  HcsTypeOK'
  BY <1>2 DEF GuestExits, Gone, SysStates, TypeOK, HcsTypeOK
<1>3. ASSUME NEW v \in VMs,
             DeliverExit(v) \/ DeliverOther(v) \/ DeliverDisconnect(v)
      PROVE  HcsTypeOK'
  BY <1>3, ConstantsAssumption
     DEF DeliverExit, DeliverOther, DeliverDisconnect, TypeOK, HcsTypeOK
<1>4. ASSUME NEW v \in VMs, StartCreates(v)
      PROVE  HcsTypeOK'
  BY <1>4, NextRun DEF StartCreates, SysStates, TypeOK, HcsTypeOK
<1>5. ASSUME NEW v \in VMs, StartLaunches(v) \/ StartFails(v)
      PROVE  HcsTypeOK'
  BY <1>5
     DEF StartLaunches, StartFails, Gone, SysStates, hcsVars, TypeOK,
         HcsTypeOK
<1>6. ASSUME NEW v \in VMs, DeleteVm(v)
      PROVE  HcsTypeOK'
  BY <1>6 DEF DeleteVm, Gone, Unwatch, SysStates, TypeOK, HcsTypeOK
<1>7. ASSUME NEW v \in VMs, AskReaches(v)
      PROVE  HcsTypeOK'
  BY <1>7
     DEF AskReaches, ShutdownReaches, RebootReaches, ForceStopReaches,
         Reached, Gone, SysStates, TypeOK, HcsTypeOK
<1>8. CASE AdoptHolds \/ FinishShutdowns \/ FinishForceStops \/ DrainEvents
  BY <1>8
     DEF AdoptHolds, FinishShutdowns, FinishForceStops, DrainEvents, Unwatch,
         TypeOK, HcsTypeOK
<1>9. CASE Left \/ Crash
  BY <1>9 DEF Left, Crash, ProcessEnds, TypeOK, HcsTypeOK
<1> QED
  BY <1>1, <1>2, <1>3, <1>4, <1>5, <1>6, <1>7, <1>8, <1>9
     DEF Next, Hcs, StartWorker, User, Refreshing, ConsoleEnds, WindowCloses,
         GuestOffersDisplay, StartPrepares, StartVm, StopVm, ForceStopVm,
         RebootVm, OpenConsole, OpenDisplay, Refused, AskAnswered, AskFails,
         ListReads, ListLabels, ListFails, RefreshTakes, AdoptListens,
         Initialize, Leave, RecordInstalledDesktops, FinishReboots, Proceed,
         hcsVars, storeVars, procVars, heldVars, runVars, workVars

\* The types of what metadata.json keeps.
LEMMA StoreTypes ==
  ASSUME TypeOK, BoundsInv, Next
  PROVE  StoreTypeOK'
<1>1. CASE UNCHANGED <<storeVars>>
  BY <1>1 DEF TypeOK, StoreTypeOK, storeVars
<1>2. ASSUME NEW v \in VMs, DeleteVm(v)
      PROVE  StoreTypeOK'
  BY <1>2 DEF DeleteVm, TypeOK, StoreTypeOK
<1>3. CASE RecordInstalledDesktops
  BY <1>3 DEF RecordInstalledDesktops, TypeOK, StoreTypeOK
<1>4. CASE Left \/ Crash
  BY <1>4 DEF Left, Crash, ProcessEnds, storeVars, TypeOK, StoreTypeOK
<1> QED
  BY <1>1, <1>2, <1>3, <1>4
     DEF Next, Hcs, StartWorker, User, Refreshing, GuestExits, DeliverExit,
         DeliverOther, DeliverDisconnect, ConsoleEnds, WindowCloses,
         GuestOffersDisplay, StartPrepares, StartCreates, StartLaunches,
         StartFails, StartVm, StopVm, ForceStopVm, RebootVm, OpenConsole,
         OpenDisplay, Refused, AskReaches, ShutdownReaches, RebootReaches,
         ForceStopReaches, Reached, AskAnswered, AskFails, ListReads,
         ListLabels, ListFails, RefreshTakes, AdoptHolds, AdoptListens,
         DrainEvents, Initialize, Leave, FinishShutdowns, FinishForceStops,
         FinishReboots, Proceed, hcsVars, storeVars, procVars, heldVars,
         runVars, workVars

\* The types of where the process is and of what its window shows.
LEMMA ProcTypes ==
  ASSUME TypeOK, BoundsInv, Next
  PROVE  ProcTypeOK'
<1>1. CASE UNCHANGED <<procVars>>
  BY <1>1 DEF TypeOK, ProcTypeOK, procVars
<1>2. ASSUME NEW v \in VMs,
             StartVm(v) \/ StopVm(v) \/ ForceStopVm(v) \/ RebootVm(v)
             \/ DeleteVm(v) \/ OpenConsole(v) \/ Refused(v)
      PROVE  ProcTypeOK'
  BY <1>2
     DEF StartVm, StopVm, ForceStopVm, RebootVm, DeleteVm, OpenConsole,
         Refused, Proceed, TypeOK, ProcTypeOK
<1>3. CASE ListReads
  BY <1>3 DEF ListReads, TypeOK, ProcTypeOK, HcsTypeOK
<1>4. CASE ListLabels
  BY <1>4
     DEF ListLabels, Row, Rows, Each, SysStates, RowStates, TypeOK, ProcTypeOK
<1>5. CASE ListFails \/ RefreshTakes \/ AdoptHolds \/ AdoptListens
           \/ RecordInstalledDesktops \/ FinishShutdowns \/ FinishForceStops
           \/ FinishReboots \/ DrainEvents
  BY <1>5
     DEF ListFails, RefreshTakes, AdoptHolds, AdoptListens,
         RecordInstalledDesktops, FinishShutdowns, FinishForceStops,
         FinishReboots, DrainEvents, TypeOK, ProcTypeOK
<1>6. CASE Initialize \/ Leave
  BY <1>6 DEF Initialize, Leave, TypeOK, ProcTypeOK
<1>7. CASE Left \/ Crash
  <2>1. restarts < MaxRestarts
    BY <1>7 DEF Left, Crash, BoundsInv
  <2>2. restarts' \in 0..MaxRestarts
    BY <1>7, <2>1, ConstantsAssumption DEF Left, Crash, ProcessEnds, TypeOK, ProcTypeOK
  <2> QED
    BY <1>7, <2>2, Nones
       DEF Left, Crash, ProcessEnds, Each, SysStates, ProcTypeOK
<1> QED
  BY <1>1, <1>2, <1>3, <1>4, <1>5, <1>6, <1>7
     DEF Next, Hcs, StartWorker, User, Refreshing, GuestExits, DeliverExit,
         DeliverOther, DeliverDisconnect, ConsoleEnds, WindowCloses,
         GuestOffersDisplay, StartPrepares, StartCreates, StartLaunches,
         StartFails, OpenDisplay, AskReaches, ShutdownReaches, RebootReaches,
         ForceStopReaches, Reached, AskAnswered, AskFails, Proceed, hcsVars,
         storeVars, procVars, heldVars, runVars, workVars

\* The types of the handles and of the event queue, which holds no more than
\* its capacity.
LEMMA HeldTypes ==
  ASSUME TypeOK, BoundsInv, Next
  PROVE  HeldTypeOK'
<1>1. CASE UNCHANGED <<heldVars>>
  BY <1>1 DEF TypeOK, HeldTypeOK, heldVars
<1>2. ASSUME NEW v \in VMs,
             DeliverExit(v) \/ DeliverOther(v) \/ DeliverDisconnect(v)
      PROVE  HeldTypeOK'
  <2>1. conn[v].gen \in Nat
    BY DEF TypeOK, HeldTypeOK, Conns
  <2>2. PICK kind \in EventKinds :
          events' = Push(events, [vm |-> v, gen |-> conn[v].gen, kind |-> kind])
    BY <1>2 DEF DeliverExit, DeliverOther, DeliverDisconnect, EventKinds
  <2>3. [vm |-> v, gen |-> conn[v].gen, kind |-> kind] \in HcsEvents
    BY <2>1 DEF HcsEvents
  <2>4. events' \in Seq(HcsEvents) /\ Len(events') <= Capacity
    BY <2>2, <2>3, PushType DEF TypeOK, HeldTypeOK
  <2> QED
    BY <1>2, <2>4
       DEF DeliverExit, DeliverOther, DeliverDisconnect, TypeOK, HeldTypeOK
<1>3. ASSUME NEW v \in VMs, DeleteVm(v)
      PROVE  HeldTypeOK'
  BY <1>3, Nones DEF DeleteVm, TypeOK, HeldTypeOK
<1>4. CASE AdoptHolds
  <2> DEFINE v == Head(adopting)[1]
  <2>1. v \in VMs
    BY <1>4 DEF AdoptHolds, TypeOK, WorkTypeOK, Products
  <2>2. ASSUME NEW watches \in MayFail("watch")
        PROVE  [gen |-> nextGen, run |-> run[v], watched |-> watches] \in Conns
    BY <2>1, MayFailType DEF TypeOK, HcsTypeOK, HeldTypeOK, Conns
  <2>3. \/ UNCHANGED <<conn, nextGen>>
        \/ /\ nextGen' = nextGen + 1
           /\ \E watches \in MayFail("watch") :
                conn' = [conn EXCEPT ![v] = [gen |-> nextGen, run |-> run[v],
                                             watched |-> watches]]
    BY <1>4 DEF AdoptHolds
  <2> HIDE DEF v
  <2> QED  BY <1>4, <2>1, <2>2, <2>3 DEF AdoptHolds, TypeOK, HeldTypeOK
<1>5. CASE FinishShutdowns \/ FinishForceStops
  <2>1. PICK over : conn' = GiveUp(conn, over, NoConn)
    BY <1>5 DEF FinishShutdowns, FinishForceStops
  <2>2. conn' \in [VMs -> Conns]
    BY <2>1, Nones, GiveUpType DEF TypeOK, HeldTypeOK
  <2> QED
    BY <1>5, <2>2 DEF FinishShutdowns, FinishForceStops, TypeOK, HeldTypeOK
<1>6. CASE DrainEvents
  BY <1>6, EmptyQueue, Nones, GiveUpType DEF DrainEvents, TypeOK, HeldTypeOK
<1>7. CASE Initialize
  <2>0. Reconnect
    BY <1>7 DEF Initialize
  <2>1. PICK held \in IF "open" \in Faults THEN SUBSET Findable ELSE {Findable} :
          /\ nextGen' = Cardinality(held) + 1
          /\ \E gen \in [held -> 1..Cardinality(held)],
                watches \in [held -> MayFail("watch")] :
               conn' = [v \in VMs |->
                          IF v \in held THEN [gen |-> gen[v], run |-> run[v],
                                              watched |-> watches[v]]
                                        ELSE NoConn]
    BY <2>0 DEF Reconnect
  <2>2. held \subseteq VMs
    BY <2>1 DEF Findable, TypeOK, StoreTypeOK
  <2>3. Cardinality(held) \in Nat
    BY <2>2, ConstantsAssumption, FS_Subset, FS_CardinalityType
  <2>4. conn' \in [VMs -> Conns]
    BY <2>1, <2>2, <2>3, Nones, MayFailType DEF Conns, TypeOK, HcsTypeOK
  <2> QED  BY <1>7, <2>1, <2>3, <2>4 DEF Initialize, TypeOK, HeldTypeOK
<1>8. CASE Left \/ Crash
  <2>1. ProcessEnds
    BY <1>8 DEF Left, Crash
  <2>2. events' \in Seq(HcsEvents) /\ Len(events') <= Capacity
    BY <2>1, EmptyQueue DEF ProcessEnds
  <2>3. conn' \in [VMs -> Conns] /\ nextGen' \in Nat \ {0}
    BY <2>1, Nones DEF ProcessEnds, Each
  <2> QED  BY <2>2, <2>3 DEF HeldTypeOK
<1> QED
  BY <1>1, <1>2, <1>3, <1>4, <1>5, <1>6, <1>7, <1>8
     DEF Next, Hcs, StartWorker, User, Refreshing, GuestExits, ConsoleEnds,
         WindowCloses, GuestOffersDisplay, StartPrepares, StartCreates,
         StartLaunches, StartFails, StartVm, StopVm, ForceStopVm, RebootVm,
         OpenConsole, OpenDisplay, Refused, AskReaches, ShutdownReaches,
         RebootReaches, ForceStopReaches, Reached, AskAnswered, AskFails,
         ListReads, ListLabels, ListFails, RefreshTakes, AdoptListens, Leave,
         RecordInstalledDesktops, FinishReboots, Proceed, hcsVars, storeVars,
         procVars, heldVars, runVars, workVars

\* The types of what belongs to a run.
LEMMA RunTypes ==
  ASSUME TypeOK, BoundsInv, Next
  PROVE  RunTypeOK'
<1>1. CASE UNCHANGED <<runVars>>
  BY <1>1 DEF TypeOK, RunTypeOK, runVars
<1>2. ASSUME NEW v \in VMs, ConsoleEnds(v)
      PROVE  RunTypeOK'
  BY <1>2 DEF ConsoleEnds, Consoles, TypeOK, RunTypeOK
<1>3. ASSUME NEW v \in VMs, WindowCloses(v)
      PROVE  RunTypeOK'
  BY <1>3 DEF WindowCloses, TypeOK, RunTypeOK
<1>4. ASSUME NEW v \in VMs, GuestOffersDisplay(v)
      PROVE  RunTypeOK'
  BY <1>4 DEF GuestOffersDisplay, Agents, Facts, TypeOK, RunTypeOK
<1>5. ASSUME NEW v \in VMs, StartPrepares(v)
      PROVE  RunTypeOK'
  BY <1>5, NextRun DEF StartPrepares, Facts, TypeOK, RunTypeOK
<1>6. ASSUME NEW v \in VMs, StopVm(v) \/ OpenConsole(v)
      PROVE  RunTypeOK'
  BY <1>6, ShowType DEF StopVm, OpenConsole, TypeOK, RunTypeOK
<1>7. ASSUME NEW v \in VMs, Refused(v)
      PROVE  RunTypeOK'
  BY <1>7, ReapType DEF Refused, TypeOK, RunTypeOK
<1>8. ASSUME NEW v \in VMs, DeleteVm(v)
      PROVE  RunTypeOK'
  BY <1>8, Nones DEF DeleteVm, TypeOK, RunTypeOK
<1>9. ASSUME NEW v \in VMs, OpenDisplay(v)
      PROVE  RunTypeOK'
  BY <1>9 DEF OpenDisplay, OpenWindow, HcsTypeOK, TypeOK, RunTypeOK
<1>10. CASE AdoptHolds
  BY <1>10 DEF AdoptHolds, Consoles, Products, WorkTypeOK, TypeOK, RunTypeOK
<1>11. CASE AdoptListens
  <2> DEFINE v == Head(adopting)[1]
  <2>1. v \in VMs
    BY <1>11 DEF AdoptListens, BoundsInv, TypeOK, WorkTypeOK, Products
  <2>2. Listening(v) \in Agents
    BY <2>1 DEF Listening, Agents, Facts, TypeOK, HcsTypeOK, RunTypeOK
  <2>3. agent' \in [VMs -> Agents]
    BY <1>11, <2>1, <2>2, Nones DEF AdoptListens, TypeOK, RunTypeOK
  <2> QED  BY <1>11, <2>3 DEF AdoptListens, TypeOK, RunTypeOK
<1>12. CASE FinishShutdowns \/ FinishForceStops
  <2>1. /\ console' \in [VMs -> Consoles]
        /\ agent' \in [VMs -> Agents]
        /\ gpu' \in [VMs -> RunNumbers]
        /\ dsp' \in [VMs -> Facts]
    <3>1. CASE FinishShutdowns
      BY <3>1, Nones, GiveUpType DEF FinishShutdowns, TypeOK, RunTypeOK
    <3>2. CASE FinishForceStops
      BY <3>2, Nones, GiveUpType DEF FinishForceStops, TypeOK, RunTypeOK
    <3> QED  BY <1>12, <3>1, <3>2
  <2>2. windows' \in [VMs -> SUBSET RunNumbers]
    BY <1>12
       DEF FinishShutdowns, FinishForceStops, CloseWindows, TypeOK, RunTypeOK
  <2> QED  BY <2>1, <2>2 DEF RunTypeOK
<1>13. CASE DrainEvents
  <2>1. /\ GiveUp(console, Released, NoConsole) \in [VMs -> Consoles]
        /\ agent' \in [VMs -> Agents]
        /\ gpu' \in [VMs -> RunNumbers]
    BY <1>13, Nones, GiveUpType DEF DrainEvents, TypeOK, RunTypeOK
  <2>2. windows' \in [VMs -> SUBSET RunNumbers]
    BY <1>13 DEF DrainEvents, CloseWindows, TypeOK, RunTypeOK
  <2> QED  BY <1>13, <2>1, <2>2, ReapType DEF DrainEvents, TypeOK, RunTypeOK
<1>14. CASE Initialize
  BY <1>14, Nones
     DEF Initialize, RestoredShares, Running, Opened, Consoles, Agents, Facts,
         HcsTypeOK, TypeOK, RunTypeOK
<1>15. CASE Leave
  BY <1>15, Nones DEF Leave, Each, TypeOK, RunTypeOK
<1>16. CASE Left \/ Crash
  BY <1>16, Nones DEF Left, Crash, ProcessEnds, Each, RunTypeOK
<1> QED
  BY <1>1, <1>2, <1>3, <1>4, <1>5, <1>6, <1>7, <1>8, <1>9, <1>10, <1>11,
     <1>12, <1>13, <1>14, <1>15, <1>16
     DEF Next, Hcs, StartWorker, User, Refreshing, GuestExits, DeliverExit,
         DeliverOther, DeliverDisconnect, StartCreates, StartLaunches,
         StartFails, StartVm, ForceStopVm, RebootVm, AskReaches,
         ShutdownReaches, RebootReaches, ForceStopReaches, Reached,
         AskAnswered, AskFails, ListReads, ListLabels, ListFails, RefreshTakes,
         RecordInstalledDesktops, FinishReboots, Proceed, hcsVars, storeVars,
         procVars, heldVars, runVars, workVars

\* The types of the workers.
LEMMA WorkTypes ==
  ASSUME TypeOK, BoundsInv, Next
  PROVE  WorkTypeOK'
<1>1. CASE UNCHANGED <<workVars>>
  BY <1>1 DEF TypeOK, WorkTypeOK, workVars
<1>2. ASSUME NEW v \in VMs,
             StartPrepares(v) \/ StartCreates(v) \/ StartFails(v)
             \/ StartVm(v)
      PROVE  WorkTypeOK'
  BY <1>2
     DEF StartPrepares, StartCreates, StartFails, StartVm, TypeOK, WorkTypeOK
<1>3. ASSUME NEW v \in VMs, StartLaunches(v)
      PROVE  WorkTypeOK'
  BY <1>3 DEF StartLaunches, Products, HcsTypeOK, TypeOK, WorkTypeOK
<1>4. ASSUME NEW v \in VMs, StopVm(v) \/ ForceStopVm(v) \/ RebootVm(v)
      PROVE  WorkTypeOK'
  <2>1. [st |-> "asking", run |-> 0] \in Requests
    BY Nones DEF Requests, AskStates
  <2>2. \/ asks' = asks
        \/ \E k \in AskKinds :
             asks' = [asks EXCEPT ![k][v] = [st |-> "asking", run |-> 0]]
    BY <1>4 DEF StopVm, ForceStopVm, RebootVm, Ask, AskKinds
  <2>3. \A k \in AskKinds :
          [asks[k] EXCEPT ![v] = [st |-> "asking", run |-> 0]] \in [VMs -> Requests]
    BY <2>1 DEF TypeOK, WorkTypeOK
  <2>4. asks' \in [AskKinds -> [VMs -> Requests]]
    BY <2>2, <2>3 DEF TypeOK, WorkTypeOK
  <2> QED  BY <1>4, <2>4 DEF StopVm, ForceStopVm, RebootVm, TypeOK, WorkTypeOK
<1>5. ASSUME NEW v \in VMs, AskReaches(v)
      PROVE  WorkTypeOK'
  <2>1. PICK k \in AskKinds : Reached(k, v)
    BY <1>5
       DEF AskReaches, ShutdownReaches, RebootReaches, ForceStopReaches,
           AskKinds
  <2>2. [st |-> "reached", run |-> run[v]] \in Requests
    BY DEF Requests, AskStates, TypeOK, HcsTypeOK
  <2> QED  BY <2>1, <2>2 DEF Reached, TypeOK, WorkTypeOK
<1>6. ASSUME NEW k \in AskKinds, NEW v \in VMs,
             AskAnswered(k, v) \/ AskFails(k, v)
      PROVE  WorkTypeOK'
  <2>1. PICK st \in AskStates : asks' = [asks EXCEPT ![k][v].st = st]
    BY <1>6 DEF AskAnswered, AskFails, AskStates
  <2>2. [asks[k][v] EXCEPT !.st = st] \in Requests
    BY DEF Requests, TypeOK, WorkTypeOK
  <2>3. asks' \in [AskKinds -> [VMs -> Requests]]
    BY <2>1, <2>2 DEF TypeOK, WorkTypeOK
  <2> QED  BY <1>6, <2>3 DEF AskAnswered, AskFails, TypeOK, WorkTypeOK
<1>7. CASE RefreshTakes
  BY <1>7 DEF RefreshTakes, TypeOK, WorkTypeOK
<1>8. CASE AdoptListens
  BY <1>8 DEF AdoptListens, BoundsInv, TypeOK, WorkTypeOK
<1>9. CASE FinishShutdowns \/ FinishForceStops \/ FinishReboots
  <2>1. PICK k \in AskKinds : asks' = Collected(k)
    BY <1>9 DEF FinishShutdowns, FinishForceStops, FinishReboots, AskKinds
  <2>2. [v \in VMs |-> IF asks[k][v].st \in {"ok", "failed"}
                         THEN NoAsk ELSE asks[k][v]] \in [VMs -> Requests]
    BY Nones DEF TypeOK, WorkTypeOK
  <2>3. asks' \in [AskKinds -> [VMs -> Requests]]
    BY <2>1, <2>2 DEF Collected, TypeOK, WorkTypeOK
  <2> QED
    BY <1>9, <2>3
       DEF FinishShutdowns, FinishForceStops, FinishReboots, TypeOK, WorkTypeOK
<1>10. CASE Left \/ Crash
  <2>1. ProcessEnds
    BY <1>10 DEF Left, Crash
  <2>2. parked' \in Seq(Products) /\ adopting' \in Seq(Products)
    BY <2>1, EmptyQueue DEF ProcessEnds
  <2> QED  BY <2>1, <2>2, Nones DEF ProcessEnds, Each, WorkTypeOK
<1> QED
  BY <1>1, <1>2, <1>3, <1>4, <1>5, <1>6, <1>7, <1>8, <1>9, <1>10
     DEF Next, Hcs, StartWorker, User, Refreshing, GuestExits, DeliverExit,
         DeliverOther, DeliverDisconnect, ConsoleEnds, WindowCloses,
         GuestOffersDisplay, DeleteVm, OpenConsole, OpenDisplay, Refused,
         ListReads, ListLabels, ListFails, AdoptHolds, DrainEvents, Initialize,
         Leave, RecordInstalledDesktops, Proceed, hcsVars, storeVars, procVars,
         heldVars, runVars, workVars

\* The bounds the types rest on.
LEMMA Bounds ==
  ASSUME TypeOK, BoundsInv, Next
  PROVE  BoundsInv'
<1>1. CASE UNCHANGED <<starting, run, phase, restarts, main, adopting>>
  BY <1>1 DEF BoundsInv
<1>2. ASSUME NEW v \in VMs,
             StartPrepares(v) \/ StartLaunches(v) \/ StartFails(v)
      PROVE  BoundsInv'
  BY <1>2
     DEF StartPrepares, StartLaunches, StartFails, hcsVars, procVars,
         BoundsInv, TypeOK, WorkTypeOK
<1>3. ASSUME NEW v \in VMs, StartCreates(v)
      PROVE  BoundsInv'
  BY <1>3 DEF StartCreates, procVars, BoundsInv, TypeOK, HcsTypeOK, WorkTypeOK
<1>4. ASSUME NEW v \in VMs, StartVm(v)
      PROVE  BoundsInv'
  BY <1>4
     DEF StartVm, Asked, Idle, Proceed, hcsVars, BoundsInv, TypeOK, WorkTypeOK
<1>5. ASSUME NEW v \in VMs,
             StopVm(v) \/ ForceStopVm(v) \/ RebootVm(v) \/ DeleteVm(v)
             \/ OpenConsole(v) \/ Refused(v)
      PROVE  BoundsInv'
  BY <1>5
     DEF StopVm, ForceStopVm, RebootVm, DeleteVm, OpenConsole, Refused, Asked,
         Idle, Proceed, hcsVars, workVars, BoundsInv
<1>6. CASE ListReads \/ ListLabels \/ ListFails \/ RefreshTakes \/ AdoptHolds
           \/ AdoptListens \/ RecordInstalledDesktops \/ FinishShutdowns
           \/ FinishForceStops \/ FinishReboots \/ DrainEvents
  BY <1>6
     DEF ListReads, ListLabels, ListFails, RefreshTakes, AdoptHolds,
         AdoptListens, RecordInstalledDesktops, FinishShutdowns,
         FinishForceStops, FinishReboots, DrainEvents, hcsVars, workVars,
         BoundsInv
<1>7. CASE Initialize \/ Leave
  BY <1>7 DEF Initialize, Leave, hcsVars, workVars, BoundsInv
<1>8. CASE Left \/ Crash
  BY <1>8 DEF Left, Crash, ProcessEnds, Each, BoundsInv
<1> QED
  BY <1>1, <1>2, <1>3, <1>4, <1>5, <1>6, <1>7, <1>8
     DEF Next, Hcs, StartWorker, User, Refreshing, GuestExits, DeliverExit,
         DeliverOther, DeliverDisconnect, ConsoleEnds, WindowCloses,
         GuestOffersDisplay, OpenDisplay, AskReaches, ShutdownReaches,
         RebootReaches, ForceStopReaches, Reached, AskAnswered, AskFails,
         Proceed, hcsVars, storeVars, procVars, heldVars, runVars, workVars

------------------------------------------------------------------------------
\* Pushing adds one event and may lose one.
LEMMA QueuedOne ==
  ASSUME TypeOK, NEW v \in VMs, NEW kind \in EventKinds,
         events' = Push(events, [vm |-> v, gen |-> conn[v].gen, kind |-> kind])
  PROVE  \A e \in Range(events') :
           \/ e \in Range(events)
           \/ e = [vm |-> v, gen |-> conn[v].gen, kind |-> kind]
<1> DEFINE new == [vm |-> v, gen |-> conn[v].gen, kind |-> kind]
<1>1. new \in HcsEvents
  BY DEF HcsEvents, TypeOK, HeldTypeOK, Conns
<1> HIDE DEF new
<1>2. \A e \in Range(Push(events, new)) : e \in Range(events) \/ e = new
  BY <1>1, ConstantsAssumption DEF Push, Range, TypeOK, HeldTypeOK
<1> QED  BY <1>2 DEF new

\* A queued event is about one of the VMs, and numbered.
LEMMA EventVms ==
  ASSUME TypeOK PROVE \A e \in Range(events) : e.vm \in VMs /\ e.gen \in Nat
<1> SUFFICES ASSUME NEW i \in DOMAIN events
             PROVE  events[i].vm \in VMs /\ events[i].gen \in Nat
  BY DEF Range
<1>1. events[i] \in HcsEvents
  BY DEF TypeOK, HeldTypeOK
<1> QED  BY <1>1 DEF HcsEvents

\* Nothing is in an empty sequence.
LEMMA EmptyRange == Range(<<>>) = {}
BY DEF Range

\* Giving up handles, and with them what their watches still owed.
LEMMA GiveUpHandles ==
  ASSUME TypeOK, HandleInv, NEW S,
         conn' = GiveUp(conn, S, NoConn),
         undelivered' = undelivered \ S,
         \A v \in VMs : sys'[v] = sys[v] \/ sys'[v] = "absent",
         UNCHANGED <<run, nextGen>>,
         Range(events') \subseteq Range(events)
  PROVE  HandleInv'
<1>1. \A v \in VMs : conn'[v] = IF v \in S THEN NoConn ELSE conn[v]
  BY DEF GiveUp
<1>2. \A v \in VMs \ S : Over(v) => Over(v)'
  BY <1>1 DEF Over
<1>3. \A v \in VMs : /\ conn'[v].gen < nextGen'
                     /\ conn'[v].gen = 0 => conn'[v] = NoConn
                     /\ conn'[v].run <= run'[v]
  <2> SUFFICES ASSUME NEW v \in VMs
               PROVE  /\ conn'[v].gen < nextGen
                      /\ conn'[v].gen = 0 => conn'[v] = NoConn
                      /\ conn'[v].run <= run[v]
    OBVIOUS
  <2>1. nextGen \in Nat \ {0} /\ run[v] \in Nat
    BY DEF TypeOK, HcsTypeOK, HeldTypeOK, RunNumbers
  <2>2. CASE v \in S
    BY <1>1, <2>1, <2>2 DEF NoConn
  <2>3. CASE v \notin S
    BY <1>1, <2>3 DEF HandleInv
  <2> QED  BY <2>2, <2>3
<1>4. \A v \in undelivered' : conn'[v].gen # 0 /\ Over(v)'
  BY <1>1, <1>2 DEF HandleInv, TypeOK, HcsTypeOK
<1>5. \A e \in Range(events') :
        /\ e.gen # 0
        /\ e.gen < nextGen'
        /\ e.kind = "exited" /\ conn'[e.vm].gen = e.gen => Over(e.vm)'
  BY <1>1, <1>2, EventVms DEF HandleInv, NoConn
<1> QED  BY <1>3, <1>4, <1>5 DEF HandleInv

\* What an earlier process left does not come back before initialize.
LEMMA FreshStep ==
  ASSUME TypeOK, FreshInv, Next
  PROVE  FreshInv'
<1>1. CASE UNCHANGED <<phase, main, events, undelivered, conn>>
  BY <1>1 DEF FreshInv
<1>2. ASSUME NEW v \in VMs, GuestExits(v) \/ StartFails(v)
      PROVE  FreshInv'
  BY <1>2
     DEF GuestExits, StartFails, Gone, hcsVars, procVars, heldVars, FreshInv,
         NoConn
<1>3. ASSUME NEW v \in VMs,
             DeliverExit(v) \/ DeliverOther(v) \/ DeliverDisconnect(v)
      PROVE  FreshInv'
  BY <1>3
     DEF DeliverExit, DeliverOther, DeliverDisconnect, procVars, FreshInv,
         NoConn
<1>4. ASSUME NEW v \in VMs, StartCreates(v)
      PROVE  FreshInv'
  BY <1>4 DEF StartCreates, procVars, heldVars, FreshInv, NoConn
<1>5. ASSUME NEW v \in VMs, AskReaches(v)
      PROVE  FreshInv'
  BY <1>5
     DEF AskReaches, ShutdownReaches, RebootReaches, ForceStopReaches,
         Reached, Gone, procVars, heldVars, FreshInv, NoConn
<1>6. ASSUME NEW v \in VMs,
             StartVm(v) \/ StopVm(v) \/ ForceStopVm(v) \/ RebootVm(v)
             \/ DeleteVm(v) \/ OpenConsole(v) \/ Refused(v)
      PROVE  FreshInv'
  BY <1>6
     DEF StartVm, StopVm, ForceStopVm, RebootVm, DeleteVm, OpenConsole,
         Refused, Asked, Idle, Proceed, FreshInv
<1>7. CASE ListReads \/ ListLabels \/ ListFails \/ RefreshTakes \/ AdoptHolds
           \/ AdoptListens \/ RecordInstalledDesktops \/ FinishShutdowns
           \/ FinishForceStops \/ FinishReboots \/ DrainEvents
  BY <1>7
     DEF ListReads, ListLabels, ListFails, RefreshTakes, AdoptHolds,
         AdoptListens, RecordInstalledDesktops, FinishShutdowns,
         FinishForceStops, FinishReboots, DrainEvents, Idle, FreshInv
<1>8. CASE Initialize \/ Leave
  BY <1>8 DEF Initialize, Leave, FreshInv
<1>9. CASE Left \/ Crash
  BY <1>9 DEF Left, Crash, ProcessEnds, Each, FreshInv
<1> QED
  BY <1>1, <1>2, <1>3, <1>4, <1>5, <1>6, <1>7, <1>8, <1>9
     DEF Next, Hcs, StartWorker, User, Refreshing, ConsoleEnds, WindowCloses,
         GuestOffersDisplay, StartPrepares, StartLaunches, OpenDisplay,
         AskAnswered, AskFails, Proceed, hcsVars, storeVars, procVars,
         heldVars, runVars, workVars

\* Generations and exits.  A watch that is dropped or replaced takes what it owed
\* with it, and what it queued has a generation that is never given again.
LEMMA HandleStep ==
  ASSUME TypeOK, FreshInv, HandleInv, Next
  PROVE  HandleInv'
<1>1. CASE UNCHANGED <<sys, run, undelivered, conn, nextGen, events>>
  BY <1>1 DEF HandleInv, Over
<1>2. ASSUME NEW v \in VMs, GuestExits(v)
      PROVE  HandleInv'
  BY <1>2
     DEF GuestExits, Gone, Present, heldVars, NoConn, HandleInv, Over, TypeOK,
         HcsTypeOK, HeldTypeOK
<1>3. ASSUME NEW v \in VMs, DeliverExit(v)
      PROVE  HandleInv'
  <2>1. conn[v].gen # 0 /\ conn[v].gen < nextGen /\ Over(v)
    BY <1>3 DEF DeliverExit, HandleInv, TypeOK, HcsTypeOK
  <2>2. \A e \in Range(events') :
          e \in Range(events) \/ e = [vm |-> v, gen |-> conn[v].gen, kind |-> "exited"]
    BY <1>3, QueuedOne DEF DeliverExit, EventKinds
  <2> QED  BY <1>3, <2>1, <2>2 DEF DeliverExit, HandleInv, Over
<1>4. ASSUME NEW v \in VMs, DeliverOther(v) \/ DeliverDisconnect(v)
      PROVE  HandleInv'
  <2>1. conn[v].gen # 0 /\ conn[v].gen < nextGen
    BY <1>4 DEF DeliverOther, DeliverDisconnect, HandleInv, NoConn
  <2>2. PICK kind \in {"other", "disconnect"} :
          events' = Push(events, [vm |-> v, gen |-> conn[v].gen, kind |-> kind])
    BY <1>4 DEF DeliverOther, DeliverDisconnect
  <2>3. kind \in EventKinds
    BY <2>2 DEF EventKinds
  <2>4. \A e \in Range(events') :
          \/ e \in Range(events)
          \/ e = [vm |-> v, gen |-> conn[v].gen, kind |-> kind]
    BY <2>2, <2>3, QueuedOne
  <2> QED  BY <1>4, <2>1, <2>2, <2>4 DEF DeliverOther, DeliverDisconnect, HandleInv, Over
<1>5. ASSUME NEW v \in VMs, StartCreates(v)
      PROVE  HandleInv'
  <2>1. \A w \in VMs : conn[w].run <= run[w] /\ run[w] \in Nat /\ conn[w].run \in Nat
    BY DEF HandleInv, TypeOK, HcsTypeOK, HeldTypeOK, Conns, RunNumbers
  <2>2. \A w \in VMs : Over(w) => Over(w)'
    BY <1>5, <2>1 DEF StartCreates, heldVars, Over, TypeOK, HcsTypeOK
  <2>3. \A w \in undelivered' \ undelivered : conn[w].gen # 0 /\ Over(w)'
    BY <1>5, <2>1 DEF StartCreates, heldVars, HandleInv, Over, NoConn, TypeOK, HcsTypeOK
  <2>4. \A w \in VMs : conn[w].run <= run'[w]
    BY <1>5, <2>1 DEF StartCreates, TypeOK, HcsTypeOK
  <2>5. \A e \in Range(events) : e.vm \in VMs
    BY EventVms
  <2> QED
    BY <1>5, <2>2, <2>3, <2>4, <2>5
       DEF StartCreates, heldVars, HandleInv, TypeOK, HcsTypeOK
<1>6. ASSUME NEW v \in VMs, StartLaunches(v)
      PROVE  HandleInv'
  BY <1>6, EventVms
     DEF StartLaunches, heldVars, HandleInv, Over, TypeOK, HcsTypeOK,
         HeldTypeOK
<1>7. ASSUME NEW v \in VMs, StartFails(v)
      PROVE  HandleInv'
  BY <1>7, EventVms
     DEF StartFails, Gone, Present, hcsVars, heldVars, NoConn, HandleInv,
         Over, TypeOK, HcsTypeOK, HeldTypeOK
<1>8. ASSUME NEW v \in VMs, DeleteVm(v)
      PROVE  HandleInv'
  <2>1. /\ \A w \in VMs : sys'[w] = sys[w] \/ sys'[w] = "absent"
        /\ UNCHANGED <<run, nextGen, events>>
    BY <1>8 DEF DeleteVm, Gone, TypeOK, HcsTypeOK
  <2>2. CASE conn' = [conn EXCEPT ![v] = NoConn] /\ Unwatch({v})
    <3>1. conn' = GiveUp(conn, {v}, NoConn)
      BY <2>2 DEF GiveUp, TypeOK, HeldTypeOK
    <3> QED  BY <2>1, <2>2, <3>1, GiveUpHandles DEF Unwatch
  <2>3. CASE conn' = conn /\ (Gone(v) \/ UNCHANGED <<sys, undelivered>>)
    BY <2>1, <2>3, EventVms
       DEF Gone, Present, NoConn, HandleInv, Over, TypeOK, HcsTypeOK, HeldTypeOK
  <2> QED  BY <1>8, <2>2, <2>3 DEF DeleteVm
<1>9. ASSUME NEW v \in VMs, AskReaches(v)
      PROVE  HandleInv'
  <2>1. CASE ShutdownReaches(v) \/ RebootReaches(v)
    BY <2>1
       DEF ShutdownReaches, RebootReaches, Reached, heldVars, HandleInv, Over
  <2>2. CASE ForceStopReaches(v)
    BY <2>2, EventVms
       DEF ForceStopReaches, Reached, Gone, Present, heldVars, NoConn,
           HandleInv, Over, TypeOK, HcsTypeOK, HeldTypeOK
  <2> QED  BY <1>9, <2>1, <2>2 DEF AskReaches
<1>10. CASE AdoptHolds
  <2> DEFINE v == Head(adopting)[1]
  <2>1. v \in VMs
    BY <1>10 DEF AdoptHolds, TypeOK, WorkTypeOK, Products
  <2>2. CASE UNCHANGED <<conn, nextGen, undelivered>>
    BY <1>10, <2>2 DEF AdoptHolds, HandleInv, Over
  <2>3. CASE ~UNCHANGED <<conn, nextGen, undelivered>>
    <3>1. /\ \A w \in VMs : w # v => conn'[w] = conn[w]
          /\ conn'[v].gen = nextGen /\ conn'[v].run = run[v]
          /\ nextGen' = nextGen + 1 /\ undelivered' = undelivered \ {v}
          /\ UNCHANGED <<sys, run, events>>
      BY <1>10, <2>1, <2>3 DEF AdoptHolds, Unwatch, TypeOK, HeldTypeOK
    <3>2. nextGen \in Nat \ {0} /\ run[v] \in Nat
      BY <2>1 DEF TypeOK, HcsTypeOK, HeldTypeOK, RunNumbers
    <3>3. \A w \in VMs : w # v /\ Over(w) => Over(w)'
      BY <3>1 DEF Over
    <3>4. \A w \in VMs : conn[w].gen \in Nat
      BY DEF TypeOK, HeldTypeOK, Conns
    <3>5. \A e \in Range(events) : e.vm \in VMs /\ e.gen \in Nat
      BY EventVms
    <3> HIDE DEF v
    <3> QED
      BY <2>1, <3>1, <3>2, <3>3, <3>4, <3>5 DEF HandleInv, NoConn, TypeOK, HcsTypeOK
  <2> QED  BY <2>2, <2>3
<1>11. CASE FinishShutdowns \/ FinishForceStops
  BY <1>11, GiveUpHandles DEF FinishShutdowns, FinishForceStops, Unwatch
<1>12. CASE DrainEvents
  BY <1>12, GiveUpHandles, EmptyRange DEF DrainEvents, Unwatch
<1>13. CASE Initialize
  <2>0. Reconnect
    BY <1>13 DEF Initialize
  <2>1. PICK held \in IF "open" \in Faults THEN SUBSET Findable ELSE {Findable} :
          /\ nextGen' = Cardinality(held) + 1
          /\ \E gen \in [held -> 1..Cardinality(held)],
                watches \in [held -> MayFail("watch")] :
               conn' = [v \in VMs |->
                          IF v \in held THEN [gen |-> gen[v], run |-> run[v],
                                              watched |-> watches[v]]
                                        ELSE NoConn]
    BY <2>0 DEF Reconnect
  <2>2. Cardinality(held) \in Nat
    <3>1. held \subseteq VMs
      BY <2>1 DEF Findable, TypeOK, StoreTypeOK
    <3> QED  BY <3>1, ConstantsAssumption, FS_Subset, FS_CardinalityType
  <2>3. \A v \in VMs : /\ conn'[v].gen < nextGen'
                       /\ conn'[v].gen = 0 => conn'[v] = NoConn
                       /\ conn'[v].run <= run[v]
    BY <2>1, <2>2 DEF NoConn, TypeOK, HcsTypeOK, RunNumbers
  <2>4. UNCHANGED <<run, undelivered, events>> /\ undelivered = {} /\ events = <<>>
    BY <1>13 DEF Initialize, hcsVars, FreshInv
  <2> QED  BY <2>3, <2>4, EmptyRange DEF HandleInv
<1>14. CASE Left \/ Crash
  <2>1. ProcessEnds
    BY <1>14 DEF Left, Crash
  <2>2. Range(events') = {} /\ undelivered' = {}
    BY <2>1, EmptyRange DEF ProcessEnds
  <2>3. \A v \in VMs : conn'[v] = NoConn /\ run'[v] \in Nat
    BY <2>1 DEF ProcessEnds, Each, TypeOK, HcsTypeOK, RunNumbers
  <2>4. nextGen' = 1
    BY <2>1 DEF ProcessEnds
  <2> QED  BY <2>2, <2>3, <2>4 DEF HandleInv, NoConn
<1> QED
  BY <1>1, <1>2, <1>3, <1>4, <1>5, <1>6, <1>7, <1>8, <1>9, <1>10, <1>11,
     <1>12, <1>13, <1>14
     DEF Next, Hcs, StartWorker, User, Refreshing, ConsoleEnds, WindowCloses,
         GuestOffersDisplay, StartPrepares, StartVm, StopVm, ForceStopVm,
         RebootVm, OpenConsole, OpenDisplay, Refused, AskAnswered, AskFails,
         ListReads, ListLabels, ListFails, RefreshTakes, AdoptListens, Leave,
         RecordInstalledDesktops, FinishReboots, Proceed, hcsVars, storeVars,
         procVars, heldVars, runVars, workVars

\* Rows and starts.
LEMMA RowsStep ==
  ASSUME TypeOK, BoundsInv, FreshInv, RowsInv, Next
  PROVE  RowsInv'
<1>1. CASE UNCHANGED <<main, phase, listed, starting, parked, adopting>>
  BY <1>1 DEF RowsInv, Waits
<1>2. ASSUME NEW v \in VMs,
             StartPrepares(v) \/ StartCreates(v) \/ StartFails(v)
      PROVE  RowsInv'
  BY <1>2
     DEF StartPrepares, StartCreates, StartFails, procVars, RowsInv, Waits,
         TypeOK, WorkTypeOK
<1>3. ASSUME NEW v \in VMs, StartLaunches(v)
      PROVE  RowsInv'
  BY <1>3 DEF StartLaunches, procVars, RowsInv, Waits, TypeOK, WorkTypeOK
<1>4. ASSUME NEW v \in VMs, StartVm(v)
      PROVE  RowsInv'
  BY <1>4 DEF StartVm, Asked, Idle, Proceed, RowsInv, Waits
<1>5. ASSUME NEW v \in VMs,
             StopVm(v) \/ ForceStopVm(v) \/ RebootVm(v) \/ DeleteVm(v)
             \/ OpenConsole(v) \/ Refused(v)
      PROVE  RowsInv'
  BY <1>5
     DEF StopVm, ForceStopVm, RebootVm, DeleteVm, OpenConsole, Refused, Asked,
         Idle, Proceed, workVars, RowsInv, Waits
<1>6. CASE ListReads \/ ListFails
  BY <1>6 DEF ListReads, ListFails, Idle, workVars, RowsInv, Waits
<1>7. CASE ListLabels
  BY <1>7 DEF ListLabels, Row, workVars, RowsInv, Waits
<1>8. CASE RefreshTakes \/ AdoptHolds \/ AdoptListens
  BY <1>8 DEF RefreshTakes, AdoptHolds, AdoptListens, workVars, RowsInv, Waits
<1>9. CASE RecordInstalledDesktops \/ FinishShutdowns \/ FinishForceStops
           \/ FinishReboots \/ DrainEvents
  BY <1>9
     DEF RecordInstalledDesktops, FinishShutdowns, FinishForceStops,
         FinishReboots, DrainEvents, workVars, RowsInv, Waits
<1>10. CASE Initialize \/ Leave
  BY <1>10 DEF Initialize, Leave, FreshInv, workVars, RowsInv, Waits
<1>11. CASE Left \/ Crash
  BY <1>11 DEF Left, Crash, ProcessEnds, Each, RowsInv, Waits
<1> QED
  BY <1>1, <1>2, <1>3, <1>4, <1>5, <1>6, <1>7, <1>8, <1>9, <1>10, <1>11
     DEF Next, Hcs, StartWorker, User, Refreshing, GuestExits, DeliverExit,
         DeliverOther, DeliverDisconnect, ConsoleEnds, WindowCloses,
         GuestOffersDisplay, OpenDisplay, AskReaches, ShutdownReaches,
         RebootReaches, ForceStopReaches, Reached, AskAnswered, AskFails,
         Proceed, hcsVars, storeVars, procVars, heldVars, runVars, workVars

\* A deleted VM.
LEMMA DeletedStep ==
  ASSUME TypeOK, BoundsInv, RowsInv, DeletedInv, Next
  PROVE  DeletedInv'
<1>1. CASE UNCHANGED <<sys, known, conn, agent, console, starting, parked, adopting>>
  BY <1>1 DEF DeletedInv
<1>2. ASSUME NEW v \in VMs, GuestExits(v) \/ ConsoleEnds(v)
      PROVE  DeletedInv'
  BY <1>2
     DEF GuestExits, ConsoleEnds, Gone, storeVars, heldVars, runVars,
         workVars, hcsVars, NoConsole, DeletedInv, TypeOK, HcsTypeOK,
         RunTypeOK
<1>3. ASSUME NEW v \in VMs, StartPrepares(v) \/ StartCreates(v)
      PROVE  DeletedInv'
  BY <1>3
     DEF StartPrepares, StartCreates, hcsVars, storeVars, heldVars, runVars,
         DeletedInv, TypeOK, HcsTypeOK, WorkTypeOK
<1>4. ASSUME NEW v \in VMs, StartLaunches(v)
      PROVE  DeletedInv'
  BY <1>4
     DEF StartLaunches, storeVars, heldVars, runVars, Waits, DeletedInv,
         TypeOK, HcsTypeOK, WorkTypeOK
<1>5. ASSUME NEW v \in VMs, StartFails(v)
      PROVE  DeletedInv'
  BY <1>5
     DEF StartFails, Gone, hcsVars, storeVars, heldVars, runVars, DeletedInv,
         TypeOK, HcsTypeOK, WorkTypeOK
<1>6. ASSUME NEW v \in VMs, AskReaches(v)
      PROVE  DeletedInv'
  BY <1>6
     DEF AskReaches, ShutdownReaches, RebootReaches, ForceStopReaches,
         Reached, Gone, storeVars, heldVars, runVars, DeletedInv, TypeOK,
         HcsTypeOK
<1>7. ASSUME NEW v \in VMs, StartVm(v)
      PROVE  DeletedInv'
  BY <1>7
     DEF StartVm, Asked, Accepts, hcsVars, storeVars, heldVars, runVars,
         DeletedInv, TypeOK, WorkTypeOK
<1>8. ASSUME NEW v \in VMs, StopVm(v) \/ OpenConsole(v)
      PROVE  DeletedInv'
  BY <1>8
     DEF StopVm, OpenConsole, Asked, Accepts, Show, Reap, NoConsole, hcsVars,
         storeVars, heldVars, workVars, DeletedInv, TypeOK, RunTypeOK
<1>9. ASSUME NEW v \in VMs, Refused(v)
      PROVE  DeletedInv'
  BY <1>9
     DEF Refused, Reap, NoConsole, hcsVars, storeVars, heldVars, workVars,
         DeletedInv
<1>10. ASSUME NEW v \in VMs, DeleteVm(v)
      PROVE  DeletedInv'
  <2>1. starting[v] = "none" /\ ~Waits(v, parked) /\ ~Waits(v, adopting)
    BY <1>10 DEF DeleteVm, Asked, Accepts, Offered, Idle, RowsInv, Waits
  <2>2. /\ UNCHANGED <<starting, parked, adopting>>
        /\ console'[v] = NoConsole /\ agent'[v] = NoAgent
        /\ \A w \in VMs : w # v => /\ console'[w] = console[w]
                                   /\ agent'[w] = agent[w]
                                   /\ sys'[w] = sys[w]
                                   /\ conn'[w] = conn[w]
    BY <1>10 DEF DeleteVm, workVars, Gone, TypeOK, HcsTypeOK, HeldTypeOK, RunTypeOK
  <2>3. \/ known' = known
        \/ known' = known \ {v} /\ sys'[v] = "absent" /\ conn'[v] = NoConn
    BY <1>10 DEF DeleteVm, TypeOK, HcsTypeOK, HeldTypeOK
  <2>4. v \in known
    BY <1>10 DEF DeleteVm, Asked, Accepts
  <2> QED  BY <2>1, <2>2, <2>3, <2>4 DEF DeletedInv, Waits
<1>11. CASE RefreshTakes
  BY <1>11
     DEF RefreshTakes, Waits, hcsVars, storeVars, heldVars, runVars,
         DeletedInv
<1>12. CASE AdoptHolds
  <2> DEFINE v == Head(adopting)[1]
  <2>1. v \in VMs /\ Waits(v, adopting)
    BY <1>12 DEF AdoptHolds, Waits, TypeOK, WorkTypeOK, Products
  <2>2. \A w \in VMs : w # v => console'[w] = console[w] /\ conn'[w] = conn[w]
    BY <1>12, <2>1 DEF AdoptHolds, TypeOK, HeldTypeOK, RunTypeOK
  <2>3. UNCHANGED <<sys, known, agent, starting, parked, adopting>>
    BY <1>12 DEF AdoptHolds, storeVars, workVars
  <2> HIDE DEF v
  <2> QED  BY <2>1, <2>2, <2>3 DEF DeletedInv, Waits
<1>13. CASE AdoptListens
  <2> DEFINE v == Head(adopting)[1]
  <2>1. adopting # <<>> /\ adopting \in Seq(Products)
    BY <1>13 DEF AdoptListens, BoundsInv, TypeOK, WorkTypeOK
  <2>2. v \in VMs /\ Waits(v, adopting)
    BY <2>1 DEF Waits, Products
  <2>3. \A w \in VMs : w # v => agent'[w] = agent[w]
    BY <1>13, <2>2 DEF AdoptListens, TypeOK, RunTypeOK
  <2>4. \A w \in VMs : ~Waits(w, adopting) => ~Waits(w, adopting)'
    BY <1>13, <2>1 DEF AdoptListens, Waits
  <2>5. UNCHANGED <<sys, known, conn, console, starting, parked>>
    BY <1>13 DEF AdoptListens, hcsVars, storeVars, heldVars
  <2> HIDE DEF v
  <2> QED  BY <2>2, <2>3, <2>4, <2>5 DEF DeletedInv, Waits
<1>14. CASE FinishShutdowns \/ FinishForceStops \/ DrainEvents
  BY <1>14
     DEF FinishShutdowns, FinishForceStops, DrainEvents, GiveUp, Reap,
         NoConsole, storeVars, workVars, DeletedInv
<1>15. CASE Initialize
  BY <1>15
     DEF Initialize, Reconnect, Findable, Running, hcsVars, storeVars,
         workVars, DeletedInv
<1>16. CASE Leave
  BY <1>16 DEF Leave, Each, hcsVars, storeVars, heldVars, workVars, DeletedInv
<1>17. CASE Left \/ Crash
  BY <1>17 DEF Left, Crash, ProcessEnds, Each, Waits, storeVars, DeletedInv
<1> QED
  BY <1>1, <1>2, <1>3, <1>4, <1>5, <1>6, <1>7, <1>8, <1>9, <1>10, <1>11,
     <1>12, <1>13, <1>14, <1>15, <1>16, <1>17
     DEF Next, Hcs, StartWorker, User, Refreshing, DeliverExit, DeliverOther,
         DeliverDisconnect, WindowCloses, GuestOffersDisplay, ForceStopVm,
         RebootVm, OpenDisplay, AskAnswered, AskFails, ListReads, ListLabels,
         ListFails, RecordInstalledDesktops, FinishReboots, Proceed, hcsVars,
         storeVars, procVars, heldVars, runVars, workVars

\* Queued events.  Every step that ends a watch leaves the main thread inside a
\* refresh, whose last step empties the queue.
LEMMA QueuedStep ==
  ASSUME TypeOK, FreshInv, QueuedEventsAreCurrent, Next
  PROVE  QueuedEventsAreCurrent'
<1>1. CASE UNCHANGED <<main, events, conn>>
  BY <1>1 DEF QueuedEventsAreCurrent
<1>2. ASSUME NEW v \in VMs,
             DeliverExit(v) \/ DeliverOther(v) \/ DeliverDisconnect(v)
      PROVE  QueuedEventsAreCurrent'
  <2>1. PICK kind \in EventKinds :
          events' = Push(events, [vm |-> v, gen |-> conn[v].gen, kind |-> kind])
    BY <1>2 DEF DeliverExit, DeliverOther, DeliverDisconnect, EventKinds
  <2>2. UNCHANGED <<main, conn>>
    BY <1>2 DEF DeliverExit, DeliverOther, DeliverDisconnect, procVars
  <2> QED  BY <2>1, <2>2, QueuedOne DEF QueuedEventsAreCurrent
<1>3. ASSUME NEW v \in VMs,
             StartVm(v) \/ StopVm(v) \/ ForceStopVm(v) \/ RebootVm(v)
             \/ DeleteVm(v) \/ OpenConsole(v) \/ Refused(v)
      PROVE  QueuedEventsAreCurrent'
  BY <1>3
     DEF StartVm, StopVm, ForceStopVm, RebootVm, DeleteVm, OpenConsole,
         Refused, Asked, Idle, Proceed, heldVars, QueuedEventsAreCurrent
<1>4. CASE ListReads \/ ListLabels \/ ListFails \/ RefreshTakes \/ AdoptHolds
           \/ AdoptListens \/ RecordInstalledDesktops \/ FinishShutdowns
           \/ FinishForceStops \/ FinishReboots
  BY <1>4
     DEF ListReads, ListLabels, ListFails, RefreshTakes, AdoptHolds,
         AdoptListens, RecordInstalledDesktops, FinishShutdowns,
         FinishForceStops, FinishReboots, QueuedEventsAreCurrent
<1>5. CASE DrainEvents
  BY <1>5, EmptyRange DEF DrainEvents, QueuedEventsAreCurrent
<1>6. CASE Initialize
  BY <1>6 DEF Initialize, QueuedEventsAreCurrent
<1>7. CASE Left \/ Crash
  BY <1>7, EmptyRange DEF Left, Crash, ProcessEnds, QueuedEventsAreCurrent
<1> QED
  BY <1>1, <1>2, <1>3, <1>4, <1>5, <1>6, <1>7
     DEF Next, Hcs, StartWorker, User, Refreshing, GuestExits, ConsoleEnds,
         WindowCloses, GuestOffersDisplay, StartPrepares, StartCreates,
         StartLaunches, StartFails, OpenDisplay, AskReaches, ShutdownReaches,
         RebootReaches, ForceStopReaches, Reached, AskAnswered, AskFails,
         Leave, Proceed, hcsVars, storeVars, procVars, heldVars, runVars,
         workVars

------------------------------------------------------------------------------
\* The initial state.
LEMMA InitInv == Init => Inv
<1> SUFFICES ASSUME Init PROVE Inv
  OBVIOUS
<1>1. TypeOK
  BY ConstantsAssumption, Nones, EmptyQueue
     DEF Init, Each, TypeOK, HcsTypeOK, StoreTypeOK, ProcTypeOK, HeldTypeOK,
         RunTypeOK, WorkTypeOK, SysStates
<1>2. BoundsInv /\ FreshInv /\ RowsInv
  BY DEF Init, Each, BoundsInv, FreshInv, RowsInv
<1>3. HandleInv /\ QueuedEventsAreCurrent
  BY EmptyRange, Nones, ConstantsAssumption
     DEF Init, Each, NoConn, HandleInv, QueuedEventsAreCurrent
<1>4. DeletedInv
  BY DEF Init, DeletedInv
<1> QED  BY <1>1, <1>2, <1>3, <1>4 DEF Inv

\* Every step keeps the inductive invariant.
LEMMA NextInv == Inv /\ [Next]_vars => Inv'
<1> SUFFICES ASSUME Inv, [Next]_vars PROVE Inv'
  OBVIOUS
<1>1. CASE UNCHANGED vars
  BY <1>1 DEF Inv, TypeOK, HcsTypeOK, StoreTypeOK, ProcTypeOK, HeldTypeOK,
              RunTypeOK, WorkTypeOK, BoundsInv, FreshInv, HandleInv, Over,
              RowsInv, DeletedInv, Waits, QueuedEventsAreCurrent, vars, hcsVars,
              storeVars, procVars, heldVars, runVars, workVars
<1>2. CASE Next
  <2>1. TypeOK'
    BY <1>2, HcsTypes, StoreTypes, ProcTypes, HeldTypes, RunTypes, WorkTypes
       DEF Inv, TypeOK
  <2>2. BoundsInv' /\ FreshInv' /\ HandleInv'
    BY <1>2, Bounds, FreshStep, HandleStep DEF Inv
  <2>3. RowsInv' /\ DeletedInv' /\ QueuedEventsAreCurrent'
    BY <1>2, RowsStep, DeletedStep, QueuedStep DEF Inv
  <2> QED  BY <2>1, <2>2, <2>3 DEF Inv
<1> QED  BY <1>1, <1>2

\* The invariant.
LEMMA Invariance == Spec => []Inv
BY InitInv, NextInv, PTL DEF Spec

\* Every variable keeps its type and the event queue its capacity, for any VMs
\* and any bounds.
THEOREM TypeCorrect == Spec => []TypeOK
<1>1. Inv => TypeOK
  BY DEF Inv
<1> QED  BY <1>1, Invariance, PTL

\* Outside a refresh no event of a watch that is gone is queued.
THEOREM QueueIsCurrent == Spec => []QueuedEventsAreCurrent
<1>1. Inv => QueuedEventsAreCurrent
  BY DEF Inv
<1> QED  BY <1>1, Invariance, PTL

\* Nothing comes to be for a VM that was deleted.
THEOREM DeletedStaysDeleted == Spec => []DeletedHasNothing
<1>1. Inv => DeletedHasNothing
  BY DEF Inv, DeletedInv, DeletedHasNothing, Waits
<1> QED  BY <1>1, Invariance, PTL

\* A late exit never costs a live run its handle.
THEOREM LateExitsSpare == Spec => LateExitsSpareTheHandle
<1> DEFINE Spares ==
      DrainEvents /\ (\A e \in Range(events) : e.kind # "disconnect") =>
        \A v \in VMs : Alive(v, conn[v].run) => conn'[v] = conn[v]
<1>1. Inv => Spares
  <2> SUFFICES ASSUME Inv, DrainEvents,
                      \A e \in Range(events) : e.kind # "disconnect",
                      NEW v \in VMs, Alive(v, conn[v].run)
               PROVE  conn'[v] = conn[v]
    OBVIOUS
  <2>1. conn[v].gen # 0 /\ ~Over(v)
    BY DEF Inv, HandleInv, Over, Alive, NoConn, TypeOK, HcsTypeOK, RunNumbers
  <2>2. v \notin Released
    <3> SUFFICES ASSUME NEW e \in Current, e.kind = "exited", e.vm = v PROVE FALSE
      BY DEF Released, Current
    <3>1. e \in Range(events) /\ conn[v].gen = e.gen
      BY <2>1 DEF Current, Superseded
    <3> QED  BY <3>1, <2>1 DEF Inv, HandleInv
  <2> QED  BY <2>2 DEF DrainEvents, GiveUp
<1> QED  BY <1>1, Invariance, PTL DEF LateExitsSpareTheHandle, Spares

------------------------------------------------------------------------------
\* The run the VM is in is held, or its product is still to be adopted from one
\* of the sequences.
Tended(v, waiting) ==
  sys[v] = "running" => conn[v].run = run[v] \/ <<v, run[v]>> \in waiting

\* No call that opens a compute system fails.
OpensWork == "open" \notin Faults

\* Where no open fails, a handle is of the run the agent connection is of, once
\* that run has been adopted: AdoptHolds and AdoptListens are two steps, and the
\* compute system may be replaced between them.
AgentInv ==
  /\ OpensWork
  /\ \A v \in VMs : agent[v].run # 0 /\ agent[v].run = run[v] =>
                      Tended(v, Range(parked) \cup Range(adopting))
  /\ main = "listen" =>
       Tended(Head(adopting)[1], Range(parked) \cup Range(Tail(adopting)))

\* What a sequence holds is its head and what its tail holds; what is appended to
\* it, it holds as well.
LEMMA InQueue ==
  ASSUME NEW S, NEW q \in Seq(S)
  PROVE  /\ q # <<>> => \A x \in Range(q) : x = Head(q) \/ x \in Range(Tail(q))
         /\ \A x \in S : /\ x \in Range(Append(q, x))
                          /\ \A y \in Range(q) : y \in Range(Append(q, x))
<1>1. ASSUME q # <<>>, NEW i \in DOMAIN q
      PROVE  q[i] = Head(q) \/ q[i] \in Range(Tail(q))
  <2>1. CASE i = 1
    BY <1>1, <2>1
  <2>2. CASE i # 1
    <3>1. i \in 1..Len(q)
      OBVIOUS
    <3>2. i - 1 \in DOMAIN Tail(q) /\ Tail(q)[i - 1] = q[i]
      BY <1>1, <2>2, <3>1
    <3> QED  BY <3>2 DEF Range
  <2> QED  BY <2>1, <2>2
<1>2. ASSUME NEW x \in S
      PROVE  /\ x \in Range(Append(q, x))
             /\ \A y \in Range(q) : y \in Range(Append(q, x))
  <2>1. /\ Len(q) + 1 \in DOMAIN Append(q, x) /\ Append(q, x)[Len(q) + 1] = x
        /\ \A i \in DOMAIN q : i \in DOMAIN Append(q, x) /\ Append(q, x)[i] = q[i]
    OBVIOUS
  <2> QED  BY <2>1 DEF Range
<1> QED  BY <1>1, <1>2 DEF Range

\* A step that takes nothing from the queues, starts no run and gives up an agent
\* connection with the handle of its VM, if it does.
LEMMA AgentKept ==
  ASSUME TypeOK, AgentInv, UNCHANGED <<run, parked, adopting>>,
         \A v \in VMs : sys'[v] = "running" => sys[v] = "running",
         \A v \in VMs : agent'[v] = NoAgent \/ (agent'[v] = agent[v] /\ conn'[v] = conn[v]),
         main' = "listen" => main = "listen" /\ UNCHANGED conn,
         main = "listen" => adopting # <<>>
  PROVE  AgentInv'
<1>1. main = "listen" => Head(adopting)[1] \in VMs
  BY DEF TypeOK, WorkTypeOK, Products
<1>2. \A v \in VMs : agent'[v].run # 0 /\ agent'[v].run = run'[v] =>
        Tended(v, Range(parked) \cup Range(adopting))'
  BY DEF AgentInv, Tended, NoAgent
<1>3. main' = "listen" =>
        Tended(Head(adopting)[1], Range(parked) \cup Range(Tail(adopting)))'
  BY <1>1 DEF AgentInv, Tended
<1> QED  BY <1>2, <1>3 DEF AgentInv

LEMMA AgentStep ==
  ASSUME TypeOK, BoundsInv, FreshInv, RowsInv, AgentInv, Next
  PROVE  AgentInv'
<1>0. (main = "listen" => adopting # <<>>) /\ OpensWork
  BY DEF BoundsInv, AgentInv
<1>1. CASE UNCHANGED <<sys, run, conn, agent, parked, adopting, main>>
  BY <1>1, <1>0, AgentKept
<1>2. ASSUME NEW v \in VMs, GuestExits(v) \/ StartFails(v) \/ AskReaches(v) PROVE AgentInv'
  <2>1. /\ UNCHANGED <<run, parked, adopting, agent, conn, main>>
        /\ sys' \in {sys, [sys EXCEPT ![v] = "absent"]}
    BY <1>2 DEF GuestExits, StartFails, AskReaches, ShutdownReaches, RebootReaches,
                ForceStopReaches, Reached, Gone, hcsVars, procVars, heldVars, runVars, workVars
  <2>2. \A w \in VMs : sys'[w] = "running" => sys[w] = "running"
    BY <2>1 DEF TypeOK, HcsTypeOK
  <2> QED  BY <2>1, <2>2, <1>0, AgentKept
<1>3. ASSUME NEW v \in VMs, StartCreates(v) PROVE AgentInv'
  <2>1. UNCHANGED <<parked, adopting, agent, conn, main>>
    BY <1>3 DEF StartCreates, procVars, heldVars, runVars
  <2>2. \A w \in VMs : sys'[w] = "running" => sys[w] = "running" /\ run'[w] = run[w]
    BY <1>3 DEF StartCreates, TypeOK, HcsTypeOK
  <2>3. main = "listen" => Head(adopting)[1] \in VMs
    BY <1>0 DEF TypeOK, WorkTypeOK, Products
  <2> QED  BY <2>1, <2>2, <2>3 DEF AgentInv, Tended
<1>4. ASSUME NEW v \in VMs, StartLaunches(v) PROVE AgentInv'
  <2>1. /\ UNCHANGED <<run, adopting, agent, conn, main>>
        /\ parked' = Append(parked, <<v, run[v]>>)
        /\ \A w \in VMs : w # v => sys'[w] = sys[w]
    BY <1>4 DEF StartLaunches, procVars, heldVars, runVars, TypeOK, HcsTypeOK
  <2>2. /\ <<v, run[v]>> \in Range(parked')
        /\ \A x \in Range(parked) : x \in Range(parked')
    <3>1. parked \in Seq(Products) /\ <<v, run[v]>> \in Products
      BY DEF TypeOK, WorkTypeOK, HcsTypeOK, Products
    <3> QED  BY <2>1, <3>1, InQueue
  <2>3. main = "listen" => Head(adopting)[1] \in VMs
    BY <1>0 DEF TypeOK, WorkTypeOK, Products
  <2> QED  BY <2>1, <2>2, <2>3 DEF AgentInv, Tended
<1>5. ASSUME NEW v \in VMs,
             StartVm(v) \/ StopVm(v) \/ ForceStopVm(v) \/ RebootVm(v) \/ OpenConsole(v)
             \/ Refused(v)
      PROVE  AgentInv'
  <2>1. UNCHANGED <<sys, run, conn, agent, parked, adopting>> /\ main' # "listen"
    BY <1>5 DEF StartVm, StopVm, ForceStopVm, RebootVm, OpenConsole, Refused, Proceed,
                hcsVars, heldVars, runVars, workVars
  <2> QED  BY <2>1, <1>0, AgentKept
<1>6. ASSUME NEW v \in VMs, DeleteVm(v) PROVE AgentInv'
  <2>1. /\ UNCHANGED <<run, parked, adopting>> /\ main' # "listen"
        /\ agent' = [agent EXCEPT ![v] = NoAgent]
        /\ conn' \in {conn, [conn EXCEPT ![v] = NoConn]}
        /\ sys' \in {sys, [sys EXCEPT ![v] = "absent"]}
    BY <1>6 DEF DeleteVm, Proceed, Gone, workVars
  <2>2. \A w \in VMs : /\ sys'[w] = "running" => sys[w] = "running"
                       /\ agent'[w] = NoAgent \/ (agent'[w] = agent[w] /\ conn'[w] = conn[w])
    BY <2>1 DEF TypeOK, HcsTypeOK, HeldTypeOK, RunTypeOK
  <2> QED  BY <2>1, <2>2, <1>0, AgentKept
<1>7. CASE ListReads \/ ListFails \/ ListLabels \/ RecordInstalledDesktops \/ FinishReboots
  <2>1. UNCHANGED <<sys, run, conn, agent, parked, adopting>> /\ main' # "listen"
    BY <1>7 DEF ListReads, ListFails, ListLabels, RecordInstalledDesktops, FinishReboots,
                hcsVars, heldVars, runVars, workVars
  <2> QED  BY <2>1, <1>0, AgentKept
<1>8. CASE RefreshTakes
  <2>1. /\ UNCHANGED <<sys, run, conn, agent>> /\ adopting' = parked /\ main' = "adopt"
        /\ adopting = <<>>
    BY <1>8 DEF RefreshTakes, RowsInv, hcsVars, heldVars, runVars
  <2> QED  BY <2>1, EmptyRange DEF AgentInv, Tended
<1>9. CASE AdoptHolds
  <2> DEFINE v == Head(adopting)[1]
  <2>1. /\ UNCHANGED <<sys, run, agent, parked, adopting>> /\ v \in VMs
        /\ \A w \in VMs : w # v => conn'[w] = conn[w]
        /\ sys[v] = "running" => conn'[v].run = run[v]
    BY <1>9, <1>0 DEF AdoptHolds, Present, MayFail, OpensWork, workVars, TypeOK, WorkTypeOK, HeldTypeOK, Products
  <2> QED  BY <1>0, <2>1 DEF AgentInv, Tended
<1>10. CASE AdoptListens
  <2> DEFINE v == Head(adopting)[1]
  <2>1. /\ UNCHANGED <<sys, run, conn, parked>> /\ v \in VMs /\ main' = "adopt"
        /\ adopting' = Tail(adopting) /\ main = "listen" /\ adopting # <<>>
        /\ \A w \in VMs : w # v => agent'[w] = agent[w]
    BY <1>10, <1>0
       DEF AdoptListens, hcsVars, heldVars, TypeOK, WorkTypeOK, RunTypeOK, Products
  <2>2. \A w \in VMs : w # v /\ <<w, run[w]>> \in Range(adopting)
                         => <<w, run[w]>> \in Range(adopting')
    BY <2>1, InQueue DEF TypeOK, WorkTypeOK
  <2> QED  BY <2>1, <2>2 DEF AgentInv, Tended
<1>11. CASE FinishShutdowns \/ FinishForceStops \/ DrainEvents
  <2>1. PICK S : agent' = GiveUp(agent, S, NoAgent) /\ conn' = GiveUp(conn, S, NoConn)
    BY <1>11 DEF FinishShutdowns, FinishForceStops, DrainEvents
  <2>2. UNCHANGED <<sys, run, parked, adopting>> /\ main' # "listen"
    BY <1>11 DEF FinishShutdowns, FinishForceStops, DrainEvents, workVars
  <2>3. \A w \in VMs : agent'[w] = NoAgent \/ (agent'[w] = agent[w] /\ conn'[w] = conn[w])
    BY <2>1 DEF GiveUp
  <2> QED  BY <2>2, <2>3, <1>0, AgentKept
<1>12. CASE Initialize
  <2>1. main' = "list" /\ UNCHANGED <<sys, run>>
    BY <1>12 DEF Initialize, hcsVars
  <2>2. \A w \in Findable : conn'[w].run = run[w]
    <3>1. PICK held \in {Findable} :
            \E gen \in [held -> 1..Cardinality(held)], watches \in [held -> MayFail("watch")] :
              conn' = [w \in VMs |->
                         IF w \in held THEN [gen |-> gen[w], run |-> run[w],
                                            watched |-> watches[w]]
                                       ELSE NoConn]
      <4>1. Reconnect
        BY <1>12 DEF Initialize
      <4>2. (IF "open" \in Faults THEN SUBSET Findable ELSE {Findable}) = {Findable}
        BY <1>0 DEF OpensWork
      <4>3. PICK held \in IF "open" \in Faults THEN SUBSET Findable ELSE {Findable} :
              \E gen \in [held -> 1..Cardinality(held)], watches \in [held -> MayFail("watch")] :
                /\ IsInjective(gen)
                /\ conn' = [w \in VMs |->
                             IF w \in held THEN [gen |-> gen[w], run |-> run[w],
                                                watched |-> watches[w]]
                                           ELSE NoConn]
                /\ nextGen' = Cardinality(held) + 1
        BY <4>1, Zenon DEF Reconnect
      <4>4. held \in {Findable}
        BY <4>2, <4>3
      <4> QED  BY <4>3, <4>4
    <3>2. Findable \subseteq VMs
      BY DEF Findable, TypeOK, StoreTypeOK
    <3> QED  BY <3>1, <3>2
  <2>3. \A w \in VMs : agent'[w].run # 0 => w \in Running
    BY <1>12 DEF Initialize, NoAgent
  <2>4. \A w \in Running : w \in Findable
    BY DEF Running, Findable, Present
  <2>5. \A w \in VMs : agent'[w].run # 0 => conn'[w].run = run[w]
    BY <2>2, <2>3, <2>4
  <2> QED  BY <1>0, <2>1, <2>5 DEF AgentInv, Tended
<1>13. CASE Leave
  <2>1. /\ UNCHANGED <<sys, run, conn, parked, adopting>> /\ main' # "listen"
        /\ \A w \in VMs : agent'[w] = NoAgent
    BY <1>13 DEF Leave, Each, hcsVars, heldVars, workVars
  <2> QED  BY <2>1, <1>0, AgentKept
<1>14. CASE Left \/ Crash
  <2>1. main' # "listen" /\ \A w \in VMs : agent'[w].run = 0
    BY <1>14 DEF Left, Crash, ProcessEnds, Each, NoAgent
  <2> QED  BY <1>0, <2>1 DEF AgentInv
<1> QED
  BY <1>1, <1>2, <1>3, <1>4, <1>5, <1>6, <1>7, <1>8, <1>9, <1>10, <1>11, <1>12,
     <1>13, <1>14
     DEF Next, Hcs, StartWorker, User, Refreshing, DeliverExit, StartPrepares,
         DeliverOther, DeliverDisconnect, ConsoleEnds, WindowCloses,
         GuestOffersDisplay, OpenDisplay, AskAnswered, AskFails,
         hcsVars, storeVars, procVars, heldVars, runVars, workVars

\* Where no call that opens a compute system fails, a late exit costs the live run
\* neither its handle nor its agent connection, once the run has been adopted: an
\* open that failed leaves the VM with the handle and the watch of an earlier run,
\* whose exit then ends the connection of this one (reconnect.rs, repository.rs).
THEOREM LateExitsSpareAgents == OpensWork /\ Spec => LateExitsSpareTheAgent
<1> DEFINE Spares ==
      DrainEvents /\ (\A e \in Range(events) : e.kind # "disconnect") =>
        \A v \in VMs :
          Alive(v, agent[v].run) /\ <<v, agent[v].run>> \notin Range(parked)
            => agent'[v] = agent[v]
<1>1. Inv /\ AgentInv => Spares
  <2> SUFFICES ASSUME Inv, AgentInv, DrainEvents,
                      \A e \in Range(events) : e.kind # "disconnect",
                      NEW v \in VMs, Alive(v, agent[v].run),
                      <<v, agent[v].run>> \notin Range(parked)
               PROVE  agent'[v] = agent[v]
    OBVIOUS
  <2>1. Range(adopting) = {}
    BY EmptyRange DEF Inv, RowsInv, DrainEvents
  <2>2. conn[v].run = run[v] /\ run[v] # 0 /\ sys[v] = "running"
    BY <2>1 DEF AgentInv, Tended, Alive
  <2>3. conn[v].gen # 0 /\ ~Over(v)
    BY <2>2 DEF Inv, HandleInv, Over, NoConn, TypeOK, HcsTypeOK, RunNumbers
  <2>4. v \notin Released
    <3> SUFFICES ASSUME NEW e \in Current, e.kind = "exited", e.vm = v PROVE FALSE
      BY DEF Released, Current
    <3>1. e \in Range(events) /\ conn[v].gen = e.gen
      BY <2>3 DEF Current, Superseded
    <3> QED  BY <3>1, <2>3 DEF Inv, HandleInv
  <2> QED  BY <2>4 DEF DrainEvents, GiveUp
<1>2. OpensWork /\ Init => AgentInv
  BY DEF Init, Each, AgentInv, NoAgent
<1>3. Inv /\ AgentInv /\ [Next]_vars => AgentInv'
  <2> SUFFICES ASSUME Inv, AgentInv, [Next]_vars PROVE AgentInv'
    OBVIOUS
  <2>1. CASE UNCHANGED vars
    BY <2>1 DEF AgentInv, Tended, vars, hcsVars, procVars, heldVars, runVars, workVars
  <2>2. CASE Next
    BY <2>2, AgentStep DEF Inv
  <2> QED  BY <2>1, <2>2
<1> QED  BY <1>1, <1>2, <1>3, Invariance, PTL DEF Spec, LateExitsSpareTheAgent, Spares
=============================================================================
