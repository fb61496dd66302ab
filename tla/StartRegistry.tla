---------------------------- MODULE StartRegistry ----------------------------
(***************************************************************************)
(* The VMs being started in the background: platform start_registry.rs,   *)
(* and build.rs BuildRegistry, which has the same shape.                   *)
(*                                                                         *)
(* A worker thread stores its outcome and then sets `finished`; any query  *)
(* of the main thread reaps the finished entries into `started`, and       *)
(* take_started empties that queue.  The flag is a Relaxed atomic, but the *)
(* outcome is behind a mutex the worker released before storing it, so a   *)
(* reader that sees the flag also sees the outcome: the two stores are two *)
(* steps here, in that order.                                              *)
(*                                                                         *)
(* A product (StartedVm) is the pair of its VM's name and the number of    *)
(* the start that made it, so that two products of one VM differ.          *)
(***************************************************************************)
EXTENDS Naturals, Sequences, FiniteSets, Functions

CONSTANTS Names,      \* VM names
          MaxStarts   \* bound on the starts accepted in one behaviour

ASSUME MaxStartsAssumption == MaxStarts \in Nat
ASSUME NamesAssumption == IsFiniteSet(Names)

VARIABLES
  starts,    \* name -> its entry's worker: "none", "running", "stored", "ended"
  ticket,    \* name -> the number of the start its entry belongs to, 0 if none
  stored,    \* names whose entry's outcome cell holds a product
  started,   \* StartRegistry::started, a sequence of products
  taken,     \* products handed over by take_started, in order
  accepted,  \* starts accepted so far
  produced,  \* every product a worker ever stored
  phase,     \* "open", "draining" (inside join_all) or "joined"
  waiting    \* the name, if any, whose thread join_all is waiting for

vars == <<starts, ticket, stored, started, taken, accepted, produced, phase,
          waiting>>

Products == Names \X (1..MaxStarts)

TypeOK ==
  /\ starts \in [Names -> {"none", "running", "stored", "ended"}]
  /\ ticket \in [Names -> 0..MaxStarts]
  /\ stored \subseteq Names
  /\ started \in Seq(Products)
  /\ taken \in Seq(Products)
  /\ accepted \in 0..MaxStarts
  /\ produced \subseteq Products
  /\ phase \in {"open", "draining", "joined"}
  /\ waiting \subseteq Names

Init ==
  /\ starts = [n \in Names |-> "none"]
  /\ ticket = [n \in Names |-> 0]
  /\ stored = {}
  /\ started = <<>>
  /\ taken = <<>>
  /\ accepted = 0
  /\ produced = {}
  /\ phase = "open"
  /\ waiting = {}
------------------------------------------------------------------------------
(* The main thread. *)

Product(n) == <<n, ticket[n]>>

\* The sequences that hold every element of S once: a HashMap is iterated in
\* an order nobody chose.
Orders(S) == {s \in [1..Cardinality(S) -> S] : Range(s) = S}

\* The entries a reap removes: those whose flag is set.
Finished == {n \in Names : starts[n] = "ended"}

\* What collect_into moves out of the entries a reap removes.
Reapable == {Product(n) : n \in Finished \cap stored}

\* reap: remove, collect and join every finished entry.  Joining does not
\* wait: setting the flag is the last thing the thread does.
ReapEntries ==
  /\ starts' = [n \in Names |-> IF n \in Finished THEN "none" ELSE starts[n]]
  /\ ticket' = [n \in Names |-> IF n \in Finished THEN 0 ELSE ticket[n]]
  /\ stored' = stored \ Finished

\* Mutant of Contains: the reap returns its products and the query drops them.
ContainsDropsProducts ==
  /\ phase = "open"
  /\ Finished # {}
  /\ ReapEntries
  /\ UNCHANGED <<started, taken, accepted, produced, phase, waiting>>

\* contains and refuse_if_starting: every operation that may not run on a VM
\* that is starting asks, and every question reaps.
Contains ==
  /\ phase = "open"
  /\ Finished # {}
  /\ ReapEntries
  /\ \E order \in Orders(Reapable) : started' = started \o order
  /\ UNCHANGED <<taken, accepted, produced, phase, waiting>>

\* StartRegistry::start.  It does not reap: an entry that is over but has not
\* been collected still refuses.
Start(n) ==
  /\ phase = "open"
  /\ starts[n] = "none"
  /\ accepted < MaxStarts
  /\ accepted' = accepted + 1
  /\ starts' = [starts EXCEPT ![n] = "running"]
  /\ ticket' = [ticket EXCEPT ![n] = accepted + 1]
  /\ UNCHANGED <<stored, started, taken, produced, phase, waiting>>

\* Mutant of TakeStarted: what was reaped just now goes in front of the queue.
TakeStartedNewestFirst ==
  /\ phase = "open"
  /\ Finished # {} \/ started # <<>>
  /\ ReapEntries
  /\ \E order \in Orders(Reapable) : taken' = taken \o order \o started
  /\ started' = <<>>
  /\ UNCHANGED <<accepted, produced, phase, waiting>>

\* Mutant of TakeStarted: the queue is taken without reaping first.
TakeStartedWithoutReap ==
  /\ phase = "open"
  /\ started # <<>>
  /\ taken' = taken \o started
  /\ started' = <<>>
  /\ UNCHANGED <<starts, ticket, stored, accepted, produced, phase, waiting>>

\* take_started: reap, then empty the queue.
TakeStarted ==
  /\ phase = "open"
  /\ Finished # {} \/ started # <<>>
  /\ ReapEntries
  /\ \E order \in Orders(Reapable) : taken' = taken \o started \o order
  /\ started' = <<>>
  /\ UNCHANGED <<accepted, produced, phase, waiting>>

\* join_all takes the lock and drains the entries ...
JoinAll ==
  /\ phase = "open"
  /\ phase' = "draining"
  /\ UNCHANGED <<starts, ticket, stored, started, taken, accepted, produced,
                 waiting>>

\* Mutant of DrainEntry: the threads are waited for, and nothing is collected.
DrainEntryJoinsOnly(n) ==
  /\ phase = "draining"
  /\ waiting = {}
  /\ starts[n] # "none"
  /\ waiting' = {n}
  /\ UNCHANGED <<starts, ticket, stored, started, taken, accepted, produced, phase>>

\* ... collecting from each one ...
DrainEntry(n) ==
  /\ phase = "draining"
  /\ waiting = {}
  /\ starts[n] # "none"
  /\ waiting' = {n}
  /\ started' = IF n \in stored THEN Append(started, Product(n)) ELSE started
  /\ stored' = stored \ {n}
  /\ UNCHANGED <<starts, ticket, taken, accepted, produced, phase>>

\* ... and then waiting for its thread.  An outcome the thread stores after it
\* was collected from goes with the entry.
JoinEntry(n) ==
  /\ n \in waiting
  /\ starts[n] = "ended"
  /\ waiting' = {}
  /\ starts' = [starts EXCEPT ![n] = "none"]
  /\ ticket' = [ticket EXCEPT ![n] = 0]
  /\ stored' = stored \ {n}
  /\ UNCHANGED <<started, taken, accepted, produced, phase>>

Joined ==
  /\ phase = "draining"
  /\ waiting = {}
  /\ \A n \in Names : starts[n] = "none"
  /\ phase' = "joined"
  /\ UNCHANGED <<starts, ticket, stored, started, taken, accepted, produced,
                 waiting>>
------------------------------------------------------------------------------
(* The worker threads. *)

\* The start returned Some(StartedVm), which goes into the outcome cell.
WorkerStore(n) ==
  /\ starts[n] = "running"
  /\ starts' = [starts EXCEPT ![n] = "stored"]
  /\ stored' = stored \cup {n}
  /\ produced' = produced \cup {Product(n)}
  /\ UNCHANGED <<ticket, started, taken, accepted, phase, waiting>>

\* Finish::drop sets the flag on the way out.
WorkerFinish(n) ==
  /\ starts[n] = "stored"
  /\ starts' = [starts EXCEPT ![n] = "ended"]
  /\ UNCHANGED <<ticket, stored, started, taken, accepted, produced, phase,
                 waiting>>

\* The start returned None or panicked: the guard sets the flag all the same.
WorkerFail(n) ==
  /\ starts[n] = "running"
  /\ starts' = [starts EXCEPT ![n] = "ended"]
  /\ UNCHANGED <<ticket, stored, started, taken, accepted, produced, phase,
                 waiting>>

Worker(n) == WorkerStore(n) \/ WorkerFinish(n) \/ WorkerFail(n)
------------------------------------------------------------------------------
Use ==
  \/ Contains
  \/ TakeStarted
  \/ \E n \in Names : Start(n) \/ Worker(n)

Leave ==
  \/ JoinAll
  \/ \E n \in Names : DrainEntry(n) \/ JoinEntry(n)
  \/ Joined

Next == Use \/ Leave

Spec == Init /\ [][Next]_vars

\* A start is a thread that runs to its end, the repository refreshes --
\* take_started -- once a second for as long as the application runs, and
\* join_all runs to its end on a thread that has nothing else to do.
FairSpec ==
  /\ Spec
  /\ \A n \in Names : WF_vars(Worker(n))
  /\ WF_vars(TakeStarted)
  /\ WF_vars(Leave /\ phase # "open")
------------------------------------------------------------------------------
(* Properties. *)

\* While the registry is in use no product is lost: everything a worker stored
\* is in its outcome cell, in the `started` queue or taken over
\* (start_registry.rs reap, collect_into, take_started).
NothingLost ==
  phase = "open" =>
    produced = {Product(n) : n \in stored} \cup Range(started) \cup Range(taken)

\* The products of one VM are in the order of its starts, each once.
InOrder(products) ==
  \A i, j \in DOMAIN products :
    i < j /\ products[i][1] = products[j][1] => products[i][2] < products[j][2]

\* A product is handed over once, and the products of one VM in the order of
\* its starts: adopting an older start after a newer one would put the dead
\* run's console in place of the live one (repository.rs adopt_started).
HandedOverInOrder == InOrder(taken \o started)

\* What the registry has or has handed over.
Held == {Product(n) : n \in stored} \cup Range(started) \cup Range(taken)

\* What join_all may lose, at most: the product of a thread it is waiting for,
\* stored after its entry was collected from.  Every start that was over when
\* join_all came to its entry is in the queue before its thread is waited for,
\* and no other step, before, during or after, loses a product
\* (start_registry.rs:150-160).
OnlyLateIsLost ==
  [][/\ \A p \in Held : p \in Held' \/ \E n \in waiting : p = Product(n)
     /\ \A n \in waiting' \ waiting :
          Product(n) \in produced => Product(n) \in Range(started')]_vars

\* What join_all promises: "Waits for every start and collects what they
\* produced" (start_registry.rs:144).  It does not keep it: see the README.
JoinAllCollects ==
  phase = "joined" => produced = Range(started) \cup Range(taken)

\* Every accepted start ends up unlisted and its product, if it made one,
\* taken over by a refresh, unless the application leaves first.
EventuallyTaken ==
  \A n \in Names, k \in 1..MaxStarts :
    /\ (ticket[n] = k) ~> (ticket[n] # k)
    /\ (<<n, k>> \in produced) ~> (<<n, k>> \in Range(taken) \/ phase # "open")

\* An application that has begun to leave is never kept by a start: join_all
\* ends whatever the threads do, a panic included (start_registry.rs Finish).
LeavingEnds == (phase = "draining") ~> (phase = "joined")

\* No start is listed, and nobody waits for one, for ever, whatever its thread
\* does (start_registry.rs start, reap, join_all).
StartsEnd == EventuallyTaken /\ LeavingEnds

\* The registry implements the hand-over it promises: no product is lost, made
\* twice or made out of nothing, but for what join_all leaves behind.
H == INSTANCE Handover WITH
       active <- [n \in Names |-> IF starts[n] = "running" THEN ticket[n] ELSE 0],
       parked <- {Product(n) : n \in stored} \cup Range(started),
       taken <- Range(taken),
       open <- phase = "open"
HandoverSpec == H!Spec
=============================================================================
