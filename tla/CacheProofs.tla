---------------------------- MODULE CacheProofs ----------------------------
(***************************************************************************)
(* Proofs about the two caches the host keeps on its disk.                 *)
(*                                                                         *)
(* PayloadStaging, for any releases, files, VMs and stagers and any number *)
(* of stagings and faults: what vouches for a payload is backed by its     *)
(* files, a staging nobody disturbs succeeds, and a guest that reads its   *)
(* payload while it is published sees one generation.                      *)
(*                                                                         *)
(* ImageCache, for any downloaders, files and image size: what was         *)
(* verified is still the image when it is published, and a downloader that *)
(* is alone returns nothing else.                                          *)
(***************************************************************************)
EXTENDS PayloadStaging, ImageCache, TLAPS

-----------------------------------------------------------------------------
(* PayloadStaging: the inductive invariant. *)

\* A file of generation `g`, whole or rotten.
OfGeneration(g) == {g, "bad"}

Pcs == {"idle", "load", "extract", "reload", "lock", "marker", "verify", "clear",
        "fill", "check", "mark", "link", "place", "rename", "prune"}
Caching == {"load", "extract", "reload"}
Staging == {"marker", "verify", "clear", "fill", "check", "mark"}
Publishes == {"link", "place", "rename", "prune"}

\* Whoever publishes knows which file is next, the manifest last, and a recipe
\* that goes on has a manifest it could read.
Filed ==
  /\ \A j \in Jobs :
       /\ job[j].pc = "link" => Manifest \in job[j].todo
       /\ job[j].pc \in {"place", "rename"} =>
            /\ job[j].file \in Files
            /\ IF job[j].file = Manifest THEN job[j].todo = {} ELSE Manifest \in job[j].todo
  /\ guest.pc \in {"verify", "copy", "installed"} => guest.man \in Generations
TInv == TypeOK /\ Filed

\* All stagers are at the release that is installed, and what the cache holds
\* under a generation's name is of it.
Current ==
  /\ \A j \in Jobs : job[j].pc # "idle" => job[j].gen = release
  /\ \A g \in Generations, f \in Files : cache[g][f] \in OfGeneration(g) \cup {Absent}

\* Who stages holds the lock; who holds the cache's lock is in the cache.
Locked ==
  /\ \A j \in Jobs : job[j].pc \in Staging => stageLock[job[j].vm][job[j].gen] = j
  /\ \A g \in Generations : cacheLock[g] # Absent =>
       job[cacheLock[g]].pc \in Caching /\ job[cacheLock[g]].gen = g

\* Whoever takes a generation away has withdrawn its marker, and whoever is about
\* to write the marker has seen the generation.
Ready ==
  /\ ReadyMeansWhole
  /\ \A j \in Jobs :
       /\ job[j].pc \in {"clear", "fill"} => marker[job[j].vm][job[j].gen] # "good"
       /\ job[j].pc = "mark" =>
            \A f \in Declares[job[j].gen] : gens[job[j].vm][job[j].gen][f] # Absent

RInv == TInv /\ Current /\ Locked /\ Ready

\* What a publisher has yet to put in place.
Pending(j) == job[j].todo \cup IF job[j].pc \in {"place", "rename"} THEN {job[j].file} ELSE {}

\* Everything else is there.
Publishers(j) ==
  /\ job[j].pc \in Publishes =>
       \A f \in Declares[job[j].gen] \ Pending(j) :
         active[job[j].vm][f] \in OfGeneration(job[j].gen)
  /\ job[j].pc = "link" => job[j].todo \subseteq Declares[job[j].gen]
  /\ job[j].pc \in {"place", "rename"} =>
       job[j].file \in Declares[job[j].gen] /\ job[j].todo \subseteq Declares[job[j].gen]
  /\ job[j].pc = "rename" =>
       partial[job[j].vm][job[j].file] \in OfGeneration(job[j].gen) \cup {Absent}
  /\ job[j].pc = "prune" => job[j].todo = {}

\* What a stager knows that met no other publisher and no file going bad: the
\* files it takes are whole, and so is all it has put in place.
Sole(j) ==
  j \notin troubled =>
    /\ job[j].pc \notin {"idle", "load", "extract", "reload"} =>
         \A f \in Files : cache[job[j].gen][f] # "bad"
    /\ job[j].pc \in Publishes =>
         /\ \A i \in Jobs \ {j} : job[i].pc \in Publishes => job[i].vm # job[j].vm
         /\ \A f \in Declares[job[j].gen] \ Pending(j) : active[job[j].vm][f] = job[j].gen
    /\ job[j].pc = "rename" => partial[job[j].vm][job[j].file] = job[j].gen
Published ==
  ManifestIsBacked /\ StagedIsPublished /\ \A j \in Jobs : Publishers(j) /\ Sole(j)

PInv == RInv /\ Published

\* What a stager knows while nobody and nothing has disturbed it.
Undisturbed(j) ==
  /\ \A i \in Jobs \ {j} : job[i].pc = "idle"
  /\ job[j].pc \notin {"load", "extract", "prune"} =>
       cache[job[j].gen] = ExpectedFiles(job[j].gen)
  /\ job[j].pc = "fill" =>
       /\ job[j].todo \subseteq Declares[job[j].gen]
       /\ \A f \in Files : job[j].tmp[f] =
            IF f \in Declares[job[j].gen] \ job[j].todo THEN job[j].gen ELSE Absent
  /\ job[j].pc = "place" => InTheWay(j) = {}
  /\ job[j].pc = "rename" => partial[job[j].vm][job[j].file] # Absent
AInv ==
  PInv /\ AloneSucceeds
  /\ \A j \in Jobs : job[j].pc # "idle" => ~job[j].failed /\ (job[j].alone => Undisturbed(j))

\* What a recipe that goes on has found.
Reading ==
  /\ guest.pc = "verify" =>
       guest.todo \subseteq Declares[guest.man] /\ guest.todo \ {Manifest} # {}
  /\ guest.pc = "copy" =>
       guest.todo \subseteq Declares[guest.man] \ {Manifest} /\ guest.todo # {}
  /\ guest.calm => /\ guest.pc # "refused"
                   /\ guest.pc \in {"verify", "copy"} => settled[Reader] = guest.man
  /\ guest.kept => \A f \in Verified : active[Reader][f] = guest.man
  /\ guest.kept /\ guest.pc \in {"copy", "installed"} =>
       \A f \in Declares[guest.man] \ {Manifest} :
         (guest.pc = "copy" /\ f \in guest.todo) \/ guest.took[f] = guest.man
GInv == PInv /\ Reading

-----------------------------------------------------------------------------
(* Trees and jobs. *)

LEMMA Basics ==
  /\ Absent \notin Generations /\ "bad" \notin Generations
  /\ Absent # "bad" /\ Absent # "good" /\ Absent # "other"
  /\ Absent \notin Jobs
  /\ \A g \in Generations : Declares[g] \subseteq Files /\ Manifest \in Declares[g]
  /\ Manifest \in Files /\ First \in Generations /\ Reader \in Vms
  BY StagingAssumption

LEMMA TreeFacts ==
  /\ NoTree \in Trees /\ \A f \in Files : NoTree[f] = Absent
  /\ \A g \in Generations :
       /\ ExpectedFiles(g) \in Trees
       /\ \A f \in Files : ExpectedFiles(g)[f] = IF f \in Declares[g] THEN g ELSE Absent
  /\ \A t \in Trees : \A f \in Files : t[f] \in Contents
  /\ \A t, u \in Trees : (\A f \in Files : t[f] = u[f]) => t = u
  BY DEF NoTree, Trees, ExpectedFiles, Contents

LEMMA TreeUpdate ==
  ASSUME NEW t \in Trees, NEW f \in Files, NEW c \in Contents
  PROVE  /\ [t EXCEPT ![f] = c] \in Trees
         /\ \A e \in Files : [t EXCEPT ![f] = c][e] = IF e = f THEN c ELSE t[e]
  BY DEF Trees

LEMMA PrunedTree ==
  ASSUME NEW t \in Trees, NEW g \in Generations
  PROVE  /\ PruneUndeclared(t, g) \in Trees
         /\ \A f \in Files : PruneUndeclared(t, g)[f] = IF f \in Declares[g] THEN t[f] ELSE Absent
  BY DEF PruneUndeclared, Trees, Contents

LEMMA RemovedTree ==
  ASSUME NEW t \in Trees, NEW f \in Files
  PROVE  /\ Removed(t, f) \in Trees /\ Removed(t, f)[f] = Absent
         /\ \A e \in Files : Removed(t, f)[e] = IF e \in Sharers(f) THEN Absent ELSE t[e]
  BY DEF Removed, Sharers, Trees, Contents

LEMMA NextFileIs ==
  ASSUME NEW todo, todo # {}
  PROVE  NextFile(todo) \in todo
  BY DEF NextFile

\* The manifest comes last.
LEMMA PublishOrderIs ==
  ASSUME NEW todo, Manifest \in todo
  PROVE  /\ PublishOrder(todo) \in todo
         /\ IF PublishOrder(todo) = Manifest THEN todo = {Manifest}
            ELSE Manifest \in todo \ {PublishOrder(todo)}
<1>1. CASE todo = {Manifest}
  BY <1>1 DEF PublishOrder
<1>2. CASE todo # {Manifest}
  <2>1. todo \ {Manifest} # {}
    BY <1>2
  <2>2. NextFile(todo \ {Manifest}) \in todo \ {Manifest}
    BY <2>1, NextFileIs
  <2>3. QED
    BY <1>2, <2>2 DEF PublishOrder
<1>3. QED
  BY <1>1, <1>2

\* Nobody but `j` moves.
Moves(j) == job' \in [Jobs -> JobStates] /\ \A i \in Jobs \ {j} : job'[i] = job[i]
Same(j) == /\ job'[j].vm = job[j].vm /\ job'[j].gen = job[j].gen
           /\ job'[j].alone = job[j].alone /\ job'[j].failed = job[j].failed
SameWork(j) == /\ job'[j].todo = job[j].todo /\ job'[j].file = job[j].file
               /\ job'[j].tmp = job[j].tmp

LEMMA JobFields ==
  ASSUME NEW x \in JobStates
  PROVE  /\ x.pc \in Pcs /\ x.vm \in Vms /\ x.gen \in Generations
         /\ x.todo \in SUBSET Files /\ x.file \in Files \cup {Absent} /\ x.tmp \in Trees
         /\ x.alone \in BOOLEAN /\ x.failed \in BOOLEAN
  BY DEF JobStates, Pcs

LEMMA GoesIs ==
  ASSUME TypeOK, NEW j \in Jobs, NEW step \in Pcs, Goes(j, step)
  PROVE  Moves(j) /\ Same(j) /\ SameWork(j) /\ job'[j].pc = step
  BY DEF TypeOK, Goes, Moves, Same, SameWork, JobStates, Pcs

LEMMA NoJobIs ==
  NoJob \in JobStates /\ NoJob.pc = "idle" /\ ~NoJob.failed
  BY Basics, TreeFacts DEF NoJob, JobStates

LEMMA EndedIs ==
  ASSUME TypeOK, NEW j \in Jobs, NEW b \in BOOLEAN
  PROVE  /\ Ended(j, b) \in JobStates /\ Ended(j, b).pc = "idle" /\ Ended(j, b).failed = b
         /\ b => Ended(j, b).vm = job[j].vm /\ Ended(j, b).gen = job[j].gen
<1>1. job[j].vm \in Vms /\ job[j].gen \in Generations
  BY JobFields DEF TypeOK
<1>2. CASE b
  <2>1. Ended(j, b) = [NoJob EXCEPT !.failed = TRUE, !.vm = job[j].vm, !.gen = job[j].gen]
    BY <1>2 DEF Ended, Vm, Gen
  <2>2. QED
    BY <1>1, <1>2, <2>1, NoJobIs DEF NoJob, JobStates
<1>3. CASE b = FALSE
  <2>1. Ended(j, b) = NoJob /\ NoJob.failed = FALSE
    BY <1>3 DEF Ended, NoJob
  <2>2. QED
    BY <1>3, <2>1, NoJobIs
<1>4. QED
  BY <1>2, <1>3

LEMMA EndsIs ==
  ASSUME TypeOK, NEW j \in Jobs, NEW b \in BOOLEAN, job' = Ends(j, b)
  PROVE  /\ Moves(j) /\ job'[j].pc = "idle" /\ job'[j].failed = b
         /\ b => job'[j].vm = job[j].vm /\ job'[j].gen = job[j].gen
<1>1. Ended(j, b) \in JobStates
  BY EndedIs
<1>2. job' = [job EXCEPT ![j] = Ended(j, b)]
  BY DEF Ends
<1>3. Moves(j) /\ job'[j] = Ended(j, b)
  BY <1>1, <1>2 DEF TypeOK, Moves
<1>4. QED
  BY <1>3, EndedIs

\* A failed staging lets go of its own locks only.
LEMMA FailsIs ==
  ASSUME TypeOK, NEW j \in Jobs, Fails(j)
  PROVE  /\ Moves(j) /\ job'[j].pc = "idle" /\ job'[j].failed = job[j].alone
         /\ job[j].alone => job'[j].vm = job[j].vm /\ job'[j].gen = job[j].gen
         /\ cacheLock' \in [Generations -> Jobs \cup {Absent}]
         /\ stageLock' \in [Vms -> [Generations -> Jobs \cup {Absent}]]
         /\ \A g \in Generations :
              cacheLock'[g] = IF g = job[j].gen /\ cacheLock[g] = j THEN Absent ELSE cacheLock[g]
         /\ \A v \in Vms, g \in Generations, i \in Jobs \ {j} :
              stageLock[v][g] = i => stageLock'[v][g] = i
<1>1. job[j] \in JobStates /\ job[j].alone \in BOOLEAN /\ job[j].gen \in Generations /\ job[j].vm \in Vms
  BY JobFields DEF TypeOK
<1>2. /\ Moves(j) /\ job'[j].pc = "idle" /\ job'[j].failed = job[j].alone
      /\ job[j].alone => job'[j].vm = job[j].vm /\ job'[j].gen = job[j].gen
  BY <1>1, EndsIs DEF Fails
<1>3. /\ cacheLock' \in [Generations -> Jobs \cup {Absent}]
      /\ \A g \in Generations :
              cacheLock'[g] = IF g = job[j].gen /\ cacheLock[g] = j THEN Absent ELSE cacheLock[g]
  BY <1>1 DEF Fails, Gen, TypeOK
<1>4. /\ stageLock' \in [Vms -> [Generations -> Jobs \cup {Absent}]]
      /\ \A v \in Vms, g \in Generations, i \in Jobs \ {j} :
              stageLock[v][g] = i => stageLock'[v][g] = i
  BY <1>1 DEF Fails, Gen, Vm, TypeOK
<1>5. QED
  BY <1>2, <1>3, <1>4

-----------------------------------------------------------------------------
(* What each step does to the job that takes it. *)

LEMMA ClearIs ==
  ASSUME TypeOK, NEW j \in Jobs, ClearGeneration(j)
  PROVE  /\ Moves(j) /\ Same(j) /\ job'[j].pc = "fill"
         /\ job'[j].todo = Declares[job[j].gen] /\ job'[j].tmp = NoTree
<1>1. job[j] \in JobStates /\ job[j].gen \in Generations
  BY JobFields DEF TypeOK
<1>2. Declares[job[j].gen] \in SUBSET Files /\ NoTree \in Trees
  BY <1>1, Basics, TreeFacts
<1>3. job' = [job EXCEPT ![j].pc = "fill", ![j].todo = Declares[job[j].gen], ![j].tmp = NoTree]
  BY DEF ClearGeneration, Gen
<1> HIDE DEF NoTree
<1>4. QED
  BY <1>1, <1>2, <1>3 DEF TypeOK, Moves, Same, JobStates

LEMMA MaterializeIs ==
  ASSUME TypeOK, NEW j \in Jobs, MaterializeGeneration(j)
  PROVE  LET f == NextFile(job[j].todo)
         IN /\ f \in job[j].todo /\ f \in Files
            /\ \/ cache[job[j].gen][f] = Absent /\ Fails(j)
               \/ /\ Moves(j) /\ Same(j) /\ job'[j].pc = "fill"
                  /\ job'[j].todo = job[j].todo \ {f}
                  /\ \A e \in Files : job'[j].tmp[e] =
                       IF e = f THEN cache[job[j].gen][f] ELSE job[j].tmp[e]
                  /\ UNCHANGED <<cacheLock, stageLock>>
<1> DEFINE f == NextFile(job[j].todo)
           c == cache[job[j].gen][f]
<1>1. job[j] \in JobStates /\ job[j].gen \in Generations /\ job[j].tmp \in Trees /\ job[j].todo \in SUBSET Files
  BY JobFields DEF TypeOK
<1>2. f \in job[j].todo
  BY NextFileIs DEF MaterializeGeneration
<1>3. f \in Files
  BY <1>1, <1>2
<1>4. cache[job[j].gen] \in Trees
  BY <1>1 DEF TypeOK
<1>5. c \in Contents
  BY <1>3, <1>4, TreeFacts
<1>6. CASE c = Absent
  BY <1>2, <1>3, <1>6 DEF MaterializeGeneration, Gen
<1>7. CASE c # Absent
  <2> DEFINE new == [job[j].tmp EXCEPT ![f] = c]
             left == job[j].todo \ {f}
  <2>1. new \in Trees /\ \A e \in Files : new[e] = IF e = f THEN c ELSE job[j].tmp[e]
    BY <1>1, <1>3, <1>5, TreeUpdate
  <2>2. left \in SUBSET Files
    BY <1>1
  <2>3. /\ job' = [job EXCEPT ![j].todo = left, ![j].tmp = new] /\ job[j].pc = "fill"
        /\ UNCHANGED <<cacheLock, stageLock>>
    BY <1>7 DEF MaterializeGeneration, Gen, At
  <2> HIDE DEF new, left, f, c
  <2>4. Moves(j) /\ Same(j) /\ job'[j].pc = "fill" /\ job'[j].todo = left /\ job'[j].tmp = new
    BY <1>1, <2>1, <2>2, <2>3 DEF TypeOK, Moves, Same, JobStates
  <2>5. QED
    BY <1>2, <1>3, <2>1, <2>3, <2>4 DEF left, f, c
<1>8. QED
  BY <1>6, <1>7

LEMMA PublishIs ==
  ASSUME TypeOK, NEW j \in Jobs, PublishGeneration(j)
  PROVE  \/ /\ job[j].tmp = ExpectedFiles(job[j].gen)
            /\ Moves(j) /\ Same(j) /\ job'[j].pc = "check"
            /\ gens' = [gens EXCEPT ![job[j].vm][job[j].gen] = ExpectedFiles(job[j].gen)]
            /\ UNCHANGED <<cacheLock, stageLock>>
         \/ /\ job[j].tmp # ExpectedFiles(job[j].gen)
            /\ Fails(j) /\ UNCHANGED gens
<1>1. job[j] \in JobStates
  BY DEF TypeOK
<1>2. CASE job[j].tmp = ExpectedFiles(job[j].gen)
  <2>1. job' = [job EXCEPT ![j].pc = "check", ![j].tmp = NoTree] /\ NoTree \in Trees
    BY <1>2, TreeFacts DEF PublishGeneration, VerifyGeneration, Gen
  <2> HIDE DEF NoTree
  <2>2. Moves(j) /\ Same(j) /\ job'[j].pc = "check"
    BY <1>1, <2>1 DEF TypeOK, Moves, Same, JobStates
  <2>3. QED
    BY <1>2, <2>2 DEF PublishGeneration, VerifyGeneration, Gen, Vm
<1>3. CASE job[j].tmp # ExpectedFiles(job[j].gen)
  BY <1>3 DEF PublishGeneration, VerifyGeneration, Gen
<1>4. QED
  BY <1>2, <1>3

\* The marker is written unless another payload's is there, and the publisher
\* begins unless the list of files cannot be made again.
LEMMA MarkIs ==
  ASSUME TypeOK, NEW j \in Jobs, EnsureReadyMarker(j)
  PROVE  /\ job[j].pc = "mark" /\ UNCHANGED <<cache, gens, active, partial>>
         /\ \/ marker[job[j].vm][job[j].gen] = "other" /\ marker' = marker
            \/ /\ marker[job[j].vm][job[j].gen] # "other"
               /\ marker' = [marker EXCEPT ![job[j].vm][job[j].gen] = "good"]
         /\ \/ /\ Fails(j) /\ UNCHANGED <<settled, troubled, guest>>
               /\ \/ marker[job[j].vm][job[j].gen] = "other"
                  \/ cache[job[j].gen][Manifest] # job[j].gen
            \/ /\ Moves(j) /\ Same(j) /\ job'[j].pc = "link" /\ job'[j].todo = Declares[job[j].gen]
               /\ cacheLock' = cacheLock
               /\ stageLock' = [stageLock EXCEPT ![job[j].vm][job[j].gen] = Absent]
               /\ troubled' = IF PublishersOf(job[j].vm) = {} THEN troubled
                              ELSE troubled \cup PublishersOf(job[j].vm) \cup {j}
               /\ settled' = IF PublishersOf(job[j].vm) = {} THEN settled
                             ELSE [settled EXCEPT ![job[j].vm] = Absent]
               /\ guest' = Watched(active[Reader], settled'[Reader])
<1>1. job[j] \in JobStates /\ job[j].gen \in Generations
  BY JobFields DEF TypeOK
<1>2. Declares[job[j].gen] \in SUBSET Files
  BY <1>1, Basics
<1>3. job[j].pc = "mark" /\ UNCHANGED <<cache, gens, active, partial>>
  BY DEF EnsureReadyMarker, At
<1>4. CASE Fails(j) /\ UNCHANGED <<settled, troubled, guest>> /\ (Conflicting(j) \/ ~ManifestVerifies(j))
  BY <1>3, <1>4 DEF EnsureReadyMarker, Conflicting, ManifestVerifies, Gen, Vm
<1>5. CASE ~Conflicting(j) /\ ManifestVerifies(j)
  <2>1. /\ job' = [job EXCEPT ![j].pc = "link", ![j].todo = Declares[job[j].gen]]
        /\ cacheLock' = cacheLock
        /\ stageLock' = [stageLock EXCEPT ![job[j].vm][job[j].gen] = Absent]
        /\ marker' = [marker EXCEPT ![job[j].vm][job[j].gen] = "good"]
        /\ troubled' = IF PublishersOf(job[j].vm) = {} THEN troubled
                       ELSE troubled \cup PublishersOf(job[j].vm) \cup {j}
        /\ settled' = IF PublishersOf(job[j].vm) = {} THEN settled
                      ELSE [settled EXCEPT ![job[j].vm] = Absent]
        /\ guest' = Watched(active[Reader], settled'[Reader])
    BY <1>5 DEF EnsureReadyMarker, Gen, Vm
  <2>2. marker[job[j].vm][job[j].gen] # "other"
    BY <1>5 DEF Conflicting, Gen, Vm
  <2>3. Moves(j) /\ Same(j) /\ job'[j].pc = "link" /\ job'[j].todo = Declares[job[j].gen]
    BY <1>1, <1>2, <2>1 DEF TypeOK, Moves, Same, JobStates
  <2>4. QED
    BY <1>3, <2>1, <2>2, <2>3
<1>6. QED
  BY <1>4, <1>5 DEF EnsureReadyMarker

LEMMA LinkIs ==
  ASSUME TInv, NEW j \in Jobs, PublishLink(j)
  PROVE  LET f == PublishOrder(job[j].todo)
         IN /\ f \in job[j].todo /\ f \in Files
            /\ IF f = Manifest THEN job[j].todo = {Manifest} ELSE Manifest \in job[j].todo \ {f}
            /\ \/ cache[job[j].gen][f] = Absent /\ Fails(j) /\ UNCHANGED partial
               \/ /\ cache[job[j].gen][f] # Absent
                  /\ Moves(j) /\ Same(j) /\ job'[j].pc = "place"
                  /\ job'[j].todo = job[j].todo \ {f} /\ job'[j].file = f
                  /\ partial' = [partial EXCEPT ![job[j].vm] = Removed(@, f)]
                  /\ UNCHANGED <<cacheLock, stageLock>>
<1> DEFINE f == PublishOrder(job[j].todo)
           c == cache[job[j].gen][f]
<1>1. job[j] \in JobStates /\ job[j].gen \in Generations /\ job[j].todo \in SUBSET Files
  BY JobFields DEF TInv, TypeOK
<1>2. Manifest \in job[j].todo
  BY DEF TInv, Filed, PublishLink, At
<1>3. f \in job[j].todo /\ IF f = Manifest THEN job[j].todo = {Manifest} ELSE Manifest \in job[j].todo \ {f}
  BY <1>2, PublishOrderIs
<1>4. f \in Files
  BY <1>1, <1>3
<1>5. CASE c = Absent
  BY <1>3, <1>4, <1>5 DEF PublishLink, Gen, Publishing
<1>6. CASE c # Absent
  <2> DEFINE left == job[j].todo \ {f}
  <2>1. /\ job' = [job EXCEPT ![j].pc = "place", ![j].file = f, ![j].todo = left]
        /\ partial' = [partial EXCEPT ![job[j].vm] = Removed(@, f)]
        /\ UNCHANGED <<cacheLock, stageLock>>
    BY <1>6 DEF PublishLink, Gen, Vm, Publishing
  <2>2. left \in SUBSET Files
    BY <1>1
  <2> HIDE DEF left, f, c
  <2>3. Moves(j) /\ Same(j) /\ job'[j].pc = "place" /\ job'[j].todo = left /\ job'[j].file = f
    BY <1>1, <1>4, <2>1, <2>2 DEF TInv, TypeOK, Moves, Same, JobStates
  <2>4. QED
    BY <1>3, <1>4, <1>6, <2>1, <2>3 DEF left, f, c
<1>7. QED
  BY <1>5, <1>6

LEMMA PlacedTree ==
  ASSUME TInv, NEW j \in Jobs, job[j].pc = "place", NEW t \in Trees
  PROVE  LET f == job[j].file
         IN /\ f \in Files /\ cache[job[j].gen][f] \in Contents
            /\ Placed(t, j) \in Trees
            /\ \A e \in Files : Placed(t, j)[e] =
                 IF e = f THEN cache[job[j].gen][f] ELSE IF e \in Sharers(f) THEN Absent ELSE t[e]
<1> DEFINE f == job[j].file
           c == cache[job[j].gen][f]
<1>1. f \in Files /\ job[j].gen \in Generations
  BY JobFields DEF TInv, TypeOK, Filed
<1>2. c \in Contents
  BY <1>1, TreeFacts DEF TInv, TypeOK
<1>3. Removed(t, f) \in Trees /\ \A e \in Files : Removed(t, f)[e] = IF e \in Sharers(f) THEN Absent ELSE t[e]
  BY <1>1, RemovedTree
<1>4. Placed(t, j) = [Removed(t, f) EXCEPT ![f] = c]
  BY DEF Placed, Gen
<1> HIDE DEF f, c
<1>5. /\ [Removed(t, f) EXCEPT ![f] = c] \in Trees
      /\ \A e \in Files : [Removed(t, f) EXCEPT ![f] = c][e] = IF e = f THEN c ELSE Removed(t, f)[e]
  BY <1>1, <1>2, <1>3, TreeUpdate
<1>6. QED
  BY <1>1, <1>2, <1>3, <1>4, <1>5 DEF f, c

\* Only the publisher's own temporary name is written.
LEMMA PlaceIs ==
  ASSUME TInv, NEW j \in Jobs, PublishPlace(j)
  PROVE  /\ job[j].pc = "place" /\ InTheWay(j) = {}
         /\ UNCHANGED <<cache, gens, marker, active, guest, settled, troubled>>
         /\ \/ cache[job[j].gen][job[j].file] = Absent /\ Fails(j) /\ UNCHANGED partial
            \/ /\ cache[job[j].gen][job[j].file] # Absent
               /\ Moves(j) /\ Same(j) /\ SameWork(j) /\ job'[j].pc = "rename"
               /\ partial' = [partial EXCEPT ![job[j].vm] = Placed(@, j)]
               /\ UNCHANGED <<cacheLock, stageLock>>
<1>1. /\ job[j].pc = "place" /\ InTheWay(j) = {}
      /\ UNCHANGED <<cache, gens, marker, active, guest, settled, troubled>>
  BY DEF PublishPlace, At
<1>2. CASE cache[job[j].gen][job[j].file] = Absent
  BY <1>1, <1>2 DEF PublishPlace, Gen
<1>3. CASE cache[job[j].gen][job[j].file] # Absent
  <2>1. Goes(j, "rename") /\ UNCHANGED <<cacheLock, stageLock>> /\ partial' = [partial EXCEPT ![job[j].vm] = Placed(@, j)]
    BY <1>3 DEF PublishPlace, Gen, Vm
  <2>2. QED
    BY <1>1, <1>3, <2>1, GoesIs DEF TInv, Pcs
<1>4. QED
  BY <1>2, <1>3

\* The file that has the temporary name may be spoilt wherever it is linked.
LEMMA OverIs ==
  ASSUME TInv, NEW j \in Jobs, PublishOver(j)
  PROVE  /\ job[j].pc = "place" /\ InTheWay(j) # {} /\ UNCHANGED marker
         /\ \/ Fails(j) /\ UNCHANGED <<cache, gens, active, partial, guest, settled, troubled>>
            \/ /\ cache[job[j].gen][job[j].file] # Absent
               /\ Moves(j) /\ Same(j) /\ SameWork(j) /\ job'[j].pc = "rename"
               /\ UNCHANGED <<cacheLock, stageLock>>
               /\ \E e \in Files : \E where \in SUBSET Places(job[j].gen, e) :
                    /\ Spoils(job[j].gen, e, where)
                    /\ partial' = [SpoiltPartial(e, where) EXCEPT ![job[j].vm] = Placed(@, j)]
<1> DEFINE f == job[j].file
           e == CHOOSE x \in InTheWay(j) : TRUE
<1>1. job[j].pc = "place" /\ InTheWay(j) # {} /\ UNCHANGED marker
  BY DEF PublishOver, At
<1>2. e \in InTheWay(j) /\ e \in Files
  BY <1>1 DEF InTheWay, Sharers
<1>3. CASE cache[job[j].gen][f] = Absent
  BY <1>1, <1>3 DEF PublishOver, Gen
<1>4. CASE cache[job[j].gen][f] # Absent
  <2>1. \/ Fails(j) /\ UNCHANGED <<cache, gens, active, partial, guest, settled, troubled>>
        \/ /\ Goes(j, "rename") /\ UNCHANGED <<cacheLock, stageLock>>
           /\ \E where \in SUBSET (IF e = f THEN {} ELSE Places(job[j].gen, e)) :
                /\ Spoils(job[j].gen, e, where)
                /\ partial' = [SpoiltPartial(e, where) EXCEPT ![job[j].vm] = Placed(@, j)]
    BY <1>4 DEF PublishOver, Gen, Vm
  <2> HIDE DEF e
  <2>2. CASE Fails(j) /\ UNCHANGED <<cache, gens, active, partial, guest, settled, troubled>>
    BY <1>1, <2>2
  <2>3. CASE /\ Goes(j, "rename") /\ UNCHANGED <<cacheLock, stageLock>>
             /\ \E where \in SUBSET (IF e = f THEN {} ELSE Places(job[j].gen, e)) :
                  /\ Spoils(job[j].gen, e, where)
                  /\ partial' = [SpoiltPartial(e, where) EXCEPT ![job[j].vm] = Placed(@, j)]
    <3>1. Moves(j) /\ Same(j) /\ SameWork(j) /\ job'[j].pc = "rename"
      BY <2>3, GoesIs DEF TInv, Pcs
    <3>2. PICK where \in SUBSET (IF e = f THEN {} ELSE Places(job[j].gen, e)) :
                  /\ Spoils(job[j].gen, e, where)
                  /\ partial' = [SpoiltPartial(e, where) EXCEPT ![job[j].vm] = Placed(@, j)]
      BY <2>3
    <3>3. where \in SUBSET Places(job[j].gen, e)
      OBVIOUS
    <3>4. QED
      BY <1>1, <1>2, <1>4, <2>3, <3>1, <3>2, <3>3
  <2>4. QED
    BY <2>1, <2>2, <2>3
<1>5. QED
  BY <1>3, <1>4

LEMMA RenameIs ==
  ASSUME TInv, NEW j \in Jobs, PublishRename(j)
  PROVE  LET f == job[j].file
             own == partial[job[j].vm][f]
             new == IF own # Absent THEN own ELSE "bad"
         IN /\ job[j].pc = "rename" /\ f \in Files /\ new \in Contents /\ new # Absent
            /\ UNCHANGED <<cache, gens, marker, troubled>>
            /\ \/ own = Absent /\ Fails(j) /\ UNCHANGED <<active, partial, guest, settled>>
               \/ /\ Moves(j) /\ Same(j) /\ job'[j].todo = job[j].todo
                  /\ job'[j].pc = IF job[j].todo = {} THEN "prune" ELSE "link"
                  /\ active' = [active EXCEPT ![job[j].vm] = [@ EXCEPT ![f] = new]]
                  /\ partial' = [partial EXCEPT ![job[j].vm] = Removed(@, f)]
                  /\ settled' = Unsettled(j)
                  /\ guest' = Watched(active'[Reader], settled'[Reader])
                  /\ UNCHANGED <<cacheLock, stageLock>>
<1> DEFINE f == job[j].file
           own == partial[job[j].vm][f]
           new == IF own # Absent THEN own ELSE "bad"
<1>1. job[j] \in JobStates /\ job[j].vm \in Vms
  BY JobFields DEF TInv, TypeOK
<1>2. job[j].pc = "rename" /\ f \in Files /\ UNCHANGED <<cache, gens, marker, troubled>>
  BY DEF TInv, Filed, PublishRename, At
<1>3. partial[job[j].vm] \in Trees
  BY <1>1 DEF TInv, TypeOK
<1>4. new \in Contents /\ new # Absent
  BY <1>2, <1>3, TreeFacts, Basics DEF Contents
<1>5. CASE InTheWay(j) = {}
  <2>1. own = Absent
    BY <1>2, <1>5 DEF InTheWay, Sharers, Vm
  <2>2. QED
    BY <1>2, <1>4, <1>5, <2>1 DEF PublishRename
<1>6. CASE InTheWay(j) # {}
  <2>1. /\ job' = [job EXCEPT ![j].pc = IF job[j].todo = {} THEN "prune" ELSE "link", ![j].file = Absent]
        /\ active' = [active EXCEPT ![job[j].vm] = [@ EXCEPT ![f] = new]]
        /\ partial' = [partial EXCEPT ![job[j].vm] = Removed(@, f)]
        /\ settled' = Unsettled(j)
        /\ guest' = Watched(active'[Reader], settled'[Reader])
        /\ UNCHANGED <<cacheLock, stageLock>>
    BY <1>6 DEF PublishRename, Vm
  <2>2. /\ Moves(j) /\ Same(j) /\ job'[j].todo = job[j].todo
        /\ job'[j].pc = IF job[j].todo = {} THEN "prune" ELSE "link"
    BY <1>1, <2>1 DEF TInv, TypeOK, Moves, Same, JobStates
  <2>3. QED
    BY <1>2, <1>4, <2>1, <2>2
<1>7. QED
  BY <1>5, <1>6

\* A job that is where it was, though it may have company now.
Steady(i) ==
  /\ job'[i].pc = job[i].pc /\ job'[i].vm = job[i].vm /\ job'[i].gen = job[i].gen
  /\ job'[i].todo = job[i].todo /\ job'[i].file = job[i].file /\ job'[i].tmp = job[i].tmp
  /\ job'[i].failed = job[i].failed
  /\ job'[i].alone => job[i].alone

LEMMA MovesSteady ==
  ASSUME NEW j \in Jobs, Moves(j), NEW i \in Jobs \ {j}
  PROVE  Steady(i) /\ job'[i] = job[i]
  BY DEF Moves, Steady

Busy == {i \in Jobs : job[i].pc # "idle"}

LEMMA BeginsIs ==
  ASSUME TypeOK, NEW j \in Jobs, NEW v \in Vms, StageForVm(j, v)
  PROVE  /\ job' \in [Jobs -> JobStates]
         /\ \A i \in Jobs \ {j} : Steady(i) /\ (job[i].pc # "idle" => ~job'[i].alone)
         /\ job[j].pc = "idle"
         /\ \/ /\ cacheLock[release] # Absent /\ job'[j].pc = "idle"
               /\ job'[j].failed <=> Busy = {}
               /\ cacheLock' = cacheLock
            \/ /\ cacheLock[release] = Absent /\ job'[j].pc = "load" /\ ~job'[j].failed
               /\ job'[j].vm = v /\ job'[j].gen = release
               /\ job'[j].alone <=> Busy = {}
               /\ cacheLock' = [cacheLock EXCEPT ![release] = j]
<1> DEFINE idle == [NoJob EXCEPT !.failed = Busy = {}, !.vm = v, !.gen = release]
           load == [NoJob EXCEPT !.pc = "load", !.vm = v, !.gen = release, !.alone = Busy = {}]
           mine == IF cacheLock[release] # Absent THEN idle ELSE load
<1>1. /\ job' = [i \in Jobs |-> IF i = j THEN mine
                                ELSE IF i \in Busy THEN [job[i] EXCEPT !.alone = FALSE]
                                ELSE job[i]]
      /\ cacheLock' = IF cacheLock[release] # Absent THEN cacheLock ELSE [cacheLock EXCEPT ![release] = j]
  BY DEF StageForVm, Stagers, Busy, At
<1>3. release \in Generations
  BY DEF TypeOK
<1>2. idle \in JobStates /\ idle.pc = "idle" /\ (idle.failed <=> Busy = {})
  <2>1. idle \in JobStates /\ idle.pc = "idle"
    BY <1>3, TreeFacts, Basics DEF NoJob, JobStates
  <2>2. idle.failed <=> Busy = {}
    BY Zenon DEF NoJob
  <2>3. QED
    BY <2>1, <2>2
<1>4. /\ load \in JobStates /\ load.pc = "load" /\ ~load.failed
      /\ load.vm = v /\ load.gen = release
  BY <1>3, TreeFacts, Basics DEF NoJob, JobStates
<1>5. load.alone <=> Busy = {}
  BY Zenon DEF NoJob
<1> HIDE DEF idle, load
<1>6. mine \in JobStates
  BY <1>2, <1>4
<1> HIDE DEF mine
<1>7. ASSUME NEW i \in Jobs \ {j}
      PROVE  job'[i] \in JobStates /\ Steady(i) /\ (job[i].pc # "idle" => ~job'[i].alone)
  <2>1. job[i] \in JobStates /\ job'[i] = IF i \in Busy THEN [job[i] EXCEPT !.alone = FALSE] ELSE job[i]
    BY <1>1 DEF TypeOK
  <2>2. CASE i \in Busy
    BY <2>1, <2>2 DEF Steady, JobStates
  <2>3. CASE i \notin Busy
    BY <2>1, <2>3 DEF Steady, Busy
  <2>4. QED
    BY <2>2, <2>3
<1>8. job'[j] = mine
  BY <1>1
<1>9. job' \in [Jobs -> JobStates]
  <2>1. \A i \in Jobs : job'[i] \in JobStates
    BY <1>6, <1>7, <1>8
  <2>2. job' = [i \in Jobs |-> job'[i]]
    BY <1>1
  <2>3. QED
    BY <2>1, <2>2
<1>10. job[j].pc = "idle"
  BY DEF StageForVm, At
<1>11. CASE cacheLock[release] # Absent
  <2>1. job'[j] = idle /\ cacheLock' = cacheLock
    BY <1>1, <1>8, <1>11 DEF mine
  <2>2. QED
    BY <1>2, <1>7, <1>9, <1>10, <1>11, <2>1
<1>12. CASE cacheLock[release] = Absent
  <2>1. job'[j] = load /\ cacheLock' = [cacheLock EXCEPT ![release] = j]
    BY <1>1, <1>8, <1>12 DEF mine
  <2>2. QED
    BY <1>4, <1>5, <1>7, <1>9, <1>10, <1>12, <2>1
<1>13. QED
  BY <1>11, <1>12

LEMMA RotJobs ==
  ASSUME TypeOK, NEW g \in Generations, NEW f \in Files, Rot(g, f)
  PROVE  /\ job' \in [Jobs -> JobStates]
         /\ \A i \in Jobs : Steady(i) /\ (job[i].pc # "idle" => ~job'[i].alone)
<1>1. job' = [j \in Jobs |-> [job[j] EXCEPT !.alone = @ /\ job[j].pc = "idle"]]
  BY DEF Rot, At
<1>2. ASSUME NEW i \in Jobs
      PROVE  job'[i] \in JobStates /\ Steady(i) /\ (job[i].pc # "idle" => ~job'[i].alone)
  <2> DEFINE b == job[i].alone /\ job[i].pc = "idle"
  <2>1. job[i] \in JobStates /\ job'[i] = [job[i] EXCEPT !.alone = b] /\ b \in BOOLEAN
    BY <1>1 DEF TypeOK
  <2>2. (b => job[i].alone) /\ (job[i].pc # "idle" => ~b)
    OBVIOUS
  <2> HIDE DEF b
  <2>3. job'[i] \in JobStates /\ job'[i].alone = b
    BY <2>1 DEF JobStates
  <2>4. QED
    BY <2>1, <2>2, <2>3 DEF Steady, JobStates
<1>3. job' = [i \in Jobs |-> job'[i]]
  BY <1>1
<1>4. QED
  BY <1>2, <1>3

LEMMA JobStepIs ==
  ASSUME TInv, NEW j \in Jobs, JobStep(j)
  PROVE  /\ Moves(j) /\ job[j].pc # "idle"
         /\ job'[j].pc = "idle" \/ Same(j)
         /\ UNCHANGED <<release, begun, faults>>
<1>0. TypeOK
  BY DEF TInv
<1>1. CASE LoadReady(j)
  BY <1>0, <1>1, GoesIs DEF LoadReady, At, Pcs
<1>2. CASE Extract(j)
  BY <1>0, <1>2, GoesIs DEF Extract, At, Pcs
<1>3. CASE Reload(j)
  BY <1>0, <1>3, GoesIs, FailsIs DEF Reload, At, Pcs
<1>4. CASE StageLock(j)
  BY <1>0, <1>4, GoesIs, FailsIs DEF StageLock, At, Pcs
<1>5. CASE VerifyMarker(j)
  BY <1>0, <1>5, GoesIs, FailsIs DEF VerifyMarker, At, Pcs
<1>6. CASE EnsureGeneration(j)
  BY <1>0, <1>6, GoesIs, FailsIs DEF EnsureGeneration, At, Pcs
<1>7. CASE ClearGeneration(j)
  BY <1>0, <1>7, ClearIs DEF ClearGeneration, At
<1>8. CASE PublishGeneration(j)
  BY <1>0, <1>8, PublishIs, FailsIs DEF PublishGeneration, At
<1>9. CASE CheckGeneration(j)
  BY <1>0, <1>9, GoesIs, FailsIs DEF CheckGeneration, At, Pcs
<1>10. CASE EnsureReadyMarker(j)
  BY <1>0, <1>10, MarkIs, FailsIs DEF EnsureReadyMarker
<1>11. CASE PublishRename(j)
  BY <1>0, <1>11, RenameIs, FailsIs DEF PublishRename, At
<1>12. CASE Prune(j)
  BY <1>0, <1>12, EndsIs DEF Prune, At
<1>13. CASE MaterializeGeneration(j)
  BY <1>0, <1>13, MaterializeIs, FailsIs DEF MaterializeGeneration, At
<1>14. CASE PublishLink(j)
  BY <1>0, <1>14, LinkIs, FailsIs DEF PublishLink, At
<1>15. CASE PublishPlace(j)
  BY <1>0, <1>15, PlaceIs, FailsIs DEF PublishPlace
<1>16. CASE PublishOver(j)
  BY <1>0, <1>16, OverIs, FailsIs DEF PublishOver
<1>17. QED
  BY <1>1, <1>2, <1>3, <1>4, <1>5, <1>6, <1>7, <1>8, <1>9, <1>10, <1>11, <1>12, <1>13, <1>14,
     <1>15, <1>16 DEF JobStep

-----------------------------------------------------------------------------
(* Types. *)

\* The guest's recipe, apart from the ghosts.
SameGuest == /\ guest'.pc = guest.pc /\ guest'.man = guest.man
             /\ guest'.todo = guest.todo /\ guest'.took = guest.took

LEMMA WatchedIs ==
  ASSUME TypeOK, NEW there, NEW s, guest' = Watched(there, s)
  PROVE  /\ guest' \in GuestStates /\ SameGuest
         /\ guest'.calm => guest.calm /\ (guest.pc \in {"verify", "copy"} => s = guest.man)
         /\ guest'.kept => guest.kept /\ \A f \in Verified : there[f] = active[Reader][f]
<1> DEFINE c == guest.calm /\ (guest.pc \in {"verify", "copy"} => s = guest.man)
           k == guest.kept /\ \A f \in Verified : there[f] = active[Reader][f]
<1>1. guest' = [guest EXCEPT !.calm = c, !.kept = k]
  BY DEF Watched
<1>2. guest \in GuestStates
  BY DEF TypeOK
<1>3. c \in BOOLEAN /\ k \in BOOLEAN
  OBVIOUS
<1> HIDE DEF c, k
<1>4. guest' \in GuestStates /\ SameGuest /\ guest'.calm = c /\ guest'.kept = k
  BY <1>1, <1>2, <1>3 DEF GuestStates, SameGuest
<1>5. QED
  BY <1>4 DEF c, k

LEMMA UnsettledIs ==
  ASSUME TypeOK, NEW j \in Jobs, settled' = Unsettled(j)
  PROVE  /\ settled' \in [Vms -> Generations \cup {Absent}]
         /\ \A u \in Vms :
              settled'[u] = IF u = job[j].vm /\ ~(settled[u] = job[j].gen /\ j \notin troubled)
                            THEN Absent ELSE settled[u]
<1>1. job[j].vm \in Vms
  BY JobFields DEF TypeOK
<1>2. QED
  BY <1>1 DEF Unsettled, TypeOK, Gen, Vm

LEMMA UnlockedIs ==
  ASSUME TypeOK, NEW j \in Jobs, cacheLock' = Unlocked(j)
  PROVE  /\ cacheLock' \in [Generations -> Jobs \cup {Absent}]
         /\ \A g \in Generations : cacheLock'[g] = IF g = job[j].gen THEN Absent ELSE cacheLock[g]
  BY DEF Unlocked, TypeOK, Gen

\* What the disk is, apart from the stagers.
DiskOK ==
  /\ cache \in [Generations -> Trees]
  /\ cacheLock \in [Generations -> Jobs \cup {Absent}]
  /\ gens \in [Vms -> [Generations -> Trees]]
  /\ marker \in [Vms -> [Generations -> {Absent, "good", "bad", "other"}]]
  /\ stageLock \in [Vms -> [Generations -> Jobs \cup {Absent}]]
  /\ active \in [Vms -> Trees] /\ partial \in [Vms -> Trees]
  /\ guest \in GuestStates
  /\ settled \in [Vms -> Generations \cup {Absent}]
  /\ troubled \in SUBSET Jobs

LEMMA TableUpdate ==
  ASSUME NEW S, NEW m \in [Vms -> [Generations -> S]], NEW v \in Vms, NEW g \in Generations, NEW x \in S
  PROVE  /\ [m EXCEPT ![v][g] = x] \in [Vms -> [Generations -> S]]
         /\ \A u \in Vms, h \in Generations :
              [m EXCEPT ![v][g] = x][u][h] = IF u = v /\ h = g THEN x ELSE m[u][h]
  OBVIOUS

\* A file that is spoilt was whole, is still there, and unsettles its directory;
\* whoever stages is troubled by it.
LEMMA SpoilsIs ==
  ASSUME TypeOK, NEW g \in Generations, NEW f \in Files, NEW where \in SUBSET Places(g, f),
         Spoils(g, f, where)
  PROVE  /\ cache' \in [Generations -> Trees] /\ gens' \in [Vms -> [Generations -> Trees]]
         /\ active' \in [Vms -> Trees] /\ settled' \in [Vms -> Generations \cup {Absent}]
         /\ troubled' \in SUBSET Jobs
         /\ guest' \in GuestStates /\ guest' = Watched(active'[Reader], settled'[Reader])
         /\ \A h \in Generations, e \in Files : cache'[h][e] \in {cache[h][e], "bad"}
                                               /\ (cache[h][e] = Absent => cache'[h][e] = Absent)
         /\ \A v \in Vms, h \in Generations, e \in Files :
              gens'[v][h][e] \in {gens[v][h][e], "bad"}
         /\ \A v \in Vms, e \in Files : active'[v][e] \in {active[v][e], "bad"}
                                       /\ (active[v][e] = Absent => active'[v][e] = Absent)
         /\ \A v \in Vms : settled'[v] = Absent \/ (settled'[v] = settled[v] /\ active'[v] = active[v])
         /\ \/ \A i \in Jobs : job[i].pc # "idle" => i \in troubled'
            \/ where = {} /\ troubled' = troubled /\ cache' = cache /\ active' = active
<1>0. "bad" \in Contents
  BY DEF Contents
<1>1. /\ cache' = IF <<"cache">> \in where THEN [cache EXCEPT ![g][f] = "bad"] ELSE cache
      /\ gens' = [v \in Vms |-> IF <<"gens", v>> \in where
                                THEN [gens[v] EXCEPT ![g][f] = "bad"] ELSE gens[v]]
      /\ active' = [v \in Vms |-> IF <<"active", v>> \in where
                                  THEN [active[v] EXCEPT ![f] = "bad"] ELSE active[v]]
      /\ settled' = [v \in Vms |-> IF <<"active", v>> \in where THEN Absent ELSE settled[v]]
      /\ troubled' = IF where = {} THEN troubled ELSE troubled \cup Stagers
      /\ guest' = Watched(active'[Reader], settled'[Reader])
  BY DEF Spoils
<1>2. <<"cache">> \in where => cache[g][f] = g
  <2>1. <<"cache">> \in where => <<"cache">> \in Places(g, f)
    OBVIOUS
  <2>2. <<"cache">> \in Places(g, f) => cache[g][f] = g
    BY DEF Places
  <2>3. QED
    BY <2>1, <2>2
<1>3. \A v \in Vms : <<"active", v>> \in where => active[v][f] = g
  <2>1. ASSUME NEW v \in Vms, <<"active", v>> \in Places(g, f) PROVE active[v][f] = g
    BY <2>1 DEF Places
  <2>2. QED
    BY <2>1
<1>4. /\ cache' \in [Generations -> Trees]
      /\ \A h \in Generations, e \in Files : cache'[h][e] \in {cache[h][e], "bad"}
                                               /\ (cache[h][e] = Absent => cache'[h][e] = Absent)
  <2>1. CASE <<"cache">> \in where
    <3> DEFINE t == [cache[g] EXCEPT ![f] = "bad"]
    <3>1. cache' = [cache EXCEPT ![g] = t]
      BY <1>1, <2>1
    <3>2. t \in Trees /\ \A e \in Files : t[e] = IF e = f THEN "bad" ELSE cache[g][e]
      BY <1>0, TreeUpdate DEF TypeOK
    <3> HIDE DEF t
    <3>3. QED
      BY <1>2, <2>1, <3>1, <3>2, Basics DEF TypeOK
  <2>2. CASE <<"cache">> \notin where
    BY <1>1, <2>2 DEF TypeOK
  <2>3. QED
    BY <2>1, <2>2
<1>5. /\ gens' \in [Vms -> [Generations -> Trees]]
      /\ \A v \in Vms, h \in Generations, e \in Files :
              gens'[v][h][e] \in {gens[v][h][e], "bad"}
  <2>1. ASSUME NEW v \in Vms
        PROVE  /\ gens'[v] \in [Generations -> Trees]
               /\ \A h \in Generations, e \in Files : gens'[v][h][e] \in {gens[v][h][e], "bad"}
    <3> DEFINE t == [gens[v][g] EXCEPT ![f] = "bad"]
    <3>1. gens[v] \in [Generations -> Trees] /\ (gens'[v] = gens[v] \/ gens'[v] = [gens[v] EXCEPT ![g] = t])
      BY <1>1 DEF TypeOK
    <3>2. t \in Trees /\ \A e \in Files : t[e] = IF e = f THEN "bad" ELSE gens[v][g][e]
      BY <1>0, <3>1, TreeUpdate
    <3> HIDE DEF t
    <3>3. QED
      BY <3>1, <3>2
  <2>2. gens' = [v \in Vms |-> gens'[v]]
    BY <1>1
  <2>3. QED
    BY <2>1, <2>2
<1>6. /\ active' \in [Vms -> Trees]
      /\ \A v \in Vms, e \in Files : active'[v][e] \in {active[v][e], "bad"}
                                       /\ (active[v][e] = Absent => active'[v][e] = Absent)
  <2>1. ASSUME NEW v \in Vms
        PROVE  /\ active'[v] \in Trees
               /\ \A e \in Files : active'[v][e] \in {active[v][e], "bad"}
                                  /\ (active[v][e] = Absent => active'[v][e] = Absent)
    <3> DEFINE t == [active[v] EXCEPT ![f] = "bad"]
    <3>1. /\ active[v] \in Trees
          /\ active'[v] = active[v] \/ (active'[v] = t /\ <<"active", v>> \in where)
      BY <1>1 DEF TypeOK
    <3>2. t \in Trees /\ \A e \in Files : t[e] = IF e = f THEN "bad" ELSE active[v][e]
      BY <1>0, <3>1, TreeUpdate
    <3> HIDE DEF t
    <3>3. QED
      BY <1>3, <3>1, <3>2, Basics
  <2>2. active' = [v \in Vms |-> active'[v]]
    BY <1>1
  <2>3. QED
    BY <2>1, <2>2
<1>7. /\ settled' \in [Vms -> Generations \cup {Absent}]
      /\ \A v \in Vms : settled'[v] = Absent \/ (settled'[v] = settled[v] /\ active'[v] = active[v])
  BY <1>1 DEF TypeOK
<1>8. guest' = Watched(active'[Reader], settled'[Reader]) /\ guest' \in GuestStates
  BY <1>1, WatchedIs
<1>9. /\ troubled' \in SUBSET Jobs
      /\ \/ \A i \in Jobs : job[i].pc # "idle" => i \in troubled'
         \/ where = {} /\ troubled' = troubled /\ cache' = cache /\ active' = active
  <2>1. CASE where = {}
    <3>1. active' = [v \in Vms |-> active[v]]
      BY <1>1, <2>1
    <3>2. active' = active
      BY <3>1 DEF TypeOK
    <3>3. QED
      BY <1>1, <2>1, <3>2 DEF TypeOK
  <2>2. CASE where # {}
    <3>1. troubled' = troubled \cup Stagers
      BY <1>1, <2>2
    <3>2. QED
      BY <3>1 DEF TypeOK, Stagers, At
  <2>3. QED
    BY <2>1, <2>2
<1>10. QED
  BY <1>4, <1>5, <1>6, <1>7, <1>8, <1>9

LEMMA SpoiltPartialIs ==
  ASSUME TypeOK, NEW g \in Generations, NEW f \in Files, NEW where \in SUBSET Places(g, f)
  PROVE  /\ SpoiltPartial(f, where) \in [Vms -> Trees]
         /\ \A v \in Vms, e \in Files :
              /\ SpoiltPartial(f, where)[v][e] \in {partial[v][e], "bad"}
              /\ partial[v][e] = Absent => SpoiltPartial(f, where)[v][e] = Absent
         /\ where = {} => SpoiltPartial(f, where) = partial
<1> DEFINE p == SpoiltPartial(f, where)
<1>1. p = [v \in Vms |-> IF <<"partial", v>> \in where
                         THEN [partial[v] EXCEPT ![f] = "bad"] ELSE partial[v]]
  BY DEF SpoiltPartial
<1>2. \A v \in Vms : <<"partial", v>> \in where => partial[v][f] = g
  <2>1. ASSUME NEW v \in Vms, <<"partial", v>> \in Places(g, f) PROVE partial[v][f] = g
    BY <2>1 DEF Places
  <2>2. QED
    BY <2>1
<1> HIDE DEF p
<1>3. ASSUME NEW v \in Vms
      PROVE  /\ p[v] \in Trees
             /\ \A e \in Files : p[v][e] \in {partial[v][e], "bad"} /\ (partial[v][e] = Absent => p[v][e] = Absent)
  <2> DEFINE t == [partial[v] EXCEPT ![f] = "bad"]
  <2>1. partial[v] \in Trees /\ (p[v] = partial[v] \/ (p[v] = t /\ <<"partial", v>> \in where))
    BY <1>1 DEF TypeOK
  <2>2. t \in Trees /\ \A e \in Files : t[e] = IF e = f THEN "bad" ELSE partial[v][e]
    <3>1. "bad" \in Contents
      BY DEF Contents
    <3>2. QED
      BY <2>1, <3>1, TreeUpdate
  <2> HIDE DEF t
  <2>3. QED
    BY <1>2, <2>1, <2>2, Basics
<1>4. p \in [Vms -> Trees]
  <2>1. p = [v \in Vms |-> p[v]]
    BY <1>1
  <2>2. QED
    BY <1>3, <2>1
<1>5. ASSUME where = {} PROVE p = partial
  <2>1. p = [v \in Vms |-> partial[v]]
    BY <1>1, <1>5
  <2>2. QED
    BY <2>1 DEF TypeOK
<1>6. QED
  BY <1>3, <1>4, <1>5 DEF p

\* What is left of the disk once a publisher has written over a temporary name.
LEMMA OverDisk ==
  ASSUME TInv, NEW j \in Jobs, PublishOver(j), ~Fails(j)
  PROVE  /\ cache' \in [Generations -> Trees] /\ gens' \in [Vms -> [Generations -> Trees]]
         /\ active' \in [Vms -> Trees] /\ settled' \in [Vms -> Generations \cup {Absent}]
         /\ partial' \in [Vms -> Trees] /\ troubled' \in SUBSET Jobs
         /\ guest' \in GuestStates /\ guest' = Watched(active'[Reader], settled'[Reader])
         /\ \A h \in Generations, e \in Files : cache'[h][e] \in {cache[h][e], "bad"}
                                               /\ (cache[h][e] = Absent => cache'[h][e] = Absent)
         /\ \A v \in Vms, h \in Generations, e \in Files :
              gens'[v][h][e] \in {gens[v][h][e], "bad"}
         /\ \A v \in Vms, e \in Files : active'[v][e] \in {active[v][e], "bad"}
                                       /\ (active[v][e] = Absent => active'[v][e] = Absent)
         /\ \A v \in Vms, e \in Files :
              \/ partial'[v][e] \in {partial[v][e], "bad"} /\ (partial[v][e] = Absent => partial'[v][e] = Absent)
              \/ v = job[j].vm /\ e = job[j].file
              \/ v = job[j].vm /\ partial'[v][e] = Absent
         /\ partial'[job[j].vm][job[j].file] = cache[job[j].gen][job[j].file]
         /\ \A v \in Vms : settled'[v] = Absent \/ (settled'[v] = settled[v] /\ active'[v] = active[v])
         /\ \/ \A i \in Jobs : job[i].pc # "idle" => i \in troubled'
            \/ /\ troubled' = troubled /\ cache' = cache /\ active' = active
               /\ \A v \in Vms \ {job[j].vm} : partial'[v] = partial[v]
<1> DEFINE v == job[j].vm
           f == job[j].file
           c == cache[job[j].gen][f]
<1>0. TypeOK
  BY DEF TInv
<1>1. v \in Vms /\ job[j].gen \in Generations /\ job[j].pc = "place"
  BY <1>0, JobFields, OverIs DEF TypeOK
<1>a. PICK e \in Files : \E where \in SUBSET Places(job[j].gen, e) :
        /\ Spoils(job[j].gen, e, where)
        /\ partial' = [SpoiltPartial(e, where) EXCEPT ![v] = Placed(@, j)]
  BY OverIs
<1>2. PICK where \in SUBSET Places(job[j].gen, e) :
        /\ Spoils(job[j].gen, e, where)
        /\ partial' = [SpoiltPartial(e, where) EXCEPT ![v] = Placed(@, j)]
  BY <1>a
<1> DEFINE p == SpoiltPartial(e, where)
<1>3. /\ p \in [Vms -> Trees]
      /\ \A u \in Vms, d \in Files :
              p[u][d] \in {partial[u][d], "bad"} /\ (partial[u][d] = Absent => p[u][d] = Absent)
      /\ where = {} => p = partial
  BY <1>0, <1>1, SpoiltPartialIs
<1>4. partial' = [p EXCEPT ![v] = Placed(p[v], j)]
  BY <1>2
<1> HIDE DEF p
<1>5. /\ f \in Files /\ Placed(p[v], j) \in Trees
      /\ \A d \in Files : Placed(p[v], j)[d] = IF d = f THEN c ELSE IF d \in Sharers(f) THEN Absent ELSE p[v][d]
  <2>1. p[v] \in Trees
    BY <1>1, <1>3
  <2>2. QED
    BY <1>1, <2>1, PlacedTree
<1> HIDE DEF f, c, v
<1>6. /\ partial' \in [Vms -> Trees] /\ partial'[v][f] = c
      /\ \A u \in Vms : u # v => partial'[u] = p[u]
      /\ \A d \in Files : partial'[v][d] = IF d = f THEN c ELSE IF d \in Sharers(f) THEN Absent ELSE p[v][d]
  BY <1>1, <1>3, <1>4, <1>5
<1>7. \A u \in Vms, d \in Files :
              \/ partial'[u][d] \in {partial[u][d], "bad"} /\ (partial[u][d] = Absent => partial'[u][d] = Absent)
              \/ u = v /\ d = f
              \/ u = v /\ partial'[u][d] = Absent
  BY <1>3, <1>6
<1>8. /\ cache' \in [Generations -> Trees] /\ gens' \in [Vms -> [Generations -> Trees]]
      /\ active' \in [Vms -> Trees] /\ settled' \in [Vms -> Generations \cup {Absent}]
      /\ troubled' \in SUBSET Jobs
      /\ guest' \in GuestStates /\ guest' = Watched(active'[Reader], settled'[Reader])
      /\ \A h \in Generations, d \in Files : cache'[h][d] \in {cache[h][d], "bad"}
                                            /\ (cache[h][d] = Absent => cache'[h][d] = Absent)
      /\ \A u \in Vms, h \in Generations, d \in Files : gens'[u][h][d] \in {gens[u][h][d], "bad"}
      /\ \A u \in Vms, d \in Files : active'[u][d] \in {active[u][d], "bad"}
                                    /\ (active[u][d] = Absent => active'[u][d] = Absent)
      /\ \A u \in Vms : settled'[u] = Absent \/ (settled'[u] = settled[u] /\ active'[u] = active[u])
      /\ \/ \A i \in Jobs : job[i].pc # "idle" => i \in troubled'
         \/ where = {} /\ troubled' = troubled /\ cache' = cache /\ active' = active
  BY <1>0, <1>1, <1>2, SpoilsIs, Zenon
<1>9. \/ \A i \in Jobs : job[i].pc # "idle" => i \in troubled'
      \/ /\ troubled' = troubled /\ cache' = cache /\ active' = active
         /\ \A u \in Vms \ {v} : partial'[u] = partial[u]
  BY <1>3, <1>6, <1>8
<1>10. QED
  BY <1>6, <1>7, <1>8, <1>9 DEF v, f, c

LEMMA JobStepDisk ==
  ASSUME TInv, NEW j \in Jobs, JobStep(j)
  PROVE  DiskOK'
<1>0. TypeOK /\ DiskOK
  BY DEF TInv, TypeOK, DiskOK
<1>a. job[j] \in JobStates /\ job[j].vm \in Vms /\ job[j].gen \in Generations
  BY <1>0, JobFields DEF TypeOK
<1>b. NoTree \in Trees /\ ExpectedFiles(job[j].gen) \in Trees
  BY <1>a, TreeFacts
<1>1. CASE LoadReady(j)
  <2>1. cacheLock' \in [Generations -> Jobs \cup {Absent}] /\ cache' \in [Generations -> Trees]
    BY <1>0, <1>a, <1>b, <1>1, UnlockedIs DEF LoadReady, DiskOK, Gen
  <2>2. QED
    BY <1>0, <1>1, <2>1 DEF LoadReady, DiskOK
<1>2. CASE Extract(j)
  BY <1>0, <1>a, <1>b, <1>2 DEF Extract, DiskOK, Gen
<1>3. CASE Reload(j)
  <2>1. /\ cacheLock' \in [Generations -> Jobs \cup {Absent}] /\ cache' \in [Generations -> Trees]
        /\ stageLock' \in [Vms -> [Generations -> Jobs \cup {Absent}]]
    <3>1. CASE VerifyGeneration(cache[Gen(j)], Gen(j))
      BY <1>0, <1>3, <3>1, UnlockedIs DEF Reload, DiskOK
    <3>2. CASE ~VerifyGeneration(cache[Gen(j)], Gen(j))
      <4>1. Fails(j) /\ cache' = [cache EXCEPT ![job[j].gen] = NoTree]
        BY <1>3, <3>2 DEF Reload, Gen
      <4>2. cache' \in [Generations -> Trees]
        BY <1>0, <1>a, <1>b, <4>1 DEF DiskOK
      <4>3. QED
        BY <1>0, <4>1, <4>2, FailsIs
    <3>3. QED
      BY <3>1, <3>2
  <2>2. QED
    BY <1>0, <1>3, <2>1 DEF Reload, DiskOK
<1>c. ASSUME Fails(j), UNCHANGED <<cache, gens, active, partial, guest, settled, troubled>>,
             marker' \in [Vms -> [Generations -> {Absent, "good", "bad", "other"}]]
      PROVE  DiskOK'
  BY <1>0, <1>c, FailsIs DEF DiskOK
<1>d. /\ Withdrawn(j) \in [Vms -> [Generations -> {Absent, "good", "bad", "other"}]]
      /\ marker \in [Vms -> [Generations -> {Absent, "good", "bad", "other"}]]
  <2>1. marker \in [Vms -> [Generations -> {Absent, "good", "bad", "other"}]]
    BY <1>0 DEF DiskOK
  <2>2. [marker EXCEPT ![job[j].vm][job[j].gen] = Absent] \in [Vms -> [Generations -> {Absent, "good", "bad", "other"}]]
    <3>1. Absent \in {Absent, "good", "bad", "other"}
      OBVIOUS
    <3>2. QED
      BY <1>a, <2>1, <3>1, TableUpdate
  <2>3. QED
    BY <2>1, <2>2 DEF Withdrawn, Gen, Vm
<1>4. CASE StageLock(j)
  <2>1. CASE ManifestVerifies(j)
    <3>1. stageLock' = [stageLock EXCEPT ![job[j].vm][job[j].gen] = j]
      BY <1>4, <2>1 DEF StageLock, Gen, Vm
    <3>2. stageLock' \in [Vms -> [Generations -> Jobs \cup {Absent}]]
      BY <1>0, <1>a, <3>1, TableUpdate DEF DiskOK
    <3>3. QED
      BY <1>0, <1>4, <2>1, <3>2 DEF StageLock, DiskOK
  <2>2. CASE ~ManifestVerifies(j)
    BY <1>0, <1>c, <1>d, <1>4, <2>2 DEF StageLock
  <2>3. QED
    BY <2>1, <2>2
<1>5. CASE VerifyMarker(j)
  <2>1. CASE Conflicting(j)
    BY <1>0, <1>c, <1>d, <1>5, <2>1 DEF VerifyMarker
  <2>2. CASE ~Conflicting(j)
    <3>1. marker' \in [Vms -> [Generations -> {Absent, "good", "bad", "other"}]]
      BY <1>d, <1>5, <2>2 DEF VerifyMarker
    <3>2. QED
      BY <1>0, <1>5, <2>2, <3>1 DEF VerifyMarker, DiskOK
  <2>3. QED
    BY <2>1, <2>2
<1>6. CASE EnsureGeneration(j)
  <2>1. marker' \in [Vms -> [Generations -> {Absent, "good", "bad", "other"}]]
    BY <1>d, <1>6 DEF EnsureGeneration
  <2>2. CASE Fails(j)
    BY <1>c, <1>6, <2>1, <2>2 DEF EnsureGeneration
  <2>3. CASE UNCHANGED <<cacheLock, stageLock>>
    BY <1>0, <1>6, <2>1, <2>3 DEF EnsureGeneration, DiskOK
  <2>4. QED
    BY <1>6, <2>2, <2>3 DEF EnsureGeneration
<1>7. CASE ClearGeneration(j)
  BY <1>0, <1>a, <1>b, <1>7 DEF ClearGeneration, DiskOK, Gen, Vm
<1>8. CASE PublishGeneration(j)
  <2>1. /\ gens' \in [Vms -> [Generations -> Trees]]
        /\ cacheLock' \in [Generations -> Jobs \cup {Absent}]
        /\ stageLock' \in [Vms -> [Generations -> Jobs \cup {Absent}]]
    <3>1. CASE Fails(j) /\ UNCHANGED gens
      BY <1>0, <3>1, FailsIs DEF DiskOK
    <3>2. CASE /\ gens' = [gens EXCEPT ![job[j].vm][job[j].gen] = ExpectedFiles(job[j].gen)]
               /\ UNCHANGED <<cacheLock, stageLock>>
      BY <1>0, <1>a, <1>b, <3>2 DEF DiskOK
    <3>3. QED
      BY <1>0, <1>8, <3>1, <3>2, PublishIs
  <2>2. QED
    BY <1>0, <1>8, <2>1 DEF PublishGeneration, DiskOK
<1>9. CASE CheckGeneration(j)
  <2>1. marker' \in [Vms -> [Generations -> {Absent, "good", "bad", "other"}]]
    BY <1>d, <1>9 DEF CheckGeneration
  <2>2. CASE Fails(j)
    BY <1>c, <1>9, <2>1, <2>2 DEF CheckGeneration
  <2>3. CASE UNCHANGED <<cacheLock, stageLock>>
    BY <1>0, <1>9, <2>1, <2>3 DEF CheckGeneration, DiskOK
  <2>4. QED
    BY <1>9, <2>2, <2>3 DEF CheckGeneration
<1>10. CASE EnsureReadyMarker(j)
  <2>1. marker' \in [Vms -> [Generations -> {Absent, "good", "bad", "other"}]]
    <3>1. marker' = marker \/ marker' = [marker EXCEPT ![job[j].vm][job[j].gen] = "good"]
      BY <1>0, <1>10, MarkIs
    <3>2. [marker EXCEPT ![job[j].vm][job[j].gen] = "good"] \in [Vms -> [Generations -> {Absent, "good", "bad", "other"}]]
      BY <1>a, <1>d, TableUpdate
    <3>3. QED
      BY <1>d, <3>1, <3>2, Zenon
  <2>2. UNCHANGED <<cache, gens, active, partial>>
    BY <1>0, <1>10, MarkIs
  <2>3. CASE Fails(j) /\ UNCHANGED <<settled, troubled, guest>>
    BY <1>c, <2>1, <2>2, <2>3
  <2>4. CASE /\ cacheLock' = cacheLock
             /\ stageLock' = [stageLock EXCEPT ![job[j].vm][job[j].gen] = Absent]
             /\ troubled' = IF PublishersOf(job[j].vm) = {} THEN troubled
                            ELSE troubled \cup PublishersOf(job[j].vm) \cup {j}
             /\ settled' = IF PublishersOf(job[j].vm) = {} THEN settled
                           ELSE [settled EXCEPT ![job[j].vm] = Absent]
             /\ guest' = Watched(active[Reader], settled'[Reader])
    <3>1. guest' \in GuestStates
      BY <1>0, <2>4, WatchedIs
    <3>2. settled' \in [Vms -> Generations \cup {Absent}]
      BY <1>0, <1>a, <2>4 DEF DiskOK
    <3>3. troubled' \in SUBSET Jobs
      BY <1>0, <2>4 DEF DiskOK, PublishersOf
    <3>4. stageLock' \in [Vms -> [Generations -> Jobs \cup {Absent}]]
      BY <1>0, <1>a, <2>4 DEF DiskOK
    <3>5. QED
      BY <1>0, <2>1, <2>2, <2>4, <3>1, <3>2, <3>3, <3>4 DEF DiskOK
  <2>5. QED
    BY <1>0, <1>10, <2>3, <2>4, MarkIs
<1>11. CASE PublishRename(j)
  <2> DEFINE f == job[j].file
             own == partial[job[j].vm][f]
             new == IF own # Absent THEN own ELSE "bad"
  <2>1. f \in Files /\ new \in Contents /\ UNCHANGED <<cache, gens, marker, troubled>>
    BY <1>11, RenameIs
  <2>2. CASE Fails(j) /\ UNCHANGED <<active, partial, guest, settled>>
    BY <1>c, <1>d, <2>1, <2>2
  <2>3. CASE /\ active' = [active EXCEPT ![job[j].vm] = [@ EXCEPT ![f] = new]]
             /\ partial' = [partial EXCEPT ![job[j].vm] = Removed(@, f)]
             /\ settled' = Unsettled(j)
             /\ guest' = Watched(active'[Reader], settled'[Reader])
             /\ UNCHANGED <<cacheLock, stageLock>>
    <3>2. guest' \in GuestStates
      BY <1>0, <2>3, WatchedIs
    <3>3. settled' \in [Vms -> Generations \cup {Absent}]
      BY <1>0, <1>a, <2>3, UnsettledIs
    <3>4. active[job[j].vm] \in Trees /\ partial[job[j].vm] \in Trees
      BY <1>0, <1>a DEF DiskOK
    <3> HIDE DEF f, new
    <3>5. [active[job[j].vm] EXCEPT ![f] = new] \in Trees /\ Removed(partial[job[j].vm], f) \in Trees
      BY <2>1, <3>4, TreeUpdate, RemovedTree
    <3>6. active' \in [Vms -> Trees] /\ partial' \in [Vms -> Trees]
      BY <1>0, <1>a, <2>3, <3>5 DEF DiskOK
    <3>7. QED
      BY <1>0, <2>1, <2>3, <3>2, <3>3, <3>6 DEF DiskOK
  <2>4. QED
    BY <1>11, <2>2, <2>3, RenameIs
<1>12. CASE Prune(j)
  <2>1. guest' \in GuestStates
    BY <1>0, <1>12, WatchedIs DEF Prune
  <2>2. PruneUndeclared(active[job[j].vm], job[j].gen) \in Trees
    BY <1>0, <1>a, PrunedTree DEF DiskOK
  <2>3. active' \in [Vms -> Trees] /\ partial' \in [Vms -> Trees]
    BY <1>0, <1>a, <1>b, <1>12, <2>2 DEF Prune, DiskOK, Gen, Vm
  <2>4. settled' \in [Vms -> Generations \cup {Absent}]
    BY <1>0, <1>a, <1>12 DEF Prune, DiskOK, Gen, Vm
  <2>5. QED
    BY <1>0, <1>12, <2>1, <2>3, <2>4 DEF Prune, DiskOK
<1>13. CASE MaterializeGeneration(j)
  <2>1. /\ cacheLock' \in [Generations -> Jobs \cup {Absent}]
        /\ stageLock' \in [Vms -> [Generations -> Jobs \cup {Absent}]]
    BY <1>0, <1>13, MaterializeIs, FailsIs DEF DiskOK
  <2>2. QED
    BY <1>0, <1>13, <2>1 DEF MaterializeGeneration, DiskOK
<1>14. CASE PublishLink(j)
  <2> DEFINE f == PublishOrder(job[j].todo)
  <2>1. /\ cacheLock' \in [Generations -> Jobs \cup {Absent}]
        /\ stageLock' \in [Vms -> [Generations -> Jobs \cup {Absent}]]
    BY <1>0, <1>14, LinkIs, FailsIs DEF DiskOK
  <2>2. f \in Files /\ (partial' = partial \/ partial' = [partial EXCEPT ![job[j].vm] = Removed(@, f)])
    BY <1>14, LinkIs
  <2>3. Removed(partial[job[j].vm], f) \in Trees
    BY <1>0, <1>a, <2>2, RemovedTree DEF DiskOK
  <2>4. partial' \in [Vms -> Trees]
    BY <1>0, <1>a, <2>2, <2>3 DEF DiskOK
  <2>5. QED
    BY <1>0, <1>14, <2>1, <2>4 DEF PublishLink, DiskOK
<1>15. CASE PublishPlace(j)
  <2>1. job[j].pc = "place" /\ UNCHANGED <<cache, gens, marker, active, guest, settled, troubled>>
    BY <1>15, PlaceIs
  <2>2. CASE Fails(j) /\ UNCHANGED partial
    BY <1>c, <1>d, <2>1, <2>2
  <2>3. CASE partial' = [partial EXCEPT ![job[j].vm] = Placed(@, j)] /\ UNCHANGED <<cacheLock, stageLock>>
    <3>1. Placed(partial[job[j].vm], j) \in Trees
      BY <1>0, <1>a, <2>1, PlacedTree DEF DiskOK
    <3>2. partial' \in [Vms -> Trees]
      BY <1>0, <1>a, <2>3, <3>1 DEF DiskOK
    <3>3. QED
      BY <1>0, <2>1, <2>3, <3>2 DEF DiskOK
  <2>4. QED
    BY <1>15, <2>2, <2>3, PlaceIs
<1>16. CASE PublishOver(j)
  <2>1. CASE Fails(j)
    <3>1. UNCHANGED <<cache, gens, active, partial, guest, settled, troubled, marker>>
      BY <1>0, <1>16, <2>1, OverIs, FailsIs
    <3>2. QED
      BY <1>c, <1>d, <2>1, <3>1
  <2>2. CASE ~Fails(j)
    <3>1. UNCHANGED <<cacheLock, stageLock, marker>>
      BY <1>16, <2>2, OverIs
    <3>2. QED
      BY <1>0, <1>16, <2>2, <3>1, OverDisk DEF DiskOK
  <2>3. QED
    BY <2>1, <2>2
<1>17. QED
  BY <1>1, <1>2, <1>3, <1>4, <1>5, <1>6, <1>7, <1>8, <1>9, <1>10, <1>11, <1>12, <1>13, <1>14,
     <1>15, <1>16 DEF JobStep

LEMMA BeginsDisk ==
  ASSUME TypeOK, NEW j \in Jobs, NEW v \in Vms, StageForVm(j, v)
  PROVE  DiskOK' /\ begun' \in 0..MaxStagings
<1>1. cacheLock' \in [Generations -> Jobs \cup {Absent}]
  <2>1. cacheLock' = cacheLock \/ cacheLock' = [cacheLock EXCEPT ![release] = j]
    BY BeginsIs, Zenon
  <2>2. QED
    BY <2>1 DEF TypeOK
<1>2. begun' \in 0..MaxStagings
  <2>1. begun \in 0..MaxStagings /\ MaxStagings \in Nat
    BY StagingAssumption DEF TypeOK
  <2>2. begun < MaxStagings /\ begun' = begun + 1
    BY DEF StageForVm
  <2>3. QED
    BY <2>1, <2>2
<1>3. troubled' \in SUBSET Jobs
  BY DEF StageForVm, TypeOK
<1>4. QED
  BY <1>1, <1>2, <1>3 DEF StageForVm, TypeOK, DiskOK

\* Where the recipe goes.
LEMMA ReadsIs ==
  ASSUME TypeOK, GuestReads
  PROVE  LET man == active[Reader][Manifest]
         IN /\ guest' \in GuestStates /\ guest'.man = man
            /\ \/ guest'.pc = "refused" /\ ~guest'.calm
               \/ /\ man \in Generations /\ guest'.pc = "verify"
                  /\ guest'.todo = Declares[man]
                  /\ guest'.calm <=> settled[Reader] = man
<1> DEFINE man == active[Reader][Manifest]
<1>1. man \in Contents /\ man # Absent
  BY TreeFacts, Basics DEF TypeOK, GuestReads
<1>2. CASE man = "bad"
  <2>1. guest' = [NoGuest EXCEPT !.pc = "refused", !.man = man, !.calm = FALSE]
    BY <1>2 DEF GuestReads
  <2> HIDE DEF man
  <2>2. guest' \in GuestStates /\ guest'.man = man /\ guest'.pc = "refused" /\ ~guest'.calm
    BY <1>1, <2>1, TreeFacts DEF NoGuest, GuestStates
  <2>3. QED
    BY <2>2 DEF man
<1>3. CASE man # "bad"
  <2>1. man \in Generations
    BY <1>1, <1>3 DEF Contents
  <2> DEFINE c == settled[Reader] = man
             d == Declares[man]
  <2>2. guest' = [NoGuest EXCEPT !.pc = "verify", !.man = man, !.todo = d, !.calm = c]
    BY <1>3 DEF GuestReads
  <2>3. c \in BOOLEAN /\ d \in SUBSET Files
    BY <2>1, Basics
  <2> HIDE DEF man, c, d
  <2>4. guest' \in GuestStates /\ guest'.man = man /\ guest'.pc = "verify" /\ guest'.todo = d /\ guest'.calm = c
    BY <1>1, <2>2, <2>3, TreeFacts DEF NoGuest, GuestStates
  <2>5. QED
    BY <2>1, <2>4 DEF man, c, d
<1>4. QED
  BY <1>2, <1>3

SameGhosts == guest'.calm = guest.calm /\ guest'.kept = guest.kept /\ guest'.man = guest.man

LEMMA VerifiesIs ==
  ASSUME TInv, NEW f \in Files, GuestVerifies(f)
  PROVE  /\ guest' \in GuestStates /\ SameGhosts /\ guest'.took = guest.took
         /\ guest.pc = "verify" /\ f = NextFile(guest.todo \ {Manifest})
         /\ guest.man \in Generations
         /\ \/ guest'.pc = "refused" /\ active[Reader][f] # guest.man
            \/ /\ active[Reader][f] = guest.man
               /\ \/ /\ guest'.pc = "copy" /\ guest'.todo = Declares[guest.man] \ {Manifest}
                     /\ guest.todo \ {f, Manifest} = {}
                  \/ /\ guest'.pc = "verify" /\ guest'.todo = guest.todo \ {f}
                     /\ guest.todo \ {f, Manifest} # {}
<1>1. guest \in GuestStates /\ guest.pc = "verify" /\ guest.man \in Generations
  BY DEF TInv, TypeOK, Filed, GuestVerifies
<1> DEFINE d == Declares[guest.man] \ {Manifest}
<1>2. d \in SUBSET Files
  BY <1>1, Basics
<1>3. CASE active[Reader][f] # guest.man
  <2>1. guest' = [guest EXCEPT !.pc = "refused", !.todo = {}]
    BY <1>3 DEF GuestVerifies, DeclaredFileVerifies
  <2>2. guest' \in GuestStates /\ SameGhosts /\ guest'.took = guest.took /\ guest'.pc = "refused"
    BY <1>1, <2>1 DEF GuestStates, SameGhosts
  <2>3. QED
    BY <1>1, <1>3, <2>2 DEF GuestVerifies
<1>4. CASE active[Reader][f] = guest.man /\ guest.todo \ {f, Manifest} = {}
  <2>1. guest' = [guest EXCEPT !.pc = "copy", !.todo = d]
    BY <1>4 DEF GuestVerifies, DeclaredFileVerifies
  <2> HIDE DEF d
  <2>2. guest' \in GuestStates /\ SameGhosts /\ guest'.took = guest.took /\ guest'.pc = "copy" /\ guest'.todo = d
    BY <1>1, <1>2, <2>1 DEF GuestStates, SameGhosts
  <2>3. QED
    BY <1>1, <1>4, <2>2 DEF GuestVerifies, d
<1>5. CASE active[Reader][f] = guest.man /\ guest.todo \ {f, Manifest} # {}
  <2>1. guest' = [guest EXCEPT !.todo = guest.todo \ {f}]
    BY <1>5 DEF GuestVerifies, DeclaredFileVerifies
  <2>2. /\ guest' \in GuestStates /\ SameGhosts /\ guest'.took = guest.took
        /\ guest'.pc = "verify" /\ guest'.todo = guest.todo \ {f}
    BY <1>1, <2>1 DEF GuestStates, SameGhosts
  <2>3. QED
    BY <1>1, <1>5, <2>2 DEF GuestVerifies
<1>6. QED
  BY <1>3, <1>4, <1>5

LEMMA CopiesIs ==
  ASSUME TypeOK, NEW f \in Files, GuestCopies(f)
  PROVE  LET new == active[Reader][f]
         IN /\ guest' \in GuestStates /\ SameGhosts
            /\ guest.pc = "copy" /\ f = NextFile(guest.todo)
            /\ \/ guest'.pc = "refused" /\ new = Absent
               \/ /\ new # Absent /\ guest'.todo = guest.todo \ {f}
                  /\ \A e \in Files : guest'.took[e] = IF e = f THEN new ELSE guest.took[e]
                  /\ guest'.pc = IF guest.todo = {f} THEN "installed" ELSE "copy"
<1> DEFINE new == active[Reader][f]
           t == [guest.took EXCEPT ![f] = new]
           next == IF guest.todo = {f} THEN "installed" ELSE "copy"
<1>1. guest \in GuestStates /\ guest.pc = "copy" /\ active[Reader] \in Trees /\ guest.took \in Trees
  BY Basics DEF TypeOK, GuestCopies, GuestStates
<1>2. new \in Contents
  BY <1>1, TreeFacts
<1>3. t \in Trees /\ \A e \in Files : t[e] = IF e = f THEN new ELSE guest.took[e]
  BY <1>1, <1>2, TreeUpdate
<1>4. CASE new = Absent
  <2>1. guest' = [guest EXCEPT !.pc = "refused", !.todo = {}]
    BY <1>4 DEF GuestCopies
  <2>2. guest' \in GuestStates /\ SameGhosts /\ guest'.pc = "refused"
    BY <1>1, <2>1 DEF GuestStates, SameGhosts
  <2>3. QED
    BY <1>1, <1>4, <2>2 DEF GuestCopies
<1>5. CASE new # Absent
  <2>1. guest' = [guest EXCEPT !.took = t, !.todo = guest.todo \ {f}, !.pc = next]
    BY <1>1, <1>5 DEF GuestCopies
  <2>2. next \in {"installed", "copy"}
    OBVIOUS
  <2> HIDE DEF t, next
  <2>3. /\ guest' \in GuestStates /\ SameGhosts /\ guest'.pc = next /\ guest'.took = t
        /\ guest'.todo = guest.todo \ {f}
    BY <1>1, <1>3, <2>1, <2>2 DEF GuestStates, SameGhosts
  <2>4. QED
    BY <1>1, <1>3, <1>5, <2>3 DEF GuestCopies, next
<1>6. QED
  BY <1>4, <1>5

LEMMA RotDisk ==
  ASSUME TypeOK, NEW g \in Generations, NEW f \in Files, Rot(g, f)
  PROVE  /\ DiskOK' /\ guest' = Watched(active'[Reader], settled'[Reader])
         /\ \A h \in Generations, e \in Files : cache'[h][e] \in {cache[h][e], "bad"}
                                               /\ (cache[h][e] = Absent => cache'[h][e] = Absent)
         /\ \A v \in Vms, h \in Generations, e \in Files :
              gens'[v][h][e] \in {gens[v][h][e], "bad"}
         /\ \A v \in Vms, e \in Files : active'[v][e] \in {active[v][e], "bad"}
                                       /\ (active[v][e] = Absent => active'[v][e] = Absent)
         /\ \A v \in Vms, e \in Files : partial'[v][e] \in {partial[v][e], "bad"}
         /\ \A v \in Vms : settled'[v] = Absent \/ (settled'[v] = settled[v] /\ active'[v] = active[v])
         /\ \A i \in Jobs : job[i].pc # "idle" => i \in troubled'
<1>1. PICK where \in (SUBSET Places(g, f)) \ {{}} :
        Spoils(g, f, where) /\ partial' = SpoiltPartial(f, where)
  BY DEF Rot
<1>2. where \in SUBSET Places(g, f) /\ where # {}
  <2>1. where \in SUBSET Places(g, f) /\ where \notin {{}}
    OBVIOUS
  <2>2. where # {}
    BY <2>1, Zenon
  <2>3. QED
    BY <2>1, <2>2
<1>3. partial' \in [Vms -> Trees] /\ \A v \in Vms, e \in Files : partial'[v][e] \in {partial[v][e], "bad"}
  BY <1>1, <1>2, SpoiltPartialIs
<1>4. /\ cache' \in [Generations -> Trees] /\ gens' \in [Vms -> [Generations -> Trees]]
      /\ active' \in [Vms -> Trees] /\ settled' \in [Vms -> Generations \cup {Absent}]
      /\ troubled' \in SUBSET Jobs
      /\ guest' \in GuestStates /\ guest' = Watched(active'[Reader], settled'[Reader])
      /\ \A h \in Generations, e \in Files : cache'[h][e] \in {cache[h][e], "bad"}
                                            /\ (cache[h][e] = Absent => cache'[h][e] = Absent)
      /\ \A v \in Vms, h \in Generations, e \in Files : gens'[v][h][e] \in {gens[v][h][e], "bad"}
      /\ \A v \in Vms, e \in Files : active'[v][e] \in {active[v][e], "bad"}
                                    /\ (active[v][e] = Absent => active'[v][e] = Absent)
      /\ \A v \in Vms : settled'[v] = Absent \/ (settled'[v] = settled[v] /\ active'[v] = active[v])
      /\ \/ \A i \in Jobs : job[i].pc # "idle" => i \in troubled'
         \/ where = {} /\ troubled' = troubled /\ cache' = cache /\ active' = active
  BY <1>1, <1>2, SpoilsIs, Zenon
<1>5. DiskOK'
  BY <1>3, <1>4 DEF Rot, DiskOK, TypeOK
<1>6. QED
  BY <1>2, <1>3, <1>4, <1>5

\* A fault that is counted.
LEMMA FaultCounts ==
  ASSUME TypeOK, faults < MaxFaults, faults' = faults + 1
  PROVE  faults' \in 0..MaxFaults
<1>1. faults \in 0..MaxFaults /\ MaxFaults \in Nat
  BY StagingAssumption DEF TypeOK
<1>2. QED
  BY <1>1

LEMMA KilledJobs ==
  ASSUME TypeOK, NEW r \in Generations, Killed(r)
  PROVE  /\ job' \in [Jobs -> JobStates] /\ \A j \in Jobs : job'[j].pc = "idle" /\ ~job'[j].failed
         /\ cacheLock' \in [Generations -> Jobs \cup {Absent}]
         /\ stageLock' \in [Vms -> [Generations -> Jobs \cup {Absent}]]
         /\ troubled' \in SUBSET Jobs
         /\ \A g \in Generations : cacheLock'[g] = Absent
  BY NoJobIs DEF Killed

LEMMA InitTyped == Init => TInv
<1> SUFFICES ASSUME Init PROVE TInv
  OBVIOUS
<1>1. job \in [Jobs -> JobStates] /\ \A j \in Jobs : job[j].pc = "idle"
  BY NoJobIs DEF Init
<1>2. guest \in GuestStates /\ guest.pc = "idle"
  BY TreeFacts DEF Init, NoGuest, GuestStates, Contents
<1>3. begun \in 0..MaxStagings /\ faults \in 0..MaxFaults
  BY StagingAssumption DEF Init
<1>4. /\ release \in Generations /\ cache \in [Generations -> Trees] /\ active \in [Vms -> Trees]
      /\ partial \in [Vms -> Trees] /\ gens \in [Vms -> [Generations -> Trees]]
  <2> HIDE DEF NoTree
  <2>1. QED
    BY TreeFacts, Basics DEF Init
<1>5. TypeOK
  BY <1>1, <1>2, <1>3, <1>4 DEF Init, TypeOK
<1>6. QED
  BY <1>1, <1>2, <1>5 DEF TInv, Filed

LEMMA StepTyped == TInv /\ [Next]_vars => TInv'
<1> SUFFICES ASSUME TInv, [Next]_vars PROVE TInv'
  OBVIOUS
<1>0. TypeOK /\ Filed
  BY DEF TInv
<1>1. ASSUME NEW j \in Jobs, JobStep(j) PROVE TInv'
  <2>1. TypeOK'
    <3>1. DiskOK' /\ job' \in [Jobs -> JobStates] /\ UNCHANGED <<release, begun, faults>>
      BY <1>1, JobStepDisk, JobStepIs DEF Moves
    <3>2. QED
      BY <1>0, <3>1 DEF TypeOK, DiskOK
  <2>2. guest'.pc = guest.pc /\ guest'.man = guest.man
    <3>1. CASE guest' = guest
      BY <3>1
    <3>2. CASE \E t, s : guest' = Watched(t, s)
      BY <1>0, <3>2, WatchedIs DEF SameGuest
    <3>3. QED
      BY <1>1, <3>1, <3>2 DEF JobStep, LoadReady, Extract, Reload, StageLock, VerifyMarker,
         EnsureGeneration, ClearGeneration, PublishGeneration, CheckGeneration, EnsureReadyMarker,
         PublishRename, Prune, MaterializeGeneration, PublishLink, PublishPlace, PublishOver, Spoils
  <2>3. /\ job'[j].pc = "link" => Manifest \in job'[j].todo
        /\ job'[j].pc \in {"place", "rename"} =>
             /\ job'[j].file \in Files
             /\ IF job'[j].file = Manifest THEN job'[j].todo = {} ELSE Manifest \in job'[j].todo
    <3>1. CASE PublishLink(j)
      <4> DEFINE f == PublishOrder(job[j].todo)
      <4>1. /\ f \in Files
            /\ IF f = Manifest THEN job[j].todo = {Manifest} ELSE Manifest \in job[j].todo \ {f}
            /\ Fails(j) \/ (job'[j].pc = "place" /\ job'[j].todo = job[j].todo \ {f} /\ job'[j].file = f)
        BY <3>1, LinkIs
      <4> HIDE DEF f
      <4>2. CASE Fails(j)
        BY <1>0, <4>2, FailsIs
      <4>3. CASE job'[j].pc = "place" /\ job'[j].todo = job[j].todo \ {f} /\ job'[j].file = f
        BY <4>1, <4>3
      <4>4. QED
        BY <4>1, <4>2, <4>3
    <3>2. CASE PublishRename(j)
      <4>1. job'[j].pc \in {"idle", "prune"} \/ (job'[j].pc = "link" /\ job'[j].todo = job[j].todo /\ job[j].todo # {})
        BY <1>0, <3>2, RenameIs, FailsIs
      <4>2. job[j].pc = "rename"
        BY <3>2 DEF PublishRename, At
      <4>3. QED
        BY <1>0, <4>1, <4>2 DEF Filed
    <3>3. CASE EnsureReadyMarker(j)
      <4>1. \/ job'[j].pc = "idle"
            \/ job'[j].pc = "link" /\ job'[j].todo = Declares[job[j].gen] /\ job[j].gen \in Generations
        BY <1>0, <3>3, MarkIs, FailsIs, JobFields DEF TypeOK
      <4>2. QED
        BY <4>1, Basics
    <3>a. CASE PublishPlace(j) \/ PublishOver(j)
      <4>1. job[j].pc = "place" /\ (job'[j].pc = "idle" \/ (job'[j].pc = "rename" /\ SameWork(j)))
        BY <1>0, <3>a, PlaceIs, OverIs, FailsIs
      <4>2. QED
        BY <1>0, <4>1 DEF Filed, SameWork
    <3>4. CASE /\ ~PublishLink(j) /\ ~PublishRename(j) /\ ~EnsureReadyMarker(j)
               /\ ~PublishPlace(j) /\ ~PublishOver(j)
      <4>1. job'[j].pc \notin {"link", "place", "rename"}
        <5>1. CASE Prune(j)
          BY <1>0, <5>1, EndsIs DEF Prune
        <5>2. CASE MaterializeGeneration(j)
          BY <1>0, <5>2, MaterializeIs, FailsIs
        <5>3. CASE PublishGeneration(j)
          BY <1>0, <5>3, PublishIs, FailsIs
        <5>4. CASE ClearGeneration(j)
          BY <1>0, <5>4, ClearIs
        <5>5. CASE Fails(j)
          BY <1>0, <5>5, FailsIs
        <5>6. CASE \E step \in Pcs \ {"link", "place", "rename"} : Goes(j, step)
          BY <1>0, <5>6, GoesIs
        <5>7. QED
          BY <1>1, <3>4, <5>1, <5>2, <5>3, <5>4, <5>5, <5>6 DEF JobStep, LoadReady, Extract, Reload, StageLock,
             VerifyMarker, EnsureGeneration, CheckGeneration, Pcs
      <4>2. QED
        BY <4>1
    <3>5. QED
      BY <3>1, <3>2, <3>3, <3>4, <3>a
  <2>4. \A i \in Jobs \ {j} : job'[i] = job[i]
    BY <1>1, JobStepIs DEF Moves
  <2>5. Filed'
    BY <1>0, <2>2, <2>3, <2>4 DEF Filed
  <2>6. QED
    BY <2>1, <2>5 DEF TInv
<1>2. ASSUME NEW j \in Jobs, NEW v \in Vms, StageForVm(j, v) PROVE TInv'
  <2>1. TypeOK'
    <3>1. /\ DiskOK' /\ job' \in [Jobs -> JobStates] /\ begun' \in 0..MaxStagings
          /\ UNCHANGED <<release, faults>>
      BY <1>0, <1>2, BeginsDisk, BeginsIs DEF StageForVm
    <3>2. QED
      BY <1>0, <3>1 DEF TypeOK, DiskOK
  <2>2. guest' = guest
    BY <1>2 DEF StageForVm
  <2>3. (\A i \in Jobs \ {j} : Steady(i)) /\ job'[j].pc \in {"idle", "load"}
    BY <1>0, <1>2, BeginsIs
  <2>4. Filed'
    BY <1>0, <2>2, <2>3 DEF Filed, Steady
  <2>5. QED
    BY <2>1, <2>4 DEF TInv
<1>3. ASSUME GuestStep PROVE TInv'
  <2>1. UNCHANGED <<release, cache, cacheLock, gens, marker, stageLock, active, partial, job, settled, troubled, begun, faults>>
    BY <1>3 DEF GuestStep, GuestReads, GuestDone, GuestVerifies, GuestCopies
  <2>2. guest' \in GuestStates /\ (guest'.pc \in {"verify", "copy", "installed"} => guest'.man \in Generations)
    <3>1. CASE GuestReads
      BY <1>0, <3>1, ReadsIs
    <3>2. CASE GuestDone
      BY <3>2, TreeFacts DEF GuestDone, NoGuest, GuestStates, Contents
    <3>3. ASSUME NEW f \in Files, GuestVerifies(f)
          PROVE  guest' \in GuestStates /\ guest'.man \in Generations
      BY <3>3, VerifiesIs DEF SameGhosts
    <3>4. ASSUME NEW f \in Files, GuestCopies(f)
          PROVE  guest' \in GuestStates /\ guest'.man \in Generations
      <4>1. guest.man \in Generations
        BY <1>0, <3>4 DEF GuestCopies, Filed
      <4>2. QED
        BY <1>0, <3>4, <4>1, CopiesIs DEF SameGhosts
    <3>5. QED
      BY <1>3, <3>1, <3>2, <3>3, <3>4 DEF GuestStep
  <2>3. QED
    BY <1>0, <2>1, <2>2 DEF TInv, TypeOK, Filed
<1>4. ASSUME NEW r \in Generations, Killed(r) PROVE TInv'
  BY <1>0, <1>4, KilledJobs, FaultCounts DEF Killed, TInv, TypeOK, Filed
<1>5. ASSUME NEW g \in Generations, NEW f \in Files, Rot(g, f) PROVE TInv'
  <2>1. /\ DiskOK' /\ job' \in [Jobs -> JobStates] /\ \A i \in Jobs : Steady(i)
        /\ UNCHANGED <<release, begun>> /\ faults' \in 0..MaxFaults /\ SameGuest
    <3>1. faults' \in 0..MaxFaults /\ UNCHANGED <<release, begun>>
      BY <1>0, <1>5, FaultCounts DEF Rot
    <3>2. DiskOK' /\ guest' = Watched(active'[Reader], settled'[Reader])
      BY <1>0, <1>5, RotDisk
    <3>3. SameGuest
      BY <1>0, <3>2, WatchedIs
    <3>4. QED
      BY <1>0, <1>5, <3>1, <3>2, <3>3, RotJobs
  <2>2. TypeOK'
    BY <1>0, <2>1 DEF TypeOK, DiskOK
  <2>3. Filed'
    BY <1>0, <2>1 DEF Filed, Steady, SameGuest
  <2>4. QED
    BY <2>2, <2>3 DEF TInv
<1>6. ASSUME NEW v \in Vms, NEW g \in Generations, NEW m \in {"bad", "other"}, RotMarker(v, g, m) PROVE TInv'
  <2>1. marker' \in [Vms -> [Generations -> {Absent, "good", "bad", "other"}]]
    BY <1>0, <1>6, TableUpdate DEF RotMarker, TypeOK
  <2>2. QED
    BY <1>0, <1>6, <2>1, FaultCounts DEF RotMarker, TInv, TypeOK, Filed
<1>7. ASSUME NEW j \in Jobs, ExtractFails(j) PROVE TInv'
  <2>1. Moves(j) /\ job'[j].pc = "idle"
    BY <1>0, <1>7, EndsIs DEF ExtractFails
  <2>2. cacheLock' \in [Generations -> Jobs \cup {Absent}] /\ faults' \in 0..MaxFaults
    BY <1>0, <1>7, UnlockedIs, FaultCounts DEF ExtractFails
  <2>3. TypeOK'
    BY <1>0, <1>7, <2>1, <2>2 DEF ExtractFails, TypeOK, Moves
  <2>4. Filed'
    BY <1>0, <1>7, <2>1 DEF ExtractFails, Filed, Moves
  <2>5. QED
    BY <2>3, <2>4 DEF TInv
<1>8. CASE UNCHANGED vars
  BY <1>0, <1>8 DEF vars, TInv, TypeOK, Filed
<1>9. QED
  BY <1>1, <1>2, <1>3, <1>4, <1>5, <1>6, <1>7, <1>8 DEF Next, Fault

\* Every part of the staging keeps its type, whatever is staged at the same time,
\* killed or rotten (staging.rs, cache.rs).
THEOREM TypeCorrect == Spec => []TypeOK
<1>1. TInv => TypeOK
  BY DEF TInv
<1>2. QED
  BY <1>1, InitTyped, StepTyped, PTL DEF Spec

-----------------------------------------------------------------------------
(* Releases and locks. *)

LEMMA CurrentStep == TInv /\ Current /\ Next => Current'
<1> SUFFICES ASSUME TInv, Current, Next PROVE Current'
  OBVIOUS
<1>0. TypeOK
  BY DEF TInv
<1>1. \A j \in Jobs : job'[j].pc # "idle" => job'[j].gen = release'
  <2>1. ASSUME NEW j \in Jobs, JobStep(j) PROVE \A i \in Jobs : job'[i].pc # "idle" => job'[i].gen = release'
    BY <2>1, JobStepIs DEF Moves, Same, Current
  <2>2. ASSUME NEW j \in Jobs, NEW v \in Vms, StageForVm(j, v)
        PROVE \A i \in Jobs : job'[i].pc # "idle" => job'[i].gen = release'
    <3>1. release' = release
      BY <2>2 DEF StageForVm
    <3>2. QED
      BY <1>0, <2>2, <3>1, BeginsIs DEF Steady, Current
  <2>3. CASE GuestStep
    BY <2>3 DEF GuestStep, GuestReads, GuestDone, GuestVerifies, GuestCopies, Current
  <2>4. ASSUME NEW r \in Generations, Killed(r) PROVE \A i \in Jobs : job'[i].pc # "idle" => job'[i].gen = release'
    BY <1>0, <2>4, KilledJobs
  <2>5. ASSUME NEW g \in Generations, NEW f \in Files, Rot(g, f)
        PROVE \A i \in Jobs : job'[i].pc # "idle" => job'[i].gen = release'
    <3>1. release' = release
      BY <2>5 DEF Rot
    <3>2. QED
      BY <1>0, <2>5, <3>1, RotJobs DEF Steady, Current
  <2>6. ASSUME NEW v \in Vms, NEW g \in Generations, NEW m \in {"bad", "other"}, RotMarker(v, g, m)
        PROVE \A i \in Jobs : job'[i].pc # "idle" => job'[i].gen = release'
    BY <2>6 DEF RotMarker, Current
  <2>7. ASSUME NEW j \in Jobs, ExtractFails(j) PROVE \A i \in Jobs : job'[i].pc # "idle" => job'[i].gen = release'
    BY <1>0, <2>7, EndsIs DEF ExtractFails, Moves, Current
  <2>8. QED
    BY <2>1, <2>2, <2>3, <2>4, <2>5, <2>6, <2>7 DEF Next, Fault
<1>2. \A g \in Generations, f \in Files : cache'[g][f] \in OfGeneration(g) \cup {Absent}
  <2>1. CASE cache' = cache
    BY <2>1 DEF Current
  <2>2. ASSUME NEW j \in Jobs,
               \/ cache' = [cache EXCEPT ![job[j].gen] = NoTree]
               \/ cache' = [cache EXCEPT ![job[j].gen] = ExpectedFiles(job[j].gen)]
        PROVE  \A g \in Generations, f \in Files : cache'[g][f] \in OfGeneration(g) \cup {Absent}
    <3>1. job[j].gen \in Generations
      BY <1>0, JobFields DEF TypeOK
    <3>2. \A f \in Files : /\ NoTree[f] \in OfGeneration(job[j].gen) \cup {Absent}
                          /\ ExpectedFiles(job[j].gen)[f] \in OfGeneration(job[j].gen) \cup {Absent}
      BY <3>1, TreeFacts DEF OfGeneration
    <3>3. QED
      BY <1>0, <2>2, <3>1, <3>2 DEF Current, TypeOK
  <2>3. ASSUME NEW g \in Generations, NEW f \in Files, Rot(g, f)
        PROVE  \A h \in Generations, e \in Files : cache'[h][e] \in OfGeneration(h) \cup {Absent}
    BY <1>0, <2>3, RotDisk DEF Current, OfGeneration
  <2>4. ASSUME NEW j \in Jobs, PublishOver(j)
        PROVE  \A h \in Generations, e \in Files : cache'[h][e] \in OfGeneration(h) \cup {Absent}
    <3>1. CASE Fails(j)
      BY <1>0, <2>1, <2>4, <3>1, OverIs, FailsIs
    <3>2. CASE ~Fails(j)
      BY <2>4, <3>2, OverDisk DEF Current, OfGeneration
    <3>3. QED
      BY <3>1, <3>2
  <2>5. ASSUME NEW j \in Jobs, JobStep(j)
        PROVE  \A h \in Generations, e \in Files : cache'[h][e] \in OfGeneration(h) \cup {Absent}
    BY <2>1, <2>2, <2>4, <2>5 DEF JobStep, LoadReady, Extract, Reload, StageLock,
       VerifyMarker, EnsureGeneration, ClearGeneration, PublishGeneration, CheckGeneration,
       EnsureReadyMarker, PublishRename, Prune, MaterializeGeneration, PublishLink, PublishPlace, Gen
  <2>6. QED
    BY <2>1, <2>3, <2>5 DEF Next, Fault, GuestStep, GuestReads, GuestDone, GuestVerifies, GuestCopies,
       Killed, RotMarker, ExtractFails, StageForVm
<1>3. QED
  BY <1>1, <1>2 DEF Current

\* A stager takes no lock from another, holds what it stages, and leaves the
\* cache's lock with the cache.
Keys(j) ==
  /\ \A i \in Jobs \ {j}, v \in Vms, g \in Generations : stageLock[v][g] = i => stageLock'[v][g] = i
  /\ job'[j].pc \in Staging => stageLock'[job'[j].vm][job'[j].gen] = j
  /\ \A g \in Generations :
       /\ cacheLock'[g] \in {cacheLock[g], Absent}
       /\ cacheLock'[g] = j => job'[j].pc \in Caching /\ Same(j)

LEMMA JobStepKeys ==
  ASSUME TInv, Locked, NEW j \in Jobs, JobStep(j)
  PROVE  Keys(j)
<1>0. TypeOK
  BY DEF TInv
<1>a. job[j].vm \in Vms /\ job[j].gen \in Generations /\ Absent \notin Jobs
  BY <1>0, JobFields, Basics DEF TypeOK
<1>b. \A g \in Generations : cacheLock[g] = j => job[j].pc \in Caching /\ job[j].gen = g
  BY <1>a DEF Locked
<1>c. ASSUME Fails(j) PROVE Keys(j)
  <2>1. /\ job'[j].pc = "idle" /\ job[j].pc \in Pcs
        /\ \A g \in Generations :
              cacheLock'[g] = IF g = job[j].gen /\ cacheLock[g] = j THEN Absent ELSE cacheLock[g]
        /\ \A v \in Vms, g \in Generations, i \in Jobs \ {j} :
              stageLock[v][g] = i => stageLock'[v][g] = i
    BY <1>0, <1>c, FailsIs, JobFields DEF TypeOK
  <2>2. QED
    BY <1>a, <1>b, <2>1 DEF Keys, Staging
<1>d. ASSUME UNCHANGED <<cacheLock, stageLock>>, job'[j].pc = "idle" \/ Same(j),
             job[j].pc \notin Caching,
             job[j].pc \in Staging \/ job'[j].pc \notin Staging
      PROVE  Keys(j)
  <2>1. job'[j].pc \in Staging => stageLock'[job'[j].vm][job'[j].gen] = j
    BY <1>d DEF Locked, Same, Staging
  <2>2. QED
    BY <1>b, <1>d, <2>1 DEF Keys
<1>e. Moves(j) /\ (job'[j].pc = "idle" \/ Same(j))
  BY JobStepIs
<1>1. CASE LoadReady(j)
  <2>1. CASE Goes(j, "lock") /\ cacheLock' = Unlocked(j) /\ UNCHANGED stageLock
    <3>1. job'[j].pc = "lock" /\ Same(j)
      BY <1>0, <2>1, GoesIs DEF Pcs
    <3>2. \A g \in Generations : cacheLock'[g] = IF g = job[j].gen THEN Absent ELSE cacheLock[g]
      BY <1>0, <2>1, UnlockedIs
    <3>3. QED
      BY <1>a, <1>b, <2>1, <3>1, <3>2 DEF Keys, Staging
  <2>2. CASE Goes(j, "extract") /\ UNCHANGED <<cacheLock, stageLock>>
    <3>1. job'[j].pc = "extract" /\ Same(j)
      BY <1>0, <2>2, GoesIs DEF Pcs
    <3>2. QED
      BY <2>2, <3>1 DEF Keys, Staging, Caching
  <2>3. QED
    BY <1>1, <2>1, <2>2 DEF LoadReady
<1>2. CASE Extract(j)
  <2>1. job'[j].pc = "reload" /\ Same(j)
    BY <1>0, <1>2, GoesIs DEF Pcs, Extract
  <2>2. QED
    BY <1>2, <2>1 DEF Keys, Staging, Caching, Extract
<1>3. CASE Reload(j)
  <2>1. CASE Goes(j, "lock") /\ cacheLock' = Unlocked(j) /\ UNCHANGED stageLock
    <3>1. job'[j].pc = "lock" /\ Same(j)
      BY <1>0, <2>1, GoesIs DEF Pcs
    <3>2. \A g \in Generations : cacheLock'[g] = IF g = job[j].gen THEN Absent ELSE cacheLock[g]
      BY <1>0, <2>1, UnlockedIs
    <3>3. QED
      BY <1>a, <1>b, <2>1, <3>1, <3>2 DEF Keys, Staging
  <2>2. QED
    BY <1>3, <1>c, <2>1 DEF Reload
<1>4. CASE StageLock(j)
  <2>1. CASE ~ManifestVerifies(j)
    BY <1>4, <1>c, <2>1 DEF StageLock
  <2>2. CASE ManifestVerifies(j)
    <3>1. job'[j].pc = "marker" /\ Same(j) /\ job[j].pc = "lock"
      BY <1>0, <1>4, <2>2, GoesIs DEF Pcs, StageLock, At
    <3>2. /\ stageLock[job[j].vm][job[j].gen] = Absent /\ cacheLock' = cacheLock
          /\ \A v \in Vms, g \in Generations :
                stageLock'[v][g] = IF v = job[j].vm /\ g = job[j].gen THEN j ELSE stageLock[v][g]
      BY <1>0, <1>a, <1>4, <2>2 DEF StageLock, Gen, Vm, TypeOK
    <3>3. QED
      BY <1>a, <1>b, <3>1, <3>2 DEF Keys, Same, Caching
  <2>3. QED
    BY <2>1, <2>2
<1>5. CASE EnsureReadyMarker(j)
  <2>1. CASE Fails(j)
    BY <1>c, <2>1
  <2>2. CASE /\ job'[j].pc = "link" /\ cacheLock' = cacheLock
             /\ stageLock' = [stageLock EXCEPT ![job[j].vm][job[j].gen] = Absent]
    <3>1. job[j].pc = "mark" /\ stageLock[job[j].vm][job[j].gen] = j
      BY <1>0, <1>5, MarkIs DEF Locked, Staging
    <3>2. \A v \in Vms, g \in Generations :
             stageLock'[v][g] = IF v = job[j].vm /\ g = job[j].gen THEN Absent ELSE stageLock[v][g]
      BY <1>0, <1>a, <2>2 DEF TypeOK
    <3>3. QED
      BY <1>a, <1>b, <2>2, <3>1, <3>2 DEF Keys, Staging, Caching
  <2>3. QED
    BY <1>0, <1>5, <2>1, <2>2, MarkIs
<1>6. CASE VerifyMarker(j) \/ EnsureGeneration(j) \/ ClearGeneration(j) \/ CheckGeneration(j)
  BY <1>6, <1>c, <1>d, <1>e DEF VerifyMarker, EnsureGeneration, ClearGeneration, CheckGeneration, At, Staging, Caching
<1>7. CASE PublishGeneration(j)
  BY <1>0, <1>7, <1>c, <1>d, <1>e, PublishIs DEF PublishGeneration, At, Staging, Caching
<1>8. CASE MaterializeGeneration(j)
  BY <1>0, <1>8, <1>c, <1>d, <1>e, MaterializeIs DEF MaterializeGeneration, At, Staging, Caching
<1>9. CASE PublishLink(j)
  <2>1. job[j].pc = "link" /\ (Fails(j) \/ (job'[j].pc = "place" /\ UNCHANGED <<cacheLock, stageLock>>))
    BY <1>9, LinkIs DEF PublishLink, At
  <2>2. QED
    BY <1>c, <1>d, <1>e, <2>1 DEF Staging, Caching
<1>10. CASE PublishRename(j)
  <2>1. job[j].pc = "rename" /\ (Fails(j) \/ (job'[j].pc \in {"prune", "link"} /\ UNCHANGED <<cacheLock, stageLock>>))
    BY <1>10, RenameIs DEF PublishRename, At
  <2>2. QED
    BY <1>c, <1>d, <1>e, <2>1 DEF Staging, Caching
<1>11. CASE Prune(j)
  <2>1. job[j].pc = "prune" /\ job'[j].pc = "idle" /\ UNCHANGED <<cacheLock, stageLock>>
    BY <1>0, <1>11, EndsIs DEF Prune, At
  <2>2. QED
    BY <1>d, <1>e, <2>1 DEF Staging, Caching
<1>12. CASE PublishPlace(j) \/ PublishOver(j)
  <2>1. job[j].pc = "place" /\ (Fails(j) \/ (job'[j].pc = "rename" /\ UNCHANGED <<cacheLock, stageLock>>))
    BY <1>12, PlaceIs, OverIs
  <2>2. QED
    BY <1>c, <1>d, <1>e, <2>1 DEF Staging, Caching
<1>13. QED
  BY <1>1, <1>2, <1>3, <1>4, <1>5, <1>6, <1>7, <1>8, <1>9, <1>10, <1>11, <1>12 DEF JobStep

LEMMA LockedStep == TInv /\ Locked /\ Next => Locked'
<1> SUFFICES ASSUME TInv, Locked, Next PROVE Locked'
  OBVIOUS
<1>0. TypeOK
  BY DEF TInv
<1>a. \A g \in Generations : cacheLock[g] \in Jobs \cup {Absent}
  BY <1>0 DEF TypeOK
<1>b. \A j \in Jobs : job[j].vm \in Vms /\ job[j].gen \in Generations
  BY <1>0, JobFields DEF TypeOK
<1>1. ASSUME NEW j \in Jobs, JobStep(j) PROVE Locked'
  <2>1. Keys(j) /\ \A i \in Jobs \ {j} : job'[i] = job[i]
    BY <1>1, JobStepKeys, JobStepIs DEF Moves
  <2>2. \A i \in Jobs : job'[i].pc \in Staging => stageLock'[job'[i].vm][job'[i].gen] = i
    BY <1>b, <2>1 DEF Keys, Locked
  <2>3. ASSUME NEW g \in Generations, cacheLock'[g] # Absent
        PROVE  job'[cacheLock'[g]].pc \in Caching /\ job'[cacheLock'[g]].gen = g
    <3>1. /\ cacheLock'[g] = cacheLock[g] /\ cacheLock[g] \in Jobs
          /\ job[cacheLock[g]].pc \in Caching /\ job[cacheLock[g]].gen = g
      BY <1>a, <2>1, <2>3 DEF Keys, Locked
    <3>2. CASE cacheLock[g] = j
      BY <2>1, <3>1, <3>2 DEF Keys, Same
    <3>3. CASE cacheLock[g] # j
      BY <2>1, <3>1, <3>3
    <3>4. QED
      BY <3>2, <3>3
  <2>4. QED
    BY <2>2, <2>3 DEF Locked
<1>2. ASSUME NEW j \in Jobs, NEW v \in Vms, StageForVm(j, v) PROVE Locked'
  <2>1. /\ \A i \in Jobs \ {j} : Steady(i)
        /\ job[j].pc = "idle" /\ job'[j].pc \in {"idle", "load"} /\ stageLock' = stageLock
    BY <1>0, <1>2, BeginsIs DEF StageForVm
  <2>2. \A i \in Jobs : job'[i].pc \in Staging => stageLock'[job'[i].vm][job'[i].gen] = i
    BY <2>1 DEF Locked, Steady, Staging
  <2>3. ASSUME NEW g \in Generations, cacheLock'[g] # Absent
        PROVE  job'[cacheLock'[g]].pc \in Caching /\ job'[cacheLock'[g]].gen = g
    <3>1. \/ cacheLock'[g] = cacheLock[g]
          \/ cacheLock'[g] = j /\ job'[j].pc = "load" /\ job'[j].gen = g
      BY <1>0, <1>2, BeginsIs DEF TypeOK
    <3>2. CASE cacheLock'[g] = cacheLock[g]
      <4>1. cacheLock[g] \in Jobs /\ job[cacheLock[g]].pc \in Caching /\ job[cacheLock[g]].gen = g
        BY <1>a, <2>3, <3>2 DEF Locked
      <4>2. cacheLock[g] # j
        BY <2>1, <4>1 DEF Caching
      <4>3. QED
        BY <2>1, <3>2, <4>1, <4>2 DEF Steady
    <3>3. QED
      BY <3>1, <3>2 DEF Caching
  <2>4. QED
    BY <2>2, <2>3 DEF Locked
<1>3. CASE GuestStep
  BY <1>3 DEF GuestStep, GuestReads, GuestDone, GuestVerifies, GuestCopies, Locked
<1>4. ASSUME NEW r \in Generations, Killed(r) PROVE Locked'
  BY <1>0, <1>4, KilledJobs DEF Locked, Staging
<1>5. ASSUME NEW g \in Generations, NEW f \in Files, Rot(g, f) PROVE Locked'
  <2>1. UNCHANGED <<cacheLock, stageLock>> /\ \A i \in Jobs : Steady(i)
    BY <1>0, <1>5, RotJobs DEF Rot
  <2>2. QED
    BY <1>a, <2>1 DEF Locked, Steady
<1>6. ASSUME NEW v \in Vms, NEW g \in Generations, NEW m \in {"bad", "other"}, RotMarker(v, g, m) PROVE Locked'
  BY <1>6 DEF RotMarker, Locked
<1>7. ASSUME NEW j \in Jobs, ExtractFails(j) PROVE Locked'
  <2>1. /\ job'[j].pc = "idle" /\ \A i \in Jobs \ {j} : job'[i] = job[i]
        /\ stageLock' = stageLock
        /\ \A g \in Generations : cacheLock'[g] = IF g = job[j].gen THEN Absent ELSE cacheLock[g]
    BY <1>0, <1>7, EndsIs, UnlockedIs DEF ExtractFails, Moves
  <2>2. \A i \in Jobs : job'[i].pc \in Staging => stageLock'[job'[i].vm][job'[i].gen] = i
    BY <2>1 DEF Locked, Staging
  <2>3. ASSUME NEW g \in Generations, cacheLock'[g] # Absent
        PROVE  job'[cacheLock'[g]].pc \in Caching /\ job'[cacheLock'[g]].gen = g
    BY <1>a, <2>1, <2>3 DEF Locked
  <2>4. QED
    BY <2>2, <2>3 DEF Locked
<1>8. QED
  BY <1>1, <1>2, <1>3, <1>4, <1>5, <1>6, <1>7 DEF Next, Fault

-----------------------------------------------------------------------------
(* The ready marker. *)

\* What a stager's marker and generation say of each other.
Marks(i) ==
  /\ job[i].pc \in {"clear", "fill"} => marker[job[i].vm][job[i].gen] # "good"
  /\ job[i].pc = "mark" =>
       \A f \in Declares[job[i].gen] : gens[job[i].vm][job[i].gen][f] # Absent

\* Two stagers that hold their locks are at two generations or two VMs.
LEMMA LocksExclude ==
  ASSUME Locked, NEW i \in Jobs, NEW j \in Jobs, i # j,
         job[i].pc \in Staging, job[j].pc \in Staging
  PROVE  ~(job[i].vm = job[j].vm /\ job[i].gen = job[j].gen)
  BY DEF Locked

LEMMA JobStepReady ==
  ASSUME TInv, Locked, Ready, NEW j \in Jobs, JobStep(j)
  PROVE  Ready'
<1>0. TypeOK
  BY DEF TInv
<1> DEFINE v == job[j].vm
           g == job[j].gen
<1>a. v \in Vms /\ g \in Generations /\ Declares[g] \subseteq Files
  BY <1>0, JobFields, Basics DEF TypeOK
<1>b. Moves(j)
  BY JobStepIs
<1>c. \A i \in Jobs : Marks(i)
  BY DEF Ready, Marks
<1>d. \A i \in Jobs : job[i].vm \in Vms /\ job[i].gen \in Generations
  BY <1>0, JobFields DEF TypeOK
\* Nothing vouched for changes.
<1>e. ASSUME UNCHANGED <<marker, gens>>, Marks(j)' PROVE Ready'
  <2>1. \A i \in Jobs \ {j} : Marks(i)'
    BY <1>b, <1>c, <1>e DEF Moves, Marks
  <2>2. \A i \in Jobs : Marks(i)'
    BY <1>e, <2>1
  <2>3. QED
    BY <1>e, <2>2 DEF Ready, ReadyMeansWhole, Marks
\* Only what `j` has locked changes.
<1>f. ASSUME job[j].pc \in Staging, Marks(j)',
             \A u \in Vms, h \in Generations :
               ~(u = v /\ h = g) => marker'[u][h] = marker[u][h] /\ gens'[u][h] = gens[u][h],
             marker'[v][g] = "good" => \A f \in Declares[g] : gens'[v][g][f] # Absent
      PROVE  Ready'
  <2>1. ASSUME NEW i \in Jobs \ {j} PROVE Marks(i)'
    <3>1. job'[i] = job[i]
      BY <1>b DEF Moves
    <3>2. CASE job[i].pc \in Staging
      <4>1. ~(job[i].vm = v /\ job[i].gen = g)
        BY <1>f, <3>2, LocksExclude
      <4>2. /\ marker'[job[i].vm][job[i].gen] = marker[job[i].vm][job[i].gen]
            /\ gens'[job[i].vm][job[i].gen] = gens[job[i].vm][job[i].gen]
        BY <1>d, <1>f, <4>1
      <4>3. QED
        BY <1>c, <3>1, <4>2 DEF Marks
    <3>3. CASE job[i].pc \notin Staging
      BY <3>1, <3>3 DEF Marks, Staging
    <3>4. QED
      BY <3>2, <3>3
  <2>2. \A i \in Jobs : Marks(i)'
    BY <1>f, <2>1
  <2>3. ReadyMeansWhole'
    BY <1>f DEF Ready, ReadyMeansWhole
  <2>4. QED
    BY <2>2, <2>3 DEF Ready, Marks
<1>g. ASSUME UNCHANGED <<marker, gens>>, job'[j].pc \notin {"clear", "fill", "mark"} PROVE Ready'
  BY <1>e, <1>g DEF Marks
<1>h. ASSUME Fails(j), UNCHANGED <<marker, gens>> PROVE Ready'
  BY <1>0, <1>g, <1>h, FailsIs
<1>1. CASE LoadReady(j) \/ Extract(j)
  BY <1>0, <1>1, <1>g, GoesIs DEF LoadReady, Extract, Pcs
<1>2. CASE Reload(j)
  BY <1>0, <1>2, <1>g, <1>h, GoesIs DEF Reload, Pcs
<1>3. CASE StageLock(j)
  BY <1>0, <1>3, <1>g, <1>h, GoesIs DEF StageLock, Pcs
<1>w. \A u \in Vms, h \in Generations :
        Withdrawn(j)[u][h] = IF u = v /\ h = g THEN Absent ELSE marker[u][h]
  BY <1>0, <1>a, TableUpdate DEF Withdrawn, Gen, Vm, TypeOK
<1>4. CASE VerifyMarker(j)
  <2>1. CASE Conflicting(j)
    BY <1>4, <1>h, <2>1 DEF VerifyMarker
  <2>2. CASE ~Conflicting(j)
    <3>1. job'[j].pc = "verify" /\ job[j].pc = "marker" /\ gens' = gens
      BY <1>0, <1>4, <2>2, GoesIs DEF VerifyMarker, Pcs, At
    <3>2. marker' = marker \/ marker' = Withdrawn(j)
      BY <1>4, <2>2 DEF VerifyMarker
    <3>3. \A u \in Vms, h \in Generations :
            marker'[u][h] = marker[u][h] \/ (u = v /\ h = g /\ marker'[u][h] = Absent)
      BY <1>w, <3>2
    <3>4. marker'[v][g] = "good" => \A f \in Declares[g] : gens'[v][g][f] # Absent
      BY <1>a, <3>1, <3>3, Basics DEF Ready, ReadyMeansWhole
    <3>5. QED
      BY <1>f, <3>1, <3>3, <3>4 DEF Marks, Staging
  <2>3. QED
    BY <2>1, <2>2
<1>5. CASE EnsureGeneration(j) \/ CheckGeneration(j)
  <2>1. job[j].pc \in Staging /\ gens' = gens
    BY <1>5 DEF EnsureGeneration, CheckGeneration, At, Staging
  <2>2. CASE VerifyGeneration(Staged(j), Gen(j)) /\ Goes(j, "mark") /\ UNCHANGED marker
    <3>1. job'[j].pc = "mark" /\ Same(j)
      BY <1>0, <2>2, GoesIs DEF Pcs
    <3>2. gens[v][g] = ExpectedFiles(g)
      BY <2>2 DEF VerifyGeneration, Staged, Gen, Vm
    <3>3. \A f \in Declares[g] : gens[v][g][f] # Absent
      BY <1>a, <3>2, TreeFacts, Basics
    <3>4. Marks(j)'
      BY <2>1, <3>1, <3>3 DEF Marks, Same
    <3>5. QED
      BY <1>e, <2>1, <2>2, <3>4
  <2>3. CASE Goes(j, "clear") /\ marker' = Withdrawn(j)
    <3>1. job'[j].pc = "clear" /\ Same(j)
      BY <1>0, <2>3, GoesIs DEF Pcs
    <3>2. \A u \in Vms, h \in Generations : marker'[u][h] = IF u = v /\ h = g THEN Absent ELSE marker[u][h]
      BY <1>w, <2>3
    <3>3. marker'[v][g] = Absent
      BY <1>a, <3>2
    <3>4. Marks(j)'
      BY <3>1, <3>3, Basics DEF Marks, Same
    <3>5. QED
      BY <1>f, <2>1, <3>2, <3>3, <3>4, Basics
  <2>4. CASE Fails(j) /\ UNCHANGED marker
    BY <1>h, <2>1, <2>4
  <2>5. QED
    BY <1>5, <2>2, <2>3, <2>4 DEF EnsureGeneration, CheckGeneration
<1>6. CASE ClearGeneration(j)
  <2>1. job[j].pc = "clear" /\ job'[j].pc = "fill" /\ Same(j) /\ marker' = marker
    BY <1>0, <1>6, ClearIs DEF ClearGeneration, At
  <2>2. marker[v][g] # "good"
    BY <1>c, <2>1 DEF Marks
  <2>3. \A u \in Vms, h \in Generations : ~(u = v /\ h = g) => gens'[u][h] = gens[u][h]
    BY <1>0, <1>a, <1>6 DEF ClearGeneration, Gen, Vm, TypeOK
  <2>4. QED
    BY <1>f, <2>1, <2>2, <2>3 DEF Marks, Same, Staging
<1>7. CASE PublishGeneration(j)
  <2>1. job[j].pc = "fill" /\ marker' = marker
    BY <1>7 DEF PublishGeneration, At
  <2>2. CASE Fails(j) /\ UNCHANGED gens
    BY <1>h, <2>1, <2>2
  <2>3. CASE job'[j].pc = "check" /\ gens' = [gens EXCEPT ![v][g] = ExpectedFiles(g)]
    <3>1. \A u \in Vms, h \in Generations : ~(u = v /\ h = g) => gens'[u][h] = gens[u][h]
      BY <1>0, <1>a, <2>3 DEF TypeOK
    <3>2. marker[v][g] # "good"
      BY <1>c, <2>1 DEF Marks
    <3>3. QED
      BY <1>f, <2>1, <2>3, <3>1, <3>2 DEF Marks, Staging
  <2>4. QED
    BY <1>0, <1>7, <2>2, <2>3, PublishIs
<1>8. CASE MaterializeGeneration(j)
  <2>1. job[j].pc = "fill" /\ UNCHANGED <<marker, gens>>
    BY <1>8 DEF MaterializeGeneration, At
  <2>2. CASE job'[j].pc = "fill" /\ Same(j)
    BY <1>c, <1>e, <2>1, <2>2 DEF Marks, Same
  <2>3. QED
    BY <1>0, <1>8, <1>h, <2>1, <2>2, MaterializeIs
<1>9. CASE EnsureReadyMarker(j)
  <2>1. job[j].pc = "mark" /\ gens' = gens /\ job'[j].pc \in {"idle", "link"}
    BY <1>0, <1>9, MarkIs, FailsIs
  <2>2. \A u \in Vms, h \in Generations : ~(u = v /\ h = g) => marker'[u][h] = marker[u][h]
    <3>1. marker' = marker \/ marker' = [marker EXCEPT ![v][g] = "good"]
      BY <1>0, <1>9, MarkIs
    <3>2. QED
      BY <1>0, <1>a, <3>1 DEF TypeOK
  <2>3. \A f \in Declares[g] : gens[v][g][f] # Absent
    BY <1>c, <2>1 DEF Marks
  <2>4. QED
    BY <1>f, <2>1, <2>2, <2>3 DEF Marks, Staging
<1>10. CASE PublishLink(j)
  <2>1. UNCHANGED <<marker, gens>> /\ (Fails(j) \/ job'[j].pc = "place")
    BY <1>10, LinkIs DEF PublishLink
  <2>2. QED
    BY <1>g, <1>h, <2>1
<1>11. CASE PublishRename(j)
  <2>1. UNCHANGED <<marker, gens>> /\ (Fails(j) \/ job'[j].pc \in {"prune", "link"})
    BY <1>11, RenameIs DEF PublishRename
  <2>2. QED
    BY <1>g, <1>h, <2>1
<1>12. CASE Prune(j)
  BY <1>0, <1>12, <1>g, EndsIs DEF Prune
<1>13. CASE PublishPlace(j)
  <2>1. UNCHANGED <<marker, gens>> /\ (Fails(j) \/ job'[j].pc = "rename")
    BY <1>13, PlaceIs
  <2>2. QED
    BY <1>g, <1>h, <2>1
<1>14. CASE PublishOver(j)
  <2>1. CASE Fails(j)
    <3>1. UNCHANGED <<marker, gens>>
      BY <1>0, <1>14, <2>1, OverIs, FailsIs
    <3>2. QED
      BY <1>h, <2>1, <3>1
  <2>2. CASE ~Fails(j)
    <3>1. marker' = marker /\ job'[j].pc = "rename"
      BY <1>14, <2>2, OverIs
    <3>2. \A u \in Vms, h \in Generations, e \in Files : gens[u][h][e] # Absent => gens'[u][h][e] # Absent
      BY <1>14, <2>2, OverDisk, Basics
    <3>3. \A h \in Generations : Declares[h] \subseteq Files
      BY Basics
    <3>4. ReadyMeansWhole'
      BY <3>1, <3>2, <3>3 DEF Ready, ReadyMeansWhole
    <3>5. \A i \in Jobs : Marks(i)'
      <4>1. ASSUME NEW i \in Jobs \ {j} PROVE Marks(i)'
        <5>1. job'[i] = job[i] /\ Marks(i) /\ job[i].vm \in Vms /\ job[i].gen \in Generations
          BY <1>b, <1>c, <1>d DEF Moves
        <5>2. QED
          BY <3>1, <3>2, <3>3, <5>1 DEF Marks
      <4>2. QED
        BY <3>1, <4>1 DEF Marks
    <3>6. QED
      BY <3>4, <3>5 DEF Ready, Marks
  <2>3. QED
    BY <2>1, <2>2
<1>15. QED
  BY <1>1, <1>2, <1>3, <1>4, <1>5, <1>6, <1>7, <1>8, <1>9, <1>10, <1>11, <1>12, <1>13, <1>14 DEF JobStep

LEMMA ReadyStep == TInv /\ Locked /\ Ready /\ Next => Ready'
<1> SUFFICES ASSUME TInv, Locked, Ready, Next PROVE Ready'
  OBVIOUS
<1>0. TypeOK
  BY DEF TInv
<1>b. \A j \in Jobs : job[j].vm \in Vms /\ job[j].gen \in Generations
  BY <1>0, JobFields DEF TypeOK
<1>2. ASSUME NEW j \in Jobs, NEW v \in Vms, StageForVm(j, v) PROVE Ready'
  <2>1. /\ \A i \in Jobs \ {j} : Steady(i)
        /\ job'[j].pc \in {"idle", "load"} /\ UNCHANGED <<marker, gens>>
    BY <1>0, <1>2, BeginsIs DEF StageForVm
  <2>2. QED
    BY <2>1 DEF Ready, ReadyMeansWhole, Steady
<1>3. CASE GuestStep
  <2>1. UNCHANGED <<marker, gens, job>>
    BY <1>3 DEF GuestStep, GuestReads, GuestDone, GuestVerifies, GuestCopies
  <2>2. QED
    BY <2>1 DEF Ready, ReadyMeansWhole
<1>4. ASSUME NEW r \in Generations, Killed(r) PROVE Ready'
  <2>1. (\A j \in Jobs : job'[j].pc = "idle") /\ UNCHANGED <<marker, gens>>
    BY <1>0, <1>4, KilledJobs DEF Killed
  <2>2. QED
    BY <2>1 DEF Ready, ReadyMeansWhole
<1>5. ASSUME NEW g \in Generations, NEW f \in Files, Rot(g, f) PROVE Ready'
  <2>1. marker' = marker /\ \A i \in Jobs : Steady(i)
    BY <1>0, <1>5, RotJobs DEF Rot
  <2>2. \A v \in Vms, h \in Generations, e \in Files : gens[v][h][e] # Absent => gens'[v][h][e] # Absent
    BY <1>0, <1>5, RotDisk, Basics
  <2>3. \A h \in Generations : Declares[h] \subseteq Files
    BY Basics
  <2>4. ReadyMeansWhole'
    BY <2>1, <2>2, <2>3 DEF Ready, ReadyMeansWhole
  <2>5. QED
    BY <1>b, <2>1, <2>2, <2>3, <2>4 DEF Ready, Steady
<1>6. ASSUME NEW v \in Vms, NEW g \in Generations, NEW m \in {"bad", "other"}, RotMarker(v, g, m) PROVE Ready'
  <2>1. UNCHANGED <<gens, job>> /\ \A u \in Vms, h \in Generations : marker'[u][h] \in {marker[u][h], m}
    BY <1>0, <1>6 DEF RotMarker, TypeOK
  <2>2. QED
    BY <1>b, <2>1 DEF Ready, ReadyMeansWhole
<1>7. ASSUME NEW j \in Jobs, ExtractFails(j) PROVE Ready'
  <2>1. /\ job'[j].pc = "idle" /\ \A i \in Jobs \ {j} : job'[i] = job[i]
        /\ UNCHANGED <<marker, gens>>
    BY <1>0, <1>7, EndsIs DEF ExtractFails, Moves
  <2>2. QED
    BY <2>1 DEF Ready, ReadyMeansWhole
<1>8. QED
  BY <1>2, <1>3, <1>4, <1>5, <1>6, <1>7, JobStepReady DEF Next, Fault

LEMMA InitRInv == Init => RInv
<1> SUFFICES ASSUME Init PROVE RInv
  OBVIOUS
<1>1. TInv
  BY InitTyped
<1>2. \A j \in Jobs : job[j].pc = "idle"
  BY NoJobIs DEF Init
<1>3. Current
  BY <1>2, TreeFacts DEF Init, Current
<1>4. Locked
  BY <1>2 DEF Init, Locked, Staging
<1>5. Ready
  BY <1>2, Basics DEF Init, Ready, ReadyMeansWhole
<1>6. QED
  BY <1>1, <1>3, <1>4, <1>5 DEF RInv

LEMMA StepRInv == RInv /\ [Next]_vars => RInv'
<1> SUFFICES ASSUME RInv, [Next]_vars PROVE RInv'
  OBVIOUS
<1>1. CASE Next
  BY <1>1, StepTyped, CurrentStep, LockedStep, ReadyStep DEF RInv
<1>2. CASE UNCHANGED vars
  <2>1. TInv'
    BY <1>2, StepTyped DEF RInv
  <2>2. Current' /\ Locked' /\ Ready'
    BY <1>2 DEF RInv, vars, Current, Locked, Ready, ReadyMeansWhole
  <2>3. QED
    BY <2>1, <2>2 DEF RInv
<1>3. QED
  BY <1>1, <1>2

-----------------------------------------------------------------------------
(* The directory the guest mounts. *)

\* The jobs that are where they were have published what they had.
LEMMA OthersPublish ==
  ASSUME TInv, Current, NEW i \in Jobs, Publishers(i), Steady(i),
         job[i].pc = "idle" \/
           \A e \in Declares[job[i].gen] :
             /\ active[job[i].vm][e] \in OfGeneration(job[i].gen) =>
                  active'[job[i].vm][e] \in OfGeneration(job[i].gen)
             /\ partial[job[i].vm][e] \in OfGeneration(job[i].gen) \cup {Absent} =>
                  partial'[job[i].vm][e] \in OfGeneration(job[i].gen) \cup {Absent}
  PROVE  Publishers(i)'
<1>1. CASE job[i].pc = "idle"
  BY <1>1 DEF Publishers, Steady, Publishes
<1>2. CASE job[i].pc # "idle"
  <2>1. Pending(i)' = Pending(i)
    BY DEF Pending, Steady
  <2>2. QED
    BY <1>2, <2>1 DEF Publishers, Steady
<1>3. QED
  BY <1>1, <1>2

\* A publisher that has its directory to itself keeps it, unless it is told.
LEMMA OthersSole ==
  ASSUME TInv, NEW i \in Jobs, Sole(i), Steady(i), Publishers(i),
         i \notin troubled' /\ job[i].pc # "idle" =>
           /\ i \notin troubled
           /\ \A f \in Files : cache'[job[i].gen][f] = "bad" => cache[job[i].gen][f] = "bad"
           /\ job[i].pc \in Publishes =>
                /\ \A k \in Jobs \ {i} : job'[k].pc \in Publishes /\ job'[k].vm = job[i].vm =>
                                           job[k].pc \in Publishes /\ job[k].vm = job[i].vm
                /\ \A f \in Files : /\ active'[job[i].vm][f] = active[job[i].vm][f]
                                   /\ partial'[job[i].vm][f] = partial[job[i].vm][f]
  PROVE  Sole(i)'
<1>1. CASE i \in troubled' \/ job[i].pc = "idle"
  BY <1>1 DEF Sole, Steady, Publishes
<1>2. CASE i \notin troubled' /\ job[i].pc # "idle"
  <2>1. Pending(i)' = Pending(i)
    BY DEF Pending, Steady
  <2>2. Declares[job[i].gen] \subseteq Files
    BY JobFields, Basics DEF TInv, TypeOK
  <2>3. job[i].pc \notin {"idle", "load", "extract", "reload"} =>
          \A f \in Files : cache'[job[i].gen][f] # "bad"
    BY <1>2 DEF Sole
  <2>4. job[i].pc \in Publishes =>
          /\ \A k \in Jobs \ {i} : job'[k].pc \in Publishes => job'[k].vm # job[i].vm
          /\ \A f \in Declares[job[i].gen] \ Pending(i) : active'[job[i].vm][f] = job[i].gen
    BY <1>2, <2>2 DEF Sole
  <2>5. job[i].pc = "rename" => partial'[job[i].vm][job[i].file] = job[i].gen
    <3> SUFFICES ASSUME job[i].pc = "rename" PROVE partial'[job[i].vm][job[i].file] = job[i].gen
      OBVIOUS
    <3>1. job[i].file \in Files
      BY <2>2 DEF Publishers
    <3>2. QED
      BY <1>2, <3>1 DEF Sole, Publishes
  <2>6. QED
    BY <2>1, <2>3, <2>4, <2>5 DEF Sole, Steady
<1>3. QED
  BY <1>1, <1>2

\* Only one who publishes into it changes a directory: whoever has it to himself
\* is not disturbed.
LEMMA MoversSole ==
  ASSUME TInv, Published, NEW j \in Jobs, Moves(j), job[j].pc \in Publishes,
         job'[j].pc = "idle" \/ Same(j), UNCHANGED <<cache, troubled>>,
         \A u \in Vms, e \in Files : u # job[j].vm =>
           active'[u][e] = active[u][e] /\ partial'[u][e] = partial[u][e],
         NEW i \in Jobs \ {j}
  PROVE  Sole(i)'
<1>1. Steady(i) /\ Sole(i) /\ Publishers(i) /\ job[i].vm \in Vms
  BY MovesSteady, JobFields DEF Published, TInv, TypeOK
<1>2. \A k \in Jobs \ {i} : job'[k].pc \in Publishes /\ job'[k].vm = job[i].vm =>
                             job[k].pc \in Publishes /\ job[k].vm = job[i].vm
  BY DEF Moves, Same, Publishes
<1>3. ASSUME i \notin troubled, job[i].pc \in Publishes
      PROVE  \A f \in Files : /\ active'[job[i].vm][f] = active[job[i].vm][f]
                             /\ partial'[job[i].vm][f] = partial[job[i].vm][f]
  <2>1. job[i].vm # job[j].vm
    BY <1>1, <1>3 DEF Sole
  <2>2. QED
    BY <1>1, <2>1
<1>4. QED
  BY <1>1, <1>2, <1>3, OthersSole

\* What a publisher that goes on still has to itself.
LEMMA StillSole ==
  ASSUME TInv, Published, NEW j \in Jobs, Moves(j), job[j].pc \in Publishes,
         Same(j), job'[j].pc \in Publishes, UNCHANGED troubled, j \notin troubled'
  PROVE  \A i \in Jobs \ {j} : job'[i].pc \in Publishes => job'[i].vm # job'[j].vm
<1>1. Sole(j) /\ j \notin troubled
  BY DEF Published
<1>2. \A i \in Jobs \ {j} : job'[i] = job[i]
  BY DEF Moves
<1>3. QED
  BY <1>1, <1>2 DEF Sole, Same

LEMMA MarkPublished ==
  ASSUME PInv, NEW j \in Jobs, EnsureReadyMarker(j)
  PROVE  Published'
<1> DEFINE v == job[j].vm
           g == job[j].gen
<1>0. TInv /\ TypeOK /\ Current /\ Published
  BY DEF PInv, RInv, TInv
<1>1. v \in Vms /\ g \in Generations /\ job[j].pc = "mark" /\ UNCHANGED <<cache, active, partial>>
  BY <1>0, JobFields, MarkIs DEF TypeOK
<1>2. Moves(j)
  BY <1>0, JobStepIs DEF JobStep
<1>3. \A i \in Jobs \ {j} : Publishers(i)'
  BY <1>0, <1>1, <1>2, MovesSteady, OthersPublish DEF Published
<1>4. CASE Fails(j) /\ UNCHANGED <<settled, troubled>>
  <2>1. job'[j].pc = "idle"
    BY <1>0, <1>4, FailsIs
  <2>2. \A i \in Jobs \ {j} : Sole(i)'
    <3> SUFFICES ASSUME NEW i \in Jobs \ {j} PROVE Sole(i)'
      OBVIOUS
    <3>1. \A k \in Jobs \ {i} : job'[k].pc \in Publishes /\ job'[k].vm = job[i].vm =>
                             job[k].pc \in Publishes /\ job[k].vm = job[i].vm
      BY <1>2, <2>1 DEF Moves, Publishes
    <3>2. QED
      BY <1>0, <1>1, <1>2, <1>4, <3>1, MovesSteady, OthersSole DEF Published
  <2>3. Publishers(j)' /\ Sole(j)'
    BY <2>1 DEF Publishers, Sole, Publishes
  <2>4. QED
    BY <1>0, <1>1, <1>3, <1>4, <2>2, <2>3 DEF Published, ManifestIsBacked, StagedIsPublished
<1>5. CASE /\ Same(j) /\ job'[j].pc = "link" /\ job'[j].todo = Declares[g]
           /\ troubled' = IF PublishersOf(v) = {} THEN troubled ELSE troubled \cup PublishersOf(v) \cup {j}
           /\ settled' = IF PublishersOf(v) = {} THEN settled ELSE [settled EXCEPT ![v] = Absent]
  <2>1. Publishers(j)'
    BY <1>5 DEF Publishers, Publishes, Pending, Same
  <2>2. troubled \subseteq troubled'
    BY <1>5
  <2>a. \A i \in Jobs : i \notin troubled' => ~(job[i].pc \in Publishes /\ job[i].vm = v)
    <3>1. PublishersOf(v) \subseteq troubled'
      BY <1>5
    <3>2. \A i \in Jobs : job[i].pc \in Publishes /\ job[i].vm = v => i \in PublishersOf(v)
      BY DEF PublishersOf, Vm, Publishes
    <3>3. QED
      BY <3>1, <3>2
  <2>3. \A i \in Jobs \ {j} : Sole(i)'
    <3> SUFFICES ASSUME NEW i \in Jobs \ {j} PROVE Sole(i)'
      OBVIOUS
    <3>1. Steady(i) /\ Sole(i) /\ Publishers(i)
      BY <1>0, <1>2, MovesSteady DEF Published
    <3>2. ASSUME i \notin troubled', job[i].pc \in Publishes
          PROVE  \A k \in Jobs \ {i} : job'[k].pc \in Publishes /\ job'[k].vm = job[i].vm =>
                                         job[k].pc \in Publishes /\ job[k].vm = job[i].vm
      BY <1>2, <1>5, <2>a, <3>2 DEF Moves, Same
    <3>3. QED
      BY <1>0, <1>1, <2>2, <3>1, <3>2, OthersSole
  <2>4. Sole(j)'
    <3> SUFFICES ASSUME j \notin troubled' PROVE Sole(j)'
      BY DEF Sole
    <3>1. PublishersOf(v) = {} /\ j \notin troubled
      BY <1>5
    <3>2. \A i \in Jobs \ {j} : job'[i].pc \in Publishes => job'[i].vm # v
      BY <1>2, <3>1 DEF Moves, PublishersOf, Vm, Publishes
    <3>3. \A f \in Files : cache[g][f] # "bad"
      BY <1>0, <1>1, <3>1 DEF Published, Sole
    <3>4. Pending(j)' = Declares[g]
      BY <1>5 DEF Pending
    <3>5. QED
      BY <1>1, <1>5, <3>2, <3>3, <3>4 DEF Sole, Same
  <2>5. \A u \in Vms : settled'[u] \in {settled[u], Absent}
    BY <1>0, <1>1, <1>5 DEF TypeOK
  <2>6. ManifestIsBacked' /\ StagedIsPublished'
    BY <1>0, <1>1, <2>5, Basics DEF Published, ManifestIsBacked, StagedIsPublished
  <2>7. QED
    BY <1>3, <2>1, <2>3, <2>4, <2>6 DEF Published
<1>6. QED
  BY <1>0, <1>4, <1>5, MarkIs

LEMMA LinkPublished ==
  ASSUME PInv, NEW j \in Jobs, PublishLink(j)
  PROVE  Published'
<1> DEFINE v == job[j].vm
           g == job[j].gen
           f == PublishOrder(job[j].todo)
<1>0. TInv /\ TypeOK /\ Current /\ Published
  BY DEF PInv, RInv, TInv
<1>1. v \in Vms /\ g \in Generations /\ job[j].pc = "link"
  BY <1>0, JobFields DEF TypeOK, PublishLink, At
<1>2. UNCHANGED <<cache, active, settled, troubled>>
  BY DEF PublishLink
<1>3. Moves(j) /\ (job'[j].pc = "idle" \/ Same(j))
  BY <1>0, JobStepIs DEF JobStep
<1>4. ManifestIsBacked' /\ StagedIsPublished'
  BY <1>0, <1>2 DEF Published, ManifestIsBacked, StagedIsPublished
<1>5. f \in job[j].todo /\ f \in Files
  BY <1>0, LinkIs
<1>6. \A u \in Vms, e \in Files : partial'[u][e] = partial[u][e] \/ (u = v /\ partial'[u][e] = Absent)
  <2>1. partial' = partial \/ partial' = [partial EXCEPT ![v] = Removed(partial[v], f)]
    BY <1>0, LinkIs
  <2>2. partial \in [Vms -> Trees]
    BY <1>0 DEF TypeOK
  <2> HIDE DEF f, v
  <2>3. \A e \in Files : Removed(partial[v], f)[e] \in {partial[v][e], Absent}
    BY <1>1, <1>5, <2>2, RemovedTree
  <2>4. QED
    BY <1>1, <2>1, <2>2, <2>3
<1>7. ASSUME NEW i \in Jobs \ {j} PROVE Publishers(i)' /\ Sole(i)'
  <2>1. Steady(i) /\ job[i].vm \in Vms /\ Declares[job[i].gen] \subseteq Files
    BY <1>0, <1>3, MovesSteady, JobFields, Basics DEF TypeOK
  <2>2. Publishers(i)'
    BY <1>0, <1>2, <1>6, <2>1, OthersPublish DEF Published
  <2>3. Sole(i)'
    BY <1>0, <1>1, <1>2, <1>3, <1>6, MoversSole DEF Publishes
  <2>4. QED
    BY <2>2, <2>3
<1>8. Publishers(j)' /\ Sole(j)'
  <2>1. CASE Fails(j)
    BY <1>0, <2>1, FailsIs DEF Publishers, Sole, Publishes
  <2>2. CASE Same(j) /\ job'[j].pc = "place" /\ job'[j].todo = job[j].todo \ {f} /\ job'[j].file = f
    <3>1. Pending(j)' = job[j].todo /\ Pending(j) = job[j].todo
      BY <1>1, <1>5, <2>2 DEF Pending
    <3>2. job[j].todo \subseteq Declares[g] /\ Sole(j)
      BY <1>0, <1>1 DEF Published, Publishers
    <3>3. \A e \in Declares[g] \ job[j].todo : active[v][e] \in OfGeneration(g)
      BY <1>0, <1>1, <3>1 DEF Published, Publishers, Publishes
    <3> HIDE DEF f
    <3>4. Publishers(j)'
      BY <1>2, <1>5, <2>2, <3>1, <3>2, <3>3 DEF Publishers, Same
    <3>5. Sole(j)'
      <4> SUFFICES ASSUME j \notin troubled' PROVE Sole(j)'
        BY DEF Sole
      <4>1. \A i \in Jobs \ {j} : job'[i].pc \in Publishes => job'[i].vm # job'[j].vm
        BY <1>0, <1>1, <1>2, <1>3, <2>2, StillSole DEF Publishes
      <4>2. j \notin troubled
        BY <1>2
      <4>3. QED
        BY <1>1, <1>2, <2>2, <3>1, <3>2, <4>1, <4>2 DEF Sole, Same, Publishes
    <3>6. QED
      BY <3>4, <3>5
  <2>3. QED
    BY <1>0, <2>1, <2>2, LinkIs
<1>9. QED
  BY <1>4, <1>7, <1>8 DEF Published

\* The file that is placed is of the generation, and whole if nothing went bad.
LEMMA PlacerPublished ==
  ASSUME TInv, Current, Published, NEW j \in Jobs, Moves(j), job[j].pc = "place",
         Same(j), SameWork(j), job'[j].pc = "rename",
         cache[job[j].gen][job[j].file] # Absent,
         partial'[job[j].vm][job[j].file] = cache[job[j].gen][job[j].file],
         \A e \in Files : active'[job[j].vm][e] \in {active[job[j].vm][e], "bad"},
         \/ j \in troubled'
         \/ troubled' = troubled /\ cache' = cache /\ active' = active
  PROVE  Publishers(j)' /\ Sole(j)'
<1> DEFINE v == job[j].vm
           g == job[j].gen
           f == job[j].file
<1>0. TypeOK /\ Publishers(j) /\ Sole(j)
  BY DEF TInv, Published
<1>1. v \in Vms /\ g \in Generations /\ f \in Declares[g] /\ Declares[g] \subseteq Files
  BY <1>0, JobFields, Basics DEF TypeOK, Publishers
<1>2. Pending(j)' = Pending(j)
  BY DEF Pending, SameWork
<1>3. cache[g][f] \in OfGeneration(g)
  BY <1>1 DEF Current
<1>4. Publishers(j)'
  <2>1. \A e \in Declares[g] \ Pending(j) : active'[v][e] \in OfGeneration(g)
    BY <1>0, <1>1 DEF Publishers, Publishes, OfGeneration
  <2>2. QED
    BY <1>0, <1>2, <1>3, <2>1 DEF Publishers, Same, SameWork
<1>5. Sole(j)'
  <2> SUFFICES ASSUME j \notin troubled' PROVE Sole(j)'
    BY DEF Sole
  <2>1. troubled' = troubled /\ cache' = cache /\ active' = active
    OBVIOUS
  <2>2. \A i \in Jobs \ {j} : job'[i].pc \in Publishes => job'[i].vm # job'[j].vm
    BY <2>1, StillSole DEF Publishes
  <2>3. cache[g][f] = g
    BY <1>0, <1>1, <1>3, <2>1 DEF Sole, OfGeneration
  <2>4. QED
    BY <1>0, <1>2, <2>1, <2>2, <2>3 DEF Sole, Same, SameWork, Publishes
<1>6. QED
  BY <1>4, <1>5

LEMMA PlacePublished ==
  ASSUME PInv, NEW j \in Jobs, PublishPlace(j)
  PROVE  Published'
<1> DEFINE v == job[j].vm
           g == job[j].gen
           f == job[j].file
           c == cache[g][f]
<1>0. TInv /\ TypeOK /\ Current /\ Published
  BY DEF PInv, RInv, TInv
<1>1. v \in Vms /\ g \in Generations /\ job[j].pc = "place" /\ f \in Files
  BY <1>0, JobFields, PlaceIs DEF TypeOK, TInv, Filed
<1>2. UNCHANGED <<cache, active, settled, troubled>>
  BY <1>0, PlaceIs
<1>3. Moves(j) /\ (job'[j].pc = "idle" \/ Same(j))
  BY <1>0, JobStepIs DEF JobStep
<1>4. ManifestIsBacked' /\ StagedIsPublished'
  BY <1>0, <1>2 DEF Published, ManifestIsBacked, StagedIsPublished
<1>5. c \in OfGeneration(g) \cup {Absent}
  BY <1>0, <1>1 DEF Current
<1>6. CASE Fails(j) /\ UNCHANGED partial
  <2>1. \A i \in Jobs \ {j} : Publishers(i)'
    BY <1>0, <1>2, <1>3, <1>6, MovesSteady, OthersPublish DEF Published
  <2>2. \A i \in Jobs \ {j} : Sole(i)'
    BY <1>0, <1>1, <1>2, <1>3, <1>6, MoversSole DEF Publishes
  <2>3. Publishers(j)' /\ Sole(j)'
    BY <1>0, <1>6, FailsIs DEF Publishers, Sole, Publishes
  <2>4. QED
    BY <1>4, <2>1, <2>2, <2>3 DEF Published
<1>7. CASE /\ c # Absent /\ Same(j) /\ SameWork(j) /\ job'[j].pc = "rename"
           /\ partial' = [partial EXCEPT ![v] = Placed(@, j)]
  <2>1. /\ \A u \in Vms, e \in Files :
             partial'[u][e] = partial[u][e] \/ (u = v /\ partial'[u][e] \in {Absent, c})
        /\ partial'[v][f] = c
    <3>1. partial \in [Vms -> Trees]
      BY <1>0 DEF TypeOK
    <3>2. \A e \in Files : Placed(partial[v], j)[e] = IF e = f THEN c ELSE IF e \in Sharers(f) THEN Absent ELSE partial[v][e]
      BY <1>0, <1>1, <3>1, PlacedTree
    <3> HIDE DEF v, f, c
    <3>3. QED
      BY <1>1, <1>7, <3>1, <3>2
  <2>2. ASSUME NEW i \in Jobs \ {j} PROVE Publishers(i)' /\ Sole(i)'
    <3>1. Steady(i) /\ job[i].vm \in Vms /\ Declares[job[i].gen] \subseteq Files
      BY <1>0, <1>3, MovesSteady, JobFields, Basics DEF TypeOK
    <3>2. job[i].pc # "idle" => job[i].gen = g
      BY <1>0, <1>1 DEF Current
    <3> HIDE DEF c
    <3>3. Publishers(i)'
      BY <1>0, <1>2, <1>5, <2>1, <3>1, <3>2, OthersPublish DEF Published
    <3>4. Sole(i)'
      BY <1>0, <1>1, <1>2, <1>3, <2>1, MoversSole DEF Publishes
    <3>5. QED
      BY <3>3, <3>4
  <2>3. Publishers(j)' /\ Sole(j)'
    BY <1>0, <1>1, <1>2, <1>3, <1>7, <2>1, PlacerPublished
  <2>4. QED
    BY <1>4, <2>2, <2>3 DEF Published
<1>8. QED
  BY <1>0, <1>6, <1>7, PlaceIs

LEMMA OverPublished ==
  ASSUME PInv, NEW j \in Jobs, PublishOver(j)
  PROVE  Published'
<1> DEFINE v == job[j].vm
           g == job[j].gen
           f == job[j].file
           c == cache[g][f]
<1>0. TInv /\ TypeOK /\ Current /\ Published
  BY DEF PInv, RInv, TInv
<1>1. v \in Vms /\ g \in Generations /\ job[j].pc = "place" /\ f \in Files
  BY <1>0, JobFields, OverIs DEF TypeOK, TInv, Filed
<1>2. Moves(j) /\ (job'[j].pc = "idle" \/ Same(j))
  BY <1>0, JobStepIs DEF JobStep
<1>3. c \in OfGeneration(g) \cup {Absent}
  BY <1>0, <1>1 DEF Current
<1>4. CASE Fails(j)
  <2>1. UNCHANGED <<cache, active, partial, settled, troubled>>
    BY <1>0, <1>4, OverIs, FailsIs
  <2>2. \A i \in Jobs \ {j} : Publishers(i)'
    BY <1>0, <1>2, <2>1, MovesSteady, OthersPublish DEF Published
  <2>3. \A i \in Jobs \ {j} : Sole(i)'
    BY <1>0, <1>1, <1>2, <2>1, MoversSole DEF Publishes
  <2>4. Publishers(j)' /\ Sole(j)'
    BY <1>0, <1>4, FailsIs DEF Publishers, Sole, Publishes
  <2>5. QED
    BY <1>0, <2>1, <2>2, <2>3, <2>4 DEF Published, ManifestIsBacked, StagedIsPublished
<1>5. CASE ~Fails(j)
  <2>1. /\ \A u \in Vms, e \in Files : active'[u][e] \in {active[u][e], "bad"}
                                      /\ (active[u][e] = Absent => active'[u][e] = Absent)
        /\ \A u \in Vms, e \in Files :
             \/ partial'[u][e] \in {partial[u][e], "bad"} /\ (partial[u][e] = Absent => partial'[u][e] = Absent)
             \/ u = v /\ e = f
             \/ u = v /\ partial'[u][e] = Absent
        /\ partial'[v][f] = c
        /\ \A u \in Vms : settled'[u] = Absent \/ (settled'[u] = settled[u] /\ active'[u] = active[u])
        /\ \/ \A i \in Jobs : job[i].pc # "idle" => i \in troubled'
           \/ /\ troubled' = troubled /\ cache' = cache /\ active' = active
              /\ \A u \in Vms \ {v} : partial'[u] = partial[u]
    BY <1>0, <1>5, OverDisk
  <2>2. c # Absent /\ Same(j) /\ SameWork(j) /\ job'[j].pc = "rename"
    BY <1>0, <1>5, OverIs
  <2> HIDE DEF c, f
  <2>3. ASSUME NEW i \in Jobs \ {j} PROVE Publishers(i)' /\ Sole(i)'
    <3>1. Steady(i) /\ job[i].vm \in Vms /\ Declares[job[i].gen] \subseteq Files
      BY <1>0, <1>2, MovesSteady, JobFields, Basics DEF TypeOK
    <3>2. job[i].pc # "idle" => job[i].gen = g
      BY <1>0, <1>1 DEF Current
    <3>3. Publishers(i)'
      <4>1. job[i].pc = "idle" \/
           \A e \in Declares[job[i].gen] :
             /\ active[job[i].vm][e] \in OfGeneration(job[i].gen) =>
                  active'[job[i].vm][e] \in OfGeneration(job[i].gen)
             /\ partial[job[i].vm][e] \in OfGeneration(job[i].gen) \cup {Absent} =>
                  partial'[job[i].vm][e] \in OfGeneration(job[i].gen) \cup {Absent}
        BY <1>3, <2>1, <3>1, <3>2 DEF OfGeneration
      <4>2. QED
        BY <1>0, <3>1, <4>1, OthersPublish DEF Published
    <3>4. Sole(i)'
      <4>1. CASE \A k \in Jobs : job[k].pc # "idle" => k \in troubled'
        BY <3>1, <4>1 DEF Sole, Steady, Publishes
      <4>2. CASE /\ troubled' = troubled /\ cache' = cache /\ active' = active
                 /\ \A u \in Vms \ {v} : partial'[u] = partial[u]
        BY <1>0, <1>1, <1>2, <4>2, MoversSole DEF Publishes
      <4>3. QED
        BY <2>1, <4>1, <4>2
    <3>5. QED
      BY <3>3, <3>4
  <2>4. Publishers(j)' /\ Sole(j)'
    <3>1. j \in troubled' \/ (troubled' = troubled /\ cache' = cache /\ active' = active)
      BY <1>1, <2>1
    <3>2. QED
      BY <1>0, <1>1, <1>2, <2>1, <2>2, <3>1, PlacerPublished DEF c, f
  <2>5. ManifestIsBacked'
    <3> SUFFICES ASSUME NEW u \in Vms, active'[u][Manifest] \in Generations,
                        NEW e \in Declares[active'[u][Manifest]]
                 PROVE  active'[u][e] # Absent
      BY DEF ManifestIsBacked
    <3>1. active'[u][Manifest] = active[u][Manifest] /\ e \in Files
      BY <2>1, Basics
    <3>2. active[u][e] # Absent
      BY <1>0, <3>1 DEF Published, ManifestIsBacked
    <3>3. QED
      BY <2>1, <3>1, <3>2, Basics
  <2>6. StagedIsPublished'
    BY <1>0, <2>1, Basics DEF Published, StagedIsPublished, VerifyGeneration
  <2>7. QED
    BY <2>3, <2>4, <2>5, <2>6 DEF Published
<1>6. QED
  BY <1>4, <1>5

LEMMA RenamePublished ==
  ASSUME PInv, NEW j \in Jobs, PublishRename(j)
  PROVE  Published'
<1> DEFINE v == job[j].vm
           g == job[j].gen
           f == job[j].file
           own == partial[v][f]
           new == IF own # Absent THEN own ELSE "bad"
<1>0. TInv /\ TypeOK /\ Current /\ Published /\ Filed
  BY DEF PInv, RInv, TInv
<1>1. v \in Vms /\ g \in Generations /\ job[j].pc = "rename" /\ f \in Declares[g] /\ Declares[g] \subseteq Files
  BY <1>0, JobFields, Basics DEF TypeOK, PublishRename, At, Published, Publishers
<1>2. Moves(j) /\ (job'[j].pc = "idle" \/ Same(j)) /\ UNCHANGED <<cache, troubled>>
  BY <1>0, JobStepIs, RenameIs DEF JobStep
<1>3. \A i \in Jobs : job[i].vm \in Vms /\ job[i].gen \in Generations /\ Declares[job[i].gen] \subseteq Files
  BY <1>0, JobFields, Basics DEF TypeOK
<1>4. CASE Fails(j) /\ UNCHANGED <<active, partial, guest, settled>>
  <2>2. \A i \in Jobs \ {j} : Publishers(i)'
    BY <1>0, <1>2, <1>4, MovesSteady, OthersPublish DEF Published
  <2>3. \A i \in Jobs \ {j} : Sole(i)'
    BY <1>0, <1>1, <1>2, <1>4, MoversSole DEF Publishes
  <2>4. Publishers(j)' /\ Sole(j)'
    BY <1>0, <1>4, FailsIs DEF Publishers, Sole, Publishes
  <2>5. QED
    BY <1>0, <1>4, <2>2, <2>3, <2>4 DEF Published, ManifestIsBacked, StagedIsPublished
<1>5. CASE /\ Same(j) /\ job'[j].todo = job[j].todo
           /\ job'[j].pc = IF job[j].todo = {} THEN "prune" ELSE "link"
           /\ active' = [active EXCEPT ![v] = [@ EXCEPT ![f] = new]]
           /\ partial' = [partial EXCEPT ![v] = Removed(@, f)]
           /\ settled' = Unsettled(j)
  <2>1. own \in OfGeneration(g) \cup {Absent} /\ new \in OfGeneration(g) /\ new \in Contents /\ f \in Files
    BY <1>0, <1>1, RenameIs DEF Published, Publishers, OfGeneration
  <2>2. j \notin troubled => new = g
    BY <1>0, <1>1, Basics DEF Published, Sole
  <2>3. \A u \in Vms, e \in Files : active'[u][e] = IF u = v /\ e = f THEN new ELSE active[u][e]
    <3>1. active \in [Vms -> Trees]
      BY <1>0 DEF TypeOK
    <3> HIDE DEF v, f, new
    <3>2. QED
      BY <1>1, <1>5, <2>1, <3>1, SMT DEF Trees
  <2>4. \A u \in Vms, e \in Files : partial'[u][e] = partial[u][e] \/ (u = v /\ partial'[u][e] = Absent)
    <3>1. partial \in [Vms -> Trees]
      BY <1>0 DEF TypeOK
    <3>2. \A e \in Files : Removed(partial[v], f)[e] \in {partial[v][e], Absent}
      BY <1>1, <2>1, <3>1, RemovedTree
    <3> HIDE DEF v, f
    <3>3. QED
      BY <1>1, <1>5, <3>1, <3>2
  <2>5. \A u \in Vms : settled'[u] = IF u = v /\ ~(settled[u] = g /\ j \notin troubled) THEN Absent ELSE settled[u]
    BY <1>0, <1>1, <1>5, UnsettledIs
  <2>6. /\ IF f = Manifest THEN job[j].todo = {} ELSE Manifest \in job[j].todo
        /\ Pending(j) = job[j].todo \cup {f}
    BY <1>0, <1>1 DEF Filed, Pending
  <2>7. \A e \in Declares[g] \ (job[j].todo \cup {f}) : active[v][e] \in OfGeneration(g)
    BY <1>0, <1>1, <2>6 DEF Published, Publishers, Publishes
  <2>8. job[j].todo \subseteq Declares[g] /\ Pending(j)' = job[j].todo
    BY <1>0, <1>1, <1>5 DEF Published, Publishers, Pending
  <2>a. ASSUME NEW i \in Jobs \ {j} PROVE Publishers(i)' /\ Sole(i)'
    <3>1. Steady(i)
      BY <1>2, MovesSteady
    <3>2. job[i].pc # "idle" => job[i].gen = g
      BY <1>0, <1>1 DEF Current
    <3> HIDE DEF new, own, f
    <3>3. job[i].pc = "idle" \/
           \A e \in Declares[job[i].gen] :
             /\ active[job[i].vm][e] \in OfGeneration(job[i].gen) =>
                  active'[job[i].vm][e] \in OfGeneration(job[i].gen)
             /\ partial[job[i].vm][e] \in OfGeneration(job[i].gen) \cup {Absent} =>
                  partial'[job[i].vm][e] \in OfGeneration(job[i].gen) \cup {Absent}
      BY <1>3, <2>1, <2>3, <2>4, <3>2
    <3>4. Publishers(i)'
      BY <1>0, <3>1, <3>3, OthersPublish DEF Published
    <3>5. Sole(i)'
      BY <1>0, <1>1, <1>2, <2>3, <2>4, MoversSole DEF Publishes
    <3>6. QED
      BY <3>4, <3>5
  <2>b. Publishers(j)'
    <3> HIDE DEF new, own, f
    <3>2. \A e \in Declares[g] \ job[j].todo : active'[v][e] \in OfGeneration(g)
      BY <1>1, <2>1, <2>3, <2>7
    <3>3. QED
      BY <1>5, <2>8, <3>2 DEF Publishers, Same
  <2>s. Sole(j)'
    <3> SUFFICES ASSUME j \notin troubled' PROVE Sole(j)'
      BY DEF Sole
    <3>1. j \notin troubled /\ Sole(j)
      BY <1>0, <1>2 DEF Published
    <3>2. \A i \in Jobs \ {j} : job'[i].pc \in Publishes => job'[i].vm # job'[j].vm
      BY <1>0, <1>1, <1>2, <1>5, StillSole DEF Publishes
    <3>3. \A e \in Declares[g] \ (job[j].todo \cup {f}) : active[v][e] = g
      BY <1>1, <2>6, <3>1 DEF Sole, Publishes
    <3>4. \A e \in Files : cache[g][e] # "bad"
      BY <1>1, <3>1 DEF Sole
    <3> HIDE DEF new, own, f
    <3>5. \A e \in Declares[g] \ job[j].todo : active'[v][e] = g
      BY <1>1, <2>2, <2>3, <3>1, <3>3
    <3>6. QED
      BY <1>2, <1>5, <2>8, <3>2, <3>4, <3>5 DEF Sole, Same
  <2>c. ManifestIsBacked'
    <3> SUFFICES ASSUME NEW u \in Vms, active'[u][Manifest] \in Generations,
                        NEW e \in Declares[active'[u][Manifest]]
                 PROVE  active'[u][e] # Absent
      BY DEF ManifestIsBacked
    <3>1. e \in Files /\ new # Absent
      BY Basics
    <3> HIDE DEF new, own, f
    <3>2. CASE u = v /\ f = Manifest
      <4>1. active'[u][Manifest] = new /\ job[j].todo = {}
        BY <2>1, <2>3, <2>6, <3>2
      <4>2. new = g
        BY <2>1, <4>1, Basics DEF OfGeneration
      <4>3. QED
        BY <1>1, <2>3, <2>7, <3>1, <3>2, <4>1, <4>2, Basics DEF OfGeneration
    <3>3. CASE ~(u = v /\ f = Manifest)
      <4>1. active'[u][Manifest] = active[u][Manifest]
        BY <2>3, <3>3, Basics
      <4>2. active[u][e] # Absent
        BY <1>0, <4>1 DEF Published, ManifestIsBacked
      <4>3. QED
        BY <2>3, <3>1, <4>2
    <3>4. QED
      BY <3>2, <3>3
  <2>d. StagedIsPublished'
    <3> SUFFICES ASSUME NEW u \in Vms, settled'[u] \in Generations
                 PROVE  active'[u] = ExpectedFiles(settled'[u])
      BY DEF StagedIsPublished, VerifyGeneration
    <3>1. settled'[u] = settled[u] /\ (u = v => settled[u] = g /\ new = g)
      BY <2>2, <2>5, Basics
    <3>2. active[u] = ExpectedFiles(settled[u])
      BY <1>0, <3>1 DEF Published, StagedIsPublished, VerifyGeneration
    <3> HIDE DEF new, own, f
    <3>4. \A e \in Files : active'[u][e] = ExpectedFiles(settled[u])[e]
      BY <1>1, <2>3, <3>1, <3>2, TreeFacts
    <3>5. active'[u] \in Trees /\ ExpectedFiles(settled[u]) \in Trees
      <4>1. TInv'
        BY <1>0, StepTyped DEF Next, JobStep
      <4>2. QED
        BY <3>1, <4>1, TreeFacts DEF TInv, TypeOK
    <3>6. QED
      BY <3>1, <3>4, <3>5, TreeFacts
  <2>e. QED
    BY <2>a, <2>b, <2>s, <2>c, <2>d DEF Published
<1>6. QED
  BY <1>0, <1>4, <1>5, RenameIs

LEMMA PrunePublished ==
  ASSUME PInv, NEW j \in Jobs, Prune(j)
  PROVE  Published'
<1> DEFINE v == job[j].vm
           g == job[j].gen
<1>0. TInv /\ TypeOK /\ Current /\ Published
  BY DEF PInv, RInv, TInv
<1>1. v \in Vms /\ g \in Generations /\ job[j].pc = "prune" /\ Declares[g] \subseteq Files
  BY <1>0, JobFields, Basics DEF TypeOK, Prune, At
<1>2. Moves(j) /\ job'[j].pc = "idle"
  BY <1>0, EndsIs DEF Prune
<1>3. \A u \in Vms, e \in Files :
        active'[u][e] = IF u = v /\ e \notin Declares[g] THEN Absent ELSE active[u][e]
  <2>1. \A e \in Files : PruneUndeclared(active[v], g)[e] = IF e \in Declares[g] THEN active[v][e] ELSE Absent
    BY <1>0, <1>1, PrunedTree DEF TypeOK
  <2>2. active' = [active EXCEPT ![v] = PruneUndeclared(active[v], g)]
    BY DEF Prune, Gen, Vm
  <2>3. QED
    BY <1>0, <1>1, <2>1, <2>2 DEF TypeOK
<1>4. \A u \in Vms, e \in Files : partial'[u][e] = partial[u][e] \/ (u = v /\ partial'[u][e] = Absent)
  <2>1. partial' = [partial EXCEPT ![v] = NoTree]
    BY DEF Prune, Vm
  <2> HIDE DEF NoTree
  <2>2. QED
    BY <1>0, <1>1, <2>1, TreeFacts DEF TypeOK
<1>5. \A e \in Declares[g] : active[v][e] \in OfGeneration(g)
  BY <1>0, <1>1 DEF Published, Publishers, Publishes, Pending
<1>6. \A u \in Vms : \/ u # v /\ settled'[u] = settled[u]
                     \/ u = v /\ settled'[u] = Absent
                     \/ u = v /\ settled'[u] = g /\ \A e \in Declares[g] : active[v][e] = g
  <2>1. j \notin troubled => \A e \in Declares[g] : active[v][e] = g
    BY <1>0, <1>1 DEF Published, Publishers, Sole, Publishes, Pending
  <2>2. settled' = [settled EXCEPT ![v] = IF j \notin troubled THEN g ELSE Absent]
    BY DEF Prune, Gen, Vm
  <2>3. QED
    BY <1>0, <1>1, <2>1, <2>2 DEF TypeOK
<1>7. ASSUME NEW i \in Jobs \ {j} PROVE Publishers(i)'
  <2>1. Steady(i) /\ job[i].vm \in Vms /\ job[i].gen \in Generations
    BY <1>0, <1>2, MovesSteady, JobFields DEF TypeOK
  <2>2. job[i].pc # "idle" => job[i].gen = g
    BY <1>0, <1>1 DEF Current
  <2>3. Declares[job[i].gen] \subseteq Files
    BY <2>1, Basics
  <2>4. job[i].pc = "idle" \/
           \A e \in Declares[job[i].gen] :
             /\ active[job[i].vm][e] \in OfGeneration(job[i].gen) =>
                  active'[job[i].vm][e] \in OfGeneration(job[i].gen)
             /\ partial[job[i].vm][e] \in OfGeneration(job[i].gen) \cup {Absent} =>
                  partial'[job[i].vm][e] \in OfGeneration(job[i].gen) \cup {Absent}
    BY <1>3, <1>4, <2>1, <2>2, <2>3
  <2>5. QED
    BY <1>0, <2>1, <2>4, OthersPublish DEF Published
<1>8. Publishers(j)' /\ Sole(j)'
  BY <1>2 DEF Publishers, Sole, Publishes
<1>s. ASSUME NEW i \in Jobs \ {j} PROVE Sole(i)'
  <2>1. UNCHANGED <<cache, troubled>>
    BY DEF Prune
  <2>2. QED
    BY <1>0, <1>1, <1>2, <1>3, <1>4, <2>1, MoversSole DEF Publishes
<1>9. ManifestIsBacked'
  <2> SUFFICES ASSUME NEW u \in Vms, active'[u][Manifest] \in Generations,
                      NEW e \in Declares[active'[u][Manifest]]
               PROVE  active'[u][e] # Absent
    BY DEF ManifestIsBacked
  <2>1. active'[u][Manifest] = active[u][Manifest] /\ e \in Files
    BY <1>1, <1>3, Basics
  <2>2. active[u][e] # Absent
    BY <1>0, <2>1 DEF Published, ManifestIsBacked
  <2>3. u = v => active[u][Manifest] = g
    BY <1>1, <1>5, <2>1, Basics DEF OfGeneration
  <2>4. QED
    BY <1>3, <2>1, <2>2, <2>3
<1>10. StagedIsPublished'
  <2> SUFFICES ASSUME NEW u \in Vms, settled'[u] \in Generations
               PROVE  active'[u] = ExpectedFiles(settled'[u])
    BY DEF StagedIsPublished, VerifyGeneration
  <2>1. active'[u] \in Trees /\ active[u] \in Trees
    <3>1. TInv'
      BY <1>0, StepTyped DEF Next, JobStep
    <3>2. QED
      BY <1>0, <3>1 DEF TInv, TypeOK
  <2>2. CASE u = v
    <3>1. settled'[u] = g /\ \A e \in Declares[g] : active[v][e] = g
      BY <1>6, <2>2, Basics
    <3>2. \A e \in Files : active'[u][e] = ExpectedFiles(g)[e]
      BY <1>1, <1>3, <1>5, <2>2, <3>1, TreeFacts DEF OfGeneration
    <3>3. QED
      BY <1>1, <2>1, <3>1, <3>2, TreeFacts
  <2>3. CASE u # v
    <3>1. settled'[u] = settled[u] /\ active'[u] = active[u]
      BY <1>3, <1>6, <2>1, <2>3, TreeFacts
    <3>2. QED
      BY <1>0, <3>1 DEF Published, StagedIsPublished, VerifyGeneration
  <2>4. QED
    BY <2>2, <2>3
<1>11. QED
  BY <1>7, <1>8, <1>s, <1>9, <1>10 DEF Published

LEMMA RotPublished ==
  ASSUME PInv, NEW g \in Generations, NEW f \in Files, Rot(g, f)
  PROVE  Published'
<1>0. TInv /\ TypeOK /\ Current /\ Published
  BY DEF PInv, RInv, TInv
<1>1. /\ \A v \in Vms, e \in Files : partial'[v][e] \in {partial[v][e], "bad"}
      /\ \A i \in Jobs : job[i].pc # "idle" => i \in troubled'
  BY <1>0, RotDisk
<1>2. /\ \A v \in Vms, e \in Files : active'[v][e] \in {active[v][e], "bad"}
      /\ \A v \in Vms : settled'[v] = Absent \/ (settled'[v] = settled[v] /\ active'[v] = active[v])
  BY <1>0, RotDisk
<1>3. ASSUME NEW i \in Jobs PROVE Publishers(i)' /\ Sole(i)'
  <2>1. Steady(i) /\ job[i].vm \in Vms /\ Declares[job[i].gen] \subseteq Files
    BY <1>0, RotJobs, JobFields, Basics DEF TypeOK
  <2>2. \A e \in Declares[job[i].gen] :
             /\ active[job[i].vm][e] \in OfGeneration(job[i].gen) =>
                  active'[job[i].vm][e] \in OfGeneration(job[i].gen)
             /\ partial[job[i].vm][e] \in OfGeneration(job[i].gen) \cup {Absent} =>
                  partial'[job[i].vm][e] \in OfGeneration(job[i].gen) \cup {Absent}
    BY <1>1, <1>2, <2>1 DEF OfGeneration
  <2>3. Publishers(i)'
    BY <1>0, <2>1, <2>2, OthersPublish DEF Published
  <2>4. QED
    BY <1>1, <2>1, <2>3 DEF Sole, Steady, Publishes
<1>4. ManifestIsBacked'
  <2> SUFFICES ASSUME NEW u \in Vms, active'[u][Manifest] \in Generations,
                      NEW e \in Declares[active'[u][Manifest]]
               PROVE  active'[u][e] # Absent
    BY DEF ManifestIsBacked
  <2>1. active'[u][Manifest] = active[u][Manifest] /\ e \in Files
    BY <1>2, Basics
  <2>2. active[u][e] # Absent
    BY <1>0, <2>1 DEF Published, ManifestIsBacked
  <2>3. QED
    BY <1>2, <2>1, <2>2, Basics
<1>5. StagedIsPublished'
  BY <1>0, <1>2, Basics DEF Published, StagedIsPublished, VerifyGeneration
<1>6. QED
  BY <1>3, <1>4, <1>5 DEF Published

\* Before it publishes, a stager leaves every file as bad or as good as it was,
\* and goes on with an entry that verified.
LEMMA QuietSteps ==
  ASSUME TInv, NEW j \in Jobs, JobStep(j), ~EnsureReadyMarker(j), ~PublishLink(j),
         ~PublishPlace(j), ~PublishOver(j), ~PublishRename(j), ~Prune(j)
  PROVE  /\ UNCHANGED <<active, partial, settled, troubled>>
         /\ \A g \in Generations, f \in Files : cache'[g][f] = "bad" => cache[g][f] = "bad"
         /\ job'[j].pc \notin Publishes
         /\ job'[j].pc \notin {"idle", "load", "extract", "reload"} =>
              /\ Same(j)
              /\ \/ job[j].pc \notin {"idle", "load", "extract", "reload"}
                 \/ \A f \in Files : cache'[job[j].gen][f] # "bad"
<1> DEFINE g == job[j].gen
           Early == {"idle", "load", "extract", "reload"}
<1>0. TypeOK /\ g \in Generations
  BY JobFields DEF TInv, TypeOK
<1>1. UNCHANGED <<active, partial, settled, troubled>>
  BY DEF JobStep, LoadReady, Extract, Reload, StageLock, VerifyMarker, EnsureGeneration,
     ClearGeneration, PublishGeneration, CheckGeneration, MaterializeGeneration
<1>2. Moves(j) /\ (job'[j].pc = "idle" \/ Same(j))
  BY <1>0, JobStepIs DEF TInv
<1>3. job'[j].pc \notin Publishes
  <2>2. CASE ClearGeneration(j)
    BY <1>0, <2>2, ClearIs DEF Publishes
  <2>3. CASE PublishGeneration(j)
    BY <1>0, <2>3, PublishIs, FailsIs DEF Publishes
  <2>4. CASE MaterializeGeneration(j)
    BY <1>0, <2>4, MaterializeIs, FailsIs DEF Publishes
  <2>5. CASE Fails(j)
    BY <1>0, <2>5, FailsIs DEF Publishes
  <2>6. CASE \E step \in Pcs \ Publishes : Goes(j, step)
    BY <1>0, <2>6, GoesIs
  <2>7. QED
    BY <2>2, <2>3, <2>4, <2>5, <2>6 DEF JobStep, LoadReady, Extract, Reload, StageLock,
       VerifyMarker, EnsureGeneration, CheckGeneration, Pcs, Publishes
<1>4. ExpectedFiles(g) \in Trees /\ \A f \in Files : ExpectedFiles(g)[f] # "bad" /\ NoTree[f] # "bad"
  BY <1>0, TreeFacts, Basics
<1>5. CASE LoadReady(j) \/ Extract(j) \/ Reload(j)
  <2>1. /\ cache' = cache \/ (\E t \in {NoTree, ExpectedFiles(g)} : cache' = [cache EXCEPT ![g] = t])
        /\ \/ job'[j].pc \in Early
           \/ cache' = cache /\ cache[g] = ExpectedFiles(g)
    <3>1. CASE LoadReady(j)
      BY <1>0, <3>1, GoesIs DEF LoadReady, VerifyGeneration, Gen, Pcs
    <3>2. CASE Extract(j)
      BY <1>0, <3>2, GoesIs DEF Extract, Gen, Pcs
    <3>3. CASE Reload(j)
      BY <1>0, <3>3, GoesIs, FailsIs DEF Reload, VerifyGeneration, Gen
    <3>4. QED
      BY <1>5, <3>1, <3>2, <3>3
  <2>2. cache \in [Generations -> Trees]
    BY <1>0 DEF TypeOK
  <2> HIDE DEF g
  <2>3. \A h \in Generations, f \in Files : cache'[h][f] = "bad" => cache[h][f] = "bad"
    BY <1>0, <1>4, <2>1, <2>2
  <2>4. QED
    BY <1>1, <1>2, <1>3, <1>4, <2>1, <2>3 DEF g
<1>6. CASE ~(LoadReady(j) \/ Extract(j) \/ Reload(j))
  <2>1. cache' = cache /\ job[j].pc \notin Early
    BY <1>6 DEF JobStep, StageLock, VerifyMarker, EnsureGeneration, At,
       ClearGeneration, PublishGeneration, CheckGeneration, MaterializeGeneration
  <2>2. QED
    BY <1>1, <1>2, <1>3, <2>1
<1>7. QED
  BY <1>5, <1>6

LEMMA InitPInv == Init => PInv
<1> SUFFICES ASSUME Init PROVE PInv
  OBVIOUS
<1>1. RInv
  BY InitRInv
<1>2. \A j \in Jobs : job[j].pc = "idle"
  BY NoJobIs DEF Init
<1>3. ManifestIsBacked /\ StagedIsPublished
  BY TreeFacts, Basics DEF Init, ManifestIsBacked, StagedIsPublished
<1>4. QED
  BY <1>1, <1>2, <1>3 DEF PInv, Published, Publishers, Sole, Publishes

LEMMA StepPInv == PInv /\ [Next]_vars => PInv'
<1> SUFFICES ASSUME PInv, [Next]_vars PROVE Published'
  BY StepRInv DEF PInv
<1>0. TInv /\ TypeOK /\ Current /\ Published
  BY DEF PInv, RInv, TInv
<1>a. \A i \in Jobs : job[i].vm \in Vms /\ job[i].gen \in Generations /\ Declares[job[i].gen] \subseteq Files
  BY <1>0, JobFields, Basics DEF TypeOK
<1>b. ASSUME UNCHANGED <<active, partial, settled>>, \A i \in Jobs : Publishers(i)' /\ Sole(i)'
      PROVE  Published'
  BY <1>0, <1>b DEF Published, ManifestIsBacked, StagedIsPublished
<1>c. ASSUME UNCHANGED <<active, partial>>, NEW i \in Jobs, Steady(i),
             i \notin troubled' => i \notin troubled,
             \A g \in Generations, f \in Files : cache'[g][f] = "bad" => cache[g][f] = "bad",
             \A k \in Jobs \ {i} : job'[k].pc \in Publishes => Steady(k)
      PROVE  Publishers(i)' /\ Sole(i)'
  <2>1. Publishers(i)'
    BY <1>0, <1>c, OthersPublish DEF Published
  <2>2. \A k \in Jobs \ {i} : job'[k].pc \in Publishes /\ job'[k].vm = job[i].vm =>
                                job[k].pc \in Publishes /\ job[k].vm = job[i].vm
    BY <1>c DEF Steady
  <2>3. Sole(i)'
    BY <1>0, <1>a, <1>c, <2>2, OthersSole DEF Published
  <2>4. QED
    BY <2>1, <2>3
<1>1. ASSUME NEW j \in Jobs, JobStep(j) PROVE Published'
  <2>1. CASE PublishLink(j) \/ PublishPlace(j) \/ PublishOver(j) \/ PublishRename(j) \/ Prune(j)
             \/ EnsureReadyMarker(j)
    BY <2>1, LinkPublished, PlacePublished, OverPublished, RenamePublished, PrunePublished, MarkPublished
  <2>2. CASE ~(PublishLink(j) \/ PublishPlace(j) \/ PublishOver(j) \/ PublishRename(j) \/ Prune(j)
               \/ EnsureReadyMarker(j))
    <3>1. /\ UNCHANGED <<active, partial, settled, troubled>>
          /\ \A g \in Generations, f \in Files : cache'[g][f] = "bad" => cache[g][f] = "bad"
          /\ job'[j].pc \notin Publishes
          /\ job'[j].pc \notin {"idle", "load", "extract", "reload"} =>
               /\ Same(j)
               /\ \/ job[j].pc \notin {"idle", "load", "extract", "reload"}
                  \/ \A f \in Files : cache'[job[j].gen][f] # "bad"
      BY <1>0, <1>1, <2>2, QuietSteps
    <3>2. \A i \in Jobs \ {j} : Publishers(i)' /\ Sole(i)'
      <4>1. \A i \in Jobs \ {j} : Steady(i)
        BY <1>0, <1>1, JobStepIs, MovesSteady
      <4>2. QED
        BY <1>c, <3>1, <4>1
    <3>3. Publishers(j)'
      BY <3>1 DEF Publishers, Publishes
    <3>4. Sole(j)'
      BY <1>0, <1>a, <3>1 DEF Published, Sole, Publishes, Same
    <3>5. QED
      BY <1>b, <3>1, <3>2, <3>3, <3>4
  <2>3. QED
    BY <2>1, <2>2
<1>2. ASSUME NEW j \in Jobs, NEW v \in Vms, StageForVm(j, v) PROVE Published'
  <2>1. UNCHANGED <<active, partial, settled, cache>> /\ troubled' = troubled \ {j}
    BY <1>2 DEF StageForVm
  <2>2. (\A i \in Jobs \ {j} : Steady(i)) /\ job'[j].pc \in {"idle", "load"}
    BY <1>0, <1>2, BeginsIs
  <2>3. Publishers(j)' /\ Sole(j)'
    BY <2>2 DEF Publishers, Sole, Publishes
  <2>4. \A i \in Jobs \ {j} : Publishers(i)' /\ Sole(i)'
    BY <1>c, <2>1, <2>2 DEF Publishes
  <2>5. QED
    BY <1>b, <2>1, <2>3, <2>4
<1>3. CASE UNCHANGED <<cache, active, partial, settled, troubled, job>>
  <2>1. \A i \in Jobs : Steady(i)
    BY <1>3 DEF Steady
  <2>2. QED
    BY <1>b, <1>c, <1>3, <2>1
<1>4. ASSUME NEW r \in Generations, Killed(r) PROVE Published'
  <2>1. UNCHANGED <<active, partial, settled>> /\ \A i \in Jobs : job'[i].pc = "idle"
    BY <1>0, <1>4, KilledJobs DEF Killed
  <2>2. QED
    BY <1>b, <2>1 DEF Publishers, Sole, Publishes
<1>5. ASSUME NEW j \in Jobs, ExtractFails(j) PROVE Published'
  <2>1. UNCHANGED <<active, partial, settled, cache, troubled>> /\ Moves(j) /\ job'[j].pc = "idle"
    BY <1>0, <1>5, EndsIs DEF ExtractFails
  <2>2. Publishers(j)' /\ Sole(j)'
    BY <2>1 DEF Publishers, Sole, Publishes
  <2>3. \A i \in Jobs \ {j} : Publishers(i)' /\ Sole(i)'
    BY <1>c, <2>1, MovesSteady DEF Publishes
  <2>4. QED
    BY <1>b, <2>1, <2>2, <2>3
<1>6. QED
  <2>1. CASE GuestStep
    BY <1>3, <2>1 DEF GuestStep, GuestReads, GuestDone, GuestVerifies, GuestCopies
  <2>2. CASE \E v \in Vms, g \in Generations, m \in {"bad", "other"} : RotMarker(v, g, m)
    BY <1>3, <2>2 DEF RotMarker
  <2>3. CASE UNCHANGED vars
    BY <1>3, <2>3 DEF vars
  <2>4. QED
    BY <1>1, <1>2, <1>4, <1>5, <2>1, <2>2, <2>3, RotPublished DEF Next, Fault

\* A ready marker vouches for a whole generation, a manifest for the files it
\* declares, and an answer of Ok for what the guest's directory holds where one
\* staging at a time publishes into it, for any releases, VMs, stagers, shared
\* temporary names, kills and rotten files (staging.rs stage_with,
\* publish_active).
THEOREM VouchersAreBacked == Spec => []VouchersHold
<1>1. PInv => VouchersHold
  BY DEF PInv, RInv, TInv, Ready, Published, VouchersHold
<1>2. QED
  BY <1>1, InitPInv, StepPInv, PTL DEF Spec

-----------------------------------------------------------------------------
(* The guest's recipe. *)

LEMMA WatchedReads ==
  ASSUME TInv, Reading, guest' = Watched(active'[Reader], settled'[Reader])
  PROVE  Reading'
<1>0. TypeOK
  BY DEF TInv
<1>1. /\ SameGuest
      /\ guest'.calm => guest.calm /\ (guest.pc \in {"verify", "copy"} => settled'[Reader] = guest.man)
      /\ guest'.kept => guest.kept /\ \A f \in Verified : active'[Reader][f] = active[Reader][f]
  BY <1>0, WatchedIs
<1>2. Verified' = Verified
  BY <1>1 DEF Verified, SameGuest
<1>3. QED
  BY <1>1, <1>2 DEF Reading, SameGuest

LEMMA ReadsReading ==
  ASSUME TInv, Reading, GuestReads
  PROVE  Reading'
<1> DEFINE man == active[Reader][Manifest]
<1>0. TypeOK
  BY DEF TInv
<1>1. CASE guest'.pc = "refused" /\ ~guest'.calm
  BY <1>1 DEF Reading, Verified
<1>2. CASE /\ man \in Generations /\ guest'.pc = "verify" /\ guest'.man = man
           /\ guest'.todo = Declares[man] /\ (guest'.calm <=> settled[Reader] = man)
  <2>1. settled' = settled
    BY DEF GuestReads
  <2>2. Declares[man] \ {Manifest} # {}
    <3>1. Manifest \in Declares[man] /\ Declares[man] # {Manifest}
      BY <1>2, StagingAssumption
    <3>2. QED
      BY <3>1
  <2>3. Verified' = {}
    BY <1>2 DEF Verified
  <2> HIDE DEF man
  <2>4. QED
    BY <1>2, <2>1, <2>2, <2>3 DEF Reading
<1>3. QED
  BY <1>0, <1>1, <1>2, ReadsIs

LEMMA VerifiesReading ==
  ASSUME PInv, Reading, NEW f \in Files, GuestVerifies(f)
  PROVE  Reading'
<1>0. TInv /\ TypeOK /\ Published
  BY DEF PInv, RInv, TInv
<1>1. /\ guest.pc = "verify" /\ guest.man \in Generations /\ f = NextFile(guest.todo \ {Manifest})
      /\ SameGhosts /\ guest'.took = guest.took
  BY <1>0, VerifiesIs
<1>2. UNCHANGED <<active, settled>>
  BY DEF GuestVerifies
<1>3. f \in guest.todo \ {Manifest} /\ guest.todo \subseteq Declares[guest.man]
  BY <1>1, NextFileIs DEF Reading
<1>4. CASE guest'.pc = "refused" /\ active[Reader][f] # guest.man
  <2>1. ASSUME guest.calm PROVE FALSE
    <3>1. settled[Reader] = guest.man
      BY <1>1, <2>1 DEF Reading
    <3>2. active[Reader] = ExpectedFiles(guest.man)
      BY <1>0, <1>1, <3>1, Basics DEF Published, StagedIsPublished, VerifyGeneration
    <3>3. QED
      BY <1>1, <1>3, <1>4, <3>2, TreeFacts
  <2>2. ~guest'.calm
    BY <1>1, <2>1 DEF SameGhosts
  <2>3. QED
    BY <1>4, <2>2 DEF Reading, Verified
<1>5. CASE /\ active[Reader][f] = guest.man
           /\ guest'.pc = "copy" /\ guest'.todo = Declares[guest.man] \ {Manifest}
           /\ guest.todo \ {f, Manifest} = {}
  <2>1. guest'.kept => \A e \in Verified' : active'[Reader][e] = guest'.man
    <3>1. Verified' = Declares[guest.man] \ {Manifest}
      BY <1>5 DEF Verified
    <3>2. Verified = Declares[guest.man] \ (guest.todo \cup {Manifest})
      BY <1>1 DEF Verified
    <3>3. \A e \in Verified' : e = f \/ e \in Verified
      BY <1>5, <3>1, <3>2
    <3>4. QED
      BY <1>1, <1>2, <1>5, <3>3 DEF Reading, SameGhosts
  <2>2. Declares[guest.man] \ {Manifest} # {}
    BY <1>3
  <2>3. QED
    BY <1>1, <1>2, <1>5, <2>1, <2>2 DEF Reading, SameGhosts
<1>6. CASE /\ active[Reader][f] = guest.man
           /\ guest'.pc = "verify" /\ guest'.todo = guest.todo \ {f}
           /\ guest.todo \ {f, Manifest} # {}
  <2>1. guest'.kept => \A e \in Verified' : active'[Reader][e] = guest'.man
    <3>1. Verified' = Declares[guest.man] \ ((guest.todo \ {f}) \cup {Manifest})
      BY <1>1, <1>6 DEF Verified, SameGhosts
    <3>2. Verified = Declares[guest.man] \ (guest.todo \cup {Manifest})
      BY <1>1 DEF Verified
    <3>3. \A e \in Verified' : e = f \/ e \in Verified
      BY <3>1, <3>2
    <3>4. QED
      BY <1>1, <1>2, <1>6, <3>3 DEF Reading, SameGhosts
  <2>2. (guest.todo \ {f}) \ {Manifest} # {}
    BY <1>6
  <2>3. QED
    BY <1>1, <1>2, <1>3, <1>6, <2>1, <2>2 DEF Reading, SameGhosts
<1>7. QED
  BY <1>0, <1>4, <1>5, <1>6, VerifiesIs

LEMMA CopiesReading ==
  ASSUME PInv, Reading, NEW f \in Files, GuestCopies(f)
  PROVE  Reading'
<1> DEFINE new == active[Reader][f]
<1>0. TInv /\ TypeOK /\ Published
  BY DEF PInv, RInv, TInv
<1>1. /\ guest.pc = "copy" /\ f = NextFile(guest.todo) /\ SameGhosts
  BY <1>0, CopiesIs
<1>2. UNCHANGED <<active, settled>>
  BY DEF GuestCopies
<1>3. /\ guest.man \in Generations /\ guest.todo \subseteq Declares[guest.man] \ {Manifest}
      /\ f \in guest.todo
  BY <1>0, <1>1, NextFileIs DEF Reading, TInv, Filed
<1>4. CASE guest'.pc = "refused" /\ new = Absent
  <2>1. ASSUME guest.calm PROVE FALSE
    <3>1. settled[Reader] = guest.man
      BY <1>1, <2>1 DEF Reading
    <3>2. active[Reader] = ExpectedFiles(guest.man)
      BY <1>0, <1>3, <3>1, Basics DEF Published, StagedIsPublished, VerifyGeneration
    <3>3. QED
      BY <1>3, <1>4, <3>2, TreeFacts, Basics
  <2>2. ~guest'.calm
    BY <1>1, <2>1 DEF SameGhosts
  <2>3. QED
    BY <1>4, <2>2 DEF Reading, Verified
<1>5. CASE /\ guest'.todo = guest.todo \ {f}
           /\ \A e \in Files : guest'.took[e] = IF e = f THEN new ELSE guest.took[e]
           /\ guest'.pc = IF guest.todo = {f} THEN "installed" ELSE "copy"
  <2>1. Verified = guest.todo /\ Verified' \subseteq guest.todo
    BY <1>1, <1>5 DEF Verified
  <2>2. guest'.kept => \A e \in Verified' : active'[Reader][e] = guest'.man
    BY <1>1, <1>2, <2>1 DEF Reading, SameGhosts
  <2>3. guest.kept => new = guest.man
    BY <1>3, <2>1 DEF Reading
  <2>4. Declares[guest.man] \subseteq Files
    BY <1>3, Basics
  <2>5. guest'.pc = "copy" => guest'.todo # {}
    BY <1>3, <1>5
  <2> HIDE DEF new
  <2>6. guest'.kept => \A e \in Declares[guest.man] \ {Manifest} :
                         (guest'.pc = "copy" /\ e \in guest'.todo) \/ guest'.took[e] = guest.man
    <3> SUFFICES ASSUME guest.kept, NEW e \in Declares[guest.man] \ {Manifest}
                 PROVE  (guest'.pc = "copy" /\ e \in guest'.todo) \/ guest'.took[e] = guest.man
      BY <1>1 DEF SameGhosts
    <3>1. e \in guest.todo \/ guest.took[e] = guest.man
      BY <1>1 DEF Reading
    <3>2. CASE e = f
      BY <1>5, <2>3, <3>2
    <3>3. CASE e # f /\ e \in guest.todo
      BY <1>5, <3>3
    <3>4. CASE e # f /\ guest.took[e] = guest.man
      BY <1>5, <2>4, <3>4
    <3>5. QED
      BY <3>1, <3>2, <3>3, <3>4
  <2>7. QED
    BY <1>1, <1>2, <1>3, <1>5, <2>2, <2>5, <2>6 DEF Reading, SameGhosts
<1>6. QED
  BY <1>0, <1>4, <1>5, CopiesIs

LEMMA InitGInv == Init => GInv
<1> SUFFICES ASSUME Init PROVE GInv
  OBVIOUS
<1>1. guest.pc = "idle"
  BY DEF Init, NoGuest
<1>2. QED
  BY <1>1, InitPInv DEF GInv, Reading, Verified

LEMMA StepGInv == GInv /\ [Next]_vars => GInv'
<1> SUFFICES ASSUME GInv, [Next]_vars PROVE Reading'
  BY StepPInv DEF GInv
<1>0. PInv /\ TInv /\ Reading
  BY DEF GInv, PInv, RInv
<1>1. CASE UNCHANGED <<active, settled, guest>>
  BY <1>0, <1>1 DEF Reading, Verified
<1>2. CASE guest' = Watched(active'[Reader], settled'[Reader])
  BY <1>0, <1>2, WatchedReads
<1>3. ASSUME NEW j \in Jobs, JobStep(j) PROVE Reading'
  <2>1. CASE EnsureReadyMarker(j)
    <3>1. active' = active
      BY <2>1 DEF EnsureReadyMarker
    <3>2. UNCHANGED <<settled, guest>> \/ guest' = Watched(active[Reader], settled'[Reader])
      BY <2>1 DEF EnsureReadyMarker
    <3>3. QED
      BY <1>1, <1>2, <3>1, <3>2
  <2>2. CASE PublishOver(j)
    BY <1>1, <1>2, <2>2 DEF PublishOver, Spoils
  <2>3. CASE ~EnsureReadyMarker(j) /\ ~PublishOver(j)
    BY <1>1, <1>2, <1>3, <2>3 DEF JobStep, LoadReady, Extract, Reload, StageLock, VerifyMarker, EnsureGeneration,
       ClearGeneration, PublishGeneration, CheckGeneration, MaterializeGeneration,
       PublishLink, PublishPlace, PublishRename, Prune
  <2>4. QED
    BY <2>1, <2>2, <2>3
<1>4. CASE GuestStep
  <2>1. CASE GuestDone
    BY <2>1 DEF GuestDone, NoGuest, Reading, Verified
  <2>2. QED
    BY <1>0, <1>4, <2>1, ReadsReading, VerifiesReading, CopiesReading DEF GuestStep
<1>5. CASE Fault
  BY <1>1, <1>2, <1>5 DEF Fault, Killed, Rot, Spoils, RotMarker, ExtractFails
<1>6. CASE \E j \in Jobs, v \in Vms : StageForVm(j, v)
  BY <1>1, <1>6 DEF StageForVm
<1>7. CASE UNCHANGED vars
  BY <1>1, <1>7 DEF vars
<1>8. QED
  BY <1>3, <1>4, <1>5, <1>6, <1>7 DEF Next

\* A recipe that runs while its generation is published again, by one publisher
\* at a time, refuses nothing, and installs one whole generation unless a file
\* changed between its check and its copy, whoever publishes (two at once
\* included), is killed or rots (display_kernel.rs:568, staging.rs:114).
THEOREM RecipesSeeOneGeneration == Spec => []GuestSeesOneGeneration
<1>1. GInv => GuestSeesOneGeneration
  BY DEF GInv, Reading, GuestSeesOneGeneration
<1>2. QED
  BY <1>1, InitGInv, StepGInv, PTL DEF Spec

-----------------------------------------------------------------------------
(* A staging nobody disturbs. *)

\* A marker that names another payload is never replaced.
LEMMA OtherStays ==
  ASSUME TypeOK, NEW j \in Jobs, JobStep(j), NEW v \in Vms, NEW g \in Generations,
         marker[v][g] = "other"
  PROVE  marker'[v][g] = "other"
<1>1. job[j].vm \in Vms /\ job[j].gen \in Generations /\ marker \in [Vms -> [Generations -> {Absent, "good", "bad", "other"}]]
  BY JobFields DEF TypeOK
<1>2. CASE marker' = marker
  BY <1>2
<1>3. CASE /\ marker[job[j].vm][job[j].gen] # "other"
           /\ \E m \in {Absent, "good"} : marker' = [marker EXCEPT ![job[j].vm][job[j].gen] = m]
  BY <1>1, <1>3
<1>4. CASE VerifyMarker(j) \/ EnsureGeneration(j) \/ CheckGeneration(j)
  BY <1>2, <1>3, <1>4 DEF VerifyMarker, EnsureGeneration, CheckGeneration, Withdrawn, Conflicting, Gen, Vm
<1>5. CASE EnsureReadyMarker(j)
  BY <1>2, <1>3, <1>5, MarkIs
<1>6. CASE ~(VerifyMarker(j) \/ EnsureGeneration(j) \/ CheckGeneration(j) \/ EnsureReadyMarker(j))
  BY <1>2, <1>6 DEF JobStep, LoadReady, Extract, Reload, StageLock, ClearGeneration,
     PublishGeneration, MaterializeGeneration, PublishLink, PublishPlace, PublishOver,
     PublishRename, Prune
<1>7. QED
  BY <1>4, <1>5, <1>6

\* It fails over another payload's marker alone, and knows what it knew.
Untroubled(j) ==
  /\ job'[j].failed => job'[j].pc = "idle" /\ marker'[job'[j].vm][job'[j].gen] = "other"
  /\ job'[j].alone /\ job'[j].pc # "idle" =>
       /\ job'[j].pc \notin {"load", "extract", "prune"} =>
            cache'[job'[j].gen] = ExpectedFiles(job'[j].gen)
       /\ job'[j].pc = "fill" =>
            /\ job'[j].todo \subseteq Declares[job'[j].gen]
            /\ \A f \in Files : job'[j].tmp[f] =
                 IF f \in Declares[job'[j].gen] \ job'[j].todo THEN job'[j].gen ELSE Absent
       /\ job'[j].pc = "place" => InTheWay(j)' = {}
       /\ job'[j].pc = "rename" => partial'[job'[j].vm][job'[j].file] # Absent

LEMMA JobStepUntroubled ==
  ASSUME AInv, NEW j \in Jobs, JobStep(j)
  PROVE  Untroubled(j)
<1> DEFINE v == job[j].vm
           g == job[j].gen
<1>0. TInv /\ TypeOK /\ Current /\ Published /\ ~job[j].failed
  <2>1. job[j].pc # "idle"
    BY JobStepIs DEF AInv, PInv, RInv
  <2>2. QED
    BY <2>1 DEF AInv, PInv, RInv, TInv
<1>1. v \in Vms /\ g \in Generations /\ Declares[g] \subseteq Files
  BY <1>0, JobFields, Basics DEF TypeOK
<1>2. job[j].alone => Undisturbed(j)
  BY <1>0, JobStepIs DEF AInv
<1>3. job[j].alone /\ job[j].pc \notin {"load", "extract", "prune"} =>
        \A f \in Files : cache[g][f] = IF f \in Declares[g] THEN g ELSE Absent
  BY <1>1, <1>2, TreeFacts DEF Undisturbed
\* It goes on, and the cache is as it was.
<1>a. ASSUME Same(j), cache' = cache, job[j].pc \notin {"load", "extract", "prune"},
             job'[j].pc \notin {"fill", "place", "rename"}
      PROVE  Untroubled(j)
  BY <1>0, <1>2, <1>a DEF Untroubled, Undisturbed, Same
<1>b. ASSUME Fails(j), ~job[j].alone PROVE Untroubled(j)
  <2>1. job'[j].pc = "idle" /\ job'[j].failed = job[j].alone
    BY <1>0, <1>b, FailsIs
  <2>2. QED
    BY <1>b, <2>1 DEF Untroubled
<1>c. ASSUME Fails(j), marker[v][g] = "other" PROVE Untroubled(j)
  <2>1. /\ job'[j].pc = "idle" /\ job'[j].failed = job[j].alone
        /\ job[j].alone => job'[j].vm = v /\ job'[j].gen = g
    BY <1>0, <1>c, FailsIs
  <2>2. marker'[v][g] = "other"
    BY <1>0, <1>1, <1>c, OtherStays
  <2>3. QED
    BY <2>1, <2>2 DEF Untroubled
<1>4. CASE LoadReady(j)
  <2>1. CASE VerifyGeneration(cache[Gen(j)], Gen(j))
    <3>1. Same(j) /\ cache' = cache /\ cache[g] = ExpectedFiles(g) /\ job'[j].pc = "lock"
      BY <1>0, <1>4, <2>1, GoesIs DEF LoadReady, VerifyGeneration, Gen, Pcs
    <3>2. QED
      BY <1>0, <3>1 DEF Untroubled, Same
  <2>2. CASE ~VerifyGeneration(cache[Gen(j)], Gen(j))
    <3>1. Same(j) /\ job'[j].pc = "extract"
      BY <1>0, <1>4, <2>2, GoesIs DEF LoadReady, Pcs
    <3>2. QED
      BY <1>0, <3>1 DEF Untroubled, Same
  <2>3. QED
    BY <2>1, <2>2
<1>5. CASE Extract(j)
  <2>1. Same(j) /\ job'[j].pc = "reload"
    BY <1>0, <1>5, GoesIs DEF Extract, Pcs
  <2>2. cache'[g] = ExpectedFiles(g)
    BY <1>0, <1>1, <1>5 DEF Extract, Gen, TypeOK
  <2>3. QED
    BY <1>0, <2>1, <2>2 DEF Untroubled, Same
<1>6. CASE Reload(j)
  <2>1. job[j].pc = "reload"
    BY <1>6 DEF Reload, At
  <2>2. CASE VerifyGeneration(cache[Gen(j)], Gen(j))
    <3>1. Same(j) /\ cache' = cache /\ job'[j].pc = "lock"
      BY <1>0, <1>6, <2>2, GoesIs DEF Reload, Pcs
    <3>2. QED
      BY <1>a, <2>1, <3>1
  <2>3. CASE ~VerifyGeneration(cache[Gen(j)], Gen(j))
    <3>1. Fails(j) /\ ~job[j].alone
      BY <1>2, <1>6, <2>1, <2>3 DEF Reload, VerifyGeneration, Gen, Undisturbed
    <3>2. QED
      BY <1>b, <3>1
  <2>4. QED
    BY <2>2, <2>3
<1>d. job[j].alone /\ job[j].pc \notin {"load", "extract", "prune"} => cache[g][Manifest] = g
  BY <1>1, <1>3, Basics
<1>7. CASE StageLock(j)
  <2>1. job[j].pc = "lock" /\ cache' = cache
    BY <1>7 DEF StageLock, At
  <2>2. CASE Fails(j) /\ cache[g][Manifest] # g
    BY <1>b, <1>d, <2>1, <2>2
  <2>3. CASE Goes(j, "marker")
    BY <1>0, <1>a, <2>1, <2>3, GoesIs DEF Pcs
  <2>4. QED
    BY <1>7, <2>2, <2>3 DEF StageLock, ManifestVerifies, Gen
<1>8. CASE VerifyMarker(j) \/ EnsureGeneration(j) \/ CheckGeneration(j)
  <2>1. job[j].pc \in {"marker", "verify", "check"} /\ cache' = cache
    BY <1>8 DEF VerifyMarker, EnsureGeneration, CheckGeneration, At
  <2>2. CASE Fails(j) /\ marker[v][g] = "other"
    BY <1>c, <2>2
  <2>3. CASE \E step \in {"verify", "mark", "clear"} : Goes(j, step)
    BY <1>0, <1>a, <2>1, <2>3, GoesIs DEF Pcs
  <2>4. QED
    BY <1>8, <2>2, <2>3 DEF VerifyMarker, EnsureGeneration, CheckGeneration, Conflicting, Gen, Vm
<1>10. CASE EnsureReadyMarker(j)
  <2>1. job[j].pc = "mark" /\ cache' = cache
    BY <1>0, <1>10, MarkIs
  <2>2. CASE Fails(j) /\ marker[v][g] = "other"
    BY <1>c, <2>2
  <2>3. CASE Fails(j) /\ cache[g][Manifest] # g
    BY <1>b, <1>d, <2>1, <2>3
  <2>4. CASE Same(j) /\ job'[j].pc = "link"
    BY <1>a, <2>1, <2>4
  <2>5. QED
    BY <1>0, <1>10, <2>2, <2>3, <2>4, MarkIs
<1>11. CASE ClearGeneration(j)
  <2>1. /\ Same(j) /\ job'[j].pc = "fill" /\ job'[j].todo = Declares[g] /\ job'[j].tmp = NoTree
        /\ cache' = cache /\ job[j].pc = "clear"
    BY <1>0, <1>11, ClearIs DEF ClearGeneration, At
  <2>2. job[j].alone => cache[g] = ExpectedFiles(g)
    BY <1>2, <2>1 DEF Undisturbed
  <2>3. \A f \in Files : job'[j].tmp[f] = IF f \in Declares[g] \ job'[j].todo THEN g ELSE Absent
    BY <2>1, TreeFacts
  <2>4. QED
    BY <1>0, <2>1, <2>2, <2>3 DEF Untroubled, Same
<1>12. CASE MaterializeGeneration(j)
  <2> DEFINE f == NextFile(job[j].todo)
  <2>1. f \in job[j].todo /\ f \in Files /\ cache' = cache /\ job[j].pc = "fill"
    BY <1>0, <1>12, MaterializeIs DEF MaterializeGeneration, At
  <2>2. job[j].alone => cache[g][f] = g /\ job[j].todo \subseteq Declares[g]
    BY <1>2, <1>3, <2>1 DEF Undisturbed
  <2>3. CASE cache[g][f] = Absent /\ Fails(j)
    BY <1>1, <1>b, <2>2, <2>3, Basics
  <2>4. CASE /\ Same(j) /\ job'[j].pc = "fill" /\ job'[j].todo = job[j].todo \ {f}
             /\ \A e \in Files : job'[j].tmp[e] = IF e = f THEN cache[g][f] ELSE job[j].tmp[e]
    <3>1. ASSUME job[j].alone, NEW e \in Files
          PROVE  job'[j].tmp[e] = IF e \in Declares[g] \ (job[j].todo \ {f}) THEN g ELSE Absent
      <4>1. job[j].tmp[e] = IF e \in Declares[g] \ job[j].todo THEN g ELSE Absent
        BY <1>2, <2>1, <3>1 DEF Undisturbed
      <4> HIDE DEF f
      <4>2. QED
        BY <2>1, <2>2, <2>4, <3>1, <4>1
    <3>2. job[j].alone => cache[g] = ExpectedFiles(g)
      BY <1>2, <2>1 DEF Undisturbed
    <3> HIDE DEF f
    <3>3. QED
      BY <1>0, <2>1, <2>2, <2>4, <3>1, <3>2 DEF Untroubled, Same
  <2>5. QED
    BY <1>0, <1>12, <2>3, <2>4, MaterializeIs
<1>13. CASE PublishGeneration(j)
  <2>1. job[j].pc = "fill" /\ job[j].todo = {} /\ cache' = cache
    BY <1>13 DEF PublishGeneration, At
  <2>2. job[j].alone => job[j].tmp = ExpectedFiles(g)
    <3> SUFFICES ASSUME job[j].alone PROVE job[j].tmp = ExpectedFiles(g)
      OBVIOUS
    <3>1. \A f \in Files : job[j].tmp[f] = ExpectedFiles(g)[f]
      BY <1>1, <1>2, <2>1, TreeFacts DEF Undisturbed
    <3>2. job[j].tmp \in Trees /\ ExpectedFiles(g) \in Trees
      BY <1>0, <1>1, JobFields, TreeFacts DEF TypeOK
    <3>3. QED
      BY <3>1, <3>2, TreeFacts
  <2>3. CASE job[j].tmp # ExpectedFiles(g) /\ Fails(j)
    BY <1>b, <2>2, <2>3
  <2>4. CASE Same(j) /\ job'[j].pc = "check"
    BY <1>a, <2>1, <2>4
  <2>5. QED
    BY <1>0, <1>13, <2>3, <2>4, PublishIs
<1>14. CASE PublishLink(j)
  <2> DEFINE f == PublishOrder(job[j].todo)
             c == cache[g][f]
  <2>1. f \in job[j].todo /\ f \in Files /\ cache' = cache /\ job[j].pc = "link"
    BY <1>0, <1>14, LinkIs DEF PublishLink, At
  <2>2. f \in Declares[g]
    BY <1>0, <2>1 DEF Published, Publishers
  <2>3. job[j].alone => c = g
    BY <1>3, <2>1, <2>2
  <2>4. CASE c = Absent /\ Fails(j)
    BY <1>1, <1>b, <2>3, <2>4, Basics
  <2>5. CASE /\ c # Absent /\ Same(j) /\ job'[j].pc = "place" /\ job'[j].file = f
             /\ partial' = [partial EXCEPT ![v] = Removed(@, f)]
    <3>1. InTheWay(j)' = {}
      <4>1. partial \in [Vms -> Trees]
        BY <1>0 DEF TypeOK
      <4>2. \A e \in Sharers(f) : e \in Files /\ Removed(partial[v], f)[e] = Absent
        BY <1>1, <2>1, <4>1, RemovedTree DEF Sharers
      <4> HIDE DEF v, f, c
      <4>3. partial'[v] = Removed(partial[v], f)
        BY <1>1, <2>5, <4>1
      <4>4. InTheWay(j)' = {e \in Sharers(f) : partial'[v][e] # Absent}
        BY <2>5 DEF InTheWay, Vm, Same, v, Sharers
      <4>5. QED
        BY <4>2, <4>3, <4>4
    <3>2. job[j].alone => cache[g] = ExpectedFiles(g)
      BY <1>2, <2>1 DEF Undisturbed
    <3> HIDE DEF f, c
    <3>3. QED
      BY <1>0, <2>1, <2>5, <3>1, <3>2 DEF Untroubled, Same
  <2>6. QED
    BY <1>0, <1>14, <2>4, <2>5, LinkIs
<1>p. CASE PublishPlace(j)
  <2> DEFINE f == job[j].file
             c == cache[g][f]
  <2>1. job[j].pc = "place" /\ cache' = cache
    BY <1>0, <1>p, PlaceIs
  <2>2. f \in Declares[g] /\ f \in Files
    BY <1>0, <1>1, <2>1 DEF Published, Publishers
  <2>3. job[j].alone => c = g
    BY <1>3, <2>1, <2>2
  <2>4. CASE c = Absent /\ Fails(j)
    BY <1>1, <1>b, <2>3, <2>4, Basics
  <2>5. CASE /\ c # Absent /\ Same(j) /\ SameWork(j) /\ job'[j].pc = "rename"
             /\ partial' = [partial EXCEPT ![v] = Placed(@, j)]
    <3>1. partial'[v][f] = c
      <4>1. partial \in [Vms -> Trees]
        BY <1>0 DEF TypeOK
      <4>2. Placed(partial[v], j)[f] = c
        <5>1. partial[v] \in Trees
          BY <1>1, <4>1
        <5>2. QED
          BY <1>0, <2>1, <2>2, <5>1, PlacedTree
      <4> HIDE DEF v, f, c
      <4>3. QED
        BY <1>1, <2>5, <4>1, <4>2
    <3>2. job[j].alone => cache[g] = ExpectedFiles(g)
      BY <1>2, <2>1 DEF Undisturbed
    <3> HIDE DEF c
    <3>3. QED
      BY <1>0, <2>1, <2>5, <3>1, <3>2 DEF Untroubled, Same, SameWork
  <2>6. QED
    BY <1>0, <1>p, <2>4, <2>5, PlaceIs
<1>o. CASE PublishOver(j)
  <2>1. ~job[j].alone
    BY <1>0, <1>2, <1>o, OverIs DEF Undisturbed
  <2>2. CASE Fails(j)
    BY <1>b, <2>1, <2>2
  <2>3. CASE Same(j) /\ job'[j].pc = "rename"
    BY <1>0, <2>1, <2>3 DEF Untroubled, Same
  <2>4. QED
    BY <1>0, <1>o, <2>2, <2>3, OverIs
<1>15. CASE PublishRename(j)
  <2> DEFINE new == partial[v][job[j].file]
  <2>1. job[j].pc = "rename" /\ cache' = cache
    BY <1>0, <1>15, RenameIs
  <2>2. job[j].alone => new # Absent
    BY <1>2, <2>1 DEF Undisturbed
  <2>3. CASE new = Absent /\ Fails(j)
    BY <1>b, <2>2, <2>3
  <2>4. CASE Same(j) /\ job'[j].pc \in {"prune", "link"}
    BY <1>a, <2>1, <2>4
  <2>5. QED
    BY <1>0, <1>15, <2>3, <2>4, RenameIs
<1>16. CASE Prune(j)
  <2>1. job'[j].pc = "idle" /\ ~job'[j].failed
    BY <1>0, <1>16, EndsIs DEF Prune
  <2>2. QED
    BY <2>1 DEF Untroubled
<1>17. QED
  BY <1>4, <1>5, <1>6, <1>7, <1>8, <1>10, <1>11, <1>12, <1>13, <1>14, <1>p, <1>o, <1>15, <1>16 DEF JobStep

LEMMA InitAInv == Init => AInv
<1> SUFFICES ASSUME Init PROVE AInv
  OBVIOUS
<1>1. \A j \in Jobs : job[j].pc = "idle" /\ ~job[j].failed
  BY NoJobIs DEF Init
<1>2. QED
  BY <1>1, InitPInv DEF AInv, AloneSucceeds

LEMMA StepAInv == AInv /\ [Next]_vars => AInv'
<1> SUFFICES ASSUME AInv, [Next]_vars
             PROVE  /\ AloneSucceeds'
                    /\ \A j \in Jobs : job'[j].pc # "idle" =>
                         ~job'[j].failed /\ (job'[j].alone => Undisturbed(j)')
  BY StepPInv DEF AInv
<1>0. TInv /\ TypeOK /\ Locked /\ AloneSucceeds
  BY DEF AInv, PInv, RInv, TInv
<1>f. \A j \in Jobs : /\ job[j].vm \in Vms /\ job[j].gen \in Generations
                      /\ job[j].pc # "idle" => ~job[j].failed
  BY <1>0, JobFields DEF AInv, TypeOK
<1>g. ASSUME \A v \in Vms, g \in Generations : marker[v][g] = "other" => marker'[v][g] = "other",
             NEW i \in Jobs, job'[i].pc = job[i].pc, job'[i].failed = job[i].failed,
             job'[i].vm = job[i].vm, job'[i].gen = job[i].gen
      PROVE  /\ job'[i].failed => marker'[job'[i].vm][job'[i].gen] = "other"
             /\ job'[i].pc # "idle" => ~job'[i].failed
  <2>1. job'[i].failed => marker[job[i].vm][job[i].gen] = "other"
    BY <1>0, <1>g, Zenon DEF AloneSucceeds
  <2>2. job'[i].pc # "idle" => ~job'[i].failed
    <3>1. job[i].pc # "idle" => ~job[i].failed
      BY <1>f
    <3>2. QED
      BY <1>g, <3>1
  <2>3. job'[i].failed => marker'[job'[i].vm][job'[i].gen] = "other"
    <3>1. job[i].vm \in Vms /\ job[i].gen \in Generations
      BY <1>f
    <3>2. marker[job[i].vm][job[i].gen] = "other" => marker'[job[i].vm][job[i].gen] = "other"
      BY <1>g, <3>1
    <3>3. QED
      BY <1>g, <2>1, <3>2
  <2>4. QED
    BY <2>2, <2>3
<1>a. \A i, j \in Jobs : i # j /\ job[i].pc # "idle" /\ job[j].pc # "idle" => ~job[i].alone
  BY DEF AInv, Undisturbed
<1>1. ASSUME NEW j \in Jobs, JobStep(j)
      PROVE  /\ AloneSucceeds'
             /\ \A i \in Jobs : job'[i].pc # "idle" =>
                  ~job'[i].failed /\ (job'[i].alone => Undisturbed(i)')
  <2>1. /\ Untroubled(j) /\ Moves(j) /\ job[j].pc # "idle"
        /\ job'[j].pc = "idle" \/ Same(j)
    BY <1>0, <1>1, JobStepUntroubled, JobStepIs
  <2>2. \A i \in Jobs \ {j} : job'[i] = job[i]
    BY <2>1 DEF Moves
  <2>8. \A v \in Vms, g \in Generations : marker[v][g] = "other" => marker'[v][g] = "other"
    BY <1>0, <1>1, OtherStays
  <2>3. AloneSucceeds'
    <3> SUFFICES ASSUME NEW i \in Jobs, job'[i].failed
                 PROVE  marker'[job'[i].vm][job'[i].gen] = "other"
      BY DEF AloneSucceeds
    <3>1. CASE i = j
      BY <2>1, <3>1 DEF Untroubled
    <3>2. CASE i # j
      BY <1>g, <2>2, <2>8, <3>2
    <3>3. QED
      BY <3>1, <3>2
  <2>4. \A i \in Jobs \ {j} : ~(job'[i].alone /\ job'[i].pc # "idle")
    BY <1>a, <2>1, <2>2
  <2>5. job'[j].alone /\ job'[j].pc # "idle" => Undisturbed(j)'
    <3> SUFFICES ASSUME job'[j].alone, job'[j].pc # "idle" PROVE Undisturbed(j)'
      OBVIOUS
    <3>1. job[j].alone
      BY <2>1 DEF Same
    <3>2. \A i \in Jobs \ {j} : job'[i].pc = "idle"
      BY <1>1, <2>1, <2>2, <3>1 DEF AInv, Undisturbed
    <3>3. QED
      BY <2>1, <3>2 DEF Undisturbed, Untroubled
  <2>6. \A i \in Jobs : job'[i].pc # "idle" => ~job'[i].failed
    <3> SUFFICES ASSUME NEW i \in Jobs, job'[i].pc # "idle" PROVE ~job'[i].failed
      OBVIOUS
    <3>1. CASE i = j
      BY <2>1, <3>1 DEF Untroubled
    <3>2. CASE i # j
      BY <1>g, <2>2, <2>8, <3>2
    <3>3. QED
      BY <3>1, <3>2
  <2>7. QED
    BY <2>3, <2>4, <2>5, <2>6
<1>2. ASSUME NEW j \in Jobs, NEW v \in Vms, StageForVm(j, v)
      PROVE  /\ AloneSucceeds'
             /\ \A i \in Jobs : job'[i].pc # "idle" =>
                  ~job'[i].failed /\ (job'[i].alone => Undisturbed(i)')
  <2>1. /\ \A i \in Jobs \ {j} : Steady(i) /\ (job[i].pc # "idle" => ~job'[i].alone)
        /\ marker' = marker
    BY <1>0, <1>2, BeginsIs DEF StageForVm
  <2>5. \A i \in Jobs \ {j} : /\ job'[i].failed => marker'[job'[i].vm][job'[i].gen] = "other"
                              /\ job'[i].pc # "idle" => ~job'[i].failed
    BY <1>g, <2>1 DEF Steady
  <2>2. CASE /\ cacheLock[release] # Absent /\ job'[j].pc = "idle" /\ (job'[j].failed <=> Busy = {})
    <3>1. cacheLock[release] \in Busy
      <4>1. release \in Generations /\ cacheLock[release] \in Jobs
        BY <1>0, <2>2 DEF TypeOK
      <4>2. job[cacheLock[release]].pc \in Caching
        BY <1>0, <2>2, <4>1 DEF Locked
      <4>3. QED
        BY <4>1, <4>2 DEF Busy, Caching
    <3>2. ~job'[j].failed
      BY <2>2, <3>1
    <3>3. AloneSucceeds'
      <4> SUFFICES ASSUME NEW i \in Jobs, job'[i].failed
                   PROVE  marker'[job'[i].vm][job'[i].gen] = "other"
        BY DEF AloneSucceeds
      <4>1. i # j
        BY <3>2
      <4>2. QED
        BY <2>5, <4>1
    <3>4. QED
      BY <2>1, <2>2, <2>5, <3>3 DEF Steady
  <2>3. CASE job'[j].pc = "load" /\ ~job'[j].failed /\ (job'[j].alone <=> Busy = {})
    <3>1. AloneSucceeds'
      <4> SUFFICES ASSUME NEW i \in Jobs, job'[i].failed
                   PROVE  marker'[job'[i].vm][job'[i].gen] = "other"
        BY DEF AloneSucceeds
      <4>1. i # j
        BY <2>3
      <4>2. QED
        BY <2>5, <4>1
    <3>2. job'[j].alone => Undisturbed(j)'
      <4> SUFFICES ASSUME job'[j].alone PROVE Undisturbed(j)'
        OBVIOUS
      <4>1. Busy = {}
        BY <2>3
      <4>2. \A i \in Jobs \ {j} : job'[i].pc = "idle"
        BY <2>1, <4>1 DEF Busy, Steady
      <4>3. QED
        BY <2>3, <4>2 DEF Undisturbed
    <3>3. \A i \in Jobs \ {j} : job'[i].pc # "idle" => ~job'[i].alone
      BY <2>1 DEF Steady
    <3>4. ASSUME NEW i \in Jobs, job'[i].pc # "idle"
          PROVE  ~job'[i].failed /\ (job'[i].alone => Undisturbed(i)')
      <4>1. CASE i = j
        BY <2>3, <3>2, <4>1
      <4>2. CASE i # j
        BY <2>5, <3>3, <3>4, <4>2
      <4>3. QED
        BY <4>1, <4>2
    <3>5. QED
      BY <3>1, <3>4
  <2>4. QED
    BY <1>0, <1>2, <2>2, <2>3, BeginsIs
<1>3. CASE /\ UNCHANGED <<job, cache, partial>>
           /\ \A v \in Vms, g \in Generations : marker[v][g] = "other" => marker'[v][g] = "other"
  <2>1. AloneSucceeds'
    BY <1>g, <1>3 DEF AloneSucceeds
  <2>2. \A j \in Jobs : InTheWay(j)' = InTheWay(j)
    BY <1>3 DEF InTheWay, Sharers, Vm
  <2>3. QED
    BY <1>3, <2>1, <2>2 DEF AInv, Undisturbed
<1>4. ASSUME NEW r \in Generations, Killed(r)
      PROVE  AloneSucceeds' /\ \A i \in Jobs : job'[i].pc = "idle"
  BY <1>0, <1>4, KilledJobs DEF AloneSucceeds
<1>5. ASSUME NEW g \in Generations, NEW f \in Files, Rot(g, f)
      PROVE  AloneSucceeds' /\ \A i \in Jobs : job'[i].pc # "idle" => ~job'[i].failed /\ ~job'[i].alone
  <2>1. \A i \in Jobs : Steady(i) /\ (job[i].pc # "idle" => ~job'[i].alone)
    BY <1>0, <1>5, RotJobs
  <2>2. marker' = marker
    BY <1>5 DEF Rot
  <2>3. QED
    BY <1>g, <2>1, <2>2 DEF AloneSucceeds, Steady
<1>6. ASSUME NEW j \in Jobs, ExtractFails(j)
      PROVE  AloneSucceeds' /\ \A i \in Jobs : job'[i].pc # "idle" => ~job'[i].failed /\ ~job'[i].alone
  <2>1. Moves(j) /\ job'[j].pc = "idle" /\ ~job'[j].failed /\ job[j].pc = "extract" /\ marker' = marker
    BY <1>0, <1>6, EndsIs DEF ExtractFails, At
  <2>2. \A i \in Jobs \ {j} : job'[i] = job[i]
    BY <2>1 DEF Moves
  <2>3. \A i \in Jobs \ {j} : /\ job'[i].failed => marker'[job'[i].vm][job'[i].gen] = "other"
                              /\ job'[i].pc # "idle" => ~job'[i].failed
    BY <1>g, <2>1, <2>2
  <2>4. \A i \in Jobs \ {j} : job'[i].pc # "idle" => ~job'[i].alone
    BY <1>a, <2>1, <2>2
  <2>5. AloneSucceeds'
    <3> SUFFICES ASSUME NEW i \in Jobs, job'[i].failed
                 PROVE  marker'[job'[i].vm][job'[i].gen] = "other"
      BY DEF AloneSucceeds
    <3>1. i # j
      BY <2>1
    <3>2. QED
      BY <2>3, <3>1
  <2>6. ASSUME NEW i \in Jobs, job'[i].pc # "idle" PROVE ~job'[i].failed /\ ~job'[i].alone
    <3>1. i # j
      BY <2>1, <2>6
    <3>2. QED
      BY <2>3, <2>4, <2>6, <3>1
  <2>7. QED
    BY <2>5, <2>6
<1>7. QED
  <2>1. CASE GuestStep
    BY <1>3, <2>1 DEF GuestStep, GuestReads, GuestDone, GuestVerifies, GuestCopies
  <2>2. CASE \E v \in Vms, g \in Generations, m \in {"bad", "other"} : RotMarker(v, g, m)
    <3>1. PICK v \in Vms, g \in Generations, m \in {"bad", "other"} : RotMarker(v, g, m)
      BY <2>2
    <3>2. \A u \in Vms, h \in Generations : marker[u][h] = "other" => marker'[u][h] = "other"
      BY <1>0, <3>1 DEF RotMarker, TypeOK
    <3>3. QED
      BY <1>3, <3>1, <3>2 DEF RotMarker
  <2>3. CASE UNCHANGED vars
    BY <1>3, <2>3 DEF vars
  <2>4. QED
    BY <1>1, <1>2, <1>4, <1>5, <1>6, <2>1, <2>2, <2>3 DEF Next, Fault

\* Whatever kills, rotten files, failed stagings and colliding publishers came
\* before, a staging that nobody disturbs succeeds: leftovers are quarantined or
\* overwritten (cache.rs:86, staging.rs:268), but for a ready marker that names
\* another payload, which stops it (staging.rs:720).
THEOREM AloneAlwaysSucceeds == Spec => []AloneSucceeds
<1>1. AInv => AloneSucceeds
  BY DEF AInv
<1>2. QED
  BY <1>1, InitAInv, StepAInv, PTL DEF Spec

-----------------------------------------------------------------------------
(* ImageCache. *)

PastLock == {"ask", "resend", "body", "verify", "publish", "rename", "drop"}

\* A PartFile is a file, and past try_lock it has that file's lock.
HandleInv ==
  \A d \in Downloaders :
    /\ pc[d] \in PastLock \cup {"lock"} => handle[d] \in FileIds
    /\ pc[d] \in PastLock => lock[handle[d]] = d

\* What passed the checksum and is not yet published is still the image.
VerifiedInv ==
  \A d \in Downloaders : pc[d] \in {"publish", "rename"} => IsImage(handle[d])

ImageInv == ImageTypeOK /\ HandleInv /\ VerifiedInv

LEMMA ImageInitInv == ImageInit => ImageInv
  BY ConstantsAssumption
  DEF ImageInit, ImageInv, ImageTypeOK, HandleInv, VerifiedInv, Steps, Empty, PastLock

\* Two downloaders past try_lock are on two files.
LEMMA HandlesDiffer ==
  ASSUME HandleInv, NEW d \in Downloaders, NEW e \in Downloaders, d # e,
         pc[d] \in PastLock, pc[e] \in PastLock
  PROVE  handle[d] # handle[e]
  BY DEF HandleInv

LEMMA TruncateTyped ==
  ASSUME ImageTypeOK, NEW d \in Downloaders, handle[d] \in FileIds, Truncate(d)
  PROVE  /\ files' \in [FileIds -> [len : Nat, good : BOOLEAN]]
         /\ \A f \in FileIds : f # handle[d] => files'[f] = files[f]
<1>1. Empty \in [len : Nat, good : BOOLEAN]
  BY ConstantsAssumption DEF Empty
<1>2. files \in [FileIds -> [len : Nat, good : BOOLEAN]]
  BY DEF ImageTypeOK
<1>3. files' = [files EXCEPT ![handle[d]] = Empty]
  BY DEF Truncate
<1> HIDE DEF Empty
<1> QED BY <1>1, <1>2, <1>3

\* Closing changes the downloader's own handle and locks only.
LEMMA CloseTyped ==
  ASSUME ImageTypeOK, NEW d \in Downloaders, Close(d)
  PROVE  /\ handle' \in [Downloaders -> FileIds \cup {None}]
         /\ lock' \in [FileIds -> Downloaders \cup {None}]
         /\ \A e \in Downloaders : e # d => handle'[e] = handle[e]
         /\ \A f \in FileIds : lock[f] # d => lock'[f] = lock[f]
  BY DEF ImageTypeOK, Close

LEMMA ImageNextInv == ImageInv /\ [ImageNext]_imageVars => ImageInv'
<1> SUFFICES ASSUME ImageInv, [ImageNext]_imageVars PROVE ImageInv'
  OBVIOUS
<1> USE ConstantsAssumption DEF ImageInv, ImageTypeOK, HandleInv, VerifiedInv, IsImage,
                                Steps, PastLock, Goto
<1>1. CASE UNCHANGED imageVars
  BY <1>1 DEF imageVars
<1>2. ASSUME NEW d \in Downloaders, Fetch(d) PROVE ImageInv'
  BY <1>2 DEF Fetch
<1>3. ASSUME NEW d \in Downloaders, Hash(d) PROVE ImageInv'
  BY <1>3 DEF Hash, Refuse, Close
<1>4. ASSUME NEW d \in Downloaders, Discard(d) PROVE ImageInv'
  BY <1>4 DEF Discard
<1>5. ASSUME NEW d \in Downloaders, Open(d) PROVE ImageInv'
  <2>1. CASE part # None
    BY <1>5, <2>1 DEF Open
  <2>2. CASE part = None
    <3>1. PICK f \in FileIds : /\ Unused(f)
                               /\ part' = f
                               /\ handle' = [handle EXCEPT ![d] = f]
                               /\ files' = [files EXCEPT ![f] = Empty]
      BY <1>5, <2>2 DEF Open
    <3>2. ImageTypeOK'
      BY <1>5, <3>1 DEF Open, Empty
    <3>3. HandleInv'
      BY <1>5, <3>1 DEF Open
    <3>4. VerifiedInv'
      BY <1>5, <3>1 DEF Open, Unused
    <3> QED BY <3>2, <3>3, <3>4
  <2> QED BY <2>1, <2>2
<1>6. ASSUME NEW d \in Downloaders, TryLock(d) PROVE ImageInv'
  <2>1. CASE lock[handle[d]] = None
    <3>1. /\ pc' = [pc EXCEPT ![d] = "ask"] /\ lock' = [lock EXCEPT ![handle[d]] = d]
          /\ UNCHANGED <<handle, files, part, final, mishaps>>
          /\ pc[d] = "lock" /\ handle[d] \in FileIds
      BY <1>6, <2>1 DEF TryLock
    <3>2. ImageTypeOK'
      BY <3>1
    <3>3. HandleInv'
      BY <2>1, <3>1
    <3>4. VerifiedInv'
      BY <2>1, <3>1
    <3> QED BY <3>2, <3>3, <3>4
  <2>2. CASE lock[handle[d]] # None
    BY <1>6, <2>2 DEF TryLock, Refuse, Close
  <2> QED BY <2>1, <2>2
<1>7. ASSUME NEW d \in Downloaders, Ask(d) PROVE ImageInv'
  <2>1. pc' \in {[pc EXCEPT ![d] = "resend"], [pc EXCEPT ![d] = "body"]}
    BY <1>7 DEF Ask
  <2>2. UNCHANGED files \/ Truncate(d)
    BY <1>7 DEF Ask
  <2>3. ImageTypeOK' /\ HandleInv'
    <3>1. handle[d] \in FileIds /\ UNCHANGED <<handle, lock, part, final, mishaps>>
      BY <1>7 DEF Ask
    <3>2. files' \in [FileIds -> [len : Nat, good : BOOLEAN]]
      BY <2>2, <3>1, TruncateTyped
    <3>3. pc' \in [Downloaders -> Steps]
      BY <2>1
    <3>4. HandleInv'
      BY <1>7, <2>1, <3>1 DEF Ask
    <3> QED BY <3>1, <3>2, <3>3, <3>4
  <2>4. VerifiedInv'
    BY <1>7, <2>1, <2>2, HandlesDiffer DEF Ask, Truncate, Empty
  <2> QED BY <2>3, <2>4
<1>8. ASSUME NEW d \in Downloaders, Resend(d) PROVE ImageInv'
  BY <1>8 DEF Resend
<1>9. ASSUME NEW d \in Downloaders, Read(d) PROVE ImageInv'
  <2>1. CASE files[handle[d]].len < Size
    <3>1. ImageTypeOK' /\ HandleInv'
      BY <1>9, <2>1 DEF Read
    <3>2. VerifiedInv'
      BY <1>9, <2>1, HandlesDiffer DEF Read
    <3> QED BY <3>1, <3>2
  <2>2. CASE ~(files[handle[d]].len < Size)
    BY <1>9, <2>2 DEF Read
  <2> QED BY <2>1, <2>2
<1>10. ASSUME NEW d \in Downloaders, ReadWrong(d) PROVE ImageInv'
  <2>1. ImageTypeOK' /\ HandleInv'
    BY <1>10 DEF ReadWrong
  <2>2. VerifiedInv'
    BY <1>10, HandlesDiffer DEF ReadWrong
  <2> QED BY <2>1, <2>2
<1>11. ASSUME NEW d \in Downloaders, ReadShort(d) PROVE ImageInv'
  BY <1>11 DEF ReadShort
<1>12. ASSUME NEW d \in Downloaders, Verify(d) PROVE ImageInv'
  <2>1. CASE IsImage(handle[d])
    BY <1>12, <2>1 DEF Verify
  <2>2. CASE ~IsImage(handle[d])
    <3>1. ImageTypeOK' /\ HandleInv'
      <4>1. files' \in [FileIds -> [len : Nat, good : BOOLEAN]]
        BY <1>12, <2>2, TruncateTyped DEF Verify
      <4>2. ImageTypeOK'
        BY <1>12, <2>2, <4>1, CloseTyped DEF Verify
      <4>3. HandleInv'
        BY <1>12, <2>2, CloseTyped DEF Verify
      <4> QED BY <4>2, <4>3
    <3>2. VerifiedInv'
      BY <1>12, <2>2, HandlesDiffer, TruncateTyped, CloseTyped DEF Verify
    <3> QED BY <3>1, <3>2
  <2> QED BY <2>1, <2>2
<1>13. ASSUME NEW d \in Downloaders, Publish(d) PROVE ImageInv'
  <2>1. CASE final # None
    <3>1. ImageTypeOK' /\ HandleInv'
      <4>1. files' \in [FileIds -> [len : Nat, good : BOOLEAN]]
        BY <1>13, <2>1, TruncateTyped DEF Publish
      <4>2. ImageTypeOK'
        BY <1>13, <2>1, <4>1 DEF Publish
      <4>3. HandleInv'
        BY <1>13, <2>1 DEF Publish
      <4> QED BY <4>2, <4>3
    <3>2. VerifiedInv'
      BY <1>13, <2>1, HandlesDiffer, TruncateTyped DEF Publish
    <3> QED BY <3>1, <3>2
  <2>2. CASE final = None
    BY <1>13, <2>2 DEF Publish
  <2> QED BY <2>1, <2>2
<1>14. ASSUME NEW d \in Downloaders, Rename(d) PROVE ImageInv'
  BY <1>14 DEF Rename, Refuse, Close
<1>15. ASSUME NEW d \in Downloaders, Return(d) PROVE ImageInv'
  BY <1>15 DEF Return, Close
<1>16. ASSUME NEW d \in Downloaders, Fail(d) PROVE ImageInv'
  BY <1>16, CloseTyped DEF Fail
<1>17. CASE Damage
  <2>1. PICK f \in FileIds : files' = [files EXCEPT ![f].good = FALSE]
    BY <1>17 DEF Damage
  <2>2. files' \in [FileIds -> [len : Nat, good : BOOLEAN]]
    BY <2>1
  <2> QED BY <1>17, <2>2 DEF Damage
<1> QED
  BY <1>1, <1>2, <1>3, <1>4, <1>5, <1>6, <1>7, <1>8, <1>9, <1>10, <1>11,
     <1>12, <1>13, <1>14, <1>15, <1>16, <1>17 DEF ImageNext, Work

\* Every variable keeps its type, whatever fails and however many downloads of
\* the image run at once (download.rs fetch_image).
THEOREM ImageTypeCorrect == ImageSpec => []ImageTypeOK
<1>1. ImageInv => ImageTypeOK
  BY DEF ImageInv
<1> QED BY ImageInitInv, ImageNextInv, <1>1, PTL DEF ImageSpec

\* What a downloader has verified is still the image when it is published, for
\* any number of downloaders (part.rs PartFile).
THEOREM VerifiedStaysHeld == ImageSpec => []VerifiedIsHeld
<1>1. ImageInv => VerifiedIsHeld
  BY DEF ImageInv, HandleInv, VerifiedInv, VerifiedIsHeld, PastLock
<1> QED BY ImageInitInv, ImageNextInv, <1>1, PTL DEF ImageSpec
-----------------------------------------------------------------------------
\* There is one downloader.
Alone == \A d, e \in Downloaders : d = e

\* A downloader that is alone: the file it has open is what `.part` names until
\* it is published, no image is in the cache while it downloads one, and what
\* it has published is the image.
AloneInv ==
  /\ Alone
  /\ \A d \in Downloaders :
       /\ pc[d] \in (PastLock \cup {"lock"}) \ {"drop"} => handle[d] = part
       /\ pc[d] \in (PastLock \cup {"open", "lock"}) \ {"drop"} => final = None
       /\ pc[d] = "drop" => final \in FileIds /\ IsImage(final)

LEMMA AloneNext == ImageInv /\ AloneInv /\ [ImageNext]_imageVars => AloneInv'
<1> SUFFICES ASSUME ImageInv, AloneInv, [ImageNext]_imageVars PROVE AloneInv'
  OBVIOUS
<1> USE ConstantsAssumption DEF ImageInv, ImageTypeOK, AloneInv, Alone, Steps, PastLock, Goto
<1>1. CASE UNCHANGED imageVars
  BY <1>1 DEF imageVars, IsImage
<1>2. ASSUME NEW d \in Downloaders, Fetch(d) PROVE AloneInv'
  BY <1>2 DEF Fetch
<1>3. ASSUME NEW d \in Downloaders, Hash(d) \/ Discard(d) PROVE AloneInv'
  BY <1>3 DEF Hash, Discard, Refuse
<1>4. ASSUME NEW d \in Downloaders, Open(d) \/ TryLock(d) PROVE AloneInv'
  BY <1>4 DEF Open, TryLock, Refuse
<1>5. ASSUME NEW d \in Downloaders,
             Ask(d) \/ Resend(d) \/ Read(d) \/ ReadWrong(d) \/ ReadShort(d)
      PROVE  AloneInv'
  BY <1>5 DEF Ask, Resend, Read, ReadWrong, ReadShort
<1>6. ASSUME NEW d \in Downloaders, Verify(d) PROVE AloneInv'
  BY <1>6 DEF Verify
<1>7. ASSUME NEW d \in Downloaders, Publish(d) PROVE AloneInv'
  BY <1>7 DEF Publish
<1>8. ASSUME NEW d \in Downloaders, Rename(d) PROVE AloneInv'
  BY <1>8 DEF Rename, Refuse, VerifiedInv, HandleInv, IsImage
<1>9. ASSUME NEW d \in Downloaders, Return(d) \/ Fail(d) PROVE AloneInv'
  BY <1>9 DEF Return, Fail
<1>10. CASE Damage
  BY <1>10 DEF Damage
<1> QED
  BY <1>1, <1>2, <1>3, <1>4, <1>5, <1>6, <1>7, <1>8, <1>9, <1>10 DEF ImageNext, Work

LEMMA AloneStep ==
  ImageInv /\ AloneInv /\ [ImageNext]_imageVars =>
    [\A d \in Downloaders : pc[d] # "ok" /\ pc'[d] = "ok"
                              => final' # None /\ IsImage(final)']_imageVars
<1> SUFFICES ASSUME ImageInv, AloneInv, [ImageNext]_imageVars,
                    NEW d \in Downloaders, pc[d] # "ok", pc'[d] = "ok"
             PROVE  final' # None /\ IsImage(final)'
  OBVIOUS
<1> USE ConstantsAssumption DEF ImageInv, ImageTypeOK, Steps, Goto, IsImage
<1>1. Hash(d) \/ Return(d)
  <2>1. \/ Fetch(d) \/ Work(d) \/ Read(d)
        \/ ReadWrong(d) \/ ReadShort(d) \/ Fail(d)
    BY DEF ImageNext, imageVars, Damage, AloneInv, Alone
  <2>2. ~Fetch(d) /\ ~ReadWrong(d) /\ ~ReadShort(d) /\ ~Fail(d)
    BY DEF Fetch, ReadWrong, ReadShort, Fail
  <2>3. ~Discard(d) /\ ~Open(d) /\ ~TryLock(d) /\ ~Ask(d) /\ ~Resend(d)
    BY DEF Discard, Open, TryLock, Ask, Resend, Refuse
  <2>4. ~Read(d) /\ ~Verify(d) /\ ~Publish(d) /\ ~Rename(d)
    BY DEF Read, Verify, Publish, Rename, Refuse
  <2> QED BY <2>1, <2>2, <2>3, <2>4 DEF Work
<1>2. CASE Hash(d)
  BY <1>2 DEF Hash, Refuse
<1>3. CASE Return(d)
  BY <1>3 DEF Return, AloneInv
<1> QED BY <1>1, <1>2, <1>3

\* A download that no other one of the image runs against returns the path of
\* the image and of nothing else, whatever fails before (download.rs
\* fetch_image).  With a second one it need not.
THEOREM AloneReturnsVerified == Alone /\ ImageSpec => OnlyVerifiedIsReturned
<1>1. Alone /\ ImageInit => AloneInv
  BY DEF ImageInit, AloneInv, PastLock
<1> QED BY ImageInitInv, ImageNextInv, <1>1, AloneNext, AloneStep, PTL
        DEF ImageSpec, OnlyVerifiedIsReturned
=============================================================================
