--------------------------- MODULE PayloadStaging ---------------------------
(***************************************************************************)
(* How a display payload reaches a guest: the cache every VM shares        *)
(* (crates/payload cache.rs), the generation and the ready marker each VM  *)
(* keeps of its own (staging.rs stage_with) and the active directory the   *)
(* guest mounts, which is rewritten in place while the guest may be        *)
(* reading it (staging.rs publish_active; agent display_kernel.rs          *)
(* payload_stage).  Starts and updates stage at the same time; the host    *)
(* process may be killed and come back as another release, and any file    *)
(* may rot.  GPU payloads take the same path up to the ready marker.       *)
(***************************************************************************)
EXTENDS Naturals, FiniteSets

CONSTANTS
  Generations,  \* archives, one per release
  Files,        \* the paths any of them declares, payload.json among them
  Declares,     \* the files of each generation
  TempName,     \* the temporary name a file is published through
  First,        \* the release installed at first
  Vms,          \* virtual machines
  Reader,       \* the one whose guest reads its payload
  Jobs,         \* threads that stage: starts and updates
  MaxStagings,  \* bound on stagings begun
  MaxFaults,    \* bound on kills, rotten files and full disks
  Absent        \* no file, no outcome

Manifest == "payload.json"

\* A manifest that declares no other file is refused (display-payload manifest.rs).
\* publish_one replaces a file's extension: a program and its unit, which lie in
\* one directory, are published through one temporary name (staging.rs:142).
ASSUME StagingAssumption ==
  /\ First \in Generations /\ Reader \in Vms /\ MaxStagings \in Nat /\ MaxFaults \in Nat
  /\ Declares \in [Generations -> SUBSET Files]
  /\ \A g \in Generations : Manifest \in Declares[g] /\ Declares[g] # {Manifest}
  /\ Absent \notin Generations \cup Jobs \cup {"good", "bad", "other"}
  /\ "bad" \notin Generations

VARIABLES
  release,    \* the generation the installed release carries
  cache,      \* the cache's entry of each generation
  cacheLock,  \* who holds each entry's lock
  gens,       \* each VM's copy of each generation
  marker,     \* each VM's ready markers
  stageLock,  \* who holds each VM's lock of a generation
  active,     \* the directory each guest mounts
  partial,    \* the files that lie in it under their temporary name
  job,        \* the stagers
  guest,      \* the reader's recipe
  settled,    \* ghost: the generation a publisher that had the directory to itself left
  troubled,   \* ghost: the stagings that met another publisher in their directory, or
              \* during which a file went bad
  begun,      \* stagings so far
  faults      \* faults so far

vars == <<release, cache, cacheLock, gens, marker, stageLock, active, partial,
          job, guest, settled, troubled, begun, faults>>

-----------------------------------------------------------------------------
(* Directories: what is under each path. *)

Contents == Generations \cup {"bad", Absent}
Trees == [Files -> Contents]
NoTree == [f \in Files |-> Absent]
Exists(t) == t # NoTree

\* expected_files: what a whole copy of a generation looks like.
ExpectedFiles(g) == [f \in Files |-> IF f \in Declares[g] THEN g ELSE Absent]

\* verify_generation, verify_cached_tree: exactly the declared files, by digest.
VerifyGeneration(t, g) == t = ExpectedFiles(g)

\* Files are taken in the order of the manifest, payload.json before them.
NextFile(todo) == IF Manifest \in todo THEN Manifest ELSE CHOOSE f \in todo : TRUE

\* prune_undeclared: what is left of a tree.
PruneUndeclared(t, g) == [f \in Files |-> IF f \in Declares[g] THEN t[f] ELSE Absent]

JobStates == [
  pc : {"idle", "load", "extract", "reload", "lock", "marker", "verify", "clear",
        "fill", "check", "mark", "link", "place", "rename", "prune"},
  vm : Vms, gen : Generations,
  todo : SUBSET Files, file : Files \cup {Absent}, tmp : Trees,
  alone : BOOLEAN,                     \* ghost: nobody else and no fault since it began
  failed : BOOLEAN]                    \* ghost: it failed alone

NoJob == [pc |-> "idle", vm |-> Reader, gen |-> First, todo |-> {}, file |-> Absent,
          tmp |-> NoTree, alone |-> TRUE, failed |-> FALSE]

GuestStates == [
  pc : {"idle", "verify", "copy", "installed", "refused"},
  man : Contents, todo : SUBSET Files, took : Trees,
  calm : BOOLEAN,                      \* ghost: its generation stayed settled
  kept : BOOLEAN]                      \* ghost: no file changed once it was verified

NoGuest == [pc |-> "idle", man |-> Absent, todo |-> {}, took |-> NoTree,
            calm |-> TRUE, kept |-> TRUE]

TypeOK ==
  /\ release \in Generations
  /\ cache \in [Generations -> Trees]
  /\ cacheLock \in [Generations -> Jobs \cup {Absent}]
  /\ gens \in [Vms -> [Generations -> Trees]]
  /\ marker \in [Vms -> [Generations -> {Absent, "good", "bad", "other"}]]
  /\ stageLock \in [Vms -> [Generations -> Jobs \cup {Absent}]]
  /\ active \in [Vms -> Trees] /\ partial \in [Vms -> Trees]
  /\ job \in [Jobs -> JobStates] /\ guest \in GuestStates
  /\ settled \in [Vms -> Generations \cup {Absent}]
  /\ troubled \in SUBSET Jobs
  /\ begun \in 0..MaxStagings /\ faults \in 0..MaxFaults

Init ==
  /\ release = First
  /\ cache = [g \in Generations |-> NoTree]
  /\ cacheLock = [g \in Generations |-> Absent]
  /\ gens = [v \in Vms |-> [g \in Generations |-> NoTree]]
  /\ marker = [v \in Vms |-> [g \in Generations |-> Absent]]
  /\ stageLock = [v \in Vms |-> [g \in Generations |-> Absent]]
  /\ active = [v \in Vms |-> NoTree] /\ partial = [v \in Vms |-> NoTree]
  /\ job = [j \in Jobs |-> NoJob] /\ guest = NoGuest
  /\ settled = [v \in Vms |-> Absent]
  /\ troubled = {} /\ begun = 0 /\ faults = 0

-----------------------------------------------------------------------------
(* One staging, step by step. *)

At(j, pc) == job[j].pc = pc
Gen(j) == job[j].gen
Vm(j) == job[j].vm
Stagers == {i \in Jobs : ~At(i, "idle")}
Goes(j, pc) == job' = [job EXCEPT ![j].pc = pc]

\* A staging that failed alone is remembered, with what it was for.
Ended(j, failed) ==
  IF failed THEN [NoJob EXCEPT !.failed = TRUE, !.vm = Vm(j), !.gen = Gen(j)] ELSE NoJob

Ends(j, failed) == [job EXCEPT ![j] = Ended(j, failed)]

\* Mutant: an error leaves the generation's lock behind.
FailsHoldingLock(j) ==
  /\ job' = Ends(j, job[j].alone)
  /\ cacheLock' = [cacheLock EXCEPT ![Gen(j)] = IF @ = j THEN Absent ELSE @]
  /\ UNCHANGED stageLock

\* An error on the way out drops the locks and the temporary directory.
Fails(j) ==
  /\ job' = Ends(j, job[j].alone)
  /\ cacheLock' = [cacheLock EXCEPT ![Gen(j)] = IF @ = j THEN Absent ELSE @]
  /\ stageLock' = [stageLock EXCEPT ![Vm(j)][Gen(j)] = IF @ = j THEN Absent ELSE @]

\* stage_for_vm for one VM, up to prepare's lock: whoever finds it held gives up.
StageForVm(j, v) ==
  /\ At(j, "idle") /\ begun < MaxStagings
  /\ begun' = begun + 1 /\ troubled' = troubled \ {j}
  /\ LET busy == cacheLock[release] # Absent
         others == Stagers
     IN /\ job' = [i \in Jobs |->
                     IF i = j
                     THEN IF busy THEN [NoJob EXCEPT !.failed = others = {}, !.vm = v, !.gen = release]
                          ELSE [NoJob EXCEPT !.pc = "load", !.vm = v, !.gen = release,
                                             !.alone = others = {}]
                     ELSE IF i \in others THEN [job[i] EXCEPT !.alone = FALSE]
                     ELSE job[i]]
        /\ cacheLock' = IF busy THEN cacheLock ELSE [cacheLock EXCEPT ![release] = j]
  /\ UNCHANGED <<release, cache, gens, marker, stageLock, active, partial, guest, settled, faults>>

Unlocked(j) == [cacheLock EXCEPT ![Gen(j)] = Absent]

\* Mutant: a bad entry is an error, and stays.
LoadReadyOrFail(j) ==
  /\ At(j, "load")
  /\ IF VerifyGeneration(cache[Gen(j)], Gen(j))
     THEN Goes(j, "lock") /\ cacheLock' = Unlocked(j) /\ UNCHANGED stageLock
     ELSE IF Exists(cache[Gen(j)]) THEN Fails(j)
     ELSE Goes(j, "extract") /\ UNCHANGED <<cacheLock, stageLock>>
  /\ UNCHANGED <<release, cache, gens, marker, active, partial, guest, settled, troubled, begun, faults>>

\* prepare: an entry that verifies is used, a bad one is quarantined.  The lock
\* is given back as prepare returns.
LoadReady(j) ==
  /\ At(j, "load")
  /\ IF VerifyGeneration(cache[Gen(j)], Gen(j))
     THEN Goes(j, "lock") /\ cacheLock' = Unlocked(j) /\ UNCHANGED cache
     ELSE /\ Goes(j, "extract") /\ UNCHANGED cacheLock
          /\ cache' = [cache EXCEPT ![Gen(j)] = NoTree]
  /\ UNCHANGED <<release, gens, marker, stageLock, active, partial, guest, settled, troubled, begun, faults>>

\* prepare_verified_archive: the archive is copied, checked and unpacked beside
\* the entry and renamed into place.
Extract(j) ==
  /\ At(j, "extract")
  /\ Goes(j, "reload")
  /\ cache' = [cache EXCEPT ![Gen(j)] = ExpectedFiles(Gen(j))]
  /\ UNCHANGED <<release, cacheLock, gens, marker, stageLock, active, partial, guest, settled, troubled, begun, faults>>

\* A full disk, an unreadable archive: the temporary directory goes.
ExtractFails(j) ==
  /\ At(j, "extract") /\ faults < MaxFaults
  /\ faults' = faults + 1
  /\ job' = Ends(j, FALSE)
  /\ cacheLock' = Unlocked(j)
  /\ UNCHANGED <<release, cache, gens, marker, stageLock, active, partial, guest, settled, troubled, begun>>

\* The entry is verified again under its final name.
Reload(j) ==
  /\ At(j, "reload")
  /\ IF VerifyGeneration(cache[Gen(j)], Gen(j))
     THEN Goes(j, "lock") /\ cacheLock' = Unlocked(j) /\ UNCHANGED <<cache, stageLock>>
     ELSE Fails(j) /\ cache' = [cache EXCEPT ![Gen(j)] = NoTree]
  /\ UNCHANGED <<release, gens, marker, active, partial, guest, settled, troubled, begun, faults>>

\* expected_files hashes the manifest in the cache again.
ManifestVerifies(j) == cache[Gen(j)][Manifest] = Gen(j)

\* stage_with: the VM's lock of the generation is waited for, and the list of
\* files made under it.
StageLock(j) ==
  /\ At(j, "lock") /\ stageLock[Vm(j)][Gen(j)] = Absent
  /\ IF ManifestVerifies(j)
     THEN /\ stageLock' = [stageLock EXCEPT ![Vm(j)][Gen(j)] = j]
          /\ Goes(j, "marker") /\ UNCHANGED cacheLock
     ELSE Fails(j)
  /\ UNCHANGED <<release, cache, gens, marker, active, partial, guest, settled, troubled, begun, faults>>

\* inspect_ready_marker: a marker that parses and names another payload is an
\* error, and stays (ConflictingGeneration).
Conflicting(j) == marker[Vm(j)][Gen(j)] = "other"

\* The marker is quarantined, whatever it says of this payload.
Withdrawn(j) == [marker EXCEPT ![Vm(j)][Gen(j)] = Absent]

\* verify_or_quarantine_marker: one that cannot be parsed is quarantined.
VerifyMarker(j) ==
  /\ At(j, "marker")
  /\ IF Conflicting(j) THEN Fails(j) /\ UNCHANGED marker
     ELSE /\ Goes(j, "verify") /\ UNCHANGED <<cacheLock, stageLock>>
          /\ marker' = IF marker[Vm(j)][Gen(j)] = "bad" THEN Withdrawn(j) ELSE marker
  /\ UNCHANGED <<release, cache, gens, active, partial, guest, settled, troubled, begun, faults>>

Staged(j) == gens[Vm(j)][Gen(j)]

\* ensure_generation: a generation that verifies is kept; otherwise its marker
\* is withdrawn before anything else.
EnsureGeneration(j) ==
  /\ At(j, "verify")
  /\ IF VerifyGeneration(Staged(j), Gen(j))
     THEN Goes(j, "mark") /\ UNCHANGED <<marker, cacheLock, stageLock>>
     ELSE IF Conflicting(j) THEN Fails(j) /\ UNCHANGED marker
     ELSE Goes(j, "clear") /\ marker' = Withdrawn(j) /\ UNCHANGED <<cacheLock, stageLock>>
  /\ UNCHANGED <<release, cache, gens, active, partial, guest, settled, troubled, begun, faults>>

\* Then the bad generation is quarantined, and a temporary one begun.
ClearGeneration(j) ==
  /\ At(j, "clear")
  /\ gens' = [gens EXCEPT ![Vm(j)][Gen(j)] = NoTree]
  /\ job' = [job EXCEPT ![j].pc = "fill", ![j].todo = Declares[Gen(j)], ![j].tmp = NoTree]
  /\ UNCHANGED <<release, cache, cacheLock, marker, stageLock, active, partial, guest, settled, troubled, begun, faults>>

\* materialize_generation: one file is linked from the cache, whose entry may
\* have been quarantined by another stager since.
MaterializeGeneration(j) ==
  /\ At(j, "fill") /\ job[j].todo # {}
  /\ LET f == NextFile(job[j].todo)
     IN IF cache[Gen(j)][f] = Absent THEN Fails(j)
        ELSE /\ job' = [job EXCEPT ![j].todo = @ \ {f}, ![j].tmp[f] = cache[Gen(j)][f]]
             /\ UNCHANGED <<cacheLock, stageLock>>
  /\ UNCHANGED <<release, cache, gens, marker, active, partial, guest, settled, troubled, begun, faults>>

\* The temporary generation is verified and renamed into place.
PublishGeneration(j) ==
  /\ At(j, "fill") /\ job[j].todo = {}
  /\ IF VerifyGeneration(job[j].tmp, Gen(j))
     THEN /\ gens' = [gens EXCEPT ![Vm(j)][Gen(j)] = job[j].tmp]
          /\ job' = [job EXCEPT ![j].pc = "check", ![j].tmp = NoTree]
          /\ UNCHANGED <<cacheLock, stageLock>>
     ELSE Fails(j) /\ UNCHANGED gens
  /\ UNCHANGED <<release, cache, marker, active, partial, guest, settled, troubled, begun, faults>>

\* It is verified under its final name too; a bad one starts over.
CheckGeneration(j) ==
  /\ At(j, "check")
  /\ IF VerifyGeneration(Staged(j), Gen(j))
     THEN Goes(j, "mark") /\ UNCHANGED <<marker, cacheLock, stageLock>>
     ELSE IF Conflicting(j) THEN Fails(j) /\ UNCHANGED marker
     ELSE Goes(j, "clear") /\ marker' = Withdrawn(j) /\ UNCHANGED <<cacheLock, stageLock>>
  /\ UNCHANGED <<release, cache, gens, active, partial, guest, settled, troubled, begun, faults>>

-----------------------------------------------------------------------------
(* publish_active: nothing is locked, and the guest may be reading. *)

\* Mutant: the files in the order expected_files has them, the manifest first.
PublishOrderAsListed(todo) == NextFile(todo)

\* The declared files, payload.json last.
PublishOrder(todo) == IF todo = {Manifest} THEN Manifest ELSE NextFile(todo \ {Manifest})

Publishing(j) == PublishOrder(job[j].todo)

\* The files the recipe has verified and not copied yet.
Verified ==
  CASE guest.pc = "verify" -> Declares[guest.man] \ (guest.todo \cup {Manifest})
    [] guest.pc = "copy" -> guest.todo
    [] OTHER -> {}

\* What the guest's recipe can still rely on once the directory is `there`.
Watched(there, s) ==
  [guest EXCEPT !.calm = @ /\ (guest.pc \in {"verify", "copy"} => s = guest.man),
                !.kept = @ /\ \A f \in Verified : there[f] = active[Reader][f]]

\* The stagings that are publishing into a VM's directory.
PublishersOf(v) == {i \in Jobs : Vm(i) = v /\ job[i].pc \in {"link", "place", "rename", "prune"}}

\* ensure_ready_marker: written under a partial name and renamed.  The lock is
\* given back, and publish_active begins: it makes the list of files again and
\* locks nothing, so another staging may be publishing into the same directory.
EnsureReadyMarker(j) ==
  /\ At(j, "mark")
  /\ IF Conflicting(j) THEN Fails(j) /\ UNCHANGED <<marker, settled, troubled, guest>>
     ELSE /\ marker' = [marker EXCEPT ![Vm(j)][Gen(j)] = "good"]
          /\ IF ~ManifestVerifies(j) THEN Fails(j) /\ UNCHANGED <<settled, troubled, guest>>
             ELSE /\ stageLock' = [stageLock EXCEPT ![Vm(j)][Gen(j)] = Absent]
                  /\ job' = [job EXCEPT ![j].pc = "link", ![j].todo = Declares[Gen(j)]]
                  /\ troubled' = IF PublishersOf(Vm(j)) = {} THEN troubled
                                 ELSE troubled \cup PublishersOf(Vm(j)) \cup {j}
                  /\ settled' = IF PublishersOf(Vm(j)) = {} THEN settled
                                ELSE [settled EXCEPT ![Vm(j)] = Absent]
                  /\ guest' = Watched(active[Reader], settled'[Reader])
                  /\ UNCHANGED cacheLock
  /\ UNCHANGED <<release, cache, gens, active, partial, begun, faults>>

\* The files a temporary name is shared with.
Sharers(f) == {e \in Files : TempName[e] = TempName[f]}

\* What is left of the temporary files once the name of `f` is removed.
Removed(t, f) == [e \in Files |-> IF e \in Sharers(f) THEN Absent ELSE t[e]]

\* publish_one: the source is there, and whatever has its temporary name goes.
PublishLink(j) ==
  /\ At(j, "link")
  /\ IF cache[Gen(j)][Publishing(j)] = Absent
     THEN Fails(j) /\ UNCHANGED partial
     ELSE /\ partial' = [partial EXCEPT ![Vm(j)] = Removed(@, Publishing(j))]
          /\ job' = [job EXCEPT ![j].pc = "place", ![j].file = Publishing(j),
                                ![j].todo = @ \ {Publishing(j)}]
          /\ UNCHANGED <<cacheLock, stageLock>>
  /\ UNCHANGED <<release, cache, gens, marker, active, guest, settled, troubled, begun, faults>>

\* What lies under the temporary name of a publisher's file.
InTheWay(j) == {e \in Sharers(job[j].file) : partial[Vm(j)][e] # Absent}

\* Its temporary name now holds its own file.
Placed(t, j) == [Removed(t, job[j].file) EXCEPT ![job[j].file] = cache[Gen(j)][job[j].file]]

\* The name is free: the file is linked from the cache under it, or copied.  It
\* is not hashed again.
PublishPlace(j) ==
  /\ At(j, "place") /\ InTheWay(j) = {}
  /\ IF cache[Gen(j)][job[j].file] = Absent
     THEN Fails(j) /\ UNCHANGED partial
     ELSE /\ partial' = [partial EXCEPT ![Vm(j)] = Placed(@, j)]
          /\ Goes(j, "rename") /\ UNCHANGED <<cacheLock, stageLock>>
  /\ UNCHANGED <<release, cache, gens, marker, active, guest, settled, troubled, begun, faults>>

\* Where a file of a generation is kept; hard links make them one file, copies
\* do not.
Places(g, f) ==
  {<<"cache">> : x \in {c \in {cache} : c[g][f] = g}}
  \cup {<<"gens", v>> : v \in {u \in Vms : gens[u][g][f] = g}}
  \cup {<<"active", v>> : v \in {u \in Vms : active[u][f] = g}}
  \cup {<<"partial", v>> : v \in {u \in Vms : partial[u][f] = g}}

\* A file is spoilt in every place that links to it.
Spoils(g, f, where) ==
  /\ cache' = IF <<"cache">> \in where THEN [cache EXCEPT ![g][f] = "bad"] ELSE cache
  /\ gens' = [v \in Vms |-> IF <<"gens", v>> \in where
                            THEN [gens[v] EXCEPT ![g][f] = "bad"] ELSE gens[v]]
  /\ active' = [v \in Vms |-> IF <<"active", v>> \in where
                              THEN [active[v] EXCEPT ![f] = "bad"] ELSE active[v]]
  /\ settled' = [v \in Vms |-> IF <<"active", v>> \in where THEN Absent ELSE settled[v]]
  /\ troubled' = IF where = {} THEN troubled ELSE troubled \cup Stagers
  /\ guest' = Watched(active'[Reader], settled'[Reader])

SpoiltPartial(f, where) ==
  [v \in Vms |-> IF <<"partial", v>> \in where
                 THEN [partial[v] EXCEPT ![f] = "bad"] ELSE partial[v]]

\* Another publisher took the name since it was removed: hard_link fails, and
\* fs::copy writes into what is there.  A link to the same file of the cache
\* cannot be copied onto itself; a link to another one is written through.
PublishOver(j) ==
  /\ At(j, "place") /\ InTheWay(j) # {}
  /\ LET f == job[j].file
         e == CHOOSE e \in InTheWay(j) : TRUE
     IN IF cache[Gen(j)][f] = Absent
        THEN Fails(j) /\ UNCHANGED <<cache, gens, active, partial, guest, settled, troubled>>
        ELSE \/ /\ e = f /\ Fails(j)
                /\ UNCHANGED <<cache, gens, active, partial, guest, settled, troubled>>
             \/ /\ \E where \in SUBSET (IF e = f THEN {} ELSE Places(Gen(j), e)) :
                     /\ Spoils(Gen(j), e, where)
                     /\ partial' = [SpoiltPartial(e, where) EXCEPT ![Vm(j)] = Placed(@, j)]
                /\ Goes(j, "rename") /\ UNCHANGED <<cacheLock, stageLock>>
  /\ UNCHANGED <<release, marker, begun, faults>>

\* A file of another generation, or of a publisher that is not the only one,
\* unsettles the directory.
Unsettled(j) == [settled EXCEPT ![Vm(j)] = IF @ = Gen(j) /\ j \notin troubled THEN @ ELSE Absent]

\* What has the temporary name is renamed over the live file: the publisher's
\* own, or the bytes of another file, which are not what the name promises.
PublishRename(j) ==
  /\ At(j, "rename")
  /\ LET f == job[j].file
         new == IF partial[Vm(j)][f] # Absent THEN partial[Vm(j)][f] ELSE "bad"
     IN IF InTheWay(j) = {}
        THEN Fails(j) /\ UNCHANGED <<active, partial, guest, settled>>
        ELSE /\ active' = [active EXCEPT ![Vm(j)][f] = new]
             /\ partial' = [partial EXCEPT ![Vm(j)] = Removed(@, f)]
             /\ settled' = Unsettled(j)
             /\ guest' = Watched(active'[Reader], settled'[Reader])
             /\ job' = [job EXCEPT ![j].pc = IF job[j].todo = {} THEN "prune" ELSE "link",
                                   ![j].file = Absent]
             /\ UNCHANGED <<cacheLock, stageLock>>
  /\ UNCHANGED <<release, cache, gens, marker, troubled, begun, faults>>

\* prune_undeclared: whatever is not declared goes, temporary names too.
Prune(j) ==
  /\ At(j, "prune")
  /\ active' = [active EXCEPT ![Vm(j)] = PruneUndeclared(@, Gen(j))]
  /\ partial' = [partial EXCEPT ![Vm(j)] = NoTree]
  /\ settled' = [settled EXCEPT ![Vm(j)] = IF j \notin troubled THEN Gen(j) ELSE Absent]
  /\ guest' = Watched(active'[Reader], settled'[Reader])
  /\ job' = Ends(j, FALSE)
  /\ UNCHANGED <<release, cache, cacheLock, gens, marker, stageLock, troubled, begun, faults>>

-----------------------------------------------------------------------------
(* The guest's recipe. *)

\* payload_stage reads payload.json; one it cannot read ends it.
GuestReads ==
  /\ guest.pc = "idle" /\ active[Reader][Manifest] # Absent
  /\ LET man == active[Reader][Manifest]
     IN guest' = IF man = "bad"
                 THEN [NoGuest EXCEPT !.pc = "refused", !.man = man, !.calm = FALSE]
                 ELSE [NoGuest EXCEPT !.pc = "verify", !.man = man, !.todo = Declares[man],
                                      !.calm = settled[Reader] = man]
  /\ UNCHANGED <<release, cache, cacheLock, gens, marker, stageLock, active, partial, job, settled, troubled, begun, faults>>

\* Mutant: what is there is taken on trust.
DeclaredFileThere(f) == active[Reader][f] # Absent

\* verify_declared_files, one file.
DeclaredFileVerifies(f) == active[Reader][f] = guest.man

GuestVerifies(f) ==
  /\ guest.pc = "verify" /\ f = NextFile(guest.todo \ {Manifest})
  /\ guest' = IF ~DeclaredFileVerifies(f)
              THEN [guest EXCEPT !.pc = "refused", !.todo = {}]
              ELSE IF guest.todo \ {f, Manifest} = {}
              THEN [guest EXCEPT !.pc = "copy", !.todo = Declares[guest.man] \ {Manifest}]
              ELSE [guest EXCEPT !.todo = @ \ {f}]
  /\ UNCHANGED <<release, cache, cacheLock, gens, marker, stageLock, active, partial, job, settled, troubled, begun, faults>>

\* The later stages copy the files from the mount; one that is gone ends it.
GuestCopies(f) ==
  /\ guest.pc = "copy" /\ f = NextFile(guest.todo)
  /\ LET new == active[Reader][f]
     IN guest' = IF new = Absent THEN [guest EXCEPT !.pc = "refused", !.todo = {}]
                 ELSE [guest EXCEPT !.took[f] = new, !.todo = @ \ {f},
                                    !.pc = IF guest.todo = {f} THEN "installed" ELSE @]
  /\ UNCHANGED <<release, cache, cacheLock, gens, marker, stageLock, active, partial, job, settled, troubled, begun, faults>>

\* The recipe is over; another may follow.
GuestDone ==
  /\ guest.pc \in {"installed", "refused"} /\ guest' = NoGuest
  /\ UNCHANGED <<release, cache, cacheLock, gens, marker, stageLock, active, partial, job, settled, troubled, begun, faults>>

-----------------------------------------------------------------------------
(* Faults. *)

\* The host process is killed: its locks and threads are gone, its temporary
\* directories stay under names nobody uses again.  Another release may be
\* installed before it runs again.
Killed(r) ==
  /\ faults < MaxFaults /\ faults' = faults + 1
  /\ release' = r
  /\ job' = [j \in Jobs |-> NoJob] /\ troubled' = {}
  /\ cacheLock' = [g \in Generations |-> Absent]
  /\ stageLock' = [v \in Vms |-> [g \in Generations |-> Absent]]
  /\ UNCHANGED <<cache, gens, marker, active, partial, guest, settled, begun>>

\* A file rots, in every place that links to it.
Rot(g, f) ==
  /\ faults < MaxFaults /\ faults' = faults + 1
  /\ \E where \in (SUBSET Places(g, f)) \ {{}} :
       Spoils(g, f, where) /\ partial' = SpoiltPartial(f, where)
  /\ job' = [j \in Jobs |-> [job[j] EXCEPT !.alone = @ /\ At(j, "idle")]]
  /\ UNCHANGED <<release, cacheLock, marker, stageLock, begun>>

\* A ready marker that cannot be parsed, or that names another payload.
RotMarker(v, g, m) ==
  /\ faults < MaxFaults /\ marker[v][g] = "good"
  /\ faults' = faults + 1
  /\ marker' = [marker EXCEPT ![v][g] = m]
  /\ UNCHANGED <<release, cache, cacheLock, gens, stageLock, active, partial, job, guest, settled, troubled, begun>>

-----------------------------------------------------------------------------
JobStep(j) ==
  \/ LoadReady(j) \/ Extract(j) \/ Reload(j) \/ StageLock(j) \/ VerifyMarker(j)
  \/ EnsureGeneration(j) \/ ClearGeneration(j) \/ PublishGeneration(j)
  \/ CheckGeneration(j) \/ EnsureReadyMarker(j) \/ PublishRename(j) \/ Prune(j)
  \/ MaterializeGeneration(j) \/ PublishLink(j) \/ PublishPlace(j)
  \/ PublishOver(j)

GuestStep == GuestReads \/ GuestDone \/ \E f \in Files : GuestVerifies(f) \/ GuestCopies(f)

Fault ==
  \/ \E r \in Generations : Killed(r)
  \/ \E g \in Generations, f \in Files : Rot(g, f)
  \/ \E v \in Vms, g \in Generations, m \in {"bad", "other"} : RotMarker(v, g, m)
  \/ \E j \in Jobs : ExtractFails(j)

Next ==
  \/ \E j \in Jobs : JobStep(j) \/ \E v \in Vms : StageForVm(j, v)
  \/ GuestStep
  \/ Fault

\* A thread that stages is scheduled.
Spec == Init /\ [][Next]_vars /\ \A j \in Jobs : WF_vars(JobStep(j))

-----------------------------------------------------------------------------
(* Properties. *)

\* A ready marker never vouches for a generation that is missing or in part: a
\* kill anywhere in ensure_generation, or a second stager, leaves the marker
\* withdrawn before the generation (staging.rs:269).
ReadyMeansWhole ==
  \A v \in Vms, g \in Generations :
    marker[v][g] = "good" => \A f \in Declares[g] : gens[v][g][f] # Absent

\* A guest that reads payload.json finds every file it declares there, whatever
\* publish was interrupted before and whichever release came after
\* (staging.rs:100).
ManifestIsBacked ==
  \A v \in Vms :
    active[v][Manifest] \in Generations =>
      \A f \in Declares[active[v][Manifest]] : active[v][f] # Absent

\* What stage_for_vm answers with Ok is what the guest's directory holds, no
\* more and no less, when no other staging published into the directory
\* meanwhile and no file went bad, and until another release or a second
\* publisher comes or a file rots (display_staging.rs:131).  Two publishers at
\* once can swap the bytes of a program and its unit, and both answer Ok: see
\* the README.
StagedIsPublished ==
  \A v \in Vms : settled[v] \in Generations => VerifyGeneration(active[v], settled[v])

\* A staging that nobody disturbs succeeds, whatever kills, rotten files,
\* failures and colliding publishers came before it: leftovers are quarantined
\* or overwritten (cache.rs:86, staging.rs:268).  One thing alone stops it, and
\* for good: a ready marker that names another payload (staging.rs:720).
AloneSucceeds ==
  \A j \in Jobs : job[j].failed => marker[job[j].vm][job[j].gen] = "other"

\* A recipe that runs while its generation is published again, whole or up to a
\* kill, by one publisher at a time, refuses nothing; and however torn the
\* directory is, by two publishers too, what the recipe installs is one whole
\* generation, unless a file changed between its check and its copy
\* (display_kernel.rs:568, staging.rs:114).
GuestSeesOneGeneration ==
  /\ guest.calm => guest.pc # "refused"
  /\ guest.pc = "installed" /\ guest.kept =>
       \A f \in Declares[guest.man] \ {Manifest} : guest.took[f] = guest.man

\* Every staging ends: nobody waits for a lock that is never given back
\* (staging.rs:849).
StagingEnds == \A j \in Jobs : []<>At(j, "idle")

\* Whatever vouches for a payload -- a marker, a manifest, an answer of Ok -- is
\* backed by the files it vouches for (staging.rs stage_with, publish_active).
VouchersHold == TypeOK /\ ReadyMeansWhole /\ ManifestIsBacked /\ StagedIsPublished
=============================================================================
