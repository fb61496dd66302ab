---------------------------- MODULE GuestUpdate ----------------------------
(***************************************************************************)
(* The display payload inside the guest: the agent's recipe and its update *)
(* (crates/agent display_kernel.rs, display_recipe.rs,                     *)
(* display_aquamarine.rs), stage by stage, over the DKMS tree, the boot    *)
(* image, the signing pair, the kernel and the display services they       *)
(* change.  One job runs at a time: the agent is one thread.  Commands may *)
(* fail, the agent may be killed and the machine reset between any two     *)
(* steps; each of these is a fault, and MaxFaults bounds them.             *)
(***************************************************************************)
EXTENDS DisplayPayload, Naturals, Sequences, FiniteSets, SequencesExt

CONSTANTS
  Kinds,      \* guests: whether one has an initramfs builder, signs modules and
              \* runs a desktop on aquamarine
  Carried,    \* what content/services of the payload may hold: sets of Entries
  DkmsOrder,  \* the order in which `dkms status` prints the versions
  MaxFaults,  \* bound on failures, resets and kills
  MaxBoots    \* bound on orderly reboots

ASSUME UpdateAssumption ==
  /\ Kinds \subseteq [builder : BOOLEAN, signs : BOOLEAN, aquamarine : BOOLEAN]
  /\ Carried \subseteq SUBSET {"binary", "unit"}
  /\ DkmsOrder \in {<<"old", "new">>, <<"new", "old">>}
  /\ MaxFaults \in Nat /\ MaxBoots \in Nat
  /\ None \notin Versions \cup Outcomes \cup {"torn"}

VARIABLES
  g,       \* the guest: its disk and its kernel
  w,       \* the job the agent is at
  told,    \* the installed version the guest last reported
  ready,   \* a recipe has run since the agent started
  faults,  \* faults so far
  boots    \* orderly reboots so far

vars == <<g, w, told, ready, faults, boots>>

-----------------------------------------------------------------------------
(* The guest. *)

Modes == {"small", "large"}
Drafts == Versions \cup {None, "torn"}   \* a set of files, written one by one

Guests == [
  dkms : [Versions -> {"absent", "added", "built", "installed"}],
  signed : [Versions -> BOOLEAN],     \* built with the pair that exists now
  ko : Loaded,                        \* what modprobe inserts
  image : Loaded,                     \* what the boot image carries
  builder : BOOLEAN,                  \* an initramfs builder is installed
  loaded : Loaded, device : BOOLEAN, params : Modes,
  opts : Modes, asked : BOOLEAN,      \* modprobe.d and modules-load.d
  signs : BOOLEAN,                    \* the kernel is built to sign modules
  key : {"absent", "half", "pair"},
  aquamarine : {None, "new"},         \* what the desktop's package is at
  stamp : Loaded, lib : Drafts,       \* the staged aquamarine
  services : Drafts, up : Loaded,     \* the installed and the running units
  carried : SUBSET {"binary", "unit"}]

Registered(s, v) == s.dkms[v] # "absent"

\* dkms_versions: every version `dkms status` prints, in its order.
DkmsVersions(s) ==
  CHOOSE q \in {<<>>, <<DkmsOrder[1]>>, <<DkmsOrder[2]>>, DkmsOrder} :
    ToSet(q) = {v \in Versions : Registered(s, v)}

\* dkms_reports_installed.
DkmsReportsInstalled(s, v) == s.dkms[v] = "installed"

\* InstalledVersions.
InstalledVersions(s) == [versions |-> DkmsVersions(s), loaded |-> s.loaded]

\* InstalledVersions::previous: the first that is not the current one.
Previous(i, current) ==
  LET others == {n \in DOMAIN i.versions : i.versions[n] # current}
  IN IF others = {} THEN None ELSE i.versions[Min(others)]

\* versions(): the installed version the guest reports.
VersionsReported(s) ==
  LET i == InstalledVersions(s)
  IN IF i.loaded # None THEN i.loaded
     ELSE IF i.versions = <<>> THEN None ELSE i.versions[1]

\* Nothing is left to build: the version is registered, it runs, it answers.
NeedsBuild(s) == ~(Registered(s, "new") /\ s.loaded = "new" /\ s.device)

\* What runs after the next boot.
Boots(s) == IF s.image # None THEN s.image ELSE IF s.asked THEN s.ko ELSE None

\* `dkms install`: one version of a package is installed for a kernel.
DkmsInstalled(s, v) ==
  [s EXCEPT !.ko = v,
            !.dkms = [u \in Versions |->
                        IF u = v THEN "installed"
                        ELSE IF s.dkms[u] = "installed" THEN "built" ELSE s.dkms[u]]]

DkmsBuilt(s, v) == [s EXCEPT !.dkms[v] = IF @ = "installed" THEN @ ELSE "built",
                             !.signed[v] = s.key = "pair"]

\* `dkms remove --all`: the module goes, and what was there before may not
\* come back.
DkmsRemoved(s, v) ==
  LET gone == [s EXCEPT !.dkms[v] = "absent", !.signed[v] = FALSE]
      other == {u \in Versions \ {v} : s.dkms[u] = "built"}
  IN IF s.ko # v THEN {gone}
     ELSE {[gone EXCEPT !.ko = None]} \cup {DkmsInstalled(gone, u) : u \in other}

\* resign_installed_versions: the first n versions built and installed anew.  A
\* build that fails ends it; that the install of a module just built fails is left
\* out.
Resigned(s, n) ==
  LET all == DkmsVersions(s)
      after[i \in 0..n] ==
        IF i = 0 THEN s ELSE DkmsInstalled(DkmsBuilt(after[i - 1], all[i]), all[i])
  IN after[n]

\* Mutant: services that are there, of whatever version, are left alone.
ServicesNeedInstallMissing(s) == s.carried # {} /\ s.services = None

\* services_need_install: any entry of the payload's services that is not
\* under the same name in SERVICES_INSTALL.  The binaries go there; the units
\* go to systemd's directories.
ServicesNeedInstall(s) ==
  \E e \in s.carried : ~(e = "binary" /\ s.services = "new")

-----------------------------------------------------------------------------
(* The job: Report, run_stages, run_update. *)

Steps == {"payload", "dependencies", "key", "source", "build", "signature",
          "initramfs", "load", "renderer", "isolation", "device", "services", "start"}

NoReport == [s \in Steps |-> "unsaid"]

\* Report::record keeps the first answer a step was given.
Recorded(report, step, state) ==
  [report EXCEPT ![step] = IF @ = "unsaid" THEN state ELSE @]

\* Report::finish: what never ran was skipped.
Finished(report) == [s \in Steps |-> IF report[s] = "unsaid" THEN "skipped" ELSE report[s]]

\* run_stages once it knows whether anything has to be built.
BuildStages == <<"source", "add", "build", "install">>
ApplyStages(built) ==
  (IF built THEN <<"dependencies">> ELSE <<>>)
  \o <<"key", "create", "resign">> \o (IF built THEN BuildStages ELSE <<>>)
  \o <<"signature", "prepare">> \o (IF built THEN <<"initramfs">> ELSE <<>>)
  \o <<"load", "unload", "insert", "renderer", "isolation", "device">>
ServiceStages == <<"services", "write", "start">>

\* The attempt of run_update, and what follows it.
AttemptStages ==
  <<"dependencies", "key", "create", "resign">> \o BuildStages
  \o <<"signature", "initramfs", "replace", "insert", "verify">>
RollBackStages == <<"unload", "remove", "reinsert", "refresh", "judge">>

\* The stages after which a job asks whether the guest is shutting down.
HaltsAfter(job) ==
  IF job = "apply"
  THEN {"payload", "dependencies", "resign", "source", "install", "signature"}
  ELSE {"payload"}

Idle == [job |-> "idle", todo |-> <<>>, report |-> NoReport, built |-> FALSE,
         mode |-> "small", before |-> None, back |-> None, signing |-> FALSE,
         outcome |-> None, stopping |-> FALSE, clean |-> TRUE]

Stages == {"payload", "decide", "dependencies", "key", "create", "resign", "source",
           "add", "build", "install", "signature", "prepare", "initramfs", "load",
           "unload", "insert", "renderer", "copy", "stamp", "isolation", "device",
           "services", "write", "start", "replace", "verify", "remove",
           "reinsert", "refresh", "judge"}

Jobs == [
  job : {"idle", "apply", "update"}, todo : Seq(Stages),
  report : [Steps -> {"unsaid", "ok", "skipped", "failed"}],
  built : BOOLEAN,                    \* NeedsBuild, as the recipe decided it
  mode : Modes, signing : BOOLEAN,    \* the mode asked for, and a pair to sign with
  before : Loaded, back : Loaded,     \* what ran, and what a rollback returns to
  outcome : Outcomes \cup {None}, stopping : BOOLEAN,
  clean : BOOLEAN]                    \* no stage has failed or ended the job

TypeOK ==
  /\ g \in Guests /\ w \in Jobs
  /\ told \in Loaded /\ ready \in BOOLEAN
  /\ faults \in 0..MaxFaults /\ boots \in 0..MaxBoots
  \* One version is installed for the kernel, and it is the one there.
  /\ \A v \in Versions : g.dkms[v] = "installed" <=> g.ko = v

\* A guest without a display payload, or with the one of an earlier release.
Fresh(kind, carried) ==
  [dkms |-> [v \in Versions |-> "absent"], signed |-> [v \in Versions |-> FALSE],
   ko |-> None, image |-> None, builder |-> kind.builder, loaded |-> None,
   device |-> FALSE, params |-> "small", opts |-> "small", asked |-> FALSE,
   signs |-> kind.signs, key |-> "absent",
   aquamarine |-> IF kind.aquamarine THEN "new" ELSE None, stamp |-> None, lib |-> None,
   services |-> None, up |-> None, carried |-> carried]
Equipped(s) ==
  LET services == IF s.carried = {} THEN None ELSE "old"
      stamp == IF s.aquamarine = None THEN None ELSE "old"
  IN [s EXCEPT !.dkms["old"] = "installed", !.signed["old"] = s.signs, !.ko = "old",
               !.image = IF s.builder THEN "old" ELSE None, !.loaded = "old",
               !.device = TRUE, !.asked = TRUE,
               !.key = IF s.signs THEN "pair" ELSE "absent", !.stamp = stamp,
               !.lib = stamp, !.services = services, !.up = services]

Init ==
  /\ \E kind \in Kinds, carried \in Carried :
       g \in {Fresh(kind, carried), Equipped(Fresh(kind, carried))}
  /\ w = Idle /\ told = None /\ ready = FALSE /\ faults = 0 /\ boots = 0

-----------------------------------------------------------------------------
(* How a stage ends. *)

At(stage) == w.job \in {"apply", "update"} /\ w.todo # <<>> /\ Head(w.todo) = stage

Works == UNCHANGED faults
Breaks == faults < MaxFaults /\ faults' = faults + 1

\* The job goes on, unless the guest is shutting down and one of the stages it
\* leaves behind is where it asks.
Onward(x, after) ==
  LET left == SubSeq(w.todo, 1, Len(w.todo) - Len(after))
      halts == w.stopping /\ ToSet(left) \cap HaltsAfter(w.job) # {}
  IN IF halts THEN [x EXCEPT !.todo = <<>>, !.outcome = "failed", !.clean = FALSE]
     ELSE [x EXCEPT !.todo = after]

GoOn(after, report, broken) ==
  w' = Onward([w EXCEPT !.report = report, !.clean = @ /\ ~broken], after)

Say(step, state) == Recorded(w.report, step, state)
Goes == GoOn(Tail(w.todo), w.report, FALSE)
Passes(step) == GoOn(Tail(w.todo), Say(step, "ok"), FALSE)
Skips(step) == GoOn(Tail(w.todo), Say(step, "skipped"), FALSE)

\* The stage ends the job; inside the attempt of an update it is rolled back,
\* if there is something to return to.
InAttempt == w.job = "update" /\ w.todo # <<>> /\ Last(w.todo) = "verify"
                /\ Head(w.todo) # "payload"
Ends(step) ==
  w' = [w EXCEPT !.todo = IF InAttempt /\ w.back # None THEN RollBackStages ELSE <<>>,
                 !.outcome = "failed", !.clean = FALSE,
                 !.report = Say(step, "failed")]

rest == <<told, ready, boots>>

-----------------------------------------------------------------------------
(* Jobs. *)

\* display_kernel::apply, at the mode the VM's settings ask for.
Apply(mode) ==
  /\ w.job = "idle" /\ ~w.stopping
  /\ w' = [Idle EXCEPT !.job = "apply", !.todo = <<"payload", "decide">>,
                       !.mode = mode, !.before = g.loaded]
  /\ UNCHANGED <<g, told, ready, faults, boots>>

\* The host asks for the version it staged, unless the guest last said it has
\* it, in a session that begins with a recipe.
HostAsks == ready /\ told # "new"

\* display_kernel::update.
Update ==
  /\ w.job = "idle" /\ ~w.stopping
  /\ HostAsks
  /\ w' = [Idle EXCEPT !.job = "update", !.todo = <<"payload">> \o AttemptStages]
  /\ UNCHANGED <<g, told, ready, faults, boots>>

\* payload_stage: the mounted payload is read and every file of it hashed.
\* An update remembers what a rollback returns to.  A guest whose own facts cannot
\* be read (guest_facts) ends here too, in the code without a line for the stage.
PayloadStage ==
  /\ At("payload")
  /\ \/ /\ Works
        /\ LET i == InstalledVersions(g)
               back == IF i.loaded # None THEN i.loaded ELSE Previous(i, "new")
           IN w' = Onward([w EXCEPT !.report = Say("payload", "ok"),
                                    !.before = g.loaded, !.back = back], Tail(w.todo))
     \/ /\ Breaks /\ Ends("payload")
  /\ UNCHANGED <<g, rest>>

Decide ==
  /\ At("decide")
  /\ LET built == NeedsBuild(g)
         skip == IF built THEN {} ELSE {"dependencies", "source", "build"}
     IN w' = [w EXCEPT !.built = built,
                       !.todo = ApplyStages(built) \o ServiceStages,
                       !.report = [s \in Steps |-> IF s \in skip THEN "skipped" ELSE @[s]]]
  /\ UNCHANGED <<g, rest, faults>>

\* dependencies_stage: there already, or installed.
DependenciesStage ==
  /\ At("dependencies")
  /\ \/ Works /\ Passes("dependencies")
     \/ Breaks /\ Ends("dependencies")
  /\ UNCHANGED <<g, rest>>

\* Leaves the stages up to and including the given one behind.
Past(stage) == LET n == CHOOSE i \in DOMAIN w.todo : w.todo[i] = stage
               IN SubSeq(w.todo, n + 1, Len(w.todo))

\* signing_key_stage never ends the recipe.  A kernel that does not sign needs
\* no pair; half a pair is removed.
KeyStage ==
  /\ At("key") /\ Works
  /\ \/ /\ ~g.signs
        /\ GoOn(Past("resign"), Say("key", "skipped"), FALSE)
        /\ UNCHANGED g
     \/ /\ g.signs /\ g.key = "pair"
        /\ w' = Onward([w EXCEPT !.signing = TRUE, !.report = Say("key", "ok")],
                       Past("resign"))
        /\ UNCHANGED g
     \/ /\ g.signs /\ g.key # "pair"
        /\ g' = [g EXCEPT !.key = "absent", !.signed = [v \in Versions |-> FALSE]]
        /\ Goes
  /\ UNCHANGED rest

\* create_signing_key.  One that fails may leave half a pair.  A pair that is there
\* is a good one: a certificate that is empty or cannot be read is left out.
CreateSigningKey ==
  /\ At("create")
  /\ \/ /\ Works /\ g' = [g EXCEPT !.key = "pair"] /\ Goes
     \/ /\ Breaks /\ \E k \in {"absent", "half"} : g' = [g EXCEPT !.key = k]
        /\ GoOn(Past("resign"), Say("key", "failed"), TRUE)
  /\ UNCHANGED rest

\* resign_installed_versions, which gives up at the first build that fails;
\* the stage still counts the key as good.
ResignStage ==
  /\ At("resign")
  /\ LET all == Len(DkmsVersions(g))
     IN \E n \in 0..all :
          /\ IF n < all THEN Breaks ELSE Works
          /\ g' = Resigned(g, n)
          /\ w' = Onward([w EXCEPT !.signing = TRUE, !.clean = @ /\ n = all,
                                   !.report = Say("key", IF n < all THEN "failed" ELSE "ok")],
                         Tail(w.todo))
  /\ UNCHANGED rest

\* source_stage: copy_tree into /usr/src, unless it holds these sources.
SourceStage ==
  /\ At("source")
  /\ \/ Works /\ Passes("source")
     \/ Breaks /\ Ends("source")
  /\ UNCHANGED <<g, rest>>

\* build_stage: a version that is installed is not built again.
DkmsAdd ==
  /\ At("add") /\ Works
  /\ IF DkmsReportsInstalled(g, "new")
     THEN UNCHANGED g /\ GoOn(Past("install"), Say("build", "skipped"), FALSE)
     ELSE /\ g' = [g EXCEPT !.dkms["new"] = IF @ = "absent" THEN "added" ELSE @]
          /\ Goes
  /\ UNCHANGED rest

DkmsBuild ==
  /\ At("build")
  /\ \/ Works /\ g' = DkmsBuilt(g, "new") /\ Goes
     \/ Breaks /\ Ends("build") /\ UNCHANGED g
  /\ UNCHANGED rest

DkmsInstall ==
  /\ At("install")
  /\ \/ Works /\ g' = DkmsInstalled(g, "new") /\ Passes("build")
     \/ Breaks /\ Ends("build") /\ UNCHANGED g
  /\ UNCHANGED rest

\* module_signature_stage only reports.
ModuleSignatureStage ==
  /\ At("signature") /\ Works
  /\ LET state == IF ~w.signing THEN "skipped"
                  ELSE IF g.ko # None /\ g.signed[g.ko] THEN "ok" ELSE "failed"
     IN GoOn(Tail(w.todo), Say("signature", state), FALSE)
  /\ UNCHANGED <<g, rest>>

-----------------------------------------------------------------------------
(* The module: load_stage, reload_module, reload_module_for_update. *)

\* The module is asked for on every boot, at the mode that is wanted.
PrepareLoad ==
  /\ At("prepare")
  /\ \/ Works /\ g' = [g EXCEPT !.asked = TRUE, !.opts = w.mode] /\ Goes
     \/ Breaks /\ Ends("load") /\ UNCHANGED g
  /\ UNCHANGED rest

\* update_initramfs_stage.
InitramfsStage ==
  /\ At("initramfs")
  /\ \/ ~g.builder /\ Works /\ Skips("initramfs") /\ UNCHANGED g
     \/ g.builder /\ Works /\ g' = [g EXCEPT !.image = g.ko] /\ Passes("initramfs")
     \/ g.builder /\ Breaks /\ Ends("initramfs") /\ UNCHANGED g
  /\ UNCHANGED rest

NeedsReload(s, mode) == s.loaded # None /\ s.params # mode

\* load_stage: a module that is up at the wanted mode is left alone, whatever
\* its version.
LoadStage ==
  /\ At("load") /\ Works
  /\ IF g.loaded = None THEN GoOn(Tail(Tail(w.todo)), w.report, FALSE)
     ELSE IF NeedsReload(g, w.mode) THEN Goes
     ELSE GoOn(Past("insert"), Say("load", "skipped"), FALSE)
  /\ UNCHANGED <<g, rest>>

\* `modprobe -r` does nothing to a module a compositor holds.
Unloaded(s) == {s, [s EXCEPT !.loaded = None, !.device = FALSE]}

\* reload_module and roll_back unload what they can.
Unload ==
  /\ At("unload") /\ Works
  /\ g' \in Unloaded(g) /\ Goes
  /\ UNCHANGED rest

\* reload_disposition: a module still in use waits for the next boot.
ReplaceModule ==
  /\ At("replace") /\ Works
  /\ g' \in Unloaded(g)
  /\ IF g'.loaded # None
     THEN w' = [w EXCEPT !.todo = <<>>, !.outcome = "reboot_required",
                         !.report = Say("load", "failed")]
     ELSE Goes
  /\ UNCHANGED rest

\* `modprobe`: the module, and usually a device with it.
Inserted(s) == [s EXCEPT !.loaded = s.ko, !.params = s.opts, !.device = TRUE]

InsertModule ==
  /\ At("insert")
  /\ \/ g.loaded # None /\ Works /\ Passes("load") /\ UNCHANGED g
     \/ g.loaded = None /\ g.ko = None /\ Works /\ Ends("load") /\ UNCHANGED g
     \/ g.loaded = None /\ g.ko # None /\ Works /\ g' = Inserted(g) /\ Passes("load")
     \/ g.loaded = None /\ g.ko # None /\ Breaks /\ Ends("load") /\ UNCHANGED g
     \/ /\ g.loaded = None /\ g.ko # None /\ Breaks
        /\ g' = [Inserted(g) EXCEPT !.device = FALSE]
        /\ GoOn(Tail(w.todo), Say("load", "ok"), TRUE)
  /\ UNCHANGED rest

\* device_stage.
DeviceStage ==
  /\ At("device") /\ Works
  /\ IF g.device THEN Passes("device") ELSE Ends("device")
  /\ UNCHANGED <<g, rest>>

-----------------------------------------------------------------------------
(* The compositor: compositor_renderer_stage, display_aquamarine.rs. *)

\* Mutant: the stamp of the last build stays while the next one is copied.
RendererStageKeepsStamp ==
  /\ At("renderer") /\ Works
  /\ IF g.aquamarine = None \/ g.stamp = g.aquamarine
     THEN Passes("renderer")
     ELSE w' = [w EXCEPT !.todo = <<"copy", "stamp">> \o Tail(@)]
  /\ UNCHANGED <<g, rest>>

\* Nothing to build, nothing built, or a build that removes the stamp first.
RendererStage ==
  /\ At("renderer")
  /\ \/ g.aquamarine = None /\ Works /\ Skips("renderer") /\ UNCHANGED g
     \/ /\ g.aquamarine # None /\ g.stamp = g.aquamarine
        /\ Works /\ Passes("renderer") /\ UNCHANGED g
     \/ /\ g.aquamarine # None /\ g.stamp # g.aquamarine
        /\ Breaks /\ GoOn(Tail(w.todo), Say("renderer", "failed"), TRUE) /\ UNCHANGED g
     \/ /\ g.aquamarine # None /\ g.stamp # g.aquamarine
        /\ Works /\ g' = [g EXCEPT !.stamp = None]
        /\ w' = [w EXCEPT !.todo = <<"copy", "stamp">> \o Tail(@)]
  /\ UNCHANGED rest

\* install: file by file, and the stamp once they are all there.
CopyRenderer ==
  /\ At("copy") /\ Works
  /\ g' = [g EXCEPT !.lib = "torn"] /\ Goes
  /\ UNCHANGED rest

StampRenderer ==
  /\ At("stamp")
  /\ \/ Works /\ g' = [g EXCEPT !.lib = g.aquamarine, !.stamp = g.aquamarine]
        /\ Passes("renderer")
     \/ Breaks /\ GoOn(Tail(w.todo), Say("renderer", "failed"), TRUE) /\ UNCHANGED g
  /\ UNCHANGED rest

\* compositor_isolation_stage: a drop-in that cannot be written ends the recipe.
IsolationStage ==
  /\ At("isolation")
  /\ \/ Works /\ Passes("isolation")
     \/ Breaks /\ Ends("isolation")
  /\ UNCHANGED <<g, rest>>

-----------------------------------------------------------------------------
(* The display services: services_stages, install_services, start_services. *)

ServicesStage ==
  /\ At("services")
  /\ \/ /\ g.carried = {} /\ Works
        /\ GoOn(Past("start"), Say("services", "skipped"), FALSE)
     \/ g.carried # {} /\ Breaks /\ Ends("services")
     \/ /\ g.carried # {} /\ Works
        /\ IF ServicesNeedInstall(g)
           THEN Goes
           ELSE GoOn(Tail(Tail(w.todo)), Say("services", "skipped"), FALSE)
  /\ UNCHANGED <<g, rest>>

\* install_file removes what it replaces: a failure leaves a mixture.
WriteServices ==
  /\ At("write")
  /\ \/ Works /\ g' = [g EXCEPT !.services = "new"] /\ Passes("services")
     \/ Breaks /\ g' = [g EXCEPT !.services = "torn"] /\ Ends("services")
  /\ UNCHANGED rest

Runs(draft) == IF draft = "torn" THEN None ELSE draft

\* start_services: restarted, and waited for until they are up.
StartServices ==
  /\ At("start")
  /\ \/ Works /\ g' = [g EXCEPT !.up = Runs(g.services)]
        /\ IF g'.up # None THEN Passes("start") ELSE Ends("start")
     \/ Breaks /\ g' = [g EXCEPT !.up = None] /\ Ends("start")
  /\ UNCHANGED rest

-----------------------------------------------------------------------------
(* The end of an update: verify, verify_services, roll_back. *)

VerifyServices == g.carried = {} \/ (~ServicesNeedInstall(g) /\ g.up # None)

Verify ==
  /\ At("verify") /\ Works
  /\ IF g.device /\ g.loaded = "new" /\ VerifyServices
     THEN w' = [w EXCEPT !.todo = ServiceStages, !.report = Say("device", "ok")]
     ELSE w' = [w EXCEPT !.todo = IF w.back # None THEN RollBackStages ELSE <<>>,
                         !.outcome = "failed",
                         !.report = Say("device", IF g.device THEN "ok" ELSE "failed")]
  /\ UNCHANGED <<g, rest>>

\* roll_back runs its commands whatever they come to.
RemoveAttempted ==
  /\ At("remove")
  /\ \/ Works /\ g' \in DkmsRemoved(g, "new")
     \/ Breaks /\ UNCHANGED g
  /\ Goes /\ UNCHANGED rest

Reinsert ==
  /\ At("reinsert")
  /\ IF g.loaded # None \/ g.ko = None
     THEN Works /\ UNCHANGED g
     ELSE \/ Works /\ g' = Inserted(g)
          \/ Breaks /\ g' \in {g, [Inserted(g) EXCEPT !.device = FALSE]}
  /\ Goes /\ UNCHANGED rest

RefreshImage ==
  /\ At("refresh")
  /\ IF g.builder
     THEN \/ Works /\ g' = [g EXCEPT !.image = g.ko]
          \/ Breaks /\ UNCHANGED g
     ELSE Works /\ UNCHANGED g
  /\ Goes /\ UNCHANGED rest

\* Mutant: any module with a device is the one that was asked back.
JudgeAnyVersion ==
  /\ At("judge") /\ Works
  /\ w' = [w EXCEPT !.todo = <<>>,
                    !.outcome = IF g.loaded # None /\ g.device
                                THEN "rolled_back" ELSE "failed"]
  /\ UNCHANGED <<g, rest>>

\* rollback_outcome: the version a rollback returns to runs, with its device.
Judge ==
  /\ At("judge") /\ Works
  /\ w' = [w EXCEPT !.todo = <<>>,
                    !.outcome = IF g.loaded = w.back /\ g.device
                                THEN "rolled_back" ELSE "failed"]
  /\ UNCHANGED <<g, rest>>

-----------------------------------------------------------------------------
(* The end of a job, and what happens around it. *)

Done == w.job \in {"apply", "update"} /\ w.todo = <<>>

\* An update whose stages are all behind it, one way or the other.
OutcomeOf == IF w.outcome = None THEN "updated" ELSE w.outcome

\* reported_update_versions: a version that waits for a reboot is installed.
Reported ==
  IF w.job = "update" /\ OutcomeOf = "reboot_required" THEN "new" ELSE VersionsReported(g)

\* The report goes to the host, which keeps the versions.
Answer ==
  /\ Done
  /\ told' = Reported /\ ready' = TRUE
  /\ w' = [Idle EXCEPT !.stopping = w.stopping]
  /\ UNCHANGED <<g, faults, boots>>

\* The guest is asked to go down: STOPPING, which the job reads now and then.
Stop ==
  /\ ~w.stopping /\ boots < MaxBoots /\ boots' = boots + 1
  /\ w' = [w EXCEPT !.stopping = TRUE]
  /\ UNCHANGED <<g, told, ready, faults>>

\* The kernel and the units of the next boot.
Booted(s) ==
  [s EXCEPT !.loaded = Boots(s), !.device = Boots(s) # None, !.params = s.opts,
            !.up = Runs(s.services)]

GoDown ==
  /\ w.stopping /\ w.job = "idle"
  /\ g' = Booted(g) /\ w' = Idle /\ ready' = FALSE
  /\ UNCHANGED <<told, faults, boots>>

\* Files of the services that were being written are a mixture.
Interrupted(s) == IF At("write") THEN [s EXCEPT !.services = "torn"] ELSE s

\* Power is lost under the job.  What was written before is taken to be on the disk,
\* in the order it was written; the code syncs neither the libraries nor the stamp.
PowerLoss ==
  /\ Breaks
  /\ g' = Booted(Interrupted(g)) /\ w' = Idle /\ ready' = FALSE
  /\ UNCHANGED <<told, boots>>

\* The agent is killed, and its unit starts it again.
AgentKilled ==
  /\ w.job # "idle" /\ Breaks
  /\ g' = Interrupted(g) /\ w' = [Idle EXCEPT !.stopping = w.stopping] /\ ready' = FALSE
  /\ UNCHANGED <<told, boots>>

\* A unit of the display services dies, or half of the pair is lost.
ServicesDie ==
  /\ g.up # None /\ Breaks
  /\ g' = [g EXCEPT !.up = None]
  /\ w' = [w EXCEPT !.clean = FALSE] /\ UNCHANGED rest

KeyHalfLost ==
  /\ g.key = "pair" /\ Breaks
  /\ g' = [g EXCEPT !.key = "half"]
  /\ w' = [w EXCEPT !.clean = FALSE] /\ UNCHANGED rest

-----------------------------------------------------------------------------
Work ==
  \/ PayloadStage \/ Decide \/ DependenciesStage \/ KeyStage \/ CreateSigningKey
  \/ ResignStage \/ SourceStage \/ DkmsAdd \/ DkmsBuild \/ DkmsInstall
  \/ ModuleSignatureStage \/ PrepareLoad \/ InitramfsStage \/ LoadStage \/ Unload
  \/ ReplaceModule \/ InsertModule \/ DeviceStage \/ RendererStage \/ CopyRenderer
  \/ StampRenderer \/ IsolationStage \/ ServicesStage \/ WriteServices
  \/ StartServices \/ Verify \/ RemoveAttempted \/ Reinsert \/ RefreshImage \/ Judge
  \/ Answer

Next ==
  \/ \E mode \in Modes : Apply(mode)
  \/ Update \/ Work \/ Stop \/ GoDown \/ PowerLoss \/ AgentKilled \/ ServicesDie
  \/ KeyHalfLost

\* The agent's thread runs, and every command it waits for has a budget.
Spec == Init /\ [][Next]_vars

-----------------------------------------------------------------------------
(* Properties. *)

\* What an update reports is what it came to: the host acts on the outcome
\* alone (display_update.rs outcome_of), and AgentLink relies on this.
KeepsItsPromise ==
  Done /\ w.job = "update" => UpdatePromise(w.before, OutcomeOf, g.loaded)

\* A recipe none of whose stages fails, whatever earlier recipes, updates, kills
\* and resets left, puts the payload in place: the new module runs now or from
\* the next boot on, there is a display, and the services of the payload are up
\* (run_stages).  The exception: a new module that runs counts as installed,
\* because DKMS still lists it (needs_build), when a re-signing left the old one
\* in its place, cut short or in the order DKMS prints them.
CleanRecipeEquips ==
  Done /\ w.job = "apply" /\ w.clean /\ (w.built \/ g.ko = "new") =>
    /\ "new" \in {g.loaded, Boots(g)} /\ g.device
    /\ g.carried # {} => g.services = "new" /\ g.up = "new"
    /\ g.aquamarine \in {None, g.lib}

\* A report without a failed stage is the truth: the display is there, signed
\* by the pair the guest has, and the services that run are the payload's.  A
\* recipe that halted early, with an outcome of its own, says nothing of the kind.
GoodReportIsTrue ==
  Done /\ w.job = "apply" /\ w.outcome = None
  /\ (\A s \in Steps : w.report[s] # "failed") =>
    /\ g.device /\ g.loaded # None /\ g.asked
    /\ w.signing => g.signed[g.ko]
    /\ g.carried # {} => g.services = "new"

\* The stamp of the staged aquamarine vouches for the files beside it, through
\* any kill or reset (display_aquamarine.rs install).
StampVouches == g.stamp # None => g.lib = g.stamp

\* A guest that reports a reboot is all it takes boots the new module, unless a
\* recipe or an update runs first.
RebootFinishes == Done /\ OutcomeOf = "reboot_required" => Boots(g) = "new"

\* An update none of whose steps failed is an update.  verify_services does not
\* keep this for a payload that carries services: see the README.
CleanUpdateUpdates ==
  Done /\ w.job = "update" /\ w.clean => OutcomeOf \in {"updated", "reboot_required"}

\* What the guest tells the host is so: the outcome of an update, a report without
\* a failed stage, and that a reboot is all it takes (display_kernel.rs update,
\* apply), through failed commands, kills and resets.
ReportsAreTrue == TypeOK /\ KeepsItsPromise /\ GoodReportIsTrue /\ RebootFinishes
=============================================================================
