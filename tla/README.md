# VMLord: specifications, model checks and proofs

VMLord is a Windows desktop application that creates and runs Linux VMs on the
Host Compute Service (HCS).  Its window, its application layer and its
repository live in one process; every long operation is a thread of its own,
HCS calls back on threads of its own, and an agent inside each guest talks to
the host over a Hyper-V socket.  This directory holds TLA+ specifications of
the parts of that system where the order of events matters, the TLC
configurations that check them, and proofs checked by TLAPS.

Paths such as `repository.rs` without a directory are under
`src/crates/platform/src/`.  `PROJECT.json` maps every definition to the lines
it models.

## 1. The system

### 1.1 Components

| Component | State it keeps | Operations | Talks to |
|---|---|---|---|
| Window (`ui`) and application (`app`) | the rows of the last listing, which backend is ready, a form being edited | list and refresh once a second and after each operation; start, stop, force stop, reboot, delete, open console / display / SSH, create, update | calls the repository on one thread |
| Repository (`repository.rs`) | owns every registry below, behind `&mut self` | `initialize`, `list_vms`, `refresh`, one method per operation, `drop` | spawns workers, collects what they produced in `refresh` |
| Start registry (`start_registry.rs`) | name -> thread, `finished` flag, outcome cell; the queue of products | `start`, `contains`, `take_started`, `join_all` | start workers; `adopt_started` |
| Start pipeline (`start.rs`, `hcn_endpoint.rs`, `gpu_prepare.rs`, `display_prepare.rs`) | the step it has reached | endpoint, GPU and display shares, compute system, console, run | HCS, HCN, metadata store, `GpuRuns`, `DisplayRuns` |
| Request workers (`shutdown_workers.rs`, `force_stop_workers.rs`, `reboot_workers.rs`) | VM -> the one request in flight | `start`, `take_finished`, `join_all` | HCS or the guest's agent |
| HCS handles and events (`reconnect.rs`, `watch.rs`) | VM -> handle, watch and generation; a bounded queue | `insert`, `remove`, `push`, `drain_events` | HCS callbacks |
| Per-run facts (`gpu_runs.rs`, `display_runs.rs`) | by VM id: what the start prepared, what the guest reported | `record`, `snapshot`, `forget` | start threads write, agent threads write, the main thread reads and forgets |
| Consoles (`com1_terminal.rs`, `com1_reader.rs`) | VM -> reader session | open, reap, cancel | a reader process per VM |
| Agent connections (`agent.rs`, `agent_session.rs`) | VM -> listener thread and session | listen, serve, cancel; display update and reboot requests | the guest's agent |
| Display windows (`display_launches.rs`) | runtime id -> viewer process | start or focus, close | the viewer; closed by `SystemExited` |
| Metadata store (`metadata.rs`) | `metadata.json`: one mapping per VM | find, insert, update, remove; whole-file writes | main thread, start and build threads |
| Build cycle (`build.rs`, `cycle.rs`, `create.rs`, `guest_ready.rs`) | builds by name, their monitor and outcome | create, cancel, roll back, wait for the guest | HCS, disk, image cache |
| Delete pipeline (`delete.rs`) | none | tear down system, endpoint, directory, then the mapping | HCS, HCN, disk |
| Payload cache and staging (`payload`) | generations and ready markers on disk | fetch, stage, publish, quarantine | start pipelines of several VMs |
| Image download (`image`) | a `.part` file and a verified file | resume, verify, publish | other downloads |
| Guest agent (`agent`) | what is installed and mounted | self update, GPU and display recipes, rollback | the host's session |
| Display services (`display-protocol`, `display-services`, `display-codec`, `display-viewer`) | session keys, channel generations, staged frame | handshake, bind, reconnect, encode, clipboard | guest and viewer |

### 1.2 What is hard here

* **Everything is collected later.**  A start's product, a stop's answer and an
  HCS event are produced on other threads and take effect in the next
  `refresh`, in a fixed order (starts, desktops, shutdowns, forced stops,
  reboots, events, consoles).  What they are about may be over by then.
* **Two identities.**  A handle carries a generation, a window a runtime id; but
  facts, shares, requests and agent connections are kept by VM id.  A VM that
  is started again reuses the id.
* **A delete or a start is decided on a listing that is already old.**
* **The event queue is bounded** and drops its oldest event.
* **The process may die**; HCS, the guests and `metadata.json` do not.
* **Whole mappings are written back** by operations that read them long before.

`PROJECT.json` lists the hazards at their lines, with the properties that cover
them, or a note on why none does.

### 1.3 What makes each component correct

* Start registry: nothing a start produced is lost or handed over twice, the
  products of one VM come in the order of its starts, every start ends up
  unlisted, and leaving is never blocked.
* Handles and events: a queued event is acted on for the watch that raised it
  only; an exit of a run that is over never costs a live run its handle.
* Repository: what belongs to a run (handle, agent connection, facts, window)
  ends with it, and with nothing else; a deleted VM has nothing left; a run that
  goes on is in the end held and listened to, whatever happened to VMLord.
* Records: an accepted change is recorded, what runs keeps what it runs on, and
  what is forgotten is gone, through failed calls and kills.
* Agent link: nobody waits on a link that is down, a guest at work is left alone,
  what is shown is what the guest has, and the link comes back.
* Guest's updates: what is reported is true, and a later recipe repairs what an
  interrupted one left.
* Payloads and images: what is in use is whole and verified, across crashes, and
  leftovers never keep a retry from succeeding.
* Display session: threads and processes agree on the session; channels come back;
  a closed window leaves nothing in the guest, no pressed key either but one that a
  process which died, or gave way to another, has forgotten.
* Picture: the decoder holds what the encoder believes it holds, and a screen that
  comes to rest is what the window shows.

## 2. The modules

| Module | Models | Kind |
|---|---|---|
| `Handover` | what a background start promises | abstract specification |
| `StartRegistry` | `start_registry.rs` with its worker threads and `join_all` | component |
| `Lifecycle` | the repository, its registries, the workers, HCS and the application that drives it | composition |
| `VmRecords` | the mapping document and what it is about, under builds, starts, edits, deletions, refreshes and kills | composition |
| `DisplayPayload` | what an update inside the guest promises the host, by its outcome | contract |
| `AgentLink` | the host's agent thread, the guest's agent, their sockets and the callers of the link | composition |
| `GuestUpdate` | the guest's display recipe and update, stage by stage | component |
| `PayloadStaging` | the payload cache, a VM's generations and the directory the guest mounts | component |
| `DisplaySession` | the viewer, the broker's threads and the session process over three sockets | composition |
| `FrameStream` | a picture's way from the compositor to the window | composition |
| `TileCodec` | grid, tile selection, varint, run-length coder and containers | operators |
| `ImageCache` | the cache entry of one image in `crates/image`: `fetch_image`, `PartFile` | component |
| `MC...` | model values and small sets for TLC | instances |
| `StartRegistryProofs`, `LifecycleProofs`, `VmRecordsProofs`, `AgentLinkProofs`, `GuestUpdateProofs`, `CacheProofs` (of `PayloadStaging` and of `ImageCache`), `DisplaySessionProofs`, `FrameStreamProofs` | invariants and theorems | proofs |

`AgentLink` and `GuestUpdate` meet in `DisplayPayload`: the first runs the
guest's handlers by `UpdatePromise`, the second is checked to keep it
(`KeepsItsPromise`).  `DisplaySession` and `FrameStream` are two views of one
session: who may talk to whom, and what the pixels are; `FrameStream` takes a
session for granted and gives its frame channel contents.  `TileCodec` is what
`FrameStream` takes for granted of a tile.

### 2.1 StartRegistry

`starts[n]` is the worker of the entry of name `n`: `running`, `stored` (its
outcome is in the cell and the flag not yet set) or `ended` (the flag is set).
The two stores are two steps.  The flag is a `Relaxed` atomic, but the outcome is
behind a mutex the worker released before, so a reader that saw the flag sees
the outcome.  `Contains` stands for every query: all of them reap.  The order
in which a reap visits a `HashMap` is any order (`Orders`).  `JoinAll`,
`DrainEntry`, `JoinEntry` and `Joined` are `join_all`: it collects from an entry
and then waits for its thread, in that order.  `ticket` (the number of the start)
exists only in the model, to tell two products of one VM apart.

### 2.2 Lifecycle

One variable group per owner: HCS (`sys`, `run`, `undelivered`, `noise`),
`metadata.json` (`known`, `installed`), the process (`phase`, `main`, `seen`,
`listed`), `VmConnections` and `VmEventSink` (`conn`, `nextGen`, `events`), what
belongs to a run (`console`, `agent`, `gpu`, `dsp`, `windows`) and the workers
(`starting`, `parked`, `adopting`, `asks`).

*Runs.*  Each compute system HCS creates for a VM gets the next number in
`run`.  The numbers stand for identities the code has (runtime ids, pipes,
handles) and, in `gpu`, `dsp` and `asks`, for identities it does not have: there
they are only read by properties.  `GuestOffersDisplay` writes the run of the
connection the report came over; `Listening` copies the shares recorded for the
VM, of whichever run they are.

*The main thread.*  `main` is where a refresh is: `list` -> `label` -> `take` ->
(`adopt` -> `listen`)* -> `shutdowns` -> `forces` -> `reboots` -> `events` ->
`idle`, one step for each call `refresh` makes.  Between these steps the other
threads and HCS can be seen to act.  Operations of the user are one step each, and take two conditions: `Offered`, what the window shows for the
row of the last listing, and `Accepts`, what the repository checks when called.
An operation that is accepted is followed by a listing and a refresh, one that
is refused by a refresh only, as in the application's `run_vm_lifecycle_action`.

*Events.*  `undelivered` holds the VMs whose watched system is gone and whose
callback has not run yet; dropping a watch removes it from there.  `DrainEvents`
decides every queued event against the handles held before any is released, as
`drain_events` does.

*Constants.*  `Faults` says which host calls may fail (opening a handle,
registering a watch, binding the agent's listener, launching a reader or a viewer,
spawning a thread, listing, the service, the process itself), and `Operations` what the user may ask for, so
that a run spends its states on one question.  A theorem holds for every value
of both.

*Left out of it.*  Builds and updates (`VmRecords`) and SSH launches; the order
of the start pipeline's steps that no other thread can see; the texts of
diagnostics; the guest's GPU report, which is only shown.  A VM of the model has a
GPU and a desktop, what its start prepares for them succeeds and is recovered
after a restart, and writes of `metadata.json` succeed; `VmRecords` and
`PayloadStaging` take these apart.

### 2.3 ImageCache

An entry of the cache is two names, the image's (`final`) and the `.part` it is
downloaded into (`part`), and the files they name.  Files are not their names: a
`PartFile` is a handle, which stays on its file when another downloader renames
it, and the lock is the file's.  A file is its length in chunks and whether they
are the image's; that is all a SHA-256 and a resumption can tell.  `pc` follows
`fetch_image` from call to call of the file system and the server, since another
downloader, in this process or another, may act between any two; opening and
locking the `.part` are two calls, and so are looking for the final name and
renaming.  `Answers` is the server: it may ignore a range.  `Fail` is every
error, a cancel and the death of the process, all of which close the handle;
`ReadWrong`, `ReadShort` and `Damage` are what a proxy, a broken connection and
a disk do.  The locks are Windows's, mandatory for readers.

### 2.4 VmRecords

`doc` is `metadata.json` and `pen` who is writing it: it is read without the
lock and written in place under it, so a step is what happens between two
accesses to it, and a reader may find it `Torn`.  Around it are the things the
document is about: endpoints (`hns`, `stuck`), compute systems (`sys`), the VM's
directory, disk and configuration (`files`, `vhd`, `adapter`) and the port the
guest's SSH names (`guestPort`).  `main` is the UI thread in an edit, a deletion
or a refresh; `worker[v]` the build or start thread of a VM, from `create` to the
wait for the guest and its cleanup.  Any call may fail and VMLord may be killed
at any step (`MaxFaults`); `Initialize` is the next process, which collects the
endpoints no mapping names.  `debris` and `cut` remember what a kill left and
nothing in the code looks for, `adrift` the VMs that the rollback of their build
was to stop and could not: because a call of the host failed, or because
`force_stop` found a document that another thread was writing.  A new endpoint is one that neither HNS nor any
document, configuration, system or copy of a mapping names (`NewEndpoints`):
`Uuid::new_v4` does not repeat itself.  The endpoint's addresses, the DHCP reservations
and the migration of documents without a disk size are left out.

### 2.5 AgentLink, DisplayPayload

`conns` are the Hyper-V sockets with the frames in each direction, `h` the agent
thread of the VM (listening, greeting, proving, serving, and the candidate that
is to replace the session), `guest` the agent process and its machine, `queue`
and `asks` the callers that want an update or a reboot through the session.  A
timeout that fires although the other end would have answered is a fault; one
that fires on an end that is gone is not.  A guest may have the current agent,
an older one that replaces itself, or one whose protocol this host refuses, and
its secret may not be the host's (`Guests`).  `disp` is the guest's module, moved
by `UpdatePromise`; `facts` is what `DisplayRuns` shows of it.

### 2.6 GuestUpdate

`g` is the guest's disk and kernel: the DKMS tree, the module file in place and
the one in the boot image, the signing pair, what is loaded, the services
installed and running, and the staged renderer.  `w` is the one job the agent is
at, a recipe or an update, and its step; each command is a step that succeeds or
fails, and between any two the agent may be killed or the power lost.  Assumed of
what is outside: DKMS holds one module file per kernel, `dkms remove` may or may
not put the previous one back, the boot image has the file that was in place
when it was built, `modprobe -r` may leave a module that is in use, and what was
written before a power loss is on the disk in the order it was written, although the
code syncs neither the renderer's libraries nor its stamp.  `GoodReportIsTrue` is
about recipes that ran to their end, not about one that halted early.  The
contents of drop-ins, secure boot enrolment, audio, the tray and the wording of
reports are left out.

### 2.7 PayloadStaging

`cache`, `gens`, `marker`, `active` and `partial` are directories by name, each
file being absent, of a generation or bad; `cacheLock` and `stageLock` are the
lock files; `job` are threads inside `stage_for_vm`, from the cache's entry over
the VM's generation and its marker to the directory the guest mounts, one step
for each file system call that another thread, the guest or a kill can come
before.  `guest` is a recipe that reads the manifest, checks every file and then
copies them.  A file is published in three calls, and each is a step: what lies
under its temporary name is removed, the cache's file is linked there (or copied,
if the name is taken), and the name is renamed to the file's.  `TempName` gives
the temporary name of each file, and files may share one, as a program and its
unit do.  A copy onto a name that another publisher has just linked writes
through the link into the cache and into what the link was renamed to (`Spoils`).
A file with another's bytes is bad.  A ready marker is absent, right, rotten or
readable and about another payload.  `troubled` remembers the stagings that met
another publisher in their directory, or during which a file went bad.  Callers
never set the cancellation flag, so it is left out; what an archive may hold that
is refused is one failure, `ExtractFails`.

### 2.8 DisplaySession

The viewer's session thread (`viewer`, `status`), the three sockets with both
their ends (`control`, `frame`, `input`), the broker's shared state and its three
threads (`bk`, `ctl`, `serve`, `cap`), the session process (`proc`) and the two
queues between them (`peerq`, `askq`), and the key on the input device.  An action
of a thread is what it does between two waits or under one hold of the broker's
lock.  The two framebuffers alternate and are not torn; an input event is on the
device in one step; the cursor and the clipboard, audio and tray daemons are left
out, so nothing is assumed of `BrokerExits`, which joins their threads.

### 2.9 FrameStream, TileCodec

`out` is the output: two framebuffers, the pointer, the number of commits and the
damage of the last.  `cap` is the capture thread's `SnapshotGenerations`, `queue`
what it sends, `pipe` the session process's pipeline and encoder, `tail` what is
owed to the socket, `sock` the socket, `video` the viewer's decoder and `shown`
its texture.  A tile's pixels are two bits, what was painted and whether the
pointer is over it, so that a delta XORed onto the wrong base shows.  `age` counts
for how many encoded frames a tile has differed from what was captured.  A record
that a change of size cuts off in the middle (`resize` clears the tail, of which a
part may be on the socket) is a record nobody can read.  Sequence numbers wrap at
`Sequences32`.  Kernel modules without generations, and hotspot tables, are left
out.

`TileCodec` writes the pure half as operators over small numbers: bytes are cells,
the four bytes of a pixel one cell, a varint has `Bits` bits to the byte and a
word of `Word` bits, a run at most `MaxRun` pixels.  `write_tile` takes the
shortest method; the model takes any, which is more than the code does.

## 3. The runs

| Run | Instance | Checks | Shows |
|---|---|---|---|
| `registry_use` | 2 names, 3 starts, `join_all` at any moment | `NothingLost`, `HandedOverInOrder`, `OnlyLateIsLost`, `StartsEnd`, `HandoverSpec` | the registry loses, doubles and reorders nothing while the application runs, implements `Handover`, never keeps the application from leaving, and then loses only what is stored after `join_all` looked |
| `lifecycle_events` | 1 VM, 2 runs, queue of 1, one other event; start, stop, delete; failing opens, watches, binds, launches, spawns, listings, service | `TypeOK`, `QueuedEventsAreCurrent`, `DeletedHasNothing`, `LateExitsSpareTheHandle` | stale events are harmless to the handle, a full queue included, and a delete decided on an old row lets nothing come back |
| `lifecycle_restart` | 1 VM, 2 runs, VMLord left or killed once | `LateExitsSpareTheAgent`, `AgentsEnd`, `LiveRunsAreHeld` | connections end with their run, and a run that goes on is found again |
| `lifecycle_windows` | 1 VM; guest powers off, forced stop, reboot, console | `WindowsEnd` | windows are closed in all of these |
| `records_use` | 2 VMs, 3 endpoints, one fault or kill; create, cancel, start, edit, delete, exit, report | `RecordsAreTrue`, `ForgottenLeavesNothing`, `RunningKeepsItsEndpoint`, `StartsFailForAReason` | whole-mapping writes of three threads, failures and kills leave record, endpoint, system, files, disk and port in agreement, but for a VM that a rollback could not stop |
| `records_edit` | 1 VM, one edit of two modes | `EditsTakeEffect` (violated) | finding 1 |
| `agent_link` | 4 guests, 2 callers, 2 sockets, one fault | `LinkIsSound`, `ProbesFindTheGuestIdle`, `FactsAreTheGuests`, `AskedIsAnswered`, `LinkComesBack` | requests end with their session, a working guest is not probed, the versions shown are the guest's, and the link comes back |
| `guest_update` | 3 kinds of guest, with and without services in the payload, 2 faults, one reboot | `ReportsAreTrue`, `CleanRecipeEquips`, `StampVouches` | outcomes are true, a clean recipe repairs what faults left, the stamp never lies |
| `payload_staging` | 1 VM, 2 jobs, 3 stagings, one fault; a program and its unit with one temporary name | `VouchersHold`, `AloneSucceeds`, `GuestSeesOneGeneration`, `StagingEnds` | markers and manifests vouch for what is there, two publishers at once included; an Ok for what the directory holds, with one at a time; no leftover but a conflicting marker keeps a later staging from succeeding |
| `display_session` | 2 sessions, 2 commits, one fault of ten kinds | `SessionsAgree`, `PictureKeepsUp`, `ChannelsComeBack`, `SessionEnds` | threads and processes that come and go agree on the session, and nothing of a closed window stays but a key that was forgotten |
| `frame_stream` | 2 tiles, 3 changes, 2 sizes, one fault; grids up to 4x4, words of 5 bits, tiles of 7 pixels | `StreamIsSound`, `NoTileStaysBehind`, `CodecIsExact`, `PictureArrives` | the decoder follows the encoder and the window ends up with the picture; the codec's operators round-trip |
| `image_fetch` | 2 downloaders, 2 chunks, 2 faults | `VerifiedIsHeld`, `RetriesSucceed` | what is verified is not written to before it is published, and neither failures nor refusals keep later fetches from succeeding |

Where several parts make one statement about a module, the run checks their
conjunction, and the parts keep their names and comments in the module:

| Checked | Its parts |
|---|---|
| `StartsEnd` | `EventuallyTaken`: every start is unlisted; `LeavingEnds`: leaving ends |
| `RecordsAreTrue` | `TypeOK`; `EditsTakeEffect`; `PortsAgree`: the recorded SSH port is the one the guest's configuration names; `DiskHoldsItsRecord`: the disk is no smaller than recorded |
| `LinkIsSound` | `TypeOK`; `WaitingMeansOnline`: nobody waits on a link without a session |
| `ReportsAreTrue` | `TypeOK`; `KeepsItsPromise`: every outcome says what the guest runs; `GoodReportIsTrue`; `RebootFinishes`: an orderly reboot finishes what it was asked for |
| `VouchersHold` | `TypeOK`; `ReadyMeansWhole`: a marker vouches for a whole generation; `ManifestIsBacked`: a manifest for files that are there; `StagedIsPublished`: an Ok for the directory as it is, if no other publisher was in it |
| `SessionsAgree` | `TypeOK`; `SnapshotsMatch`: a snapshot reaches the session and buffers it was taken for; `PeerKnowsTheSession`; `NoKeyStaysDown`: while the first process lives, no key is down without an input channel |
| `StreamIsSound` | `TypeOK`; `DecoderFollows`: the decoder holds the encoder's reference |
| `CodecIsExact` | `SelectionReaches`, `VarintsAreWords`, `TilesComeBack`, `FramesComeBack` |

*Bounds.*  In `Lifecycle` every hazard needs at most a run and the one after it,
so `MaxRuns = 2`; windows need one.  VMs interact only through the event queue,
the order of a refresh and the generation counter, so the runs have one VM, whose
other event (`noise`) fills the queue as another VM's would; the proofs are for
any number of VMs.  `Capacity` is 256 in the code; 1 makes a full queue happen
with a single other event, 2 is enough to hold what a VM can queue between two
drains.  Three starts over two names let a second start of one name end before
the first is taken.
For the image, two chunks tell an empty, a partial, a whole and an overlong file
apart; three files are as many as two names and a handle of each of two
downloaders need at once; two faults let a failure follow a wrong chunk or a
damaged cache.
In `VmRecords` three endpoints are the recorded one, the one that replaces it and
one more after a kill; two VMs share the document, one of them with all its
operations and the other built and reporting its desktop beside it; one fault is
any one failed call or one kill.  A report of a VM that runs is left out: finding
6.
In `AgentLink` two sockets are a session and the connection that replaces it, a
third is accepted only when one is free again; one fault is one late answer,
crash, silent loss, broken listener or dropped connection.  In `GuestUpdate` two
faults let a failure meet what an earlier kill left.  In `PayloadStaging` three
stagings let a pair race, after a fault or into one, and be followed by one more;
two releases are as many as a change needs, and two files besides the manifest are
a program and the unit that shares its temporary name.  The lock of the cache and the lock of a VM's
generation are taken one after the other and never together, so two VMs race in
the cache as two jobs of one VM do.
In `DisplaySession` a second session shows what the first left; a change of size
counts as a fault.  In `FrameStream` two tiles tell a hinted tile from one that
only the sweep reaches, three changes let two commits be displaced or one be
missed, and the socket holds one record, so that backpressure happens.
`SelectionReaches` takes edges on both sides of a tile, of the frame and of the
largest word; `TilesComeBack` tiles longer than two runs; `VarintsAreWords` every
sequence of bytes one longer than a word needs.

*Deadlock* is checked except where the system may really stop:
`lifecycle_events`, where a failed listing ends all refreshing, the registry run,
where the bound on starts is reached or the application has left, and the runs of
`VmRecords`, `AgentLink`, `PayloadStaging`, `DisplaySession` and `FrameStream`,
where the bounded requests, sessions and changes have all been made and nothing is
left to do.

*Fairness.*  `Lifecycle`: the window asks for a refresh once a second
(`AUTO_REFRESH_INTERVAL`, `src/crates/ui/src/lib.rs`) and a refresh is
straight-line code: `WF(ListReads)`, `WF(Refreshing)`.  Start and request workers
wait on HCS with timeouts and end in success or failure: `WF(StartWorker)`,
`WF(AskAnswered \/ AskFails)`.  HCS calls a registered callback when its system
exits: `WF(DeliverExit)`.  A process that is leaving has only joins of such
threads to do: `WF(Left)`.  Nothing is assumed of users, guests or crashes, nor
that VMLord is ever started again.  No run with a liveness property allows a
failing listing, failing opens or watches, or a disconnecting service: with them
the code promises nothing (it says so to the user) until VMLord is started again.
`ImageCache`: `WF(Work)` says that a fetch goes on where it waits for nobody or
with a timeout.  Nothing is assumed of the body, which has no timeout.
`AgentLink`: each thread keeps running (`WF` on what the host's thread opens, on
what it reads, on the guest's work, on the deadlines of a peer that is gone), and
the session's loop takes a replacement, an update and a reboot in turn between
two frames, so none is passed over for ever (`SF`).  `VmRecords` and `GuestUpdate`
have no liveness and assume none.
`PayloadStaging`: each staging thread goes on; a lock is polled, so that it ends
because the number of stagings is bounded.  `DisplaySession`: one `WF` for each
thread, and `SF` for the two channels that `Live::pump` reads in turn.
`FrameStream`: capture, the session process's two halves and the viewer go on.

`LateExitsSpareTheAgent` is checked without the `open` fault on purpose.  When
`hold_started_system` cannot open the new system the previous handle stays and
with it the previous generation, so a late exit is not superseded and ends the
new run's connection; the code reports the failed open.

*Mutants.*  Each property of a passing run has a mutant, an operator defined just
before the definition it replaces, that breaks the property: a reap whose
products are dropped, generations that are not compared, a delete that keeps the
handle, a rollback that is called an update, damage that is trusted after a commit
nobody read, and so on.

## 4. Findings

One disagreement has a run of its own:

1. `update_vm` records the network mode, the GPU mode and the SSH port by three
   functions that each write the whole mapping it read: an edit of two of them is
   accepted and keeps the last (`repository.rs:1604`; the comment at `:1568` knows
   the same hazard for the disk's size).

The others are listed as hazards.  For each the module states the property, and
TLC finds the counterexample under the constants given here:

| | Property | Under | What the code does |
|---|---|---|---|
| 2 | `StartRegistry!JoinAllCollects` | 4 starts | `join_all` collects from an entry before it waits for its thread, against "Waits for every start and collects what they produced." (`start_registry.rs:144`) |
| 3 | `Lifecycle!WindowsEnd` | `Operations = {"start", "stop", "display"}`, 1 run, `FairSpec` | a stop from VMLord drops the watch when the request is answered: the exit is never delivered and the window stays, against `src/ARCHITECTURE.md:3571` |
| 4 | `Lifecycle!WindowsWereOffered`, `SessionsOfferTheirShares` | `{"start", "display"}`, 2 runs | a drained exit forgets `gpu_runs`, also what the next start has recorded, and leaves `display_runs` (`gpu_runs.rs:78`, `display_runs.rs:123`) |
| 5 | `Lifecycle!AnswersGiveUpTheirRun` | `{"start", "stop"}`, 2 runs | the answer to a stop is collected by VM and not by run (`repository.rs:492`) |
| 6 | `VmRecords!RunningKeepsItsEndpoint` | start, exit and report of one VM, one kill | `record_installed_desktops` writes back the mapping it read before the start recorded the endpoint; the next VMLord collects the endpoint of the running VM as an orphan (`repository.rs:744`) |
| 7 | `ImageCache!OnlyVerifiedIsReturned` | 2 downloaders, no faults | the second opens the `.part` before the first renames it, locks it when the first has returned, takes the final name for a rival's copy and empties its own file, which is that one (`download.rs:133`, against `:31` and `:117`) |
| 8 | `GuestUpdate!CleanUpdateUpdates` | a payload with services, no faults | `verify_services` compares services that are installed only after it, so the update is rolled back (`display_kernel.rs:1839`, against `:1826` and `:2184`) |
| 9 | `PayloadStaging!StagedIsPublished` without `troubled` | 2 jobs, 2 stagings, no faults | `target.with_extension("vmlord-partial")` gives a program and its unit one temporary name (`staging.rs:142`): of two publishers of one VM, one renames the other's file to its own name, or copies over the other's hard link and so into the cache, and both answer Ok |
| 10 | `PayloadStaging!AloneSucceeds` without its exception | one marker replaced by another's | a ready marker that can be read and names another payload is refused with `ConflictingGeneration`, every time, while one that cannot be read is quarantined (`staging.rs:714`; the test at `:1356` asks for it) |
| 11 | `VmRecords!RunningKeepsItsEndpoint` without `adrift` | one VM built and cancelled beside a writer, one fault | `roll_back` goes on when `force_stop` fails, and `force_stop` fails on a document another thread is writing (`force_stop.rs:68`); if the system's teardown fails too, the endpoint is deleted all the same (`delete.rs:92`) and the VM runs without it |
| 12 | `DisplaySession!SessionEnds` without `KeyForgotten` | the session process dies once with a key down | what is pressed is known to the process alone (`session_main.rs:862`) while the device is the broker's (`broker_main.rs:377`): the next process, with an empty record, never releases it |

Also met on the way, and set apart in a property by name: a port move that a kill
cuts in two (`PortsAgree`, `cut`), what a kill leaves of a build
(`ForgottenLeavesNothing`, `debris`), an update's answer recorded after its
session ended (`FactsAreTheGuests`, `late`), a module that runs and
that DKMS lists, which `needs_build` takes for installed when a re-signing has left
the old file in its place (`CleanRecipeEquips` speaks of recipes that built the
module or found it in place), an input channel dialled again at
the generation it had (`ChannelsComeBack`, `InputSpent`), a session opened at a
size that has changed (`PictureKeepsUp`, `LeftAtOldSize`), a second frame channel
that is never announced (`announced` is never cleared, `live.rs:377`: the window
says "reconnecting" over frames that arrive), a channel bound on a still
screen that gets no snapshot until something changes (`PictureArrives`), and a
record that a change of size cuts off, which costs the viewer its channel and not
one frame (`DecoderFollows`; `session_main.rs:609`).

## 5. What is proved

For every value of the constants allowed by the assumptions
(`ConstantsAssumption`: finitely many VMs, natural bounds, a queue with room for
one event, known faults and operations; `NamesAssumption`,
`MaxStartsAssumption`: finitely many names, a natural bound on starts; in
`ImageCache` an image of at least one chunk; in `FrameStream` at least one tile
and one sequence number, and a refresh interval of at least one; in `GuestUpdate`
one of the two orders DKMS may list versions in, and a `None` that is no version;
in `PayloadStaging` payloads that declare a file besides their manifest, as
`DisplayManifest` demands; in `VmRecords` finitely many VMs and endpoints, disks of
at least one unit, and `None`, `Torn` and `"main"` told apart from mappings,
documents and VMs; in `AgentLink` finitely many callers, each of an update or of a
reboot, a `None` that is neither a caller nor a socket, and guests of the three builds
of the agent; in `DisplaySession` at least one session, one commit and one size):

| Theorem | Statement |
|---|---|
| `LifecycleProofs!TypeCorrect` | `Spec => []TypeOK`, the queue's capacity included |
| `LifecycleProofs!QueueIsCurrent` | `Spec => []QueuedEventsAreCurrent` |
| `LifecycleProofs!DeletedStaysDeleted` | `Spec => []DeletedHasNothing` |
| `LifecycleProofs!LateExitsSpare` | `Spec => LateExitsSpareTheHandle` |
| `LifecycleProofs!LateExitsSpareAgents` | `OpensWork /\ Spec => LateExitsSpareTheAgent`, where `OpensWork` says that `"open"` is not among the faults |
| `StartRegistryProofs!TypeCorrect` | `Spec => []TypeOK` |
| `StartRegistryProofs!ProductsSurvive` | `Spec => []NothingLost` |
| `StartRegistryProofs!ProductsInOrder` | `Spec => []HandedOverInOrder` |
| `StartRegistryProofs!LeavingLosesTheLate` | `Spec => OnlyLateIsLost` |
| `StartRegistryProofs!Implements` | `Spec => HandoverSpec` |
| `CacheProofs!ImageTypeCorrect` | `ImageSpec => []ImageTypeOK` |
| `CacheProofs!VerifiedStaysHeld` | `ImageSpec => []VerifiedIsHeld` |
| `CacheProofs!AloneReturnsVerified` | `Alone /\ ImageSpec => OnlyVerifiedIsReturned`, where `Alone` says there is one downloader |
| `FrameStreamProofs!TypeCorrect` | `Spec => []TypeOK` |
| `FrameStreamProofs!DecoderFollowsEncoder` | `Spec => []StreamIsSound` |
| `FrameStreamProofs!SweepReachesEveryTile` | `Spec => []NoTileStaysBehind` |
| `GuestUpdateProofs!ReportsHold` | `Spec => []ReportsAreTrue` |
| `GuestUpdateProofs!CleanRecipesEquip` | `Spec => []CleanRecipeEquips` |
| `GuestUpdateProofs!StampsVouch` | `Spec => []StampVouches` |
| `CacheProofs!TypeCorrect` | `Spec => []TypeOK` |
| `CacheProofs!VouchersAreBacked` | `Spec => []VouchersHold`, for any sharing of temporary names; what an Ok says, for publishers that met no other |
| `CacheProofs!AloneAlwaysSucceeds` | `Spec => []AloneSucceeds`, the conflicting marker excepted |
| `CacheProofs!RecipesSeeOneGeneration` | `Spec => []GuestSeesOneGeneration`: its first half under one publisher at a time, its second under any |
| `VmRecordsProofs!TypeCorrect` | `Spec => []TypeOK` |
| `VmRecordsProofs!RecordsStayTrue` | `Spec => []RecordsAreTrue`, assuming `OneRecordPerEdit`: no edit changes two of network, GPU and port |
| `VmRecordsProofs!PortsAndDisksHold` | `Spec => [](PortsAgree /\ DiskHoldsItsRecord)`, whatever the edits change |
| `VmRecordsProofs!ForgottenIsGone` | `Spec => []ForgottenLeavesNothing` |
| `VmRecordsProofs!StartsFailForReasons` | `Spec => StartsFailForAReason` |
| `VmRecordsProofs!EndpointsOfRunningStay` | `Spec /\ [][DesktopKeepsEndpoint /\ RollbackStops]_vars => [](RunningKeepsItsEndpoint /\ adrift = {})`: the endpoint of a running VM can be lost in two ways only |
| `AgentLinkProofs!LinkInvariant` | `Spec => []Inv`, the inductive invariant the next three rest on |
| `AgentLinkProofs!LinkStaysSound` | `Spec => []LinkIsSound`, the types included |
| `AgentLinkProofs!ProbesFindIdle` | `Spec => []ProbesFindTheGuestIdle` |
| `AgentLinkProofs!FactsStayTheGuests` | `Spec => []FactsAreTheGuests` |
| `DisplaySessionProofs!SessionInvariant` | `Spec => []Inv`, the inductive invariant the next one rests on |
| `DisplaySessionProofs!SessionsStayInAgreement` | `Spec => []SessionsAgree`, the types included |

*Lifecycle.*  `TypeOK` alone is not inductive: a creation numbers its run
`run[v] + 1`, which has a type only because a start that has not created its
system found `run[v] < MaxRuns` (`BoundsInv`).  `FreshInv` says that a process
which has not initialized has nothing of the one before it, which is what lets
`Initialize` number generations from one.  `HandleInv` is the heart of the events'
argument: generations given out are below `nextGen`, a handle's run is not in
the future, and an exit that is still owed to a watch, or queued under the
generation held now, is of a run that is over.  So an exit that drains against
the handle of a live run must carry another generation and is superseded, which
is `LateExitsSpare`; and since a drain empties the queue and every handle given
up or replaced outside a drain is so in the refresh or right before one, nothing
stale is queued when the refresh is over, which is `QueueIsCurrent`.
`RowsInv` and `DeletedInv` carry the delete: a row that says "stopped" was
labelled when no start of the VM was listed, and everything parked by then has
been adopted by the refresh that follows, so when a delete is accepted on it
nothing waits to be handed over; and a deleted VM is given nothing any more.
Each of these was first checked by TLC as an
invariant of the instances above.
`AgentInv`, which `LateExitsSpareAgents` adds, needs `OpensWork` (see the end of
section 3): when the agent connection is of the VM's latest run and the VM is
running, the handle is of that run too or the run's product still waits to be
adopted.  It has to say so of a product half adopted as well, because `AdoptHolds`
and `AdoptListens` are two steps and the compute system may be replaced between
them.  In a drain nothing waits any more, so the handle is the live run's and
`HandleInv` says that the exit is superseded.  TLC checked `AgentInv` with one VM,
start, stop, force stop and delete, three kinds of fault, two runs and a restart
(6.5 million states) before it was proved.

*StartRegistry.*  `EntriesInv` ties the entry, its ticket and its outcome cell
together; `TicketsInv` says every product queued or taken has a smaller ticket
than the entry of its name, and `OrderInv` that the queue is in order, which is
why a reap may visit the entries in any order: two products in one reap are of
two names.  The refinement maps a start to `active` while its worker runs and
its product to `parked` from the moment it is stored; `join_all` is where
`Handover` lets a product be abandoned, and nowhere else.  `CellsInv`, what an
entry's start has produced is in its cell until `join_all` has been there, lets
`LeavingLosesTheLate` say which: the product of a thread that is being waited for.

*ImageCache.*  `HandleInv` says that a downloader past `try_lock` holds the lock
of the file it has open; two such downloaders are therefore on two files, and
none of them writes to what another has verified (`VerifiedInv`).  That is all
the lock gives: which name the file has is another matter, and finding 7.
`AloneInv` adds what a downloader without rivals knows of the names: its file is
what `.part` names and no image is in the cache until it publishes one.

*FrameStream.*  `TInv` adds to the types that the commits made and left are
bounded and that what is owed is whole.  `StreamIsSound` replays what is owed
through the decoder, which is a recursive function of the stream; no step of the
model changes only its last value, so the invariant `Follows` speaks of a run
instead: there is a sequence of decoder states from the one the viewer has to one
that agrees with the encoder, each the result of the record between them, which
none of them refuses.  A record appended, taken from the head or cut off at the end
is then one state more or fewer (`LeadsOn` and its companions), and that the
recursive function is that run (`ViewsAre`) is proved by a least counterexample
(`Least`, from the well-foundedness of the naturals).  For the sweep, `SInv` counts:
the slices the sweep has still to pass before tile `t`, and one slice for each frame
in which `t` was behind, are fewer than the tiles; a tile that stayed behind for
`refresh_interval` frames would leave the sweep more than a round.

*GuestUpdate.*  What a job promises at its end is the sum of what twenty-odd stages
did, so the invariant `UInv` says for each stage what holds once it is no longer
due.  A plan only loses stages from its front: `Ordered` (by `Rank`) and `Segment`
say that what is left is a final piece of the plan, so that "still due" and "done"
are one fact each.  There are seven phases: no job (`Resting`), a recipe before and
after it decided to build (`Preparing`, `Recipes`), an update before and after its
module was verified (`Trying`, `Verified`), a rollback (`RollingBack`) and a job that
ended early (`Over`).  `GuestOK` holds of the guest in every phase, across kills and
resets: DKMS lists a version as installed exactly when its file is in place, and who
has an old module was asked for it.  That a clean recipe equips follows from
`Recipes` when nothing is due; that an update reports what runs from `Verified` and
`Over`.  The proof showed that the ghost of an earlier version of the model, which
set apart the recipes that skip a build, hid one more way into the same state, and
the property now names the state.  A `dkms install` that fails inside a re-signing,
whose result the code ignores (`display_kernel.rs:923`), is not modelled.

*PayloadStaging.*  Even the types need `Filed`: the file a publisher takes next is a
file only because the manifest is still to come.  `Locked` says that who stages a
generation holds its lock, so that no two stagers touch one VM's copy; with it
`Ready` says that whoever takes a generation away has withdrawn its marker.  The
active directory has no lock.  What protects it is that all stagers that run are of
the installed release (`Current`), so that each only ever puts there a file of that
release, whole or not, and that the manifest comes last: `Publishers` says that all
but what a publisher has yet to rename is there.  That is as much as two publishers
leave of it, since they share temporary names.  `Sole` is what one knows that met
no other: what it takes from the cache, what lies under the temporary name and what
it has renamed are whole, which is what `StagedIsPublished` and a calm recipe need.
`Undisturbed` is what a stager
knows that had no company and no fault since it began, among others that the cache
is whole from its second verification on and nothing is in the way of its links; `Reading` relates a recipe's checked
files to the directory through every rename.

*VmRecords.*  Three threads read a VM's mapping, keep the copy, and write it back
whole: the worker that starts it, the edit and the refresh.  The invariant therefore
says of every copy what the properties say of the document.  For one VM `v`,
`Stages(v)` says which threads can be at it together and when there is a mapping,
`Remains(v)` what a creation has not made yet or a removal has removed, `Ports(v)`
and `Disks(v)` that each copy which will still be written back has the guest's port
and fits the disk.  A step of one VM leaves the others' mapping, files and threads
alone although it rewrites their document (`Apart`), so each step is argued for one
VM.  A copy's port never goes stale because an edit of a VM excludes its worker and
the UI thread that edits is the one that refreshes.  Accepted edits need
`OneRecordPerEdit`: with two such fields the second record is made from the copy
before the first, which is what `records_edit` shows.  `EInv` follows an edit field by
field under that hypothesis.  For the starts, `EndpointsApart` says that no two VMs
name an endpoint in common, in the document, a configuration, a system or any copy;
`SecondTry` that a start made again is on an endpoint HNS does not hold.  Only the
exit of the VM that has an endpoint makes HNS hold it, and that VM is the start's
own, which is not running.  TLC checked the invariants first: `TInv`, `RInv`, `EInv`
and `EndpointsApart` with `SecondTry` on `records_use`'s instance; `TInv` and `RInv`
also on one VM with every operation, every set of edited fields and two faults, and
the last two on two VMs that both start, exit and report, with two faults.
`RunningKeepsItsEndpoint` does not hold of every behaviour.  `EndpointsOfRunningStay`
says exactly which steps break it: a desktop written back from a list that is older
than the endpoint (finding 6; `DesktopKeepsEndpoint` excludes it), and the rollback of
a build whose VM could not be stopped and whose system could not be removed, which
deletes the endpoint all the same (finding 11; `RollbackStops` excludes the first of
these two failures, a failed call or a document that could not be read).  The property
sets such VMs apart as `adrift`, and under the hypotheses there are none
(`NoneAdrift`).  Where neither happens the endpoint stays, through kills at any step, torn
documents, replaced endpoints and failed deletions.  Its invariant `AInv` follows the
endpoint from the start that makes it: it is in HNS before it is recorded, recorded
before the system is built with it, and a VM that already runs is on the recorded one,
so that a second start finds it and makes no other (`StartInv`, `RunInv`); an edit
writes back the endpoint it read, which is still the recorded one (`CopyInv`); and no
start is under way when orphans are collected (`FreshInv`).  `EndpointsApart` keeps
what one VM's worker or deletion deletes from being another's.  TLC checked `AInv`
under the two hypotheses with one VM, all operations and two faults,
and with two VMs that start, exit, report and are deleted, with two faults, before it
was proved; without either one of the hypotheses it finds a VM that runs without its
endpoint.  On `records_use`'s instance the VM that reports is off the network and
a VM that a rollback could not stop is set apart, so the run needs no hypothesis.

*AgentLink.*  The three properties relate what the host has pending to what the guest
is doing at the other end of a pair of queues, so the invariant follows each request
as a token.  `Tokens` says of every connection the host holds (the session's, a
candidate's, the backlog's) that a request is in one place only, on its way down, with
the guest or answered and on its way up, and that it is one the session has pending; a
connection that is no session's carries none.  `Waits` keeps the pending ones to one a
lane (GPU, display, base protocol), and says that a probe is outstanding only when
nothing is pending and that whoever waits has its request with the session.
`ProbesFindIdle` is then immediate: what the guest works at is pending.  `Ends` is what
keeps connections apart, since a socket is used again: everything held has its host
end open and is held once, and an agent connects through a socket whose host end is
closed.  For the version on display, `Reports` says that the reports on their way up
name what the guest has, which holds because a report on the way and a display
request at work would be two of one lane; `Facts` is the property with "nothing
pending" weakened to "nothing of the display pending".  An update worker records its
answer once more, and late: `Answers` says that an answer it has not recorded is still
what the guest has, because no other update is queued, parked or in flight, and that
rests on `Line`: updates are asked for one at a time, so a caller that still waits is the
last in its queue, whoever gave up in front of it.  TLC checked the invariant on
`agent_link`'s instance, on one with two updates and on one with two faults (1.6
million states) before it was proved.

*DisplaySession.*  `SessionsAgree` reads the queue from the broker to the session
process as what the process will know after each message; the specification says it
with a `CHOOSE` of the last message that opened or closed a session.  The proof says the
same with quantifiers only (`InSession`, `Maps`; `SessionOfIs` and `MappedAfterIs` show
that it is the same), so that a message appended (`ComesTurn`, `ComesSide`,
`ComesSnapshot`) and a message read (`ComesRead`) each have one lemma.  What is
inductive is `PeerFollows`: all that is on its way brings the process from what it has
to the broker's session with every buffer of `sent` mapped.  A snapshot is sent without
its descriptor when its buffer is in `sent`, so this is what makes each of them find its
buffer; but an introduction that came after a snapshot would take the mappings away.
It never does: `AskOrder` says that processes are read in the order they came and each
begins with its attach, and `AttachFirst` that until the broker has read that attach it
has sent its peer nothing and capture works for no request of it.  `Incarnations` keeps
the process, the broker's peer, its reader and capture's request in step, and says that a
process which is not the peer has been told nothing.  For the keys, `FirstProcess` says
that the first process is never handed the devices again, and then every step that
ends the input channel releases what is down; a later one is handed them twice, and
of it nothing is said.  The proof also showed that an
earlier version of `AdoptPeer`, which took the process that is alive, could wait for ever
behind the connection of one that had died waiting; the code accepts connections in the
order they were made, and now the model does.  TLC checked the invariant with two
sessions and two faults of five kinds (5 million states) before it was proved.

*Only model-checked.*  Liveness (`StartsEnd`, `AgentsEnd`,
`LiveRunsAreHeld`, `WindowsEnd`, `RetriesSucceed`, `AskedIsAnswered`,
`LinkComesBack`, `StagingEnds`, `PictureKeepsUp`, `ChannelsComeBack`,
`SessionEnds`, `PictureArrives`) is out of the prover's reach.
`CodecIsExact` is about `TileCodec`, whose coders are recursive operators over
streams: what they compute for every input is out of the prover's reach.

## 6. Not modelled, and the plan

What is left, in the order of what it would add:

1. `Lifecycle` against `Handover` for its starts.
2. The application's own update: its fetch and verification follow `ImageCache`.
3. SSH sessions and the COM1 reader: processes started, reaped and cancelled by
   VM, as the consoles of `Lifecycle` are.
4. The clipboard, audio and tray daemons of the guest's session.

Not planned: disk and document formats (`vhd.rs`, `hcs_config.rs`, `seed`,
`qcow2`), rendering and cursor images, the window's layout, settings, logging and
diagnostics, and the packaging tools: they compute values from values, or only
format and write them.  They, and the tests beside all of the code, are most of
the repository's lines.

## 7. Running

    tlc -config LifecycleEvents.cfg MCLifecycle
    tlc -config FrameStream.cfg MCFrameStream
    tlapm LifecycleProofs.tla
    tlapm CacheProofs.tla
