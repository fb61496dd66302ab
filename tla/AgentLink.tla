----------------------------- MODULE AgentLink -----------------------------
(***************************************************************************)
(* One VM's agent link: the thread that serves the agent of a running VM   *)
(* (agent.rs serve, agent_session.rs), the agent inside the guest (main.rs *)
(* and session.rs of crates/agent), the connections between them, and the  *)
(* callers that ask the guest for a display payload update or a reboot     *)
(* (agent.rs DisplayUpdateChannel, RebootChannel; repository.rs            *)
(* update_display_payload).                                                *)
(*                                                                         *)
(* Both peers are one thread each: a frame is read, served to the end and  *)
(* answered before the next is read.  A timeout that fires on a peer which *)
(* would have answered is a fault and is bounded; one that fires on a peer *)
(* that is gone is not.                                                    *)
(***************************************************************************)
EXTENDS DisplayPayload, Naturals, Sequences, FiniteSets

CONSTANTS
  MaxConns,    \* bound on the sockets in use at once
  Asks,        \* callers
  AskKind,     \* caller -> "update" or "reboot"
  Guests,      \* a run's guest: its installed agent, whether its secret is the
               \* host's, and the shares the start prepared
  MaxFaults    \* bound on late answers, dead processes, broken sockets and
               \* the connection being dropped

ASSUME LinkAssumption ==
  /\ MaxConns \in Nat /\ IsFiniteSet(Asks)
  /\ None \notin 1..MaxConns /\ None \notin Asks
  /\ AskKind \in [Asks -> {"update", "reboot"}]
  /\ Guests \subseteq [build : {"current", "old", "alien"}, key : BOOLEAN,
                        offer : SUBSET {"gpu", "display"}]
  /\ MaxFaults \in Nat

\* A socket is used again once both ends have let go of it.
Conns == 1..MaxConns

VARIABLES
  conns,    \* connection -> its two ends and the frames between them
  backlog,  \* connections the listener holds, not yet accepted
  h,        \* the host's agent thread and the session it serves
  online,   \* AgentConnection::online
  running,  \* AgentConnection::running
  queue,    \* the `updates` and `reboots` channels
  asks,     \* caller -> what it asked for and where that stands
  facts,    \* DisplayRuns: the version the guest last said it has loaded
  guest,    \* the agent process and the machine it runs on
  disp,     \* the guest's display module (DisplayPayload)
  faults,   \* faults so far
  late      \* history: an update worker recorded an earlier session's answer

vars == <<conns, backlog, h, online, running, queue, asks, facts, guest, disp,
          faults, late>>

-----------------------------------------------------------------------------
(* The protocol: handshake.rs, envelope.rs. *)

\* What each build of the agent announces in its hello.
Builds == {"current", "old", "alien"}
VersionOf(b) == [major |-> IF b = "alien" THEN 2 ELSE 1,
                 minor |-> IF b = "old" THEN 7 ELSE 9]
CapabilitiesOf(b) == IF b = "old" THEN {} ELSE {"gpu", "display"}

CurrentVersion == [major |-> 1, minor |-> 9]
HostCapabilities == {"gpu", "display"}
RebootRequestRevision == 9

NegotiateVersion(local, remote) ==
  IF local.major # remote.major
  THEN None
  ELSE [major |-> local.major,
        minor |-> IF local.minor < remote.minor THEN local.minor ELSE remote.minor]

AgreedCapabilities(local, remote) == local \cap remote

\* AgentSession: what a session agreed on when it opened.
NoSession == [minor |-> 0, caps |-> {}]
Sessions == [minor : {0, 7, 9}, caps : SUBSET HostCapabilities]

\* The requests of the host, in the order of their request ids.
Jobs == {"attach_gpu", "gpu_recipe", "gpu_probe", "attach_display",
         "display_recipe", "update", "reboot"}
\* The display requests need the capability, the GPU requests theirs; a
\* reboot is base protocol.
CapabilityFor(k) == IF k \in {"attach_gpu", "gpu_recipe", "gpu_probe"} THEN {"gpu"}
                    ELSE IF k = "reboot" THEN {} ELSE {"display"}

\* A frame: a request of the host carries its job; its answer how that came out
\* and the version it reports as loaded.
Frame(k) == [k |-> k, job |-> None, out |-> None, p |-> None]
JobFrame(job) == [Frame("job") EXCEPT !.job = job]
Done(m, out, p) == [m EXCEPT !.k = "done", !.out = out, !.p = p]

NoConn == [up |-> <<>>, down |-> <<>>, g |-> "closed", h |-> FALSE, agreed |-> NoSession]

-----------------------------------------------------------------------------
(* State. *)

HostSteps == {"listen", "hello", "proof", "online", "serve",
              "cand_hello", "cand_proof", "drain", "backoff", "ended"}

\* `pend` are the requests in flight, `probe` that a liveness probe is,
\* `parked` the ask that waits for its answer; `upd` and `reb` the callers
\* of the update and the reboot in flight; `exit` how the session ended.
HostAt(pc) == [pc |-> pc, conn |-> None, cand |-> None, pend |-> {}, probe |-> FALSE,
               parked |-> None, upd |-> None, reb |-> None, exit |-> None]

GuestSteps == {"off", "start", "replace", "away", "hello", "auth", "serve", "busy", "dead"}

\* A caller that was refused, cut off, answered in full or gave up is "over".
AskStates == {"idle", "waiting", "answered", "over"}
Over == [st |-> "over", p |-> None, old |-> FALSE]
\* `old`: the session that answered has ended since.
NoAsk == [st |-> "idle", p |-> None, old |-> FALSE]

Live(c) == conns[c].g = "open"
Idle(c) == /\ conns[c].up = <<>>
           /\ conns[c].g # "closed"
Reads(c) == conns[c].up # <<>>
Gone(c) == ~Reads(c) /\ conns[c].g = "closed"
\* The requests a session starts with.
Attaches(agreed) ==
  {k \in {"attach_gpu", "attach_display"} :
     /\ CapabilityFor(k) \subseteq agreed.caps
     /\ CapabilityFor(k) \subseteq guest.offer}

Waiting(a) == asks[a].st = "waiting"

TypeOK ==
  /\ DOMAIN conns = Conns
  /\ \A c \in Conns : /\ conns[c].g \in {"open", "closed", "lost"}
                      /\ conns[c].h \in BOOLEAN
                      /\ conns[c].agreed \in Sessions
  /\ \A i \in DOMAIN backlog : backlog[i] \in Conns
  /\ h.pc \in HostSteps /\ h.conn \in Conns \cup {None} /\ h.cand \in Conns \cup {None}
  /\ h.pend \subseteq Jobs /\ h.probe \in BOOLEAN
  /\ h.parked \in Asks \cup {None} /\ {h.upd, h.reb} \subseteq Asks \cup {None}
  /\ online \in BOOLEAN /\ running \in BOOLEAN
  /\ \A i \in DOMAIN queue.update : queue.update[i] \in Asks
  /\ \A i \in DOMAIN queue.reboot : queue.reboot[i] \in Asks
  /\ \A a \in Asks : asks[a].st \in AskStates
  /\ guest.pc \in GuestSteps /\ guest.run \in Builds
  /\ guest.bin \in Builds \cup {"missing"} /\ guest.conn \in Conns \cup {None}
  /\ disp \in Loaded
  /\ faults \in 0..MaxFaults

Init ==
  /\ conns = [c \in Conns |-> NoConn]
  /\ backlog = <<>>
  /\ h = HostAt("listen")
  /\ online = FALSE /\ running = TRUE
  /\ queue = [update |-> <<>>, reboot |-> <<>>]
  /\ asks = [a \in Asks |-> NoAsk]
  /\ facts = None
  \* `offer`: the shares this run of the VM was prepared with.
  /\ \E g \in Guests :
       guest = [pc |-> "off", conn |-> None, hb |-> FALSE, job |-> None, run |-> g.build,
                bin |-> g.build, key |-> g.key, offer |-> g.offer, down |-> FALSE]
  /\ disp = None
  /\ faults = 0
  /\ late = FALSE

Fault == /\ faults < MaxFaults
         /\ faults' = faults + 1

-----------------------------------------------------------------------------
(* The two ends of a connection: frame.rs, hvsocket.rs. *)

Sent(c, frames) ==
  [conns EXCEPT ![c].down = IF Live(c) THEN @ \o frames ELSE @]
Received(c) == [conns EXCEPT ![c].up = Tail(@)]
\* Read the head of `up` and answer it.
Exchanged(c, frames) ==
  [conns EXCEPT ![c].up = Tail(@), ![c].down = IF Live(c) THEN @ \o frames ELSE @]
HostClosed(c) ==
  [conns EXCEPT ![c] = IF @.g = "open" THEN [@ EXCEPT !.h = FALSE, !.up = <<>>] ELSE NoConn]
GuestEnds(c, how) ==
  [conns EXCEPT ![c] = IF @.h THEN [@ EXCEPT !.g = how, !.down = <<>>] ELSE NoConn]

\* A read that gives up: the peer is gone, or it is late, which is a fault.
TimesOut(c) == IF Live(c) THEN Fault ELSE UNCHANGED faults

-----------------------------------------------------------------------------
(* The host's thread outside a session: agent.rs serve. *)

hostOnly == <<backlog, online, running, queue, asks, facts, guest, disp, late>>

\* AgentListener::accept: the first connection that waits, or the end.
Accept ==
  /\ h.pc = "listen" /\ running
  /\ backlog # <<>>
  /\ h' = [h EXCEPT !.pc = "hello", !.conn = Head(backlog)]
  /\ backlog' = Tail(backlog)
  /\ UNCHANGED <<conns, online, running, queue, asks, facts, guest, disp, faults, late>>

\* The connection being opened: the next session's, or a candidate's.
Opening == IF h.pc \in {"cand_hello", "cand_proof"} THEN h.cand ELSE h.conn
InCandidate == h.pc \in {"cand_hello", "cand_proof"}

\* A connection that did not open: a backoff, or back to the session.
OpeningFailed ==
  /\ conns' = HostClosed(Opening)
  /\ h' = IF InCandidate THEN [h EXCEPT !.pc = "serve", !.cand = None]
          ELSE [h EXCEPT !.pc = "backoff", !.conn = None]

\* greet: the hello is answered with what both speak, and challenged.
Greet ==
  /\ h.pc \in {"hello", "cand_hello"} /\ running
  /\ Reads(Opening)
  /\ LET hello   == Head(conns[Opening].up)
         version == NegotiateVersion(CurrentVersion, VersionOf(hello.out))
     IN \/ /\ version # None
           /\ LET agreed == [minor |-> version.minor,
                             caps |-> AgreedCapabilities(HostCapabilities, CapabilitiesOf(hello.out))]
                  sent == Exchanged(Opening, <<Frame("hello_ok"), Frame("challenge")>>)
              IN conns' = [sent EXCEPT ![Opening].agreed = agreed]
           /\ h' = [h EXCEPT !.pc = IF InCandidate THEN "cand_proof" ELSE "proof"]
        \/ /\ version = None
           \* The refusal goes out and the socket after it.
           /\ conns' = [conns EXCEPT ![Opening] =
                          IF @.g = "open"
                          THEN [@ EXCEPT !.h = FALSE, !.up = <<>>,
                                         !.down = Append(conns[Opening].down, Frame("error"))]
                          ELSE NoConn]
           /\ h' = IF InCandidate THEN [h EXCEPT !.pc = "serve", !.cand = None]
                   ELSE [h EXCEPT !.pc = "backoff", !.conn = None]
  /\ UNCHANGED <<hostOnly, faults>>

\* authenticate: a tag that verifies opens the session; a candidate's ends the
\* session it replaces.
Authenticate ==
  /\ h.pc \in {"proof", "cand_proof"} /\ running
  /\ Reads(Opening)
  /\ \/ /\ Head(conns[Opening].up).out = "ok"
        /\ conns' = Received(Opening)
        /\ h' = IF InCandidate THEN [h EXCEPT !.pc = "drain", !.exit = "replaced"]
                ELSE [h EXCEPT !.pc = "online"]
     \/ /\ Head(conns[Opening].up).out # "ok"
        /\ OpeningFailed
  /\ UNCHANGED <<hostOnly, faults>>

\* read_opening_frame: nothing came inside OPEN_TIMEOUT or
\* REPLACEMENT_OPEN_TIMEOUT, or the peer closed, or VMLord is stopping.
OpeningFails ==
  /\ h.pc \in {"hello", "proof", "cand_hello", "cand_proof"}
  /\ \/ running /\ Idle(Opening) /\ TimesOut(Opening)
     \/ /\ ~running \/ Gone(Opening)
        /\ UNCHANGED faults
  /\ OpeningFailed
  /\ UNCHANGED hostOnly

\* The gate opens, and the session starts with what the VM is to be given.
GoOnline ==
  /\ h.pc = "online"
  /\ online' = TRUE
  /\ LET first == Attaches(conns[h.conn].agreed)
         gpu == IF "attach_gpu" \in first THEN <<JobFrame("attach_gpu")>> ELSE <<>>
         display == IF "attach_display" \in first
                    THEN <<JobFrame("attach_display")>> ELSE <<>>
     IN /\ conns' = Sent(h.conn, gpu \o display)
        /\ h' = [h EXCEPT !.pc = "serve", !.pend = first, !.probe = FALSE]
  /\ UNCHANGED <<backlog, running, queue, asks, facts, guest, disp, faults, late>>

\* Mutant: the channels keep what was asked of the session that ended.
DrainedGateOnly ==
  [asks |-> [a \in Asks |-> IF a \in {h.parked, h.upd, h.reb} /\ Waiting(a)
                            THEN Over
                            ELSE [asks[a] EXCEPT !.old = asks[a].st = "answered"]],
   queue |-> queue]

\* set_offline_and_cancel_requests: every answer channel the session held, or
\* would have been given, is dropped, and its caller told so.
Drained ==
  LET cut == {h.parked, h.upd, h.reb} \cup {queue.update[i] : i \in DOMAIN queue.update}
               \cup {queue.reboot[i] : i \in DOMAIN queue.reboot}
  IN [asks |-> [a \in Asks |-> IF a \in cut /\ Waiting(a)
                               THEN Over
                               ELSE [asks[a] EXCEPT !.old = asks[a].st = "answered"]],
      queue |-> [update |-> <<>>, reboot |-> <<>>]]

\* What follows the session: the replacement's own, a backoff, or the end.
SessionEnds ==
  /\ h.pc = "drain"
  /\ online' = FALSE
  /\ asks' = Drained.asks /\ queue' = Drained.queue
  /\ conns' = HostClosed(h.conn)
  /\ h' = CASE h.exit = "replaced" -> [HostAt("online") EXCEPT !.conn = h.cand]
            [] h.exit = "broken"   -> HostAt("ended")
            [] OTHER               -> HostAt("backoff")
  /\ UNCHANGED <<backlog, running, facts, guest, disp, faults, late>>

\* wait_before_offering_again, and the top of the loop.
OfferAgain ==
  /\ h.pc = "backoff"
  /\ h' = HostAt("listen")
  /\ UNCHANGED <<conns, hostOnly, faults>>

\* The thread ends and the listener with it: running is false, or accept failed.
ThreadEnds ==
  /\ h.pc = "listen"
  /\ \/ ~running /\ UNCHANGED faults
     \/ Fault
  /\ h' = HostAt("ended")
  /\ UNCHANGED <<conns, hostOnly>>

\* A listener that is gone refuses what it held.
ListenerCloses ==
  /\ h.pc = "ended" /\ backlog # <<>>
  /\ conns' = HostClosed(Head(backlog))
  /\ backlog' = Tail(backlog)
  /\ UNCHANGED <<h, online, running, queue, asks, facts, guest, disp, faults, late>>

\* AgentConnection::drop, from AgentSessions::cancel, cancel_all and insert.
Cancel ==
  /\ running /\ Fault
  /\ running' = FALSE
  /\ UNCHANGED <<conns, backlog, h, online, queue, asks, facts, guest, disp, late>>

-----------------------------------------------------------------------------
(* A session: agent_session.rs serve_with_timing.  A frame is read first;   *)
(* everything else happens when a read times out with nothing to read.      *)

Serving == h.pc = "serve" /\ running
HeadUp == Head(conns[h.conn].up)
Gets(job) == /\ Serving /\ Reads(h.conn)
             /\ HeadUp.k = "done" /\ HeadUp.job = job

sessionOnly == <<backlog, online, running, queue, guest, disp, faults, late>>

\* answer: a guest's heartbeat.
AnswerHeartbeat ==
  /\ Serving /\ Reads(h.conn)
  /\ HeadUp.k = "hb"
  /\ conns' = Exchanged(h.conn, <<Frame("hb_ok")>>)
  /\ UNCHANGED <<h, sessionOnly, asks, facts>>

\* The answer to `job` is in, and `next` is sent after it.
Proceed(job, next) ==
  /\ h' = [h EXCEPT !.pend = (@ \ {job}) \cup next]
  /\ conns' = Exchanged(h.conn, IF next = {} THEN <<>>
                                ELSE <<JobFrame(CHOOSE k \in next : TRUE)>>)

\* report_mounts, apply_recipe: the recipe is asked for whatever was mounted.
GpuAttached ==
  /\ Gets("attach_gpu")
  /\ Proceed("attach_gpu", {"gpu_recipe"})
  /\ UNCHANGED <<sessionOnly, asks, facts>>

\* report_recipe: every stage is done or was skipped.
RecipeFinished(m) == m.out = "ok"

\* A recipe that stopped is the end of the guest's GPU.
GpuRecipeApplied ==
  /\ Gets("gpu_recipe")
  /\ IF RecipeFinished(HeadUp)
     THEN Proceed("gpu_recipe", {"gpu_probe"})
     ELSE Proceed("gpu_recipe", {})
  /\ UNCHANGED <<sessionOnly, asks, facts>>

\* report_probe: the guest's verdict, which no request of the link waits for.
GpuProbed ==
  /\ Gets("gpu_probe")
  /\ Proceed("gpu_probe", {})
  /\ UNCHANGED <<sessionOnly, asks, facts>>

\* report_display_mount: mounted now, or by an earlier session.
Mounted(m) == m.out = "ok"

\* Mutant: a share that was not mounted stays a request in flight.
DisplayAttachedKept ==
  /\ Gets("attach_display")
  /\ IF Mounted(HeadUp)
     THEN Proceed("attach_display", {"display_recipe"}) /\ UNCHANGED facts
     ELSE /\ conns' = Received(h.conn) /\ UNCHANGED h
          /\ facts' = None
  /\ UNCHANGED <<sessionOnly, asks>>

\* No payload, no recipe, and nothing known of what the guest has.
DisplayAttached ==
  /\ Gets("attach_display")
  /\ IF Mounted(HeadUp)
     THEN Proceed("attach_display", {"display_recipe"}) /\ UNCHANGED facts
     ELSE /\ Proceed("attach_display", {})
          /\ facts' = None
  /\ UNCHANGED <<sessionOnly, asks>>

\* report_display_recipe: the version goes to DisplayRuns, a failed stage or not.
RecipeRecorded(m) == m.p

DisplayRecipeApplied ==
  /\ Gets("display_recipe")
  /\ Proceed("display_recipe", {})
  /\ facts' = RecipeRecorded(HeadUp)
  /\ UNCHANGED <<sessionOnly, asks>>

\* Mutant: only the caller learns what an update came to.
UpdateNotRecorded(m) == facts

\* report_display_update: recorded whether or not the caller still waits.
UpdateRecorded(m) == m.p

\* A caller that gave up has dropped its end.
Told(a, p) ==
  [x \in Asks |-> IF x = a /\ Waiting(a) THEN [asks[x] EXCEPT !.st = "answered", !.p = p]
                  ELSE asks[x]]

UpdateAnswered ==
  /\ Gets("update")
  /\ h' = [h EXCEPT !.pend = @ \ {"update"}, !.upd = None]
  /\ conns' = Received(h.conn)
  /\ facts' = UpdateRecorded(HeadUp)
  /\ asks' = Told(h.upd, HeadUp.p)
  /\ UNCHANGED sessionOnly

\* Accepted or refused: the guest that answers is the one about to go down.
RebootAnswered ==
  /\ Gets("reboot")
  /\ h' = [h EXCEPT !.pend = @ \ {"reboot"}, !.reb = None]
  /\ conns' = Received(h.conn)
  /\ asks' = Told(h.reb, None)
  /\ UNCHANGED <<sessionOnly, facts>>

\* start_update and start_reboot, when the probe is answered.
StartUpdate(a) ==
  /\ h' = [h EXCEPT !.probe = FALSE, !.parked = None, !.pend = @ \cup {"update"}, !.upd = a]
  /\ conns' = Exchanged(h.conn, <<JobFrame("update")>>)
  /\ UNCHANGED asks

\* A guest that cannot be asked to reboot is not.
StartReboot(a) ==
  IF conns[h.conn].agreed.minor < RebootRequestRevision
  THEN /\ h' = [h EXCEPT !.probe = FALSE, !.parked = None]
       /\ conns' = Received(h.conn)
       /\ asks' = Told(a, None)
  ELSE /\ h' = [h EXCEPT !.probe = FALSE, !.parked = None, !.pend = @ \cup {"reboot"}, !.reb = a]
       /\ conns' = Exchanged(h.conn, <<JobFrame("reboot")>>)
       /\ UNCHANGED asks

ProbeAnswered ==
  /\ Serving /\ Reads(h.conn) /\ HeadUp.k = "hb_ok"
  /\ h.probe
  /\ IF h.parked = None
     THEN /\ h' = [h EXCEPT !.probe = FALSE]
          /\ conns' = Received(h.conn)
          /\ UNCHANGED asks
     ELSE IF AskKind[h.parked] = "update" THEN StartUpdate(h.parked)
          ELSE StartReboot(h.parked)
  /\ UNCHANGED <<sessionOnly, facts>>

-----------------------------------------------------------------------------
(* The session's idle turns. *)

IdleTurn == Serving /\ Idle(h.conn)

\* Mutant: a session with requests in flight is not replaced.
ReplaceableWhenIdle == h.pend = {} /\ ~h.probe

\* A candidate is looked at on every idle turn.
Replaceable == TRUE

ReplacementReady ==
  /\ IdleTurn /\ Replaceable
  /\ backlog # <<>>
  /\ h' = [h EXCEPT !.pc = "cand_hello", !.cand = Head(backlog)]
  /\ backlog' = Tail(backlog)
  /\ UNCHANGED <<conns, online, running, queue, asks, facts, guest, disp, faults, late>>

\* SessionError::Unresponsive.
Unresponsive ==
  /\ IdleTurn
  /\ h.probe
  /\ TimesOut(h.conn)
  /\ h' = [h EXCEPT !.pc = "drain", !.exit = "closed"]
  /\ UNCHANGED <<conns, hostOnly>>

\* Mutant: an update in flight does not keep a second ask from being taken.
HasPendingWorkButUpdate == h.pend \ {"update"} # {}

HasPendingWork == h.pend # {}

\* The socket is free for the host's next request.
Free == IdleTurn /\ ~h.probe /\ ~HasPendingWork

Probe(a) ==
  /\ h' = [h EXCEPT !.probe = TRUE, !.parked = a]
  /\ conns' = Sent(h.conn, <<Frame("hb")>>)

\* An update is taken before a reboot, and proves the guest alive first.
TakeUpdate ==
  /\ Free /\ queue.update # <<>>
  /\ queue' = [queue EXCEPT !.update = Tail(@)]
  /\ IF "display" \in conns[h.conn].agreed.caps
     THEN Probe(Head(queue.update)) /\ UNCHANGED asks
     ELSE /\ asks' = Told(Head(queue.update), None)
          /\ UNCHANGED <<h, conns>>
  /\ UNCHANGED <<backlog, online, running, facts, guest, disp, faults, late>>

TakeReboot ==
  /\ Free /\ queue.update = <<>> /\ queue.reboot # <<>>
  /\ queue' = [queue EXCEPT !.reboot = Tail(@)]
  /\ Probe(Head(queue.reboot))
  /\ UNCHANGED <<backlog, online, running, asks, facts, guest, disp, faults, late>>

\* idle_before_probe has passed with no frame from the guest.
SendLivenessProbe ==
  /\ Free /\ queue.update = <<>> /\ queue.reboot = <<>>
  /\ Probe(None)
  /\ UNCHANGED <<hostOnly, faults>>

\* The guest closed, VMLord is stopping, or the listener broke under a poll
\* for a candidate.
SessionBreaks ==
  /\ h.pc = "serve"
  /\ \/ /\ ~running \/ Gone(h.conn)
        /\ h' = [h EXCEPT !.pc = "drain", !.exit = "closed"]
        /\ UNCHANGED faults
     \/ /\ IdleTurn /\ Fault
        /\ h' = [h EXCEPT !.pc = "drain", !.exit = "broken"]
  /\ UNCHANGED <<conns, hostOnly>>

-----------------------------------------------------------------------------
(* The callers: DisplayUpdateChannel::ask, RebootChannel::ask and the worker *)
(* of update_display_payload.                                                *)

callerOnly == <<conns, backlog, h, online, running, guest, disp, faults>>

\* The gate is read and the channel written under one lock.  A VM has one
\* update at a time.
Ask(a) ==
  /\ asks[a].st = "idle"
  /\ AskKind[a] = "update" =>
       \A b \in Asks : AskKind[b] = "update" => asks[b].st \notin {"waiting", "answered"}
  /\ asks' = [asks EXCEPT ![a] = IF online THEN [NoAsk EXCEPT !.st = "waiting"] ELSE Over]
  /\ queue' = IF online THEN [queue EXCEPT ![AskKind[a]] = Append(@, a)] ELSE queue
  /\ UNCHANGED <<callerOnly, facts, late>>

\* UPDATE_TIMEOUT or REBOOT_TIMEOUT: the caller is told, and what it asked for
\* stays where it is.
GiveUp(a) ==
  /\ Waiting(a)
  /\ asks' = [asks EXCEPT ![a] = Over]
  /\ UNCHANGED <<callerOnly, queue, facts, late>>

\* The worker records the answer once more, whatever was recorded since.
RecordAnswer(a) ==
  /\ asks[a].st = "answered"
  /\ asks' = [asks EXCEPT ![a] = Over]
  /\ IF AskKind[a] = "update"
     THEN /\ facts' = asks[a].p
          /\ late' = (late \/ asks[a].old)
     ELSE UNCHANGED <<facts, late>>
  /\ UNCHANGED <<callerOnly, queue>>

-----------------------------------------------------------------------------
(* The agent in the guest: main.rs, self_update.rs, session.rs. *)

guestOnly == <<h, online, running, queue, asks, facts, late>>

\* The unit starts the agent, if there is one.
Boot ==
  /\ guest.pc = "off"
  /\ guest' = [guest EXCEPT !.pc = IF guest.bin = "missing" THEN "dead" ELSE "start",
                            !.run = IF guest.bin = "missing" THEN @ ELSE guest.bin]
  /\ disp' \in Loaded
  /\ UNCHANGED <<guestOnly, conns, backlog, faults>>

\* self_update::apply: nothing to install, or the agent it runs from removed.
SelfUpdate ==
  /\ guest.pc = "start"
  /\ \/ guest' = [guest EXCEPT !.pc = "away"]
     \/ /\ guest.run # "current"
        /\ guest' = [guest EXCEPT !.pc = "replace", !.bin = "missing"]
  /\ UNCHANGED <<guestOnly, conns, backlog, disp, faults>>

\* replace_if_different's write: the agent makes way for the one it wrote, or
\* goes on as a process whose file is gone.
SelfUpdateWrite ==
  /\ guest.pc = "replace"
  /\ \/ /\ guest' = [guest EXCEPT !.pc = "start", !.bin = "current", !.run = "current"]
        /\ UNCHANGED faults
     \/ /\ Fault
        /\ guest' = [guest EXCEPT !.pc = "away"]
  /\ UNCHANGED <<guestOnly, conns, backlog, disp>>

\* connect_to_host, and the hello of session.rs greet.
Connect(c) ==
  /\ guest.pc = "away" /\ ~guest.down
  /\ h.pc # "ended"
  /\ conns[c] = NoConn /\ \A d \in 1..(c - 1) : conns[d] # NoConn
  /\ conns' = [conns EXCEPT ![c] = [NoConn EXCEPT !.g = "open", !.h = TRUE,
                                      !.up = <<[Frame("hello") EXCEPT !.out = guest.run]>>]]
  /\ backlog' = Append(backlog, c)
  /\ guest' = [guest EXCEPT !.pc = "hello", !.conn = c]
  /\ UNCHANGED <<guestOnly, disp, faults>>

HeadDown == Head(conns[guest.conn].down)
GuestReads == guest.conn # None /\ conns[guest.conn].down # <<>>
GuestIdle == /\ guest.conn # None /\ conns[guest.conn].down = <<>>
             /\ conns[guest.conn].h

\* The next frame is consumed and answered.
Replies(frames) ==
  conns' = [conns EXCEPT ![guest.conn].down = Tail(@),
                         ![guest.conn].up = IF conns[guest.conn].h THEN @ \o frames ELSE @]

\* greet and authenticate: what the host agreed to is confirmed, and its
\* challenge answered with this guest's secret.
GuestGreeted ==
  /\ guest.pc = "hello" /\ GuestReads /\ HeadDown.k = "hello_ok"
  /\ Replies(<<>>)
  /\ guest' = [guest EXCEPT !.pc = "auth"]
  /\ UNCHANGED <<guestOnly, backlog, disp, faults>>

GuestAuthenticates ==
  /\ guest.pc = "auth" /\ GuestReads /\ HeadDown.k = "challenge"
  /\ Replies(<<[Frame("proof") EXCEPT !.out = IF guest.key THEN "ok" ELSE "failed"]>>)
  /\ guest' = [guest EXCEPT !.pc = "serve"]
  /\ UNCHANGED <<guestOnly, backlog, disp, faults>>

\* A session that is over for the guest: a refusal, the host's close, or a
\* read that timed out while the session opened.
GuestSessionEnds ==
  /\ guest.pc \in {"hello", "auth", "serve"}
  /\ \/ GuestReads /\ HeadDown.k = "error" /\ UNCHANGED faults
     \/ ~GuestReads /\ ~conns[guest.conn].h /\ UNCHANGED faults
     \/ guest.pc # "serve" /\ GuestIdle /\ Fault
     \/ guest.pc = "serve" /\ guest.hb /\ GuestIdle /\ Fault
  /\ conns' = GuestEnds(guest.conn, "closed")
  /\ guest' = [guest EXCEPT !.pc = "away", !.conn = None, !.hb = FALSE]
  /\ UNCHANGED <<guestOnly, backlog, disp>>

\* serve: a read timed out, so the host is asked whether it is there.  Thirty
\* idle seconds are long enough for the host to have read what it was sent.
GuestHeartbeat ==
  /\ guest.pc = "serve" /\ GuestIdle /\ ~guest.hb
  /\ conns[guest.conn].up = <<>>
  /\ conns' = [conns EXCEPT ![guest.conn].up = Append(@, Frame("hb"))]
  /\ guest' = [guest EXCEPT !.hb = TRUE]
  /\ UNCHANGED <<guestOnly, backlog, disp, faults>>

GuestAnswersHeartbeat ==
  /\ guest.pc = "serve" /\ GuestReads /\ HeadDown.k \in {"hb", "hb_ok"}
  /\ Replies(IF HeadDown.k = "hb" THEN <<Frame("hb_ok")>> ELSE <<>>)
  /\ guest' = [guest EXCEPT !.hb = @ /\ HeadDown.k = "hb"]
  /\ UNCHANGED <<guestOnly, backlog, disp, faults>>

\* A request whose capability was agreed on is carried out to its end.
GuestBegins ==
  /\ guest.pc = "serve" /\ GuestReads /\ HeadDown.k = "job"
  /\ CapabilityFor(HeadDown.job) \subseteq conns[guest.conn].agreed.caps
  /\ Replies(<<>>)
  /\ guest' = [guest EXCEPT !.pc = "busy", !.job = HeadDown]
  /\ UNCHANGED <<guestOnly, backlog, disp, faults>>

\* What each handler may come to: its answer and the payload it leaves.
Results(job) ==
  CASE job \in {"attach_gpu", "gpu_probe"} -> {<<"ok", disp>>}
    [] job \in {"gpu_recipe", "attach_display"} -> {"ok", "failed"} \X {disp}
    [] job = "display_recipe" ->
         {"ok"} \X Loaded
    [] job = "update" -> {r \in Outcomes \X Loaded : UpdatePromise(disp, r[1], r[2])}
    [] job = "reboot" -> {"ok", "failed"} \X {disp}

\* The handler returns and its report goes out.
GuestFinishes ==
  /\ guest.pc = "busy"
  /\ \E r \in Results(guest.job.job) :
       LET reports == guest.job.job \in {"display_recipe", "update"}
       IN /\ conns' = [conns EXCEPT ![guest.conn].up =
                         IF conns[guest.conn].h
                         THEN Append(@, Done(guest.job, r[1], IF reports THEN r[2] ELSE None))
                         ELSE @]
          /\ disp' = r[2]
          /\ guest' = [guest EXCEPT !.pc = "serve", !.job = None,
                                    !.down = @ \/ (guest.job.job = "reboot" /\ r[1] = "ok")]
  /\ UNCHANGED <<guestOnly, backlog, faults>>

\* The reboot it queued takes the agent down, and its connection with it.
GuestGoesDown ==
  /\ guest.down
  /\ conns' = IF guest.conn = None THEN conns ELSE GuestEnds(guest.conn, "closed")
  /\ guest' = [guest EXCEPT !.pc = "off", !.conn = None, !.hb = FALSE, !.job = None, !.down = FALSE]
  /\ UNCHANGED <<guestOnly, backlog, disp, faults>>

\* A handler that is cut short may leave anything its failure may.
CutShort == IF guest.pc = "busy" /\ guest.job.job \in {"display_recipe", "update"}
            THEN Loaded ELSE {disp}

\* The guest is reset under the agent, and the host's end of the connection
\* never hears of it.
GuestDies ==
  /\ guest.pc # "off" /\ Fault
  /\ conns' = IF guest.conn = None THEN conns ELSE GuestEnds(guest.conn, "lost")
  /\ disp' \in CutShort
  /\ guest' = [guest EXCEPT !.pc = "off", !.conn = None, !.hb = FALSE, !.job = None, !.down = FALSE]
  /\ UNCHANGED <<guestOnly, backlog>>

\* The agent's process ends and its unit starts it again.
AgentDies ==
  /\ guest.pc \in {"away", "hello", "auth", "serve", "busy"} /\ Fault
  /\ conns' = IF guest.conn = None THEN conns ELSE GuestEnds(guest.conn, "closed")
  /\ disp' \in CutShort
  /\ guest' = [guest EXCEPT !.pc = IF guest.bin = "missing" THEN "dead" ELSE "start",
                            !.run = IF guest.bin = "missing" THEN @ ELSE guest.bin,
                            !.conn = None, !.hb = FALSE, !.job = None]
  /\ UNCHANGED <<guestOnly, backlog>>

-----------------------------------------------------------------------------
\* What each thread does.  It takes one of the steps of a group at a time, by
\* where it stands or by the frame it reads.
HostOpens ==
  \/ Accept \/ Greet \/ Authenticate \/ OpeningFails \/ GoOnline \/ SessionEnds
  \/ OfferAgain \/ ThreadEnds \/ ListenerCloses
HostReads ==
  \/ AnswerHeartbeat \/ GpuAttached \/ GpuRecipeApplied \/ GpuProbed
  \/ DisplayAttached \/ DisplayRecipeApplied \/ UpdateAnswered \/ RebootAnswered
  \/ ProbeAnswered
GuestWorks ==
  \/ Boot \/ SelfUpdate \/ SelfUpdateWrite \/ (\E c \in Conns : Connect(c))
  \/ GuestGreeted \/ GuestAuthenticates \/ GuestSessionEnds
  \/ GuestAnswersHeartbeat \/ GuestBegins \/ GuestFinishes \/ GuestGoesDown

HostStep ==
  \/ HostOpens \/ HostReads \/ SessionBreaks \/ Unresponsive \/ ReplacementReady
  \/ TakeUpdate \/ TakeReboot \/ SendLivenessProbe
GuestStep == GuestWorks \/ GuestHeartbeat

CallerStep ==
  \E a \in Asks : Ask(a) \/ GiveUp(a) \/ RecordAnswer(a)

Next ==
  \/ HostStep \/ GuestStep \/ CallerStep
  \/ Cancel \/ GuestDies \/ AgentDies

\* Each peer's thread runs; nothing makes a caller give up.  The host polls its
\* socket every 250 ms and the guest sends a heartbeat after 30 idle seconds,
\* so that heartbeats do not keep the host from its idle turns (SF).
Fairness ==
  /\ WF_vars(HostOpens /\ UNCHANGED faults) /\ WF_vars(HostReads)
  /\ WF_vars(GuestWorks /\ UNCHANGED faults)
  /\ WF_vars(SessionBreaks /\ UNCHANGED faults)
  /\ WF_vars(Unresponsive /\ UNCHANGED faults) /\ WF_vars(SendLivenessProbe)
  /\ SF_vars(ReplacementReady) /\ SF_vars(TakeUpdate) /\ SF_vars(TakeReboot)

Spec == Init /\ [][Next]_vars /\ Fairness

-----------------------------------------------------------------------------
(* Properties. *)

\* Nobody waits on a link without a session: when a session ends, whatever it
\* had been given or would have been given is dropped, and a caller that finds
\* the gate open has its request in front of the session that opened it.
WaitingMeansOnline == \A a \in Asks : Waiting(a) => online

\* A probe never finds the guest at work: a guest serves one request at a time
\* and could not answer it inside the probe's five seconds, so the session of a
\* guest in the middle of a build would be given up.
ProbesFindTheGuestIdle ==
  h.pc = "serve" /\ h.probe /\ guest.conn = h.conn => guest.pc # "busy"

\* The two ends serve each other.
Linked == /\ h.pc \in {"serve", "cand_hello", "cand_proof"}
          /\ guest.conn = h.conn /\ guest.pc \in {"serve", "busy"}

\* With nothing in flight, the version the host shows as loaded is the one the
\* guest has, or none: whatever was cut short, given up on or rolled back, the
\* session's own reports corrected it.  An update worker that records an
\* answer after its session ended is set apart (`late`).
FactsAreTheGuests ==
  Linked /\ h.pend = {} /\ ~late /\ "display" \in guest.offer
    /\ "display" \in conns[h.conn].agreed.caps
    => facts \in {None, disp}

\* Every request is answered or its caller told that the session ended, by the
\* link alone: no caller has to wait for its own deadline.  (A caller asks
\* once, so that "eventually" is "eventually for good".)
AskedIsAnswered == <>[](\A a \in Asks : ~Waiting(a))

\* Dropping a connection joins its thread, which ends from wherever it is; as
\* long as it is not dropped, a guest whose agent can speak to this host and
\* prove its secret ends up with a session, after every crash, reboot and
\* silent loss of a connection.
CanSpeak == guest.key /\ guest.run # "alien" /\ guest.pc # "dead"
LinkComesBack == <>[](h.pc = "ended" \/ (running /\ (CanSpeak => Linked)))

\* The host's view of the link is sound: its state has its shape, and a caller
\* that waits has a session to wait for (agent.rs serve, DisplayUpdateChannel).
LinkIsSound == TypeOK /\ WaitingMeansOnline
=============================================================================
