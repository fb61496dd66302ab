--------------------------- MODULE DisplaySession ---------------------------
(***************************************************************************)
(* A display session over its three sockets.  The viewer (display-viewer   *)
(* main.rs, live.rs, status.rs) opens control, relays a handshake that     *)
(* VMLord runs, and binds the frame and the input socket.  The broker      *)
(* (display-services broker_main.rs, control.rs) serves control, owns the  *)
(* output and the input devices, and hands each session to the session     *)
(* process (session_main.rs), which binds the other two sockets, asks for  *)
(* frames one at a time and puts input on the devices.                     *)
(*                                                                         *)
(* The broker is three threads over one lock: control, the peer's reader   *)
(* and capture.  Each action of a thread is what it does between two       *)
(* waits or under one hold of the lock.  Everything may fail: a socket may *)
(* drop, the process may die, capture may lose the output, VMLord may go.  *)
(***************************************************************************)
EXTENDS Naturals, Sequences, FiniteSets

CONSTANTS
  MaxSessions,  \* bound on the handshakes the viewer asks for
  MaxCommits,   \* bound on what the compositor commits
  MaxFaults,    \* bound on faults, a change of size among them
  Faults,       \* the kinds of fault
  Sizes         \* sizes the compositor commits at

ASSUME DisplayAssumption ==
  /\ MaxSessions \in Nat \ {0} /\ MaxCommits \in Nat \ {0} /\ MaxFaults \in Nat
  /\ Faults \subseteq {"frame", "input", "control", "process", "capture", "parent",
                       "slow", "renderer", "budget", "resize"}
  /\ IsFiniteSet(Sizes) /\ Sizes # {}

VARIABLES
  screen,   \* the compositor's last commit and its size
  viewer,   \* the session thread of the viewer
  status,   \* what its window says
  parent,   \* whether VMLord still holds the launch pipes
  control,  \* the control connections, one per handshake
  frame,    \* the frame socket: its two ends and what is in it
  input,    \* the input socket
  bk,       \* what the broker's threads share
  ctl,      \* its control thread
  serve,    \* its reader of the session process
  cap,      \* its capture thread
  proc,     \* the session process
  peerq,    \* broker to process
  askq,     \* process to broker
  key,      \* the key on the uinput device: up, held, or held unknown to anyone
  faults    \* faults so far

vars == <<screen, viewer, status, parent, control, frame, input, bk, ctl, serve,
          cap, proc, peerq, askq, key, faults>>

None == 0
Sids == 1..MaxSessions
Buffer(n) == n % 2      \* the compositor's two framebuffers

Fault(kind) == kind \in Faults /\ faults < MaxFaults /\ faults' = faults + 1

-----------------------------------------------------------------------------
(* The window's status machine. *)

Statuses == {"Waiting", "Authenticating", "Running", "Reconnecting", "Failed"}
Retrying == {"Waiting", "Authenticating", "Reconnecting"}

\* Progress::on.  A VM that stops closes the window and is left out.
On(event) ==
  IF event = "Retry" THEN "Waiting"
  ELSE IF event = "NoParent" \/ status = "Failed" THEN "Failed"
  ELSE CASE event = "Connected" -> "Authenticating"
         [] event = "Established" -> "Running"
         [] event \in {"ChannelLost", "ControlLost"} -> "Reconnecting"

\* Progress::tick: thirty seconds in a state that retries.
BudgetExpires ==
  /\ Fault("budget") /\ status \in Retrying
  /\ status' = "Failed"
  /\ UNCHANGED <<screen, viewer, parent, control, frame, input, bk, ctl, serve, cap,
                 proc, peerq, askq, key>>

-----------------------------------------------------------------------------
(* Sockets. *)

\* `since` is the commit on the screen when the socket was bound.
Closed == [host |-> FALSE, guest |-> FALSE, since |-> 0, q |-> <<>>]
Bound(since, records) == [host |-> TRUE, guest |-> TRUE, since |-> since, q |-> records]

\* A socket without an end is normalised once nobody holds it.
HostCloses(socket) == IF socket.guest THEN [socket EXCEPT !.host = FALSE] ELSE Closed
GuestCloses(socket) == IF socket.host THEN [socket EXCEPT !.guest = FALSE] ELSE Closed

NoConnection == [made |-> FALSE, closed |-> {}, toGuest |-> <<>>, toHost |-> <<>>]

\* An end of a control connection closes: what was on its way to it is lost.
HostLeaves(sid, last) ==
  [control EXCEPT ![sid].closed = @ \cup {"host"}, ![sid].toHost = <<>>,
     ![sid].toGuest = IF "guest" \in control[sid].closed THEN <<>> ELSE @ \o last]
GuestLeaves(sid, last) ==
  [control EXCEPT ![sid].closed = @ \cup {"guest"}, ![sid].toGuest = <<>>,
     ![sid].toHost = IF "host" \in control[sid].closed THEN <<>> ELSE @ \o last]

-----------------------------------------------------------------------------
(* The viewer. *)

\* Live::new.
NewLive(sid) ==
  [pc |-> "live", sid |-> sid, dial |-> "none", fgen |-> 1, igen |-> 1,
   announced |-> FALSE, picture |-> 0]

\* spawn_session and refresh: another attempt, with a hello VMLord answers with.
\* The attempt's sockets are dropped with it.
Restarted ==
  /\ control' = HostLeaves(viewer.sid, <<>>)
  /\ frame' = HostCloses(frame) /\ input' = HostCloses(input)
  /\ IF parent /\ viewer.sid < MaxSessions
     THEN /\ viewer' = [NewLive(viewer.sid + 1) EXCEPT !.pc = "connect"]
          /\ status' = On("Retry")
     ELSE /\ viewer' = [NewLive(viewer.sid) EXCEPT !.pc = "over"]
          /\ status' = IF parent THEN On("Retry") ELSE On("NoParent")

\* attempt and connect_control: the control socket opens and the hello is written.
Connect ==
  /\ viewer.pc = "connect" /\ bk.up
  /\ viewer' = [viewer EXCEPT !.pc = "relay"]
  /\ control' = [control EXCEPT ![viewer.sid] =
                   [NoConnection EXCEPT !.made = TRUE, !.toGuest = <<"hello">>]]
  /\ status' = On("Connected")
  /\ UNCHANGED <<screen, parent, frame, input, bk, ctl, serve, cap, proc, peerq, askq, key,
                 faults>>

Conn == control[viewer.sid]

\* Relay::run: the guest's hello and proof go up to VMLord, whose proof comes
\* down with the hand-over.  Any other record fails the handshake.
RelayRecord ==
  /\ viewer.pc = "relay" /\ Conn.toHost # <<>>
  /\ UNCHANGED <<screen, parent, bk, ctl, serve, cap, proc, peerq, askq, key, faults>>
  /\ IF Head(Conn.toHost) = "hello" /\ parent
     THEN /\ viewer' = NewLive(viewer.sid)
          /\ control' = [control EXCEPT ![viewer.sid].toGuest = Append(@, "auth"),
                                        ![viewer.sid].toHost = Tail(@)]
          /\ UNCHANGED <<status, frame, input>>
     ELSE Restarted

\* The guest closed the connection, or the deadline passed: a broker that has
\* stopped accepting leaves the hello unread.
RelayFails ==
  /\ viewer.pc = "relay" /\ Conn.toHost = <<>>
  /\ \/ "guest" \in Conn.closed /\ UNCHANGED faults
     \/ ctl.pc = "left" /\ UNCHANGED faults
     \/ Fault("slow")
  /\ Restarted
  /\ UNCHANGED <<screen, parent, bk, ctl, serve, cap, proc, peerq, askq, key>>

Live == viewer.pc = "live" /\ viewer.dial = "none"

\* Live::bind_channels: the frame channel first, and the input channel only
\* once it is bound.
Dial ==
  /\ Live
  /\ \/ ~frame.host /\ viewer' = [viewer EXCEPT !.dial = "frame"]
     \/ frame.host /\ ~input.host /\ viewer' = [viewer EXCEPT !.dial = "input"]
  /\ UNCHANGED <<screen, status, parent, control, frame, input, bk, ctl, serve, cap, proc,
                 peerq, askq, key, faults>>

\* Whether the session process would take the socket being dialled.
Answerable ==
  /\ proc.up /\ proc.params # None
  /\ IF viewer.dial = "frame" THEN ~frame.guest ELSE ~input.guest

\* read_awaited: the answer did not come within its two seconds.
DialTimesOut ==
  /\ viewer.dial # "none"
  /\ (~Answerable /\ UNCHANGED faults) \/ (Answerable /\ Fault("slow"))
  /\ viewer' = [viewer EXCEPT !.dial = "none"]
  /\ UNCHANGED <<screen, status, parent, control, frame, input, bk, ctl, serve, cap, proc,
                 peerq, askq, key>>

\* Live::read_control and Live::beat: a control connection that ended, or whose
\* pongs stopped, ends the session and asks for another.
ReadControl ==
  /\ Live
  /\ \/ /\ Conn.toHost # <<>>
        /\ control' = [control EXCEPT ![viewer.sid].toHost = Tail(@)]
        /\ UNCHANGED <<viewer, status, frame, input, faults>>
     \/ /\ Conn.toHost = <<>> /\ "guest" \in Conn.closed
        /\ Restarted /\ UNCHANGED faults
     \/ Fault("control") /\ Restarted
  /\ UNCHANGED <<screen, parent, bk, ctl, serve, cap, proc, peerq, askq, key>>

\* Live::read_frames and Video::apply.
ReadFrame ==
  /\ Live /\ frame.host /\ frame.q # <<>>
  /\ LET r == Head(frame.q) IN
       viewer' = [viewer EXCEPT !.picture = IF r.kind = "config" THEN 0 ELSE r.shows]
  /\ frame' = [frame EXCEPT !.q = Tail(@)]
  /\ UNCHANGED <<screen, status, parent, control, input, bk, ctl, serve, cap, proc, peerq,
                 askq, key, faults>>

\* Mutant: the frame socket is replaced at the generation it had.
RebindInPlace ==
  /\ Live /\ frame.host /\ frame.q = <<>> /\ ~frame.guest
  /\ frame' = Closed
  /\ viewer' = [viewer EXCEPT !.picture = 0]
  /\ status' = On("ChannelLost")
  /\ UNCHANGED <<screen, parent, control, input, bk, ctl, serve, cap, proc, peerq, askq, key,
                 faults>>

\* Live::rebind: the next generation, and nothing asked for.
Rebind ==
  /\ Live /\ frame.host /\ frame.q = <<>> /\ ~frame.guest
  /\ frame' = Closed
  /\ viewer' = [viewer EXCEPT !.fgen = @ + 1, !.picture = 0]
  /\ status' = On("ChannelLost")
  /\ UNCHANGED <<screen, parent, control, input, bk, ctl, serve, cap, proc, peerq, askq, key,
                 faults>>

\* Live::send_input: a write that fails drops the socket, and only that.  One that
\* arrives is on the device in the process's next turn (read_input, apply_input);
\* one on its way when the socket drops is as good as never sent.
SendInput ==
  /\ Live /\ input.host
  /\ \/ /\ proc.up /\ input.guest /\ input.q = <<>>
        /\ key' = IF key = "held" THEN "up" ELSE "held"
        /\ UNCHANGED input
     \/ ~input.guest /\ input' = Closed /\ UNCHANGED key
  /\ UNCHANGED <<screen, viewer, status, parent, control, frame, bk, ctl, serve, cap, proc,
                 peerq, askq, faults>>

\* The renderer lost its device: Live::request_keyframe.
RequestKeyframe ==
  /\ Live /\ Fault("renderer")
  /\ control' = [control EXCEPT ![viewer.sid].toGuest = Append(@, "keyframe")]
  /\ UNCHANGED <<screen, viewer, status, parent, frame, input, bk, ctl, serve, cap, proc,
                 peerq, askq, key>>

\* The window closes: Live::end in a session, a dropped socket before one.
CloseWindow ==
  /\ viewer.pc \in {"relay", "live"} /\ viewer.dial = "none"
  /\ viewer' = [NewLive(viewer.sid) EXCEPT !.pc = "over"]
  /\ control' = HostLeaves(viewer.sid, IF viewer.pc = "live" THEN <<"end">> ELSE <<>>)
  /\ frame' = HostCloses(frame) /\ input' = HostCloses(input)
  /\ UNCHANGED <<screen, status, parent, bk, ctl, serve, cap, proc, peerq, askq, key, faults>>

ParentLeaves ==
  /\ Fault("parent") /\ parent
  /\ parent' = FALSE
  /\ UNCHANGED <<screen, viewer, status, control, frame, input, bk, ctl, serve, cap, proc,
                 peerq, askq, key>>


-----------------------------------------------------------------------------
(* The broker: what its threads share, and what they say to the process. *)

NoBroker ==
  [up |-> TRUE, peer |-> None, session |-> None, sessionSize |-> None,
   size |-> None, changed |-> FALSE,
   epoch |-> 0, wants |-> FALSE, sent |-> {}, fault |-> FALSE, stopping |-> FALSE]

Message(t) == [t |-> t, sid |-> None, size |-> None, n |-> 0, new |-> FALSE]
SessionOpened(sid, size) == [Message("opened") EXCEPT !.sid = sid, !.size = size]

\* Connection::send: a peer that is gone loses what is sent to it.
ToPeer(inc, messages) ==
  peerq' = IF proc.up /\ proc.inc = inc THEN peerq \o messages ELSE peerq

\* adopt_peer and the answer to Attach: the devices, then the session.
Introduction ==
  <<Message("devices")>> \o
  IF bk.session = None THEN <<>> ELSE <<SessionOpened(bk.session, bk.sessionSize)>>

\* Mutant: a new process is taken to hold what the last one was sent.
AdoptPeerKeepsSent ==
  /\ bk.up /\ ~serve.ended /\ serve.inc = None /\ askq # <<>>
  /\ serve' = [serve EXCEPT !.inc = Head(askq).inc]
  /\ bk' = [bk EXCEPT !.peer = Head(askq).inc, !.wants = FALSE]
  /\ ToPeer(Head(askq).inc, Introduction)
  /\ UNCHANGED <<screen, viewer, status, parent, control, frame, input, ctl, cap, proc, askq,
                 key, faults>>

\* serve_peers and adopt_peer: connections in the order they were made, and one
\* whose process died waiting as any other.
AdoptPeer ==
  /\ bk.up /\ ~serve.ended /\ serve.inc = None /\ askq # <<>>
  /\ serve' = [serve EXCEPT !.inc = Head(askq).inc]
  /\ bk' = [bk EXCEPT !.peer = Head(askq).inc, !.sent = {}, !.wants = FALSE]
  /\ ToPeer(Head(askq).inc, Introduction)
  /\ UNCHANGED <<screen, viewer, status, parent, control, frame, input, ctl, cap, proc, askq,
                 key, faults>>

\* read_peer: one message.
ReadPeer ==
  /\ serve.inc # None /\ askq # <<>> /\ Head(askq).inc = serve.inc
  /\ askq' = Tail(askq)
  /\ \/ /\ Head(askq).t = "attach"
        /\ ToPeer(serve.inc, Introduction) /\ UNCHANGED bk
     \/ /\ Head(askq).t = "next"
        /\ bk' = [bk EXCEPT !.wants = TRUE] /\ UNCHANGED peerq
  /\ UNCHANGED <<screen, viewer, status, parent, control, frame, input, ctl, serve, cap, proc,
                 key, faults>>

\* The connection failed: back to accept, unless the broker is stopping.
PeerGone ==
  /\ serve.inc # None
  /\ askq # <<>> => Head(askq).inc # serve.inc
  /\ ~(proc.up /\ proc.inc = serve.inc)
  /\ serve' = [inc |-> None, ended |-> bk.stopping]
  /\ UNCHANGED <<screen, viewer, status, parent, control, frame, input, bk, ctl, cap, proc,
                 peerq, askq, key, faults>>

-----------------------------------------------------------------------------
(* The broker's control thread. *)

NoControl == [pc |-> "accept", conn |-> 0, offer |-> None, size |-> None]

\* serve_sessions: one connection at a time, offered the size capture saw last.
Accept ==
  /\ bk.up /\ ctl.pc = "accept"
  /\ \E sid \in Sids :
       /\ sid > ctl.conn /\ control[sid].made
       /\ \A s \in ctl.conn + 1..sid - 1 : ~control[s].made
       /\ LET size == IF bk.size = None THEN screen.size ELSE bk.size IN
            ctl' = [pc |-> "session", conn |-> sid, offer |-> size, size |-> size]
  /\ UNCHANGED <<screen, viewer, status, parent, control, frame, input, bk, serve, cap, proc,
                 peerq, askq, key, faults>>

\* open_session: recorded, and handed to the peer that is there.
OpenSession ==
  /\ bk' = [bk EXCEPT !.epoch = @ + 1, !.session = ctl.conn, !.sessionSize = ctl.offer,
                      !.sent = {}, !.wants = FALSE]
  /\ ToPeer(bk.peer, <<SessionOpened(ctl.conn, ctl.offer)>>)

\* close_session, and back to accept, which does not notice a later stop.
EndControl ==
  /\ bk' = [bk EXCEPT !.epoch = @ + 1, !.session = None, !.sessionSize = None,
                      !.wants = FALSE, !.sent = {}]
  /\ ToPeer(bk.peer, <<Message("closed")>>)
  /\ ctl' = [NoControl EXCEPT !.pc = IF bk.stopping THEN "left" ELSE "accept",
                              !.conn = ctl.conn]

\* run_session: one pass of its loop, in its order -- a stop, a size the host
\* has not been told of, a fault, and then Control::pump.
ControlStops ==
  /\ ctl.pc = "session" /\ bk.stopping
  /\ EndControl /\ control' = GuestLeaves(ctl.conn, <<>>)
  /\ UNCHANGED <<screen, viewer, status, parent, frame, input, serve, cap, proc, askq, key,
                 faults>>

TellGeometry ==
  /\ ctl.pc = "session" /\ ~bk.stopping /\ bk.changed
  /\ bk' = [bk EXCEPT !.changed = FALSE]
  /\ ctl' = [ctl EXCEPT !.size = bk.size]
  /\ control' = IF bk.size = ctl.size THEN control
                ELSE [control EXCEPT ![ctl.conn].toHost = Append(@, "state")]
  /\ UNCHANGED <<screen, viewer, status, parent, frame, input, serve, cap, proc, peerq, askq,
                 key, faults>>

Undisturbed == ctl.pc = "session" /\ ~bk.stopping /\ ~bk.changed

\* The fault another thread found is reported and taken, and ends the session.
ReportFault ==
  /\ Undisturbed /\ bk.fault
  /\ bk' = [bk EXCEPT !.fault = FALSE, !.epoch = @ + 1, !.session = None,
                      !.sessionSize = None, !.wants = FALSE, !.sent = {}]
  /\ ToPeer(bk.peer, <<Message("closed")>>)
  /\ ctl' = [NoControl EXCEPT !.conn = ctl.conn]
  /\ control' = GuestLeaves(ctl.conn, <<"error">>)
  /\ UNCHANGED <<screen, viewer, status, parent, frame, input, serve, cap, proc, askq, key,
                 faults>>

\* Mutant: a connection that closed without a word is taken for an idle one.
HostEndedByRecord(q) == q # <<>> /\ Head(q) = "end"

\* What ends the session: EndSession, or a connection with nothing left to read.
HostEnded(q) ==
  \/ q # <<>> /\ Head(q) = "end"
  \/ q = <<>> /\ "host" \in control[ctl.conn].closed

\* Control::pump, opened and request.
Pump ==
  /\ Undisturbed /\ ~bk.fault
  /\ LET q == control[ctl.conn].toGuest
         rest == [control EXCEPT ![ctl.conn].toGuest = Tail(q)]
     IN
     \/ /\ q # <<>> /\ Head(q) = "hello"
        /\ control' = [rest EXCEPT ![ctl.conn].toHost = Append(@, "hello")]
        /\ UNCHANGED <<bk, ctl, peerq>>
     \/ /\ q # <<>> /\ Head(q) = "auth"
        /\ OpenSession
        /\ ctl' = [ctl EXCEPT !.size = ctl.offer]
        /\ control' = rest
     \/ /\ q # <<>> /\ Head(q) = "keyframe"
        /\ ToPeer(bk.peer, <<Message("key")>>)
        /\ control' = rest
        /\ UNCHANGED <<bk, ctl>>
     \/ /\ HostEnded(q)
        /\ EndControl /\ control' = GuestLeaves(ctl.conn, <<>>)
  /\ UNCHANGED <<screen, viewer, status, parent, frame, input, serve, cap, proc, askq, key,
                 faults>>

-----------------------------------------------------------------------------
(* The broker's capture thread. *)

NoCapture == [pc |-> "wait", peer |-> None, epoch |-> 0, seen |-> 0, shot |-> Message("none")]

\* request_is_current, and what send_snapshot asks again under the lock.
Current == bk.session # None /\ bk.epoch = cap.epoch /\ bk.peer = cap.peer

\* wait_for_request.
TakeRequest ==
  /\ bk.up /\ cap.pc = "wait" /\ ~bk.stopping
  /\ bk.session # None /\ bk.wants /\ bk.peer # None
  /\ bk' = [bk EXCEPT !.wants = FALSE]
  /\ cap' = [cap EXCEPT !.pc = "probe", !.peer = bk.peer, !.epoch = bk.epoch]
  /\ UNCHANGED <<screen, viewer, status, parent, control, frame, input, ctl, serve, proc,
                 peerq, askq, key, faults>>

\* The request is dropped with what was remembered of the last snapshot.
DropRequest ==
  /\ cap.pc = "probe" /\ ~Current
  /\ cap' = NoCapture
  /\ UNCHANGED <<screen, viewer, status, parent, control, frame, input, bk, ctl, serve, proc,
                 peerq, askq, key, faults>>

\* Device::snapshot, once something was committed since the last one sent.
Probe ==
  /\ cap.pc = "probe" /\ Current
  /\ screen.n # cap.seen
  /\ cap' = [cap EXCEPT !.pc = IF bk.size = screen.size THEN "send" ELSE "observe",
                        !.shot = [Message("snap") EXCEPT !.n = screen.n, !.size = screen.size]]
  /\ UNCHANGED <<screen, viewer, status, parent, control, frame, input, bk, ctl, serve, proc,
                 peerq, askq, key, faults>>

\* The planes or the clock cannot be read: fault, and then stop.
CaptureFails ==
  /\ cap.pc = "probe" /\ Current /\ Fault("capture")
  /\ bk' = [bk EXCEPT !.fault = TRUE, !.wants = FALSE]
  /\ cap' = [NoCapture EXCEPT !.pc = "failing"]
  /\ UNCHANGED <<screen, viewer, status, parent, control, frame, input, ctl, serve, proc,
                 peerq, askq, key>>

CaptureStops ==
  /\ cap.pc = "failing"
  /\ bk' = [bk EXCEPT !.stopping = TRUE]
  /\ cap' = [NoCapture EXCEPT !.pc = "ended"]
  /\ UNCHANGED <<screen, viewer, status, parent, control, frame, input, ctl, serve, proc,
                 peerq, askq, key, faults>>

\* observe_geometry: the peer of the request is told, current or not.
ObserveGeometry ==
  /\ cap.pc = "observe"
  /\ cap' = [cap EXCEPT !.pc = "send"]
  /\ bk' = [bk EXCEPT !.size = cap.shot.size, !.changed = TRUE]
  /\ ToPeer(cap.peer, <<[Message("geometry") EXCEPT !.size = cap.shot.size]>>)
  /\ UNCHANGED <<screen, viewer, status, parent, control, frame, input, ctl, serve, proc, askq,
                 key, faults>>

\* send_snapshot, with the descriptor this peer was not sent; a snapshot that
\* was not sent is forgotten.  The session it is for rides along for the record.
SendSnapshot ==
  /\ cap.pc = "send"
  /\ LET n == cap.shot.n IN
     IF Current /\ proc.up /\ proc.inc = cap.peer
     THEN /\ ToPeer(cap.peer, <<[cap.shot EXCEPT !.sid = bk.session,
                                                 !.new = Buffer(n) \notin bk.sent]>>)
          /\ bk' = [bk EXCEPT !.sent = @ \cup {Buffer(n)}]
          /\ cap' = [NoCapture EXCEPT !.seen = n]
     ELSE cap' = NoCapture /\ UNCHANGED <<bk, peerq>>
  /\ UNCHANGED <<screen, viewer, status, parent, control, frame, input, ctl, serve, proc, askq,
                 key, faults>>

-----------------------------------------------------------------------------
(* The session process: one loop over the broker and its two sockets. *)

\* The encoder of a frame channel: whether it owes its configuration, the frame
\* staged, the frame the viewer was sent last and whether it is owed again.
NoPipeline == [config |-> FALSE, staged |-> 0, reference |-> 0, again |-> FALSE]
NewPipeline == [NoPipeline EXCEPT !.config = TRUE]

NewProcess(inc) ==
  [up |-> TRUE, inc |-> inc, params |-> None, size |-> None, fgen |-> 0, igen |-> 0,
   asked |-> FALSE, buffers |-> {}, pipeline |-> NoPipeline]

\* Keyboard::release_all: what its record holds, and no more.
Release == key' = IF key = "held" THEN "up" ELSE key

\* accept_sockets and channel::bind, with the viewer's half of the exchange: the
\* session must be this one and the generation later than the last.
AcceptFrame ==
  /\ viewer.dial = "frame" /\ Answerable
  /\ IF viewer.sid = proc.params /\ viewer.fgen > proc.fgen
     THEN /\ frame' = Bound(screen.n, <<>>)
          /\ proc' = [proc EXCEPT !.fgen = viewer.fgen, !.pipeline = NewPipeline]
          /\ viewer' = [viewer EXCEPT !.dial = "none", !.announced = TRUE]
          /\ status' = IF viewer.announced THEN status ELSE On("Established")
     ELSE /\ viewer' = [viewer EXCEPT !.dial = "none"]
          /\ UNCHANGED <<frame, proc, status>>
  /\ UNCHANGED <<screen, parent, control, input, bk, ctl, serve, cap, peerq, askq, key, faults>>

\* The viewer's half ends with a release of everything.
AcceptInput ==
  /\ viewer.dial = "input" /\ Answerable
  /\ viewer' = [viewer EXCEPT !.dial = "none"]
  /\ IF viewer.sid = proc.params /\ viewer.igen > proc.igen
     THEN /\ input' = Bound(0, <<"release">>)
          /\ proc' = [proc EXCEPT !.igen = viewer.igen]
     ELSE UNCHANGED <<input, proc>>
  /\ UNCHANGED <<screen, status, parent, control, frame, bk, ctl, serve, cap, peerq, askq, key,
                 faults>>

\* close_session_sockets.
CloseSockets ==
  /\ frame' = GuestCloses(frame) /\ input' = GuestCloses(input)
  /\ Release

\* resize: the encoder starts again at the new size.
Resized(size) ==
  IF proc.params = None \/ proc.size = size THEN proc
  ELSE [proc EXCEPT !.size = size, !.pipeline = IF frame.guest THEN NewPipeline ELSE @]

\* adopt and submit: the buffers that came with it are mapped, and the frame is
\* staged if there is a channel for it, of its size, and its buffer is mapped.
Submitted(m) ==
  LET mapped == IF m.new THEN proc.buffers \cup {Buffer(m.n)} ELSE proc.buffers IN
  [proc EXCEPT !.buffers = mapped, !.asked = proc.params # None,
     !.pipeline.staged =
        IF frame.guest /\ m.size = proc.size /\ Buffer(m.n) \in mapped THEN m.n ELSE @]

\* Mutant: the snapshot handler asks before it clears asked_for_frame.
AskOnce(wanted) ==
  askq' = IF wanted /\ ~proc.asked THEN Append(askq, [inc |-> proc.inc, t |-> "next"]) ELSE askq

Ask(wanted) == askq' = IF wanted THEN Append(askq, [inc |-> proc.inc, t |-> "next"]) ELSE askq

\* read_broker.
ReadBroker ==
  /\ proc.up /\ peerq # <<>>
  /\ peerq' = Tail(peerq)
  /\ LET m == Head(peerq) IN
     \/ /\ m.t = "opened"
        /\ proc' = [NewProcess(proc.inc) EXCEPT !.params = m.sid, !.size = m.size,
                                                !.asked = TRUE]
        /\ Ask(~proc.asked) /\ CloseSockets
     \/ /\ m.t = "closed"
        /\ proc' = NewProcess(proc.inc)
        /\ CloseSockets /\ UNCHANGED askq
     \/ /\ m.t = "key"
        /\ proc' = [proc EXCEPT !.pipeline.again = frame.guest /\ proc.pipeline.reference # 0]
        /\ UNCHANGED <<askq, frame, input, key>>
     \/ /\ m.t = "geometry"
        /\ proc' = Resized(m.size)
        /\ UNCHANGED <<askq, frame, input, key>>
     \/ /\ m.t = "devices"
        /\ key' = IF key = "held" THEN "lost" ELSE key
        /\ UNCHANGED <<askq, frame, input, proc>>
     \/ /\ m.t = "snap"
        /\ proc' = Submitted(m) /\ Ask(proc.params # None)
        /\ UNCHANGED <<frame, input, key>>
  /\ UNCHANGED <<screen, viewer, status, parent, control, bk, ctl, serve, cap, faults>>

\* pump_frame: the next record, once the last is gone.
PumpFrame ==
  /\ proc.up /\ frame.guest /\ frame.host /\ frame.q = <<>>
  /\ LET p == proc.pipeline
         shown == IF p.staged # 0 THEN p.staged ELSE p.reference
     IN
     \/ /\ p.config
        /\ frame' = [frame EXCEPT !.q = <<[kind |-> "config", shows |-> 0]>>]
        /\ proc' = [proc EXCEPT !.pipeline.config = FALSE]
     \/ /\ ~p.config /\ (p.staged # 0 \/ p.again)
        /\ frame' = [frame EXCEPT !.q = <<[kind |-> "picture", shows |-> shown]>>]
        /\ proc' = [proc EXCEPT !.pipeline = [NoPipeline EXCEPT !.reference = shown]]
  /\ UNCHANGED <<screen, viewer, status, parent, control, input, bk, ctl, serve, cap, peerq,
                 askq, key, faults>>

\* wait: the host let go of the frame socket, or of the input socket (read_input).
Hangup ==
  /\ proc.up
  /\ \/ /\ frame.guest /\ ~frame.host
        /\ frame' = Closed /\ proc' = [proc EXCEPT !.pipeline = NoPipeline]
        /\ UNCHANGED <<input, key>>
     \/ /\ input.guest /\ ~input.host /\ input.q = <<>>
        /\ input' = Closed /\ Release
        /\ UNCHANGED <<frame, proc>>
  /\ UNCHANGED <<screen, viewer, status, parent, control, bk, ctl, serve, cap, peerq, askq,
                 faults>>

\* The release a bound channel begins with.
ReadRelease ==
  /\ proc.up /\ input.guest /\ input.q # <<>>
  /\ input' = [input EXCEPT !.q = <<>>]
  /\ Release
  /\ UNCHANGED <<screen, viewer, status, parent, control, frame, bk, ctl, serve, cap, proc,
                 peerq, askq, faults>>

-----------------------------------------------------------------------------
(* What happens to them. *)

\* The compositor commits, and seldom at another size.
Commit ==
  /\ screen.n < MaxCommits
  /\ \E size \in Sizes :
       /\ screen' = [n |-> screen.n + 1, size |-> size]
       /\ IF size = screen.size THEN UNCHANGED faults ELSE Fault("resize")
  /\ UNCHANGED <<viewer, status, parent, control, frame, input, bk, ctl, serve, cap, proc,
                 peerq, askq, key>>

\* A socket drops: the process finds out by its own hangup.
SocketDrops ==
  /\ \/ /\ Fault("frame") /\ frame.host /\ frame.guest
        /\ frame' = GuestCloses(frame) /\ proc' = [proc EXCEPT !.pipeline = NoPipeline]
        /\ UNCHANGED <<input, key>>
     \/ /\ Fault("input") /\ input.host /\ input.guest
        /\ input' = GuestCloses(input) /\ Release
        /\ UNCHANGED <<frame, proc>>
  /\ UNCHANGED <<screen, viewer, status, parent, control, bk, ctl, serve, cap, peerq, askq>>

\* What a process holds ends with it.
ProcessGoes ==
  /\ proc' = [NewProcess(proc.inc) EXCEPT !.up = FALSE]
  /\ frame' = GuestCloses(frame) /\ input' = GuestCloses(input)
  /\ peerq' = <<>>

\* The process dies.  The keys stay as they are: the devices are the broker's, and
\* the record of what is down was the process's.  Nothing else ends the reader of a
\* broker that has left its control socket: one such end is not counted.
ProcessDies ==
  /\ proc.up /\ ProcessGoes
  /\ key' = IF key = "held" THEN "lost" ELSE key
  /\ IF ctl.pc = "left" /\ proc.inc = 1 THEN UNCHANGED faults ELSE Fault("process")
  /\ UNCHANGED <<screen, viewer, status, parent, control, bk, ctl, serve, cap, askq>>

\* systemd starts it again, and serve attaches.
ProcessRestarts ==
  /\ ~proc.up /\ bk.up
  /\ proc' = NewProcess(proc.inc + 1)
  /\ askq' = Append(askq, [inc |-> proc.inc + 1, t |-> "attach"])
  /\ UNCHANGED <<screen, viewer, status, parent, control, frame, input, bk, ctl, serve, cap,
                 peerq, key, faults>>

\* The end of the broker's serve: every thread has returned.  It is started again
\* only if a fault is still recorded, and the process goes down with it, and the
\* devices with the two of them: nothing is pressed on the next ones.
BrokerExits ==
  /\ bk.up /\ ctl.pc = "left" /\ serve.ended /\ cap.pc = "ended"
  /\ bk' = [NoBroker EXCEPT !.up = bk.fault]
  /\ ctl' = [NoControl EXCEPT !.conn = IF Conn.made THEN viewer.sid ELSE viewer.sid - 1]
  /\ serve' = [inc |-> None, ended |-> FALSE] /\ cap' = NoCapture
  /\ control' = IF Conn.made THEN GuestLeaves(viewer.sid, <<>>) ELSE control
  /\ IF proc.up THEN ProcessGoes ELSE UNCHANGED <<proc, frame, input, peerq>>
  /\ key' = "up"
  /\ askq' = <<>>
  /\ UNCHANGED <<screen, viewer, status, parent, faults>>

-----------------------------------------------------------------------------
Init ==
  /\ screen = [n |-> 1, size |-> CHOOSE size \in Sizes : TRUE]
  /\ viewer = [NewLive(1) EXCEPT !.pc = "connect"]
  /\ status = "Waiting" /\ parent = TRUE
  /\ control = [s \in Sids |-> NoConnection]
  /\ frame = Closed /\ input = Closed
  /\ bk = [NoBroker EXCEPT !.peer = 1] /\ ctl = NoControl
  /\ serve = [inc |-> 1, ended |-> FALSE] /\ cap = NoCapture
  /\ proc = NewProcess(1) /\ peerq = <<>> /\ askq = <<>>
  /\ key = "up" /\ faults = 0

Next ==
  \/ BudgetExpires \/ Connect \/ RelayRecord \/ RelayFails \/ Dial \/ DialTimesOut
  \/ ReadControl \/ ReadFrame \/ Rebind \/ SendInput \/ RequestKeyframe \/ CloseWindow
  \/ ParentLeaves
  \/ AdoptPeer \/ ReadPeer \/ PeerGone
  \/ Accept \/ ControlStops \/ TellGeometry \/ ReportFault \/ Pump
  \/ TakeRequest \/ DropRequest \/ Probe \/ CaptureFails \/ CaptureStops \/ ObserveGeometry
  \/ SendSnapshot
  \/ AcceptFrame \/ AcceptInput \/ ReadBroker \/ PumpFrame \/ Hangup \/ ReadRelease
  \/ Commit \/ SocketDrops \/ ProcessDies \/ ProcessRestarts \/ BrokerExits

Safety == Init /\ [][Next]_vars

\* Each thread of the broker goes on; the process's loop takes everything that is
\* ready in a turn, and so does Live::pump, which a dial that waits holds up but
\* does not starve.  No fault is ever owed.
Fairness ==
  /\ WF_vars(AdoptPeer \/ ReadPeer \/ PeerGone)
  /\ WF_vars(Accept \/ ControlStops \/ TellGeometry \/ ReportFault \/ Pump)
  /\ WF_vars(TakeRequest \/ DropRequest \/ Probe \/ CaptureStops \/ ObserveGeometry
             \/ SendSnapshot)
  /\ WF_vars(AcceptFrame \/ AcceptInput)
  /\ WF_vars(ReadBroker \/ PumpFrame \/ Hangup \/ ProcessRestarts)
  /\ WF_vars(Connect \/ RelayRecord \/ Dial
             \/ ((RelayFails \/ DialTimesOut) /\ UNCHANGED faults))
  /\ SF_vars(ReadControl /\ UNCHANGED faults)
  /\ SF_vars(ReadFrame \/ Rebind)

Spec == Safety /\ Fairness

-----------------------------------------------------------------------------
(* Properties. *)

Socket == [host : BOOLEAN, guest : BOOLEAN, since : 0..MaxCommits, q : Seq({"release"})]

\* The shape of every variable; no frame is encoded while one is still owed to the
\* socket (pump_frame), so a slow viewer is never queued for.
TypeOK ==
  /\ screen.n \in 1..MaxCommits /\ screen.size \in Sizes
  /\ viewer.pc \in {"connect", "relay", "live", "over"} /\ viewer.sid \in Sids
  /\ viewer.dial \in {"none", "frame", "input"} /\ viewer.picture \in 0..MaxCommits
  /\ status \in Statuses /\ parent \in BOOLEAN
  /\ \A s \in Sids : control[s].closed \subseteq {"host", "guest"}
  /\ frame.host \in BOOLEAN /\ frame.guest \in BOOLEAN /\ Len(frame.q) <= 1
  /\ input \in Socket
  /\ bk.session \in 0..MaxSessions /\ bk.sent \subseteq {0, 1}
  /\ ctl.pc \in {"accept", "session", "left"}
  /\ cap.pc \in {"wait", "probe", "observe", "send", "failing", "ended"}
  /\ proc.params \in 0..MaxSessions /\ proc.buffers \subseteq {0, 1}
  /\ key \in {"up", "held", "lost"} /\ faults \in 0..MaxFaults

\* What the process will know once it has read the first i messages of its queue:
\* the last that opened or closed a session is the one that counts.
Turns(i) == {j \in 1..i : peerq[j].t \in {"opened", "closed"}}
LastTurn(i) == CHOOSE j \in Turns(i) : \A k \in Turns(i) : k <= j
SessionAfter(i) == IF Turns(i) = {} THEN proc.params ELSE peerq[LastTurn(i)].sid
MappedAfter(i) ==
  (IF Turns(i) = {} THEN proc.buffers ELSE {}) \cup
  {Buffer(peerq[j].n) : j \in {j \in 1..i : peerq[j].new /\ \A k \in Turns(i) : k < j}}

\* Sessions open and close, and processes come and go, while a snapshot is being
\* taken: each one still reaches the process in the session it was taken for, and
\* in a buffer the process has mapped by then (session_epoch and `sent`).
SnapshotsMatch ==
  \A i \in 1..Len(peerq) :
     peerq[i].t = "snap" => /\ SessionAfter(i) = peerq[i].sid
                            /\ Buffer(peerq[i].n) \in MappedAfter(i)

\* A process that has read what it was sent is in the broker's session, whichever
\* came first: the session, the process, or its Attach (adopt_peer, open_session).
PeerKnowsTheSession ==
  proc.up /\ proc.inc = bk.peer => SessionAfter(Len(peerq)) = bk.session

\* While the first process lives, no key is down that no input channel holds down:
\* every way the channel ends releases it (close_input).  A later one is handed the
\* same devices (adopt_peer, and again in answer to its Attach) with an empty record
\* of what is pressed on them, and this is not said of it.
NoKeyStaysDown ==
  proc.up /\ proc.inc = 1 /\ key # "up" => input.guest

FrameBound == frame.host /\ frame.guest

\* The size race: the process was told of a size before the session, which opened
\* at the old one, and drops every snapshot.
LeftAtOldSize == proc.size # screen.size

\* Once something was committed on a bound frame channel the viewer comes to show
\* the latest commit: one request at a time is never lost between ask_for_frame,
\* wants_frame and the capture thread.
PictureKeepsUp ==
  []<>(~FrameBound \/ frame.since = screen.n \/ viewer.picture = screen.n \/ LeftAtOldSize)

\* An input channel the viewer gave up is dialled at the generation it already had.
InputSpent == viewer.sid = proc.params /\ viewer.igen <= proc.igen

\* In a session that lasts, the frame channel comes back after any loss, at the
\* next generation, and the input channel unless its generation is spent.
ChannelsComeBack ==
  []<>(viewer.pc # "live" \/ (FrameBound /\ (input.host \/ InputSpent)))

\* A key that was down when a process died, or when a later one was handed the
\* devices again, stays pressed: nobody's record holds it.
KeyForgotten == key = "lost" /\ ~(proc.up /\ proc.inc = 1)

\* A window that closed leaves nothing behind in the guest, whatever failed on the
\* way (close_session, Hangup): no session, no socket, and no key pressed but a
\* forgotten one.
SessionEnds ==
  []<>(viewer.pc = "over" =>
         bk.session = None /\ proc.params = None /\ ~frame.guest /\ ~input.guest
         /\ (key = "up" \/ KeyForgotten))

\* Broker and session process agree on the session and the buffers, in whatever
\* order threads, sessions and processes came and went, and on the keys while the
\* first process lives (broker_main.rs, session_main.rs).
SessionsAgree == TypeOK /\ SnapshotsMatch /\ PeerKnowsTheSession /\ NoKeyStaysDown
=============================================================================
