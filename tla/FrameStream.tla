---------------------------- MODULE FrameStream ----------------------------
(***************************************************************************)
(* The picture's way from the guest's compositor to the viewer's window,   *)
(* inside one display session: the broker's capture thread and the damage  *)
(* it may vouch for (broker_main.rs), the session process's staging,       *)
(* encoder, pipeline and backpressure (display-codec, pipeline.rs,         *)
(* session_main.rs), the frame socket, and the viewer's decoder and        *)
(* texture (video.rs, live.rs).                                            *)
(*                                                                         *)
(* A frame is a function on the tiles; a tile's pixels are two bits, what  *)
(* the compositor painted and whether the pointer is drawn over it, which  *)
(* is enough for a delta's XOR to go wrong on the wrong base.  TileCodec   *)
(* is about what happens inside a tile, DisplaySession about who may talk  *)
(* to whom.                                                                *)
(***************************************************************************)
EXTENDS Naturals, Sequences, FiniteSets

CONSTANTS
  None,
  Count,        \* tiles of a frame
  Pointed,      \* tiles the pointer may be over
  Interval,     \* the encoder's refresh_interval
  Streams,      \* whether the peer took the cursor stream: subset of BOOLEAN
  Sequences32,  \* how many sequence numbers there are: 2^32 in the code
  MaxChanges,   \* bound on what the compositor commits
  MaxSizes,     \* bound on the sizes the output takes, one after the other
  Room,         \* whole records the socket's buffer holds
  MaxFaults     \* bound on lost sockets, lost devices and unmapped buffers

Tiles == 0..(Count - 1)

ASSUME StreamAssumption ==
  /\ Count \in Nat \ {0} /\ Pointed \subseteq Tiles /\ Interval \in Nat \ {0}
  /\ Sequences32 \in Nat \ {0} /\ Streams \subseteq BOOLEAN /\ Room \in Nat \ {0} /\ MaxChanges \in Nat
  /\ MaxSizes \in Nat \ {0} /\ MaxFaults \in Nat
  /\ None \notin Nat

VARIABLES
  out,     \* the output: two framebuffers, pointer, commits, damage, size
  cap,     \* the capture thread's SnapshotGenerations and its request
  queue,   \* broker to session process
  pipe,    \* the session process's FrameChannel: Pipeline and Encoder, or None
  tail,    \* what is owed to the socket, as records
  par,     \* the session process's parameters and the cursor it last sent
  sock,    \* the frame socket
  video,   \* the viewer's Video and what it has been told of the cursor
  shown,   \* the viewer's texture
  missed,  \* a snapshot was lost between its capture and the encoder
  faults

vars == <<out, cap, queue, pipe, tail, par, sock, video, shown, missed, faults>>

-----------------------------------------------------------------------------
(* State. *)

\* What the compositor painted, and whether the pointer is over it.
Pixels == BOOLEAN \X BOOLEAN
Frames == [Tiles -> Pixels]
Black == [t \in Tiles |-> <<FALSE, FALSE>>]
Blank == [t \in Tiles |-> None]
Xor(p, q) == <<p[1] # q[1], p[2] # q[2]>>
Places == Pointed \cup {None}

\* After `n` commits the framebuffer on screen is number n % 2.
Scanout(o) == o.bufs[o.n % 2]

\* cursor::composite: the pointer drawn over a frame.
Composite(painted, pointer) == [t \in Tiles |-> <<painted[t], t = pointer>>]

Record(k) == [k |-> k, seq |-> 0, base |-> 0, size |-> 1, tiles |-> {}, px |-> Black, at |-> None]
Message(k) == [k |-> k, size |-> 1, buf |-> 0, dmg |-> {}, at |-> None]

\* Encoder::new.  `hint` is the union of the rectangles, and every tile for a
\* hint of None; `age` counts the frames in a row that left a tile behind.
Encoder(s) ==
  [size |-> s, ref |-> Black, has |-> FALSE, stg |-> Black, pend |-> FALSE, hint |-> {},
   key |-> FALSE, sweep |-> 0, cursor |-> None, moved |-> FALSE, age |-> [t \in Tiles |-> 0]]
\* `drawn` is where the pointer was drawn into the frame before.
Pipeline(s) == [enc |-> Encoder(s), seq |-> 0, last |-> 0, drawn |-> None]

Unsent == <<>>
NoVideo == [size |-> None, frame |-> Black, last |-> None, cursor |-> None]

Next32(n) == (n + 1) % Sequences32

Numbers == 0..(Sequences32 - 1)
Sizes == 1..MaxSizes
Messages == [k : {"geometry", "snapshot", "keyframe"}, size : Sizes, buf : 0..1,
             dmg : SUBSET Tiles, at : Places]
Records == [k : {"config", "keyframe", "delta", "cursor", "cut"}, seq : Numbers, base : Numbers,
            size : Sizes, tiles : SUBSET Tiles, px : Frames, at : Places]
Encoders == [size : Sizes, ref : Frames, has : BOOLEAN, stg : Frames, pend : BOOLEAN,
             hint : SUBSET Tiles, key : BOOLEAN, sweep : Tiles, cursor : Places,
             moved : BOOLEAN, age : [Tiles -> Nat]]
Pipelines == [enc : Encoders, seq : Numbers, last : Numbers, drawn : Places]

Outputs == [bufs : [0..1 -> [Tiles -> BOOLEAN]], ptr : Places, n : 0..MaxChanges,
            dmg : SUBSET Tiles, size : Sizes, left : 0..MaxChanges]
Captures == [asked : BOOLEAN, n : Nat \cup {None}, moved : BOOLEAN, size : Sizes]
Parameters == [size : Sizes, stream : BOOLEAN, cursor : {<<p>> : p \in Places} \cup {Unsent}]
Videos == [size : Sizes \cup {None}, frame : Frames, last : Nat \cup {None}, cursor : Places]

TypeOK ==
  /\ out \in Outputs /\ cap \in Captures /\ par \in Parameters
  /\ queue \in Seq(Messages)
  /\ pipe \in Pipelines \cup {None}
  /\ tail \in Seq(Records) /\ Len(tail) <= 1
  /\ sock \in [open : BOOLEAN, recs : Seq(Records)]
  /\ \A i \in 1..Len(sock.recs) : i > Room => sock.recs[i].k = "cut"
  /\ video \in Videos /\ shown \in [Tiles -> Pixels \cup {None}]
  /\ missed \in BOOLEAN /\ faults \in 0..MaxFaults

Init ==
  /\ out = [bufs |-> [b \in 0..1 |-> [t \in Tiles |-> FALSE]], ptr |-> None, n |-> 0,
            dmg |-> Tiles, size |-> 1, left |-> MaxChanges]
  /\ cap = [asked |-> TRUE, n |-> None, moved |-> FALSE, size |-> 1]
  /\ queue = <<>> /\ pipe = None /\ tail = <<>>
  /\ \E stream \in Streams : par = [size |-> 1, stream |-> stream, cursor |-> Unsent]
  /\ sock = [open |-> FALSE, recs |-> <<>>]
  /\ video = NoVideo /\ shown = Blank
  /\ missed = FALSE /\ faults = 0

Fault == faults < MaxFaults /\ faults' = faults + 1

-----------------------------------------------------------------------------
(* The compositor and the module (outside the repository's Rust). *)

\* An atomic commit paints tiles into the other framebuffer and flips to it.
\* FB_DAMAGE_CLIPS may be left out, which means everything.
Commit(painted, told) ==
  /\ out.left > 0
  /\ LET n == out.n + 1
         frame == [t \in Tiles |-> Scanout(out)[t] # (t \in painted)]
     IN  out' = [out EXCEPT !.n = n, !.bufs[n % 2] = frame, !.left = @ - 1,
                            !.dmg = IF told THEN painted ELSE Tiles]
  /\ UNCHANGED <<cap, queue, pipe, tail, par, sock, video, shown, missed, faults>>

\* The pointer's plane alone.
MovePointer(to) ==
  /\ out.left > 0 /\ to # out.ptr
  /\ out' = [out EXCEPT !.ptr = to, !.left = @ - 1]
  /\ cap' = [cap EXCEPT !.moved = TRUE]
  /\ UNCHANGED <<queue, pipe, tail, par, sock, video, shown, missed, faults>>

\* A mode set: other framebuffers, whose contents the last ones say nothing of.
SetMode ==
  /\ out.left > 0 /\ out.size < MaxSizes
  /\ out' = [out EXCEPT !.n = @ + 1, !.size = @ + 1, !.left = @ - 1, !.dmg = Tiles,
                         !.bufs = [b \in 0..1 |-> [t \in Tiles |-> TRUE]]]
  /\ UNCHANGED <<cap, queue, pipe, tail, par, sock, video, shown, missed, faults>>

-----------------------------------------------------------------------------
(* The broker's capture thread: broker_main.rs capture_frames. *)

\* Mutant: damage is worth something whenever a snapshot was sent before.
DamageOfTheLastCommit == IF cap.n # None THEN out.dmg ELSE Tiles

\* SnapshotGenerations::damage: only the very next commit after the one the
\* peer was last sent may be described by its own damage.
Damage == IF cap.n # None /\ out.n = cap.n + 1 THEN out.dmg ELSE Tiles

\* advanced, observe_geometry, send_snapshot and observe.
Snapshot ==
  /\ cap.asked /\ (cap.n # out.n \/ cap.moved)
  /\ LET resized == [Message("geometry") EXCEPT !.size = out.size]
         planes == [Message("snapshot") EXCEPT !.size = out.size, !.buf = out.n % 2,
                                               !.dmg = Damage, !.at = out.ptr]
     IN  queue' = queue \o (IF out.size # cap.size THEN <<resized, planes>> ELSE <<planes>>)
  /\ cap' = [asked |-> FALSE, n |-> out.n, moved |-> FALSE, size |-> out.size]
  /\ UNCHANGED <<out, pipe, tail, par, sock, video, shown, missed, faults>>

-----------------------------------------------------------------------------
(* The encoder: queue.rs, encoder.rs. *)

\* submit and stage_frame: the frame is the latest, the hints add up.
Staged(e, px, hint) == [e EXCEPT !.stg = px, !.hint = @ \cup hint, !.pend = TRUE]

Slice == (Count + Interval - 1) \div Interval
\* mark_sweep: the tiles that are compared whatever the hint said.
Swept(e) == {(e.sweep + step) % Count : step \in 0..(Slice - 1)}

\* Mutant: the sweep stays where it is.
SweepStays(e) == e.sweep
Sweep(e) == (e.sweep + Slice) % Count

\* encode_keyframe.
Keyframed(e) ==
  [e EXCEPT !.ref = e.stg, !.has = TRUE, !.sweep = 0, !.key = FALSE,
            !.age = [t \in Tiles |-> 0]]

\* encode_delta: of the selected tiles those that differ are sent, and only
\* they advance the reference.
Changed(e) == {t \in e.hint \cup Swept(e) : e.stg[t] # e.ref[t]}

\* Mutant: the reference is the frame that was captured.
DeltaedToCaptured(e) ==
  [e EXCEPT !.ref = e.stg, !.sweep = Sweep(e), !.age = [t \in Tiles |-> 0]]
Deltaed(e) ==
  LET ref == [t \in Tiles |-> IF t \in Changed(e) THEN e.stg[t] ELSE e.ref[t]]
  IN  [e EXCEPT !.ref = ref, !.sweep = Sweep(e),
                !.age = [t \in Tiles |-> IF ref[t] = e.stg[t] THEN 0 ELSE e.age[t] + 1]]

KeyframeDue(e) == ~e.has \/ e.key
Taken(e) == [e EXCEPT !.pend = FALSE, !.hint = {}]

\* next_payload: the frame first, then the cursor.  The encoder after it, and
\* the record if there is one.
CursorPayload(e) ==
  IF e.moved THEN [enc |-> [e EXCEPT !.moved = FALSE],
                   recs |-> <<[Record("cursor") EXCEPT !.at = e.cursor]>>]
  ELSE [enc |-> e, recs |-> <<>>]
KeyframePayload(e) ==
  [enc |-> Taken(Keyframed(e)),
   recs |-> <<[Record("keyframe") EXCEPT !.tiles = Tiles, !.px = e.stg, !.size = e.size]>>]
DeltaPayload(e) ==
  [enc |-> Taken(Deltaed(e)),
   recs |-> <<[Record("delta") EXCEPT !.tiles = Changed(e), !.size = e.size,
                !.px = [t \in Tiles |-> IF t \in Changed(e) THEN Xor(e.stg[t], e.ref[t])
                                         ELSE <<FALSE, FALSE>>]]>>]
NextPayload(e) ==
  CASE e.pend /\ KeyframeDue(e) -> KeyframePayload(e)
    [] e.pend /\ ~KeyframeDue(e) /\ Changed(e) # {} -> DeltaPayload(e)
    [] e.pend /\ ~KeyframeDue(e) /\ Changed(e) = {} -> CursorPayload(Taken(Deltaed(e)))
    [] ~e.pend /\ e.key /\ e.has -> KeyframePayload(e)
    [] OTHER -> CursorPayload(e)

-----------------------------------------------------------------------------
(* The session process: session_main.rs, pipeline.rs. *)

\* write_stream_config, as the first record of a socket or of a geometry.
Opening(p) == <<[Record("config") EXCEPT !.size = p.enc.size, !.seq = p.seq]>>
Opened(p) == [p EXCEPT !.seq = Next32(@), !.enc.key = TRUE]

\* accept_sockets: the viewer bound a frame socket.
Bind ==
  /\ ~sock.open /\ pipe = None
  /\ pipe' = Opened(Pipeline(par.size)) /\ tail' = Opening(Pipeline(par.size))
  /\ par' = [par EXCEPT !.cursor = Unsent]
  /\ sock' = [open |-> TRUE, recs |-> <<>>]
  /\ UNCHANGED <<out, cap, queue, video, shown, missed, faults>>

\* wait and pump_frame: the socket hung up, or a write on it failed.
Hangup ==
  /\ ~sock.open /\ pipe # None
  /\ pipe' = None /\ tail' = <<>>
  /\ par' = [par EXCEPT !.cursor = Unsent]
  /\ UNCHANGED <<out, cap, queue, sock, video, shown, missed, faults>>

\* read_broker, the message it reads.
Reads(k) == queue # <<>> /\ Head(queue).k = k /\ queue' = Tail(queue)

\* Pipeline::reconfigure: the sequence carries on.
Reconfigured(p, s) == [p EXCEPT !.enc = Encoder(s), !.last = 0]

\* resize.  The tail is cleared; if a part of it is on the socket already, the
\* record it belongs to ends there (`torn`).
ReadGeometry ==
  /\ Reads("geometry")
  /\ LET s == Head(queue).size
         p == Reconfigured(pipe, s)
     IN IF s = par.size THEN UNCHANGED <<pipe, tail, par, sock>>
        ELSE IF pipe = None
        THEN par' = [par EXCEPT !.size = s] /\ UNCHANGED <<pipe, tail, sock>>
        ELSE /\ par' = [par EXCEPT !.size = s, !.cursor = Unsent]
             /\ pipe' = Opened(p) /\ tail' = Opening(p)
             /\ \E torn \in {FALSE} \cup {tail # <<>> /\ sock.open} :
                  sock' = IF torn THEN [sock EXCEPT !.recs = Append(@, Record("cut"))] ELSE sock
  /\ UNCHANGED <<out, cap, video, shown, missed, faults>>

ReadKeyframe ==
  /\ Reads("keyframe")
  /\ pipe' = IF pipe = None THEN None ELSE [pipe EXCEPT !.enc.key = TRUE]
  /\ UNCHANGED <<out, cap, tail, par, sock, video, shown, missed, faults>>

\* submit_frame: the two places the compositor's damage cannot know of.
PointerHint(p, at) == {at, p.drawn} \ {None}

\* submit_cursor: staged for the peer, or kept to be drawn.
WithCursor(p, at) ==
  IF par.stream /\ (at # None \/ par.cursor # <<at>>)
  THEN [p EXCEPT !.enc.cursor = at, !.enc.moved = TRUE] ELSE p

\* submit_frame, with the pixels as they are in the framebuffer now.
WithFrame(p, msg) ==
  LET pointer == IF par.stream THEN None ELSE msg.at
  IN  [p EXCEPT !.drawn = pointer,
                !.enc = Staged(@, Composite(out.bufs[msg.buf], pointer),
                               msg.dmg \cup PointerHint(p, pointer))]

\* Snapshot: another is asked for, and this one is dropped if there is no
\* channel, if it is of another size, if its pointer cannot be submitted, or if its
\* framebuffer would not map.
ReadSnapshot ==
  /\ Reads("snapshot")
  /\ cap' = [cap EXCEPT !.asked = TRUE]
  /\ LET msg == Head(queue) IN
     IF pipe = None THEN UNCHANGED <<pipe, par, missed, faults>>
     ELSE IF msg.size # pipe.enc.size THEN UNCHANGED <<pipe, par, missed, faults>>
     ELSE \/ /\ par' = [par EXCEPT !.cursor = <<msg.at>>]
             /\ \/ pipe' = WithFrame(WithCursor(pipe, msg.at), msg) /\ UNCHANGED <<missed, faults>>
                \/ pipe' = WithCursor(pipe, msg.at) /\ missed' = TRUE /\ Fault
          \/ UNCHANGED <<pipe, par>> /\ missed' = TRUE /\ Fault
  /\ UNCHANGED <<out, tail, sock, video, shown>>

\* pump_frame, once nothing is owed: write_next.
Encode ==
  /\ pipe # None /\ tail = <<>>
  /\ pipe.enc.pend \/ pipe.enc.moved \/ (pipe.enc.key /\ pipe.enc.has)
  /\ LET next == NextPayload(pipe.enc)
         kind == next.recs[1].k
         base == IF kind = "delta" THEN pipe.last ELSE 0
     IN IF next.recs = <<>>
        THEN pipe' = [pipe EXCEPT !.enc = next.enc] /\ UNCHANGED tail
        ELSE /\ pipe' = [pipe EXCEPT !.enc = next.enc, !.seq = Next32(@),
                                     !.last = IF kind = "cursor" THEN @ ELSE pipe.seq]
             /\ tail' = <<[next.recs[1] EXCEPT !.seq = pipe.seq, !.base = base]>>
  /\ UNCHANGED <<out, cap, queue, par, sock, video, shown, missed, faults>>

\* pump_frame: the socket takes what is owed.  That it may take a part of it
\* shows only when the rest is dropped.
Write ==
  /\ tail # <<>> /\ sock.open /\ Len(sock.recs) < Room
  /\ sock' = [sock EXCEPT !.recs = Append(@, Head(tail))]
  /\ tail' = Tail(tail)
  /\ UNCHANGED <<out, cap, queue, pipe, par, video, shown, missed, faults>>

-----------------------------------------------------------------------------
(* The viewer: live.rs read_frames and rebind, video.rs. *)

\* A record the channel cannot go on from: what is left of one that was cut
\* off fails its checksum, a frame before its StreamConfig or of another grid
\* is the codec's to refuse, and a delta must build on the frame applied last.
Refuses(v, r) ==
  \/ r.k = "cut" \/ (r.k \in {"keyframe", "delta"} /\ v.size # r.size)
  \/ r.k = "delta" /\ v.last # r.base

\* Video::apply.
Applied(v, r) ==
  CASE r.k = "config"   -> [v EXCEPT !.size = r.size, !.frame = Black, !.last = None]
    [] r.k = "keyframe" -> [v EXCEPT !.frame = r.px, !.last = r.seq]
    [] r.k = "delta"    -> [v EXCEPT !.frame = [t \in Tiles |-> Xor(@[t], r.px[t])], !.last = r.seq]
    [] r.k = "cursor"   -> [v EXCEPT !.cursor = r.at]

\* What the window uploads of the decoder's frame: the damage.
Uploaded(v, r) ==
  CASE r.k = "config" -> Blank
    [] OTHER          -> [t \in Tiles |-> IF t \in r.tiles THEN v.frame[t] ELSE shown[t]]

ReadFrame ==
  /\ sock.recs # <<>>
  /\ LET r == Head(sock.recs) IN
     /\ ~Refuses(video, r)
     /\ video' = Applied(video, r)
     /\ shown' = Uploaded(video', r)
  /\ sock' = [sock EXCEPT !.recs = Tail(@)]
  /\ UNCHANGED <<out, cap, queue, pipe, tail, par, missed, faults>>

\* The socket is given up, and Video with it; the window keeps its texture.
GivesUp ==
  /\ sock' = [open |-> FALSE, recs |-> <<>>]
  /\ video' = [NoVideo EXCEPT !.cursor = video.cursor]
  /\ UNCHANGED <<out, cap, queue, pipe, tail, par, shown, missed>>
Rebind ==
  /\ sock.recs # <<>> /\ Refuses(video, Head(sock.recs))
  /\ GivesUp /\ UNCHANGED faults
SocketLost == sock.open /\ Fault /\ GivesUp

\* draw: the renderer's device is lost, and the texture with it; the window
\* asks for a keyframe, which control hands to the session process.
RendererLost ==
  /\ Fault /\ video.last # None
  /\ shown' = Blank
  /\ queue' = Append(queue, Message("keyframe"))
  /\ UNCHANGED <<out, cap, pipe, tail, par, sock, video, missed>>

-----------------------------------------------------------------------------
CompositorStep ==
  \/ \E painted \in (SUBSET Tiles) \ {{}}, told \in BOOLEAN : Commit(painted, told)
  \/ \E to \in Places : MovePointer(to)
  \/ SetMode
ProcessStep ==
  \/ Bind \/ Hangup \/ ReadGeometry \/ ReadKeyframe \/ ReadSnapshot
  \/ Encode \/ Write
ViewerStep == ReadFrame \/ Rebind \/ SocketLost \/ RendererLost

Next == CompositorStep \/ Snapshot \/ ProcessStep \/ ViewerStep

\* The capture thread, the session process and the viewer keep running; the
\* socket is never full for good, because the viewer reads it.
Fairness ==
  /\ WF_vars(Snapshot)
  /\ WF_vars((Bind \/ Hangup \/ ReadGeometry \/ ReadKeyframe \/ ReadSnapshot) /\ UNCHANGED faults)
  /\ WF_vars(Encode \/ Write)
  /\ WF_vars(ReadFrame \/ Rebind)

Spec == Init /\ [][Next]_vars /\ Fairness

-----------------------------------------------------------------------------
(* Properties. *)

\* What is on its way to the viewer, and the decoder's states as it reads that:
\* its own, and one more for each record.
Owed == sock.recs \o tail
Views[i \in 0..Len(Owed)] == IF i = 0 THEN video ELSE Applied(Views[i - 1], Owed[i])
Replayed == Views[Len(Owed)]

\* "what makes the encoder's reference frame, by construction, the last payload
\* the caller was handed" (queue.rs): across displaced frames, size changes and
\* new sockets the encoder's reference is what the decoder holds once it has
\* read what it is owed, and no delta is met without its base.
DecoderFollows ==
  sock.open /\ pipe # None /\ (\A i \in 1..Len(Owed) : Owed[i].k # "cut") =>
    /\ \A i \in 1..Len(Owed) : ~Refuses(Views[i - 1], Owed[i])
    /\ pipe.enc.has => /\ Replayed.frame = pipe.enc.ref
                       /\ Replayed.last = pipe.last /\ Replayed.size = pipe.enc.size

\* "every encoded frame compares a slice of the grid whatever the hint said":
\* a tile that the hints missed, because the snapshot that named it was lost,
\* is put right within `refresh_interval` frames (mark_sweep).
NoTileStaysBehind == pipe # None => \A t \in Tiles : pipe.enc.age[t] < Interval

\* What the window should show of the output as it stands.
Picture == Composite(Scanout(out), IF par.stream THEN None ELSE out.ptr)

\* A screen that comes to rest is what the window shows in the end: through
\* displaced frames, damage that only describes one commit, a pointer that is
\* drawn in or sent beside, framebuffers that are painted over before they are
\* read, size changes, lost sockets and lost devices.  Set apart are a snapshot
\* that was lost (NoTileStaysBehind) and a channel bound after the last change,
\* which is owed a snapshot that nobody takes.
PictureArrives ==
  <>[](\/ missed \/ (pipe # None => ~pipe.enc.has)
       \/ shown = Picture /\ (par.stream => video.cursor = out.ptr))

\* Encoder and decoder agree on the frame between them, and the sequence, the
\* sweep and what is owed to the socket stay in their bounds (encoder.rs,
\* pipeline.rs, video.rs).
StreamIsSound == TypeOK /\ DecoderFollows
=============================================================================
