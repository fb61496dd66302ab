------------------------- MODULE FrameStreamProofs -------------------------
(***************************************************************************)
(* Proofs about FrameStream, for any number of tiles, sizes, sequence      *)
(* numbers, records on the socket, changes and faults: its types and       *)
(* bounds, that the decoder follows the encoder's reference, and that the  *)
(* sweep leaves no tile behind.                                            *)
(***************************************************************************)
EXTENDS FrameStream, TLAPS, WellFoundedInduction

-----------------------------------------------------------------------------
(* Sequences. *)

\* What a queue read at its head, or written at its end, holds.
LEMMA TailIs ==
  ASSUME NEW S, NEW s \in Seq(S), s # <<>>
  PROVE  /\ Tail(s) \in Seq(S) /\ Len(Tail(s)) = Len(s) - 1 /\ Head(s) \in S /\ Head(s) = s[1]
         /\ Len(s) \in Nat \ {0}
         /\ \A i \in 1..Len(Tail(s)) : Tail(s)[i] = s[i + 1]
  OBVIOUS

LEMMA AppendIs ==
  ASSUME NEW S, NEW s \in Seq(S), NEW x \in S
  PROVE  /\ Append(s, x) \in Seq(S) /\ Len(Append(s, x)) = Len(s) + 1
         /\ \A i \in 1..Len(s) : Append(s, x)[i] = s[i]
         /\ Append(s, x)[Len(s) + 1] = x
  OBVIOUS

\* The same for what is owed, where the tail is at most one record.
LEMMA ConcatIs ==
  ASSUME NEW S, NEW s \in Seq(S), NEW t \in Seq(S)
  PROVE  /\ s \o t \in Seq(S) /\ Len(s \o t) = Len(s) + Len(t)
         /\ \A i \in 1..Len(s) : (s \o t)[i] = s[i]
         /\ \A i \in 1..Len(t) : (s \o t)[Len(s) + i] = t[i]
  OBVIOUS

LEMMA OneIs ==
  ASSUME NEW S, NEW x \in S
  PROVE  <<x>> \in Seq(S) /\ Len(<<x>>) = 1 /\ <<x>>[1] = x
  OBVIOUS

\* A set of natural numbers has a least one: induction, for the facts about
\* Views.
LEMMA Least ==
  ASSUME NEW T, T \subseteq Nat, T # {}
  PROVE  \E x \in T : \A y \in T : x <= y
<1> DEFINE Below == {ss \in Nat \X Nat : ss[1] < ss[2]}
<1>1. IsWellFoundedOn(Below, Nat)
  BY NatLessThanWellFounded DEF OpToRel
<1>2. PICK x \in T : \A y \in T : <<y, x>> \notin Below
  BY <1>1, WFMin
<1>3. \A y \in T : y \in Nat /\ x \in Nat /\ (y < x => <<y, x>> \in Below)
  OBVIOUS
<1>4. \A y \in T : x <= y
  <2> TAKE y \in T
  <2>1. <<y, x>> \notin Below
    BY <1>2
  <2>2. y \in Nat /\ x \in Nat /\ ~(y < x)
    BY <2>1, <1>3
  <2> QED
    BY <2>2
<1>5. QED
  BY <1>4

-----------------------------------------------------------------------------
(* What the operators return. *)

LEMMA ConstantTypes ==
  /\ Count \in Nat \ {0} /\ Interval \in Nat \ {0} /\ Sequences32 \in Nat \ {0}
  /\ Room \in Nat \ {0} /\ MaxChanges \in Nat /\ MaxSizes \in Nat \ {0} /\ MaxFaults \in Nat
  BY StreamAssumption

LEMMA PixelTypes ==
  /\ Black \in Frames /\ Blank \in [Tiles -> Pixels \cup {None}]
  /\ \A p, q \in Pixels : Xor(p, q) \in Pixels /\ Xor(p, Xor(q, p)) = q
  /\ \A painted \in [Tiles -> BOOLEAN], at \in Places : Composite(painted, at) \in Frames
<1>1. Black \in Frames /\ Blank \in [Tiles -> Pixels \cup {None}]
  BY DEF Black, Blank, Frames, Pixels
<1>2. ASSUME NEW p \in Pixels, NEW q \in Pixels
      PROVE  Xor(p, q) \in Pixels /\ Xor(p, Xor(q, p)) = q
  <2>1. PICK a \in BOOLEAN, b \in BOOLEAN, c \in BOOLEAN, d \in BOOLEAN :
          p = <<a, b>> /\ q = <<c, d>>
    BY DEF Pixels
  <2>2. Xor(p, q) = <<a # c, b # d>> /\ Xor(p, Xor(q, p)) = <<a # (c # a), b # (d # b)>>
    BY <2>1 DEF Xor
  <2>3. (a # (c # a)) = c /\ (b # (d # b)) = d /\ (a # c) \in BOOLEAN /\ (b # d) \in BOOLEAN
    BY Zenon
  <2>4. Xor(p, q) \in Pixels
    <3>1. \A x, y \in BOOLEAN : <<x, y>> \in Pixels
      BY DEF Pixels
    <3>2. QED
      BY <2>2, <2>3, <3>1, Zenon
  <2>5. Xor(p, Xor(q, p)) = q
    BY <2>1, <2>2, <2>3, Zenon
  <2>6. QED
    BY <2>4, <2>5
<1>3. ASSUME NEW painted \in [Tiles -> BOOLEAN], NEW at \in Places
      PROVE  Composite(painted, at) \in Frames
  <2>1. \A t \in Tiles : <<painted[t], t = at>> \in Pixels
    BY Zenon DEF Pixels
  <2>2. QED
    BY <2>1 DEF Composite, Frames
<1>4. QED
  BY <1>1, <1>2, <1>3

LEMMA NumberTypes ==
  /\ 0 \in Numbers /\ \A n \in Numbers : Next32(n) \in Numbers
  /\ 0 \in Tiles /\ Tiles \subseteq Nat /\ Slice \in Nat \ {0} /\ \A n \in Nat : n % Count \in Tiles
  /\ 1 \in Sizes /\ None \in Places /\ Places \ {None} \subseteq Tiles
<1>1. 0 \in Numbers /\ \A n \in Numbers : Next32(n) \in Numbers
  BY StreamAssumption DEF Numbers, Next32
<1>2. 0 \in Tiles /\ \A n \in Nat : n % Count \in Tiles
  BY StreamAssumption DEF Tiles
<1>3. Slice \in Nat \ {0}
  <2>1. \A a, b \in Nat \ {0} : b <= a => a \div b \in Nat \ {0}
    OBVIOUS
  <2>2. Count + Interval - 1 \in Nat \ {0} /\ Interval <= Count + Interval - 1
    BY StreamAssumption
  <2>3. QED
    BY <2>1, <2>2, StreamAssumption DEF Slice
<1>4. 1 \in Sizes
  BY StreamAssumption DEF Sizes
<1>5. None \in Places /\ Places \ {None} \subseteq Tiles
  BY StreamAssumption DEF Places
<1>6. Tiles \subseteq Nat
  BY StreamAssumption DEF Tiles
<1>7. QED
  BY <1>1, <1>2, <1>3, <1>4, <1>5, <1>6

LEMMA RecordTypes ==
  /\ \A k \in {"config", "keyframe", "delta", "cursor", "cut"} : Record(k) \in Records
  /\ \A k \in {"geometry", "snapshot", "keyframe"} : Message(k) \in Messages
  BY PixelTypes, NumberTypes DEF Record, Records, Message, Messages

LEMMA EncoderTypes ==
  ASSUME NEW s \in Sizes
  PROVE  Encoder(s) \in Encoders /\ Pipeline(s) \in Pipelines
  BY PixelTypes, NumberTypes DEF Encoder, Encoders, Pipeline, Pipelines

LEMMA OpenedTypes ==
  ASSUME NEW p \in Pipelines
  PROVE  /\ Opened(p) \in Pipelines
         /\ Opening(p) \in Seq(Records) /\ Len(Opening(p)) = 1
         /\ Opening(p)[1] = [Record("config") EXCEPT !.size = p.enc.size, !.seq = p.seq]
         /\ Opening(p)[1].k = "config" /\ Opening(p)[1].size = p.enc.size
<1> DEFINE r == [Record("config") EXCEPT !.size = p.enc.size, !.seq = p.seq]
<1>1. Opened(p) \in Pipelines
  BY NumberTypes DEF Opened, Pipelines, Encoders
<1>2. r \in Records /\ r.k = "config" /\ r.size = p.enc.size
  BY RecordTypes DEF Record, Records, Pipelines, Encoders
<1>3. Opening(p) = <<r>>
  BY DEF Opening
<1> HIDE DEF r
<1>4. QED
  BY <1>1, <1>2, <1>3, OneIs DEF r

LEMMA StepTypes ==
  ASSUME NEW e \in Encoders
  PROVE  /\ Keyframed(e) \in Encoders /\ Deltaed(e) \in Encoders /\ Taken(e) \in Encoders
         /\ Sweep(e) \in Tiles /\ Changed(e) \subseteq Tiles
<1>0. e.sweep \in Nat /\ Slice \in Nat
  <2>1. e.sweep \in Tiles
    BY DEF Encoders
  <2>2. QED
    BY <2>1, NumberTypes
<1>1. Sweep(e) \in Tiles
  <2>1. e.sweep + Slice \in Nat
    BY <1>0
  <2>2. QED
    BY <2>1, NumberTypes DEF Sweep
<1>2. Changed(e) \subseteq Tiles
  <2>1. \A step \in 0..(Slice - 1) : e.sweep + step \in Nat
    BY <1>0
  <2>2. Swept(e) \subseteq Tiles
    BY <2>1, NumberTypes DEF Swept
  <2>3. QED
    BY <2>2 DEF Changed, Encoders
<1>3. Keyframed(e) \in Encoders /\ Taken(e) \in Encoders
  BY NumberTypes DEF Keyframed, Taken, Encoders
<1>4. Deltaed(e) \in Encoders
  <2> DEFINE ref == [t \in Tiles |-> IF t \in Changed(e) THEN e.stg[t] ELSE e.ref[t]]
             age == [t \in Tiles |-> IF ref[t] = e.stg[t] THEN 0 ELSE e.age[t] + 1]
  <2>1. ref \in Frames
    BY DEF Encoders, Frames
  <2>2. age \in [Tiles -> Nat]
    BY DEF Encoders
  <2>3. Deltaed(e) = [e EXCEPT !.ref = ref, !.sweep = Sweep(e), !.age = age]
    BY DEF Deltaed
  <2> HIDE DEF ref, age
  <2>4. QED
    BY <2>1, <2>2, <2>3, <1>1 DEF Encoders
<1>5. QED
  BY <1>1, <1>2, <1>3, <1>4

\* A record of the encoder's: at most one at a time, and never a broken one.
Payloads == [enc : Encoders, recs : {<<>>} \cup {<<r>> : r \in Records}]

LEMMA PayloadTypes ==
  ASSUME NEW e \in Encoders
  PROVE  /\ NextPayload(e) \in Payloads
         /\ NextPayload(e).recs # <<>> =>
              NextPayload(e).recs[1].k \in {"keyframe", "delta", "cursor"}
<1>1. ASSUME NEW f \in Encoders
      PROVE  /\ CursorPayload(f) \in Payloads
             /\ CursorPayload(f).recs # <<>> => CursorPayload(f).recs[1].k = "cursor"
  <2> DEFINE r == [Record("cursor") EXCEPT !.at = f.cursor]
  <2>1. r \in Records /\ r.k = "cursor"
    BY RecordTypes DEF Record, Records, Encoders
  <2>2. [f EXCEPT !.moved = FALSE] \in Encoders
    BY DEF Encoders
  <2>3. CursorPayload(f) = IF f.moved THEN [enc |-> [f EXCEPT !.moved = FALSE], recs |-> <<r>>]
                           ELSE [enc |-> f, recs |-> <<>>]
    BY DEF CursorPayload
  <2> HIDE DEF r
  <2>4. QED
    BY <2>1, <2>2, <2>3 DEF Payloads
<1>2. KeyframePayload(e) \in Payloads /\ KeyframePayload(e).recs[1].k = "keyframe"
  <2> DEFINE r == [Record("keyframe") EXCEPT !.tiles = Tiles, !.px = e.stg, !.size = e.size]
  <2>1. r \in Records /\ r.k = "keyframe"
    BY RecordTypes DEF Record, Records, Encoders
  <2>2. Taken(Keyframed(e)) \in Encoders
    BY StepTypes
  <2>3. KeyframePayload(e) = [enc |-> Taken(Keyframed(e)), recs |-> <<r>>]
    BY DEF KeyframePayload
  <2> HIDE DEF r
  <2>4. QED
    BY <2>1, <2>2, <2>3 DEF Payloads
<1>3. DeltaPayload(e) \in Payloads /\ DeltaPayload(e).recs[1].k = "delta"
  <2> DEFINE px == [t \in Tiles |-> IF t \in Changed(e) THEN Xor(e.stg[t], e.ref[t])
                                     ELSE <<FALSE, FALSE>>]
             r == [Record("delta") EXCEPT !.tiles = Changed(e), !.size = e.size, !.px = px]
  <2>1. px \in Frames
    BY PixelTypes DEF Encoders, Frames, Pixels
  <2> HIDE DEF px
  <2>2. r \in Records /\ r.k = "delta"
    BY <2>1, StepTypes, RecordTypes DEF Record, Records, Encoders
  <2>3. Taken(Deltaed(e)) \in Encoders
    BY StepTypes
  <2>4. DeltaPayload(e) = [enc |-> Taken(Deltaed(e)), recs |-> <<r>>]
    BY DEF DeltaPayload, px
  <2> HIDE DEF r
  <2>5. QED
    BY <2>2, <2>3, <2>4 DEF Payloads
<1>4. Taken(Deltaed(e)) \in Encoders
  BY StepTypes
<1>5. QED
  BY <1>1, <1>2, <1>3, <1>4 DEF NextPayload

-----------------------------------------------------------------------------
(* Types and bounds. *)

\* The commits left bound the commits made, and what is owed is a whole record.
Bounds ==
  /\ out.n + out.left <= MaxChanges
  /\ \A i \in 1..Len(tail) : tail[i].k # "cut"
TInv == TypeOK /\ Bounds

LEMMA InitTyped == Init => TInv
<1> SUFFICES ASSUME Init PROVE TInv
  OBVIOUS
<1>1. out \in Outputs /\ out.n + out.left <= MaxChanges
  BY NumberTypes, StreamAssumption DEF Init, Outputs
<1>2. cap \in Captures
  BY NumberTypes DEF Init, Captures
<1>3. par \in Parameters
  BY NumberTypes, StreamAssumption DEF Init, Parameters
<1>4. video \in Videos
  BY NumberTypes, PixelTypes DEF Init, NoVideo, Videos
<1>5. shown \in [Tiles -> Pixels \cup {None}]
  BY PixelTypes DEF Init
<1>6. queue \in Seq(Messages) /\ tail \in Seq(Records) /\ Len(tail) = 0 /\ pipe = None
  BY DEF Init
<1>7. sock \in [open : BOOLEAN, recs : Seq(Records)] /\ Len(sock.recs) = 0
  BY DEF Init
<1>8. missed \in BOOLEAN /\ faults \in 0..MaxFaults
  <2>1. missed = FALSE /\ faults = 0
    BY Zenon DEF Init
  <2>2. faults \in 0..MaxFaults
    BY <2>1, ConstantTypes
  <2>3. QED
    BY <2>1, <2>2, Zenon
<1>9. QED
  BY <1>1, <1>2, <1>3, <1>4, <1>5, <1>6, <1>7, <1>8 DEF TInv, TypeOK, Bounds

\* One of the changes that are left is made.
LEMMA OneLess ==
  ASSUME out \in Outputs, out.n + out.left <= MaxChanges, out.left > 0
  PROVE  /\ out.n + 1 \in 0..MaxChanges /\ out.left - 1 \in 0..MaxChanges
         /\ (out.n + 1) + (out.left - 1) <= MaxChanges /\ out.n + (out.left - 1) <= MaxChanges
<1>1. out.n \in 0..MaxChanges /\ out.left \in 0..MaxChanges
  BY DEF Outputs
<1>2. QED
  BY <1>1, ConstantTypes

LEMMA CommitTyped ==
  ASSUME TInv, NEW painted \in SUBSET Tiles, NEW told \in BOOLEAN, Commit(painted, told)
  PROVE  TInv'
<1> DEFINE frame == [t \in Tiles |-> Scanout(out)[t] # (t \in painted)]
<1>1. frame \in [Tiles -> BOOLEAN]
  BY Zenon
<1> HIDE DEF frame
<1>2. out' = [out EXCEPT !.n = out.n + 1, !.bufs[(out.n + 1) % 2] = frame, !.left = @ - 1,
                         !.dmg = IF told THEN painted ELSE Tiles] /\ out.left > 0
  BY DEF Commit, frame
<1>3. out \in Outputs /\ out.n + out.left <= MaxChanges
  BY DEF TInv, TypeOK, Bounds
<1>4. out.n + 1 \in 0..MaxChanges /\ out.left - 1 \in 0..MaxChanges
      /\ (out.n + 1) + (out.left - 1) <= MaxChanges
  BY <1>2, <1>3, OneLess
<1>5. out' \in Outputs /\ out'.n = out.n + 1 /\ out'.left = out.left - 1
  BY <1>1, <1>2, <1>3, <1>4 DEF Outputs
<1>6. QED
  BY <1>4, <1>5 DEF Commit, TInv, TypeOK, Bounds

LEMMA MovePointerTyped ==
  ASSUME TInv, NEW to \in Places, MovePointer(to)
  PROVE  TInv'
<1>1. out \in Outputs /\ out.n + out.left <= MaxChanges /\ cap \in Captures
  BY DEF TInv, TypeOK, Bounds
<1>2. out' \in Outputs /\ out'.n + out'.left <= MaxChanges
  <2>1. out.left - 1 \in 0..MaxChanges /\ out.n + (out.left - 1) <= MaxChanges
    BY <1>1, OneLess DEF MovePointer
  <2>2. out' \in Outputs /\ out'.n = out.n /\ out'.left = out.left - 1
    BY <1>1, <2>1 DEF MovePointer, Outputs
  <2>3. QED
    BY <2>1, <2>2
<1>3. cap' \in Captures
  BY <1>1 DEF MovePointer, Captures
<1>4. QED
  BY <1>2, <1>3 DEF MovePointer, TInv, TypeOK, Bounds

LEMMA SetModeTyped ==
  ASSUME TInv, SetMode
  PROVE  TInv'
<1>1. out \in Outputs /\ out.n + out.left <= MaxChanges
  BY DEF TInv, TypeOK, Bounds
<1>2. out' \in Outputs /\ out'.n + out'.left <= MaxChanges
  <2>1. /\ out.n + 1 \in 0..MaxChanges /\ out.left - 1 \in 0..MaxChanges
        /\ (out.n + 1) + (out.left - 1) <= MaxChanges
    BY <1>1, OneLess DEF SetMode
  <2>2. out.size + 1 \in Sizes
    BY <1>1, ConstantTypes DEF SetMode, Outputs, Sizes
  <2>3. out' \in Outputs /\ out'.n = out.n + 1 /\ out'.left = out.left - 1
    BY <1>1, <2>1, <2>2 DEF SetMode, Outputs
  <2>4. QED
    BY <2>1, <2>3
<1>3. QED
  BY <1>2 DEF SetMode, TInv, TypeOK, Bounds

LEMMA SnapshotTyped ==
  ASSUME TInv, Snapshot
  PROVE  TInv'
<1> DEFINE resized == [Message("geometry") EXCEPT !.size = out.size]
           planes == [Message("snapshot") EXCEPT !.size = out.size, !.buf = out.n % 2,
                                                 !.dmg = Damage, !.at = out.ptr]
<1>1. out.n \in Nat /\ out.dmg \in SUBSET Tiles /\ out.size \in Sizes /\ out.ptr \in Places
  BY DEF TInv, TypeOK, Outputs
<1>2. resized \in Messages /\ planes \in Messages
  <2>1. out.n % 2 \in 0..1
    BY <1>1
  <2>2. Damage \in SUBSET Tiles
    BY <1>1 DEF Damage
  <2>3. QED
    BY <1>1, <2>1, <2>2, RecordTypes DEF Message, Messages
<1>3. queue' = queue \o (IF out.size # cap.size THEN <<resized, planes>> ELSE <<planes>>)
  BY DEF Snapshot
<1> HIDE DEF resized, planes
<1>4. queue' \in Seq(Messages)
  BY <1>2, <1>3 DEF TInv, TypeOK
<1>5. cap' \in Captures
  BY <1>1 DEF Snapshot, Captures
<1>6. QED
  BY <1>4, <1>5 DEF Snapshot, TInv, TypeOK, Bounds

LEMMA BindTyped ==
  ASSUME TInv, Bind
  PROVE  TInv'
<1>1. par \in Parameters /\ par.size \in Sizes
  BY DEF TInv, TypeOK, Parameters
<1>2. par' \in Parameters
  BY <1>1 DEF Bind, Parameters
<1>3. pipe' \in Pipelines /\ tail' \in Seq(Records) /\ Len(tail') = 1 /\ tail'[1].k = "config"
  BY <1>1, EncoderTypes, OpenedTypes DEF Bind
<1>4. sock' \in [open : BOOLEAN, recs : Seq(Records)] /\ Len(sock'.recs) = 0
  BY DEF Bind
<1>5. QED
  BY <1>2, <1>3, <1>4 DEF Bind, TInv, TypeOK, Bounds

LEMMA HangupTyped ==
  ASSUME TInv, Hangup
  PROVE  TInv'
<1>1. par' \in Parameters
  BY DEF TInv, TypeOK, Hangup, Parameters
<1>2. tail' \in Seq(Records) /\ Len(tail') = 0 /\ pipe' = None
  BY DEF Hangup
<1>3. QED
  BY <1>1, <1>2 DEF Hangup, TInv, TypeOK, Bounds

\* A message is taken off the queue.
LEMMA ReadsTyped ==
  ASSUME TInv, NEW k, Reads(k)
  PROVE  /\ queue' \in Seq(Messages) /\ Head(queue) \in Messages /\ Head(queue).k = k
         /\ Head(queue).size \in Sizes
<1>1. queue \in Seq(Messages) /\ queue # <<>>
  BY DEF TInv, TypeOK, Reads
<1>2. Tail(queue) \in Seq(Messages) /\ Head(queue) \in Messages
  BY <1>1, TailIs
<1>3. Head(queue).size \in Sizes
  BY <1>2 DEF Messages
<1>4. QED
  BY <1>2, <1>3 DEF Reads

LEMMA ReadKeyframeTyped ==
  ASSUME TInv, ReadKeyframe
  PROVE  TInv'
<1>1. queue' \in Seq(Messages)
  BY ReadsTyped DEF ReadKeyframe
<1>2. pipe' \in Pipelines \cup {None}
  <2>1. CASE pipe = None
    BY <2>1 DEF ReadKeyframe
  <2>2. CASE pipe # None
    <3>1. pipe \in Pipelines /\ pipe' = [pipe EXCEPT !.enc.key = TRUE]
      BY <2>2 DEF ReadKeyframe, TInv, TypeOK
    <3>2. QED
      BY <3>1 DEF Pipelines, Encoders
  <2>3. QED
    BY <2>1, <2>2
<1>3. QED
  BY <1>1, <1>2 DEF ReadKeyframe, TInv, TypeOK, Bounds

\* The socket with one record more, which is whole only if there is room.
LEMMA SocketTyped ==
  ASSUME TInv, NEW r \in Records, r.k = "cut" \/ Len(sock.recs) < Room,
         NEW s, s = [sock EXCEPT !.recs = Append(@, r)]
  PROVE  /\ s \in [open : BOOLEAN, recs : Seq(Records)]
         /\ \A i \in 1..Len(s.recs) : i > Room => s.recs[i].k = "cut"
<1>1. /\ sock \in [open : BOOLEAN, recs : Seq(Records)]
      /\ \A i \in 1..Len(sock.recs) : i > Room => sock.recs[i].k = "cut"
  BY DEF TInv, TypeOK
<1>2. s.recs = Append(sock.recs, r) /\ s.open = sock.open
      /\ s \in [open : BOOLEAN, recs : Seq(Records)]
  BY <1>1
<1>3. /\ Len(s.recs) = Len(sock.recs) + 1
      /\ \A i \in 1..Len(sock.recs) : s.recs[i] = sock.recs[i]
      /\ s.recs[Len(sock.recs) + 1] = r
  BY <1>1, <1>2, AppendIs
<1>4. Len(sock.recs) \in Nat
  BY <1>1
<1>5. ASSUME NEW i \in 1..Len(s.recs), i > Room
      PROVE  s.recs[i].k = "cut"
  <2>1. CASE i \in 1..Len(sock.recs)
    BY <1>1, <1>3, <1>5, <2>1
  <2>2. CASE i = Len(sock.recs) + 1
    BY <1>3, <1>5, <2>2, <1>4, ConstantTypes
  <2>3. QED
    BY <1>3, <1>4, <2>1, <2>2
<1>6. QED
  BY <1>2, <1>5

LEMMA ReadGeometryTyped ==
  ASSUME TInv, ReadGeometry
  PROVE  TInv'
<1> DEFINE s == Head(queue).size
           p == Reconfigured(pipe, s)
<1>1. queue' \in Seq(Messages) /\ s \in Sizes
  BY ReadsTyped DEF ReadGeometry
<1>2. par \in Parameters
  BY DEF TInv, TypeOK
<1>3. CASE s = par.size
  BY <1>1, <1>3 DEF ReadGeometry, TInv, TypeOK, Bounds
<1>4. CASE s # par.size /\ pipe = None
  <2>1. par' \in Parameters
    BY <1>1, <1>2, <1>4 DEF ReadGeometry, Parameters
  <2>2. QED
    BY <1>1, <1>4, <2>1 DEF ReadGeometry, TInv, TypeOK, Bounds
<1>5. CASE s # par.size /\ pipe # None
  <2>1. par' \in Parameters
    BY <1>1, <1>2, <1>5 DEF ReadGeometry, Parameters
  <2>2. p \in Pipelines
    BY <1>1, <1>5, EncoderTypes, NumberTypes DEF TInv, TypeOK, Reconfigured, Pipelines
  <2>3. pipe' = Opened(p) /\ tail' = Opening(p)
    BY <1>5 DEF ReadGeometry
  <2>4. pipe' \in Pipelines /\ tail' \in Seq(Records) /\ Len(tail') = 1 /\ tail'[1].k = "config"
    BY <2>2, <2>3, OpenedTypes
  <2>5. sock' = sock \/ sock' = [sock EXCEPT !.recs = Append(@, Record("cut"))]
    BY <1>5 DEF ReadGeometry
  <2>6. /\ sock' \in [open : BOOLEAN, recs : Seq(Records)]
        /\ \A i \in 1..Len(sock'.recs) : i > Room => sock'.recs[i].k = "cut"
    <3>1. Record("cut") \in Records /\ Record("cut").k = "cut"
      BY RecordTypes DEF Record
    <3>2. CASE sock' = sock
      BY <3>2 DEF TInv, TypeOK
    <3>3. QED
      BY <2>5, <3>1, <3>2, SocketTyped
  <2>7. QED
    BY <1>1, <2>1, <2>4, <2>6 DEF ReadGeometry, TInv, TypeOK, Bounds
<1>6. QED
  BY <1>3, <1>4, <1>5

\* What a snapshot leaves in the pipeline.
LEMMA SubmitTypes ==
  ASSUME TInv, NEW p \in Pipelines, NEW msg \in Messages
  PROVE  WithCursor(p, msg.at) \in Pipelines /\ WithFrame(p, msg) \in Pipelines
<1>1. msg.at \in Places /\ msg.buf \in 0..1 /\ msg.dmg \in SUBSET Tiles
  BY DEF Messages
<1>2. WithCursor(p, msg.at) \in Pipelines
  BY <1>1 DEF WithCursor, Pipelines, Encoders
<1>3. WithFrame(p, msg) \in Pipelines
  <2> DEFINE pointer == IF par.stream THEN None ELSE msg.at
             px == Composite(out.bufs[msg.buf], pointer)
             hint == msg.dmg \cup PointerHint(p, pointer)
  <2>1. pointer \in Places
    BY <1>1, NumberTypes
  <2>2. out.bufs[msg.buf] \in [Tiles -> BOOLEAN]
    BY <1>1 DEF TInv, TypeOK, Outputs
  <2> HIDE DEF pointer
  <2>3. px \in Frames
    BY <2>1, <2>2, PixelTypes
  <2>4. hint \in SUBSET Tiles
    <3>1. p.drawn \in Places
      BY DEF Pipelines
    <3>2. QED
      BY <1>1, <2>1, <3>1, NumberTypes DEF PointerHint
  <2> HIDE DEF px, hint
  <2>5. WithFrame(p, msg) = [p EXCEPT !.drawn = pointer, !.enc = Staged(@, px, hint)]
    BY DEF WithFrame, pointer, px, hint
  <2>6. Staged(p.enc, px, hint) \in Encoders
    BY <2>3, <2>4 DEF Staged, Pipelines, Encoders
  <2>7. QED
    BY <2>1, <2>5, <2>6 DEF Pipelines
<1>4. QED
  BY <1>2, <1>3

LEMMA FaultTyped ==
  ASSUME TInv, Fault
  PROVE  faults' \in 0..MaxFaults
<1>1. faults \in 0..MaxFaults
  BY DEF TInv, TypeOK
<1>2. QED
  BY <1>1, ConstantTypes DEF Fault

LEMMA ReadSnapshotTyped ==
  ASSUME TInv, ReadSnapshot
  PROVE  TInv'
<1> DEFINE msg == Head(queue)
<1>1. queue' \in Seq(Messages) /\ msg \in Messages
  BY ReadsTyped DEF ReadSnapshot
<1>2. cap' \in Captures
  BY DEF ReadSnapshot, TInv, TypeOK, Captures
<1>3. /\ pipe' \in Pipelines \cup {None} /\ par' \in Parameters
      /\ missed' \in BOOLEAN /\ faults' \in 0..MaxFaults
  <2>1. CASE UNCHANGED <<pipe, par, missed, faults>>
    BY <2>1 DEF TInv, TypeOK
  <2>2. CASE /\ pipe # None /\ par' = [par EXCEPT !.cursor = <<msg.at>>]
             /\ pipe' = WithFrame(WithCursor(pipe, msg.at), msg) /\ UNCHANGED <<missed, faults>>
    <3>1. par' \in Parameters
      BY <1>1, <2>2 DEF TInv, TypeOK, Parameters, Messages
    <3>2. pipe' \in Pipelines
      BY <1>1, <2>2, SubmitTypes DEF TInv, TypeOK
    <3>3. QED
      BY <2>2, <3>1, <3>2 DEF TInv, TypeOK
  <2>3. CASE /\ pipe # None /\ par' = [par EXCEPT !.cursor = <<msg.at>>]
             /\ pipe' = WithCursor(pipe, msg.at) /\ missed' = TRUE /\ Fault
    <3>1. par' \in Parameters
      BY <1>1, <2>3 DEF TInv, TypeOK, Parameters, Messages
    <3>2. pipe' \in Pipelines
      BY <1>1, <2>3, SubmitTypes DEF TInv, TypeOK
    <3>3. QED
      BY <2>3, <3>1, <3>2, FaultTyped
  <2>4. CASE UNCHANGED <<pipe, par>> /\ missed' = TRUE /\ Fault
    BY <2>4, FaultTyped DEF TInv, TypeOK
  <2>5. QED
    BY <2>1, <2>2, <2>3, <2>4 DEF ReadSnapshot
<1>4. QED
  BY <1>1, <1>2, <1>3 DEF ReadSnapshot, TInv, TypeOK, Bounds

LEMMA EncodeTyped ==
  ASSUME TInv, Encode
  PROVE  TInv'
<1> DEFINE next == NextPayload(pipe.enc)
           kind == next.recs[1].k
           base == IF kind = "delta" THEN pipe.last ELSE 0
<1>1. pipe \in Pipelines /\ pipe.enc \in Encoders /\ pipe.seq \in Numbers /\ pipe.last \in Numbers
  BY DEF Encode, TInv, TypeOK, Pipelines
<1>2. next \in Payloads /\ (next.recs # <<>> => kind \in {"keyframe", "delta", "cursor"})
  BY <1>1, PayloadTypes
<1>3. base \in Numbers
  BY <1>1, NumberTypes
<1>4. CASE next.recs = <<>>
  <2>1. pipe' = [pipe EXCEPT !.enc = next.enc] /\ UNCHANGED tail
    BY <1>4 DEF Encode
  <2> HIDE DEF next
  <2>2. pipe' \in Pipelines
    BY <1>1, <1>2, <2>1 DEF Pipelines, Payloads
  <2>3. QED
    BY <2>1, <2>2 DEF Encode, TInv, TypeOK, Bounds
<1>5. CASE next.recs # <<>>
  <2>1. /\ pipe' = [pipe EXCEPT !.enc = next.enc, !.seq = Next32(@),
                                !.last = IF kind = "cursor" THEN @ ELSE pipe.seq]
        /\ tail' = <<[next.recs[1] EXCEPT !.seq = pipe.seq, !.base = base]>>
    BY <1>5 DEF Encode
  <2> HIDE DEF next, base
  <2>2. pipe' \in Pipelines
    BY <1>1, <1>2, <2>1, NumberTypes DEF Pipelines, Payloads
  <2>3. next.recs[1] \in Records
    BY <1>2, <1>5 DEF Payloads
  <2>4. /\ [next.recs[1] EXCEPT !.seq = pipe.seq, !.base = base] \in Records
        /\ [next.recs[1] EXCEPT !.seq = pipe.seq, !.base = base].k # "cut"
    BY <1>1, <1>2, <1>3, <1>5, <2>3 DEF Records
  <2>5. tail' \in Seq(Records) /\ Len(tail') = 1 /\ tail'[1].k # "cut"
    BY <2>1, <2>4, OneIs
  <2>6. QED
    BY <2>2, <2>5 DEF Encode, TInv, TypeOK, Bounds
<1>6. QED
  BY <1>4, <1>5

LEMMA WriteTyped ==
  ASSUME TInv, Write
  PROVE  TInv'
<1>1. tail \in Seq(Records) /\ tail # <<>> /\ Len(tail) <= 1
  BY DEF TInv, TypeOK, Write
<1>2. Head(tail) \in Records /\ tail' \in Seq(Records) /\ Len(tail') = 0
  <2>1. /\ Head(tail) \in Records /\ Tail(tail) \in Seq(Records)
        /\ Len(Tail(tail)) = Len(tail) - 1 /\ Len(tail) \in Nat \ {0}
    BY <1>1, TailIs
  <2>2. QED
    BY <1>1, <2>1 DEF Write
<1>3. /\ sock' \in [open : BOOLEAN, recs : Seq(Records)]
      /\ \A i \in 1..Len(sock'.recs) : i > Room => sock'.recs[i].k = "cut"
  BY <1>2, SocketTyped DEF Write
<1>4. QED
  BY <1>2, <1>3 DEF Write, TInv, TypeOK, Bounds

\* What the viewer makes of a record that it does not refuse.
LEMMA AppliedTypes ==
  ASSUME NEW v \in Videos, NEW r \in Records, ~Refuses(v, r)
  PROVE  Applied(v, r) \in Videos
<1>1. /\ r.k \in {"config", "keyframe", "delta", "cursor", "cut"} /\ r.seq \in Nat
      /\ r.size \in Sizes /\ r.px \in Frames /\ r.at \in Places /\ v.frame \in Frames
  BY ConstantTypes DEF Records, Numbers, Videos
<1>2. r.k # "cut"
  BY DEF Refuses
<1>3. CASE r.k = "config"
  BY <1>1, <1>3, PixelTypes DEF Applied, Videos
<1>4. CASE r.k = "keyframe"
  BY <1>1, <1>4 DEF Applied, Videos
<1>5. CASE r.k = "delta"
  <2> DEFINE frame == [t \in Tiles |-> Xor(v.frame[t], r.px[t])]
  <2>1. frame \in Frames
    BY <1>1, PixelTypes DEF Frames
  <2>2. Applied(v, r) = [v EXCEPT !.frame = frame, !.last = r.seq]
    BY <1>5 DEF Applied
  <2> HIDE DEF frame
  <2>3. QED
    BY <1>1, <2>1, <2>2 DEF Videos
<1>6. CASE r.k = "cursor"
  BY <1>1, <1>6 DEF Applied, Videos
<1>7. QED
  BY <1>1, <1>2, <1>3, <1>4, <1>5, <1>6

LEMMA ReadFrameTyped ==
  ASSUME TInv, ReadFrame
  PROVE  TInv'
<1> DEFINE r == Head(sock.recs)
<1>1. /\ sock \in [open : BOOLEAN, recs : Seq(Records)] /\ sock.recs # <<>>
      /\ sock' = [sock EXCEPT !.recs = Tail(@)]
      /\ \A i \in 1..Len(sock.recs) : i > Room => sock.recs[i].k = "cut"
  BY DEF TInv, TypeOK, ReadFrame
<1>2. /\ r \in Records /\ Tail(sock.recs) \in Seq(Records)
      /\ Len(sock.recs) \in Nat \ {0} /\ Len(Tail(sock.recs)) = Len(sock.recs) - 1
      /\ \A i \in 1..Len(Tail(sock.recs)) : Tail(sock.recs)[i] = sock.recs[i + 1]
  BY <1>1, TailIs
<1>3. sock' \in [open : BOOLEAN, recs : Seq(Records)] /\ sock'.recs = Tail(sock.recs)
  BY <1>1, <1>2
<1>4. \A i \in 1..Len(sock'.recs) : i > Room => sock'.recs[i].k = "cut"
  <2> DEFINE rest == Tail(sock.recs)
  <2>1. Len(rest) \in Nat /\ Room \in Nat
    BY <1>2, ConstantTypes
  <2> HIDE DEF rest
  <2>2. ASSUME NEW i \in 1..Len(rest), i > Room
        PROVE  i + 1 \in 1..Len(sock.recs) /\ i + 1 > Room /\ rest[i] = sock.recs[i + 1]
    <3>1. Len(rest) = Len(sock.recs) - 1 /\ Len(sock.recs) \in Nat
      BY <1>2 DEF rest
    <3>2. rest[i] = sock.recs[i + 1]
      BY <1>2 DEF rest
    <3>3. QED
      BY <2>1, <2>2, <3>1, <3>2
  <2>3. sock'.recs = rest
    BY <1>3 DEF rest
  <2>4. QED
    BY <1>1, <2>2, <2>3
<1>5. video' = Applied(video, r) /\ shown' = Uploaded(video', r) /\ ~Refuses(video, r)
  BY DEF ReadFrame
<1>6. video' \in Videos
  BY <1>2, <1>5, AppliedTypes DEF TInv, TypeOK
<1>7. shown' \in [Tiles -> Pixels \cup {None}]
  BY <1>5, <1>6, PixelTypes DEF Uploaded, TInv, TypeOK, Videos, Frames
<1>8. QED
  BY <1>3, <1>4, <1>6, <1>7 DEF ReadFrame, TInv, TypeOK, Bounds

LEMMA GivesUpTyped ==
  ASSUME TInv, GivesUp, faults' \in 0..MaxFaults
  PROVE  TInv'
<1>1. sock' \in [open : BOOLEAN, recs : Seq(Records)] /\ Len(sock'.recs) = 0
  BY DEF GivesUp
<1>2. video' \in Videos
  BY PixelTypes DEF GivesUp, NoVideo, TInv, TypeOK, Videos
<1>3. QED
  BY <1>1, <1>2 DEF GivesUp, TInv, TypeOK, Bounds

LEMMA RendererLostTyped ==
  ASSUME TInv, RendererLost
  PROVE  TInv'
<1>1. queue' \in Seq(Messages)
  BY RecordTypes, AppendIs DEF RendererLost, TInv, TypeOK
<1>2. faults' \in 0..MaxFaults
  BY FaultTyped DEF RendererLost
<1>3. shown' \in [Tiles -> Pixels \cup {None}]
  BY PixelTypes DEF RendererLost
<1>4. QED
  BY <1>1, <1>2, <1>3 DEF RendererLost, TInv, TypeOK, Bounds

LEMMA StepTyped == TInv /\ [Next]_vars => TInv'
<1> SUFFICES ASSUME TInv, [Next]_vars PROVE TInv'
  OBVIOUS
<1>1. CASE CompositorStep
  BY <1>1, CommitTyped, MovePointerTyped, SetModeTyped DEF CompositorStep
<1>2. CASE Snapshot
  BY <1>2, SnapshotTyped
<1>3. CASE ProcessStep
  BY <1>3, BindTyped, HangupTyped, ReadGeometryTyped, ReadKeyframeTyped, ReadSnapshotTyped,
     EncodeTyped, WriteTyped DEF ProcessStep
<1>4. CASE ViewerStep
  <2>1. CASE ReadFrame
    BY <2>1, ReadFrameTyped
  <2>2. CASE Rebind
    <3>1. GivesUp /\ faults' \in 0..MaxFaults
      BY <2>2 DEF Rebind, TInv, TypeOK
    <3>2. QED
      BY <3>1, GivesUpTyped
  <2>3. CASE SocketLost
    BY <2>3, GivesUpTyped, FaultTyped DEF SocketLost
  <2>4. CASE RendererLost
    BY <2>4, RendererLostTyped
  <2>5. QED
    BY <1>4, <2>1, <2>2, <2>3, <2>4 DEF ViewerStep
<1>5. CASE UNCHANGED vars
  BY <1>5 DEF vars, TInv, TypeOK, Bounds
<1>6. QED
  BY <1>1, <1>2, <1>3, <1>4, <1>5 DEF Next

\* Every part of the pipeline keeps its type, and the socket holds no more
\* whole records than it has room for.
THEOREM TypeCorrect == Spec => []TypeOK
<1>1. TInv => TypeOK
  BY DEF TInv
<1>2. QED
  BY <1>1, InitTyped, StepTyped, PTL DEF Spec

-----------------------------------------------------------------------------
(* The decoder follows the encoder. *)

\* The decoder goes from `v` through the records of `q`, refusing none of them,
\* and ends at `w`.
Leads(v, q, w) ==
  \E vs \in [0..Len(q) -> Videos] :
    /\ vs[0] = v /\ vs[Len(q)] = w
    /\ \A i \in 1..Len(q) : ~Refuses(vs[i - 1], q[i]) /\ vs[i] = Applied(vs[i - 1], q[i])

Whole(q) == \A i \in 1..Len(q) : q[i].k # "cut"

\* What the decoder has at the end of what is owed to it, and what the encoder
\* takes it to have.  The sizes agree before there is a first frame.
Agrees(w, p) == /\ w.size = p.enc.size
                /\ p.enc.has => w.frame = p.enc.ref /\ w.last = p.last

Follows ==
  sock.open /\ pipe # None /\ Whole(Owed) =>
    \E w \in Videos : Leads(video, Owed, w) /\ Agrees(w, pipe)

FInv == TInv /\ Follows

\* One record more, one record fewer at the end, one record fewer at the head.
LEMMA LeadsOn ==
  ASSUME NEW v \in Videos, NEW w \in Videos, NEW q \in Seq(Records), NEW q2 \in Seq(Records),
         Len(q2) = Len(q) + 1, \A i \in 1..Len(q) : q2[i] = q[i],
         Leads(v, q, w), ~Refuses(w, q2[Len(q) + 1])
  PROVE  /\ Applied(w, q2[Len(q) + 1]) \in Videos
         /\ Leads(v, q2, Applied(w, q2[Len(q) + 1]))
<1> DEFINE n == Len(q)
           x == Applied(w, q2[n + 1])
<1>1. n \in Nat /\ Len(q2) = n + 1 /\ q2[n + 1] \in Records
  OBVIOUS
<1>2. x \in Videos
  BY <1>1, AppliedTypes
<1>3. PICK vs \in [0..n -> Videos] :
        /\ vs[0] = v /\ vs[n] = w
        /\ \A i \in 1..n : ~Refuses(vs[i - 1], q[i]) /\ vs[i] = Applied(vs[i - 1], q[i])
  BY DEF Leads
<1> DEFINE us == [i \in 0..(n + 1) |-> IF i = n + 1 THEN x ELSE vs[i]]
<1>4. us \in [0..Len(q2) -> Videos] /\ us[0] = v /\ us[Len(q2)] = x
  BY <1>1, <1>2, <1>3
<1>5. ASSUME NEW i \in 1..Len(q2)
      PROVE  ~Refuses(us[i - 1], q2[i]) /\ us[i] = Applied(us[i - 1], q2[i])
  <2>1. CASE i = n + 1
    BY <1>1, <1>3, <2>1
  <2>2. CASE i \in 1..n
    <3>1. us[i] = vs[i] /\ us[i - 1] = vs[i - 1] /\ q2[i] = q[i]
      BY <1>1, <2>2
    <3>2. QED
      BY <1>3, <2>2, <3>1
  <2>3. QED
    BY <1>1, <2>1, <2>2
<1> HIDE DEF us, x
<1>6. Leads(v, q2, x)
  BY <1>4, <1>5 DEF Leads
<1>7. QED
  BY <1>2, <1>6 DEF x

LEMMA LeadsLess ==
  ASSUME NEW v \in Videos, NEW w \in Videos, NEW q \in Seq(Records), NEW q2 \in Seq(Records),
         Len(q2) = Len(q) + 1, \A i \in 1..Len(q) : q2[i] = q[i], Leads(v, q2, w)
  PROVE  \E u \in Videos : Leads(v, q, u)
<1> DEFINE n == Len(q)
<1>1. n \in Nat /\ Len(q2) = n + 1
  OBVIOUS
<1>2. PICK vs \in [0..(n + 1) -> Videos] :
        /\ vs[0] = v
        /\ \A i \in 1..(n + 1) : ~Refuses(vs[i - 1], q2[i]) /\ vs[i] = Applied(vs[i - 1], q2[i])
  BY <1>1 DEF Leads
<1> DEFINE us == [i \in 0..n |-> vs[i]]
<1>3. us \in [0..n -> Videos] /\ us[0] = v /\ us[n] \in Videos
  BY <1>1, <1>2
<1>4. ASSUME NEW i \in 1..n
      PROVE  ~Refuses(us[i - 1], q[i]) /\ us[i] = Applied(us[i - 1], q[i])
  <2>1. us[i] = vs[i] /\ us[i - 1] = vs[i - 1] /\ q2[i] = q[i] /\ i \in 1..(n + 1)
    BY <1>1
  <2>2. QED
    BY <1>2, <2>1
<1> HIDE DEF us
<1>5. Leads(v, q, us[n])
  BY <1>3, <1>4 DEF Leads
<1>6. QED
  BY <1>3, <1>5

LEMMA LeadsFrom ==
  ASSUME NEW v \in Videos, NEW w \in Videos, NEW q \in Seq(Records), NEW q2 \in Seq(Records),
         Len(q) = Len(q2) + 1, \A i \in 1..Len(q2) : q2[i] = q[i + 1], Leads(v, q, w)
  PROVE  Leads(Applied(v, q[1]), q2, w)
<1> DEFINE n == Len(q2)
<1>1. n \in Nat /\ Len(q) = n + 1
  OBVIOUS
<1>2. PICK vs \in [0..(n + 1) -> Videos] :
        /\ vs[0] = v /\ vs[n + 1] = w
        /\ \A i \in 1..(n + 1) : ~Refuses(vs[i - 1], q[i]) /\ vs[i] = Applied(vs[i - 1], q[i])
  BY <1>1 DEF Leads
<1> DEFINE us == [i \in 0..n |-> vs[i + 1]]
<1>3. us \in [0..n -> Videos] /\ us[0] = vs[1] /\ us[n] = w
  BY <1>1, <1>2
<1>4. vs[1] = Applied(v, q[1])
  <2>1. 1 \in 1..(n + 1) /\ 1 - 1 = 0
    BY <1>1
  <2>2. QED
    BY <1>2, <2>1
<1>5. ASSUME NEW i \in 1..n
      PROVE  ~Refuses(us[i - 1], q2[i]) /\ us[i] = Applied(us[i - 1], q2[i])
  <2>1. /\ us[i] = vs[i + 1] /\ us[i - 1] = vs[i] /\ q2[i] = q[i + 1]
        /\ i + 1 \in 1..(n + 1) /\ (i + 1) - 1 = i
    <3>1. /\ i - 1 \in 0..n /\ i \in 0..n /\ (i - 1) + 1 = i
          /\ i + 1 \in 1..(n + 1) /\ (i + 1) - 1 = i
      BY <1>1
    <3>2. us[i - 1] = vs[(i - 1) + 1] /\ us[i] = vs[i + 1]
      BY <3>1
    <3>3. QED
      BY <3>1, <3>2
  <2>2. ~Refuses(vs[i], q[i + 1]) /\ vs[i + 1] = Applied(vs[i], q[i + 1])
    BY <1>2, <2>1
  <2>3. QED
    BY <2>1, <2>2
<1> HIDE DEF us
<1>6. QED
  BY <1>3, <1>4, <1>5 DEF Leads

LEMMA LeadsSame ==
  ASSUME NEW v, NEW w, NEW q \in Seq(Records), NEW q2 \in Seq(Records),
         Len(q2) = Len(q), \A i \in 1..Len(q) : q2[i] = q[i], Leads(v, q, w)
  PROVE  Leads(v, q2, w)
  BY DEF Leads

\* `q` is the records `rs` and then the records `ts`.
Joins(q, rs, ts) ==
  /\ q \in Seq(Records) /\ Len(q) = Len(rs) + Len(ts) /\ Len(rs) \in Nat /\ Len(ts) \in Nat
  /\ \A i \in 1..Len(rs) : q[i] = rs[i]
  /\ \A i \in 1..Len(ts) : q[Len(rs) + i] = ts[i]
  /\ Whole(q) <=> Whole(rs) /\ Whole(ts)

LEMMA OwedIs ==
  ASSUME NEW rs \in Seq(Records), NEW ts \in Seq(Records)
  PROVE  Joins(rs \o ts, rs, ts)
<1>1. /\ rs \o ts \in Seq(Records) /\ Len(rs \o ts) = Len(rs) + Len(ts)
      /\ Len(rs) \in Nat /\ Len(ts) \in Nat
      /\ \A i \in 1..Len(rs) : (rs \o ts)[i] = rs[i]
      /\ \A i \in 1..Len(ts) : (rs \o ts)[Len(rs) + i] = ts[i]
  BY ConcatIs
<1> DEFINE q == rs \o ts
           m == Len(rs)
           n == Len(ts)
<1>2. m \in Nat /\ n \in Nat /\ Len(q) = m + n
  BY <1>1
<1>3. ASSUME Whole(q) PROVE Whole(rs) /\ Whole(ts)
  <2>1. ASSUME NEW i \in 1..m PROVE rs[i].k # "cut"
    <3>1. i \in 1..(m + n)
      BY <1>2
    <3>2. q[i] = rs[i] /\ q[i].k # "cut"
      BY <1>1, <1>2, <1>3, <3>1 DEF Whole
    <3>3. QED
      BY <3>2
  <2>2. ASSUME NEW i \in 1..n PROVE ts[i].k # "cut"
    <3>1. m + i \in 1..(m + n)
      BY <1>2
    <3>2. q[m + i] = ts[i] /\ q[m + i].k # "cut"
      BY <1>1, <1>2, <1>3, <3>1 DEF Whole
    <3>3. QED
      BY <3>2
  <2>3. QED
    BY <2>1, <2>2 DEF Whole
<1>4. ASSUME Whole(rs), Whole(ts) PROVE Whole(q)
  <2> SUFFICES ASSUME NEW i \in 1..(m + n) PROVE q[i].k # "cut"
    BY <1>2 DEF Whole
  <2>1. CASE i \in 1..m
    BY <1>1, <1>4, <2>1 DEF Whole
  <2>2. CASE i \notin 1..m
    <3>1. i - m \in 1..n /\ m + (i - m) = i
      BY <1>2, <2>2
    <3>2. q[m + (i - m)] = ts[i - m]
      BY <1>1, <3>1
    <3>3. QED
      BY <1>4, <3>1, <3>2 DEF Whole
  <2>3. QED
    BY <2>1, <2>2
<1>5. QED
  BY <1>1, <1>3, <1>4 DEF Joins

\* The socket and the tail are sequences of records; the tail is whole.
LEMMA StreamTypes ==
  ASSUME TInv
  PROVE  /\ sock.recs \in Seq(Records) /\ tail \in Seq(Records) /\ Owed \in Seq(Records)
         /\ Joins(Owed, sock.recs, tail) /\ Len(tail) \in {0, 1} /\ Whole(tail) /\ video \in Videos
         /\ pipe # None => /\ pipe \in Pipelines /\ pipe.enc \in Encoders
                           /\ pipe.seq \in Numbers /\ pipe.last \in Numbers
<1>1. /\ sock.recs \in Seq(Records) /\ tail \in Seq(Records) /\ Len(tail) <= 1 /\ Whole(tail)
      /\ video \in Videos /\ pipe \in Pipelines \cup {None}
  BY DEF TInv, TypeOK, Bounds, Whole
<1>2. Joins(Owed, sock.recs, tail)
  BY <1>1, OwedIs, Zenon DEF Owed
<1>3. Len(tail) \in {0, 1}
  <2>1. Len(tail) \in Nat /\ Len(tail) <= 1
    BY <1>1
  <2>2. \A n \in Nat : n <= 1 => n \in {0, 1}
    OBVIOUS
  <2>3. QED
    BY <2>1, <2>2, Zenon
<1>4. QED
  BY <1>1, <1>2, <1>3 DEF Pipelines, Joins

\* Nothing the socket, the decoder or the encoder's reference knows of.
LEMMA FollowsOn ==
  ASSUME FInv, UNCHANGED <<sock, tail, video>>,
         \/ pipe' = pipe
         \/ /\ pipe # None
            /\ pipe'.enc.size = pipe.enc.size /\ pipe'.enc.has = pipe.enc.has
            /\ pipe'.enc.ref = pipe.enc.ref /\ pipe'.last = pipe.last
  PROVE  Follows'
<1>1. Owed' = Owed
  BY DEF Owed
<1>2. \A w : pipe # None /\ Agrees(w, pipe) => Agrees(w, pipe')
  BY DEF Agrees
<1>3. QED
  BY <1>1, <1>2 DEF FInv, Follows

\* A socket that is closed, or no channel, owes the decoder nothing.
LEMMA FollowsClosed ==
  ASSUME ~sock'.open \/ pipe' = None
  PROVE  Follows'
  BY DEF Follows

\* A record behind what is owed, when nothing waits for the socket.
LEMMA FollowsRecord ==
  ASSUME FInv, TInv', UNCHANGED <<sock, video>>, tail = <<>>, pipe # None,
         Len(tail') = 1,
         \A w \in Videos : Agrees(w, pipe) =>
           ~Refuses(w, tail'[1]) /\ Agrees(Applied(w, tail'[1]), pipe')
  PROVE  Follows'
<1> SUFFICES ASSUME sock.open, Whole(Owed')
             PROVE  \E w \in Videos : Leads(video, Owed', w) /\ Agrees(w, pipe')
  BY DEF Follows
<1>1. /\ sock.recs \in Seq(Records) /\ Owed \in Seq(Records) /\ video \in Videos
      /\ Joins(Owed, sock.recs, tail)
  BY StreamTypes DEF FInv
<1>2. Joins(Owed', sock.recs, tail')
  <2>1. tail' \in Seq(Records) /\ Owed' = sock.recs \o tail'
    BY DEF TInv, TypeOK, Owed
  <2>2. QED
    BY <1>1, <2>1, OwedIs, Zenon
<1>3. /\ Len(Owed) = Len(sock.recs) /\ Len(sock.recs) \in Nat
      /\ \A i \in 1..Len(sock.recs) : Owed[i] = sock.recs[i]
      /\ Whole(Owed) <=> Whole(sock.recs)
  <2>1. Len(tail) = 0 /\ Whole(tail)
    BY DEF Whole
  <2>2. QED
    BY <1>1, <2>1 DEF Joins
<1>4. /\ Owed' \in Seq(Records) /\ Len(Owed') = Len(sock.recs) + 1
      /\ \A i \in 1..Len(sock.recs) : Owed'[i] = sock.recs[i]
      /\ Owed'[Len(sock.recs) + 1] = tail'[1] /\ Whole(sock.recs)
  BY <1>2 DEF Joins
<1>5. PICK w \in Videos : Leads(video, Owed, w) /\ Agrees(w, pipe)
  BY <1>3, <1>4 DEF FInv, Follows
<1>6. ~Refuses(w, tail'[1]) /\ Agrees(Applied(w, tail'[1]), pipe')
  BY <1>5
<1>7. Applied(w, tail'[1]) \in Videos /\ Leads(video, Owed', Applied(w, tail'[1]))
  BY <1>1, <1>2, <1>3, <1>4, <1>5, <1>6, LeadsOn
<1>8. QED
  BY <1>6, <1>7

\* A StreamConfig behind records that the decoder gets through: at Bind behind
\* none, at a resize behind what is on the socket.
LEMMA FollowsOpening ==
  ASSUME TInv', video \in Videos, video' = video,
         Whole(sock'.recs) => \E u \in Videos : Leads(video, sock'.recs, u),
         Len(tail') = 1, tail'[1].k = "config", tail'[1].size = pipe'.enc.size,
         pipe'.enc.has = FALSE
  PROVE  Follows'
<1> SUFFICES ASSUME Whole(Owed')
             PROVE  \E w \in Videos : Leads(video, Owed', w) /\ Agrees(w, pipe')
  BY DEF Follows
<1> DEFINE rs == sock'.recs
           r == tail'[1]
<1>1. rs \in Seq(Records) /\ tail' \in Seq(Records) /\ r \in Records
  <2>1. sock'.recs \in Seq(Records) /\ tail' \in Seq(Records)
    BY DEF TInv, TypeOK
  <2>2. QED
    BY <2>1
<1>2. Joins(Owed', rs, tail')
  BY <1>1, OwedIs, Zenon DEF Owed
<1> HIDE DEF rs
<1>3. /\ Owed' \in Seq(Records) /\ Len(Owed') = Len(rs) + 1 /\ Len(rs) \in Nat
      /\ \A i \in 1..Len(rs) : Owed'[i] = rs[i]
      /\ Owed'[Len(rs) + 1] = r /\ Whole(rs)
  BY <1>2 DEF Joins
<1>4. PICK u \in Videos : Leads(video, rs, u)
  BY <1>3 DEF rs
<1>5. ~Refuses(u, r) /\ Agrees(Applied(u, r), pipe')
  BY DEF Refuses, Applied, Agrees, Videos
<1> HIDE DEF r
<1>6. Applied(u, r) \in Videos /\ Leads(video, Owed', Applied(u, r))
  BY <1>1, <1>3, <1>4, <1>5, LeadsOn
<1>7. QED
  BY <1>5, <1>6

LEMMA BindFollows ==
  ASSUME FInv, TInv', Bind
  PROVE  Follows'
<1>1. par.size \in Sizes /\ video \in Videos /\ video' = video
  BY DEF Bind, FInv, TInv, TypeOK, Parameters
<1>2. Pipeline(par.size) \in Pipelines
  BY <1>1, EncoderTypes
<1>3. /\ pipe' = Opened(Pipeline(par.size)) /\ tail' = Opening(Pipeline(par.size))
      /\ sock'.recs = <<>>
  BY DEF Bind
<1>4. /\ pipe' \in Pipelines /\ Len(tail') = 1 /\ tail'[1].k = "config"
      /\ tail'[1].size = Pipeline(par.size).enc.size
  BY <1>2, <1>3, OpenedTypes
<1>5. pipe'.enc.size = Pipeline(par.size).enc.size /\ pipe'.enc.has = FALSE
  BY <1>3 DEF Opened, Pipeline, Encoder
<1>6. Leads(video, sock'.recs, video)
  <2> DEFINE vs == [i \in 0..0 |-> video]
             q == sock'.recs
  <2>1. vs \in [0..0 -> Videos] /\ vs[0] = video
    BY <1>1
  <2>2. Len(q) = 0
    BY <1>3
  <2> HIDE DEF vs, q
  <2>3. vs \in [0..Len(q) -> Videos] /\ vs[Len(q)] = video /\ \A i \in 1..Len(q) : FALSE
    BY <2>1, <2>2
  <2>4. QED
    BY <2>1, <2>3, Zenon DEF Leads, q
<1>7. QED
  BY <1>1, <1>4, <1>5, <1>6, FollowsOpening

LEMMA ReadGeometryFollows ==
  ASSUME FInv, TInv', ReadGeometry
  PROVE  Follows'
<1> DEFINE s == Head(queue).size
           p == Reconfigured(pipe, s)
<1>1. CASE UNCHANGED <<sock, tail, video, pipe>>
  BY <1>1, FollowsOn
<1>2. CASE /\ pipe # None /\ s # par.size /\ pipe' = Opened(p) /\ tail' = Opening(p)
           /\ sock' = sock \/ sock' = [sock EXCEPT !.recs = Append(@, Record("cut"))]
  <2>1. s \in Sizes /\ video' = video
    BY ReadsTyped DEF ReadGeometry, FInv
  <2>2. /\ pipe \in Pipelines /\ video \in Videos /\ sock.recs \in Seq(Records)
        /\ Joins(Owed, sock.recs, tail) /\ Len(tail) \in {0, 1} /\ Whole(tail)
    BY <1>2, StreamTypes DEF FInv
  <2>3. p \in Pipelines /\ p.enc.size = s /\ p.enc.has = FALSE
    <3>1. Encoder(s) \in Encoders /\ Encoder(s).size = s /\ Encoder(s).has = FALSE
      BY <2>1, EncoderTypes DEF Encoder
    <3>2. p = [pipe EXCEPT !.enc = Encoder(s), !.last = 0]
      BY DEF Reconfigured
    <3>3. QED
      BY <2>2, <3>1, <3>2, NumberTypes DEF Pipelines
  <2> HIDE DEF p, s
  <2>4. /\ Opened(p) \in Pipelines /\ Len(tail') = 1 /\ tail'[1].k = "config"
        /\ tail'[1].size = p.enc.size
    BY <1>2, <2>3, OpenedTypes
  <2>5. pipe'.enc.size = s /\ pipe'.enc.has = FALSE
    BY <1>2, <2>3 DEF Opened, Pipelines, Encoders
  <2>6. CASE sock' = sock /\ sock.open
    <3>1. ASSUME Whole(sock.recs)
          PROVE  \E u \in Videos : Leads(video, sock.recs, u)
      <4>1. PICK w \in Videos : Leads(video, Owed, w)
        BY <1>2, <2>2, <2>6, <3>1 DEF FInv, Follows, Joins
      <4>2. CASE Len(tail) = 0
        BY <2>2, <4>1, <4>2, LeadsSame DEF Joins
      <4>3. CASE Len(tail) = 1
        BY <2>2, <4>1, <4>3, LeadsLess DEF Joins
      <4>4. QED
        BY <2>2, <4>2, <4>3
    <3>2. QED
      BY <2>1, <2>2, <2>3, <2>4, <2>5, <2>6, <3>1, FollowsOpening
  <2>7. CASE sock' # sock
    <3>1. sock'.recs = Append(sock.recs, Record("cut"))
      BY <1>2, <2>7 DEF FInv, TInv, TypeOK
    <3>2. Record("cut") \in Records /\ Record("cut").k = "cut"
      BY RecordTypes DEF Record
    <3>3. ~Whole(sock'.recs)
      <4>1. /\ Len(sock'.recs) = Len(sock.recs) + 1 /\ Len(sock.recs) \in Nat
            /\ sock'.recs[Len(sock.recs) + 1] = Record("cut")
        BY <2>2, <3>1, <3>2, AppendIs
      <4>2. QED
        BY <3>2, <4>1 DEF Whole
    <3>4. sock'.recs \in Seq(Records) /\ tail' \in Seq(Records)
      BY DEF TInv, TypeOK
    <3>5. Joins(Owed', sock'.recs, tail')
      BY <3>4, OwedIs, Zenon DEF Owed
    <3>6. QED
      BY <3>3, <3>5 DEF Joins, Follows
  <2>8. CASE sock' = sock /\ ~sock.open
    BY <2>8, FollowsClosed
  <2>9. QED
    BY <2>6, <2>7, <2>8
<1>3. QED
  BY <1>1, <1>2 DEF ReadGeometry

\* What the encoder's steps do to what the decoder is to have.
LEMMA PayloadIs ==
  ASSUME NEW e \in Encoders
  PROVE  LET n == NextPayload(e) IN
         /\ n.enc.size = e.size
         /\ \/ n.enc.has = e.has /\ n.enc.ref = e.ref /\ n.recs = <<>>
            \/ /\ n.enc.has = e.has /\ n.enc.ref = e.ref
               /\ n.recs # <<>> /\ n.recs[1].k = "cursor"
            \/ /\ n.enc.ref = e.stg /\ n.recs # <<>> /\ n.recs[1].k = "keyframe"
               /\ n.recs[1].px = e.stg /\ n.recs[1].size = e.size
            \/ /\ e.has /\ n.recs # <<>> /\ n.recs[1].k = "delta" /\ n.recs[1].size = e.size
               /\ [t \in Tiles |-> Xor(e.ref[t], n.recs[1].px[t])] = n.enc.ref
<1>1. ASSUME NEW f \in Encoders
      PROVE  LET n == CursorPayload(f) IN
             /\ n.enc.size = f.size /\ n.enc.has = f.has /\ n.enc.ref = f.ref
             /\ n.recs = <<>> \/ (n.recs # <<>> /\ n.recs[1].k = "cursor")
  <2> DEFINE r == [Record("cursor") EXCEPT !.at = f.cursor]
             g == [f EXCEPT !.moved = FALSE]
  <2>1. r.k = "cursor" /\ g.size = f.size /\ g.has = f.has /\ g.ref = f.ref
    BY DEF Record, Encoders
  <2>2. CursorPayload(f) = IF f.moved THEN [enc |-> g, recs |-> <<r>>] ELSE [enc |-> f, recs |-> <<>>]
    BY DEF CursorPayload
  <2> HIDE DEF r, g
  <2>3. QED
    BY <2>1, <2>2
<1>2. LET n == KeyframePayload(e) IN
      /\ n.enc.size = e.size /\ n.enc.ref = e.stg /\ n.recs # <<>> /\ n.recs[1].k = "keyframe"
      /\ n.recs[1].px = e.stg /\ n.recs[1].size = e.size
  <2> DEFINE r == [Record("keyframe") EXCEPT !.tiles = Tiles, !.px = e.stg, !.size = e.size]
             g == Taken(Keyframed(e))
  <2>1. r.k = "keyframe" /\ r.px = e.stg /\ r.size = e.size
    BY DEF Record
  <2>2. g.size = e.size /\ g.ref = e.stg
    BY DEF Taken, Keyframed, Encoders
  <2>3. KeyframePayload(e) = [enc |-> g, recs |-> <<r>>]
    BY DEF KeyframePayload
  <2> HIDE DEF r, g
  <2>4. QED
    BY <2>1, <2>2, <2>3
<1> DEFINE ref == [t \in Tiles |-> IF t \in Changed(e) THEN e.stg[t] ELSE e.ref[t]]
           d == Taken(Deltaed(e))
<1>3. d.size = e.size /\ d.has = e.has /\ d.ref = ref
  BY DEF Taken, Deltaed, Encoders
<1>4. d \in Encoders
  BY StepTypes
<1> HIDE DEF d
<1>5. ASSUME Changed(e) = {}
      PROVE  ref = e.ref
  BY <1>5 DEF Encoders, Frames
<1>6. LET n == DeltaPayload(e) IN
      /\ n.enc = d /\ n.recs # <<>> /\ n.recs[1].k = "delta" /\ n.recs[1].size = e.size
      /\ [t \in Tiles |-> Xor(e.ref[t], n.recs[1].px[t])] = ref
  <2> DEFINE px == [t \in Tiles |-> IF t \in Changed(e) THEN Xor(e.stg[t], e.ref[t])
                                     ELSE <<FALSE, FALSE>>]
             r == [Record("delta") EXCEPT !.tiles = Changed(e), !.size = e.size, !.px = px]
  <2>1. r.k = "delta" /\ r.size = e.size /\ r.px = px
    BY DEF Record
  <2>2. DeltaPayload(e) = [enc |-> d, recs |-> <<r>>]
    BY DEF DeltaPayload, d
  <2>3. ASSUME NEW t \in Tiles
        PROVE  Xor(e.ref[t], px[t]) = ref[t]
    <3>1. e.ref[t] \in Pixels /\ e.stg[t] \in Pixels
      BY DEF Encoders, Frames
    <3>2. CASE t \in Changed(e)
      BY <3>1, <3>2, PixelTypes
    <3>3. CASE t \notin Changed(e)
      <4>1. PICK a \in BOOLEAN, b \in BOOLEAN : e.ref[t] = <<a, b>>
        BY <3>1 DEF Pixels
      <4>2. Xor(<<a, b>>, <<FALSE, FALSE>>) = <<a # FALSE, b # FALSE>>
        BY DEF Xor
      <4>3. (a # FALSE) = a /\ (b # FALSE) = b
        BY Zenon
      <4>4. px[t] = <<FALSE, FALSE>> /\ ref[t] = e.ref[t]
        BY <3>3
      <4>5. QED
        BY <4>1, <4>2, <4>3, <4>4, Zenon
    <3>4. QED
      BY <3>2, <3>3
  <2>4. [t \in Tiles |-> Xor(e.ref[t], px[t])] = ref
    BY <2>3
  <2> HIDE DEF px, r, ref
  <2>5. QED
    BY <2>1, <2>2, <2>4
<1> HIDE DEF ref
<1>7. CASE e.pend /\ KeyframeDue(e)
  <2>1. NextPayload(e) = KeyframePayload(e)
    BY <1>7 DEF NextPayload
  <2>2. QED
    BY <1>2, <2>1
<1>8. CASE e.pend /\ ~KeyframeDue(e) /\ Changed(e) # {}
  <2>1. NextPayload(e) = DeltaPayload(e) /\ e.has
    BY <1>8 DEF NextPayload, KeyframeDue
  <2>2. QED
    BY <1>3, <1>6, <2>1
<1>9. CASE e.pend /\ ~KeyframeDue(e) /\ Changed(e) = {}
  <2>1. NextPayload(e) = CursorPayload(d) /\ ref = e.ref
    BY <1>5, <1>9 DEF NextPayload, d
  <2>2. QED
    BY <1>1, <1>3, <1>4, <2>1
<1>10. CASE ~e.pend /\ e.key /\ e.has
  <2>1. NextPayload(e) = KeyframePayload(e)
    BY <1>10 DEF NextPayload
  <2>2. QED
    BY <1>2, <2>1
<1>11. CASE ~e.pend /\ ~(e.key /\ e.has)
  <2>1. NextPayload(e) = CursorPayload(e)
    BY <1>11 DEF NextPayload
  <2>2. QED
    BY <1>1, <2>1
<1>12. QED
  BY <1>7, <1>8, <1>9, <1>10, <1>11

LEMMA EncodeFollows ==
  ASSUME FInv, TInv', Encode
  PROVE  Follows'
<1> DEFINE next == NextPayload(pipe.enc)
           kind == next.recs[1].k
           base == IF kind = "delta" THEN pipe.last ELSE 0
<1>1. /\ pipe # None /\ tail = <<>> /\ UNCHANGED <<sock, video>>
      /\ pipe \in Pipelines /\ pipe.enc \in Encoders
      /\ pipe.seq \in Numbers /\ pipe.last \in Numbers
  BY StreamTypes DEF Encode, FInv
<1>2. /\ next \in Payloads
      /\ next.enc.size = pipe.enc.size
      /\ \/ next.enc.has = pipe.enc.has /\ next.enc.ref = pipe.enc.ref /\ next.recs = <<>>
         \/ /\ next.enc.has = pipe.enc.has /\ next.enc.ref = pipe.enc.ref
            /\ next.recs # <<>> /\ next.recs[1].k = "cursor"
         \/ /\ next.enc.ref = pipe.enc.stg /\ next.recs # <<>> /\ next.recs[1].k = "keyframe"
            /\ next.recs[1].px = pipe.enc.stg /\ next.recs[1].size = pipe.enc.size
         \/ /\ pipe.enc.has /\ next.recs # <<>>
            /\ next.recs[1].k = "delta" /\ next.recs[1].size = pipe.enc.size
            /\ [t \in Tiles |-> Xor(pipe.enc.ref[t], next.recs[1].px[t])] = next.enc.ref
  BY <1>1, PayloadIs, PayloadTypes
<1>3. /\ next.recs = <<>> => pipe' = [pipe EXCEPT !.enc = next.enc] /\ UNCHANGED tail
      /\ next.recs # <<>> =>
           /\ pipe' = [pipe EXCEPT !.enc = next.enc, !.seq = Next32(@),
                                   !.last = IF kind = "cursor" THEN @ ELSE pipe.seq]
           /\ tail' = <<[next.recs[1] EXCEPT !.seq = pipe.seq, !.base = base]>>
  BY DEF Encode
<1> HIDE DEF next
<1>4. CASE next.recs = <<>>
  <2>1. pipe'.enc = next.enc /\ pipe'.last = pipe.last /\ UNCHANGED tail
    BY <1>1, <1>3, <1>4 DEF Pipelines
  <2>2. QED
    BY <1>1, <1>2, <1>4, <2>1, FollowsOn
<1>5. CASE next.recs # <<>>
  <2> DEFINE r == [next.recs[1] EXCEPT !.seq = pipe.seq, !.base = base]
  <2>1. next.recs[1] \in Records
    BY <1>2, <1>5 DEF Payloads
  <2>2. /\ r.k = kind /\ r.seq = pipe.seq /\ r.base = base /\ r.size = next.recs[1].size
        /\ r.px = next.recs[1].px
    BY <2>1 DEF Records
  <2>3. /\ pipe'.enc = next.enc
        /\ pipe'.last = IF kind = "cursor" THEN pipe.last ELSE pipe.seq
    BY <1>1, <1>3, <1>5 DEF Pipelines
  <2>4. Len(tail') = 1 /\ tail'[1] = r
    BY <1>3, <1>5
  <2> HIDE DEF r
  <2>5. ASSUME NEW w \in Videos, Agrees(w, pipe)
        PROVE  ~Refuses(w, r) /\ Agrees(Applied(w, r), pipe')
    <3>1. CASE kind = "cursor"
      BY <1>2, <1>5, <2>2, <2>3, <2>5, <3>1 DEF Refuses, Applied, Agrees, Videos
    <3>2. CASE kind = "keyframe"
      BY <1>2, <1>5, <2>2, <2>3, <2>5, <3>2 DEF Refuses, Applied, Agrees, Videos
    <3>3. CASE kind = "delta"
      <4> DEFINE frame == [t \in Tiles |-> Xor(w.frame[t], r.px[t])]
      <4>1. w.size = pipe.enc.size /\ w.frame = pipe.enc.ref /\ w.last = pipe.last
        BY <1>2, <1>5, <2>5, <3>3 DEF Agrees
      <4>2. frame = next.enc.ref
        BY <1>2, <1>5, <2>2, <3>3, <4>1
      <4>3. Applied(w, r) = [w EXCEPT !.frame = frame, !.last = r.seq]
        BY <2>2, <3>3 DEF Applied
      <4> HIDE DEF frame
      <4>4. Agrees(Applied(w, r), pipe')
        BY <1>2, <1>5, <2>2, <2>3, <3>3, <4>1, <4>2, <4>3 DEF Agrees, Videos
      <4>5. ~Refuses(w, r)
        BY <1>2, <1>5, <2>2, <3>3, <4>1 DEF Refuses
      <4>6. QED
        BY <4>4, <4>5
    <3>4. QED
      BY <1>2, <1>5, <3>1, <3>2, <3>3
  <2>6. QED
    BY <1>1, <2>4, <2>5, FollowsRecord
<1>6. QED
  BY <1>4, <1>5

LEMMA WriteFollows ==
  ASSUME FInv, TInv', Write
  PROVE  Follows'
<1>1. /\ sock.recs \in Seq(Records) /\ tail \in Seq(Records) /\ Owed \in Seq(Records)
      /\ Joins(Owed, sock.recs, tail) /\ Len(tail) \in {0, 1} /\ tail # <<>>
      /\ sock \in [open : BOOLEAN, recs : Seq(Records)]
  BY StreamTypes DEF FInv, Write, TInv, TypeOK
<1>2. /\ sock' = [sock EXCEPT !.recs = Append(@, Head(tail))] /\ tail' = Tail(tail)
      /\ UNCHANGED <<pipe, video>>
  BY DEF Write
<1>3. /\ Len(tail) = 1 /\ Head(tail) = tail[1] /\ Len(Tail(tail)) = 0
      /\ Head(tail) \in Records /\ Tail(tail) \in Seq(Records)
  <2>1. /\ Len(tail) \in Nat \ {0} /\ Head(tail) = tail[1] /\ Len(Tail(tail)) = Len(tail) - 1
        /\ Head(tail) \in Records /\ Tail(tail) \in Seq(Records)
    BY <1>1, TailIs
  <2>2. QED
    BY <1>1, <2>1
<1>4. sock'.recs = Append(sock.recs, Head(tail)) /\ sock'.open = sock.open
  BY <1>1, <1>2
<1>5. /\ sock'.recs \in Seq(Records) /\ Len(sock'.recs) = Len(sock.recs) + 1
      /\ \A i \in 1..Len(sock.recs) : sock'.recs[i] = sock.recs[i]
      /\ sock'.recs[Len(sock.recs) + 1] = tail[1]
  BY <1>1, <1>3, <1>4, AppendIs
<1>6. Joins(Owed', sock'.recs, tail')
  <2>1. Owed' = sock'.recs \o tail' /\ tail' \in Seq(Records)
    BY <1>2, <1>3 DEF Owed
  <2>2. QED
    BY <1>5, <2>1, OwedIs, Zenon
<1> DEFINE m == Len(sock.recs)
<1>7. /\ m \in Nat /\ Len(Owed) = m + 1 /\ Len(Owed') = m + 1 /\ Owed' \in Seq(Records)
      /\ \A i \in 1..m : Owed[i] = sock.recs[i] /\ Owed'[i] = sock'.recs[i]
      /\ Owed[m + 1] = tail[1] /\ Owed'[m + 1] = sock'.recs[m + 1]
  <2> DEFINE rs == sock'.recs
             ts == tail'
             q == Owed
             q2 == Owed'
  <2>1. /\ Joins(q, sock.recs, tail) /\ Joins(q2, rs, ts)
        /\ Len(ts) = 0 /\ Len(tail) = 1 /\ Len(rs) = m + 1
    BY <1>1, <1>2, <1>3, <1>5, <1>6
  <2> HIDE DEF rs, ts, q, q2
  <2>2. /\ m \in Nat /\ Len(q) = m + 1 /\ Len(q2) = m + 1 /\ q2 \in Seq(Records)
        /\ \A i \in 1..m : q[i] = sock.recs[i]
        /\ \A i \in 1..(m + 1) : q2[i] = rs[i]
        /\ q[m + 1] = tail[1]
    BY <2>1 DEF Joins
  <2>3. m + 1 \in 1..(m + 1) /\ \A i \in 1..m : i \in 1..(m + 1)
    BY <2>2
  <2>4. QED
    BY <2>2, <2>3 DEF rs, q, q2
<1>8. \A i \in 1..Len(Owed) : Owed'[i] = Owed[i]
  <2> SUFFICES ASSUME NEW i \in 1..(m + 1) PROVE Owed'[i] = Owed[i]
    BY <1>7
  <2>1. CASE i \in 1..m
    BY <1>5, <1>7, <2>1
  <2>2. CASE i = m + 1
    BY <1>5, <1>7, <2>2
  <2>3. QED
    BY <1>7, <2>1, <2>2
<1> HIDE DEF m
<1>9. Whole(Owed') => Whole(Owed)
  BY <1>7, <1>8 DEF Whole
<1>10. \A w \in Videos : Leads(video, Owed, w) => Leads(video, Owed', w)
  BY <1>1, <1>7, <1>8, LeadsSame
<1>11. QED
  BY <1>2, <1>4, <1>9, <1>10 DEF FInv, Follows

LEMMA ReadFrameFollows ==
  ASSUME FInv, TInv', ReadFrame
  PROVE  Follows'
<1>1. /\ sock.recs \in Seq(Records) /\ tail \in Seq(Records) /\ Owed \in Seq(Records)
      /\ Joins(Owed, sock.recs, tail) /\ video \in Videos /\ sock.recs # <<>>
      /\ sock \in [open : BOOLEAN, recs : Seq(Records)] /\ Whole(tail)
  BY StreamTypes DEF FInv, ReadFrame, TInv, TypeOK
<1> DEFINE rs == sock.recs
           m == Len(Tail(rs))
<1>2. /\ Tail(rs) \in Seq(Records) /\ m \in Nat /\ Len(rs) = m + 1 /\ Head(rs) = rs[1]
      /\ \A i \in 1..m : Tail(rs)[i] = rs[i + 1]
  <2>1. /\ Tail(rs) \in Seq(Records) /\ m = Len(rs) - 1 /\ Len(rs) \in Nat \ {0}
        /\ Head(rs) = rs[1] /\ \A i \in 1..m : Tail(rs)[i] = rs[i + 1]
    BY <1>1, TailIs
  <2>2. QED
    BY <2>1
<1>3. /\ ~Refuses(video, rs[1]) /\ video' = Applied(video, rs[1])
      /\ sock'.recs = Tail(rs) /\ sock'.open = sock.open /\ UNCHANGED <<pipe, tail>>
  BY <1>1, <1>2 DEF ReadFrame
<1>4. Joins(Owed', Tail(rs), tail)
  <2>1. Owed' = Tail(rs) \o tail
    BY <1>3 DEF Owed
  <2>2. QED
    BY <1>1, <1>2, <2>1, OwedIs, Zenon
<1> DEFINE ts == Tail(rs)
<1> HIDE DEF rs, ts, m
<1>5. /\ Len(ts) = m /\ \A i \in 1..m : ts[i] = rs[i + 1]
  BY <1>2 DEF ts, m
<1>6. Joins(Owed, rs, tail) /\ Joins(Owed', ts, tail)
  BY <1>1, <1>4 DEF rs, ts
<1> DEFINE n == Len(tail)
<1>7. n \in Nat /\ Len(Owed) = (m + 1) + n /\ Len(Owed') = m + n /\ Owed' \in Seq(Records)
  BY <1>2, <1>5, <1>6 DEF Joins
<1>8. ASSUME NEW i \in 1..(m + n)
      PROVE  Owed'[i] = Owed[i + 1]
  <2>1. CASE i \in 1..m
    <3>1. Owed'[i] = ts[i] /\ ts[i] = rs[i + 1]
      BY <1>5, <1>6, <2>1 DEF Joins
    <3>2. i + 1 \in 1..Len(rs)
      BY <1>2, <2>1
    <3>3. QED
      BY <1>6, <3>1, <3>2 DEF Joins
  <2>2. CASE i \notin 1..m
    <3>1. i - m \in 1..n /\ i = m + (i - m) /\ i + 1 = (m + 1) + (i - m)
      BY <1>2, <1>7, <2>2
    <3>2. Owed'[m + (i - m)] = tail[i - m]
      BY <1>5, <1>6, <3>1 DEF Joins
    <3>3. Owed[(m + 1) + (i - m)] = tail[i - m]
      BY <1>2, <1>6, <3>1 DEF Joins
    <3>4. QED
      BY <3>1, <3>2, <3>3
  <2>3. QED
    BY <2>1, <2>2
<1> HIDE DEF n
<1>9. Owed[1] = rs[1] /\ 1 \in 1..Len(rs)
  <2>1. 1 \in 1..Len(rs)
    BY <1>2
  <2>2. QED
    BY <1>6, <2>1 DEF Joins
<1>10. Whole(Owed') => Whole(Owed)
  <2> SUFFICES ASSUME Whole(Owed'), NEW i \in 1..Len(Owed) PROVE Owed[i].k # "cut"
    BY DEF Whole
  <2>1. CASE i = 1
    BY <1>3, <1>9, <2>1 DEF Refuses
  <2>2. CASE i # 1
    <3>1. i - 1 \in 1..(m + n) /\ i = (i - 1) + 1
      BY <1>2, <1>7, <2>2
    <3>2. Owed'[i - 1] = Owed[(i - 1) + 1] /\ Owed'[i - 1].k # "cut"
      BY <1>7, <1>8, <3>1 DEF Whole
    <3>3. QED
      BY <3>1, <3>2
  <2>3. QED
    BY <2>1, <2>2
<1>11. \A w \in Videos : Leads(video, Owed, w) => Leads(video', Owed', w)
  <2>1. Len(Owed) = Len(Owed') + 1 /\ \A i \in 1..Len(Owed') : Owed'[i] = Owed[i + 1]
    BY <1>2, <1>7, <1>8
  <2>2. QED
    BY <1>1, <1>3, <1>7, <1>9, <2>1, LeadsFrom
<1>12. QED
  BY <1>3, <1>10, <1>11 DEF FInv, Follows

LEMMA ReadSnapshotFollows ==
  ASSUME FInv, ReadSnapshot
  PROVE  Follows'
<1> DEFINE msg == Head(queue)
<1>1. UNCHANGED <<sock, tail, video>>
  BY DEF ReadSnapshot
<1>2. ASSUME NEW p \in Pipelines
      PROVE  /\ WithCursor(p, msg.at).enc.size = p.enc.size
             /\ WithCursor(p, msg.at).enc.has = p.enc.has
             /\ WithCursor(p, msg.at).enc.ref = p.enc.ref
             /\ WithCursor(p, msg.at).last = p.last
             /\ WithFrame(p, msg).enc.size = p.enc.size /\ WithFrame(p, msg).enc.has = p.enc.has
             /\ WithFrame(p, msg).enc.ref = p.enc.ref /\ WithFrame(p, msg).last = p.last
  BY DEF WithCursor, WithFrame, Staged, Pipelines, Encoders
<1>3. CASE pipe' = pipe
  BY <1>1, <1>3, FollowsOn
<1>4. CASE /\ pipe # None
           /\ pipe' = WithFrame(WithCursor(pipe, msg.at), msg) \/ pipe' = WithCursor(pipe, msg.at)
  <2>1. msg \in Messages
    BY ReadsTyped DEF ReadSnapshot, FInv
  <2>2. pipe \in Pipelines
    BY <1>4, StreamTypes DEF FInv
  <2>3. WithCursor(pipe, msg.at) \in Pipelines
    BY <2>1, <2>2, SubmitTypes DEF FInv
  <2> HIDE DEF msg
  <2>4. /\ pipe'.enc.size = pipe.enc.size /\ pipe'.enc.has = pipe.enc.has
        /\ pipe'.enc.ref = pipe.enc.ref /\ pipe'.last = pipe.last
    BY <1>2, <1>4, <2>2, <2>3
  <2>5. QED
    BY <1>1, <1>4, <2>4, FollowsOn
<1>5. QED
  BY <1>3, <1>4 DEF ReadSnapshot

LEMMA StepFollows == FInv /\ [Next]_vars => FInv'
<1> SUFFICES ASSUME FInv, [Next]_vars PROVE Follows'
  BY StepTyped DEF FInv
<1>0. TInv'
  BY StepTyped DEF FInv
<1>1. CASE CompositorStep
  <2>1. UNCHANGED <<sock, tail, video, pipe>>
    BY <1>1 DEF CompositorStep, Commit, MovePointer, SetMode
  <2>2. QED
    BY <2>1, FollowsOn
<1>2. CASE Snapshot
  BY <1>2, FollowsOn DEF Snapshot
<1>3. CASE ProcessStep
  <2>1. CASE Bind
    BY <1>0, <2>1, BindFollows
  <2>2. CASE Hangup
    BY <2>2, FollowsClosed DEF Hangup
  <2>3. CASE ReadGeometry
    BY <1>0, <2>3, ReadGeometryFollows
  <2>4. CASE ReadKeyframe
    <3>1. CASE pipe = None
      BY <2>4, <3>1, FollowsClosed DEF ReadKeyframe
    <3>2. CASE pipe # None
      <4>1. pipe \in Pipelines
        BY <3>2, StreamTypes DEF FInv
      <4>2. pipe' = [pipe EXCEPT !.enc.key = TRUE] /\ UNCHANGED <<sock, tail, video>>
        BY <2>4, <3>2 DEF ReadKeyframe
      <4>3. /\ pipe'.enc.size = pipe.enc.size /\ pipe'.enc.has = pipe.enc.has
            /\ pipe'.enc.ref = pipe.enc.ref /\ pipe'.last = pipe.last
        BY <4>1, <4>2 DEF Pipelines, Encoders
      <4>4. QED
        BY <3>2, <4>2, <4>3, FollowsOn
    <3>3. QED
      BY <3>1, <3>2
  <2>5. CASE ReadSnapshot
    BY <2>5, ReadSnapshotFollows
  <2>6. CASE Encode
    BY <1>0, <2>6, EncodeFollows
  <2>7. CASE Write
    BY <1>0, <2>7, WriteFollows
  <2>8. QED
    BY <1>3, <2>1, <2>2, <2>3, <2>4, <2>5, <2>6, <2>7 DEF ProcessStep
<1>4. CASE ViewerStep
  <2>1. CASE ReadFrame
    BY <1>0, <2>1, ReadFrameFollows
  <2>2. CASE GivesUp
    <3>1. sock'.open = FALSE
      BY <2>2 DEF GivesUp
    <3>2. QED
      BY <3>1, FollowsClosed
  <2>3. CASE RendererLost
    BY <2>3, FollowsOn DEF RendererLost
  <2>4. QED
    BY <1>4, <2>1, <2>2, <2>3 DEF ViewerStep, Rebind, SocketLost
<1>5. CASE UNCHANGED vars
  BY <1>5, FollowsOn DEF vars
<1>6. QED
  BY <1>1, <1>2, <1>3, <1>4, <1>5 DEF Next

\* The decoder's states are the only ones that lead where Views ends.
LEMMA ViewsAre ==
  ASSUME NEW w, Len(Owed) \in Nat, Leads(video, Owed, w)
  PROVE  /\ Views[Len(Owed)] = w
         /\ \A i \in 1..Len(Owed) : ~Refuses(Views[i - 1], Owed[i])
<1> DEFINE n == Len(Owed)
<1>1. PICK vs \in [0..n -> Videos] :
        /\ vs[0] = video /\ vs[n] = w
        /\ \A i \in 1..n : ~Refuses(vs[i - 1], Owed[i]) /\ vs[i] = Applied(vs[i - 1], Owed[i])
  BY DEF Leads
<1>2. \A i \in 0..n : i # 0 => i \in 1..n
  OBVIOUS
<1>3. vs = [i \in 0..n |-> IF i = 0 THEN video ELSE Applied(vs[i - 1], Owed[i])]
  BY <1>1, <1>2
<1>4. Views = [i \in 0..n |-> IF i = 0 THEN video ELSE Applied(Views[i - 1], Owed[i])]
  BY <1>3, Zenon DEF Views
<1>5. Views[0] = video /\ \A i \in 1..n : Views[i] = Applied(Views[i - 1], Owed[i])
  BY <1>4
<1>6. \A i \in 0..n : Views[i] = vs[i]
  <2> DEFINE T == {i \in 0..n : Views[i] # vs[i]}
  <2> SUFFICES ASSUME T # {} PROVE FALSE
    OBVIOUS
  <2>1. T \subseteq Nat
    OBVIOUS
  <2>2. PICK x \in T : \A y \in T : x <= y
    BY <2>1, Least
  <2>3. x # 0
    BY <1>1, <1>5
  <2>4. x - 1 \in 0..n /\ x \in 1..n /\ ~(x <= x - 1)
    BY <2>3
  <2>5. Views[x - 1] = vs[x - 1]
    BY <2>2, <2>4
  <2>6. Views[x] = vs[x]
    BY <1>1, <1>5, <2>4, <2>5
  <2>7. QED
    BY <2>6
<1>7. \A i \in 1..n : i - 1 \in 0..n
  OBVIOUS
<1>8. n \in 0..n
  OBVIOUS
<1>9. QED
  BY <1>1, <1>6, <1>7, <1>8

\* The encoder's reference frame is what the decoder holds once it has read
\* what is owed to it, and it refuses none of that: for any number of tiles,
\* records, sizes and sockets (queue.rs, encoder.rs, pipeline.rs, video.rs).
THEOREM DecoderFollowsEncoder == Spec => []StreamIsSound
<1>1. Init => FInv
  BY InitTyped DEF Init, FInv, Follows
<1>2. FInv => StreamIsSound
  <2> SUFFICES ASSUME FInv PROVE DecoderFollows
    BY DEF FInv, TInv, StreamIsSound
  <2> SUFFICES ASSUME sock.open, pipe # None, Whole(Owed)
               PROVE  /\ \A i \in 1..Len(Owed) : ~Refuses(Views[i - 1], Owed[i])
                      /\ pipe.enc.has => /\ Replayed.frame = pipe.enc.ref
                                         /\ Replayed.last = pipe.last
                                         /\ Replayed.size = pipe.enc.size
    BY DEF DecoderFollows, Whole
  <2>1. PICK w \in Videos : Leads(video, Owed, w) /\ Agrees(w, pipe)
    BY DEF FInv, Follows
  <2>2. Len(Owed) \in Nat
    <3>1. Owed \in Seq(Records)
      BY StreamTypes DEF FInv
    <3>2. QED
      BY <3>1
  <2>3. Replayed = w /\ \A i \in 1..Len(Owed) : ~Refuses(Views[i - 1], Owed[i])
    BY <2>1, <2>2, ViewsAre DEF Replayed
  <2>4. QED
    BY <2>1, <2>3 DEF Agrees
<1>3. QED
  BY <1>1, <1>2, StepFollows, PTL DEF Spec

-----------------------------------------------------------------------------
(* The sweep leaves no tile behind. *)

\* How many tiles the sweep, at `s`, has before it comes to tile `t`.
Ahead(t, s) == IF t >= s THEN t - s ELSE t + Count - s

\* A tile that is behind for the n-th frame in a row was before the sweep for
\* as many slices, and there is only one round.
Swings(e) == \A t \in Tiles : Ahead(t, e.sweep) + e.age[t] * Slice < Count
SInv == TInv /\ (pipe # None => Swings(pipe.enc))

LEMMA ModSmall ==
  ASSUME NEW n \in Nat \ {0}, NEW a \in Nat, a < n
  PROVE  a % n = a
  OBVIOUS

LEMMA ModOver ==
  ASSUME NEW n \in Nat \ {0}, NEW a \in Nat, n <= a, a < 2 * n
  PROVE  a % n = a - n
  OBVIOUS

\* `refresh_interval` slices make a round, and a slice is no more than that.
LEMMA SliceIs == Slice \in 1..Count /\ Slice * Interval >= Count
<1>1. Slice \in Nat \ {0} /\ Count \in Nat \ {0} /\ Interval \in Nat \ {0}
  BY NumberTypes, ConstantTypes
<1>2. \A n, i \in Nat \ {0} : ((n + i - 1) \div i) * i >= n
  OBVIOUS
<1>3. \A n, i \in Nat \ {0} : (n + i - 1) \div i <= n
  <2> SUFFICES ASSUME NEW n \in Nat \ {0}, NEW i \in Nat \ {0}
               PROVE  (n + i - 1) \div i <= n
    OBVIOUS
  <2>1. n * i >= n + i - 1
    <3>1. (n - 1) * (i - 1) >= 0
      OBVIOUS
    <3>2. QED
      BY <3>1
  <2>2. QED
    BY <2>1
<1>4. QED
  BY <1>1, <1>2, <1>3 DEF Slice

LEMMA SweepComes ==
  ASSUME NEW t \in Tiles, NEW s \in Tiles
  PROVE  /\ Ahead(t, s) \in 0..(Count - 1) /\ (s + Slice) % Count \in Tiles
         /\ Ahead(t, s) < Slice => \E step \in 0..(Slice - 1) : (s + step) % Count = t
         /\ Ahead(t, s) >= Slice => Ahead(t, (s + Slice) % Count) = Ahead(t, s) - Slice
<1> DEFINE a == Ahead(t, s)
           k == Slice
<1>1. /\ Count \in Nat \ {0} /\ k \in 1..Count /\ t \in 0..(Count - 1) /\ s \in 0..(Count - 1)
  BY ConstantTypes, SliceIs DEF Tiles
<1> HIDE DEF k
<1>2. a \in 0..(Count - 1)
  BY <1>1 DEF Ahead
<1>3. (s + k) % Count \in Tiles
  BY <1>1, NumberTypes
<1>4. (s + a) % Count = t
  <2>1. CASE t >= s
    BY <1>1, <2>1, ModSmall DEF Ahead
  <2>2. CASE ~(t >= s)
    <3>1. s + a = t + Count
      BY <1>1, <2>2 DEF Ahead
    <3>2. QED
      BY <1>1, <3>1, ModOver
  <2>3. QED
    BY <2>1, <2>2
<1>5. ASSUME a >= k
      PROVE  Ahead(t, (s + k) % Count) = a - k
  <2>1. CASE s + k < Count
    <3>1. (s + k) % Count = s + k
      BY <1>1, <2>1, ModSmall
    <3>2. QED
      BY <1>1, <1>5, <2>1, <3>1 DEF Ahead
  <2>2. CASE ~(s + k < Count)
    <3>1. s + k \in Nat /\ Count <= s + k /\ s + k < 2 * Count
      BY <1>1, <2>2
    <3>2. (s + k) % Count = (s + k) - Count
      <4> DEFINE x == s + k
      <4>1. x \in Nat /\ Count <= x /\ x < 2 * Count /\ Count \in Nat \ {0}
        BY <1>1, <3>1
      <4> HIDE DEF x
      <4>2. x % Count = x - Count
        BY <4>1, ModOver
      <4>3. QED
        BY <4>2 DEF x
    <3>3. QED
      BY <1>1, <1>5, <2>2, <3>2 DEF Ahead
  <2>3. QED
    BY <2>1, <2>2
<1>6. a < k => \E step \in 0..(k - 1) : (s + step) % Count = t
  <2>1. a < k => a \in 0..(k - 1)
    BY <1>1, <1>2
  <2>2. QED
    BY <1>4, <2>1, Zenon
<1>7. QED
  BY <1>2, <1>3, <1>5, <1>6 DEF k

\* A round begins.
LEMMA SwingsAnew ==
  ASSUME NEW e, e.sweep \in Tiles, e.age = [t \in Tiles |-> 0]
  PROVE  Swings(e)
<1> SUFFICES ASSUME NEW t \in Tiles PROVE Ahead(t, e.sweep) + e.age[t] * Slice < Count
  BY DEF Swings
<1>1. e.age[t] = 0
  OBVIOUS
<1>2. Ahead(t, e.sweep) \in 0..(Count - 1) /\ Count \in Nat /\ Slice \in Nat
  BY SweepComes, ConstantTypes, NumberTypes
<1>3. QED
  BY <1>1, <1>2

\* A delta leaves behind only tiles that its slice did not reach.
LEMMA DeltaSwings ==
  ASSUME NEW e \in Encoders, Swings(e)
  PROVE  Swings(Deltaed(e))
<1> DEFINE ref == [t \in Tiles |-> IF t \in Changed(e) THEN e.stg[t] ELSE e.ref[t]]
           d == Deltaed(e)
<1>1. /\ d.sweep = (e.sweep + Slice) % Count
      /\ d.age = [t \in Tiles |-> IF ref[t] = e.stg[t] THEN 0 ELSE e.age[t] + 1]
  BY DEF Deltaed, Encoders, Sweep
<1> HIDE DEF d
<1> SUFFICES ASSUME NEW t \in Tiles PROVE Ahead(t, d.sweep) + d.age[t] * Slice < Count
  BY DEF Swings, d
<1>2. e.sweep \in Tiles /\ e.age[t] \in Nat /\ Slice \in Nat /\ Count \in Nat
  BY NumberTypes, ConstantTypes DEF Encoders
<1>3. Ahead(t, e.sweep) \in 0..(Count - 1) /\ d.sweep \in Tiles /\ Ahead(t, d.sweep) \in 0..(Count - 1)
  BY <1>1, <1>2, SweepComes
<1>4. CASE ref[t] = e.stg[t]
  <2>1. d.age[t] = 0
    BY <1>1, <1>4
  <2>2. QED
    BY <1>2, <1>3, <2>1
<1>5. CASE ref[t] # e.stg[t]
  <2>1. d.age[t] = e.age[t] + 1 /\ t \notin Changed(e) /\ e.ref[t] # e.stg[t]
    BY <1>1, <1>5
  <2>2. t \notin Swept(e)
    BY <2>1 DEF Changed
  <2>3. ~(Ahead(t, e.sweep) < Slice)
    <3>1. \A step \in 0..(Slice - 1) : (e.sweep + step) % Count # t
      BY <2>2 DEF Swept
    <3>2. QED
      BY <1>2, <3>1, SweepComes, Zenon
  <2>4. Ahead(t, d.sweep) = Ahead(t, e.sweep) - Slice
    BY <1>1, <1>2, <1>3, <2>3, SweepComes
  <2>5. Ahead(t, e.sweep) + e.age[t] * Slice < Count
    BY DEF Swings
  <2>6. (e.age[t] + 1) * Slice = e.age[t] * Slice + Slice /\ e.age[t] * Slice \in Nat
    BY <1>2
  <2>7. QED
    <3> DEFINE a == Ahead(t, e.sweep)
               b == Ahead(t, d.sweep)
               x == e.age[t] * Slice
    <3>1. a \in Nat /\ b = a - Slice /\ x \in Nat /\ a + x < Count
      BY <1>3, <2>4, <2>5, <2>6
    <3>2. d.age[t] * Slice = x + Slice
      BY <2>1, <2>6
    <3> HIDE DEF a, b, x
    <3>3. b + (x + Slice) < Count
      BY <1>2, <3>1
    <3>4. QED
      BY <3>2, <3>3 DEF b
<1>6. QED
  BY <1>4, <1>5

LEMMA EncodeSwings ==
  ASSUME NEW e \in Encoders, Swings(e)
  PROVE  Swings(NextPayload(e).enc)
<1>1. ASSUME NEW f \in Encoders, Swings(f)
      PROVE  Swings(CursorPayload(f).enc)
  <2>1. CursorPayload(f).enc.sweep = f.sweep /\ CursorPayload(f).enc.age = f.age
    BY DEF CursorPayload, Encoders
  <2>2. QED
    BY <1>1, <2>1 DEF Swings
<1>2. Swings(KeyframePayload(e).enc)
  <2> DEFINE k == KeyframePayload(e).enc
  <2>1. k.sweep = 0 /\ k.age = [t \in Tiles |-> 0]
    BY DEF KeyframePayload, Taken, Keyframed, Encoders
  <2> HIDE DEF k
  <2>2. Swings(k)
    BY <2>1, NumberTypes, SwingsAnew
  <2>3. QED
    BY <2>2 DEF k
<1>3. Swings(Taken(Deltaed(e))) /\ Taken(Deltaed(e)) \in Encoders
  <2>1. Deltaed(e) \in Encoders /\ Swings(Deltaed(e)) /\ Taken(Deltaed(e)) \in Encoders
    BY StepTypes, DeltaSwings
  <2> DEFINE d == Deltaed(e)
  <2> HIDE DEF d
  <2>2. Taken(d).sweep = d.sweep /\ Taken(d).age = d.age
    BY <2>1 DEF Taken, Encoders, d
  <2>3. Swings(Taken(d))
    BY <2>1, <2>2 DEF Swings, d
  <2>4. QED
    BY <2>1, <2>3 DEF d
<1>4. DeltaPayload(e).enc = Taken(Deltaed(e))
  BY DEF DeltaPayload
<1>5. \/ NextPayload(e) = KeyframePayload(e) \/ NextPayload(e) = DeltaPayload(e)
      \/ NextPayload(e) = CursorPayload(Taken(Deltaed(e))) \/ NextPayload(e) = CursorPayload(e)
  BY DEF NextPayload
<1>6. QED
  BY <1>1, <1>2, <1>3, <1>4, <1>5

LEMMA StepSwings == SInv /\ [Next]_vars => SInv'
<1> SUFFICES ASSUME SInv, [Next]_vars, pipe' # None PROVE Swings(pipe'.enc)
  BY StepTyped DEF SInv
<1>1. ASSUME pipe # None, pipe'.enc.sweep = pipe.enc.sweep, pipe'.enc.age = pipe.enc.age
      PROVE  Swings(pipe'.enc)
  BY <1>1 DEF SInv, Swings
<1>2. ASSUME pipe' = pipe PROVE Swings(pipe'.enc)
  BY <1>2 DEF SInv
<1>3. ASSUME NEW p \in Pipelines, p.enc.sweep = 0, p.enc.age = [t \in Tiles |-> 0],
             pipe' = Opened(p)
      PROVE  Swings(pipe'.enc)
  <2>1. pipe'.enc.sweep = 0 /\ pipe'.enc.age = [t \in Tiles |-> 0]
    BY <1>3 DEF Opened, Pipelines, Encoders
  <2>2. QED
    BY <2>1, NumberTypes, SwingsAnew
<1>4. pipe # None => pipe \in Pipelines /\ pipe.enc \in Encoders
  BY StreamTypes DEF SInv
<1>5. CASE Bind
  <2>1. par.size \in Sizes
    BY DEF SInv, TInv, TypeOK, Parameters
  <2> DEFINE p == Pipeline(par.size)
  <2>2. p \in Pipelines /\ p.enc.sweep = 0 /\ p.enc.age = [t \in Tiles |-> 0]
    BY <2>1, EncoderTypes DEF Pipeline, Encoder
  <2>3. pipe' = Opened(p)
    BY <1>5 DEF Bind
  <2> HIDE DEF p
  <2>4. QED
    BY <1>3, <2>2, <2>3
<1>6. CASE ReadGeometry
  <2> DEFINE s == Head(queue).size
             p == Reconfigured(pipe, s)
  <2>1. pipe' = pipe \/ (pipe # None /\ pipe' = Opened(p))
    BY <1>6 DEF ReadGeometry
  <2>2. s \in Sizes
    BY <1>6, ReadsTyped DEF ReadGeometry, SInv
  <2>3. ASSUME pipe # None
        PROVE  p \in Pipelines /\ p.enc.sweep = 0 /\ p.enc.age = [t \in Tiles |-> 0]
    <3>1. /\ Encoder(s) \in Encoders /\ Encoder(s).sweep = 0
          /\ Encoder(s).age = [t \in Tiles |-> 0]
      BY <2>2, EncoderTypes DEF Encoder
    <3>2. p = [pipe EXCEPT !.enc = Encoder(s), !.last = 0]
      BY DEF Reconfigured
    <3>3. QED
      BY <1>4, <2>3, <3>1, <3>2, NumberTypes DEF Pipelines
  <2> HIDE DEF p
  <2>4. QED
    BY <1>2, <1>3, <2>1, <2>3
<1>7. CASE ReadKeyframe
  <2>1. pipe # None /\ pipe' = [pipe EXCEPT !.enc.key = TRUE]
    BY <1>7 DEF ReadKeyframe
  <2>2. pipe'.enc.sweep = pipe.enc.sweep /\ pipe'.enc.age = pipe.enc.age
    BY <1>4, <2>1 DEF Pipelines, Encoders
  <2>3. QED
    BY <1>1, <2>1, <2>2
<1>8. CASE ReadSnapshot
  <2> DEFINE msg == Head(queue)
  <2>1. \/ pipe' = pipe
        \/ /\ pipe # None
           /\ \/ pipe' = WithFrame(WithCursor(pipe, msg.at), msg)
              \/ pipe' = WithCursor(pipe, msg.at)
    BY <1>8 DEF ReadSnapshot
  <2>2. msg \in Messages
    BY <1>8, ReadsTyped DEF ReadSnapshot, SInv
  <2> HIDE DEF msg
  <2>3. ASSUME NEW p \in Pipelines
        PROVE  /\ WithCursor(p, msg.at) \in Pipelines
               /\ WithCursor(p, msg.at).enc.sweep = p.enc.sweep
               /\ WithCursor(p, msg.at).enc.age = p.enc.age
               /\ WithFrame(p, msg).enc.sweep = p.enc.sweep
               /\ WithFrame(p, msg).enc.age = p.enc.age
    <3>1. WithCursor(p, msg.at) \in Pipelines
      BY <2>2, SubmitTypes DEF SInv
    <3>2. QED
      BY <3>1 DEF WithCursor, WithFrame, Staged, Pipelines, Encoders
  <2>4. QED
    BY <1>1, <1>2, <1>4, <2>1, <2>3
<1>9. CASE Encode
  <2>1. pipe # None /\ pipe'.enc = NextPayload(pipe.enc).enc
    <3>1. pipe # None
      BY <1>9 DEF Encode
    <3>2. QED
      BY <1>4, <1>9, <3>1 DEF Encode, Pipelines
  <2>2. QED
    BY <1>4, <2>1, EncodeSwings DEF SInv
<1>10. CASE Hangup
  BY <1>10 DEF Hangup
<1>11. CASE ~ProcessStep \/ Write
  BY <1>2, <1>11 DEF Next, vars, CompositorStep, Commit, MovePointer, SetMode, Snapshot,
     Write, ViewerStep, ReadFrame, Rebind, SocketLost, GivesUp, RendererLost
<1>12. QED
  BY <1>5, <1>6, <1>7, <1>8, <1>9, <1>10, <1>11 DEF ProcessStep

\* A tile that the hints missed is put right within `refresh_interval` encoded
\* frames, whatever the number of tiles, and whether or not the interval
\* divides it (encoder.rs, mark_sweep).
THEOREM SweepReachesEveryTile == Spec => []NoTileStaysBehind
<1>1. Init => SInv
  BY InitTyped DEF Init, SInv
<1>2. SInv => NoTileStaysBehind
  <2> SUFFICES ASSUME SInv, pipe # None, NEW t \in Tiles
               PROVE  pipe.enc.age[t] < Interval
    BY DEF NoTileStaysBehind
  <2> DEFINE age == pipe.enc.age[t]
             a == Ahead(t, pipe.enc.sweep)
  <2>1. pipe.enc \in Encoders
    BY StreamTypes DEF SInv
  <2>2. age \in Nat /\ a \in 0..(Count - 1) /\ a + age * Slice < Count
    BY <2>1, SweepComes DEF SInv, Swings, Encoders
  <2>3. /\ Count \in Nat \ {0} /\ Interval \in Nat \ {0} /\ Slice \in 1..Count
        /\ Slice * Interval >= Count
    BY SliceIs, ConstantTypes
  <2> HIDE DEF age, a
  <2>4. \A x, n, k \in Nat : k > 0 /\ n <= x => k * n <= x * k
    OBVIOUS
  <2>5. age < Interval
    BY <2>2, <2>3, <2>4
  <2>6. QED
    BY <2>5 DEF age
<1>3. QED
  BY <1>1, <1>2, StepSwings, PTL DEF Spec
=============================================================================
