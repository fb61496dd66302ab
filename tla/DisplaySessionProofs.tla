------------------------ MODULE DisplaySessionProofs ------------------------
(***************************************************************************)
(* Proofs about DisplaySession, for any number of sessions, commits, sizes *)
(* and faults of any kind: the broker and the session process agree on the *)
(* session, on the buffers that are mapped and on the keys that are down.  *)
(***************************************************************************)
EXTENDS DisplaySession, TLAPS, WellFoundedInduction

-----------------------------------------------------------------------------
(* The invariant. *)

SizesSeen == Sizes \cup {None}
Commits == 0..MaxCommits

ToGuest == {"hello", "auth", "keyframe", "end"}
ToHost == {"hello", "state", "error"}
Connections == [made : BOOLEAN, closed : SUBSET {"host", "guest"},
                toGuest : Seq(ToGuest), toHost : Seq(ToHost)]

Viewers == [pc : {"connect", "relay", "live", "over"}, sid : Sids,
            dial : {"none", "frame", "input"}, fgen : Nat, igen : Nat,
            announced : BOOLEAN, picture : Commits]

FrameRecords == [kind : {"config", "picture"}, shows : Commits]
FrameSockets == [host : BOOLEAN, guest : BOOLEAN, since : Commits, q : Seq(FrameRecords)]
InputSockets == [host : BOOLEAN, guest : BOOLEAN, since : Commits, q : Seq({"release"})]

Brokers == [up : BOOLEAN, peer : Nat, session : 0..MaxSessions, sessionSize : SizesSeen,
            size : SizesSeen, changed : BOOLEAN, epoch : Nat, wants : BOOLEAN,
            sent : SUBSET {0, 1}, fault : BOOLEAN, stopping : BOOLEAN]

Controls == [pc : {"accept", "session", "left"}, conn : 0..MaxSessions,
             offer : SizesSeen, size : SizesSeen]

Kinds == {"none", "opened", "closed", "key", "geometry", "devices", "snap"}
Messages == [t : Kinds, sid : 0..MaxSessions, size : SizesSeen, n : Commits, new : BOOLEAN]

Captures == [pc : {"wait", "probe", "observe", "send", "failing", "ended"}, peer : Nat,
             epoch : Nat, seen : Commits, shot : Messages]

Pipelines == [config : BOOLEAN, staged : Commits, reference : Commits, again : BOOLEAN]
Processes == [up : BOOLEAN, inc : Nat, params : 0..MaxSessions, size : SizesSeen, fgen : Nat,
              igen : Nat, asked : BOOLEAN, buffers : SUBSET {0, 1}, pipeline : Pipelines]

Asks == [inc : Nat, t : {"attach", "next"}]

\* The shape of what the viewer has.
ViewerShape ==
  /\ screen \in [n : 1..MaxCommits, size : Sizes]
  /\ viewer \in Viewers /\ status \in Statuses /\ parent \in BOOLEAN
  /\ control \in [Sids -> Connections]
  /\ faults \in 0..MaxFaults

\* The shape of the sockets.
SocketShape ==
  /\ frame \in FrameSockets /\ Len(frame.q) <= 1
  /\ input \in InputSockets
  /\ key \in {"up", "held", "lost"}

\* The shape of what the broker and the process have.
GuestShape ==
  /\ bk \in Brokers /\ ctl \in Controls /\ serve \in [inc : Nat, ended : BOOLEAN]
  /\ cap \in Captures /\ proc \in Processes
  /\ peerq \in Seq(Messages) /\ askq \in Seq(Asks)

\* While it serves a session the control thread is on a connection.
InConnection == ctl.pc = "session" => ctl.conn \in Sids

Shape == ViewerShape /\ SocketShape /\ GuestShape /\ InConnection

\* What the capture thread holds to send is a snapshot.
ShotIsTaken == cap.pc \in {"observe", "send"} => cap.shot.t = "snap"

\* Processes come one after the other: whom the broker is reading is its peer, the
\* request capture works on is no later one's, and neither is ahead of the process.
Incarnations ==
  /\ proc.inc >= 1 /\ bk.peer <= proc.inc /\ cap.peer <= bk.peer
  /\ serve.inc # None => serve.inc = bk.peer
  /\ proc.up /\ serve.inc = None => proc.inc # bk.peer
  /\ ~proc.up \/ proc.inc # bk.peer =>
       peerq = <<>> /\ proc.params = None /\ proc.buffers = {}

\* What processes asked is read in the order they came, and each attaches first.
AskOrder ==
  /\ \A i \in 1..Len(askq) :
       /\ bk.peer <= askq[i].inc /\ askq[i].inc <= proc.inc
       /\ serve.inc = None => bk.peer < askq[i].inc
       /\ askq[i].t = "attach" => 1 < askq[i].inc
  /\ \A i, j \in 1..Len(askq) :
       i < j => /\ askq[i].inc <= askq[j].inc
                /\ askq[j].t = "attach" => askq[i].inc < askq[j].inc

\* Until the broker has heard its peer attach, it sends it no snapshot.
Unheard == \E i \in 1..Len(askq) : askq[i].t = "attach" /\ askq[i].inc = bk.peer
AttachFirst == Unheard => ~bk.wants /\ bk.sent = {} /\ cap.peer # bk.peer

\* The first process is never handed the devices again.
FirstProcess ==
  proc.up /\ proc.inc = 1 =>
    /\ bk.peer = 1 /\ key # "lost"
    /\ \A i \in 1..Len(peerq) : peerq[i].t # "devices"

-----------------------------------------------------------------------------
(* What a queue of messages comes to, with no CHOOSE in it. *)

Turn == {"opened", "closed"}

\* After i messages of q, a process that began in session p is in session s.
InSession(q, p, i, s) ==
  \/ s = p /\ \A j \in 1..i : q[j].t \notin Turn
  \/ \E j \in 1..i : /\ q[j].t \in Turn /\ q[j].sid = s
                     /\ \A k \in 1..i : q[k].t \in Turn => k <= j

\* After i messages of q, one that began with the buffers b has mapped x.
Maps(q, b, i, x) ==
  \/ x \in b /\ \A j \in 1..i : q[j].t \notin Turn
  \/ \E j \in 1..i : /\ q[j].new /\ Buffer(q[j].n) = x
                     /\ \A k \in 1..i : q[k].t \in Turn => k < j

\* Each snapshot in q is read in its session and with its buffer mapped.
Agrees(q, p, b) ==
  \A i \in 1..Len(q) :
    q[i].t = "snap" => InSession(q, p, i, q[i].sid) /\ Maps(q, b, i, Buffer(q[i].n))

\* A message that closes a session names none, and only a snapshot brings a buffer.
Worded(q) ==
  \A i \in 1..Len(q) : /\ q[i].t = "closed" => q[i].sid = None
                       /\ q[i].new => q[i].t = "snap"

\* What q comes to is the session s, with the buffers of `sent` mapped.
Comes(q, p, b, s, sent) ==
  /\ Agrees(q, p, b) /\ Worded(q)
  /\ InSession(q, p, Len(q), s)
  /\ \A x \in sent : Maps(q, b, Len(q), x)

\* The peer comes to the broker's session, with what it was sent mapped.
PeerFollows ==
  proc.up /\ proc.inc = bk.peer =>
    Comes(peerq, proc.params, proc.buffers, bk.session, bk.sent)

Handover == ShotIsTaken /\ Incarnations /\ AskOrder /\ AttachFirst /\ PeerFollows
Keys == FirstProcess /\ NoKeyStaysDown

Inv == Shape /\ Handover /\ Keys

-----------------------------------------------------------------------------
(* What the specification says with CHOOSE, and what the invariant says. *)

TurnsOf(q, i) == {j \in 1..i : q[j].t \in Turn}
SessionOf(q, p, i) ==
  IF TurnsOf(q, i) = {} THEN p
  ELSE q[CHOOSE j \in TurnsOf(q, i) : \A k \in TurnsOf(q, i) : k <= j].sid

\* A set of numbers up to n has a greatest one.
LEMMA Greatest ==
  ASSUME NEW n \in Nat, NEW T, T \subseteq 1..n, T # {}
  PROVE  \E x \in T : \A y \in T : y <= x
<1> DEFINE Below == {ss \in Nat \X Nat : ss[1] < ss[2]}
           D == {d \in Nat : \E x \in T : d = n - x}
<1>1. IsWellFoundedOn(Below, Nat)
  BY NatLessThanWellFounded DEF OpToRel
<1>2. D \subseteq Nat /\ D # {}
  <2>1. PICK x \in T : TRUE
    OBVIOUS
  <2>2. n - x \in Nat
    BY <2>1
  <2> QED
    BY <2>1, <2>2
<1>3. PICK d \in D : \A e \in D : <<e, d>> \notin Below
  BY <1>1, <1>2, WFMin
<1>4. PICK x \in T : d = n - x
  OBVIOUS
<1>5. \A y \in T : y <= x
  <2> TAKE y \in T
  <2>1. n - y \in D
    OBVIOUS
  <2>2. <<n - y, d>> \notin Below
    BY <2>1, <1>3
  <2>3. n - y \in Nat /\ d \in Nat
    OBVIOUS
  <2>4. ~(n - y < d)
    BY <2>2, <2>3
  <2> QED
    BY <2>4, <1>4
<1> QED
  BY <1>5

LEMMA SessionOfIs ==
  ASSUME NEW q, NEW p, NEW i \in Nat
  PROVE  \A s : SessionOf(q, p, i) = s <=> InSession(q, p, i, s)
<1> DEFINE T == TurnsOf(q, i)
           c == CHOOSE j \in T : \A k \in T : k <= j
<1>1. CASE T = {}
  BY <1>1 DEF TurnsOf, SessionOf, InSession
<1>2. CASE T # {}
  <2>1. T \subseteq 1..i
    BY DEF TurnsOf
  <2>2. \E j \in T : \A k \in T : k <= j
    BY <2>1, <1>2, Greatest
  <2>3. c \in T /\ \A k \in T : k <= c
    BY <2>2
  <2>4. SessionOf(q, p, i) = q[c].sid
    BY <1>2 DEF SessionOf
  <2>5. \A j \in T : (\A k \in T : k <= j) => j = c
    <3> TAKE j \in T
    <3> HAVE \A k \in T : k <= j
    <3>1. c <= j /\ j <= c /\ c \in Nat /\ j \in Nat
      BY <2>1, <2>3
    <3> QED
      BY <3>1
  <2>6. \A j : j \in T <=> j \in 1..i /\ q[j].t \in Turn
    BY DEF TurnsOf
  <2> HIDE DEF T, c
  <2> TAKE s
  <2>7. ASSUME SessionOf(q, p, i) = s PROVE InSession(q, p, i, s)
    BY <2>7, <2>3, <2>4, <2>6 DEF InSession
  <2>8. ASSUME InSession(q, p, i, s) PROVE SessionOf(q, p, i) = s
    <3>1. PICK j \in 1..i : /\ q[j].t \in Turn /\ q[j].sid = s
                            /\ \A k \in 1..i : q[k].t \in Turn => k <= j
      BY <2>8, <2>3, <2>6 DEF InSession
    <3>2. j \in T /\ \A k \in T : k <= j
      BY <3>1, <2>6
    <3> QED
      BY <3>1, <3>2, <2>4, <2>5
  <2> QED
    BY <2>7, <2>8
<1> QED
  BY <1>1, <1>2

LEMMA SessionAfterIs ==
  ASSUME NEW i \in Nat
  PROVE  /\ SessionAfter(i) = SessionOf(peerq, proc.params, i)
         /\ SessionAfter(i)' = SessionOf(peerq', proc'.params, i)
  BY DEF SessionAfter, SessionOf, Turns, TurnsOf, LastTurn, Turn

LEMMA MappedAfterIs ==
  ASSUME NEW i \in Nat
  PROVE  /\ \A x : x \in MappedAfter(i) <=> Maps(peerq, proc.buffers, i, x)
         /\ \A x : x \in MappedAfter(i)' <=> Maps(peerq', proc'.buffers, i, x)
<1>1. \A x : x \in MappedAfter(i) <=> Maps(peerq, proc.buffers, i, x)
  BY DEF MappedAfter, Maps, Turns, Turn
<1>2. \A x : x \in MappedAfter(i)' <=> Maps(peerq', proc'.buffers, i, x)
  BY DEF MappedAfter, Maps, Turns, Turn
<1> QED
  BY <1>1, <1>2

-----------------------------------------------------------------------------
(* Messages come in at the end of a queue and go out at its head. *)

LEMMA AppendIs ==
  ASSUME NEW S, NEW q \in Seq(S), NEW m \in S
  PROVE  /\ Append(q, m) \in Seq(S) /\ Len(Append(q, m)) = Len(q) + 1 /\ Len(q) \in Nat
         /\ \A i \in 1..Len(q) : Append(q, m)[i] = q[i]
         /\ Append(q, m)[Len(q) + 1] = m
         /\ q \o <<m>> = Append(q, m)
  OBVIOUS

LEMMA TailIs ==
  ASSUME NEW S, NEW q \in Seq(S), q # <<>>
  PROVE  /\ Tail(q) \in Seq(S) /\ Len(Tail(q)) = Len(q) - 1 /\ Len(q) \in Nat \ {0}
         /\ Head(q) = q[1] /\ q[1] \in S
         /\ \A i \in 1..Len(Tail(q)) : Tail(q)[i] = q[i + 1]
  OBVIOUS

\* What a prefix comes to is not changed by what follows it.
LEMMA AppendBefore ==
  ASSUME NEW S, NEW q \in Seq(S), NEW m \in S, NEW i \in 0..Len(q), NEW p, NEW b
  PROVE  /\ \A s : InSession(q, p, i, s) => InSession(Append(q, m), p, i, s)
         /\ \A x : Maps(q, b, i, x) => Maps(Append(q, m), b, i, x)
<1> DEFINE r == Append(q, m)
<1>1. \A j \in 1..i : r[j] = q[j]
  BY AppendIs
<1> HIDE DEF r
<1>2. \A s : InSession(q, p, i, s) => InSession(r, p, i, s)
  BY <1>1 DEF InSession
<1>3. \A x : Maps(q, b, i, x) => Maps(r, b, i, x)
  BY <1>1 DEF Maps
<1> QED
  BY <1>2, <1>3 DEF r

\* A message that opens or closes a session is what counts once it is read.
LEMMA AppendTurn ==
  ASSUME NEW S, NEW q \in Seq(S), NEW m \in S, NEW p, m.t \in Turn
  PROVE  InSession(Append(q, m), p, Len(q) + 1, m.sid)
<1> DEFINE r == Append(q, m)
           n == Len(q) + 1
<1>1. n \in 1..n /\ r[n] = m /\ \A k \in 1..n : k <= n
  BY AppendIs
<1> HIDE DEF r, n
<1>2. InSession(r, p, n, m.sid)
  BY <1>1 DEF InSession
<1> QED
  BY <1>2 DEF r, n

\* Any other leaves the process where it was, with the buffer it brings.
LEMMA AppendOther ==
  ASSUME NEW S, NEW q \in Seq(S), NEW m \in S, NEW p, NEW b, m.t \notin Turn
  PROVE  /\ \A s : InSession(q, p, Len(q), s) => InSession(Append(q, m), p, Len(q) + 1, s)
         /\ \A x : Maps(q, b, Len(q), x) => Maps(Append(q, m), b, Len(q) + 1, x)
         /\ m.new => Maps(Append(q, m), b, Len(q) + 1, Buffer(m.n))
<1> DEFINE r == Append(q, m)
           n == Len(q)
<1>1. n \in Nat /\ r[n + 1] = m /\ \A k \in 1..n : r[k] = q[k]
  BY AppendIs
<1> HIDE DEF r, n
<1>2. \A k \in 1..(n + 1) : k \in 1..n \/ k = n + 1
  BY <1>1
<1>3. \A k \in 1..n : k \in 1..(n + 1) /\ k < n + 1
  BY <1>1
<1>4. \A k \in 1..(n + 1) : r[k].t \in Turn => k \in 1..n /\ q[k].t \in Turn
  BY <1>1, <1>2
<1>5. \A s : InSession(q, p, n, s) => InSession(r, p, n + 1, s)
  BY <1>1, <1>3, <1>4 DEF InSession
<1>6. \A x : Maps(q, b, n, x) => Maps(r, b, n + 1, x)
  BY <1>1, <1>3, <1>4 DEF Maps
<1>7. m.new => Maps(r, b, n + 1, Buffer(m.n))
  <2>1. n + 1 \in 1..(n + 1)
    BY <1>1
  <2> QED
    BY <2>1, <1>1, <1>3, <1>4 DEF Maps
<1> QED
  BY <1>5, <1>6, <1>7 DEF r, n

\* What the process becomes on reading the head of its queue.
SidAfter(p, m) == IF m.t \in Turn THEN m.sid ELSE p
MappedBy(b, m) ==
  IF m.t \in Turn THEN {} ELSE IF m.new THEN b \cup {Buffer(m.n)} ELSE b

LEMMA TailSession ==
  ASSUME NEW S, NEW q \in Seq(S), q # <<>>, NEW p, NEW i \in 0..Len(Tail(q)), NEW s,
         InSession(q, p, i + 1, s)
  PROVE  InSession(Tail(q), SidAfter(p, q[1]), i, s)
<1> DEFINE r == Tail(q)
<1>1. i \in Nat /\ \A k \in 1..i : r[k] = q[k + 1] /\ k + 1 \in 1..(i + 1)
  BY TailIs
<1>2. \A k \in 1..(i + 1) : k = 1 \/ (k - 1 \in 1..i /\ r[k - 1] = q[k] /\ k \in Nat)
  <2> TAKE k \in 1..(i + 1)
  <2> SUFFICES ASSUME k # 1 PROVE k - 1 \in 1..i /\ r[k - 1] = q[k] /\ k \in Nat
    OBVIOUS
  <2>1. k - 1 \in 1..i /\ (k - 1) + 1 = k
    BY <1>1
  <2> QED
    BY <1>1, <2>1
<1>3. 1 \in 1..(i + 1)
  BY <1>1
<1> HIDE DEF r
<1>4. ASSUME s = p, \A j \in 1..(i + 1) : q[j].t \notin Turn
      PROVE  InSession(r, SidAfter(p, q[1]), i, s)
  BY <1>1, <1>3, <1>4 DEF InSession, SidAfter
<1>5. ASSUME NEW j \in 1..(i + 1), q[j].t \in Turn, q[j].sid = s,
             \A k \in 1..(i + 1) : q[k].t \in Turn => k <= j
      PROVE  InSession(r, SidAfter(p, q[1]), i, s)
  <2>1. CASE j = 1
    <3>1. \A k \in 1..i : r[k].t \notin Turn
      <4> TAKE k \in 1..i
      <4>1. r[k] = q[k + 1] /\ k + 1 \in 1..(i + 1) /\ ~(k + 1 <= j)
        BY <1>1, <2>1
      <4> QED
        BY <4>1, <1>5
    <3> QED
      BY <3>1, <2>1, <1>5 DEF InSession, SidAfter
  <2>2. CASE j # 1
    <3>1. j - 1 \in 1..i /\ r[j - 1] = q[j]
      BY <1>2, <2>2
    <3>2. \A k \in 1..i : r[k].t \in Turn => k <= j - 1
      <4> TAKE k \in 1..i
      <4> HAVE r[k].t \in Turn
      <4>1. k + 1 <= j
        BY <1>1, <1>5
      <4> QED
        BY <4>1, <1>1
    <3> QED
      BY <3>1, <3>2, <1>5 DEF InSession
  <2> QED
    BY <2>1, <2>2
<1>6. \/ s = p /\ \A j \in 1..(i + 1) : q[j].t \notin Turn
      \/ \E j \in 1..(i + 1) : /\ q[j].t \in Turn /\ q[j].sid = s
                               /\ \A k \in 1..(i + 1) : q[k].t \in Turn => k <= j
  BY DEF InSession
<1>7. InSession(r, SidAfter(p, q[1]), i, s)
  BY <1>4, <1>5, <1>6
<1> QED
  BY <1>7 DEF r

LEMMA TailMaps ==
  ASSUME NEW S, NEW q \in Seq(S), q # <<>>, NEW b, NEW i \in 0..Len(Tail(q)), NEW x,
         Maps(q, b, i + 1, x)
  PROVE  Maps(Tail(q), MappedBy(b, q[1]), i, x)
<1> DEFINE r == Tail(q)
<1>1. i \in Nat /\ \A k \in 1..i : r[k] = q[k + 1] /\ k + 1 \in 1..(i + 1)
  BY TailIs
<1>3. 1 \in 1..(i + 1)
  BY <1>1
<1> HIDE DEF r
<1>4. ASSUME x \in b, \A j \in 1..(i + 1) : q[j].t \notin Turn
      PROVE  Maps(r, MappedBy(b, q[1]), i, x)
  BY <1>1, <1>3, <1>4 DEF Maps, MappedBy
<1>5. ASSUME NEW j \in 1..(i + 1), q[j].new, Buffer(q[j].n) = x,
             \A k \in 1..(i + 1) : q[k].t \in Turn => k < j
      PROVE  Maps(r, MappedBy(b, q[1]), i, x)
  <2>1. CASE j = 1
    <3>1. \A k \in 1..(i + 1) : q[k].t \notin Turn
      <4> TAKE k \in 1..(i + 1)
      <4>1. ~(k < j)
        BY <2>1
      <4> QED
        BY <4>1, <1>5
    <3> QED
      BY <3>1, <2>1, <1>1, <1>3, <1>5 DEF Maps, MappedBy
  <2>2. CASE j # 1
    <3>1. j - 1 \in 1..i /\ (j - 1) + 1 = j
      BY <1>1, <2>2
    <3>2. r[j - 1] = q[j]
      BY <3>1, <1>1
    <3>3. \A k \in 1..i : r[k].t \in Turn => k < j - 1
      <4> TAKE k \in 1..i
      <4> HAVE r[k].t \in Turn
      <4>1. k + 1 < j
        BY <1>1, <1>5
      <4> QED
        BY <4>1, <1>1
    <3> QED
      BY <3>1, <3>2, <3>3, <1>5 DEF Maps
  <2> QED
    BY <2>1, <2>2
<1>6. \/ x \in b /\ \A j \in 1..(i + 1) : q[j].t \notin Turn
      \/ \E j \in 1..(i + 1) : /\ q[j].new /\ Buffer(q[j].n) = x
                               /\ \A k \in 1..(i + 1) : q[k].t \in Turn => k < j
  BY DEF Maps
<1>7. Maps(r, MappedBy(b, q[1]), i, x)
  BY <1>4, <1>5, <1>6
<1> QED
  BY <1>7 DEF r

-----------------------------------------------------------------------------
(* What a queue comes to, one message at a time. *)

LEMMA ComesEmpty ==
  ASSUME NEW p, NEW b
  PROVE  Comes(<<>>, p, b, p, {})
  BY DEF Comes, Agrees, Worded, InSession

\* Everything but the end is untouched by an Append.
LEMMA AppendAgrees ==
  ASSUME NEW S, NEW q \in Seq(S), NEW m \in S, NEW p, NEW b, Agrees(q, p, b), Worded(q),
         m.t = "closed" => m.sid = None, m.new => m.t = "snap",
         m.t = "snap" => /\ InSession(Append(q, m), p, Len(q) + 1, m.sid)
                         /\ Maps(Append(q, m), b, Len(q) + 1, Buffer(m.n))
  PROVE  Agrees(Append(q, m), p, b) /\ Worded(Append(q, m))
<1> DEFINE r == Append(q, m)
           n == Len(q)
<1>1. n \in Nat /\ Len(r) = n + 1 /\ r[n + 1] = m /\ \A k \in 1..n : r[k] = q[k]
  BY AppendIs
<1>2. \A i \in 1..n : /\ \A s : InSession(q, p, i, s) => InSession(r, p, i, s)
                      /\ \A x : Maps(q, b, i, x) => Maps(r, b, i, x)
  <2> TAKE i \in 1..n
  <2>1. i \in 0..Len(q)
    BY <1>1
  <2> QED
    BY <2>1, AppendBefore
<1>3. m.t = "snap" => InSession(r, p, n + 1, m.sid) /\ Maps(r, b, n + 1, Buffer(m.n))
  OBVIOUS
<1>4. \A i \in 1..n : q[i].t = "snap" => InSession(q, p, i, q[i].sid)
                                         /\ Maps(q, b, i, Buffer(q[i].n))
  BY DEF Agrees
<1>5. \A i \in 1..n : /\ q[i].t = "closed" => q[i].sid = None
                      /\ q[i].new => q[i].t = "snap"
  BY DEF Worded
<1> HIDE DEF r, n
<1>6. \A i \in 1..Len(r) : i \in 1..n \/ i = n + 1
  BY <1>1
<1>7. Worded(r)
  BY <1>1, <1>5, <1>6 DEF Worded
<1>8. ASSUME NEW i \in 1..Len(r), r[i].t = "snap"
      PROVE  InSession(r, p, i, r[i].sid) /\ Maps(r, b, i, Buffer(r[i].n))
  <2>1. CASE i \in 1..n
    BY <2>1, <1>8, <1>1, <1>2, <1>4
  <2>2. CASE i = n + 1
    BY <2>2, <1>8, <1>1, <1>3
  <2> QED
    BY <2>1, <2>2, <1>6
<1> QED
  BY <1>7, <1>8 DEF Agrees, r

LEMMA ComesTurn ==
  ASSUME NEW S, NEW q \in Seq(S), NEW m \in S, NEW p, NEW b, NEW s, NEW sent,
         Comes(q, p, b, s, sent), m.t \in Turn, ~m.new, m.t = "closed" => m.sid = None
  PROVE  Comes(Append(q, m), p, b, m.sid, {})
<1>1. Agrees(q, p, b) /\ Worded(q) /\ m.t # "snap"
  BY DEF Comes, Turn
<1>2. Agrees(Append(q, m), p, b) /\ Worded(Append(q, m))
  BY <1>1, AppendAgrees
<1>3. InSession(Append(q, m), p, Len(q) + 1, m.sid)
  BY AppendTurn
<1>4. Len(Append(q, m)) = Len(q) + 1
  BY AppendIs
<1> QED
  BY <1>2, <1>3, <1>4 DEF Comes

LEMMA ComesSide ==
  ASSUME NEW S, NEW q \in Seq(S), NEW m \in S, NEW p, NEW b, NEW s, NEW sent,
         Comes(q, p, b, s, sent), m.t \notin Turn, m.t # "snap", ~m.new
  PROVE  Comes(Append(q, m), p, b, s, sent)
<1>1. Agrees(q, p, b) /\ Worded(q) /\ m.t # "closed"
  BY DEF Comes, Turn
<1>2. Agrees(Append(q, m), p, b) /\ Worded(Append(q, m))
  BY <1>1, AppendAgrees
<1>3. InSession(q, p, Len(q), s) /\ \A x \in sent : Maps(q, b, Len(q), x)
  BY DEF Comes
<1>4. /\ InSession(Append(q, m), p, Len(q) + 1, s)
      /\ \A x \in sent : Maps(Append(q, m), b, Len(q) + 1, x)
  BY <1>3, AppendOther
<1>5. Len(Append(q, m)) = Len(q) + 1
  BY AppendIs
<1> QED
  BY <1>2, <1>4, <1>5 DEF Comes

LEMMA ComesSnapshot ==
  ASSUME NEW S, NEW q \in Seq(S), NEW m \in S, NEW p, NEW b, NEW s, NEW sent,
         Comes(q, p, b, s, sent), m.t = "snap", m.sid = s,
         m.new <=> Buffer(m.n) \notin sent
  PROVE  Comes(Append(q, m), p, b, s, sent \cup {Buffer(m.n)})
<1>1. Agrees(q, p, b) /\ Worded(q) /\ m.t \notin Turn
  BY DEF Comes, Turn
<1>2. InSession(q, p, Len(q), s) /\ \A x \in sent : Maps(q, b, Len(q), x)
  BY DEF Comes
<1>3. /\ InSession(Append(q, m), p, Len(q) + 1, s)
      /\ \A x \in sent : Maps(Append(q, m), b, Len(q) + 1, x)
      /\ m.new => Maps(Append(q, m), b, Len(q) + 1, Buffer(m.n))
  BY <1>1, <1>2, AppendOther
<1>4. Maps(Append(q, m), b, Len(q) + 1, Buffer(m.n))
  BY <1>3
<1>5. Agrees(Append(q, m), p, b) /\ Worded(Append(q, m))
  BY <1>1, <1>3, <1>4, AppendAgrees
<1>6. Len(Append(q, m)) = Len(q) + 1
  BY AppendIs
<1> QED
  BY <1>3, <1>4, <1>5, <1>6 DEF Comes

LEMMA ComesRead ==
  ASSUME NEW S, NEW q \in Seq(S), q # <<>>, NEW p, NEW b, NEW s, NEW sent,
         Comes(q, p, b, s, sent)
  PROVE  Comes(Tail(q), SidAfter(p, q[1]), MappedBy(b, q[1]), s, sent)
<1> DEFINE r == Tail(q)
           n == Len(r)
           pp == SidAfter(p, q[1])
           bb == MappedBy(b, q[1])
<1>1. /\ n \in Nat /\ Len(q) = n + 1 /\ r \in Seq(S)
      /\ \A k \in 1..n : r[k] = q[k + 1] /\ k + 1 \in 1..Len(q)
  BY TailIs
<1>2. \A i \in 0..n : \A x : InSession(q, p, i + 1, x) => InSession(r, pp, i, x)
  BY TailSession
<1>3. \A i \in 0..n : \A x : Maps(q, b, i + 1, x) => Maps(r, bb, i, x)
  BY TailMaps
<1>4. /\ \A i \in 1..Len(q) :
           q[i].t = "snap" => InSession(q, p, i, q[i].sid) /\ Maps(q, b, i, Buffer(q[i].n))
      /\ InSession(q, p, n + 1, s) /\ \A x \in sent : Maps(q, b, n + 1, x)
  BY <1>1 DEF Comes, Agrees
<1>9. \A i \in 1..Len(q) : /\ q[i].t = "closed" => q[i].sid = None
                           /\ q[i].new => q[i].t = "snap"
  BY DEF Comes, Worded
<1>5. n \in 0..n /\ \A i \in 1..n : i \in 0..n
  BY <1>1
<1> HIDE DEF r, n, pp, bb
<1>6. Worded(r)
  BY <1>1, <1>9 DEF Worded, n
<1>7. Agrees(r, pp, bb)
  <2> SUFFICES ASSUME NEW i \in 1..n, r[i].t = "snap"
               PROVE  InSession(r, pp, i, r[i].sid) /\ Maps(r, bb, i, Buffer(r[i].n))
    BY DEF Agrees, n
  <2>1. r[i] = q[i + 1] /\ i + 1 \in 1..Len(q)
    BY <1>1
  <2>2. InSession(q, p, i + 1, q[i + 1].sid) /\ Maps(q, b, i + 1, Buffer(q[i + 1].n))
    BY <2>1, <1>4
  <2> QED
    BY <2>1, <2>2, <1>2, <1>3, <1>5
<1>8. InSession(r, pp, n, s) /\ \A x \in sent : Maps(r, bb, n, x)
  BY <1>2, <1>3, <1>4, <1>5
<1> QED
  BY <1>6, <1>7, <1>8 DEF Comes, r, n, pp, bb

-----------------------------------------------------------------------------
(* Shapes of what the actions are made of. *)

LEMMA Consts ==
  /\ MaxSessions \in Nat \ {0} /\ MaxCommits \in Nat \ {0} /\ MaxFaults \in Nat
  /\ 1 \in Sids /\ Sids \subseteq 0..MaxSessions /\ None \in 0..MaxSessions
  /\ None \in SizesSeen /\ Sizes \subseteq SizesSeen /\ 0 \in Commits /\ 1..MaxCommits \subseteq Commits
  /\ \A n \in Commits : n \in Nat /\ Buffer(n) \in {0, 1}
  BY DisplayAssumption DEF Sids, None, SizesSeen, Commits, Buffer

LEMMA OnIs ==
  ASSUME status \in Statuses,
         NEW event \in {"Retry", "NoParent", "Connected", "Established", "ChannelLost", "ControlLost"}
  PROVE  On(event) \in Statuses
  BY DEF On, Statuses

LEMMA HostClosesIs ==
  /\ \A s \in FrameSockets : /\ HostCloses(s) \in FrameSockets /\ HostCloses(s).guest = s.guest
                             /\ Len(s.q) <= 1 => Len(HostCloses(s).q) <= 1
  /\ \A s \in InputSockets : HostCloses(s) \in InputSockets /\ HostCloses(s).guest = s.guest
<1>1. Closed \in FrameSockets /\ Closed \in InputSockets /\ ~Closed.guest /\ Closed.q = <<>>
      /\ Closed.guest = FALSE
  BY Consts DEF Closed, FrameSockets, InputSockets
<1>2. ASSUME NEW s \in FrameSockets
      PROVE  /\ HostCloses(s) \in FrameSockets /\ HostCloses(s).guest = s.guest
             /\ Len(s.q) <= 1 => Len(HostCloses(s).q) <= 1
  <2>1. CASE s.guest
    <3>1. HostCloses(s) = [s EXCEPT !.host = FALSE]
      BY <2>1 DEF HostCloses
    <3>2. [s EXCEPT !.host = FALSE] \in FrameSockets
      BY DEF FrameSockets
    <3>3. /\ [s EXCEPT !.host = FALSE].q = s.q /\ [s EXCEPT !.host = FALSE].guest = s.guest
          /\ [s EXCEPT !.host = FALSE].host = FALSE
      BY DEF FrameSockets
    <3> QED
      BY <3>1, <3>2, <3>3
  <2>2. CASE ~s.guest
    <3>1. HostCloses(s) = Closed
      BY <2>2 DEF HostCloses
    <3>2. s.guest \in BOOLEAN /\ Len(Closed.q) <= 1
      BY <1>1 DEF FrameSockets
    <3> QED
      BY <3>1, <3>2, <2>2, <1>1
  <2> QED
    BY <2>1, <2>2
<1>3. ASSUME NEW s \in InputSockets
      PROVE  HostCloses(s) \in InputSockets /\ HostCloses(s).guest = s.guest
  BY <1>1 DEF HostCloses, InputSockets
<1> QED
  BY <1>2, <1>3

LEMMA GuestClosesIs ==
  /\ \A s \in FrameSockets : /\ GuestCloses(s) \in FrameSockets /\ ~GuestCloses(s).guest
                             /\ Len(s.q) <= 1 => Len(GuestCloses(s).q) <= 1
  /\ \A s \in InputSockets : GuestCloses(s) \in InputSockets /\ ~GuestCloses(s).guest
<1>1. Closed \in FrameSockets /\ Closed \in InputSockets /\ ~Closed.guest /\ Closed.q = <<>>
  BY Consts DEF Closed, FrameSockets, InputSockets
<1>2. ASSUME NEW s \in FrameSockets
      PROVE  /\ GuestCloses(s) \in FrameSockets /\ ~GuestCloses(s).guest
             /\ Len(s.q) <= 1 => Len(GuestCloses(s).q) <= 1
  <2>1. CASE s.host
    <3>1. GuestCloses(s) = [s EXCEPT !.guest = FALSE]
      BY <2>1 DEF GuestCloses
    <3>2. [s EXCEPT !.guest = FALSE] \in FrameSockets
      BY DEF FrameSockets
    <3>3. /\ [s EXCEPT !.guest = FALSE].q = s.q /\ [s EXCEPT !.guest = FALSE].host = s.host
          /\ [s EXCEPT !.guest = FALSE].guest = FALSE
      BY DEF FrameSockets
    <3> QED
      BY <3>1, <3>2, <3>3
  <2>2. CASE ~s.host
    <3>1. GuestCloses(s) = Closed
      BY <2>2 DEF GuestCloses
    <3>2. s.guest \in BOOLEAN /\ Len(Closed.q) <= 1
      BY <1>1 DEF FrameSockets
    <3> QED
      BY <3>1, <3>2, <2>2, <1>1
  <2> QED
    BY <2>1, <2>2
<1>3. ASSUME NEW s \in InputSockets
      PROVE  GuestCloses(s) \in InputSockets /\ ~GuestCloses(s).guest
  BY <1>1 DEF GuestCloses, InputSockets
<1> QED
  BY <1>2, <1>3

LEMMA LeavesIs ==
  ASSUME control \in [Sids -> Connections], NEW sid \in Sids
  PROVE  /\ \A last \in Seq(ToGuest) : HostLeaves(sid, last) \in [Sids -> Connections]
         /\ \A last \in Seq(ToHost) : GuestLeaves(sid, last) \in [Sids -> Connections]
<1>1. ASSUME NEW last \in Seq(ToGuest) PROVE HostLeaves(sid, last) \in [Sids -> Connections]
  <2> DEFINE c == control[sid]
             said == IF "guest" \in c.closed THEN <<>> ELSE c.toGuest \o last
             ends == c.closed \cup {"host"}
             d == [c EXCEPT !.closed = ends, !.toHost = <<>>, !.toGuest = said]
  <2>1. /\ c \in Connections /\ <<>> \in Seq(ToHost) /\ <<>> \in Seq(ToGuest)
        /\ ends \in SUBSET {"host", "guest"} /\ said \in Seq(ToGuest)
    BY DEF Connections
  <2>3. HostLeaves(sid, last) = [control EXCEPT ![sid] = d]
    BY DEF HostLeaves, Connections
  <2> HIDE DEF c, said, ends
  <2>2. d \in Connections
    BY <2>1 DEF Connections
  <2> QED
    BY <2>2, <2>3
<1>2. ASSUME NEW last \in Seq(ToHost) PROVE GuestLeaves(sid, last) \in [Sids -> Connections]
  <2> DEFINE c == control[sid]
             said == IF "host" \in c.closed THEN <<>> ELSE c.toHost \o last
             ends == c.closed \cup {"guest"}
             d == [c EXCEPT !.closed = ends, !.toGuest = <<>>, !.toHost = said]
  <2>1. /\ c \in Connections /\ <<>> \in Seq(ToHost) /\ <<>> \in Seq(ToGuest)
        /\ ends \in SUBSET {"host", "guest"} /\ said \in Seq(ToHost)
    BY DEF Connections
  <2>3. GuestLeaves(sid, last) = [control EXCEPT ![sid] = d]
    BY DEF GuestLeaves, Connections
  <2> HIDE DEF c, said, ends
  <2>2. d \in Connections
    BY <2>1 DEF Connections
  <2> QED
    BY <2>2, <2>3
<1> QED
  BY <1>1, <1>2

LEMMA NewLiveIs ==
  ASSUME NEW sid \in Sids
  PROVE  /\ NewLive(sid) \in Viewers
         /\ \A pc \in {"connect", "relay", "live", "over"} :
              [NewLive(sid) EXCEPT !.pc = pc] \in Viewers
  BY Consts DEF NewLive, Viewers

LEMMA MessageIs ==
  /\ \A t \in Kinds : /\ Message(t) \in Messages /\ Message(t).t = t /\ ~Message(t).new
                      /\ Message(t).sid = None
  /\ \A sid \in 0..MaxSessions, size \in SizesSeen :
       /\ SessionOpened(sid, size) \in Messages /\ SessionOpened(sid, size).t = "opened"
       /\ SessionOpened(sid, size).sid = sid /\ ~SessionOpened(sid, size).new
  /\ \A size \in SizesSeen :
       LET m == [Message("geometry") EXCEPT !.size = size] IN
       m \in Messages /\ m.t = "geometry" /\ ~m.new
  BY Consts DEF Message, SessionOpened, Messages, Kinds, None

LEMMA NewProcessIs ==
  ASSUME NEW inc \in Nat
  PROVE  /\ NewProcess(inc) \in Processes
         /\ NewProcess(inc).up = TRUE /\ NewProcess(inc).inc = inc
         /\ NewProcess(inc).params = None /\ NewProcess(inc).buffers = {}
         /\ NoPipeline \in Pipelines /\ NewPipeline \in Pipelines
<1>1. NoPipeline \in Pipelines /\ NewPipeline \in Pipelines
  BY Consts DEF NoPipeline, NewPipeline, Pipelines
<1> QED
  BY <1>1, Consts DEF NewProcess, Processes

-----------------------------------------------------------------------------
(* Every step leaves what the viewer has in shape. *)

LEMMA FaultCounts ==
  ASSUME NEW kind, Fault(kind), faults \in 0..MaxFaults
  PROVE  faults' \in 0..MaxFaults
  BY Consts DEF Fault

LEMMA NothingSaid ==
  /\ <<>> \in Seq(ToGuest) /\ <<>> \in Seq(ToHost) /\ <<"end">> \in Seq(ToGuest)
  /\ <<"error">> \in Seq(ToHost) /\ <<"hello">> \in Seq(ToGuest)
  BY DEF ToGuest, ToHost

\* The connections stay connections when one of them is replaced by another.
LEMMA ConnectionSays ==
  ASSUME control \in [Sids -> Connections], NEW sid \in Sids
  PROVE  /\ \A r \in ToGuest :
              [control EXCEPT ![sid].toGuest = Append(@, r)] \in [Sids -> Connections]
         /\ \A r \in ToHost :
              [control EXCEPT ![sid].toHost = Append(@, r)] \in [Sids -> Connections]
<1>1. ASSUME NEW r \in ToGuest
      PROVE  [control EXCEPT ![sid].toGuest = Append(@, r)] \in [Sids -> Connections]
  <2>1. Append(control[sid].toGuest, r) \in Seq(ToGuest) /\ control[sid] \in Connections
    BY DEF Connections
  <2>2. [control[sid] EXCEPT !.toGuest = Append(@, r)] \in Connections
    BY <2>1 DEF Connections
  <2> QED
    BY <2>2
<1>2. ASSUME NEW r \in ToHost
      PROVE  [control EXCEPT ![sid].toHost = Append(@, r)] \in [Sids -> Connections]
  <2>1. Append(control[sid].toHost, r) \in Seq(ToHost) /\ control[sid] \in Connections
    BY DEF Connections
  <2>2. [control[sid] EXCEPT !.toHost = Append(@, r)] \in Connections
    BY <2>1 DEF Connections
  <2> QED
    BY <2>2
<1> QED
  BY <1>1, <1>2

LEMMA ConnectionReads ==
  ASSUME control \in [Sids -> Connections], NEW sid \in Sids
  PROVE  /\ control[sid].toGuest # <<>> =>
              [control EXCEPT ![sid].toGuest = Tail(control[sid].toGuest)] \in [Sids -> Connections]
         /\ control[sid].toHost # <<>> =>
              [control EXCEPT ![sid].toHost = Tail(@)] \in [Sids -> Connections]
<1>1. ASSUME control[sid].toGuest # <<>>
      PROVE  [control EXCEPT ![sid].toGuest = Tail(control[sid].toGuest)] \in [Sids -> Connections]
  <2>1. Tail(control[sid].toGuest) \in Seq(ToGuest) /\ control[sid] \in Connections
    BY <1>1 DEF Connections
  <2>2. [control[sid] EXCEPT !.toGuest = Tail(control[sid].toGuest)] \in Connections
    BY <2>1 DEF Connections
  <2> QED
    BY <2>2
<1>2. ASSUME control[sid].toHost # <<>>
      PROVE  [control EXCEPT ![sid].toHost = Tail(@)] \in [Sids -> Connections]
  <2>1. Tail(control[sid].toHost) \in Seq(ToHost) /\ control[sid] \in Connections
    BY <1>2 DEF Connections
  <2>2. [control[sid] EXCEPT !.toHost = Tail(@)] \in Connections
    BY <2>1 DEF Connections
  <2> QED
    BY <2>2
<1> QED
  BY <1>1, <1>2

\* The next attempt, or the end of the session thread.
LEMMA RestartedIs ==
  ASSUME ViewerShape, Restarted
  PROVE  /\ viewer' \in Viewers /\ status' \in Statuses /\ control' \in [Sids -> Connections]
         /\ frame' = HostCloses(frame) /\ input' = HostCloses(input)
<1>1. viewer.sid \in Sids /\ status \in Statuses /\ control \in [Sids -> Connections]
  BY DEF ViewerShape, Viewers
<1>2. control' = HostLeaves(viewer.sid, <<>>) /\ frame' = HostCloses(frame) /\ input' = HostCloses(input)
  BY DEF Restarted
<1>3. control' \in [Sids -> Connections]
  BY <1>1, <1>2, LeavesIs, NothingSaid
<1>4. On("Retry") \in Statuses /\ On("NoParent") \in Statuses
  BY <1>1, OnIs
<1>5. status' \in Statuses
  BY <1>4 DEF Restarted
<1>6. CASE parent /\ viewer.sid < MaxSessions
  <2>1. viewer.sid + 1 \in Sids
    BY <1>1, <1>6, Consts DEF Sids
  <2>2. viewer' = [NewLive(viewer.sid + 1) EXCEPT !.pc = "connect"]
    BY <1>6 DEF Restarted
  <2> QED
    BY <2>1, <2>2, <1>2, <1>3, <1>5, NewLiveIs
<1>7. CASE ~(parent /\ viewer.sid < MaxSessions)
  <2>1. viewer' = [NewLive(viewer.sid) EXCEPT !.pc = "over"]
    BY <1>7 DEF Restarted
  <2> QED
    BY <2>1, <1>1, <1>2, <1>3, <1>5, NewLiveIs
<1> QED
  BY <1>6, <1>7

LEMMA ViewerStep ==
  ASSUME Shape, Next
  PROVE  ViewerShape'
<1> USE DEF Shape
<1>1. CASE BudgetExpires
  BY <1>1, FaultCounts DEF BudgetExpires, ViewerShape, Statuses
<1>2. CASE Connect
  <2>1. [NoConnection EXCEPT !.made = TRUE, !.toGuest = <<"hello">>] \in Connections
    BY NothingSaid DEF NoConnection, Connections
  <2>2. On("Connected") \in Statuses
    BY OnIs DEF ViewerShape
  <2>3. viewer' \in Viewers /\ viewer.sid \in Sids
    BY <1>2 DEF Connect, ViewerShape, Viewers
  <2>4. control' \in [Sids -> Connections]
    BY <1>2, <2>1, <2>3 DEF Connect, ViewerShape
  <2> QED
    BY <1>2, <2>2, <2>3, <2>4 DEF Connect, ViewerShape
<1>3. CASE RelayRecord
  <2>1. viewer.sid \in Sids
    BY DEF ViewerShape, Viewers
  <2>2. CASE Head(Conn.toHost) = "hello" /\ parent
    <3> DEFINE said == [control EXCEPT ![viewer.sid].toHost = Tail(@)]
    <3>1. said \in [Sids -> Connections]
      BY <1>3, <2>1, ConnectionReads DEF RelayRecord, Conn, ViewerShape
    <3>2. /\ Append(control[viewer.sid].toGuest, "auth") \in Seq(ToGuest)
          /\ Tail(control[viewer.sid].toHost) \in Seq(ToHost) /\ control[viewer.sid] \in Connections
      BY <1>3, <2>1 DEF RelayRecord, Conn, ViewerShape, Connections, ToGuest
    <3>3. [control[viewer.sid] EXCEPT !.toGuest = Append(@, "auth"), !.toHost = Tail(@)] \in Connections
      BY <3>2 DEF Connections
    <3>4. control' = [control EXCEPT ![viewer.sid] =
                        [control[viewer.sid] EXCEPT !.toGuest = Append(@, "auth"), !.toHost = Tail(@)]]
      BY <1>3, <2>1, <2>2, <3>2 DEF RelayRecord, ViewerShape, Connections
    <3>5. control' \in [Sids -> Connections]
      BY <3>3, <3>4 DEF ViewerShape
    <3>6. viewer' \in Viewers
      BY <1>3, <2>1, <2>2, NewLiveIs DEF RelayRecord
    <3> QED
      BY <1>3, <2>2, <3>5, <3>6 DEF RelayRecord, ViewerShape
  <2>3. CASE ~(Head(Conn.toHost) = "hello" /\ parent)
    <3>1. Restarted
      BY <1>3, <2>3 DEF RelayRecord
    <3> QED
      BY <1>3, <3>1, RestartedIs DEF RelayRecord, ViewerShape
  <2> QED
    BY <2>2, <2>3
<1>4. CASE RelayFails
  <2>1. Restarted /\ faults' \in 0..MaxFaults
    BY <1>4, FaultCounts DEF RelayFails, ViewerShape
  <2> QED
    BY <1>4, <2>1, RestartedIs DEF RelayFails, ViewerShape
<1>5. CASE Dial
  BY <1>5 DEF Dial, ViewerShape, Viewers
<1>6. CASE DialTimesOut
  <2>1. faults' \in 0..MaxFaults
    BY <1>6, FaultCounts DEF DialTimesOut, ViewerShape
  <2> QED
    BY <1>6, <2>1 DEF DialTimesOut, ViewerShape, Viewers
<1>7. CASE ReadControl
  <2>1. faults' \in 0..MaxFaults
    BY <1>7, FaultCounts DEF ReadControl, ViewerShape
  <2>2. viewer.sid \in Sids
    BY DEF ViewerShape, Viewers
  <2>3. CASE Restarted
    BY <1>7, <2>1, <2>3, RestartedIs DEF ReadControl, ViewerShape
  <2>4. CASE /\ Conn.toHost # <<>>
             /\ control' = [control EXCEPT ![viewer.sid].toHost = Tail(@)]
             /\ UNCHANGED <<viewer, status, frame, input, faults>>
    <3>1. control' \in [Sids -> Connections]
      BY <2>2, <2>4, ConnectionReads DEF Conn, ViewerShape
    <3> QED
      BY <1>7, <2>1, <2>4, <3>1 DEF ReadControl, ViewerShape
  <2> QED
    BY <1>7, <2>3, <2>4 DEF ReadControl
<1>8. CASE ReadFrame
  <2>1. frame.q \in Seq(FrameRecords) /\ frame.q # <<>>
    BY <1>8 DEF ReadFrame, SocketShape, FrameSockets
  <2>2. Head(frame.q) \in FrameRecords
    BY <2>1, TailIs
  <2>3. (IF Head(frame.q).kind = "config" THEN 0 ELSE Head(frame.q).shows) \in Commits
    BY <2>2, Consts DEF FrameRecords
  <2>4. viewer' \in Viewers
    BY <1>8, <2>3 DEF ReadFrame, ViewerShape, Viewers
  <2> QED
    BY <1>8, <2>4 DEF ReadFrame, ViewerShape
<1>9. CASE Rebind
  <2>3. 0 \in Commits /\ viewer.fgen + 1 \in Nat /\ viewer \in Viewers
    BY Consts DEF ViewerShape, Viewers
  <2>1. viewer' \in Viewers
    BY <1>9, <2>3 DEF Rebind, Viewers
  <2>2. On("ChannelLost") \in Statuses
    BY OnIs DEF ViewerShape
  <2> QED
    BY <1>9, <2>1, <2>2 DEF Rebind, ViewerShape
<1>10. CASE SendInput
  BY <1>10 DEF SendInput, ViewerShape
<1>11. CASE RequestKeyframe
  <2>1. viewer.sid \in Sids /\ "keyframe" \in ToGuest
    BY DEF ViewerShape, Viewers, ToGuest
  <2>2. control' \in [Sids -> Connections]
    BY <1>11, <2>1, ConnectionSays DEF RequestKeyframe, ViewerShape
  <2> QED
    BY <1>11, <2>2, FaultCounts DEF RequestKeyframe, ViewerShape
<1>12. CASE CloseWindow
  <2>1. viewer.sid \in Sids
    BY DEF ViewerShape, Viewers
  <2>2. control' \in [Sids -> Connections]
    BY <1>12, <2>1, LeavesIs, NothingSaid DEF CloseWindow, ViewerShape
  <2> QED
    BY <1>12, <2>1, <2>2, NewLiveIs DEF CloseWindow, ViewerShape
<1>13. CASE ParentLeaves
  BY <1>13, FaultCounts DEF ParentLeaves, ViewerShape
<1>14. CASE AdoptPeer
  BY <1>14 DEF AdoptPeer, ViewerShape
<1>15. CASE ReadPeer
  BY <1>15 DEF ReadPeer, ViewerShape
<1>16. CASE PeerGone
  BY <1>16 DEF PeerGone, ViewerShape
<1>17. CASE Accept
  BY <1>17 DEF Accept, ViewerShape
<1>18. CASE ControlStops
  <2>1. ctl.conn \in Sids
    BY <1>18 DEF ControlStops, Undisturbed, InConnection
  <2>2. control' \in [Sids -> Connections]
    BY <1>18, <2>1, LeavesIs, NothingSaid DEF ControlStops, ViewerShape
  <2> QED
    BY <1>18, <2>2 DEF ControlStops, ViewerShape
<1>19. CASE TellGeometry
  <2>1. ctl.conn \in Sids /\ "state" \in ToHost
    BY <1>19 DEF TellGeometry, InConnection, ToHost
  <2>2. control' \in [Sids -> Connections]
    BY <1>19, <2>1, ConnectionSays DEF TellGeometry, ViewerShape
  <2> QED
    BY <1>19, <2>2 DEF TellGeometry, ViewerShape
<1>20. CASE ReportFault
  <2>1. ctl.conn \in Sids
    BY <1>20 DEF ReportFault, Undisturbed, InConnection
  <2>2. control' \in [Sids -> Connections]
    BY <1>20, <2>1, LeavesIs, NothingSaid DEF ReportFault, ViewerShape
  <2> QED
    BY <1>20, <2>2 DEF ReportFault, ViewerShape
<1>21. CASE Pump
  <2> DEFINE q == control[ctl.conn].toGuest
             rest == [control EXCEPT ![ctl.conn].toGuest = Tail(q)]
  <2>1. ctl.conn \in Sids /\ "hello" \in ToHost
    BY <1>21 DEF Pump, Undisturbed, InConnection, ToHost
  <2>2. q # <<>> => rest \in [Sids -> Connections]
    BY <2>1, ConnectionReads DEF ViewerShape
  <2>3. GuestLeaves(ctl.conn, <<>>) \in [Sids -> Connections]
    BY <2>1, LeavesIs, NothingSaid DEF ViewerShape
  <2>4. \A c \in [Sids -> Connections] :
          [c EXCEPT ![ctl.conn].toHost = Append(@, "hello")] \in [Sids -> Connections]
    <3> TAKE c \in [Sids -> Connections]
    <3>1. Append(c[ctl.conn].toHost, "hello") \in Seq(ToHost) /\ c[ctl.conn] \in Connections
      BY <2>1 DEF Connections
    <3>2. [c[ctl.conn] EXCEPT !.toHost = Append(@, "hello")] \in Connections
      BY <3>1 DEF Connections
    <3> QED
      BY <3>2
  <2>5. \/ q # <<>> /\ control' = [rest EXCEPT ![ctl.conn].toHost = Append(@, "hello")]
        \/ q # <<>> /\ control' = rest
        \/ control' = GuestLeaves(ctl.conn, <<>>)
    BY <1>21 DEF Pump
  <2> HIDE DEF rest, q
  <2>6. control' \in [Sids -> Connections]
    BY <2>2, <2>3, <2>4, <2>5
  <2> QED
    BY <1>21, <2>6 DEF Pump, ViewerShape
<1>22. CASE TakeRequest
  BY <1>22 DEF TakeRequest, ViewerShape
<1>23. CASE DropRequest
  BY <1>23 DEF DropRequest, ViewerShape
<1>24. CASE Probe
  BY <1>24 DEF Probe, ViewerShape
<1>25. CASE CaptureFails
  BY <1>25, FaultCounts DEF CaptureFails, ViewerShape
<1>26. CASE CaptureStops
  BY <1>26 DEF CaptureStops, ViewerShape
<1>27. CASE ObserveGeometry
  BY <1>27 DEF ObserveGeometry, ViewerShape
<1>28. CASE SendSnapshot
  BY <1>28 DEF SendSnapshot, ViewerShape
<1>29. CASE AcceptFrame
  BY <1>29, OnIs DEF AcceptFrame, ViewerShape, Viewers
<1>30. CASE AcceptInput
  BY <1>30 DEF AcceptInput, ViewerShape, Viewers
<1>31. CASE ReadBroker
  BY <1>31 DEF ReadBroker, ViewerShape
<1>32. CASE PumpFrame
  BY <1>32 DEF PumpFrame, ViewerShape
<1>33. CASE Hangup
  BY <1>33 DEF Hangup, ViewerShape
<1>34. CASE ReadRelease
  BY <1>34 DEF ReadRelease, ViewerShape
<1>35. CASE Commit
  BY <1>35, FaultCounts, Consts DEF Commit, ViewerShape
<1>36. CASE SocketDrops
  BY <1>36, FaultCounts DEF SocketDrops, ViewerShape
<1>37. CASE ProcessDies
  BY <1>37, FaultCounts DEF ProcessDies, ViewerShape
<1>38. CASE ProcessRestarts
  BY <1>38 DEF ProcessRestarts, ViewerShape
<1>39. CASE BrokerExits
  <2>1. viewer.sid \in Sids
    BY DEF ViewerShape, Viewers
  <2>2. control' \in [Sids -> Connections]
    BY <1>39, <2>1, LeavesIs, NothingSaid DEF BrokerExits, ViewerShape
  <2> QED
    BY <1>39, <2>2 DEF BrokerExits, ViewerShape
<1> QED
  BY <1>1, <1>2, <1>3, <1>4, <1>5, <1>6, <1>7, <1>8, <1>9, <1>10, <1>11, <1>12, <1>13,
     <1>14, <1>15, <1>16, <1>17, <1>18, <1>19, <1>20, <1>21, <1>22, <1>23, <1>24, <1>25,
     <1>26, <1>27, <1>28, <1>29, <1>30, <1>31, <1>32, <1>33, <1>34, <1>35, <1>36, <1>37,
     <1>38, <1>39 DEF Next

-----------------------------------------------------------------------------
(* Every step leaves the sockets in shape. *)

LEMMA NoRecords == <<>> \in Seq(FrameRecords) /\ Len(<<>>) = 0
  OBVIOUS

LEMMA ClosedIs ==
  /\ Closed \in FrameSockets /\ Closed \in InputSockets /\ ~Closed.guest
  /\ Len(Closed.q) <= 1
  BY Consts, NoRecords DEF Closed, FrameSockets, InputSockets

LEMMA SocketStep ==
  ASSUME Shape, Next
  PROVE  SocketShape'
<1> USE DEF Shape
<1>1. CASE BudgetExpires
  BY <1>1 DEF BudgetExpires, SocketShape
<1>2. CASE Connect
  BY <1>2 DEF Connect, SocketShape
<1>3. CASE RelayRecord
  <2>1. CASE Restarted
    <3>1. frame' = HostCloses(frame) /\ input' = HostCloses(input) /\ UNCHANGED key
      BY <1>3, <2>1 DEF Restarted, RelayRecord
    <3> QED
      BY <3>1, HostClosesIs DEF SocketShape
  <2>2. CASE UNCHANGED <<frame, input>>
    BY <1>3, <2>2 DEF RelayRecord, SocketShape
  <2> QED
    BY <1>3, <2>1, <2>2 DEF RelayRecord
<1>4. CASE RelayFails
  <2>1. CASE Restarted
    <3>1. frame' = HostCloses(frame) /\ input' = HostCloses(input) /\ UNCHANGED key
      BY <1>4, <2>1 DEF Restarted, RelayFails
    <3> QED
      BY <3>1, HostClosesIs DEF SocketShape
  <2>2. CASE UNCHANGED <<frame, input>>
    BY <1>4, <2>2 DEF RelayFails, SocketShape
  <2> QED
    BY <1>4, <2>1, <2>2 DEF RelayFails
<1>5. CASE Dial
  BY <1>5 DEF Dial, SocketShape
<1>6. CASE DialTimesOut
  BY <1>6 DEF DialTimesOut, SocketShape
<1>7. CASE ReadControl
  <2>1. CASE Restarted
    <3>1. frame' = HostCloses(frame) /\ input' = HostCloses(input) /\ UNCHANGED key
      BY <1>7, <2>1 DEF Restarted, ReadControl
    <3> QED
      BY <3>1, HostClosesIs DEF SocketShape
  <2>2. CASE UNCHANGED <<frame, input>>
    BY <1>7, <2>2 DEF ReadControl, SocketShape
  <2> QED
    BY <1>7, <2>1, <2>2 DEF ReadControl
<1>8. CASE ReadFrame
  <2>1. frame.q \in Seq(FrameRecords) /\ frame.q # <<>> /\ Len(frame.q) <= 1
    BY <1>8 DEF ReadFrame, SocketShape, FrameSockets
  <2>2. Tail(frame.q) \in Seq(FrameRecords) /\ Len(Tail(frame.q)) <= 1
    BY <2>1, TailIs
  <2>3. frame' = [frame EXCEPT !.q = Tail(frame.q)] /\ UNCHANGED <<input, key>>
    BY <1>8 DEF ReadFrame
  <2>4. frame' \in FrameSockets /\ frame'.q = Tail(frame.q)
    BY <2>2, <2>3 DEF SocketShape, FrameSockets
  <2> QED
    BY <2>2, <2>3, <2>4 DEF SocketShape
<1>9. CASE Rebind
  BY <1>9, ClosedIs DEF Rebind, SocketShape
<1>10. CASE SendInput
  BY <1>10, ClosedIs DEF SendInput, SocketShape
<1>11. CASE RequestKeyframe
  BY <1>11 DEF RequestKeyframe, SocketShape
<1>12. CASE CloseWindow
  <2>1. frame' = HostCloses(frame) /\ input' = HostCloses(input) /\ UNCHANGED key
    BY <1>12 DEF CloseWindow
  <2> QED
    BY <2>1, HostClosesIs DEF SocketShape
<1>13. CASE ParentLeaves
  BY <1>13 DEF ParentLeaves, SocketShape
<1>14. CASE AdoptPeer
  BY <1>14 DEF AdoptPeer, SocketShape
<1>15. CASE ReadPeer
  BY <1>15 DEF ReadPeer, SocketShape
<1>16. CASE PeerGone
  BY <1>16 DEF PeerGone, SocketShape
<1>17. CASE Accept
  BY <1>17 DEF Accept, SocketShape
<1>18. CASE ControlStops
  BY <1>18 DEF ControlStops, SocketShape
<1>19. CASE TellGeometry
  BY <1>19 DEF TellGeometry, SocketShape
<1>20. CASE ReportFault
  BY <1>20 DEF ReportFault, SocketShape
<1>21. CASE Pump
  BY <1>21 DEF Pump, SocketShape
<1>22. CASE TakeRequest
  BY <1>22 DEF TakeRequest, SocketShape
<1>23. CASE DropRequest
  BY <1>23 DEF DropRequest, SocketShape
<1>24. CASE Probe
  BY <1>24 DEF Probe, SocketShape
<1>25. CASE CaptureFails
  BY <1>25 DEF CaptureFails, SocketShape
<1>26. CASE CaptureStops
  BY <1>26 DEF CaptureStops, SocketShape
<1>27. CASE ObserveGeometry
  BY <1>27 DEF ObserveGeometry, SocketShape
<1>28. CASE SendSnapshot
  BY <1>28 DEF SendSnapshot, SocketShape
<1>29. CASE AcceptFrame
  <2>1. Bound(screen.n, <<>>) \in FrameSockets /\ Len(Bound(screen.n, <<>>).q) <= 1
    BY Consts, NoRecords DEF Bound, FrameSockets, ViewerShape
  <2> QED
    BY <1>29, <2>1 DEF AcceptFrame, SocketShape
<1>30. CASE AcceptInput
  <2>1. Bound(0, <<"release">>) \in InputSockets
    BY Consts DEF Bound, InputSockets
  <2> QED
    BY <1>30, <2>1 DEF AcceptInput, SocketShape
<1>31. CASE ReadBroker
  <2>1. CASE CloseSockets
    BY <2>1, GuestClosesIs DEF CloseSockets, Release, SocketShape
  <2>2. CASE UNCHANGED <<frame, input>> /\ key' \in {key, "lost"}
    BY <2>2 DEF SocketShape
  <2> QED
    BY <1>31, <2>1, <2>2 DEF ReadBroker
<1>32. CASE PumpFrame
  <2>1. proc.pipeline \in Pipelines
    BY DEF GuestShape, Processes
  <2>2. PICK r \in FrameRecords : frame' = [frame EXCEPT !.q = <<r>>]
    <3> DEFINE p == proc.pipeline
               shown == IF p.staged # 0 THEN p.staged ELSE p.reference
    <3>1. /\ [kind |-> "config", shows |-> 0] \in FrameRecords
          /\ [kind |-> "picture", shows |-> shown] \in FrameRecords
      BY <2>1, Consts DEF FrameRecords, Pipelines
    <3> QED
      BY <1>32, <3>1 DEF PumpFrame
  <2>4. <<r>> \in Seq(FrameRecords) /\ Len(<<r>>) = 1
    OBVIOUS
  <2>5. frame' \in FrameSockets /\ frame'.q = <<r>>
    BY <2>2, <2>4 DEF SocketShape, FrameSockets
  <2>3. frame' \in FrameSockets /\ Len(frame'.q) <= 1
    BY <2>4, <2>5
  <2> QED
    BY <1>32, <2>3 DEF PumpFrame, SocketShape
<1>33. CASE Hangup
  BY <1>33, ClosedIs DEF Hangup, Release, SocketShape
<1>34. CASE ReadRelease
  <2>1. <<>> \in Seq({"release"})
    OBVIOUS
  <2>2. input' \in InputSockets
    BY <1>34, <2>1 DEF ReadRelease, SocketShape, InputSockets
  <2> QED
    BY <1>34, <2>2 DEF ReadRelease, Release, SocketShape
<1>35. CASE Commit
  BY <1>35 DEF Commit, SocketShape
<1>36. CASE SocketDrops
  BY <1>36, GuestClosesIs DEF SocketDrops, Release, SocketShape
<1>37. CASE ProcessDies
  BY <1>37, GuestClosesIs DEF ProcessDies, ProcessGoes, SocketShape
<1>38. CASE ProcessRestarts
  BY <1>38 DEF ProcessRestarts, SocketShape
<1>39. CASE BrokerExits
  BY <1>39, GuestClosesIs DEF BrokerExits, ProcessGoes, SocketShape
<1> QED
  BY <1>1, <1>2, <1>3, <1>4, <1>5, <1>6, <1>7, <1>8, <1>9, <1>10, <1>11, <1>12, <1>13,
     <1>14, <1>15, <1>16, <1>17, <1>18, <1>19, <1>20, <1>21, <1>22, <1>23, <1>24, <1>25,
     <1>26, <1>27, <1>28, <1>29, <1>30, <1>31, <1>32, <1>33, <1>34, <1>35, <1>36, <1>37,
     <1>38, <1>39 DEF Next

-----------------------------------------------------------------------------
(* Every step leaves the broker and the process in shape. *)

LEMMA ToPeerIs ==
  ASSUME GuestShape, NEW inc, NEW ms \in Seq(Messages), ToPeer(inc, ms)
  PROVE  peerq' \in Seq(Messages)
  BY DEF GuestShape, ToPeer

LEMMA OneMessage ==
  /\ \A t \in Kinds : <<Message(t)>> \in Seq(Messages)
  /\ "closed" \in Kinds /\ "key" \in Kinds /\ "devices" \in Kinds
  /\ \A sid \in 0..MaxSessions, size \in SizesSeen : <<SessionOpened(sid, size)>> \in Seq(Messages)
  /\ \A size \in SizesSeen : <<[Message("geometry") EXCEPT !.size = size]>> \in Seq(Messages)
<1>1. \A m \in Messages : <<m>> \in Seq(Messages)
  OBVIOUS
<1>2. "closed" \in Kinds /\ "key" \in Kinds /\ "devices" \in Kinds
  BY DEF Kinds
<1> QED
  BY <1>1, <1>2, MessageIs

LEMMA IntroductionIs ==
  ASSUME GuestShape
  PROVE  Introduction \in Seq(Messages)
<1>1. <<Message("devices")>> \in Seq(Messages) /\ <<>> \in Seq(Messages)
  BY OneMessage
<1>2. <<SessionOpened(bk.session, bk.sessionSize)>> \in Seq(Messages)
  BY OneMessage DEF GuestShape, Brokers
<1>3. (IF bk.session = None THEN <<>> ELSE <<SessionOpened(bk.session, bk.sessionSize)>>)
        \in Seq(Messages)
  BY <1>1, <1>2
<1> QED
  BY <1>1, <1>3 DEF Introduction

LEMMA SessionSet ==
  ASSUME GuestShape
  PROVE  \A s \in 0..MaxSessions, size \in SizesSeen :
           /\ [bk EXCEPT !.epoch = @ + 1, !.session = s, !.sessionSize = size,
                         !.sent = {}, !.wants = FALSE] \in Brokers
           /\ [bk EXCEPT !.epoch = @ + 1, !.session = None, !.sessionSize = None,
                         !.wants = FALSE, !.sent = {}] \in Brokers
           /\ [bk EXCEPT !.fault = FALSE, !.epoch = @ + 1, !.session = None,
                         !.sessionSize = None, !.wants = FALSE, !.sent = {}] \in Brokers
<1> TAKE s \in 0..MaxSessions, size \in SizesSeen
<1>1. /\ bk \in Brokers /\ bk.epoch + 1 \in Nat /\ {} \in SUBSET {0, 1}
      /\ None \in 0..MaxSessions /\ None \in SizesSeen
  BY Consts DEF GuestShape, Brokers
<1>2. [bk EXCEPT !.epoch = @ + 1, !.session = s, !.sessionSize = size,
                 !.sent = {}, !.wants = FALSE] \in Brokers
  BY <1>1 DEF Brokers
<1>3. [bk EXCEPT !.epoch = @ + 1, !.session = None, !.sessionSize = None,
                 !.wants = FALSE, !.sent = {}] \in Brokers
  BY <1>1 DEF Brokers
<1>4. [bk EXCEPT !.fault = FALSE, !.epoch = @ + 1, !.session = None,
                 !.sessionSize = None, !.wants = FALSE, !.sent = {}] \in Brokers
  BY <1>1 DEF Brokers
<1> QED
  BY <1>2, <1>3, <1>4

LEMMA EndControlIs ==
  ASSUME GuestShape, EndControl
  PROVE  bk' \in Brokers /\ ctl' \in Controls /\ peerq' \in Seq(Messages) /\ InConnection'
<1>1. bk' \in Brokers
  BY SessionSet, Consts DEF EndControl
<1>2. ctl' \in Controls /\ ctl'.pc # "session"
  BY Consts DEF EndControl, GuestShape, Controls, NoControl
<1>3. peerq' \in Seq(Messages)
  BY OneMessage, ToPeerIs DEF EndControl
<1> QED
  BY <1>1, <1>2, <1>3 DEF InConnection

LEMMA NoCaptureIs ==
  /\ NoCapture \in Captures /\ \A n \in Commits : [NoCapture EXCEPT !.seen = n] \in Captures
  /\ [NoCapture EXCEPT !.pc = "failing"] \in Captures
  /\ [NoCapture EXCEPT !.pc = "ended"] \in Captures
<1>1. Message("none") \in Messages
  BY MessageIs DEF Kinds
<1> QED
  BY <1>1, Consts DEF NoCapture, Captures, None

LEMMA PipelinesAre == NoPipeline \in Pipelines /\ NewPipeline \in Pipelines
  BY Consts DEF NoPipeline, NewPipeline, Pipelines

LEMMA PipelineSet ==
  ASSUME proc \in Processes, NEW p \in Pipelines
  PROVE  [proc EXCEPT !.pipeline = p] \in Processes
  BY DEF Processes

LEMMA GoesShape ==
  ASSUME GuestShape, ProcessGoes
  PROVE  /\ proc' \in Processes /\ peerq' \in Seq(Messages) /\ peerq' = <<>>
         /\ ~proc'.up /\ proc'.inc = proc.inc /\ proc'.params = None /\ proc'.buffers = {}
<1>1. proc.inc \in Nat
  BY DEF GuestShape, Processes
<1>2. NewProcess(proc.inc) \in Processes
  BY <1>1, NewProcessIs
<1>3. [NewProcess(proc.inc) EXCEPT !.up = FALSE] \in Processes
  BY <1>2 DEF Processes
<1>4. /\ ~proc'.up /\ proc'.inc = proc.inc /\ proc'.params = None /\ proc'.buffers = {}
  BY <1>2, <1>1, NewProcessIs DEF ProcessGoes, Processes
<1>5. <<>> \in Seq(Messages)
  OBVIOUS
<1> QED
  BY <1>3, <1>4, <1>5 DEF ProcessGoes

\* What the process is after a message, and what the queue's account of it says.
LEMMA ReadShape ==
  ASSUME Shape, ReadBroker
  PROVE  proc' \in Processes
<1> DEFINE m == Head(peerq)
<1> USE DEF Shape
<1>1. m \in Messages
  BY TailIs DEF ReadBroker, GuestShape
<1>2. proc.inc \in Nat /\ proc \in Processes
  BY DEF GuestShape, Processes
<1>3. NewProcess(proc.inc) \in Processes
  BY <1>2, NewProcessIs
<1> HIDE DEF m
<1>4. CASE m.t = "opened"
  <2>1. proc' = [NewProcess(proc.inc) EXCEPT !.params = m.sid, !.size = m.size, !.asked = TRUE]
    BY <1>4 DEF ReadBroker, m
  <2> QED
    BY <2>1, <1>1, <1>3 DEF Messages, Processes
<1>5. CASE m.t = "closed"
  BY <1>3, <1>5 DEF ReadBroker, m
<1>6. CASE m.t = "key"
  <2> DEFINE again == frame.guest /\ proc.pipeline.reference # 0
  <2>1. [proc.pipeline EXCEPT !.again = again] \in Pipelines
    BY <1>2 DEF Processes, Pipelines
  <2>2. proc' = [proc EXCEPT !.pipeline = [proc.pipeline EXCEPT !.again = again]]
    BY <1>2, <1>6 DEF ReadBroker, m, Processes
  <2> QED
    BY <1>2, <2>1, <2>2, PipelineSet
<1>7. CASE m.t = "geometry"
  <2>1. proc' = Resized(m.size) /\ m.size \in SizesSeen
    BY <1>1, <1>7 DEF ReadBroker, m, Messages
  <2> QED
    BY <1>2, <2>1, PipelinesAre DEF Resized, Processes
<1>8. CASE m.t = "devices"
  BY <1>2, <1>8 DEF ReadBroker, m
<1>9. CASE m.t = "snap"
  <2> DEFINE mapped == IF m.new THEN proc.buffers \cup {Buffer(m.n)} ELSE proc.buffers
             staged == IF frame.guest /\ m.size = proc.size /\ Buffer(m.n) \in mapped
                       THEN m.n ELSE proc.pipeline.staged
             pipe == [proc.pipeline EXCEPT !.staged = staged]
             asked == proc.params # None
  <2>1. m.n \in Commits /\ Buffer(m.n) \in {0, 1}
    BY <1>1, Consts DEF Messages
  <2>2. mapped \in SUBSET {0, 1} /\ staged \in Commits
    BY <1>2, <2>1 DEF Processes, Pipelines
  <2>3. proc' = [proc EXCEPT !.buffers = mapped, !.asked = asked, !.pipeline = pipe]
    BY <1>2, <1>9 DEF ReadBroker, Submitted, m, Processes
  <2>6. asked \in BOOLEAN
    OBVIOUS
  <2> HIDE DEF mapped, staged, asked
  <2>4. pipe \in Pipelines
    BY <1>2, <2>2 DEF Processes, Pipelines
  <2> HIDE DEF pipe
  <2>5. [proc EXCEPT !.buffers = mapped, !.asked = asked, !.pipeline = pipe] \in Processes
    BY <1>2, <2>2, <2>4, <2>6 DEF Processes
  <2> QED
    BY <2>3, <2>5
<1> QED
  BY <1>1, <1>4, <1>5, <1>6, <1>7, <1>8, <1>9 DEF ReadBroker, m

LEMMA GuestStep ==
  ASSUME Shape, Next
  PROVE  GuestShape' /\ InConnection'
<1> USE DEF Shape
<1>1. CASE BudgetExpires
  BY <1>1 DEF BudgetExpires, GuestShape, InConnection
<1>2. CASE Connect
  BY <1>2 DEF Connect, GuestShape, InConnection
<1>3. CASE RelayRecord
  BY <1>3 DEF RelayRecord, GuestShape, InConnection
<1>4. CASE RelayFails
  BY <1>4 DEF RelayFails, GuestShape, InConnection
<1>5. CASE Dial
  BY <1>5 DEF Dial, GuestShape, InConnection
<1>6. CASE DialTimesOut
  BY <1>6 DEF DialTimesOut, GuestShape, InConnection
<1>7. CASE ReadControl
  BY <1>7 DEF ReadControl, GuestShape, InConnection
<1>8. CASE ReadFrame
  BY <1>8 DEF ReadFrame, GuestShape, InConnection
<1>9. CASE Rebind
  BY <1>9 DEF Rebind, GuestShape, InConnection
<1>10. CASE SendInput
  BY <1>10 DEF SendInput, GuestShape, InConnection
<1>11. CASE RequestKeyframe
  BY <1>11 DEF RequestKeyframe, GuestShape, InConnection
<1>12. CASE CloseWindow
  BY <1>12 DEF CloseWindow, GuestShape, InConnection
<1>13. CASE ParentLeaves
  BY <1>13 DEF ParentLeaves, GuestShape, InConnection
<1>14. CASE AdoptPeer
  <2>1. Head(askq) \in Asks /\ Introduction \in Seq(Messages)
    BY <1>14, TailIs, IntroductionIs DEF AdoptPeer, GuestShape
  <2>2. Head(askq).inc \in Nat /\ {} \in SUBSET {0, 1}
    BY <2>1 DEF Asks
  <2>3. peerq' \in Seq(Messages)
    BY <1>14, <2>1, ToPeerIs DEF AdoptPeer
  <2>4. bk' \in Brokers
    BY <1>14, <2>2 DEF AdoptPeer, GuestShape, Brokers
  <2>5. serve' \in [inc : Nat, ended : BOOLEAN]
    BY <1>14, <2>2 DEF AdoptPeer, GuestShape
  <2> QED
    BY <1>14, <2>3, <2>4, <2>5 DEF AdoptPeer, GuestShape, InConnection
<1>15. CASE ReadPeer
  <2>1. askq' \in Seq(Asks) /\ Introduction \in Seq(Messages)
    BY <1>15, TailIs, IntroductionIs DEF ReadPeer, GuestShape
  <2>2. peerq' \in Seq(Messages)
    BY <1>15, <2>1, ToPeerIs DEF ReadPeer, GuestShape
  <2>3. bk' \in Brokers
    BY <1>15 DEF ReadPeer, GuestShape, Brokers
  <2> QED
    BY <1>15, <2>1, <2>2, <2>3 DEF ReadPeer, GuestShape, InConnection
<1>16. CASE PeerGone
  <2>1. serve' \in [inc : Nat, ended : BOOLEAN]
    BY <1>16 DEF PeerGone, GuestShape, Brokers, None
  <2> QED
    BY <1>16, <2>1 DEF PeerGone, GuestShape, InConnection
<1>17. CASE Accept
  <2>1. PICK sid \in Sids :
          ctl' = [pc |-> "session", conn |-> sid,
                  offer |-> IF bk.size = None THEN screen.size ELSE bk.size,
                  size |-> IF bk.size = None THEN screen.size ELSE bk.size]
    BY <1>17 DEF Accept
  <2>2. /\ sid \in 0..MaxSessions
        /\ (IF bk.size = None THEN screen.size ELSE bk.size) \in SizesSeen
    BY Consts DEF GuestShape, Brokers, ViewerShape
  <2>3. ctl' \in Controls /\ ctl'.conn = sid
    BY <2>1, <2>2 DEF Controls
  <2> QED
    BY <1>17, <2>3 DEF Accept, GuestShape, InConnection
<1>18. CASE ControlStops
  <2>1. EndControl
    BY <1>18 DEF ControlStops
  <2> QED
    BY <1>18, <2>1, EndControlIs DEF ControlStops, GuestShape
<1>19. CASE TellGeometry
  <2>1. bk' \in Brokers
    BY <1>19 DEF TellGeometry, GuestShape, Brokers
  <2>2. ctl' \in Controls /\ ctl'.conn = ctl.conn /\ ctl'.pc = ctl.pc
    BY <1>19 DEF TellGeometry, GuestShape, Brokers, Controls
  <2> QED
    BY <1>19, <2>1, <2>2 DEF TellGeometry, GuestShape, InConnection
<1>20. CASE ReportFault
  <2>1. bk' \in Brokers
    BY <1>20, SessionSet, Consts DEF ReportFault
  <2>2. ctl' \in Controls /\ ctl'.pc = "accept"
    BY <1>20, Consts DEF ReportFault, GuestShape, Controls, NoControl
  <2>3. peerq' \in Seq(Messages)
    BY <1>20, OneMessage, ToPeerIs DEF ReportFault
  <2> QED
    BY <1>20, <2>1, <2>2, <2>3 DEF ReportFault, GuestShape, InConnection
<1>21. CASE Pump
  <2>1. CASE UNCHANGED <<bk, ctl, peerq>>
    BY <1>21, <2>1 DEF Pump, GuestShape, InConnection
  <2>2. CASE OpenSession /\ ctl' = [ctl EXCEPT !.size = ctl.offer]
    <3>1. bk' \in Brokers
      BY <2>2, SessionSet DEF OpenSession, GuestShape, Controls
    <3>2. peerq' \in Seq(Messages)
      BY <2>2, OneMessage, ToPeerIs DEF OpenSession, GuestShape, Controls
    <3>3. ctl' \in Controls /\ ctl'.conn = ctl.conn /\ ctl'.pc = ctl.pc
      BY <2>2 DEF GuestShape, Controls
    <3> QED
      BY <1>21, <3>1, <3>2, <3>3 DEF Pump, GuestShape, InConnection
  <2>3. CASE ToPeer(bk.peer, <<Message("key")>>) /\ UNCHANGED <<bk, ctl>>
    <3>1. peerq' \in Seq(Messages)
      BY <2>3, OneMessage, ToPeerIs
    <3> QED
      BY <1>21, <2>3, <3>1 DEF Pump, GuestShape, InConnection
  <2>4. CASE EndControl
    BY <1>21, <2>4, EndControlIs DEF Pump, GuestShape
  <2> QED
    BY <1>21, <2>1, <2>2, <2>3, <2>4 DEF Pump
<1>22. CASE TakeRequest
  <2>1. bk' \in Brokers
    BY <1>22 DEF TakeRequest, GuestShape, Brokers
  <2>2. cap' \in Captures
    BY <1>22 DEF TakeRequest, GuestShape, Brokers, Captures
  <2> QED
    BY <1>22, <2>1, <2>2 DEF TakeRequest, GuestShape, InConnection
<1>23. CASE DropRequest
  BY <1>23, NoCaptureIs DEF DropRequest, GuestShape, InConnection
<1>24. CASE Probe
  <2>1. [Message("snap") EXCEPT !.n = screen.n, !.size = screen.size] \in Messages
    BY Consts DEF Message, Messages, Kinds, ViewerShape
  <2>2. cap' \in Captures
    BY <1>24, <2>1 DEF Probe, GuestShape, Captures
  <2> QED
    BY <1>24, <2>2 DEF Probe, GuestShape, InConnection
<1>25. CASE CaptureFails
  <2>1. bk' \in Brokers
    BY <1>25 DEF CaptureFails, GuestShape, Brokers
  <2> QED
    BY <1>25, <2>1, NoCaptureIs DEF CaptureFails, GuestShape, InConnection
<1>26. CASE CaptureStops
  <2>1. bk' \in Brokers
    BY <1>26 DEF CaptureStops, GuestShape, Brokers
  <2> QED
    BY <1>26, <2>1, NoCaptureIs DEF CaptureStops, GuestShape, InConnection
<1>27. CASE ObserveGeometry
  <2>1. bk' \in Brokers /\ cap' \in Captures /\ cap.shot.size \in SizesSeen
    BY <1>27 DEF ObserveGeometry, GuestShape, Brokers, Captures, Messages
  <2>2. peerq' \in Seq(Messages)
    BY <1>27, <2>1, OneMessage, ToPeerIs DEF ObserveGeometry
  <2> QED
    BY <1>27, <2>1, <2>2 DEF ObserveGeometry, GuestShape, InConnection
<1>28. CASE SendSnapshot
  <2> DEFINE shot == [cap.shot EXCEPT !.sid = bk.session, !.new = Buffer(cap.shot.n) \notin bk.sent]
  <2>8. /\ cap.shot \in Messages /\ bk.session \in 0..MaxSessions
        /\ (Buffer(cap.shot.n) \notin bk.sent) \in BOOLEAN
    BY DEF GuestShape, Brokers, Captures
  <2>9. shot \in Messages
    BY <2>8 DEF Messages
  <2>1. shot \in Messages /\ <<shot>> \in Seq(Messages)
    BY <2>9
  <2>2. cap.shot.n \in Commits
    BY DEF GuestShape, Captures, Messages
  <2>3. bk.sent \cup {Buffer(cap.shot.n)} \in SUBSET {0, 1}
    BY <2>2, Consts DEF GuestShape, Brokers
  <2>4. [bk EXCEPT !.sent = @ \cup {Buffer(cap.shot.n)}] \in Brokers
    BY <2>3 DEF GuestShape, Brokers
  <2>5. \/ ToPeer(cap.peer, <<shot>>) /\ bk' = [bk EXCEPT !.sent = @ \cup {Buffer(cap.shot.n)}]
        \/ UNCHANGED <<bk, peerq>>
    BY <1>28 DEF SendSnapshot
  <2> HIDE DEF shot
  <2>6. bk' \in Brokers /\ peerq' \in Seq(Messages)
    BY <2>1, <2>4, <2>5, ToPeerIs DEF GuestShape
  <2>7. cap' \in Captures
    BY <1>28, <2>2, NoCaptureIs DEF SendSnapshot
  <2> QED
    BY <1>28, <2>6, <2>7 DEF SendSnapshot, GuestShape, InConnection
<1>29. CASE AcceptFrame
  <2>1. proc' \in Processes
    BY <1>29, PipelinesAre DEF AcceptFrame, GuestShape, ViewerShape, Viewers, Processes
  <2> QED
    BY <1>29, <2>1 DEF AcceptFrame, GuestShape, InConnection
<1>30. CASE AcceptInput
  <2>1. proc' \in Processes
    BY <1>30 DEF AcceptInput, GuestShape, ViewerShape, Viewers, Processes
  <2> QED
    BY <1>30, <2>1 DEF AcceptInput, GuestShape, InConnection
<1>31. CASE ReadBroker
  <2>1. Tail(peerq) \in Seq(Messages) /\ Head(peerq) \in Messages
    BY <1>31, TailIs DEF ReadBroker, GuestShape
  <2>2. proc' \in Processes
    BY <1>31, <2>1, ReadShape
  <2>3. Append(askq, [inc |-> proc.inc, t |-> "next"]) \in Seq(Asks)
    BY DEF GuestShape, Processes, Asks
  <2>4. askq' \in Seq(Asks)
    BY <1>31, <2>3 DEF ReadBroker, Ask, GuestShape
  <2> QED
    BY <1>31, <2>1, <2>2, <2>4 DEF ReadBroker, GuestShape, InConnection
<1>32. CASE PumpFrame
  <2> DEFINE p == proc.pipeline
             shown == IF p.staged # 0 THEN p.staged ELSE p.reference
  <2>1. proc.pipeline \in Pipelines /\ shown \in Commits
    BY DEF GuestShape, Processes, Pipelines
  <2>2. /\ [proc.pipeline EXCEPT !.config = FALSE] \in Pipelines
        /\ [NoPipeline EXCEPT !.reference = shown] \in Pipelines
    BY <2>1, Consts DEF Pipelines, NoPipeline
  <2>3. \/ proc' = [proc EXCEPT !.pipeline = [proc.pipeline EXCEPT !.config = FALSE]]
        \/ proc' = [proc EXCEPT !.pipeline = [NoPipeline EXCEPT !.reference = shown]]
    BY <1>32 DEF PumpFrame, GuestShape, Processes
  <2> HIDE DEF shown
  <2>4. proc' \in Processes
    BY <2>2, <2>3, PipelineSet DEF GuestShape
  <2> QED
    BY <1>32, <2>4 DEF PumpFrame, GuestShape, InConnection
<1>33. CASE Hangup
  <2>1. proc' \in Processes
    BY <1>33, PipelinesAre, PipelineSet DEF Hangup, GuestShape
  <2> QED
    BY <1>33, <2>1 DEF Hangup, GuestShape, InConnection
<1>34. CASE ReadRelease
  BY <1>34 DEF ReadRelease, GuestShape, InConnection
<1>35. CASE Commit
  BY <1>35 DEF Commit, GuestShape, InConnection
<1>36. CASE SocketDrops
  <2>1. proc' \in Processes
    BY <1>36, PipelinesAre, PipelineSet DEF SocketDrops, GuestShape
  <2> QED
    BY <1>36, <2>1 DEF SocketDrops, GuestShape, InConnection
<1>37. CASE ProcessDies
  <2>1. proc' \in Processes /\ peerq' \in Seq(Messages)
    BY <1>37, GoesShape DEF ProcessDies
  <2> QED
    BY <1>37, <2>1 DEF ProcessDies, GuestShape, InConnection
<1>38. CASE ProcessRestarts
  <2>1. proc.inc + 1 \in Nat
    BY DEF GuestShape, Processes
  <2>2. Append(askq, [inc |-> proc.inc + 1, t |-> "attach"]) \in Seq(Asks)
    BY <2>1 DEF GuestShape, Asks
  <2> QED
    BY <1>38, <2>1, <2>2, NewProcessIs DEF ProcessRestarts, GuestShape, InConnection
<1>39. CASE BrokerExits
  <2>1. proc' \in Processes /\ peerq' \in Seq(Messages)
    BY <1>39, GoesShape DEF BrokerExits, GuestShape
  <2>2. bk' \in Brokers
    BY <1>39, Consts DEF BrokerExits, NoBroker, GuestShape, Brokers, None
  <2>3. viewer.sid \in 0..MaxSessions /\ viewer.sid - 1 \in 0..MaxSessions
    BY Consts DEF ViewerShape, Viewers, Sids
  <2>4. ctl' \in Controls /\ ctl'.pc = "accept"
    BY <1>39, <2>3, Consts DEF BrokerExits, NoControl, Controls
  <2>5. serve' \in [inc : Nat, ended : BOOLEAN] /\ askq' \in Seq(Asks)
    BY <1>39 DEF BrokerExits, None
  <2> QED
    BY <1>39, <2>1, <2>2, <2>4, <2>5, NoCaptureIs DEF BrokerExits, GuestShape, InConnection
<1> QED
  BY <1>1, <1>2, <1>3, <1>4, <1>5, <1>6, <1>7, <1>8, <1>9, <1>10, <1>11, <1>12, <1>13,
     <1>14, <1>15, <1>16, <1>17, <1>18, <1>19, <1>20, <1>21, <1>22, <1>23, <1>24, <1>25,
     <1>26, <1>27, <1>28, <1>29, <1>30, <1>31, <1>32, <1>33, <1>34, <1>35, <1>36, <1>37,
     <1>38, <1>39 DEF Next

-----------------------------------------------------------------------------
(* What broker and process know of each other, step by step. *)

SameProcess ==
  /\ proc'.up = proc.up /\ proc'.inc = proc.inc
  /\ proc'.params = proc.params /\ proc'.buffers = proc.buffers

\* The numbers the invariant compares.
LEMMA Numbers ==
  ASSUME Shape
  PROVE  /\ proc.inc \in Nat /\ bk.peer \in Nat /\ cap.peer \in Nat /\ serve.inc \in Nat
         /\ proc.up \in BOOLEAN /\ bk.wants \in BOOLEAN /\ None = 0
         /\ Len(askq) \in Nat /\ Len(peerq) \in Nat
         /\ \A i \in 1..Len(askq) : askq[i] \in Asks /\ askq[i].inc \in Nat
<1>1. /\ bk \in Brokers /\ cap \in Captures /\ proc \in Processes /\ askq \in Seq(Asks)
      /\ serve \in [inc : Nat, ended : BOOLEAN] /\ peerq \in Seq(Messages)
  BY DEF Shape, GuestShape
<1>2. \A i \in 1..Len(askq) : askq[i] \in Asks
  BY <1>1
<1> QED
  BY <1>1, <1>2 DEF Brokers, Captures, Processes, Asks, None

\* Most steps touch nothing the two compare, but a request may be dropped.
LEMMA Untouched ==
  ASSUME Shape, Handover, UNCHANGED <<peerq, askq>>, SameProcess,
         serve'.inc = serve.inc, bk'.peer = bk.peer, bk'.session = bk.session,
         bk'.sent = bk.sent, bk'.wants => bk.wants,
         cap'.peer \in {cap.peer, None}, ShotIsTaken'
  PROVE  Handover'
<1>1. Incarnations'
  BY Numbers DEF Handover, Incarnations, SameProcess
<1>2. AskOrder'
  BY Numbers DEF Handover, AskOrder, SameProcess
<1>3. AttachFirst'
  <2> SUFFICES ASSUME Unheard' PROVE ~bk'.wants /\ bk'.sent = {} /\ cap'.peer # bk'.peer
    BY DEF AttachFirst
  <2>1. PICK i \in 1..Len(askq) : askq[i].t = "attach" /\ askq[i].inc = bk.peer
    BY DEF Unheard
  <2>2. ~bk.wants /\ bk.sent = {} /\ cap.peer # bk.peer
    BY <2>1 DEF Handover, AttachFirst, Unheard
  <2>3. 1 < bk.peer
    BY <2>1 DEF Handover, AskOrder
  <2> QED
    BY <2>2, <2>3, Numbers
<1>4. PeerFollows'
  BY DEF Handover, PeerFollows, SameProcess
<1> QED
  BY <1>1, <1>2, <1>3, <1>4 DEF Handover


\* A session opens or closes.
LEMMA SessionTurns ==
  ASSUME Shape, Handover, NEW m \in Messages, m.t \in Turn, ~m.new,
         m.t = "closed" => m.sid = None, ToPeer(bk.peer, <<m>>),
         UNCHANGED <<askq, proc, serve, cap>>, bk'.peer = bk.peer, bk'.session = m.sid,
         bk'.sent = {}, bk'.wants = FALSE
  PROVE  Handover'
<1>1. \/ /\ proc.up /\ proc.inc = bk.peer
         /\ peerq' = Append(peerq, m)
      \/ peerq' = peerq /\ ~(proc.up /\ proc.inc = bk.peer)
  <2>1. peerq \in Seq(Messages)
    BY DEF Shape, GuestShape
  <2>2. peerq \o <<m>> = Append(peerq, m)
    BY <2>1, AppendIs
  <2> QED
    BY <2>2 DEF ToPeer
<1>2. Incarnations'
  BY <1>1, Numbers DEF Handover, Incarnations
<1>3. AskOrder'
  BY Numbers DEF Handover, AskOrder
<1>4. AttachFirst'
  BY DEF Handover, AttachFirst, Unheard
<1>5. PeerFollows'
  <2> SUFFICES ASSUME proc.up, proc.inc = bk.peer
               PROVE  Comes(peerq', proc.params, proc.buffers, m.sid, {})
    BY DEF PeerFollows
  <2>1. peerq' = Append(peerq, m) /\ peerq \in Seq(Messages)
    BY <1>1 DEF Shape, GuestShape
  <2>2. Comes(peerq, proc.params, proc.buffers, bk.session, bk.sent)
    BY DEF Handover, PeerFollows
  <2>3. Comes(Append(peerq, m), proc.params, proc.buffers, m.sid, {})
    BY <2>1, <2>2, ComesTurn
  <2> QED
    BY <2>1, <2>3
<1> QED
  BY <1>2, <1>3, <1>4, <1>5 DEF Handover, ShotIsTaken

\* A message that is neither is sent to the peer, or to one that was the peer.
LEMMA SideMessage ==
  ASSUME Shape, Handover, NEW m \in Messages, m.t \notin Turn, m.t # "snap", ~m.new,
         NEW inc \in Nat, inc <= bk.peer, ToPeer(inc, <<m>>),
         UNCHANGED <<askq, proc, serve>>, bk'.peer = bk.peer, bk'.session = bk.session,
         bk'.sent = bk.sent, bk'.wants = bk.wants, cap'.peer = cap.peer, ShotIsTaken'
  PROVE  Handover'
<1>1. \/ proc.up /\ proc.inc = bk.peer /\ peerq' = Append(peerq, m)
      \/ peerq' = peerq
  <2>1. peerq \in Seq(Messages) /\ bk.peer <= proc.inc
    BY DEF Shape, GuestShape, Handover, Incarnations
  <2>2. peerq \o <<m>> = Append(peerq, m)
    BY <2>1, AppendIs
  <2>3. proc.inc = inc => proc.inc = bk.peer
    BY <2>1, Numbers
  <2> QED
    BY <2>2, <2>3 DEF ToPeer
<1>2. Incarnations'
  BY <1>1, Numbers DEF Handover, Incarnations
<1>3. AskOrder'
  BY Numbers DEF Handover, AskOrder
<1>4. AttachFirst'
  BY DEF Handover, AttachFirst, Unheard
<1>5. PeerFollows'
  <2> SUFFICES ASSUME proc.up, proc.inc = bk.peer
               PROVE  Comes(peerq', proc.params, proc.buffers, bk.session, bk.sent)
    BY DEF PeerFollows
  <2>1. peerq \in Seq(Messages)
    BY DEF Shape, GuestShape
  <2>2. Comes(peerq, proc.params, proc.buffers, bk.session, bk.sent)
    BY DEF Handover, PeerFollows
  <2>3. Comes(Append(peerq, m), proc.params, proc.buffers, bk.session, bk.sent)
    BY <2>1, <2>2, ComesSide
  <2> QED
    BY <1>1, <2>2, <2>3
<1> QED
  BY <1>2, <1>3, <1>4, <1>5 DEF Handover

LEMMA TwoMore ==
  ASSUME NEW S, NEW q \in Seq(S), NEW x \in S, NEW y \in S
  PROVE  q \o (<<x>> \o <<y>>) = Append(Append(q, x), y)
<1>1. (q \o <<x>>) \o <<y>> = q \o (<<x>> \o <<y>>)
  OBVIOUS
<1>2. (q \o <<x>>) \o <<y>> = Append(Append(q, x), y)
  OBVIOUS
<1> QED
  BY <1>1, <1>2

\* The introduction of a process: the devices, and the session if there is one.
LEMMA Introduced ==
  ASSUME Shape, NEW p, NEW b, NEW s, Comes(peerq, p, b, s, {}),
         s = bk.session \/ bk.session # None
  PROVE  Comes(peerq \o Introduction, p, b, bk.session, {})
<1> DEFINE d == Message("devices")
           o == SessionOpened(bk.session, bk.sessionSize)
           q == Append(peerq, d)
<1>1. peerq \in Seq(Messages) /\ bk.session \in 0..MaxSessions /\ bk.sessionSize \in SizesSeen
  BY DEF Shape, GuestShape, Brokers
<1>2. d \in Messages /\ d.t = "devices" /\ ~d.new
  BY MessageIs DEF Kinds
<1>3. o \in Messages /\ o.t = "opened" /\ ~o.new /\ o.sid = bk.session
  BY <1>1, MessageIs
<1>4. d.t \notin Turn /\ d.t # "snap" /\ o.t \in Turn /\ o.t # "closed"
  BY <1>2, <1>3 DEF Turn
<1> HIDE DEF d, o
<1>5. Comes(q, p, b, s, {})
  BY <1>1, <1>2, <1>4, ComesSide
<1>6. q \in Seq(Messages) /\ q = peerq \o <<d>>
  BY <1>1, <1>2, AppendIs
<1>7. CASE bk.session = None
  <2>1. Introduction = <<d>> \o <<>>
    BY <1>7 DEF Introduction, d
  <2>2. peerq \o Introduction = q
    BY <2>1, <1>6, <1>1, <1>2
  <2> QED
    BY <2>2, <1>5, <1>7
<1>8. CASE bk.session # None
  <2>1. Introduction = <<d>> \o <<o>>
    BY <1>8 DEF Introduction, d, o
  <2>2. peerq \o (<<d>> \o <<o>>) = Append(q, o)
    BY <1>1, <1>2, <1>3, TwoMore
  <2>3. Comes(Append(q, o), p, b, o.sid, {})
    BY <1>3, <1>4, <1>5, <1>6, ComesTurn
  <2> QED
    BY <2>1, <2>2, <2>3, <1>3
<1> QED
  BY <1>7, <1>8

LEMMA AdoptHandover ==
  ASSUME Shape, Handover, AdoptPeer
  PROVE  Handover'
<1> DEFINE inc == Head(askq).inc
<1>1. askq \in Seq(Asks) /\ askq # <<>> /\ serve.inc = None
  BY DEF AdoptPeer, Shape, GuestShape
<1>2. Head(askq) = askq[1] /\ 1 \in 1..Len(askq)
  BY <1>1, TailIs
<1>3. inc \in Nat /\ bk.peer < inc /\ inc <= proc.inc /\ inc # None
  BY <1>1, <1>2, Numbers DEF Handover, AskOrder
<1>4. /\ bk'.peer = inc /\ bk'.session = bk.session /\ bk'.sent = {} /\ bk'.wants = FALSE
      /\ serve'.inc = inc /\ UNCHANGED <<askq, proc, cap>>
  BY DEF AdoptPeer, Shape, GuestShape, Brokers
<1>5. peerq' = IF proc.up /\ proc.inc = inc THEN peerq \o Introduction ELSE peerq
  BY DEF AdoptPeer, ToPeer
<1>6. \A i \in 1..Len(askq) : inc <= askq[i].inc
  <2> TAKE i \in 1..Len(askq)
  <2>1. i = 1 \/ 1 < i
    OBVIOUS
  <2>2. 1 < i => askq[1].inc <= askq[i].inc
    BY <1>2 DEF Handover, AskOrder
  <2> QED
    BY <2>1, <2>2, <1>2, Numbers
<1> HIDE DEF inc
<1>7. proc.up => peerq = <<>> /\ proc.params = None /\ proc.buffers = {}
  BY <1>1 DEF Handover, Incarnations
<1>8. Incarnations'
  <2>1. ~proc.up \/ proc.inc # bk.peer
    BY <1>1 DEF Handover, Incarnations
  <2>2. /\ peerq = <<>> /\ proc.params = None /\ proc.buffers = {}
        /\ proc.inc >= 1 /\ cap.peer <= bk.peer
    BY <2>1 DEF Handover, Incarnations
  <2>3. (~proc.up \/ proc.inc # inc) => peerq' = <<>>
    BY <1>5, <2>2
  <2> QED
    BY <2>2, <2>3, <1>3, <1>4, Numbers DEF Incarnations
<1>9. AskOrder'
  BY <1>3, <1>4, <1>6, Numbers DEF Handover, AskOrder
<1>10. AttachFirst'
  <2>1. cap.peer # inc
    BY <1>3, Numbers DEF Handover, Incarnations
  <2> QED
    BY <2>1, <1>4 DEF AttachFirst
<1>11. PeerFollows'
  <2> SUFFICES ASSUME proc.up, proc.inc = inc
               PROVE  Comes(peerq \o Introduction, proc.params, proc.buffers, bk.session, {})
    BY <1>4, <1>5 DEF PeerFollows
  <2>1. Comes(peerq, proc.params, proc.buffers, None, {})
    BY <1>7, ComesEmpty
  <2> QED
    BY <2>1, Introduced
<1> QED
  BY <1>4, <1>8, <1>9, <1>10, <1>11 DEF Handover, ShotIsTaken

LEMMA PeerGoneHandover ==
  ASSUME Shape, Handover, PeerGone
  PROVE  Handover'
<1>1. /\ serve'.inc = None /\ serve.inc = bk.peer /\ askq \in Seq(Asks)
      /\ UNCHANGED <<askq, proc, cap, bk, peerq>>
  BY DEF PeerGone, Shape, GuestShape, Handover, Incarnations
<1>2. \A i \in 1..Len(askq) : bk.peer < askq[i].inc
  <2> TAKE i \in 1..Len(askq)
  <2>1. askq # <<>> /\ 1 \in 1..Len(askq) /\ Head(askq) = askq[1]
    BY <1>1
  <2>2. askq[1].inc # bk.peer
    BY <2>1, <1>1 DEF PeerGone
  <2>3. bk.peer <= askq[1].inc /\ (i = 1 \/ (1 < i /\ askq[1].inc <= askq[i].inc))
    <3>1. i = 1 \/ 1 < i
      OBVIOUS
    <3> QED
      BY <3>1, <2>1 DEF Handover, AskOrder
  <2> QED
    BY <2>1, <2>2, <2>3, Numbers
<1>3. Incarnations'
  BY <1>1, Numbers DEF Handover, Incarnations, PeerGone
<1>4. AskOrder'
  BY <1>1, <1>2, Numbers DEF Handover, AskOrder
<1>5. AttachFirst' /\ PeerFollows' /\ ShotIsTaken'
  BY <1>1 DEF Handover, AttachFirst, Unheard, PeerFollows, ShotIsTaken
<1> QED
  BY <1>3, <1>4, <1>5 DEF Handover

LEMMA TakeHandover ==
  ASSUME Shape, Handover, TakeRequest
  PROVE  Handover'
<1>1. /\ bk'.peer = bk.peer /\ bk'.session = bk.session /\ bk'.sent = bk.sent /\ bk'.wants = FALSE
      /\ UNCHANGED <<askq, proc, serve, peerq>> /\ bk.wants
  BY DEF TakeRequest, Shape, GuestShape, Brokers
<1>2. cap'.peer = bk.peer /\ cap'.pc = "probe"
  BY DEF TakeRequest, Shape, GuestShape, Captures
<1>3. Incarnations'
  BY <1>1, <1>2, Numbers DEF Handover, Incarnations
<1>4. AskOrder'
  BY <1>1, Numbers DEF Handover, AskOrder
<1>5. AttachFirst'
  BY <1>1 DEF Handover, AttachFirst, Unheard
<1>6. PeerFollows' /\ ShotIsTaken'
  BY <1>1, <1>2 DEF Handover, PeerFollows, ShotIsTaken
<1> QED
  BY <1>3, <1>4, <1>5, <1>6 DEF Handover

LEMMA ReadPeerHandover ==
  ASSUME Shape, Handover, ReadPeer
  PROVE  Handover'
<1>1. /\ askq \in Seq(Asks) /\ askq # <<>> /\ Head(askq).inc = serve.inc /\ serve.inc # None
      /\ askq' = Tail(askq) /\ UNCHANGED <<proc, serve, cap>> /\ bk \in Brokers
  BY DEF ReadPeer, Shape, GuestShape
<1>2. serve.inc = bk.peer
  BY <1>1 DEF Handover, Incarnations
<1>3. /\ 1 \in 1..Len(askq) /\ askq[1].inc = bk.peer /\ Head(askq) = askq[1]
      /\ Len(askq') \in Nat
      /\ \A i \in 1..Len(askq') : /\ askq'[i] = askq[i + 1] /\ i + 1 \in 1..Len(askq)
                                  /\ 1 < i + 1 /\ i \in Nat
  BY <1>1, <1>2, TailIs
<1>4. bk'.peer = bk.peer /\ bk'.session = bk.session /\ bk'.sent = bk.sent
  BY <1>1 DEF ReadPeer, Brokers
<1>5. AskOrder'
  <2>1. ASSUME NEW i \in 1..Len(askq')
        PROVE  /\ bk.peer <= askq'[i].inc /\ askq'[i].inc <= proc.inc
               /\ askq'[i].t = "attach" => 1 < askq'[i].inc
    BY <1>3 DEF Handover, AskOrder
  <2>2. ASSUME NEW i \in 1..Len(askq'), NEW j \in 1..Len(askq'), i < j
        PROVE  /\ askq'[i].inc <= askq'[j].inc
               /\ askq'[j].t = "attach" => askq'[i].inc < askq'[j].inc
    <3>1. i + 1 < j + 1 /\ i + 1 \in 1..Len(askq) /\ j + 1 \in 1..Len(askq)
      BY <1>3, <2>2
    <3>2. /\ askq[i + 1].inc <= askq[j + 1].inc
          /\ askq[j + 1].t = "attach" => askq[i + 1].inc < askq[j + 1].inc
      BY <3>1 DEF Handover, AskOrder
    <3> QED
      BY <3>2, <1>3
  <2> QED
    BY <2>1, <2>2, <1>1, <1>4 DEF AskOrder
<1>6. AttachFirst'
  <2> SUFFICES ASSUME NEW i \in 1..Len(askq'), askq'[i].t = "attach", askq'[i].inc = bk.peer
               PROVE  FALSE
    BY <1>4 DEF AttachFirst, Unheard
  <2>1. askq[i + 1].t = "attach" /\ askq[i + 1].inc = bk.peer /\ i + 1 \in 1..Len(askq) /\ 1 < i + 1
    BY <1>3
  <2>2. askq[1].inc < askq[i + 1].inc
    BY <2>1, <1>3 DEF Handover, AskOrder
  <2> QED
    BY <2>1, <2>2, <1>3, Numbers
<1>7. \/ Head(askq).t = "attach" /\ ToPeer(serve.inc, Introduction)
      \/ peerq' = peerq
  BY DEF ReadPeer
<1>8. Incarnations'
  <2>1. (~proc.up \/ proc.inc # bk.peer) => peerq' = peerq
    BY <1>2, <1>7 DEF ToPeer
  <2> QED
    BY <2>1, <1>1, <1>4, Numbers DEF Handover, Incarnations
<1>9. PeerFollows'
  <2> SUFFICES ASSUME proc.up, proc.inc = bk.peer
               PROVE  Comes(peerq', proc.params, proc.buffers, bk.session, bk.sent)
    BY <1>1, <1>4 DEF PeerFollows
  <2>1. Comes(peerq, proc.params, proc.buffers, bk.session, bk.sent)
    BY DEF Handover, PeerFollows
  <2>2. CASE Head(askq).t = "attach" /\ ToPeer(serve.inc, Introduction)
    <3>1. bk.sent = {}
      BY <2>2, <1>3 DEF Handover, AttachFirst, Unheard
    <3>2. peerq' = peerq \o Introduction
      BY <2>2, <1>2 DEF ToPeer
    <3> QED
      BY <2>1, <3>1, <3>2, Introduced
  <2> QED
    BY <2>1, <2>2, <1>7
<1> QED
  BY <1>1, <1>5, <1>6, <1>8, <1>9 DEF Handover, ShotIsTaken

LEMMA SnapshotHandover ==
  ASSUME Shape, Handover, SendSnapshot
  PROVE  Handover'
<1> DEFINE m == [cap.shot EXCEPT !.sid = bk.session, !.new = Buffer(cap.shot.n) \notin bk.sent]
<1>1. UNCHANGED <<askq, proc, serve>> /\ cap'.peer = None /\ cap'.pc = "wait"
  BY DEF SendSnapshot, NoCapture
<1>2. CASE ~(Current /\ proc.up /\ proc.inc = cap.peer)
  <2>1. UNCHANGED <<bk, peerq>>
    BY <1>2 DEF SendSnapshot
  <2> QED
    BY <1>1, <2>1, Untouched DEF SameProcess, ShotIsTaken
<1>3. CASE Current /\ proc.up /\ proc.inc = cap.peer
  <2>1. /\ bk' = [bk EXCEPT !.sent = @ \cup {Buffer(cap.shot.n)}] /\ ToPeer(cap.peer, <<m>>)
        /\ cap.pc = "send" /\ bk.peer = cap.peer
    BY <1>3 DEF SendSnapshot, Current
  <2>2. /\ bk'.peer = bk.peer /\ bk'.session = bk.session /\ bk'.wants = bk.wants
        /\ bk'.sent = bk.sent \cup {Buffer(cap.shot.n)}
    BY <2>1 DEF Shape, GuestShape, Brokers
  <2>3. cap.shot \in Messages /\ bk.session \in 0..MaxSessions /\ cap.shot.t = "snap"
    BY <2>1 DEF Shape, GuestShape, Captures, Brokers, Handover, ShotIsTaken
  <2>4. /\ m \in Messages /\ m.t = "snap" /\ m.sid = bk.session /\ m.n = cap.shot.n
        /\ m.new <=> Buffer(cap.shot.n) \notin bk.sent
    <3>1. (Buffer(cap.shot.n) \notin bk.sent) \in BOOLEAN
      OBVIOUS
    <3> QED
      BY <2>3, <3>1 DEF Messages
  <2> HIDE DEF m
  <2>5. peerq \in Seq(Messages) /\ peerq' = Append(peerq, m)
    <3>1. peerq \in Seq(Messages)
      BY DEF Shape, GuestShape
    <3>2. peerq' = peerq \o <<m>>
      BY <1>3, <2>1 DEF ToPeer
    <3> QED
      BY <3>1, <3>2, <2>4, AppendIs
  <2>6. Incarnations'
    BY <1>1, <1>3, <2>1, <2>2, Numbers DEF Handover, Incarnations
  <2>7. AskOrder'
    BY <1>1, <2>2, Numbers DEF Handover, AskOrder
  <2>8. AttachFirst'
    BY <1>1, <2>1, <2>2 DEF Handover, AttachFirst, Unheard
  <2>9. Comes(peerq, proc.params, proc.buffers, bk.session, bk.sent)
    BY <1>3, <2>1 DEF Handover, PeerFollows
  <2>10. Comes(Append(peerq, m), proc.params, proc.buffers, bk.session,
               bk.sent \cup {Buffer(m.n)})
    BY <2>4, <2>5, <2>9, ComesSnapshot
  <2>11. PeerFollows'
    BY <1>1, <2>2, <2>4, <2>5, <2>10 DEF PeerFollows
  <2> QED
    BY <1>1, <2>6, <2>7, <2>8, <2>11 DEF Handover, ShotIsTaken
<1> QED
  BY <1>2, <1>3

\* What reading a message makes of the process is what the queue's account says.
LEMMA ReadFields ==
  ASSUME Shape, ReadBroker, Worded(peerq)
  PROVE  /\ proc'.up = proc.up /\ proc'.inc = proc.inc
         /\ proc'.params = SidAfter(proc.params, peerq[1])
         /\ proc'.buffers = MappedBy(proc.buffers, peerq[1])
<1> DEFINE m == peerq[1]
<1>1. peerq \in Seq(Messages) /\ peerq # <<>> /\ proc \in Processes /\ proc.up
  BY DEF ReadBroker, Shape, GuestShape
<1>2. Head(peerq) = m /\ m \in Messages /\ 1 \in 1..Len(peerq)
  BY <1>1, TailIs
<1>3. (m.t = "closed" => m.sid = None) /\ (m.new => m.t = "snap")
  BY <1>2 DEF Worded
<1>4. proc.inc \in Nat /\ proc.up \in BOOLEAN
  BY <1>1 DEF Processes
<1>5. /\ NewProcess(proc.inc) \in Processes
      /\ NewProcess(proc.inc).up = TRUE /\ NewProcess(proc.inc).inc = proc.inc
      /\ NewProcess(proc.inc).params = None /\ NewProcess(proc.inc).buffers = {}
  BY <1>4, NewProcessIs
<1>6. \/ m.t = "opened" /\ proc' = [NewProcess(proc.inc) EXCEPT !.params = m.sid, !.size = m.size,
                                                                !.asked = TRUE]
      \/ m.t = "closed" /\ proc' = NewProcess(proc.inc)
      \/ m.t = "key" /\ proc' = [proc EXCEPT !.pipeline.again = frame.guest /\ proc.pipeline.reference # 0]
      \/ m.t = "geometry" /\ proc' = Resized(m.size)
      \/ m.t = "devices" /\ proc' = proc
      \/ m.t = "snap" /\ proc' = Submitted(m)
  BY <1>2 DEF ReadBroker
<1> HIDE DEF m
<1>7. CASE m.t = "opened"
  <2>1. /\ proc'.up = TRUE /\ proc'.inc = proc.inc /\ proc'.params = m.sid /\ proc'.buffers = {}
    BY <1>5, <1>6, <1>7 DEF Processes
  <2> QED
    BY <2>1, <1>1, <1>4, <1>7 DEF SidAfter, MappedBy, Turn, m
<1>8. CASE m.t = "closed"
  BY <1>1, <1>3, <1>4, <1>5, <1>6, <1>8 DEF SidAfter, MappedBy, Turn, m
<1>9. CASE m.t \in {"key", "geometry", "devices"}
  <2>1. SameProcess
    BY <1>1, <1>6, <1>9 DEF SameProcess, Resized, Processes
  <2>2. ~m.new /\ m.t \notin Turn
    BY <1>3, <1>9 DEF Turn
  <2> QED
    BY <2>1, <2>2 DEF SameProcess, SidAfter, MappedBy, m
<1>10. CASE m.t = "snap"
  <2>1. /\ proc'.up = proc.up /\ proc'.inc = proc.inc /\ proc'.params = proc.params
        /\ proc'.buffers = IF m.new THEN proc.buffers \cup {Buffer(m.n)} ELSE proc.buffers
    BY <1>1, <1>6, <1>10 DEF Submitted, Processes
  <2>2. m.t \notin Turn
    BY <1>10 DEF Turn
  <2> QED
    BY <2>1, <2>2 DEF SidAfter, MappedBy, m
<1> QED
  BY <1>6, <1>7, <1>8, <1>9, <1>10

LEMMA ReadBrokerHandover ==
  ASSUME Shape, Handover, ReadBroker
  PROVE  Handover'
<1>1. /\ peerq \in Seq(Messages) /\ peerq # <<>> /\ proc.up /\ peerq' = Tail(peerq)
      /\ UNCHANGED <<bk, serve, cap>> /\ askq \in Seq(Asks)
  BY DEF ReadBroker, Shape, GuestShape
<1>2. proc.inc = bk.peer /\ serve.inc # None
  BY <1>1 DEF Handover, Incarnations
<1>3. Comes(peerq, proc.params, proc.buffers, bk.session, bk.sent)
  BY <1>1, <1>2 DEF Handover, PeerFollows
<1>4. /\ proc'.up = proc.up /\ proc'.inc = proc.inc
      /\ proc'.params = SidAfter(proc.params, peerq[1])
      /\ proc'.buffers = MappedBy(proc.buffers, peerq[1])
  BY <1>3, ReadFields DEF Comes
<1>5. Comes(peerq', proc'.params, proc'.buffers, bk.session, bk.sent)
  BY <1>1, <1>3, <1>4, ComesRead
<1>6. PeerFollows'
  BY <1>1, <1>5 DEF PeerFollows
<1>7. Incarnations'
  BY <1>1, <1>2, <1>4, Numbers DEF Handover, Incarnations
<1> DEFINE a == [inc |-> proc.inc, t |-> "next"]
<1>8. askq' = askq \/ askq' = Append(askq, a)
  BY DEF ReadBroker, Ask
<1>9. a \in Asks /\ a.t = "next" /\ a.inc = bk.peer
  BY <1>2, Numbers DEF Asks
<1> HIDE DEF a
<1>10. CASE askq' = askq
  <2>1. AskOrder' /\ AttachFirst'
    BY <1>1, <1>4, <1>10 DEF Handover, AskOrder, AttachFirst, Unheard
  <2> QED
    BY <2>1, <1>1, <1>6, <1>7 DEF Handover, ShotIsTaken
<1>11. CASE askq' = Append(askq, a)
  <2> DEFINE n == Len(askq)
  <2>1. /\ n \in Nat /\ Len(askq') = n + 1 /\ askq'[n + 1] = a
        /\ \A i \in 1..n : askq'[i] = askq[i]
    BY <1>1, <1>9, <1>11, AppendIs
  <2>2. \A i \in 1..Len(askq') : i \in 1..n \/ i = n + 1
    BY <2>1
  <2>3. \A i \in 1..n : askq[i].inc <= bk.peer /\ bk.peer <= askq[i].inc /\ askq[i].inc \in Nat
                        /\ (askq[i].t = "attach" => 1 < askq[i].inc)
    BY <1>2, Numbers DEF Handover, AskOrder
  <2>4. \A i \in 1..n, j \in 1..n : i < j =>
          /\ askq[i].inc <= askq[j].inc
          /\ askq[j].t = "attach" => askq[i].inc < askq[j].inc
    BY DEF Handover, AskOrder
  <2> HIDE DEF n
  <2>5. AskOrder'
    <3>1. ASSUME NEW i \in 1..Len(askq')
          PROVE  /\ bk.peer <= askq'[i].inc /\ askq'[i].inc <= proc.inc
                 /\ askq'[i].t = "attach" => 1 < askq'[i].inc
      <4>1. CASE i \in 1..n
        BY <4>1, <2>1, <2>3, <1>2
      <4>2. CASE i = n + 1
        BY <4>2, <2>1, <1>9, <1>2, Numbers
      <4> QED
        BY <4>1, <4>2, <2>2
    <3>2. ASSUME NEW i \in 1..Len(askq'), NEW j \in 1..Len(askq'), i < j
          PROVE  /\ askq'[i].inc <= askq'[j].inc
                 /\ askq'[j].t = "attach" => askq'[i].inc < askq'[j].inc
      <4>1. i \in 1..n
        BY <2>1, <2>2, <3>2
      <4>2. CASE j \in 1..n
        BY <4>1, <4>2, <3>2, <2>1, <2>4
      <4>3. CASE j = n + 1
        BY <4>1, <4>3, <2>1, <2>3, <1>9
      <4> QED
        BY <4>2, <4>3, <2>2
    <3> QED
      BY <3>1, <3>2, <1>1, <1>2, <1>4 DEF AskOrder
  <2>6. AttachFirst'
    <3>1. Unheard' => Unheard
      <4> SUFFICES ASSUME NEW i \in 1..Len(askq'), askq'[i].t = "attach", askq'[i].inc = bk.peer
                   PROVE  Unheard
        BY <1>1 DEF Unheard
      <4>1. i \in 1..n
        BY <2>1, <2>2, <1>9
      <4> QED
        BY <4>1, <2>1 DEF Unheard, n
    <3> QED
      BY <3>1, <1>1 DEF Handover, AttachFirst
  <2> QED
    BY <2>5, <2>6, <1>1, <1>6, <1>7 DEF Handover, ShotIsTaken
<1> QED
  BY <1>8, <1>10, <1>11

LEMMA DiesHandover ==
  ASSUME Shape, Handover, ProcessGoes, UNCHANGED <<bk, serve, cap, askq>>
  PROVE  Handover'
<1>1. /\ peerq' = <<>> /\ ~proc'.up /\ proc'.inc = proc.inc /\ proc'.params = None
      /\ proc'.buffers = {}
  BY GoesShape DEF Shape
<1>2. Incarnations'
  BY <1>1, Numbers DEF Handover, Incarnations
<1>3. AskOrder' /\ AttachFirst' /\ PeerFollows' /\ ShotIsTaken'
  BY <1>1 DEF Handover, AskOrder, AttachFirst, Unheard, PeerFollows, ShotIsTaken
<1> QED
  BY <1>2, <1>3 DEF Handover

LEMMA RestartsHandover ==
  ASSUME Shape, Handover, ProcessRestarts
  PROVE  Handover'
<1> DEFINE a == [inc |-> proc.inc + 1, t |-> "attach"]
           n == Len(askq)
<1>1. /\ ~proc.up /\ UNCHANGED <<bk, serve, cap, peerq>> /\ askq \in Seq(Asks)
      /\ proc' = NewProcess(proc.inc + 1) /\ askq' = Append(askq, a)
  BY DEF ProcessRestarts, Shape, GuestShape
<1>2. /\ proc.inc + 1 \in Nat /\ proc'.up = TRUE /\ proc'.inc = proc.inc + 1
      /\ proc'.params = None /\ proc'.buffers = {} /\ proc.inc >= 1 /\ peerq = <<>>
  <2>1. proc.inc + 1 \in Nat
    BY Numbers
  <2>2. /\ proc'.up = TRUE /\ proc'.inc = proc.inc + 1
        /\ proc'.params = None /\ proc'.buffers = {}
    BY <1>1, <2>1, NewProcessIs
  <2>3. proc.inc >= 1 /\ peerq = <<>>
    BY <1>1 DEF Handover, Incarnations
  <2> QED
    BY <2>1, <2>2, <2>3
<1>3. a \in Asks /\ a.t = "attach" /\ a.inc = proc.inc + 1
  BY <1>2 DEF Asks
<1>4. bk.peer < proc.inc + 1 /\ bk.peer # proc.inc + 1
  BY Numbers DEF Handover, Incarnations
<1>5. Incarnations'
  BY <1>1, <1>2, <1>4, Numbers DEF Handover, Incarnations
<1> HIDE DEF a
<1>6. /\ n \in Nat /\ Len(askq') = n + 1 /\ askq'[n + 1] = a
      /\ \A i \in 1..n : askq'[i] = askq[i]
  BY <1>1, <1>3, AppendIs
<1>7. \A i \in 1..Len(askq') : i \in 1..n \/ i = n + 1
  BY <1>6
<1>8. \A i \in 1..n : /\ bk.peer <= askq[i].inc /\ askq[i].inc <= proc.inc
                      /\ askq[i].inc < proc.inc + 1 /\ askq[i].inc <= proc.inc + 1
                      /\ serve.inc = None => bk.peer < askq[i].inc
                      /\ askq[i].t = "attach" => 1 < askq[i].inc
  BY Numbers DEF Handover, AskOrder
<1>9. \A i \in 1..n, j \in 1..n : i < j =>
        /\ askq[i].inc <= askq[j].inc
        /\ askq[j].t = "attach" => askq[i].inc < askq[j].inc
  BY DEF Handover, AskOrder
<1> HIDE DEF n
<1>10. AskOrder'
  <2>1. ASSUME NEW i \in 1..Len(askq')
        PROVE  /\ bk.peer <= askq'[i].inc /\ askq'[i].inc <= proc.inc + 1
               /\ serve.inc = None => bk.peer < askq'[i].inc
               /\ askq'[i].t = "attach" => 1 < askq'[i].inc
    <3>1. CASE i \in 1..n
      BY <3>1, <1>6, <1>8
    <3>2. CASE i = n + 1
      BY <3>2, <1>6, <1>3, <1>4, <1>2, Numbers
    <3> QED
      BY <3>1, <3>2, <1>7
  <2>2. ASSUME NEW i \in 1..Len(askq'), NEW j \in 1..Len(askq'), i < j
        PROVE  /\ askq'[i].inc <= askq'[j].inc
               /\ askq'[j].t = "attach" => askq'[i].inc < askq'[j].inc
    <3>1. i \in 1..n
      BY <1>6, <1>7, <2>2
    <3>2. CASE j \in 1..n
      BY <3>1, <3>2, <2>2, <1>6, <1>9
    <3>3. CASE j = n + 1
      BY <3>1, <3>3, <1>6, <1>8, <1>3
    <3> QED
      BY <3>2, <3>3, <1>7
  <2> QED
    BY <2>1, <2>2, <1>1, <1>2 DEF AskOrder
<1>11. AttachFirst'
  <2>1. Unheard' => Unheard
    <3> SUFFICES ASSUME NEW i \in 1..Len(askq'), askq'[i].t = "attach", askq'[i].inc = bk.peer
                 PROVE  Unheard
      BY <1>1 DEF Unheard
    <3>1. i \in 1..n
      BY <1>3, <1>4, <1>6, <1>7
    <3> QED
      BY <3>1, <1>6 DEF Unheard, n
  <2> QED
    BY <2>1, <1>1 DEF Handover, AttachFirst
<1>12. PeerFollows'
  BY <1>1, <1>2, <1>4 DEF PeerFollows
<1> QED
  BY <1>1, <1>5, <1>10, <1>11, <1>12 DEF Handover, ShotIsTaken

LEMMA ExitsHandover ==
  ASSUME Shape, Handover, BrokerExits
  PROVE  Handover'
<1>1. /\ bk'.peer = 0 /\ bk'.session = 0 /\ serve'.inc = 0 /\ cap'.peer = 0 /\ cap'.pc = "wait"
      /\ askq' = <<>> /\ Len(askq') = 0
  BY DEF BrokerExits, NoBroker, NoCapture, None
<1>2. /\ ~proc'.up /\ proc'.inc = proc.inc /\ peerq' = <<>> /\ proc'.params = None
      /\ proc'.buffers = {}
  <2>1. CASE proc.up
    BY <2>1, GoesShape DEF BrokerExits, Shape
  <2>2. CASE ~proc.up
    BY <2>2 DEF BrokerExits, Handover, Incarnations
  <2> QED
    BY <2>1, <2>2
<1>3. Incarnations'
  BY <1>1, <1>2, Numbers DEF Handover, Incarnations
<1>4. AskOrder' /\ AttachFirst' /\ PeerFollows' /\ ShotIsTaken'
  BY <1>1, <1>2 DEF AskOrder, AttachFirst, Unheard, PeerFollows, ShotIsTaken
<1> QED
  BY <1>3, <1>4 DEF Handover

LEMMA SameHandover ==
  ASSUME Handover, UNCHANGED <<peerq, askq, serve, bk, cap, proc>>
  PROVE  Handover'
  BY DEF Handover, ShotIsTaken, Incarnations, AskOrder, AttachFirst, Unheard, PeerFollows

LEMMA ClosesHandover ==
  ASSUME Shape, Handover, ToPeer(bk.peer, <<Message("closed")>>),
         UNCHANGED <<askq, proc, serve, cap>>, bk'.peer = bk.peer, bk'.session = None,
         bk'.sent = {}, bk'.wants = FALSE
  PROVE  Handover'
<1> DEFINE m == Message("closed")
<1>1. m \in Messages /\ m.t = "closed" /\ m.sid = None /\ ~m.new
  BY MessageIs DEF Kinds
<1>2. m.t \in Turn /\ ToPeer(bk.peer, <<m>>)
  BY <1>1 DEF Turn
<1> HIDE DEF m
<1> QED
  BY <1>1, <1>2, SessionTurns

LEMMA EndHandover ==
  ASSUME Shape, Handover, EndControl, UNCHANGED <<askq, proc, serve, cap>>
  PROVE  Handover'
<1>1. /\ bk'.peer = bk.peer /\ bk'.session = None /\ bk'.sent = {} /\ bk'.wants = FALSE
      /\ ToPeer(bk.peer, <<Message("closed")>>)
  BY DEF EndControl, Shape, GuestShape, Brokers
<1> QED
  BY <1>1, ClosesHandover

LEMMA HandoverStep ==
  ASSUME Shape, Handover, Next
  PROVE  Handover'
<1> USE DEF Shape
<1>1. CASE BudgetExpires
  <2>1. UNCHANGED <<peerq, askq, serve, bk, cap, proc>>
    BY <1>1 DEF BudgetExpires
  <2> QED
    BY <2>1, SameHandover
<1>2. CASE Connect
  <2>1. UNCHANGED <<peerq, askq, serve, bk, cap, proc>>
    BY <1>2 DEF Connect
  <2> QED
    BY <2>1, SameHandover
<1>3. CASE RelayRecord
  <2>1. UNCHANGED <<peerq, askq, serve, bk, cap, proc>>
    BY <1>3 DEF RelayRecord
  <2> QED
    BY <2>1, SameHandover
<1>4. CASE RelayFails
  <2>1. UNCHANGED <<peerq, askq, serve, bk, cap, proc>>
    BY <1>4 DEF RelayFails
  <2> QED
    BY <2>1, SameHandover
<1>5. CASE Dial
  <2>1. UNCHANGED <<peerq, askq, serve, bk, cap, proc>>
    BY <1>5 DEF Dial
  <2> QED
    BY <2>1, SameHandover
<1>6. CASE DialTimesOut
  <2>1. UNCHANGED <<peerq, askq, serve, bk, cap, proc>>
    BY <1>6 DEF DialTimesOut
  <2> QED
    BY <2>1, SameHandover
<1>7. CASE ReadControl
  <2>1. UNCHANGED <<peerq, askq, serve, bk, cap, proc>>
    BY <1>7 DEF ReadControl
  <2> QED
    BY <2>1, SameHandover
<1>8. CASE ReadFrame
  <2>1. UNCHANGED <<peerq, askq, serve, bk, cap, proc>>
    BY <1>8 DEF ReadFrame
  <2> QED
    BY <2>1, SameHandover
<1>9. CASE Rebind
  <2>1. UNCHANGED <<peerq, askq, serve, bk, cap, proc>>
    BY <1>9 DEF Rebind
  <2> QED
    BY <2>1, SameHandover
<1>10. CASE SendInput
  <2>1. UNCHANGED <<peerq, askq, serve, bk, cap, proc>>
    BY <1>10 DEF SendInput
  <2> QED
    BY <2>1, SameHandover
<1>11. CASE RequestKeyframe
  <2>1. UNCHANGED <<peerq, askq, serve, bk, cap, proc>>
    BY <1>11 DEF RequestKeyframe
  <2> QED
    BY <2>1, SameHandover
<1>12. CASE CloseWindow
  <2>1. UNCHANGED <<peerq, askq, serve, bk, cap, proc>>
    BY <1>12 DEF CloseWindow
  <2> QED
    BY <2>1, SameHandover
<1>13. CASE ParentLeaves
  <2>1. UNCHANGED <<peerq, askq, serve, bk, cap, proc>>
    BY <1>13 DEF ParentLeaves
  <2> QED
    BY <2>1, SameHandover
<1>14. CASE AdoptPeer
  BY <1>14, AdoptHandover
<1>15. CASE ReadPeer
  BY <1>15, ReadPeerHandover
<1>16. CASE PeerGone
  BY <1>16, PeerGoneHandover
<1>17. CASE Accept
  <2>1. UNCHANGED <<peerq, askq, serve, bk, cap, proc>>
    BY <1>17 DEF Accept
  <2> QED
    BY <2>1, SameHandover
<1>18. CASE ControlStops
  BY <1>18, EndHandover DEF ControlStops
<1>19. CASE TellGeometry
  <2>1. /\ UNCHANGED <<peerq, askq, serve>> /\ SameProcess
        /\ bk'.peer = bk.peer /\ bk'.session = bk.session /\ bk'.sent = bk.sent
        /\ bk'.wants => bk.wants
    BY <1>19 DEF TellGeometry, SameProcess, GuestShape, Brokers, Processes
  <2>2. cap'.peer \in {cap.peer, None} /\ ShotIsTaken'
    BY <1>19 DEF TellGeometry, NoCapture, ShotIsTaken, Handover
  <2> QED
    BY <2>1, <2>2, Untouched
<1>20. CASE ReportFault
  <2>1. ToPeer(bk.peer, <<Message("closed")>>) /\ UNCHANGED <<askq, proc, serve, cap>>
    BY <1>20 DEF ReportFault
  <2>2. bk'.peer = bk.peer /\ bk'.session = None /\ bk'.sent = {} /\ bk'.wants = FALSE
    BY <1>20 DEF ReportFault, GuestShape, Brokers
  <2> QED
    BY <2>1, <2>2, ClosesHandover
<1>21. CASE Pump
  <2>1. UNCHANGED <<askq, proc, serve, cap>>
    BY <1>21 DEF Pump
  <2>2. CASE UNCHANGED <<bk, peerq>>
    BY <2>1, <2>2, SameHandover
  <2>3. CASE OpenSession
    <3> DEFINE m == SessionOpened(ctl.conn, ctl.offer)
    <3>1. m \in Messages /\ m.t = "opened" /\ m.sid = ctl.conn /\ ~m.new
      BY MessageIs DEF GuestShape, Controls
    <3>2. /\ bk'.peer = bk.peer /\ bk'.session = ctl.conn /\ bk'.sent = {} /\ bk'.wants = FALSE
          /\ ToPeer(bk.peer, <<m>>)
      BY <2>3 DEF OpenSession, GuestShape, Brokers
    <3>3. m.t \in Turn /\ m.t # "closed"
      BY <3>1 DEF Turn
    <3> HIDE DEF m
    <3> QED
      BY <2>1, <3>1, <3>2, <3>3, SessionTurns
  <2>4. CASE ToPeer(bk.peer, <<Message("key")>>) /\ UNCHANGED bk
    <3> DEFINE m == Message("key")
    <3>1. m \in Messages /\ m.t = "key" /\ ~m.new
      BY MessageIs DEF Kinds
    <3>2. m.t \notin Turn /\ m.t # "snap" /\ bk.peer \in Nat /\ bk.peer <= bk.peer
      BY <3>1, Numbers DEF Turn
    <3>3. ToPeer(bk.peer, <<m>>)
      BY <2>4
    <3> HIDE DEF m
    <3> QED
      BY <2>1, <2>4, <3>1, <3>2, <3>3, SideMessage DEF ShotIsTaken, Handover
  <2>5. CASE EndControl
    BY <2>1, <2>5, EndHandover
  <2> QED
    BY <1>21, <2>2, <2>3, <2>4, <2>5 DEF Pump
<1>22. CASE TakeRequest
  BY <1>22, TakeHandover
<1>23. CASE DropRequest
  <2>1. /\ UNCHANGED <<peerq, askq, serve>> /\ SameProcess
        /\ bk'.peer = bk.peer /\ bk'.session = bk.session /\ bk'.sent = bk.sent
        /\ bk'.wants => bk.wants
    BY <1>23 DEF DropRequest, SameProcess, GuestShape, Brokers, Processes
  <2>2. cap'.peer \in {cap.peer, None} /\ ShotIsTaken'
    BY <1>23 DEF DropRequest, NoCapture, ShotIsTaken, Handover
  <2> QED
    BY <2>1, <2>2, Untouched
<1>24. CASE Probe
  <2>1. UNCHANGED <<peerq, askq, serve, bk, proc>> /\ cap'.peer = cap.peer /\ cap'.shot.t = "snap"
    BY <1>24 DEF Probe, GuestShape, Captures, Message
  <2> QED
    BY <2>1, Untouched DEF SameProcess, ShotIsTaken
<1>25. CASE CaptureFails
  <2>1. /\ UNCHANGED <<peerq, askq, serve>> /\ SameProcess
        /\ bk'.peer = bk.peer /\ bk'.session = bk.session /\ bk'.sent = bk.sent
        /\ bk'.wants => bk.wants
    BY <1>25 DEF CaptureFails, SameProcess, GuestShape, Brokers, Processes
  <2>2. cap'.peer \in {cap.peer, None} /\ ShotIsTaken'
    BY <1>25 DEF CaptureFails, NoCapture, ShotIsTaken, Handover
  <2> QED
    BY <2>1, <2>2, Untouched
<1>26. CASE CaptureStops
  <2>1. /\ UNCHANGED <<peerq, askq, serve>> /\ SameProcess
        /\ bk'.peer = bk.peer /\ bk'.session = bk.session /\ bk'.sent = bk.sent
        /\ bk'.wants => bk.wants
    BY <1>26 DEF CaptureStops, SameProcess, GuestShape, Brokers, Processes
  <2>2. cap'.peer \in {cap.peer, None} /\ ShotIsTaken'
    BY <1>26 DEF CaptureStops, NoCapture, ShotIsTaken, Handover
  <2> QED
    BY <2>1, <2>2, Untouched
<1>27. CASE ObserveGeometry
  <2> DEFINE m == [Message("geometry") EXCEPT !.size = cap.shot.size]
  <2>1. UNCHANGED <<askq, proc, serve>> /\ ToPeer(cap.peer, <<m>>) /\ cap.pc = "observe"
    BY <1>27 DEF ObserveGeometry
  <2>2. /\ bk'.peer = bk.peer /\ bk'.session = bk.session /\ bk'.sent = bk.sent
        /\ bk'.wants = bk.wants
    BY <1>27 DEF ObserveGeometry, GuestShape, Brokers
  <2>3. cap'.peer = cap.peer /\ cap'.shot = cap.shot
    BY <1>27 DEF ObserveGeometry, GuestShape, Captures
  <2>4. cap.shot.size \in SizesSeen
    BY DEF GuestShape, Captures, Messages
  <2>5. m \in Messages /\ m.t = "geometry" /\ ~m.new
    BY <2>4, MessageIs
  <2>6. m.t \notin Turn /\ m.t # "snap" /\ cap.peer \in Nat /\ cap.peer <= bk.peer
    BY <2>5, Numbers DEF Turn, Handover, Incarnations
  <2>7. ShotIsTaken'
    BY <2>1, <2>3 DEF Handover, ShotIsTaken
  <2> HIDE DEF m
  <2> QED
    BY <2>1, <2>2, <2>3, <2>5, <2>6, <2>7, SideMessage
<1>28. CASE SendSnapshot
  BY <1>28, SnapshotHandover
<1>29. CASE AcceptFrame
  <2>1. /\ UNCHANGED <<peerq, askq, serve>> /\ SameProcess
        /\ bk'.peer = bk.peer /\ bk'.session = bk.session /\ bk'.sent = bk.sent
        /\ bk'.wants => bk.wants
    BY <1>29 DEF AcceptFrame, SameProcess, GuestShape, Brokers, Processes
  <2>2. cap'.peer \in {cap.peer, None} /\ ShotIsTaken'
    BY <1>29 DEF AcceptFrame, NoCapture, ShotIsTaken, Handover
  <2> QED
    BY <2>1, <2>2, Untouched
<1>30. CASE AcceptInput
  <2>1. /\ UNCHANGED <<peerq, askq, serve>> /\ SameProcess
        /\ bk'.peer = bk.peer /\ bk'.session = bk.session /\ bk'.sent = bk.sent
        /\ bk'.wants => bk.wants
    BY <1>30 DEF AcceptInput, SameProcess, GuestShape, Brokers, Processes
  <2>2. cap'.peer \in {cap.peer, None} /\ ShotIsTaken'
    BY <1>30 DEF AcceptInput, NoCapture, ShotIsTaken, Handover
  <2> QED
    BY <2>1, <2>2, Untouched
<1>31. CASE ReadBroker
  BY <1>31, ReadBrokerHandover
<1>32. CASE PumpFrame
  <2>1. /\ UNCHANGED <<peerq, askq, serve>> /\ SameProcess
        /\ bk'.peer = bk.peer /\ bk'.session = bk.session /\ bk'.sent = bk.sent
        /\ bk'.wants => bk.wants
    BY <1>32 DEF PumpFrame, SameProcess, GuestShape, Brokers, Processes
  <2>2. cap'.peer \in {cap.peer, None} /\ ShotIsTaken'
    BY <1>32 DEF PumpFrame, NoCapture, ShotIsTaken, Handover
  <2> QED
    BY <2>1, <2>2, Untouched
<1>33. CASE Hangup
  <2>1. /\ UNCHANGED <<peerq, askq, serve>> /\ SameProcess
        /\ bk'.peer = bk.peer /\ bk'.session = bk.session /\ bk'.sent = bk.sent
        /\ bk'.wants => bk.wants
    BY <1>33 DEF Hangup, SameProcess, GuestShape, Brokers, Processes
  <2>2. cap'.peer \in {cap.peer, None} /\ ShotIsTaken'
    BY <1>33 DEF Hangup, NoCapture, ShotIsTaken, Handover
  <2> QED
    BY <2>1, <2>2, Untouched
<1>34. CASE ReadRelease
  <2>1. UNCHANGED <<peerq, askq, serve, bk, cap, proc>>
    BY <1>34 DEF ReadRelease
  <2> QED
    BY <2>1, SameHandover
<1>35. CASE Commit
  <2>1. UNCHANGED <<peerq, askq, serve, bk, cap, proc>>
    BY <1>35 DEF Commit
  <2> QED
    BY <2>1, SameHandover
<1>36. CASE SocketDrops
  <2>1. /\ UNCHANGED <<peerq, askq, serve>> /\ SameProcess
        /\ bk'.peer = bk.peer /\ bk'.session = bk.session /\ bk'.sent = bk.sent
        /\ bk'.wants => bk.wants
    BY <1>36 DEF SocketDrops, SameProcess, GuestShape, Brokers, Processes
  <2>2. cap'.peer \in {cap.peer, None} /\ ShotIsTaken'
    BY <1>36 DEF SocketDrops, NoCapture, ShotIsTaken, Handover
  <2> QED
    BY <2>1, <2>2, Untouched
<1>37. CASE ProcessDies
  BY <1>37, DiesHandover DEF ProcessDies
<1>38. CASE ProcessRestarts
  BY <1>38, RestartsHandover
<1>39. CASE BrokerExits
  BY <1>39, ExitsHandover
<1> QED
  BY <1>1, <1>2, <1>3, <1>4, <1>5, <1>6, <1>7, <1>8, <1>9, <1>10, <1>11, <1>12, <1>13,
     <1>14, <1>15, <1>16, <1>17, <1>18, <1>19, <1>20, <1>21, <1>22, <1>23, <1>24, <1>25,
     <1>26, <1>27, <1>28, <1>29, <1>30, <1>31, <1>32, <1>33, <1>34, <1>35, <1>36, <1>37,
     <1>38, <1>39 DEF Next

-----------------------------------------------------------------------------
(* Keys, step by step. *)

LEMMA OneKind ==
  /\ Message("closed") \in Messages /\ Message("closed").t # "devices"
  /\ Message("key") \in Messages /\ Message("key").t # "devices"
  BY MessageIs DEF Kinds

NoDevices(q) == \A i \in 1..Len(q) : q[i].t # "devices"

LEMMA KeysKept ==
  ASSUME Keys, proc'.up = proc.up, proc'.inc = proc.inc, bk'.peer = bk.peer,
         UNCHANGED <<key, peerq>>, input'.guest = input.guest
  PROVE  Keys'
  BY DEF Keys, FirstProcess, NoKeyStaysDown

LEMMA KeysSend ==
  ASSUME Shape, Keys, UNCHANGED <<proc, key, input>>, bk'.peer = bk.peer, NEW inc,
         NEW m \in Messages, m.t # "devices", ToPeer(inc, <<m>>)
  PROVE  Keys'
<1>1. peerq \in Seq(Messages)
  BY DEF Shape, GuestShape
<1>2. peerq' = peerq \/ peerq' = Append(peerq, m)
  <2>1. peerq \o <<m>> = Append(peerq, m)
    BY <1>1, AppendIs
  <2> QED
    BY <2>1 DEF ToPeer
<1>3. NoDevices(peerq) => NoDevices(Append(peerq, m))
  <2> DEFINE r == Append(peerq, m)
             n == Len(peerq)
  <2>1. n \in Nat /\ Len(r) = n + 1 /\ r[n + 1] = m /\ \A i \in 1..n : r[i] = peerq[i]
    BY <1>1, AppendIs
  <2> HIDE DEF r
  <2>2. \A i \in 1..Len(r) : i \in 1..n \/ i = n + 1
    BY <2>1
  <2>3. NoDevices(peerq) => NoDevices(r)
    BY <2>1, <2>2 DEF NoDevices
  <2> QED
    BY <2>3 DEF r
<1>4. NoDevices(peerq) => NoDevices(peerq')
  BY <1>2, <1>3
<1> QED
  BY <1>4 DEF Keys, FirstProcess, NoDevices, NoKeyStaysDown

LEMMA KeysReleased ==
  ASSUME Shape, Keys, proc'.up = proc.up, proc'.inc = proc.inc, UNCHANGED <<bk, peerq>>,
         UNCHANGED <<input, key>> \/ Release
  PROVE  Keys'
<1>1. CASE UNCHANGED <<input, key>>
  BY <1>1 DEF Keys, FirstProcess, NoKeyStaysDown
<1>2. CASE Release
  <2>1. proc.up /\ proc.inc = 1 => key \in {"up", "held"}
    BY DEF Keys, FirstProcess, Shape, SocketShape
  <2>2. proc.up /\ proc.inc = 1 => key' = "up"
    BY <1>2, <2>1 DEF Release
  <2> QED
    BY <2>2 DEF Keys, FirstProcess, NoKeyStaysDown
<1> QED
  BY <1>1, <1>2

LEMMA KeysStep ==
  ASSUME Shape, Handover, Keys, Next
  PROVE  Keys'
<1> USE DEF Shape
<1>1. CASE BudgetExpires
  <2>1. UNCHANGED <<key, input, peerq, proc, bk>>
    BY <1>1 DEF BudgetExpires
  <2> QED
    BY <2>1, KeysKept
<1>2. CASE Connect
  <2>1. UNCHANGED <<key, input, peerq, proc, bk>>
    BY <1>2 DEF Connect
  <2> QED
    BY <2>1, KeysKept
<1>3. CASE RelayRecord
  <2>1. UNCHANGED <<proc, bk, key, peerq>> /\ (Restarted \/ UNCHANGED input)
    BY <1>3 DEF RelayRecord
  <2>2. input'.guest = input.guest
    BY <2>1, HostClosesIs DEF Restarted, SocketShape
  <2> QED
    BY <2>1, <2>2, KeysKept
<1>4. CASE RelayFails
  <2>1. UNCHANGED <<proc, bk, key, peerq>> /\ (Restarted \/ UNCHANGED input)
    BY <1>4 DEF RelayFails
  <2>2. input'.guest = input.guest
    BY <2>1, HostClosesIs DEF Restarted, SocketShape
  <2> QED
    BY <2>1, <2>2, KeysKept
<1>5. CASE Dial
  <2>1. UNCHANGED <<key, input, peerq, proc, bk>>
    BY <1>5 DEF Dial
  <2> QED
    BY <2>1, KeysKept
<1>6. CASE DialTimesOut
  <2>1. UNCHANGED <<key, input, peerq, proc, bk>>
    BY <1>6 DEF DialTimesOut
  <2> QED
    BY <2>1, KeysKept
<1>7. CASE ReadControl
  <2>1. UNCHANGED <<proc, bk, key, peerq>> /\ (Restarted \/ UNCHANGED input)
    BY <1>7 DEF ReadControl
  <2>2. input'.guest = input.guest
    BY <2>1, HostClosesIs DEF Restarted, SocketShape
  <2> QED
    BY <2>1, <2>2, KeysKept
<1>8. CASE ReadFrame
  <2>1. UNCHANGED <<key, input, peerq, proc, bk>>
    BY <1>8 DEF ReadFrame
  <2> QED
    BY <2>1, KeysKept
<1>9. CASE Rebind
  <2>1. UNCHANGED <<key, input, peerq, proc, bk>>
    BY <1>9 DEF Rebind
  <2> QED
    BY <2>1, KeysKept
<1>10. CASE SendInput
  <2>1. UNCHANGED <<proc, bk, peerq>>
    BY <1>10 DEF SendInput
  <2>2. CASE input.guest /\ key' \in {"up", "held"} /\ UNCHANGED input
    BY <2>1, <2>2 DEF Keys, FirstProcess, NoDevices, NoKeyStaysDown
  <2>3. CASE ~input.guest /\ input' = Closed /\ UNCHANGED key
    BY <2>1, <2>3 DEF Keys, FirstProcess, NoDevices, NoKeyStaysDown
  <2> QED
    BY <1>10, <2>2, <2>3 DEF SendInput
<1>11. CASE RequestKeyframe
  <2>1. UNCHANGED <<key, input, peerq, proc, bk>>
    BY <1>11 DEF RequestKeyframe
  <2> QED
    BY <2>1, KeysKept
<1>12. CASE CloseWindow
  <2>1. UNCHANGED <<proc, bk, key, peerq>> /\ input' = HostCloses(input)
    BY <1>12 DEF CloseWindow
  <2>2. input'.guest = input.guest
    BY <2>1, HostClosesIs DEF SocketShape
  <2> QED
    BY <2>1, <2>2, KeysKept
<1>13. CASE ParentLeaves
  <2>1. UNCHANGED <<key, input, peerq, proc, bk>>
    BY <1>13 DEF ParentLeaves
  <2> QED
    BY <2>1, KeysKept
<1>14. CASE AdoptPeer
  <2>1. UNCHANGED <<proc, key, input>> /\ serve.inc = None
    BY <1>14 DEF AdoptPeer
  <2>2. ~(proc.up /\ proc.inc = 1)
    BY <2>1 DEF Keys, FirstProcess, Handover, Incarnations
  <2> QED
    BY <2>1, <2>2 DEF Keys, FirstProcess, NoKeyStaysDown
<1>15. CASE ReadPeer
  <2>1. UNCHANGED <<proc, key, input>> /\ bk'.peer = bk.peer /\ askq # <<>>
        /\ Head(askq).inc = serve.inc /\ serve.inc # None
    BY <1>15 DEF ReadPeer, GuestShape, Brokers
  <2>2. CASE peerq' = peerq
    BY <2>1, <2>2, KeysKept
  <2>3. CASE Head(askq).t = "attach"
    <3>1. Head(askq) = askq[1] /\ 1 \in 1..Len(askq)
      BY <2>1, TailIs DEF GuestShape
    <3>2. 1 < askq[1].inc /\ askq[1].inc = bk.peer
      BY <2>1, <2>3, <3>1 DEF Handover, AskOrder, Incarnations
    <3>3. ~(proc.up /\ proc.inc = 1)
      BY <3>2, Numbers DEF Keys, FirstProcess
    <3> QED
      BY <2>1, <3>3 DEF Keys, FirstProcess, NoKeyStaysDown
  <2> QED
    BY <1>15, <2>2, <2>3 DEF ReadPeer
<1>16. CASE PeerGone
  <2>1. UNCHANGED <<key, input, peerq, proc, bk>>
    BY <1>16 DEF PeerGone
  <2> QED
    BY <2>1, KeysKept
<1>17. CASE Accept
  <2>1. UNCHANGED <<key, input, peerq, proc, bk>>
    BY <1>17 DEF Accept
  <2> QED
    BY <2>1, KeysKept
<1>18. CASE ControlStops
  <2>1. UNCHANGED <<proc, key, input>> /\ bk'.peer = bk.peer /\ ToPeer(bk.peer, <<Message("closed")>>)
    BY <1>18 DEF ControlStops, EndControl, GuestShape, Brokers
  <2> QED
    BY <2>1, KeysSend, OneKind
<1>19. CASE TellGeometry
  <2>1. /\ UNCHANGED <<key, input, peerq>> /\ proc'.up = proc.up /\ proc'.inc = proc.inc /\ bk'.peer = bk.peer
    BY <1>19 DEF TellGeometry, GuestShape, Brokers, Processes
  <2> QED
    BY <2>1, KeysKept
<1>20. CASE ReportFault
  <2>1. UNCHANGED <<proc, key, input>> /\ bk'.peer = bk.peer /\ ToPeer(bk.peer, <<Message("closed")>>)
    BY <1>20 DEF ReportFault, GuestShape, Brokers
  <2> QED
    BY <2>1, KeysSend, OneKind
<1>21. CASE Pump
  <2>1. UNCHANGED <<proc, key, input>> /\ bk'.peer = bk.peer
    BY <1>21 DEF Pump, OpenSession, EndControl, GuestShape, Brokers
  <2>2. CASE UNCHANGED peerq
    BY <2>1, <2>2, KeysKept
  <2>3. CASE OpenSession
    <3>1. ToPeer(bk.peer, <<SessionOpened(ctl.conn, ctl.offer)>>)
      BY <2>3 DEF OpenSession
    <3>2. /\ SessionOpened(ctl.conn, ctl.offer) \in Messages
          /\ SessionOpened(ctl.conn, ctl.offer).t # "devices"
      BY MessageIs DEF GuestShape, Controls
    <3> QED
      BY <2>1, <3>1, <3>2, KeysSend
  <2>4. CASE ToPeer(bk.peer, <<Message("key")>>) \/ ToPeer(bk.peer, <<Message("closed")>>)
    BY <2>1, <2>4, KeysSend, OneKind
  <2> QED
    BY <1>21, <2>2, <2>3, <2>4 DEF Pump, EndControl
<1>22. CASE TakeRequest
  <2>1. /\ UNCHANGED <<key, input, peerq>> /\ proc'.up = proc.up /\ proc'.inc = proc.inc /\ bk'.peer = bk.peer
    BY <1>22 DEF TakeRequest, GuestShape, Brokers, Processes
  <2> QED
    BY <2>1, KeysKept
<1>23. CASE DropRequest
  <2>1. /\ UNCHANGED <<key, input, peerq>> /\ proc'.up = proc.up /\ proc'.inc = proc.inc /\ bk'.peer = bk.peer
    BY <1>23 DEF DropRequest, GuestShape, Brokers, Processes
  <2> QED
    BY <2>1, KeysKept
<1>24. CASE Probe
  <2>1. /\ UNCHANGED <<key, input, peerq>> /\ proc'.up = proc.up /\ proc'.inc = proc.inc /\ bk'.peer = bk.peer
    BY <1>24 DEF Probe, GuestShape, Brokers, Processes
  <2> QED
    BY <2>1, KeysKept
<1>25. CASE CaptureFails
  <2>1. /\ UNCHANGED <<key, input, peerq>> /\ proc'.up = proc.up /\ proc'.inc = proc.inc /\ bk'.peer = bk.peer
    BY <1>25 DEF CaptureFails, GuestShape, Brokers, Processes
  <2> QED
    BY <2>1, KeysKept
<1>26. CASE CaptureStops
  <2>1. /\ UNCHANGED <<key, input, peerq>> /\ proc'.up = proc.up /\ proc'.inc = proc.inc /\ bk'.peer = bk.peer
    BY <1>26 DEF CaptureStops, GuestShape, Brokers, Processes
  <2> QED
    BY <2>1, KeysKept
<1>27. CASE ObserveGeometry
  <2> DEFINE m == [Message("geometry") EXCEPT !.size = cap.shot.size]
  <2>1. UNCHANGED <<proc, key, input>> /\ bk'.peer = bk.peer /\ ToPeer(cap.peer, <<m>>)
    BY <1>27 DEF ObserveGeometry, GuestShape, Brokers
  <2>2. cap.shot.size \in SizesSeen
    BY DEF GuestShape, Captures, Messages
  <2>3. m \in Messages /\ m.t # "devices"
    BY <2>2, MessageIs
  <2> HIDE DEF m
  <2> QED
    BY <2>1, <2>3, KeysSend
<1>28. CASE SendSnapshot
  <2> DEFINE m == [cap.shot EXCEPT !.sid = bk.session, !.new = Buffer(cap.shot.n) \notin bk.sent]
  <2>1. UNCHANGED <<proc, key, input>> /\ bk'.peer = bk.peer
        /\ (peerq' = peerq \/ ToPeer(cap.peer, <<m>>)) /\ cap.pc = "send"
    BY <1>28 DEF SendSnapshot, GuestShape, Brokers
  <2>2. /\ cap.shot \in Messages /\ bk.session \in 0..MaxSessions /\ cap.shot.t = "snap"
        /\ (Buffer(cap.shot.n) \notin bk.sent) \in BOOLEAN
    BY <2>1 DEF GuestShape, Captures, Brokers, Handover, ShotIsTaken
  <2>3. m \in Messages /\ m.t # "devices"
    BY <2>2 DEF Messages
  <2> HIDE DEF m
  <2>4. CASE peerq' = peerq
    BY <2>1, <2>4, KeysKept
  <2>5. CASE ToPeer(cap.peer, <<m>>)
    BY <2>1, <2>3, <2>5, KeysSend
  <2> QED
    BY <2>1, <2>4, <2>5
<1>29. CASE AcceptFrame
  <2>1. /\ UNCHANGED <<key, input, peerq>> /\ proc'.up = proc.up /\ proc'.inc = proc.inc /\ bk'.peer = bk.peer
    BY <1>29 DEF AcceptFrame, GuestShape, Brokers, Processes
  <2> QED
    BY <2>1, KeysKept
<1>30. CASE AcceptInput
  <2>1. UNCHANGED <<bk, key, peerq>> /\ proc'.up = proc.up /\ proc'.inc = proc.inc
    BY <1>30 DEF AcceptInput, GuestShape, Processes
  <2>2. input' = input \/ input'.guest = TRUE
    BY <1>30 DEF AcceptInput, Bound
  <2> QED
    BY <2>1, <2>2 DEF Keys, FirstProcess, NoDevices, NoKeyStaysDown
<1>31. CASE ReadBroker
  <2> SUFFICES ASSUME proc'.up, proc'.inc = 1
               PROVE  /\ bk'.peer = 1 /\ key' # "lost" /\ NoDevices(peerq')
                      /\ key' # "up" => input'.guest
    BY DEF Keys, FirstProcess, NoKeyStaysDown, NoDevices
  <2>1. /\ peerq \in Seq(Messages) /\ peerq # <<>> /\ proc.up /\ peerq' = Tail(peerq)
        /\ UNCHANGED bk
    BY <1>31 DEF ReadBroker, GuestShape
  <2>2. proc.inc = bk.peer
    BY <2>1 DEF Handover, Incarnations
  <2>3. Worded(peerq)
    BY <2>1, <2>2 DEF Handover, PeerFollows, Comes
  <2>4. proc.inc = 1
    BY <1>31, <2>3, ReadFields
  <2>5. bk.peer = 1 /\ key # "lost" /\ NoDevices(peerq) /\ (key # "up" => input.guest)
    BY <2>1, <2>4 DEF Keys, FirstProcess, NoKeyStaysDown, NoDevices
  <2>6. /\ Head(peerq) = peerq[1] /\ 1 \in 1..Len(peerq)
        /\ \A i \in 1..Len(Tail(peerq)) : Tail(peerq)[i] = peerq[i + 1] /\ i + 1 \in 1..Len(peerq)
    BY <2>1, TailIs
  <2>7. NoDevices(peerq') /\ Head(peerq).t # "devices"
    BY <2>1, <2>5, <2>6 DEF NoDevices
  <2>8. CloseSockets \/ UNCHANGED <<input, key>>
    BY <1>31, <2>7 DEF ReadBroker
  <2>9. key \in {"up", "held"}
    BY <2>5 DEF SocketShape
  <2>10. key' # "lost" /\ (key' # "up" => input'.guest)
    BY <2>5, <2>8, <2>9 DEF CloseSockets, Release
  <2> QED
    BY <2>1, <2>5, <2>7, <2>10
<1>32. CASE PumpFrame
  <2>1. /\ UNCHANGED <<key, input, peerq>> /\ proc'.up = proc.up /\ proc'.inc = proc.inc /\ bk'.peer = bk.peer
    BY <1>32 DEF PumpFrame, GuestShape, Brokers, Processes
  <2> QED
    BY <2>1, KeysKept
<1>33. CASE Hangup
  <2>1. /\ UNCHANGED <<bk, peerq>> /\ proc'.up = proc.up /\ proc'.inc = proc.inc
        /\ (UNCHANGED <<input, key>> \/ Release)
    BY <1>33 DEF Hangup, GuestShape, Processes
  <2> QED
    BY <2>1, KeysReleased
<1>34. CASE ReadRelease
  <2>1. UNCHANGED <<bk, peerq, proc>> /\ Release
    BY <1>34 DEF ReadRelease
  <2> QED
    BY <2>1, KeysReleased
<1>35. CASE Commit
  <2>1. UNCHANGED <<key, input, peerq, proc, bk>>
    BY <1>35 DEF Commit
  <2> QED
    BY <2>1, KeysKept
<1>36. CASE SocketDrops
  <2>1. /\ UNCHANGED <<bk, peerq>> /\ proc'.up = proc.up /\ proc'.inc = proc.inc
        /\ (UNCHANGED <<input, key>> \/ Release)
    BY <1>36 DEF SocketDrops, GuestShape, Processes
  <2> QED
    BY <2>1, KeysReleased
<1>37. CASE ProcessDies
  <2>1. ~proc'.up
    BY <1>37, GoesShape DEF ProcessDies
  <2> QED
    BY <2>1 DEF Keys, FirstProcess, NoKeyStaysDown
<1>38. CASE ProcessRestarts
  <2>1. proc.inc + 1 \in Nat /\ proc.inc >= 1
    BY Numbers DEF Handover, Incarnations
  <2>2. proc'.inc = proc.inc + 1
    BY <1>38, <2>1, NewProcessIs DEF ProcessRestarts
  <2>3. proc'.inc # 1
    BY <2>1, <2>2, Numbers
  <2> QED
    BY <2>3 DEF Keys, FirstProcess, NoKeyStaysDown
<1>39. CASE BrokerExits
  <2>1. ~proc'.up
    BY <1>39, GoesShape DEF BrokerExits
  <2> QED
    BY <2>1 DEF Keys, FirstProcess, NoKeyStaysDown
<1> QED
  BY <1>1, <1>2, <1>3, <1>4, <1>5, <1>6, <1>7, <1>8, <1>9, <1>10, <1>11, <1>12, <1>13,
     <1>14, <1>15, <1>16, <1>17, <1>18, <1>19, <1>20, <1>21, <1>22, <1>23, <1>24, <1>25,
     <1>26, <1>27, <1>28, <1>29, <1>30, <1>31, <1>32, <1>33, <1>34, <1>35, <1>36, <1>37,
     <1>38, <1>39 DEF Next

-----------------------------------------------------------------------------
(* The theorems. *)

LEMMA InvInit == Init => Inv
<1> SUFFICES ASSUME Init PROVE Inv
  OBVIOUS
<1>1. /\ <<>> \in Seq(Messages) /\ <<>> \in Seq(Asks) /\ {} \in SUBSET {0, 1}
      /\ {} \in SUBSET {"host", "guest"} /\ 0 \in Nat /\ 1 \in Nat /\ None = 0
      /\ Len(<<>>) = 0
  BY DEF None
<1>2. ViewerShape
  <2>1. (CHOOSE size \in Sizes : TRUE) \in Sizes
    BY DisplayAssumption
  <2>2. 1 \in 1..MaxCommits /\ 0 \in 0..MaxFaults
    BY Consts
  <2>3. NoConnection \in Connections
    BY <1>1, NothingSaid DEF NoConnection, Connections
  <2>4. viewer \in Viewers
    BY Consts, NewLiveIs DEF Init
  <2> QED
    BY <2>1, <2>2, <2>3, <2>4 DEF Init, ViewerShape, Statuses
<1>3. SocketShape
  BY ClosedIs DEF Init, SocketShape
<1>4. bk \in Brokers /\ bk.peer = 1 /\ bk.session = None /\ bk.sent = {} /\ bk.wants = FALSE
  BY <1>1, Consts DEF Init, NoBroker, Brokers
<1>5. proc \in Processes /\ proc.inc = 1 /\ proc.params = None /\ proc.buffers = {}
  BY <1>1, NewProcessIs DEF Init
<1>6. cap \in Captures /\ cap.peer = None /\ cap.pc = "wait"
  BY NoCaptureIs DEF Init, NoCapture
<1>7. ctl \in Controls /\ ctl.pc = "accept"
  BY <1>1, Consts DEF Init, NoControl, Controls
<1>8. GuestShape /\ InConnection
  BY <1>1, <1>4, <1>5, <1>6, <1>7 DEF Init, GuestShape, InConnection
<1>9. peerq = <<>> /\ askq = <<>> /\ serve.inc = 1 /\ key = "up"
  BY DEF Init
<1>10. PeerFollows
  BY <1>4, <1>5, <1>9, ComesEmpty DEF PeerFollows
<1>11. ShotIsTaken /\ Incarnations /\ AskOrder /\ AttachFirst
  BY <1>1, <1>4, <1>5, <1>6, <1>9
     DEF ShotIsTaken, Incarnations, AskOrder, AttachFirst, Unheard
<1>12. Keys
  BY <1>1, <1>4, <1>5, <1>9 DEF Keys, FirstProcess, NoKeyStaysDown
<1> QED
  BY <1>2, <1>3, <1>8, <1>10, <1>11, <1>12 DEF Inv, Shape, Handover

LEMMA InvStep == Inv /\ [Next]_vars => Inv'
<1>1. ASSUME Inv, Next PROVE Inv'
  <2>1. Shape /\ Handover /\ Keys
    BY <1>1 DEF Inv
  <2>2. Shape'
    BY <1>1, <2>1, ViewerStep, SocketStep, GuestStep DEF Shape
  <2> QED
    BY <1>1, <2>1, <2>2, HandoverStep, KeysStep DEF Inv
<1>2. ASSUME Inv, UNCHANGED vars PROVE Inv'
  <2>1. Shape'
    BY <1>2 DEF Inv, vars, Shape, ViewerShape, SocketShape, GuestShape, InConnection
  <2>2. Handover'
    BY <1>2 DEF Inv, vars, Handover, ShotIsTaken, Incarnations, AskOrder, AttachFirst,
                Unheard, PeerFollows
  <2>3. Keys'
    BY <1>2 DEF Inv, vars, Keys, FirstProcess, NoKeyStaysDown
  <2> QED
    BY <2>1, <2>2, <2>3 DEF Inv
<1> QED
  BY <1>1, <1>2

\* The invariant of the session's three programs: what is on its way to the process
\* brings it to the broker's session with every buffer it was sent mapped, in whatever
\* order processes come and attach (broker_main.rs adopt_peer, open_session,
\* send_snapshot; session_main.rs read_broker).
THEOREM SessionInvariant == Spec => []Inv
<1>1. Init /\ [][Next]_vars => []Inv
  BY InvInit, InvStep, PTL
<1> QED
  BY <1>1, PTL DEF Spec, Safety

LEMMA AgreementFromInv == Inv => SessionsAgree
<1> SUFFICES ASSUME Inv PROVE SessionsAgree
  OBVIOUS
<1> USE DEF Inv, Shape
<1>1. TypeOK
  <2>1. /\ screen.n \in 1..MaxCommits /\ screen.size \in Sizes
        /\ viewer.pc \in {"connect", "relay", "live", "over"} /\ viewer.sid \in Sids
        /\ viewer.dial \in {"none", "frame", "input"} /\ viewer.picture \in 0..MaxCommits
        /\ status \in Statuses /\ parent \in BOOLEAN /\ faults \in 0..MaxFaults
    BY DEF ViewerShape, Viewers, Commits
  <2>2. \A s \in Sids : control[s].closed \subseteq {"host", "guest"}
    BY DEF ViewerShape, Connections
  <2>3. frame.host \in BOOLEAN /\ frame.guest \in BOOLEAN /\ Len(frame.q) <= 1
    BY DEF SocketShape, FrameSockets
  <2>4. input \in Socket /\ key \in {"up", "held", "lost"}
    BY DEF SocketShape, InputSockets, Socket, Commits
  <2>5. /\ bk.session \in 0..MaxSessions /\ bk.sent \subseteq {0, 1}
        /\ ctl.pc \in {"accept", "session", "left"}
        /\ cap.pc \in {"wait", "probe", "observe", "send", "failing", "ended"}
        /\ proc.params \in 0..MaxSessions /\ proc.buffers \subseteq {0, 1}
    BY DEF GuestShape, Brokers, Controls, Captures, Processes
  <2> QED
    BY <2>1, <2>2, <2>3, <2>4, <2>5 DEF TypeOK
<1>2. Len(peerq) \in Nat
  BY Numbers
<1>3. CASE proc.up /\ proc.inc = bk.peer
  <2>1. Comes(peerq, proc.params, proc.buffers, bk.session, bk.sent)
    BY <1>3 DEF Handover, PeerFollows
  <2>2. ASSUME NEW i \in 1..Len(peerq), peerq[i].t = "snap"
        PROVE  SessionAfter(i) = peerq[i].sid /\ Buffer(peerq[i].n) \in MappedAfter(i)
    <3>1. /\ i \in Nat /\ InSession(peerq, proc.params, i, peerq[i].sid)
          /\ Maps(peerq, proc.buffers, i, Buffer(peerq[i].n))
      BY <1>2, <2>1, <2>2 DEF Comes, Agrees
    <3> QED
      BY <3>1, SessionAfterIs, SessionOfIs, MappedAfterIs
  <2>3. SessionAfter(Len(peerq)) = bk.session
    <3>1. InSession(peerq, proc.params, Len(peerq), bk.session)
      BY <2>1 DEF Comes
    <3> QED
      BY <1>2, <3>1, SessionAfterIs, SessionOfIs
  <2> QED
    BY <1>1, <2>2, <2>3 DEF SessionsAgree, SnapshotsMatch, PeerKnowsTheSession, Keys
<1>4. CASE ~(proc.up /\ proc.inc = bk.peer)
  <2>1. proc.up \in BOOLEAN
    BY Numbers
  <2>2. peerq = <<>>
    BY <1>4, <2>1 DEF Handover, Incarnations
  <2>3. SnapshotsMatch
    BY <2>2 DEF SnapshotsMatch
  <2> QED
    BY <1>1, <1>4, <2>3 DEF SessionsAgree, PeerKnowsTheSession, Keys
<1> QED
  BY <1>3, <1>4

\* However threads, sessions and processes come and go: a snapshot reaches the process
\* in the session it was taken for and in a buffer it has mapped, a process that has
\* read what it was sent is in the broker's session, and no key stays down that no
\* input channel holds (broker_main.rs, session_main.rs).
THEOREM SessionsStayInAgreement == Spec => []SessionsAgree
  BY SessionInvariant, AgreementFromInv, PTL

=============================================================================
