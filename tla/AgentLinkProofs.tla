-------------------------- MODULE AgentLinkProofs --------------------------
(***************************************************************************)
(* AgentLink, proved for every number of sockets and callers, every guest  *)
(* and every bound on the faults: nobody waits without a session, a probe  *)
(* never finds the guest at work, and the version the host shows as loaded *)
(* is the guest's own.                                                     *)
(*                                                                         *)
(* The argument follows each request of the host as a token.  On every     *)
(* connection the host holds, a request in flight is in at most one place: *)
(* on its way down, in the hands of the guest, or answered and on its way  *)
(* up; and every one of them is one the session counts as pending, of      *)
(* which there is at most one a lane (GPU, display, base protocol).  So a  *)
(* host that has nothing pending knows that the guest is idle, and a host  *)
(* with nothing of the display pending has been told what the guest has.   *)
(***************************************************************************)
EXTENDS AgentLink, TLAPS

FrameKinds == {"hello", "hello_ok", "challenge", "proof", "error", "hb", "hb_ok",
               "job", "done"}
Frames == [k : FrameKinds, job : Jobs \cup {None},
           out : Builds \cup Outcomes \cup {"ok", None}, p : Loaded]

\* What travels: a request and its answer name their job.
Wire == {m \in Frames : m.k \in {"job", "done"} => m.job \in Jobs}

ConnRecords == [up : Seq(Wire), down : Seq(Wire), g : {"open", "closed", "lost"},
                h : BOOLEAN, agreed : Sessions]
HostRecords == [pc : HostSteps, conn : Conns \cup {None}, cand : Conns \cup {None},
                pend : SUBSET Jobs, probe : BOOLEAN, parked : Asks \cup {None},
                upd : Asks \cup {None}, reb : Asks \cup {None},
                exit : {None, "replaced", "closed", "broken"}]
GuestRecords == [pc : GuestSteps, conn : Conns \cup {None}, hb : BOOLEAN,
                 job : Wire \cup {None}, run : Builds, bin : Builds \cup {"missing"},
                 key : BOOLEAN, offer : SUBSET {"gpu", "display"}, down : BOOLEAN]
AskRecords == [st : AskStates, p : Loaded, old : BOOLEAN]

\* Where the host has a session.
InSession == {"serve", "cand_hello", "cand_proof", "drain"}
\* Where the host has a connection of its own, and where a candidate for one.
HasConn == {"hello", "proof", "online"} \cup InSession
HasCand == h.pc \in {"cand_hello", "cand_proof"} \/ (h.pc = "drain" /\ h.exit = "replaced")
\* Where the guest has a connection.
GuestHasConn == {"hello", "auth", "serve", "busy"}

\* Every variable has its shape, and a thread a connection where it uses one.
Shape ==
  /\ conns \in [Conns -> ConnRecords]
  /\ backlog \in Seq(Conns)
  /\ h \in HostRecords
  /\ online \in BOOLEAN /\ running \in BOOLEAN /\ late \in BOOLEAN
  /\ queue \in [update : Seq(Asks), reboot : Seq(Asks)]
  /\ asks \in [Asks -> AskRecords]
  /\ facts \in Loaded
  /\ guest \in GuestRecords
  /\ disp \in Loaded
  /\ faults \in 0..MaxFaults
  /\ h.conn # None <=> h.pc \in HasConn
  /\ h.cand # None <=> HasCand
  /\ guest.conn # None <=> guest.pc \in GuestHasConn
  /\ guest.pc = "busy" => guest.job \in Wire /\ guest.job.k = "job"

\* The host's end of everything the host holds is open, and it holds nothing
\* twice: what an agent connects through is none of it.
Ends ==
  /\ h.conn # None => conns[h.conn].h /\ h.conn # h.cand
  /\ h.cand # None => conns[h.cand].h
  /\ \A i \in DOMAIN backlog :
       /\ conns[backlog[i]].h
       /\ backlog[i] # h.conn /\ backlog[i] # h.cand
       /\ \A j \in DOMAIN backlog : backlog[i] = backlog[j] => i = j

\* A caller waits for a session that has what it asked for, and a session that
\* probes has nothing else in flight.
Waits ==
  /\ online <=> h.pc \in InSession
  /\ ~online => /\ h.parked = None /\ h.upd = None /\ h.reb = None
                /\ h.pend = {} /\ ~h.probe
  /\ \A a \in Asks : Waiting(a) =>
       /\ online
       /\ \/ a = h.parked \/ a = h.upd \/ a = h.reb
          \/ \E i \in DOMAIN queue.update : a = queue.update[i]
          \/ \E i \in DOMAIN queue.reboot : a = queue.reboot[i]
  /\ h.probe => h.pend = {}
  /\ ~h.probe => h.parked = None
  /\ h.upd # None => "update" \in h.pend
  /\ h.reb # None => "reboot" \in h.pend /\ AskKind[h.reb] = "reboot"
  /\ \A j, k \in h.pend : CapabilityFor(j) = CapabilityFor(k) => j = k

\* The jobs of the frames of kind k in s; each of them is there once.
JobsIn(s, k) == {s[i].job : i \in {n \in DOMAIN s : s[n].k = k}}
Once(s, k) ==
  \A i, j \in DOMAIN s : s[i].k = k /\ s[j].k = k /\ s[i].job = s[j].job => i = j
\* What the guest is at work on for connection c.
AtWork(c) == IF guest.conn = c /\ guest.pc = "busy" THEN {guest.job.job} ELSE {}

\* Requests in flight: on their way down in d, with the guest in w, answered
\* and on their way up in u.  Each is in one place and among the pending p.
Flight(u, d, w, p) ==
  /\ Once(u, "done") /\ Once(d, "job")
  /\ JobsIn(u, "done") \subseteq p /\ JobsIn(d, "job") \subseteq p /\ w \subseteq p
  /\ JobsIn(u, "done") \cap JobsIn(d, "job") = {}
  /\ JobsIn(u, "done") \cap w = {} /\ JobsIn(d, "job") \cap w = {}

\* So it is on every connection the host holds; only its session's has work.
Held(c) == c = h.conn \/ c = h.cand \/ \E i \in DOMAIN backlog : c = backlog[i]
Pending(c) == IF c = h.conn THEN h.pend ELSE {}
InFlight(c) == Flight(conns[c].up, conns[c].down, AtWork(c), Pending(c))
Tokens == \A c \in Conns : Held(c) => InFlight(c)

\* The reports on their way up say what the guest has.
Says(s, v) == \A i \in DOMAIN s :
  s[i].k = "done" /\ s[i].job \in {"display_recipe", "update"} => s[i].p = v
SameConn == online /\ guest.conn = h.conn
Reports == SameConn => Says(conns[h.conn].up, disp)

\* With nothing of the display in flight, what the host shows is the guest's.
DisplayIdle == \A j \in h.pend : CapabilityFor(j) # {"display"}
Facts ==
  SameConn /\ ~late /\ "display" \in guest.offer
    /\ "display" \in conns[h.conn].agreed.caps /\ DisplayIdle
    => facts \in {None, disp}

\* An answer the update worker has not recorded yet is still what the guest
\* has: no other update is asked for, queued, parked or in flight.
Fresh(a) == AskKind[a] = "update" /\ asks[a].st = "answered" /\ ~asks[a].old
Answers ==
  \A a \in Asks : Fresh(a) =>
    /\ online /\ queue.update = <<>> /\ DisplayIdle
    /\ h.parked # None => AskKind[h.parked] = "reboot"
    /\ SameConn => asks[a].p \in {None, disp}

\* Updates are asked for one at a time, so that a caller which still waits is
\* the last in the line, whoever gave up before it.
Asking(a) == AskKind[a] = "update" /\ asks[a].st \in {"waiting", "answered"}
Line ==
  /\ \A a, b \in Asks : Asking(a) /\ Asking(b) => a = b
  /\ \A a \in Asks : AskKind[a] = "update" /\ Waiting(a) /\ queue.update # <<>>
                       => a = queue.update[Len(queue.update)]
  /\ \A i \in DOMAIN queue.update :
       /\ AskKind[queue.update[i]] = "update" /\ asks[queue.update[i]].st # "idle"
       /\ queue.update[i] # h.parked /\ queue.update[i] # h.upd
       /\ \A j \in DOMAIN queue.update : queue.update[i] = queue.update[j] => i = j
  /\ \A i \in DOMAIN queue.reboot : AskKind[queue.reboot[i]] = "reboot"
  /\ h.parked # None /\ AskKind[h.parked] = "update" => asks[h.parked].st # "idle"
  /\ h.upd # None => asks[h.upd].st # "idle"

Inv == Shape /\ Ends /\ Waits /\ Tokens /\ Reports /\ Facts /\ Answers /\ Line

-----------------------------------------------------------------------------
(* Sequences of frames. *)

\* What is left of a sequence when its head is taken.
LEMMA TailIs ==
  ASSUME NEW S, NEW s \in Seq(S), s # <<>>
  PROVE  /\ Tail(s) \in Seq(S) /\ Head(s) \in S /\ Head(s) = s[1] /\ 1 \in DOMAIN s
         /\ \A i \in DOMAIN Tail(s) : i + 1 \in DOMAIN s /\ Tail(s)[i] = s[i + 1]
         /\ \A i \in DOMAIN s : i = 1 \/ (i - 1 \in DOMAIN Tail(s) /\ Tail(s)[i - 1] = s[i])
         /\ DOMAIN s \subseteq Nat /\ DOMAIN Tail(s) \subseteq Nat
  OBVIOUS

\* A sequence after another.
LEMMA ConcatIs ==
  ASSUME NEW S, NEW s \in Seq(S), NEW t \in Seq(S)
  PROVE  /\ s \o t \in Seq(S)
         /\ \A i \in DOMAIN s : i \in DOMAIN (s \o t) /\ (s \o t)[i] = s[i]
         /\ \A i \in DOMAIN t : i + Len(s) \in DOMAIN (s \o t) /\ (s \o t)[i + Len(s)] = t[i]
         /\ \A i \in DOMAIN (s \o t) :
              i \in DOMAIN s \/ (i - Len(s) \in DOMAIN t /\ (s \o t)[i] = t[i - Len(s)])
         /\ Len(s) \in Nat
         /\ DOMAIN s = 1..Len(s) /\ DOMAIN t \subseteq Nat \ {0} /\ DOMAIN (s \o t) \subseteq Nat
  OBVIOUS

LEMMA JobsOfTail ==
  ASSUME NEW s \in Seq(Wire), s # <<>>, NEW k
  PROVE  /\ JobsIn(Tail(s), k) \subseteq JobsIn(s, k)
         /\ Head(s).k = k => Head(s).job \in JobsIn(s, k)
         /\ Once(s, k) => Once(Tail(s), k)
         /\ Once(s, k) /\ Head(s).k = k => Head(s).job \notin JobsIn(Tail(s), k)
<1>1. JobsIn(Tail(s), k) \subseteq JobsIn(s, k)
  <2> SUFFICES ASSUME NEW j \in JobsIn(Tail(s), k) PROVE j \in JobsIn(s, k)
    OBVIOUS
  <2>1. PICK i \in DOMAIN Tail(s) : Tail(s)[i].k = k /\ Tail(s)[i].job = j
    BY DEF JobsIn
  <2>2. i + 1 \in DOMAIN s /\ s[i + 1] = Tail(s)[i]
    BY TailIs, Zenon
  <2> QED BY <2>1, <2>2 DEF JobsIn
<1>2. Head(s).k = k => Head(s).job \in JobsIn(s, k)
  BY TailIs DEF JobsIn
<1>3. ASSUME Once(s, k) PROVE Once(Tail(s), k)
  <2> SUFFICES ASSUME NEW i \in DOMAIN Tail(s), NEW j \in DOMAIN Tail(s),
                      Tail(s)[i].k = k, Tail(s)[j].k = k, Tail(s)[i].job = Tail(s)[j].job
               PROVE  i = j
    BY Zenon DEF Once
  <2>1. i + 1 = j + 1
    BY <1>3, TailIs DEF Once
  <2>2. i \in Nat /\ j \in Nat
    BY TailIs, Zenon
  <2> QED BY <2>1, <2>2
<1>4. ASSUME Once(s, k), Head(s).k = k, Head(s).job \in JobsIn(Tail(s), k) PROVE FALSE
  <2>1. PICK i \in DOMAIN Tail(s) : Tail(s)[i].k = k /\ Tail(s)[i].job = Head(s).job
    BY <1>4 DEF JobsIn
  <2>2. i + 1 = 1
    BY <1>4, <2>1, TailIs DEF Once
  <2>3. i \in DOMAIN Tail(s) /\ DOMAIN Tail(s) = 1..Len(Tail(s)) /\ Len(Tail(s)) \in Nat
    BY TailIs
  <2> QED BY <2>2, <2>3
<1> QED BY <1>1, <1>2, <1>3, <1>4

LEMMA JobsOfConcat ==
  ASSUME NEW s \in Seq(Wire), NEW t \in Seq(Wire), NEW k
  PROVE  /\ JobsIn(s \o t, k) = JobsIn(s, k) \cup JobsIn(t, k)
         /\ Once(s, k) /\ Once(t, k) /\ JobsIn(s, k) \cap JobsIn(t, k) = {} => Once(s \o t, k)
<1>1. ASSUME NEW j \in JobsIn(s \o t, k) PROVE j \in JobsIn(s, k) \cup JobsIn(t, k)
  <2>1. PICK i \in DOMAIN (s \o t) : (s \o t)[i].k = k /\ (s \o t)[i].job = j
    BY <1>1 DEF JobsIn
  <2> QED BY <2>1, ConcatIs DEF JobsIn
<1>2. ASSUME NEW j \in JobsIn(s, k) PROVE j \in JobsIn(s \o t, k)
  <2>1. PICK i \in DOMAIN s : s[i].k = k /\ s[i].job = j
    BY <1>2 DEF JobsIn
  <2> QED BY <2>1, ConcatIs DEF JobsIn
<1>3. ASSUME NEW j \in JobsIn(t, k) PROVE j \in JobsIn(s \o t, k)
  <2>1. PICK i \in DOMAIN t : t[i].k = k /\ t[i].job = j
    BY <1>3 DEF JobsIn
  <2>2. i + Len(s) \in DOMAIN (s \o t) /\ (s \o t)[i + Len(s)] = t[i]
    BY ConcatIs
  <2> QED BY <2>1, <2>2 DEF JobsIn
<1>4. ASSUME Once(s, k), Once(t, k), JobsIn(s, k) \cap JobsIn(t, k) = {} PROVE Once(s \o t, k)
  <2> SUFFICES ASSUME NEW i \in DOMAIN (s \o t), NEW j \in DOMAIN (s \o t),
                      (s \o t)[i].k = k, (s \o t)[j].k = k, (s \o t)[i].job = (s \o t)[j].job
               PROVE  i = j
    BY Zenon DEF Once
  <2> DEFINE n == Len(s)
  <2>0. i \in Nat /\ j \in Nat /\ n \in Nat
    BY ConcatIs, Zenon
  <2>1. CASE i \in DOMAIN s /\ j \in DOMAIN s
    BY <1>4, <2>1, ConcatIs DEF Once
  <2>2. CASE i \notin DOMAIN s /\ j \notin DOMAIN s
    <3>1. i - n = j - n
      BY <1>4, <2>2, ConcatIs DEF Once
    <3> HIDE DEF n
    <3> QED BY <3>1, <2>0
  <2>3. CASE i \in DOMAIN s /\ j \notin DOMAIN s
    <3>1. (s \o t)[i].job \in JobsIn(s, k)
      BY <2>3, ConcatIs DEF JobsIn
    <3>2. (s \o t)[i].job \in JobsIn(t, k)
      BY <2>3, ConcatIs DEF JobsIn
    <3> QED BY <1>4, <3>1, <3>2
  <2>4. CASE i \notin DOMAIN s /\ j \in DOMAIN s
    <3>1. (s \o t)[i].job \in JobsIn(s, k)
      BY <2>4, ConcatIs DEF JobsIn
    <3>2. (s \o t)[i].job \in JobsIn(t, k)
      BY <2>4, ConcatIs DEF JobsIn
    <3> QED BY <1>4, <3>1, <3>2
  <2> QED BY <2>1, <2>2, <2>3, <2>4
<1> QED BY <1>1, <1>2, <1>3, <1>4

LEMMA JobsOfFew ==
  ASSUME NEW k
  PROVE  /\ JobsIn(<<>>, k) = {} /\ Once(<<>>, k)
         /\ \A m : /\ JobsIn(<<m>>, k) = IF m.k = k THEN {m.job} ELSE {}
                   /\ Once(<<m>>, k)
         /\ \A m, n : m.k # k /\ n.k # k => JobsIn(<<m, n>>, k) = {} /\ Once(<<m, n>>, k)
  BY DEF JobsIn, Once

-----------------------------------------------------------------------------
(* How a request moves. *)

\* The host takes a frame; an answer leaves nothing of its request behind.
LEMMA FlightRead ==
  ASSUME NEW u \in Seq(Wire), NEW d \in Seq(Wire), NEW w, NEW p,
         Flight(u, d, w, p), u # <<>>
  PROVE  /\ Flight(Tail(u), d, w, p)
         /\ Head(u).k = "done" => /\ Head(u).job \in p
                                  /\ Flight(Tail(u), d, w, p \ {Head(u).job})
<1>1. /\ JobsIn(Tail(u), "done") \subseteq JobsIn(u, "done")
      /\ Head(u).k = "done" => Head(u).job \in JobsIn(u, "done")
      /\ Once(u, "done") => Once(Tail(u), "done")
      /\ Once(u, "done") /\ Head(u).k = "done" => Head(u).job \notin JobsIn(Tail(u), "done")
  BY JobsOfTail
<1> QED BY <1>1 DEF Flight

\* The host sends requests that are not in flight, and waits for them.
LEMMA FlightSend ==
  ASSUME NEW u \in Seq(Wire), NEW d \in Seq(Wire), NEW t \in Seq(Wire), NEW w, NEW p,
         Flight(u, d, w, p), Once(t, "job"), JobsIn(t, "job") \cap p = {}
  PROVE  Flight(u, d \o t, w, p \cup JobsIn(t, "job"))
<1>1. JobsIn(d \o t, "job") = JobsIn(d, "job") \cup JobsIn(t, "job")
  BY JobsOfConcat
<1>2. JobsIn(d, "job") \cap JobsIn(t, "job") = {} /\ Once(d, "job")
  BY DEF Flight
<1>3. Once(d \o t, "job")
  BY <1>2, JobsOfConcat
<1> QED BY <1>1, <1>3 DEF Flight

\* Waiting for more than is in flight changes nothing.
LEMMA FlightMore ==
  ASSUME NEW u, NEW d, NEW w, NEW p, NEW q, Flight(u, d, w, p), p \subseteq q
  PROVE  Flight(u, d, w, q)
  BY DEF Flight

\* The guest takes a frame, and a request into its hands.
LEMMA FlightTaken ==
  ASSUME NEW u \in Seq(Wire), NEW d \in Seq(Wire), NEW w, NEW p,
         Flight(u, d, w, p), d # <<>>
  PROVE  /\ Flight(u, Tail(d), w, p)
         /\ Head(d).k = "job" /\ w = {} => Flight(u, Tail(d), {Head(d).job}, p)
<1>1. /\ JobsIn(Tail(d), "job") \subseteq JobsIn(d, "job")
      /\ Head(d).k = "job" => Head(d).job \in JobsIn(d, "job")
      /\ Once(d, "job") => Once(Tail(d), "job")
      /\ Once(d, "job") /\ Head(d).k = "job" => Head(d).job \notin JobsIn(Tail(d), "job")
  BY JobsOfTail
<1> QED BY <1>1 DEF Flight

\* The guest answers: what it has done leaves its hands.
LEMMA FlightDone ==
  ASSUME NEW u \in Seq(Wire), NEW d \in Seq(Wire), NEW t \in Seq(Wire), NEW w, NEW p,
         Flight(u, d, w, p), Once(t, "done"), JobsIn(t, "done") \subseteq w
  PROVE  Flight(u \o t, d, w \ JobsIn(t, "done"), p)
<1>1. JobsIn(u \o t, "done") = JobsIn(u, "done") \cup JobsIn(t, "done")
  BY JobsOfConcat
<1>2. JobsIn(u, "done") \cap JobsIn(t, "done") = {} /\ Once(u, "done")
  BY DEF Flight
<1>3. Once(u \o t, "done")
  BY <1>2, JobsOfConcat
<1> QED BY <1>1, <1>3 DEF Flight

\* What is lost is in no other place.
LEMMA FlightLost ==
  ASSUME NEW u, NEW d, NEW w, NEW p, Flight(u, d, w, p)
  PROVE  /\ Flight(u, d, {}, p) /\ Flight(u, <<>>, {}, p) /\ Flight(<<>>, d, {}, p)
         /\ Flight(u, <<>>, w, p)
<1>1. JobsIn(<<>>, "job") = {} /\ Once(<<>>, "job") /\ JobsIn(<<>>, "done") = {} /\ Once(<<>>, "done")
  BY JobsOfFew
<1> QED BY <1>1 DEF Flight

\* Nothing is in flight on a connection that opens.
LEMMA FlightOpens ==
  ASSUME NEW m, m.k # "done", NEW p
  PROVE  Flight(<<m>>, <<>>, {}, p)
<1>1. JobsIn(<<>>, "job") = {} /\ Once(<<>>, "job")
      /\ JobsIn(<<m>>, "done") = {} /\ Once(<<m>>, "done")
  BY JobsOfFew
<1> QED BY <1>1 DEF Flight

\* What the reports say, when one is read and when frames are sent after them.
LEMMA SaysRead ==
  ASSUME NEW u \in Seq(Wire), u # <<>>, NEW v, Says(u, v)
  PROVE  /\ Says(Tail(u), v)
         /\ Head(u).k = "done" /\ Head(u).job \in {"display_recipe", "update"} => Head(u).p = v
  BY TailIs DEF Says

LEMMA SaysSent ==
  ASSUME NEW u \in Seq(Wire), NEW t \in Seq(Wire), NEW v, Says(u, v), Says(t, v)
  PROVE  Says(u \o t, v)
  BY ConcatIs DEF Says

\* A report of the display is the only thing that speaks of it.
LEMMA SaysNothing ==
  ASSUME NEW u \in Seq(Wire), NEW v,
         "display_recipe" \notin JobsIn(u, "done"), "update" \notin JobsIn(u, "done")
  PROVE  Says(u, v)
  BY DEF Says, JobsIn

LEMMA SaysFew ==
  ASSUME NEW v
  PROVE  /\ Says(<<>>, v)
         /\ \A m : m.k # "done" \/ m.job \notin {"display_recipe", "update"} \/ m.p = v
                     => Says(<<m>>, v)
  BY DEF Says

-----------------------------------------------------------------------------
(* Frames and connections. *)

LEMMA Constants ==
  /\ MaxConns \in Nat /\ MaxFaults \in Nat /\ None \notin Conns /\ None \notin Asks
  /\ AskKind \in [Asks -> {"update", "reboot"}]
  BY LinkAssumption DEF Conns

LEMMA FramesAreWire ==
  /\ \A k \in FrameKinds \ {"job", "done"} : Frame(k) \in Wire /\ Frame(k).k = k
  /\ \A j \in Jobs : JobFrame(j) \in Wire /\ JobFrame(j).k = "job" /\ JobFrame(j).job = j
  /\ \A b \in Builds : LET m == [Frame("hello") EXCEPT !.out = b]
                       IN m \in Wire /\ m.k = "hello"
  /\ \A o \in {"ok", "failed"} : LET m == [Frame("proof") EXCEPT !.out = o]
                                 IN m \in Wire /\ m.k = "proof"
  BY DEF Frame, JobFrame, Wire, Frames, FrameKinds, Loaded, Outcomes

LEMMA DoneIsWire ==
  ASSUME NEW m \in Wire, m.k = "job", NEW o \in Outcomes \cup {"ok"}, NEW p \in Loaded
  PROVE  /\ Done(m, o, p) \in Wire /\ Done(m, o, p).k = "done" /\ Done(m, o, p).job = m.job
         /\ Done(m, o, p).p = p
  BY DEF Done, Wire, Frames, FrameKinds

LEMMA FewAreWire ==
  /\ <<>> \in Seq(Wire)
  /\ \A m \in Wire : <<m>> \in Seq(Wire)
  /\ \A m, n \in Wire : <<m, n>> \in Seq(Wire)
  OBVIOUS

LEMMA NoConnIs ==
  /\ NoConn \in ConnRecords /\ NoConn.up = <<>> /\ NoConn.down = <<>> /\ ~NoConn.h
  BY DEF NoConn, NoSession, Sessions, ConnRecords

\* One connection's frames move; its ends stay as they are.
Moved(c, u, d) ==
  /\ conns' \in [Conns -> ConnRecords]
  /\ \A e \in Conns : e # c => conns'[e] = conns[e]
  /\ conns'[c].up = u /\ conns'[c].down = d
  /\ conns'[c].h <=> conns[c].h
  /\ conns'[c].g = conns[c].g
Pushed(c, t) == IF Live(c) THEN conns[c].down \o t ELSE conns[c].down

\* The host's end of a connection closes.
Closed(c) ==
  /\ conns' \in [Conns -> ConnRecords]
  /\ \A e \in Conns : e # c => conns'[e] = conns[e]
  /\ ~conns'[c].h

\* The guest's end closes or is lost.
Ended(c) ==
  /\ conns' \in [Conns -> ConnRecords]
  /\ \A e \in Conns : e # c => conns'[e] = conns[e]
  /\ conns'[c].h <=> conns[c].h
  /\ conns[c].h => /\ conns'[c].up = conns[c].up /\ conns'[c].down = <<>>
                   /\ conns'[c].agreed = conns[c].agreed

LEMMA ConnIs ==
  ASSUME NEW f \in [Conns -> ConnRecords], NEW c \in Conns
  PROVE  /\ f[c] \in ConnRecords /\ f[c].up \in Seq(Wire) /\ f[c].down \in Seq(Wire)
         /\ f[c].h \in BOOLEAN /\ f[c].agreed \in Sessions /\ f[c].g \in {"open", "closed", "lost"}
  BY DEF ConnRecords

LEMMA MovedIs ==
  ASSUME conns \in [Conns -> ConnRecords], NEW c \in Conns, NEW u \in Seq(Wire), NEW d \in Seq(Wire),
         conns' = [conns EXCEPT ![c].up = u, ![c].down = d]
  PROVE  Moved(c, u, d) /\ conns'[c].agreed = conns[c].agreed
<1>0. conns[c] \in ConnRecords
  OBVIOUS
<1>1. conns' = [conns EXCEPT ![c] = [conns[c] EXCEPT !.up = u, !.down = d]]
  OBVIOUS
<1> DEFINE r == [conns[c] EXCEPT !.up = u, !.down = d]
<1>2. /\ r \in ConnRecords /\ r.up = u /\ r.down = d /\ r.h = conns[c].h
      /\ r.g = conns[c].g /\ r.agreed = conns[c].agreed
  BY <1>0 DEF ConnRecords
<1>3. conns' = [conns EXCEPT ![c] = r]
  BY <1>1
<1> HIDE DEF r
<1> QED BY <1>2, <1>3 DEF Moved

LEMMA PushedIs ==
  ASSUME conns \in [Conns -> ConnRecords], NEW c \in Conns, NEW t \in Seq(Wire)
  PROVE  Pushed(c, t) \in Seq(Wire)
  BY ConnIs, ConcatIs DEF Pushed

LEMMA SentIs ==
  ASSUME conns \in [Conns -> ConnRecords], NEW c \in Conns, NEW t \in Seq(Wire),
         conns' = Sent(c, t)
  PROVE  Moved(c, conns[c].up, Pushed(c, t)) /\ conns'[c].agreed = conns[c].agreed
<1>1. conns' = [conns EXCEPT ![c].up = conns[c].up, ![c].down = Pushed(c, t)]
  BY DEF Sent, Pushed, ConnRecords
<1> QED BY <1>1, MovedIs, PushedIs, ConnIs

LEMMA ReceivedIs ==
  ASSUME conns \in [Conns -> ConnRecords], NEW c \in Conns, conns[c].up # <<>>,
         conns' = Received(c)
  PROVE  Moved(c, Tail(conns[c].up), conns[c].down) /\ conns'[c].agreed = conns[c].agreed
<1>1. conns' = [conns EXCEPT ![c].up = Tail(conns[c].up), ![c].down = conns[c].down]
  BY DEF Received, ConnRecords
<1>2. conns[c].up \in Seq(Wire) /\ conns[c].down \in Seq(Wire) /\ Tail(conns[c].up) \in Seq(Wire)
  BY TailIs, ConnIs
<1> QED BY <1>1, <1>2, MovedIs

LEMMA ExchangedIs ==
  ASSUME conns \in [Conns -> ConnRecords], NEW c \in Conns, NEW t \in Seq(Wire),
         conns[c].up # <<>>, conns' = Exchanged(c, t)
  PROVE  Moved(c, Tail(conns[c].up), Pushed(c, t)) /\ conns'[c].agreed = conns[c].agreed
<1>1. conns' = [conns EXCEPT ![c].up = Tail(conns[c].up), ![c].down = Pushed(c, t)]
  BY DEF Exchanged, Pushed, ConnRecords
<1>2. Pushed(c, t) \in Seq(Wire) /\ Tail(conns[c].up) \in Seq(Wire)
  BY PushedIs, TailIs, ConnIs
<1> QED BY <1>1, <1>2, MovedIs

LEMMA AgreedIs ==
  ASSUME conns \in [Conns -> ConnRecords], NEW c \in Conns, NEW t \in Seq(Wire),
         conns[c].up # <<>>, NEW s \in Sessions,
         conns' = [Exchanged(c, t) EXCEPT ![c].agreed = s]
  PROVE  Moved(c, Tail(conns[c].up), Pushed(c, t))
<1> DEFINE r == [conns[c] EXCEPT !.up = Tail(conns[c].up), !.down = Pushed(c, t), !.agreed = s]
<1>0. conns[c] \in ConnRecords /\ Tail(conns[c].up) \in Seq(Wire) /\ Pushed(c, t) \in Seq(Wire)
  BY PushedIs, TailIs, ConnIs
<1>1. conns' = [conns EXCEPT ![c] = r]
  BY DEF Exchanged, Pushed, ConnRecords
<1>2. /\ r \in ConnRecords /\ r.up = Tail(conns[c].up) /\ r.down = Pushed(c, t) /\ r.h = conns[c].h
      /\ r.g = conns[c].g
  BY <1>0 DEF ConnRecords
<1> HIDE DEF r
<1> QED BY <1>1, <1>2 DEF Moved

LEMMA RepliesIs ==
  ASSUME conns \in [Conns -> ConnRecords], guest.conn \in Conns, NEW t \in Seq(Wire),
         conns[guest.conn].down # <<>>, Replies(t)
  PROVE  /\ Moved(guest.conn, IF conns[guest.conn].h THEN conns[guest.conn].up \o t
                              ELSE conns[guest.conn].up, Tail(conns[guest.conn].down))
         /\ conns'[guest.conn].agreed = conns[guest.conn].agreed
<1> PICK c \in Conns : c = guest.conn
  OBVIOUS
<1> DEFINE u == IF conns[c].h THEN conns[c].up \o t ELSE conns[c].up
<1>1. conns' = [conns EXCEPT ![c].up = u, ![c].down = Tail(conns[c].down)]
  BY DEF Replies, ConnRecords
<1>2. u \in Seq(Wire) /\ Tail(conns[c].down) \in Seq(Wire)
  BY TailIs, ConnIs, ConcatIs
<1>3. Moved(c, u, Tail(conns[c].down)) /\ conns'[c].agreed = conns[c].agreed
  BY <1>1, <1>2, MovedIs
<1> QED BY <1>3

LEMMA HostEndIs ==
  ASSUME NEW r \in ConnRecords, NEW b \in BOOLEAN, NEW u \in Seq(Wire), NEW d \in Seq(Wire)
  PROVE  /\ [r EXCEPT !.h = b, !.up = u] \in ConnRecords
         /\ [r EXCEPT !.h = b, !.up = u].h <=> b
         /\ [r EXCEPT !.h = b, !.up = u, !.down = d] \in ConnRecords
         /\ [r EXCEPT !.h = b, !.up = u, !.down = d].h <=> b
  BY DEF ConnRecords

LEMMA GuestEndIs ==
  ASSUME NEW r \in ConnRecords, NEW d \in Seq(Wire), NEW g \in {"open", "closed", "lost"}
  PROVE  LET s == [r EXCEPT !.g = g, !.down = d]
         IN s \in ConnRecords /\ s.up = r.up /\ s.down = d /\ s.agreed = r.agreed /\ (s.h <=> r.h)
  BY DEF ConnRecords

LEMMA HostLetsGo ==
  ASSUME NEW r \in ConnRecords
  PROVE  LET s == [r EXCEPT !.h = FALSE, !.up = <<>>] IN s \in ConnRecords /\ ~s.h
<1>1. PICK e \in Seq(Wire) : e = <<>>
  BY FewAreWire
<1>2. PICK b \in BOOLEAN : b = FALSE
  OBVIOUS
<1>3. LET s == [r EXCEPT !.h = b, !.up = e] IN s \in ConnRecords /\ ~s.h
  BY <1>2, HostEndIs
<1> QED BY <1>1, <1>2, <1>3

LEMMA HostRefuses ==
  ASSUME NEW r \in ConnRecords, NEW d \in Seq(Wire)
  PROVE  LET s == [r EXCEPT !.h = FALSE, !.up = <<>>, !.down = d] IN s \in ConnRecords /\ ~s.h
<1>1. PICK e \in Seq(Wire) : e = <<>>
  BY FewAreWire
<1>2. PICK b \in BOOLEAN : b = FALSE
  OBVIOUS
<1>3. LET s == [r EXCEPT !.h = b, !.up = e, !.down = d] IN s \in ConnRecords /\ ~s.h
  BY <1>2, HostEndIs
<1> QED BY <1>1, <1>2, <1>3

LEMMA GuestLetsGo ==
  ASSUME NEW r \in ConnRecords, NEW g \in {"open", "closed", "lost"}
  PROVE  LET s == [r EXCEPT !.g = g, !.down = <<>>]
         IN /\ s \in ConnRecords /\ s.up = r.up /\ s.down = <<>> /\ s.agreed = r.agreed
            /\ s.h <=> r.h
<1>1. PICK e \in Seq(Wire) : e = <<>>
  BY FewAreWire
<1>2. LET s == [r EXCEPT !.g = g, !.down = e]
      IN s \in ConnRecords /\ s.up = r.up /\ s.down = e /\ s.agreed = r.agreed /\ (s.h <=> r.h)
  BY GuestEndIs
<1> QED BY <1>1, <1>2

LEMMA HostClosedIs ==
  ASSUME conns \in [Conns -> ConnRecords], NEW c \in Conns, conns' = HostClosed(c)
  PROVE  Closed(c)
<1>1. PICK r \in ConnRecords : ~r.h /\ conns' = [conns EXCEPT ![c] = r]
  <2>1. CASE conns[c].g = "open"
    <3>1. LET s == [conns[c] EXCEPT !.h = FALSE, !.up = <<>>] IN s \in ConnRecords /\ ~s.h
      BY HostLetsGo
    <3> QED BY <2>1, <3>1 DEF HostClosed
  <2>2. CASE conns[c].g # "open"
    BY <2>2, NoConnIs DEF HostClosed
  <2> QED BY <2>1, <2>2
<1> QED BY <1>1 DEF Closed

LEMMA RefusedIs ==
  ASSUME conns \in [Conns -> ConnRecords], NEW c \in Conns,
         conns' = [conns EXCEPT ![c] =
                     IF @.g = "open"
                     THEN [@ EXCEPT !.h = FALSE, !.up = <<>>,
                                    !.down = Append(conns[c].down, Frame("error"))]
                     ELSE NoConn]
  PROVE  Closed(c)
<1> PICK a \in ConnRecords : a = conns[c]
  OBVIOUS
<1>1. PICK r \in ConnRecords : ~r.h /\ conns' = [conns EXCEPT ![c] = r]
  <2>1. CASE a.g = "open"
    <3>1. Append(a.down, Frame("error")) \in Seq(Wire)
      BY FramesAreWire DEF FrameKinds, ConnRecords
    <3>2. LET s == [a EXCEPT !.h = FALSE, !.up = <<>>, !.down = Append(a.down, Frame("error"))]
          IN s \in ConnRecords /\ ~s.h
      BY <3>1, HostRefuses
    <3>3. conns' = [conns EXCEPT ![c] = [a EXCEPT !.h = FALSE, !.up = <<>>,
                                                   !.down = Append(a.down, Frame("error"))]]
      BY <2>1
    <3> QED BY <3>2, <3>3
  <2>2. CASE a.g # "open"
    BY <2>2, NoConnIs
  <2> QED BY <2>1, <2>2
<1> QED BY <1>1 DEF Closed

LEMMA GuestEndsIs ==
  ASSUME conns \in [Conns -> ConnRecords], NEW c \in Conns, NEW how \in {"closed", "lost"},
         conns' = GuestEnds(c, how)
  PROVE  Ended(c)
<1>0. conns[c] \in ConnRecords /\ conns[c].h \in BOOLEAN
  BY DEF ConnRecords
<1>1. CASE conns[c].h
  <2> DEFINE r == [conns[c] EXCEPT !.g = how, !.down = <<>>]
  <2>1. /\ r \in ConnRecords /\ r.up = conns[c].up /\ r.down = <<>> /\ r.agreed = conns[c].agreed
        /\ r.h <=> conns[c].h
    <3>1. how \in {"open", "closed", "lost"}
      OBVIOUS
    <3>2. \A a \in ConnRecords : LET s == [a EXCEPT !.g = how, !.down = <<>>]
                                 IN /\ s \in ConnRecords /\ s.up = a.up /\ s.down = <<>>
                                    /\ s.agreed = a.agreed /\ (s.h <=> a.h)
      BY <3>1, GuestLetsGo
    <3> QED BY <1>0, <3>2
  <2>2. conns' = [conns EXCEPT ![c] = r]
    BY <1>1 DEF GuestEnds
  <2> HIDE DEF r
  <2> QED BY <1>1, <2>1, <2>2 DEF Ended
<1>2. CASE ~conns[c].h
  <2>1. conns' = [conns EXCEPT ![c] = NoConn]
    BY <1>2 DEF GuestEnds
  <2> QED BY <1>2, <2>1, NoConnIs DEF Ended
<1> QED BY <1>1, <1>2

-----------------------------------------------------------------------------
(* The host's record, field by field. *)

HostIs(pc, conn, cand, pend, probe, parked, upd, reb, exit) ==
  /\ h' \in HostRecords
  /\ h'.pc = pc /\ h'.conn = conn /\ h'.cand = cand /\ h'.pend = pend
  /\ h'.probe <=> probe
  /\ h'.parked = parked /\ h'.upd = upd /\ h'.reb = reb /\ h'.exit = exit

LEMMA HostPc ==
  ASSUME h \in HostRecords,
         NEW xpc \in HostSteps,
         h' = [h EXCEPT !.pc = xpc]
  PROVE  HostIs(xpc, h.conn, h.cand, h.pend, h.probe, h.parked, h.upd, h.reb, h.exit)
  BY DEF HostIs, HostRecords

LEMMA HostConn ==
  ASSUME h \in HostRecords,
         NEW xpc \in HostSteps, NEW xconn \in Conns \cup {None},
         h' = [h EXCEPT !.pc = xpc, !.conn = xconn]
  PROVE  HostIs(xpc, xconn, h.cand, h.pend, h.probe, h.parked, h.upd, h.reb, h.exit)
  BY DEF HostIs, HostRecords

LEMMA HostCand ==
  ASSUME h \in HostRecords,
         NEW xpc \in HostSteps, NEW xcand \in Conns \cup {None},
         h' = [h EXCEPT !.pc = xpc, !.cand = xcand]
  PROVE  HostIs(xpc, h.conn, xcand, h.pend, h.probe, h.parked, h.upd, h.reb, h.exit)
  BY DEF HostIs, HostRecords

LEMMA HostExit ==
  ASSUME h \in HostRecords,
         NEW xpc \in HostSteps, NEW xexit \in {None, "replaced", "closed", "broken"},
         h' = [h EXCEPT !.pc = xpc, !.exit = xexit]
  PROVE  HostIs(xpc, h.conn, h.cand, h.pend, h.probe, h.parked, h.upd, h.reb, xexit)
  BY DEF HostIs, HostRecords

LEMMA HostFirst ==
  ASSUME h \in HostRecords,
         NEW xpc \in HostSteps, NEW xpend \in SUBSET Jobs,
         h' = [h EXCEPT !.pc = xpc, !.pend = xpend, !.probe = FALSE]
  PROVE  HostIs(xpc, h.conn, h.cand, xpend, FALSE, h.parked, h.upd, h.reb, h.exit)
  BY DEF HostIs, HostRecords

LEMMA HostPend ==
  ASSUME h \in HostRecords,
         NEW xpend \in SUBSET Jobs,
         h' = [h EXCEPT !.pend = xpend]
  PROVE  HostIs(h.pc, h.conn, h.cand, xpend, h.probe, h.parked, h.upd, h.reb, h.exit)
  BY DEF HostIs, HostRecords

LEMMA HostUpd ==
  ASSUME h \in HostRecords,
         NEW xpend \in SUBSET Jobs, NEW xupd \in Asks \cup {None},
         h' = [h EXCEPT !.pend = xpend, !.upd = xupd]
  PROVE  HostIs(h.pc, h.conn, h.cand, xpend, h.probe, h.parked, xupd, h.reb, h.exit)
  BY DEF HostIs, HostRecords

LEMMA HostReb ==
  ASSUME h \in HostRecords,
         NEW xpend \in SUBSET Jobs, NEW xreb \in Asks \cup {None},
         h' = [h EXCEPT !.pend = xpend, !.reb = xreb]
  PROVE  HostIs(h.pc, h.conn, h.cand, xpend, h.probe, h.parked, h.upd, xreb, h.exit)
  BY DEF HostIs, HostRecords

LEMMA HostToUpd ==
  ASSUME h \in HostRecords,
         NEW xparked \in Asks \cup {None}, NEW xpend \in SUBSET Jobs, NEW xupd \in Asks \cup {None},
         h' = [h EXCEPT !.probe = FALSE, !.parked = xparked, !.pend = xpend, !.upd = xupd]
  PROVE  HostIs(h.pc, h.conn, h.cand, xpend, FALSE, xparked, xupd, h.reb, h.exit)
  BY DEF HostIs, HostRecords

LEMMA HostToReb ==
  ASSUME h \in HostRecords,
         NEW xparked \in Asks \cup {None}, NEW xpend \in SUBSET Jobs, NEW xreb \in Asks \cup {None},
         h' = [h EXCEPT !.probe = FALSE, !.parked = xparked, !.pend = xpend, !.reb = xreb]
  PROVE  HostIs(h.pc, h.conn, h.cand, xpend, FALSE, xparked, h.upd, xreb, h.exit)
  BY DEF HostIs, HostRecords

LEMMA HostUnparks ==
  ASSUME h \in HostRecords,
         NEW xparked \in Asks \cup {None},
         h' = [h EXCEPT !.probe = FALSE, !.parked = xparked]
  PROVE  HostIs(h.pc, h.conn, h.cand, h.pend, FALSE, xparked, h.upd, h.reb, h.exit)
  BY DEF HostIs, HostRecords

LEMMA HostProbed ==
  ASSUME h \in HostRecords,
         h' = [h EXCEPT !.probe = FALSE]
  PROVE  HostIs(h.pc, h.conn, h.cand, h.pend, FALSE, h.parked, h.upd, h.reb, h.exit)
  BY DEF HostIs, HostRecords

LEMMA HostProbes ==
  ASSUME h \in HostRecords,
         NEW xparked \in Asks \cup {None},
         h' = [h EXCEPT !.probe = TRUE, !.parked = xparked]
  PROVE  HostIs(h.pc, h.conn, h.cand, h.pend, TRUE, xparked, h.upd, h.reb, h.exit)
  BY DEF HostIs, HostRecords

LEMMA HostAnew ==
  ASSUME NEW x \in HostSteps, h' = HostAt(x)
  PROVE  HostIs(x, None, None, {}, FALSE, None, None, None, None)
  BY DEF HostIs, HostRecords, HostAt

LEMMA HostReplaced ==
  ASSUME NEW c \in Conns \cup {None}, h' = [HostAt("online") EXCEPT !.conn = c]
  PROVE  HostIs("online", c, None, {}, FALSE, None, None, None, None)
  BY DEF HostIs, HostRecords, HostAt, HostSteps

-----------------------------------------------------------------------------
(* The guest's record, and what its handlers may come to. *)

GuestIs(pc, conn, job) ==
  /\ guest' \in GuestRecords
  /\ guest'.pc = pc /\ guest'.conn = conn /\ guest'.job = job
  /\ guest'.offer = guest.offer

LEMMA GuestPc ==
  ASSUME guest \in GuestRecords,
         NEW xpc \in GuestSteps,
         guest' = [guest EXCEPT !.pc = xpc]
  PROVE  GuestIs(xpc, guest.conn, guest.job)
  BY DEF GuestIs, GuestRecords

LEMMA GuestPcRun ==
  ASSUME guest \in GuestRecords,
         NEW xpc \in GuestSteps, NEW xrun \in Builds,
         guest' = [guest EXCEPT !.pc = xpc, !.run = xrun]
  PROVE  GuestIs(xpc, guest.conn, guest.job)
  BY DEF GuestIs, GuestRecords

LEMMA GuestPcBin ==
  ASSUME guest \in GuestRecords,
         NEW xpc \in GuestSteps, NEW xbin \in Builds \cup {"missing"},
         guest' = [guest EXCEPT !.pc = xpc, !.bin = xbin]
  PROVE  GuestIs(xpc, guest.conn, guest.job)
  BY DEF GuestIs, GuestRecords

LEMMA GuestPcBinRun ==
  ASSUME guest \in GuestRecords,
         NEW xpc \in GuestSteps, NEW xbin \in Builds \cup {"missing"}, NEW xrun \in Builds,
         guest' = [guest EXCEPT !.pc = xpc, !.bin = xbin, !.run = xrun]
  PROVE  GuestIs(xpc, guest.conn, guest.job)
  BY DEF GuestIs, GuestRecords

LEMMA GuestConn ==
  ASSUME guest \in GuestRecords,
         NEW xpc \in GuestSteps, NEW xconn \in Conns \cup {None},
         guest' = [guest EXCEPT !.pc = xpc, !.conn = xconn]
  PROVE  GuestIs(xpc, xconn, guest.job)
  BY DEF GuestIs, GuestRecords

LEMMA GuestLeft ==
  ASSUME guest \in GuestRecords,
         NEW xpc \in GuestSteps, NEW xconn \in Conns \cup {None},
         guest' = [guest EXCEPT !.pc = xpc, !.conn = xconn, !.hb = FALSE]
  PROVE  GuestIs(xpc, xconn, guest.job)
  BY DEF GuestIs, GuestRecords

LEMMA GuestBeats ==
  ASSUME guest \in GuestRecords,
         NEW xhb \in BOOLEAN,
         guest' = [guest EXCEPT !.hb = xhb]
  PROVE  GuestIs(guest.pc, guest.conn, guest.job)
  BY DEF GuestIs, GuestRecords

LEMMA GuestJob ==
  ASSUME guest \in GuestRecords,
         NEW xpc \in GuestSteps, NEW xjob \in Wire \cup {None},
         guest' = [guest EXCEPT !.pc = xpc, !.job = xjob]
  PROVE  GuestIs(xpc, guest.conn, xjob)
  BY DEF GuestIs, GuestRecords

LEMMA GuestJobDown ==
  ASSUME guest \in GuestRecords,
         NEW xpc \in GuestSteps, NEW xjob \in Wire \cup {None}, NEW xdown \in BOOLEAN,
         guest' = [guest EXCEPT !.pc = xpc, !.job = xjob, !.down = xdown]
  PROVE  GuestIs(xpc, guest.conn, xjob)
  BY DEF GuestIs, GuestRecords

LEMMA GuestDown ==
  ASSUME guest \in GuestRecords,
         NEW xpc \in GuestSteps, NEW xconn \in Conns \cup {None}, NEW xjob \in Wire \cup {None},
         guest' = [guest EXCEPT !.pc = xpc, !.conn = xconn, !.hb = FALSE, !.job = xjob, !.down = FALSE]
  PROVE  GuestIs(xpc, xconn, xjob)
  BY DEF GuestIs, GuestRecords

LEMMA GuestAgain ==
  ASSUME guest \in GuestRecords,
         NEW xpc \in GuestSteps, NEW xrun \in Builds, NEW xconn \in Conns \cup {None}, NEW xjob \in Wire \cup {None},
         guest' = [guest EXCEPT !.pc = xpc, !.run = xrun, !.conn = xconn, !.hb = FALSE, !.job = xjob]
  PROVE  GuestIs(xpc, xconn, xjob)
  BY DEF GuestIs, GuestRecords


LEMMA ResultsAre ==
  ASSUME disp \in Loaded, NEW j \in Jobs, NEW r \in Results(j)
  PROVE  /\ r[1] \in Outcomes \cup {"ok"} /\ r[2] \in Loaded
         /\ j \notin {"display_recipe", "update"} => r[2] = disp
<1>1. CASE j \in {"attach_gpu", "gpu_probe"}
  BY <1>1 DEF Results, Jobs
<1>2. CASE j \in {"gpu_recipe", "attach_display", "reboot"}
  BY <1>2 DEF Results, Jobs, Outcomes
<1>3. CASE j = "display_recipe"
  BY <1>3 DEF Results, Jobs
<1>4. CASE j = "update"
  BY <1>4 DEF Results, Jobs
<1> QED BY <1>1, <1>2, <1>3, <1>4 DEF Jobs

LEMMA CutShortIs ==
  ASSUME disp \in Loaded, NEW v \in CutShort
  PROVE  v \in Loaded
  BY DEF CutShort

-----------------------------------------------------------------------------
(* What each step of the host does. *)

HostMoves(pc, conn, cand) ==
  HostIs(pc, conn, cand, h.pend, h.probe, h.parked, h.upd, h.reb, h.exit)
HostExits(exit) ==
  HostIs("drain", h.conn, h.cand, h.pend, h.probe, h.parked, h.upd, h.reb, exit)

\* Requests J are sent after u is what is left to read.
Sends(c, u, J) ==
  \E d \in Seq(Wire) :
    /\ Moved(c, u, d)
    /\ \/ d = conns[c].down
       \/ \E t \in Seq(Wire) :
            d = conns[c].down \o t /\ Once(t, "job") /\ JobsIn(t, "job") = J

LEMMA ShapeGives ==
  ASSUME Shape
  PROVE  /\ conns \in [Conns -> ConnRecords] /\ h \in HostRecords /\ guest \in GuestRecords
         /\ h.pc \in HasConn => h.conn \in Conns
         /\ h.pc \in {"cand_hello", "cand_proof"} => h.cand \in Conns
         /\ guest.pc \in GuestHasConn => guest.conn \in Conns
         /\ h.pc \in {"hello", "proof", "cand_hello", "cand_proof"} => Opening \in Conns
         /\ None \notin Conns
  BY Constants DEF Shape, HostRecords, GuestRecords, HasConn, HasCand, InSession, Opening

LEMMA SendsIs ==
  ASSUME conns \in [Conns -> ConnRecords], NEW c \in Conns, NEW u, NEW t \in Seq(Wire),
         Once(t, "job"), Moved(c, u, Pushed(c, t))
  PROVE  Sends(c, u, JobsIn(t, "job"))
<1>1. Pushed(c, t) \in Seq(Wire)
  BY PushedIs
<1>2. Pushed(c, t) = conns[c].down \/ Pushed(c, t) = conns[c].down \o t
  BY DEF Pushed
<1> QED BY <1>1, <1>2 DEF Sends

\* Frames that carry no request, and one that does.
LEMMA SendsFrames ==
  ASSUME conns \in [Conns -> ConnRecords], NEW c \in Conns, NEW u
  PROVE  /\ Moved(c, u, conns[c].down) => \A J : Sends(c, u, J)
         /\ Moved(c, u, Pushed(c, <<>>)) => Sends(c, u, {})
         /\ \A k \in {"hb", "hb_ok"} :
              Moved(c, u, Pushed(c, <<Frame(k)>>)) => Sends(c, u, {})
         /\ Moved(c, u, Pushed(c, <<Frame("hello_ok"), Frame("challenge")>>)) => Sends(c, u, {})
         /\ \A j \in Jobs : Moved(c, u, Pushed(c, <<JobFrame(j)>>)) => Sends(c, u, {j})
<1>0. conns[c].down \in Seq(Wire)
  BY ConnIs
<1>1. Moved(c, u, conns[c].down) => \A J : Sends(c, u, J)
  BY <1>0 DEF Sends
<1>2. Moved(c, u, Pushed(c, <<>>)) => Sends(c, u, {})
  <2>1. <<>> \in Seq(Wire) /\ Once(<<>>, "job") /\ JobsIn(<<>>, "job") = {}
    BY FewAreWire, JobsOfFew
  <2> QED BY <2>1, SendsIs
<1>3. ASSUME NEW k \in {"hb", "hb_ok"}, Moved(c, u, Pushed(c, <<Frame(k)>>))
      PROVE  Sends(c, u, {})
  <2>1. Frame(k) \in Wire /\ Frame(k).k # "job"
    BY FramesAreWire DEF FrameKinds
  <2>2. <<Frame(k)>> \in Seq(Wire) /\ Once(<<Frame(k)>>, "job") /\ JobsIn(<<Frame(k)>>, "job") = {}
    BY <2>1, FewAreWire, JobsOfFew
  <2> QED BY <1>3, <2>2, SendsIs
<1>4. ASSUME Moved(c, u, Pushed(c, <<Frame("hello_ok"), Frame("challenge")>>))
      PROVE  Sends(c, u, {})
  <2> DEFINE t == <<Frame("hello_ok"), Frame("challenge")>>
  <2>1. /\ Frame("hello_ok") \in Wire /\ Frame("hello_ok").k # "job"
        /\ Frame("challenge") \in Wire /\ Frame("challenge").k # "job"
    BY FramesAreWire DEF FrameKinds
  <2>2. t \in Seq(Wire) /\ Once(t, "job") /\ JobsIn(t, "job") = {}
    BY <2>1, FewAreWire, JobsOfFew
  <2> QED BY <1>4, <2>2, SendsIs
<1>5. ASSUME NEW j \in Jobs, Moved(c, u, Pushed(c, <<JobFrame(j)>>))
      PROVE  Sends(c, u, {j})
  <2>1. JobFrame(j) \in Wire /\ JobFrame(j).k = "job" /\ JobFrame(j).job = j
    BY FramesAreWire
  <2>2. <<JobFrame(j)>> \in Seq(Wire) /\ Once(<<JobFrame(j)>>, "job")
        /\ JobsIn(<<JobFrame(j)>>, "job") = {j}
    BY <2>1, FewAreWire, JobsOfFew
  <2> QED BY <1>5, <2>2, SendsIs
<1> QED BY <1>1, <1>2, <1>3, <1>4, <1>5

LEMMA AcceptIs ==
  ASSUME Shape, Accept
  PROVE  /\ h.pc = "listen" /\ backlog # <<>> /\ Head(backlog) \in Conns
         /\ HostMoves("hello", Head(backlog), h.cand) /\ backlog' = Tail(backlog)
         /\ UNCHANGED <<conns, online, running, queue, asks, facts, guest, disp, faults, late>>
<1>1. Head(backlog) \in Conns /\ h \in HostRecords
  BY DEF Shape, Accept
<1>2. HostMoves("hello", Head(backlog), h.cand)
  BY <1>1, HostConn DEF Accept, HostMoves, HostSteps
<1> QED BY <1>1, <1>2 DEF Accept

LEMMA ReplacementReadyIs ==
  ASSUME Shape, ReplacementReady
  PROVE  /\ h.pc = "serve" /\ backlog # <<>> /\ Head(backlog) \in Conns
         /\ HostMoves("cand_hello", h.conn, Head(backlog)) /\ backlog' = Tail(backlog)
         /\ UNCHANGED <<conns, online, running, queue, asks, facts, guest, disp, faults, late>>
<1>1. Head(backlog) \in Conns /\ h \in HostRecords
  BY DEF Shape, ReplacementReady
<1>2. HostMoves("cand_hello", h.conn, Head(backlog))
  BY <1>1, HostCand DEF ReplacementReady, HostMoves, HostSteps
<1> QED BY <1>1, <1>2 DEF ReplacementReady, IdleTurn, Serving

\* A connection that does not open, whoever says so.
FailsToOpen ==
  /\ h.pc \in {"hello", "proof", "cand_hello", "cand_proof"}
  /\ Closed(Opening)
  /\ IF InCandidate THEN HostMoves("serve", h.conn, None) ELSE HostMoves("backoff", None, h.cand)
  /\ UNCHANGED hostOnly

LEMMA HostFailsIs ==
  ASSUME Shape, h.pc \in {"hello", "proof", "cand_hello", "cand_proof"},
         h' = IF InCandidate THEN [h EXCEPT !.pc = "serve", !.cand = None]
              ELSE [h EXCEPT !.pc = "backoff", !.conn = None]
  PROVE  IF InCandidate THEN HostMoves("serve", h.conn, None) ELSE HostMoves("backoff", None, h.cand)
<1>1. CASE InCandidate
  BY <1>1, HostCand DEF Shape, HostMoves, HostSteps
<1>2. CASE ~InCandidate
  BY <1>2, HostConn DEF Shape, HostMoves, HostSteps
<1> QED BY <1>1, <1>2

LEMMA OpeningFailsIs ==
  ASSUME Shape, OpeningFails
  PROVE  FailsToOpen /\ faults' \in 0..MaxFaults
<1>1. h.pc \in {"hello", "proof", "cand_hello", "cand_proof"} /\ OpeningFailed /\ UNCHANGED hostOnly
  BY DEF OpeningFails
<1>2. Closed(Opening)
  BY <1>1, ShapeGives, HostClosedIs DEF OpeningFailed
<1>3. faults' \in 0..MaxFaults
  BY Constants DEF OpeningFails, TimesOut, Fault, Shape
<1> QED BY <1>1, <1>2, <1>3, HostFailsIs DEF FailsToOpen, OpeningFailed

LEMMA GreetIs ==
  ASSUME Shape, Greet
  PROVE  /\ UNCHANGED <<hostOnly, faults>>
         /\ \/ FailsToOpen
            \/ /\ h.pc \in {"hello", "cand_hello"} /\ conns[Opening].up # <<>>
               /\ Sends(Opening, Tail(conns[Opening].up), {})
               /\ HostMoves(IF InCandidate THEN "cand_proof" ELSE "proof", h.conn, h.cand)
<1>0. /\ h.pc \in {"hello", "cand_hello"} /\ conns[Opening].up # <<>> /\ Opening \in Conns
      /\ conns \in [Conns -> ConnRecords] /\ h \in HostRecords
  BY ShapeGives DEF Greet, Reads
<1> DEFINE hello   == Head(conns[Opening].up)
           version == NegotiateVersion(CurrentVersion, VersionOf(hello.out))
           agreed  == [minor |-> version.minor,
                       caps |-> AgreedCapabilities(HostCapabilities, CapabilitiesOf(hello.out))]
           t == <<Frame("hello_ok"), Frame("challenge")>>
<1>1. CASE version # None
  <2>1. /\ conns' = [Exchanged(Opening, t) EXCEPT ![Opening].agreed = agreed]
        /\ h' = [h EXCEPT !.pc = IF InCandidate THEN "cand_proof" ELSE "proof"]
    BY <1>1 DEF Greet
  <2>2. version.minor \in {7, 9}
    BY <1>1 DEF NegotiateVersion, CurrentVersion, VersionOf
  <2>3. agreed \in Sessions
    BY <2>2 DEF Sessions, AgreedCapabilities
  <2>4. t \in Seq(Wire)
    BY FewAreWire, FramesAreWire DEF FrameKinds
  <2> HIDE DEF agreed, t, version
  <2>5. Moved(Opening, Tail(conns[Opening].up), Pushed(Opening, t))
    BY <1>0, <2>1, <2>3, <2>4, AgreedIs
  <2>6. Sends(Opening, Tail(conns[Opening].up), {})
    BY <1>0, <2>5, SendsFrames DEF t
  <2>7. HostMoves(IF InCandidate THEN "cand_proof" ELSE "proof", h.conn, h.cand)
    BY <1>0, <2>1, HostPc DEF HostMoves, HostSteps
  <2> QED BY <1>0, <2>6, <2>7 DEF Greet
<1>2. CASE version = None
  <2>1. /\ conns' = [conns EXCEPT ![Opening] =
                       IF @.g = "open"
                       THEN [@ EXCEPT !.h = FALSE, !.up = <<>>,
                                      !.down = Append(conns[Opening].down, Frame("error"))]
                       ELSE NoConn]
        /\ h' = IF InCandidate THEN [h EXCEPT !.pc = "serve", !.cand = None]
                ELSE [h EXCEPT !.pc = "backoff", !.conn = None]
        /\ UNCHANGED <<hostOnly, faults>>
    BY <1>2 DEF Greet
  <2>2. Closed(Opening)
    BY <1>0, <2>1, RefusedIs
  <2> QED BY <1>0, <2>1, <2>2, HostFailsIs DEF FailsToOpen
<1> QED BY <1>1, <1>2

LEMMA AuthenticateIs ==
  ASSUME Shape, Authenticate
  PROVE  /\ UNCHANGED <<hostOnly, faults>>
         /\ \/ FailsToOpen
            \/ /\ h.pc \in {"proof", "cand_proof"} /\ conns[Opening].up # <<>>
               /\ Sends(Opening, Tail(conns[Opening].up), {})
               /\ \A c \in Conns : conns'[c].agreed = conns[c].agreed
               /\ IF InCandidate THEN HostExits("replaced") ELSE HostMoves("online", h.conn, h.cand)
<1>0. /\ h.pc \in {"proof", "cand_proof"} /\ conns[Opening].up # <<>> /\ Opening \in Conns
      /\ conns \in [Conns -> ConnRecords] /\ h \in HostRecords
  BY ShapeGives DEF Authenticate, Reads
<1>1. CASE Head(conns[Opening].up).out = "ok"
  <2>1. /\ conns' = Received(Opening)
        /\ h' = IF InCandidate THEN [h EXCEPT !.pc = "drain", !.exit = "replaced"]
                ELSE [h EXCEPT !.pc = "online"]
    BY <1>1 DEF Authenticate
  <2>2. Moved(Opening, Tail(conns[Opening].up), conns[Opening].down)
        /\ conns'[Opening].agreed = conns[Opening].agreed
    BY <1>0, <2>1, ReceivedIs
  <2>3. Sends(Opening, Tail(conns[Opening].up), {})
    BY <1>0, <2>2, SendsFrames
  <2>4. \A c \in Conns : conns'[c].agreed = conns[c].agreed
    BY <2>2 DEF Moved
  <2>5. CASE InCandidate
    <3>1. HostExits("replaced")
      BY <1>0, <2>1, <2>5, HostExit DEF HostExits, HostSteps
    <3> QED BY <1>0, <2>3, <2>4, <2>5, <3>1 DEF Authenticate
  <2>6. CASE ~InCandidate
    <3>1. HostMoves("online", h.conn, h.cand)
      BY <1>0, <2>1, <2>6, HostPc DEF HostMoves, HostSteps
    <3> QED BY <1>0, <2>3, <2>4, <2>6, <3>1 DEF Authenticate
  <2> QED BY <2>5, <2>6
<1>2. CASE Head(conns[Opening].up).out # "ok"
  <2>1. OpeningFailed /\ UNCHANGED <<hostOnly, faults>>
    BY <1>2 DEF Authenticate
  <2>2. Closed(Opening)
    BY <1>0, <2>1, HostClosedIs DEF OpeningFailed
  <2> QED BY <1>0, <2>1, <2>2, HostFailsIs DEF FailsToOpen, OpeningFailed
<1> QED BY <1>1, <1>2

LEMMA AttachesAre ==
  ASSUME NEW s
  PROVE  /\ Attaches(s) \subseteq {"attach_gpu", "attach_display"}
         /\ "display" \in s.caps /\ "display" \in guest.offer => "attach_display" \in Attaches(s)
  BY DEF Attaches, CapabilityFor

LEMMA GoOnlineIs ==
  ASSUME Shape, GoOnline
  PROVE  LET first == Attaches(conns[h.conn].agreed)
         IN /\ h.pc = "online" /\ online' = TRUE
            /\ Sends(h.conn, conns[h.conn].up, first)
            /\ conns'[h.conn].agreed = conns[h.conn].agreed
            /\ HostIs("serve", h.conn, h.cand, first, FALSE, h.parked, h.upd, h.reb, h.exit)
            /\ UNCHANGED <<backlog, running, queue, asks, facts, guest, disp, faults, late>>
<1> DEFINE first == Attaches(conns[h.conn].agreed)
           gpu == IF "attach_gpu" \in first THEN <<JobFrame("attach_gpu")>> ELSE <<>>
           display == IF "attach_display" \in first
                      THEN <<JobFrame("attach_display")>> ELSE <<>>
<1>0. h.pc = "online" /\ h.conn \in Conns /\ conns \in [Conns -> ConnRecords] /\ h \in HostRecords
  BY ShapeGives DEF GoOnline, HasConn
<1>1. conns' = Sent(h.conn, gpu \o display)
      /\ h' = [h EXCEPT !.pc = "serve", !.pend = first, !.probe = FALSE]
  BY DEF GoOnline
<1>2. first \subseteq {"attach_gpu", "attach_display"}
  BY AttachesAre
<1> HIDE DEF first
<1>3. /\ gpu \in Seq(Wire) /\ Once(gpu, "job")
      /\ JobsIn(gpu, "job") = first \cap {"attach_gpu"}
  <2>1. JobFrame("attach_gpu") \in Wire /\ JobFrame("attach_gpu").k = "job"
        /\ JobFrame("attach_gpu").job = "attach_gpu"
    BY FramesAreWire DEF Jobs
  <2>2. CASE "attach_gpu" \in first
    BY <2>1, <2>2, FewAreWire, JobsOfFew
  <2>3. CASE "attach_gpu" \notin first
    BY <2>3, FewAreWire, JobsOfFew
  <2> QED BY <2>2, <2>3
<1>4. /\ display \in Seq(Wire) /\ Once(display, "job")
      /\ JobsIn(display, "job") = first \cap {"attach_display"}
  <2>1. JobFrame("attach_display") \in Wire /\ JobFrame("attach_display").k = "job"
        /\ JobFrame("attach_display").job = "attach_display"
    BY FramesAreWire DEF Jobs
  <2>2. CASE "attach_display" \in first
    BY <2>1, <2>2, FewAreWire, JobsOfFew
  <2>3. CASE "attach_display" \notin first
    BY <2>3, FewAreWire, JobsOfFew
  <2> QED BY <2>2, <2>3
<1> HIDE DEF gpu, display
<1>5. gpu \o display \in Seq(Wire) /\ Once(gpu \o display, "job")
      /\ JobsIn(gpu \o display, "job") = first
  <2>1. JobsIn(gpu, "job") \cap JobsIn(display, "job") = {}
    BY <1>3, <1>4
  <2>2. JobsIn(gpu \o display, "job") = JobsIn(gpu, "job") \cup JobsIn(display, "job")
        /\ Once(gpu \o display, "job")
    BY <1>3, <1>4, <2>1, JobsOfConcat
  <2>3. gpu \o display \in Seq(Wire)
    BY <1>3, <1>4, ConcatIs
  <2> QED BY <1>2, <1>3, <1>4, <2>2, <2>3
<1>6. Sends(h.conn, conns[h.conn].up, first) /\ conns'[h.conn].agreed = conns[h.conn].agreed
  <2>1. Moved(h.conn, conns[h.conn].up, Pushed(h.conn, gpu \o display))
        /\ conns'[h.conn].agreed = conns[h.conn].agreed
    BY <1>0, <1>1, <1>5, SentIs
  <2> QED BY <1>0, <1>5, <2>1, SendsIs
<1>7. HostIs("serve", h.conn, h.cand, first, FALSE, h.parked, h.upd, h.reb, h.exit)
  BY <1>0, <1>1, <1>2, HostFirst DEF HostSteps, Jobs
<1> QED BY <1>0, <1>6, <1>7 DEF GoOnline, first

LEMMA SessionEndsIs ==
  ASSUME Shape, SessionEnds
  PROVE  /\ h.pc = "drain" /\ Closed(h.conn) /\ online' = FALSE
         /\ queue' = [update |-> <<>>, reboot |-> <<>>] /\ asks' = Drained.asks
         /\ \/ h.exit = "replaced" /\ HostIs("online", h.cand, None, {}, FALSE, None, None, None, None)
            \/ \E x \in {"ended", "backoff"} :
                 h.exit # "replaced" /\ HostIs(x, None, None, {}, FALSE, None, None, None, None)
         /\ UNCHANGED <<backlog, running, facts, guest, disp, faults, late>>
<1>0. h.pc = "drain" /\ h.conn \in Conns /\ conns \in [Conns -> ConnRecords] /\ h \in HostRecords
      /\ h.cand \in Conns \cup {None}
  BY ShapeGives DEF SessionEnds, HasConn, InSession, HostRecords
<1>1. Closed(h.conn)
  BY <1>0, HostClosedIs DEF SessionEnds
<1>2. CASE h.exit = "replaced"
  <2>1. h' = [HostAt("online") EXCEPT !.conn = h.cand]
    BY <1>2 DEF SessionEnds
  <2>2. HostIs("online", h.cand, None, {}, FALSE, None, None, None, None)
    BY <1>0, <2>1, HostReplaced
  <2> QED BY <1>0, <1>1, <1>2, <2>2 DEF SessionEnds, Drained
<1>3. CASE h.exit # "replaced"
  <2>1. PICK x \in {"ended", "backoff"} : h' = HostAt(x)
    BY <1>3 DEF SessionEnds
  <2>2. HostIs(x, None, None, {}, FALSE, None, None, None, None)
    BY <2>1, HostAnew DEF HostSteps
  <2> QED BY <1>0, <1>1, <1>3, <2>2 DEF SessionEnds, Drained
<1> QED BY <1>2, <1>3

LEMMA ListensOrEnds ==
  ASSUME Shape, OfferAgain \/ ThreadEnds
  PROVE  /\ h.pc \in {"listen", "backoff"} /\ UNCHANGED <<conns, hostOnly>>
         /\ faults' \in 0..MaxFaults
         /\ \E x \in {"listen", "ended"} : HostIs(x, None, None, {}, FALSE, None, None, None, None)
<1>1. PICK x \in {"listen", "ended"} : h' = HostAt(x)
  BY DEF OfferAgain, ThreadEnds
<1>2. HostIs(x, None, None, {}, FALSE, None, None, None, None)
  BY <1>1, HostAnew DEF HostSteps
<1>3. faults' \in 0..MaxFaults
  BY Constants DEF OfferAgain, ThreadEnds, Fault, Shape
<1> QED BY <1>2, <1>3 DEF OfferAgain, ThreadEnds

LEMMA ListenerClosesIs ==
  ASSUME Shape, ListenerCloses
  PROVE  /\ h.pc = "ended" /\ backlog # <<>> /\ Head(backlog) \in Conns /\ Closed(Head(backlog))
         /\ backlog' = Tail(backlog)
         /\ UNCHANGED <<h, online, running, queue, asks, facts, guest, disp, faults, late>>
<1>1. Head(backlog) \in Conns
  BY DEF Shape, ListenerCloses
<1>2. Closed(Head(backlog))
  BY <1>1, ShapeGives, HostClosedIs DEF ListenerCloses
<1> QED BY <1>1, <1>2 DEF ListenerCloses

\* The session stops where it is.
LEMMA SessionStopsIs ==
  ASSUME Shape, SessionBreaks \/ Unresponsive
  PROVE  /\ h.pc = "serve" /\ UNCHANGED <<conns, hostOnly>> /\ faults' \in 0..MaxFaults
         /\ \E x \in {"closed", "broken"} : HostExits(x)
<1>1. PICK x \in {"closed", "broken"} : h' = [h EXCEPT !.pc = "drain", !.exit = x]
  BY DEF SessionBreaks, Unresponsive
<1>2. HostExits(x)
  BY <1>1, HostExit DEF Shape, HostExits, HostSteps
<1>3. faults' \in 0..MaxFaults
  BY Constants DEF SessionBreaks, Unresponsive, TimesOut, Fault, Shape
<1>4. h.pc = "serve" /\ UNCHANGED <<conns, hostOnly>>
  BY DEF SessionBreaks, Unresponsive, IdleTurn, Serving
<1> QED BY <1>2, <1>3, <1>4

\* The session reads a frame, sends requests J after it, and has `pend` in flight.
Takes(J) ==
  /\ h.pc = "serve" /\ conns[h.conn].up # <<>>
  /\ Sends(h.conn, Tail(conns[h.conn].up), J)
  /\ conns'[h.conn].agreed = conns[h.conn].agreed
  /\ UNCHANGED sessionOnly

\* The answer to job j is in and the requests J follow it.
Follows(j, J) ==
  /\ HeadUp.k = "done" /\ HeadUp.job = j /\ Takes(J)
  /\ HostIs("serve", h.conn, h.cand, (h.pend \ {j}) \cup J, h.probe, h.parked, h.upd, h.reb, h.exit)

LEMMA ServingGives ==
  ASSUME Shape, Serving
  PROVE  h.pc = "serve" /\ h.conn \in Conns /\ conns \in [Conns -> ConnRecords] /\ h \in HostRecords
  BY ShapeGives DEF Serving, HasConn, InSession

LEMMA ExchangeTakes ==
  ASSUME Shape, Serving, Reads(h.conn), UNCHANGED sessionOnly
  PROVE  /\ conns' = Exchanged(h.conn, <<>>) => Takes({})
         /\ conns' = Received(h.conn) => \A J : Takes(J)
         /\ conns' = Exchanged(h.conn, <<Frame("hb_ok")>>) => Takes({})
         /\ \A j \in Jobs : conns' = Exchanged(h.conn, <<JobFrame(j)>>) => Takes({j})
<1>0. /\ h.pc = "serve" /\ h.conn \in Conns /\ conns \in [Conns -> ConnRecords]
      /\ conns[h.conn].up # <<>>
  BY ServingGives DEF Reads
<1> DEFINE u == Tail(conns[h.conn].up)
<1>1. ASSUME conns' = Exchanged(h.conn, <<>>) PROVE Takes({})
  <2>1. Moved(h.conn, u, Pushed(h.conn, <<>>)) /\ conns'[h.conn].agreed = conns[h.conn].agreed
    BY <1>0, <1>1, FewAreWire, ExchangedIs
  <2> QED BY <1>0, <2>1, SendsFrames DEF Takes
<1>2. ASSUME conns' = Received(h.conn), NEW J PROVE Takes(J)
  <2>1. Moved(h.conn, u, conns[h.conn].down) /\ conns'[h.conn].agreed = conns[h.conn].agreed
    BY <1>0, <1>2, ReceivedIs
  <2> QED BY <1>0, <2>1, SendsFrames DEF Takes
<1>3. ASSUME conns' = Exchanged(h.conn, <<Frame("hb_ok")>>) PROVE Takes({})
  <2>0. <<Frame("hb_ok")>> \in Seq(Wire)
    BY FewAreWire, FramesAreWire DEF FrameKinds
  <2>1. Moved(h.conn, u, Pushed(h.conn, <<Frame("hb_ok")>>))
        /\ conns'[h.conn].agreed = conns[h.conn].agreed
    BY <1>0, <1>3, <2>0, ExchangedIs
  <2> QED BY <1>0, <2>1, SendsFrames DEF Takes
<1>4. ASSUME NEW j \in Jobs, conns' = Exchanged(h.conn, <<JobFrame(j)>>) PROVE Takes({j})
  <2>0. <<JobFrame(j)>> \in Seq(Wire)
    BY FewAreWire, FramesAreWire
  <2>1. Moved(h.conn, u, Pushed(h.conn, <<JobFrame(j)>>))
        /\ conns'[h.conn].agreed = conns[h.conn].agreed
    BY <1>0, <1>4, <2>0, ExchangedIs
  <2> QED BY <1>0, <2>1, SendsFrames DEF Takes
<1> QED BY <1>1, <1>2, <1>3, <1>4

LEMMA ProceedIs ==
  ASSUME Shape, UNCHANGED sessionOnly, NEW j \in Jobs, Gets(j), NEW J \in SUBSET Jobs,
         Proceed(j, J), J = {} \/ \E n \in Jobs : J = {n}
  PROVE  Follows(j, J)
<1>0. Serving /\ Reads(h.conn) /\ HeadUp.k = "done" /\ HeadUp.job = j
  BY DEF Gets
<1>1. Takes(J)
  <2>1. CASE J = {}
    BY <1>0, <2>1, ExchangeTakes DEF Proceed
  <2>2. ASSUME NEW n \in Jobs, J = {n} PROVE Takes(J)
    <3>1. (CHOOSE k \in J : TRUE) = n /\ J # {}
      BY <2>2
    <3>2. conns' = Exchanged(h.conn, <<JobFrame(n)>>)
      BY <3>1 DEF Proceed
    <3> QED BY <1>0, <2>2, <3>2, ExchangeTakes
  <2> QED BY <2>1, <2>2
<1>2. HostIs(h.pc, h.conn, h.cand, (h.pend \ {j}) \cup J, h.probe, h.parked, h.upd, h.reb, h.exit)
  <2>1. (h.pend \ {j}) \cup J \in SUBSET Jobs /\ h \in HostRecords
    BY DEF Shape, HostRecords
  <2>2. h' = [h EXCEPT !.pend = (h.pend \ {j}) \cup J]
    BY DEF Proceed
  <2> QED BY <2>1, <2>2, HostPend
<1> QED BY <1>0, <1>1, <1>2 DEF Follows, Serving

\* The GPU's requests, which touch nothing of the display.
LEMMA GpuReadIs ==
  ASSUME Shape, GpuAttached \/ GpuRecipeApplied \/ GpuProbed
  PROVE  /\ UNCHANGED <<asks, facts>>
         /\ \/ Follows("attach_gpu", {"gpu_recipe"}) \/ Follows("gpu_recipe", {"gpu_probe"})
            \/ Follows("gpu_recipe", {}) \/ Follows("gpu_probe", {})
<1>1. CASE GpuAttached
  BY <1>1, ProceedIs DEF GpuAttached, Jobs
<1>2. CASE GpuRecipeApplied /\ RecipeFinished(HeadUp)
  BY <1>2, ProceedIs DEF GpuRecipeApplied, Jobs
<1>3. CASE GpuRecipeApplied /\ ~RecipeFinished(HeadUp)
  BY <1>3, ProceedIs DEF GpuRecipeApplied, Jobs
<1>4. CASE GpuProbed
  BY <1>4, ProceedIs DEF GpuProbed, Jobs
<1> QED BY <1>1, <1>2, <1>3, <1>4

LEMMA DisplayReadIs ==
  ASSUME Shape, DisplayAttached \/ DisplayRecipeApplied
  PROVE  /\ UNCHANGED asks
         /\ \/ Follows("attach_display", {"display_recipe"}) /\ UNCHANGED facts
            \/ Follows("attach_display", {}) /\ facts' = None
            \/ Follows("display_recipe", {}) /\ facts' = HeadUp.p
<1>1. CASE DisplayAttached /\ Mounted(HeadUp)
  BY <1>1, ProceedIs DEF DisplayAttached, Jobs
<1>2. CASE DisplayAttached /\ ~Mounted(HeadUp)
  BY <1>2, ProceedIs DEF DisplayAttached, Jobs
<1>3. CASE DisplayRecipeApplied
  BY <1>3, ProceedIs DEF DisplayRecipeApplied, RecipeRecorded, Jobs
<1> QED BY <1>1, <1>2, <1>3

LEMMA AnswerHeartbeatIs ==
  ASSUME Shape, AnswerHeartbeat
  PROVE  Takes({}) /\ UNCHANGED <<h, asks, facts>>
  BY ExchangeTakes DEF AnswerHeartbeat

LEMMA UpdateAnsweredIs ==
  ASSUME Shape, UpdateAnswered
  PROVE  /\ HeadUp.k = "done" /\ HeadUp.job = "update" /\ Takes({})
         /\ HostIs("serve", h.conn, h.cand, h.pend \ {"update"}, h.probe, h.parked, None, h.reb, h.exit)
         /\ facts' = HeadUp.p /\ asks' = Told(h.upd, HeadUp.p)
<1>1. Takes({})
  BY ExchangeTakes DEF UpdateAnswered, Gets
<1>2. HostIs(h.pc, h.conn, h.cand, h.pend \ {"update"}, h.probe, h.parked, None, h.reb, h.exit)
  BY HostUpd DEF UpdateAnswered, Shape, HostRecords
<1> QED BY <1>1, <1>2 DEF UpdateAnswered, Gets, UpdateRecorded, Serving

LEMMA RebootAnsweredIs ==
  ASSUME Shape, RebootAnswered
  PROVE  /\ HeadUp.k = "done" /\ HeadUp.job = "reboot" /\ Takes({})
         /\ HostIs("serve", h.conn, h.cand, h.pend \ {"reboot"}, h.probe, h.parked, h.upd, None, h.exit)
         /\ UNCHANGED facts /\ asks' = Told(h.reb, None)
<1>1. Takes({})
  BY ExchangeTakes DEF RebootAnswered, Gets
<1>2. HostIs(h.pc, h.conn, h.cand, h.pend \ {"reboot"}, h.probe, h.parked, h.upd, None, h.exit)
  BY HostReb DEF RebootAnswered, Shape, HostRecords
<1> QED BY <1>1, <1>2 DEF RebootAnswered, Gets, Serving

LEMMA ProbeAnsweredIs ==
  ASSUME Shape, ProbeAnswered
  PROVE  /\ h.probe /\ UNCHANGED facts /\ h.pc = "serve"
         /\ \/ /\ h.parked = None /\ UNCHANGED asks /\ Takes({})
               /\ HostIs("serve", h.conn, h.cand, h.pend, FALSE, h.parked, h.upd, h.reb, h.exit)
            \/ /\ h.parked # None /\ AskKind[h.parked] = "update" /\ UNCHANGED asks /\ Takes({"update"})
               /\ HostIs("serve", h.conn, h.cand, h.pend \cup {"update"}, FALSE, None, h.parked,
                         h.reb, h.exit)
            \/ /\ h.parked # None /\ AskKind[h.parked] # "update" /\ asks' = Told(h.parked, None)
               /\ Takes({})
               /\ HostIs("serve", h.conn, h.cand, h.pend, FALSE, None, h.upd, h.reb, h.exit)
            \/ /\ h.parked # None /\ AskKind[h.parked] # "update" /\ UNCHANGED asks /\ Takes({"reboot"})
               /\ HostIs("serve", h.conn, h.cand, h.pend \cup {"reboot"}, FALSE, None, h.upd,
                         h.parked, h.exit)
<1>0. /\ h.probe /\ UNCHANGED facts /\ h.pc = "serve" /\ Serving /\ Reads(h.conn)
      /\ UNCHANGED sessionOnly /\ h \in HostRecords /\ h.parked \in Asks \cup {None}
  BY DEF ProbeAnswered, Serving, Shape, HostRecords
<1>1. CASE h.parked = None
  <2>1. HostIs(h.pc, h.conn, h.cand, h.pend, FALSE, h.parked, h.upd, h.reb, h.exit)
    BY <1>0, <1>1, HostProbed DEF ProbeAnswered
  <2>2. Takes({}) /\ UNCHANGED asks
    BY <1>0, <1>1, ExchangeTakes DEF ProbeAnswered
  <2> QED BY <1>0, <1>1, <2>1, <2>2
<1>2. CASE h.parked # None /\ AskKind[h.parked] = "update"
  <2>0. StartUpdate(h.parked)
    BY <1>2 DEF ProbeAnswered
  <2>1. HostIs(h.pc, h.conn, h.cand, h.pend \cup {"update"}, FALSE, None, h.parked, h.reb, h.exit)
    <3>1. h' = [h EXCEPT !.probe = FALSE, !.parked = None, !.pend = h.pend \cup {"update"},
                         !.upd = h.parked]
      BY <2>0 DEF StartUpdate
    <3>2. h.pend \cup {"update"} \in SUBSET Jobs
      BY <1>0 DEF HostRecords, Jobs
    <3> QED BY <1>0, <3>1, <3>2, HostToUpd
  <2>2. Takes({"update"}) /\ UNCHANGED asks
    BY <1>0, <2>0, ExchangeTakes DEF StartUpdate, Jobs
  <2> QED BY <1>0, <1>2, <2>1, <2>2
<1>3. CASE h.parked # None /\ AskKind[h.parked] # "update"
  <2>0. StartReboot(h.parked)
    BY <1>3 DEF ProbeAnswered
  <2>1. CASE conns[h.conn].agreed.minor < RebootRequestRevision
    <3>1. HostIs(h.pc, h.conn, h.cand, h.pend, FALSE, None, h.upd, h.reb, h.exit)
      BY <1>0, <2>0, <2>1, HostUnparks DEF StartReboot
    <3>2. Takes({}) /\ asks' = Told(h.parked, None)
      BY <1>0, <2>0, <2>1, ExchangeTakes DEF StartReboot
    <3> QED BY <1>0, <1>3, <3>1, <3>2
  <2>2. CASE ~(conns[h.conn].agreed.minor < RebootRequestRevision)
    <3>1. HostIs(h.pc, h.conn, h.cand, h.pend \cup {"reboot"}, FALSE, None, h.upd, h.parked, h.exit)
      <4>1. h' = [h EXCEPT !.probe = FALSE, !.parked = None, !.pend = h.pend \cup {"reboot"},
                           !.reb = h.parked]
        BY <2>0, <2>2 DEF StartReboot
      <4>2. h.pend \cup {"reboot"} \in SUBSET Jobs
        BY <1>0 DEF HostRecords, Jobs
      <4> QED BY <1>0, <4>1, <4>2, HostToReb
    <3>2. Takes({"reboot"}) /\ UNCHANGED asks
      BY <1>0, <2>0, <2>2, ExchangeTakes DEF StartReboot, Jobs
    <3> QED BY <1>0, <1>3, <3>1, <3>2
  <2> QED BY <2>1, <2>2
<1> QED BY <1>1, <1>2, <1>3

\* A probe goes out, with the ask a parked behind it.
Probes(a) ==
  /\ Sends(h.conn, conns[h.conn].up, {}) /\ conns'[h.conn].agreed = conns[h.conn].agreed
  /\ HostIs("serve", h.conn, h.cand, h.pend, TRUE, a, h.upd, h.reb, h.exit)

LEMMA ProbesIs ==
  ASSUME Shape, Free, NEW a \in Asks \cup {None}, Probe(a)
  PROVE  Probes(a)
<1>0. h.pc = "serve" /\ h.conn \in Conns /\ conns \in [Conns -> ConnRecords] /\ h \in HostRecords
  BY ServingGives DEF Free, IdleTurn
<1>1. HostIs(h.pc, h.conn, h.cand, h.pend, TRUE, a, h.upd, h.reb, h.exit)
  BY <1>0, HostProbes DEF Probe
<1>2. <<Frame("hb")>> \in Seq(Wire)
  BY FewAreWire, FramesAreWire DEF FrameKinds
<1>3. Moved(h.conn, conns[h.conn].up, Pushed(h.conn, <<Frame("hb")>>))
      /\ conns'[h.conn].agreed = conns[h.conn].agreed
  BY <1>0, <1>2, SentIs DEF Probe
<1> QED BY <1>0, <1>1, <1>3, SendsFrames DEF Probes

LEMMA FreeGives ==
  ASSUME Shape, Free
  PROVE  h.pc = "serve" /\ ~h.probe /\ h.pend = {}
  BY DEF Free, IdleTurn, Serving, HasPendingWork

\* The head of the updates' queue is parked, or told that this guest has no
\* display to update.
LEMMA TakeUpdateIs ==
  ASSUME Shape, TakeUpdate
  PROVE  /\ h.pc = "serve" /\ ~h.probe /\ h.pend = {} /\ queue.update # <<>>
         /\ Head(queue.update) \in Asks
         /\ queue' \in [update : Seq(Asks), reboot : Seq(Asks)]
         /\ queue'.update = Tail(queue.update) /\ queue'.reboot = queue.reboot
         /\ \/ Probes(Head(queue.update)) /\ UNCHANGED asks
            \/ asks' = Told(Head(queue.update), None) /\ UNCHANGED <<h, conns>>
         /\ UNCHANGED <<backlog, online, running, facts, guest, disp, faults, late>>
<1>0. /\ queue.update \in Seq(Asks) /\ queue.reboot \in Seq(Asks) /\ queue.update # <<>>
      /\ queue \in [update : Seq(Asks), reboot : Seq(Asks)] /\ Free
  BY DEF Shape, TakeUpdate
<1>1. Head(queue.update) \in Asks /\ Tail(queue.update) \in Seq(Asks)
  BY <1>0
<1>2. queue' = [queue EXCEPT !.update = Tail(queue.update)]
  BY DEF TakeUpdate
<1>3. /\ queue' \in [update : Seq(Asks), reboot : Seq(Asks)]
      /\ queue'.update = Tail(queue.update) /\ queue'.reboot = queue.reboot
  BY <1>0, <1>1, <1>2
<1>4. \/ Probes(Head(queue.update)) /\ UNCHANGED asks
      \/ asks' = Told(Head(queue.update), None) /\ UNCHANGED <<h, conns>>
  BY <1>0, <1>1, ProbesIs DEF TakeUpdate
<1> QED BY <1>0, <1>1, <1>3, <1>4, FreeGives DEF TakeUpdate

LEMMA TakeRebootIs ==
  ASSUME Shape, TakeReboot
  PROVE  /\ h.pc = "serve" /\ ~h.probe /\ h.pend = {} /\ queue.reboot # <<>>
         /\ queue.update = <<>> /\ Head(queue.reboot) \in Asks
         /\ queue' \in [update : Seq(Asks), reboot : Seq(Asks)]
         /\ queue'.update = queue.update /\ queue'.reboot = Tail(queue.reboot)
         /\ Probes(Head(queue.reboot))
         /\ UNCHANGED <<backlog, online, running, asks, facts, guest, disp, faults, late>>
<1>0. /\ queue.update \in Seq(Asks) /\ queue.reboot \in Seq(Asks) /\ queue.reboot # <<>>
      /\ queue \in [update : Seq(Asks), reboot : Seq(Asks)] /\ Free
  BY DEF Shape, TakeReboot
<1>1. Head(queue.reboot) \in Asks /\ Tail(queue.reboot) \in Seq(Asks)
  BY <1>0
<1>2. queue' = [queue EXCEPT !.reboot = Tail(queue.reboot)]
  BY DEF TakeReboot
<1>3. /\ queue' \in [update : Seq(Asks), reboot : Seq(Asks)]
      /\ queue'.update = queue.update /\ queue'.reboot = Tail(queue.reboot)
  BY <1>0, <1>1, <1>2
<1>4. Probes(Head(queue.reboot))
  BY <1>0, <1>1, ProbesIs DEF TakeReboot
<1> QED BY <1>0, <1>1, <1>3, <1>4, FreeGives DEF TakeReboot

LEMMA SendLivenessProbeIs ==
  ASSUME Shape, SendLivenessProbe
  PROVE  /\ h.pc = "serve" /\ ~h.probe /\ h.pend = {} /\ Probes(None)
         /\ UNCHANGED <<hostOnly, faults>>
  BY ProbesIs, FreeGives DEF SendLivenessProbe

-----------------------------------------------------------------------------
(* What each step of a caller and of the guest does. *)

LEMMA ToldIs ==
  ASSUME asks \in [Asks -> AskRecords], NEW a, NEW p \in Loaded, asks' = Told(a, p)
  PROVE  /\ asks' \in [Asks -> AskRecords]
         /\ \A x \in Asks : x # a \/ ~Waiting(x) => asks'[x] = asks[x]
         /\ \A x \in Asks : x = a /\ Waiting(x) => asks'[x].st = "answered" /\ asks'[x].p = p
<1>1. ASSUME NEW x \in Asks
      PROVE  LET r == [asks[x] EXCEPT !.st = "answered", !.p = p]
             IN r \in AskRecords /\ r.st = "answered" /\ r.p = p
  BY <1>1 DEF AskRecords, AskStates
<1> QED BY <1>1 DEF Told, Waiting

LEMMA DrainedIs ==
  ASSUME asks \in [Asks -> AskRecords], asks' = Drained.asks
  PROVE  /\ asks' \in [Asks -> AskRecords]
         /\ \A x \in Asks :
              \/ asks'[x] = Over
              \/ /\ asks'[x].st = asks[x].st /\ asks'[x].p = asks[x].p
                 /\ asks[x].st = "answered" => asks'[x].old
         /\ \A x \in Asks : Waiting(x)
              /\ (\/ x = h.parked \/ x = h.upd \/ x = h.reb
                  \/ \E i \in DOMAIN queue.update : x = queue.update[i]
                  \/ \E i \in DOMAIN queue.reboot : x = queue.reboot[i])
              => asks'[x] = Over
<1> DEFINE cut == {h.parked, h.upd, h.reb} \cup {queue.update[i] : i \in DOMAIN queue.update}
                    \cup {queue.reboot[i] : i \in DOMAIN queue.reboot}
<1>0. asks' = [a \in Asks |-> IF a \in cut /\ Waiting(a) THEN Over
                              ELSE [asks[a] EXCEPT !.old = asks[a].st = "answered"]]
  BY DEF Drained
<1>1. ASSUME NEW x \in Asks
      PROVE  LET r == [asks[x] EXCEPT !.old = asks[x].st = "answered"]
             IN r \in AskRecords /\ r.st = asks[x].st /\ r.p = asks[x].p
                /\ (asks[x].st = "answered" => r.old)
  <2>1. PICK b \in BOOLEAN : b <=> asks[x].st = "answered"
    OBVIOUS
  <2>2. LET r == [asks[x] EXCEPT !.old = b]
        IN r \in AskRecords /\ r.st = asks[x].st /\ r.p = asks[x].p /\ (r.old <=> b)
    BY <1>1 DEF AskRecords
  <2>3. (asks[x].st = "answered") = b
    BY <2>1
  <2> QED BY <2>1, <2>2, <2>3
<1>2. Over \in AskRecords
  BY DEF Over, AskRecords, AskStates, Loaded
<1>3. \A x \in Asks : x = h.parked \/ x = h.upd \/ x = h.reb
        \/ (\E i \in DOMAIN queue.update : x = queue.update[i])
        \/ (\E i \in DOMAIN queue.reboot : x = queue.reboot[i]) => x \in cut
  OBVIOUS
<1> HIDE DEF cut
<1> QED BY <1>0, <1>1, <1>2, <1>3

\* The agent outside a connection.
LEMMA IndoorsIs ==
  ASSUME Shape, Boot \/ SelfUpdate \/ SelfUpdateWrite
  PROVE  /\ UNCHANGED <<guestOnly, conns, backlog>> /\ disp' \in Loaded /\ faults' \in 0..MaxFaults
         /\ guest.conn = None
         /\ \E x \in {"off", "start", "replace", "away", "dead"} : GuestIs(x, guest.conn, guest.job)
<1>0. guest \in GuestRecords /\ guest.run \in Builds /\ guest.bin \in Builds \cup {"missing"}
  BY DEF Shape, GuestRecords
<1>1. CASE Boot
  <2>1. CASE guest.bin = "missing"
    <3>1. guest' = [guest EXCEPT !.pc = "dead", !.run = guest.run]
      BY <1>1, <2>1 DEF Boot
    <3>2. GuestIs("dead", guest.conn, guest.job)
      BY <1>0, <3>1, GuestPcRun DEF GuestSteps
    <3> QED BY <1>1, <3>2 DEF Boot, Shape, GuestHasConn
  <2>2. CASE guest.bin # "missing"
    <3>1. guest' = [guest EXCEPT !.pc = "start", !.run = guest.bin]
      BY <1>1, <2>2 DEF Boot
    <3>2. GuestIs("start", guest.conn, guest.job)
      BY <1>0, <2>2, <3>1, GuestPcRun DEF GuestSteps
    <3> QED BY <1>1, <3>2 DEF Boot, Shape, GuestHasConn
  <2> QED BY <2>1, <2>2
<1>2. CASE SelfUpdate
  <2>1. guest' = [guest EXCEPT !.pc = "away"] \/ guest' = [guest EXCEPT !.pc = "replace", !.bin = "missing"]
    BY <1>2 DEF SelfUpdate
  <2>2. GuestIs("away", guest.conn, guest.job) \/ GuestIs("replace", guest.conn, guest.job)
    BY <1>0, <2>1, GuestPc, GuestPcBin DEF GuestSteps
  <2> QED BY <1>2, <2>2 DEF SelfUpdate, Shape, GuestHasConn
<1>3. CASE SelfUpdateWrite
  <2>1. \/ guest' = [guest EXCEPT !.pc = "start", !.bin = "current", !.run = "current"]
        \/ guest' = [guest EXCEPT !.pc = "away"]
    BY <1>3 DEF SelfUpdateWrite
  <2>2. GuestIs("away", guest.conn, guest.job) \/ GuestIs("start", guest.conn, guest.job)
    BY <1>0, <2>1, GuestPc, GuestPcBinRun DEF GuestSteps, Builds
  <2>3. faults' \in 0..MaxFaults
    BY <1>3, Constants DEF SelfUpdateWrite, Fault, Shape
  <2> QED BY <1>3, <2>2, <2>3 DEF SelfUpdateWrite, Shape, GuestHasConn
<1> QED BY <1>1, <1>2, <1>3

LEMMA ConnectIs ==
  ASSUME Shape, NEW c \in Conns, Connect(c)
  PROVE  /\ guest.pc = "away" /\ ~conns[c].h
         /\ conns' \in [Conns -> ConnRecords]
         /\ \A e \in Conns : e # c => conns'[e] = conns[e]
         /\ conns'[c].h /\ conns'[c].down = <<>>
         /\ \E m \in Wire : m.k = "hello" /\ conns'[c].up = <<m>>
         /\ backlog' = Append(backlog, c)
         /\ GuestIs("hello", c, guest.job)
         /\ UNCHANGED <<guestOnly, disp, faults>>
<1> DEFINE m == [Frame("hello") EXCEPT !.out = guest.run]
           r == [NoConn EXCEPT !.g = "open", !.h = TRUE, !.up = <<m>>]
<1>1. m \in Wire /\ m.k = "hello"
  BY FramesAreWire DEF Shape, GuestRecords
<1> HIDE DEF m
<1>3. r \in ConnRecords /\ r.up = <<m>> /\ r.down = <<>> /\ r.h
  <2>1. PICK b \in BOOLEAN : b = TRUE
    OBVIOUS
  <2>2. PICK u \in Seq(Wire) : u = <<m>>
    BY <1>1, FewAreWire
  <2>3. PICK q \in ConnRecords : q = NoConn
    BY NoConnIs
  <2>4. LET s == [q EXCEPT !.g = "open", !.h = b, !.up = u]
        IN s \in ConnRecords /\ s.up = u /\ s.down = q.down /\ (s.h <=> b)
    BY DEF ConnRecords
  <2> QED BY <2>1, <2>2, <2>3, <2>4, NoConnIs
<1>4. conns' = [conns EXCEPT ![c] = r]
  BY DEF Connect, m
<1> HIDE DEF r
<1>5. GuestIs("hello", c, guest.job)
  BY GuestConn DEF Connect, Shape, GuestSteps
<1>6. ~conns[c].h
  BY NoConnIs DEF Connect
<1> QED BY <1>1, <1>3, <1>4, <1>5, <1>6 DEF Connect, Shape

\* The guest reads a frame and answers it with t.
GuestTells(t) ==
  /\ guest.conn \in Conns /\ conns[guest.conn].down # <<>>
  /\ Moved(guest.conn, IF conns[guest.conn].h THEN conns[guest.conn].up \o t
                       ELSE conns[guest.conn].up, Tail(conns[guest.conn].down))
  /\ conns'[guest.conn].agreed = conns[guest.conn].agreed

\* Frames that are no answers.
Plain(t) == t \in Seq(Wire) /\ JobsIn(t, "done") = {} /\ Once(t, "done")

LEMMA PlainAre ==
  /\ Plain(<<>>)
  /\ \A m \in Wire : m.k # "done" => Plain(<<m>>)
  BY JobsOfFew, FewAreWire DEF Plain

LEMMA GuestTalksIs ==
  ASSUME Shape, GuestGreeted \/ GuestAuthenticates \/ GuestAnswersHeartbeat
  PROVE  /\ guest.pc \in {"hello", "auth", "serve"}
         /\ \E t : Plain(t) /\ GuestTells(t)
         /\ \E x \in {"auth", "serve"} : GuestIs(x, guest.conn, guest.job)
         /\ UNCHANGED <<guestOnly, backlog, disp, faults>>
<1>0. /\ guest.pc \in {"hello", "auth", "serve"} /\ guest.conn \in Conns
      /\ conns[guest.conn].down # <<>>
      /\ conns \in [Conns -> ConnRecords] /\ guest \in GuestRecords
      /\ UNCHANGED <<guestOnly, backlog, disp, faults>>
  BY ShapeGives DEF GuestGreeted, GuestAuthenticates, GuestAnswersHeartbeat, GuestReads, GuestHasConn
<1>1. CASE GuestGreeted
  <2>1. GuestTells(<<>>)
    BY <1>0, <1>1, RepliesIs, FewAreWire DEF GuestGreeted, GuestTells
  <2>2. GuestIs("auth", guest.conn, guest.job)
    BY <1>0, <1>1, GuestPc DEF GuestGreeted, GuestSteps
  <2> QED BY <1>0, <2>1, <2>2, PlainAre
<1>2. CASE GuestAuthenticates
  <2> DEFINE m == [Frame("proof") EXCEPT !.out = IF guest.key THEN "ok" ELSE "failed"]
  <2>1. m \in Wire /\ m.k = "proof"
    BY FramesAreWire
  <2>2. Replies(<<m>>)
    BY <1>2 DEF GuestAuthenticates
  <2> HIDE DEF m
  <2>3. Plain(<<m>>) /\ <<m>> \in Seq(Wire)
    BY <2>1, PlainAre DEF Plain
  <2>4. GuestTells(<<m>>)
    BY <1>0, <2>2, <2>3, RepliesIs DEF GuestTells
  <2>5. GuestIs("serve", guest.conn, guest.job)
    BY <1>0, <1>2, GuestPc DEF GuestAuthenticates, GuestSteps
  <2> QED BY <1>0, <2>3, <2>4, <2>5
<1>3. CASE GuestAnswersHeartbeat
  <2>1. PICK t : Plain(t) /\ Replies(t)
    <3>1. Frame("hb_ok") \in Wire /\ Frame("hb_ok").k = "hb_ok"
      BY FramesAreWire DEF FrameKinds
    <3>2. Plain(<<Frame("hb_ok")>>) /\ Plain(<<>>)
      BY <3>1, PlainAre
    <3>3. Replies(<<Frame("hb_ok")>>) \/ Replies(<<>>)
      BY <1>3 DEF GuestAnswersHeartbeat
    <3> QED BY <3>2, <3>3
  <2>2. GuestTells(t)
    BY <1>0, <2>1, RepliesIs DEF GuestTells, Plain
  <2>3. GuestIs(guest.pc, guest.conn, guest.job)
    <3>1. PICK b \in BOOLEAN : b = (guest.hb /\ HeadDown.k = "hb")
      OBVIOUS
    <3>2. guest' = [guest EXCEPT !.hb = b]
      BY <1>3, <3>1 DEF GuestAnswersHeartbeat
    <3> QED BY <1>0, <3>2, GuestBeats
  <2>4. guest.pc = "serve"
    BY <1>3 DEF GuestAnswersHeartbeat
  <2> QED BY <1>0, <2>1, <2>2, <2>3, <2>4
<1> QED BY <1>1, <1>2, <1>3

LEMMA AppendIs ==
  ASSUME NEW s \in Seq(Wire), NEW m \in Wire
  PROVE  Append(s, m) = s \o <<m>> /\ Append(s, m) \in Seq(Wire)
  OBVIOUS

LEMMA GuestHeartbeatIs ==
  ASSUME Shape, GuestHeartbeat
  PROVE  /\ guest.pc = "serve" /\ guest.conn \in Conns
         /\ \E t : Plain(t) /\ Moved(guest.conn, conns[guest.conn].up \o t, conns[guest.conn].down)
         /\ conns'[guest.conn].agreed = conns[guest.conn].agreed
         /\ GuestIs("serve", guest.conn, guest.job)
         /\ UNCHANGED <<guestOnly, backlog, disp, faults>>
<1>0. /\ guest.pc = "serve" /\ guest.conn \in Conns
      /\ conns \in [Conns -> ConnRecords] /\ guest \in GuestRecords
      /\ UNCHANGED <<guestOnly, backlog, disp, faults>>
  BY ShapeGives DEF GuestHeartbeat, GuestHasConn
<1> PICK c \in Conns : c = guest.conn
  BY <1>0
<1> DEFINE m == Frame("hb")
<1>1. m \in Wire /\ m.k # "done"
  BY FramesAreWire DEF FrameKinds
<1>2. conns' = [conns EXCEPT ![c].up = Append(conns[c].up, m)]
  BY DEF GuestHeartbeat
<1> HIDE DEF m
<1>3. conns[c].up \in Seq(Wire) /\ conns[c].down \in Seq(Wire)
  BY <1>0, ConnIs
<1>4. Append(conns[c].up, m) = conns[c].up \o <<m>> /\ Append(conns[c].up, m) \in Seq(Wire)
  BY <1>1, <1>3, AppendIs
<1>5. conns' = [conns EXCEPT ![c].up = conns[c].up \o <<m>>, ![c].down = conns[c].down]
  BY <1>0, <1>2, <1>4 DEF ConnRecords
<1>6. Moved(c, conns[c].up \o <<m>>, conns[c].down) /\ conns'[c].agreed = conns[c].agreed
  BY <1>0, <1>3, <1>4, <1>5, MovedIs
<1>7. Plain(<<m>>)
  BY <1>1, PlainAre
<1>8. GuestIs(guest.pc, guest.conn, guest.job)
  <2>1. PICK b \in BOOLEAN : b = TRUE
    OBVIOUS
  <2>2. guest' = [guest EXCEPT !.hb = b]
    BY <2>1 DEF GuestHeartbeat
  <2> QED BY <1>0, <2>2, GuestBeats
<1> QED BY <1>0, <1>6, <1>7, <1>8

LEMMA GuestBeginsIs ==
  ASSUME Shape, GuestBegins
  PROVE  /\ guest.pc = "serve" /\ HeadDown.k = "job" /\ HeadDown \in Wire
         /\ GuestTells(<<>>)
         /\ GuestIs("busy", guest.conn, HeadDown)
         /\ UNCHANGED <<guestOnly, backlog, disp, faults>>
<1>0. /\ guest.pc = "serve" /\ guest.conn \in Conns
      /\ conns \in [Conns -> ConnRecords] /\ guest \in GuestRecords
      /\ conns[guest.conn].down # <<>> /\ HeadDown.k = "job"
      /\ UNCHANGED <<guestOnly, backlog, disp, faults>>
  BY ShapeGives DEF GuestBegins, GuestHasConn, GuestReads
<1>1. HeadDown \in Wire
  BY <1>0, ConnIs, TailIs DEF HeadDown
<1>2. GuestTells(<<>>)
  BY <1>0, RepliesIs, FewAreWire DEF GuestBegins, GuestTells
<1>3. GuestIs("busy", guest.conn, HeadDown)
  BY <1>0, <1>1, GuestJob DEF GuestBegins, GuestSteps
<1> QED BY <1>0, <1>1, <1>2, <1>3

LEMMA GuestFinishesIs ==
  ASSUME Shape, GuestFinishes
  PROVE  /\ guest.pc = "busy" /\ guest.conn \in Conns /\ guest.job.job \in Jobs
         /\ disp' \in Loaded
         /\ guest.job.job \notin {"display_recipe", "update"} => disp' = disp
         /\ \E m \in Wire :
              /\ m.k = "done" /\ m.job = guest.job.job
              /\ m.job \in {"display_recipe", "update"} => m.p = disp'
              /\ Moved(guest.conn, IF conns[guest.conn].h THEN conns[guest.conn].up \o <<m>>
                                   ELSE conns[guest.conn].up, conns[guest.conn].down)
         /\ conns'[guest.conn].agreed = conns[guest.conn].agreed
         /\ GuestIs("serve", guest.conn, None)
         /\ UNCHANGED <<guestOnly, backlog, faults>>
<1>0. /\ guest.pc = "busy" /\ guest.conn \in Conns /\ guest.job \in Wire /\ guest.job.k = "job"
      /\ conns \in [Conns -> ConnRecords] /\ guest \in GuestRecords /\ guest.job.job \in Jobs
      /\ UNCHANGED <<guestOnly, backlog, faults>> /\ disp \in Loaded
  BY ShapeGives DEF GuestFinishes, GuestHasConn, Shape, Wire
<1> PICK c \in Conns : c = guest.conn
  BY <1>0
<1> PICK g \in Wire : g = guest.job
  BY <1>0
<1> DEFINE reports == g.job \in {"display_recipe", "update"}
           D(r) == Done(g, r[1], IF reports THEN r[2] ELSE None)
<1>1. PICK r \in Results(g.job) :
        /\ conns' = [conns EXCEPT ![c].up = IF conns[c].h THEN Append(conns[c].up, D(r))
                                            ELSE conns[c].up]
        /\ disp' = r[2]
        /\ guest' = [guest EXCEPT !.pc = "serve", !.job = None,
                                  !.down = guest.down \/ (g.job = "reboot" /\ r[1] = "ok")]
  BY DEF GuestFinishes
<1>2. /\ r[1] \in Outcomes \cup {"ok"} /\ r[2] \in Loaded
      /\ g.job \notin {"display_recipe", "update"} => r[2] = disp
  BY <1>0, ResultsAre
<1> DEFINE m == D(r)
<1>3. m \in Wire /\ m.k = "done" /\ m.job = g.job /\ (reports => m.p = r[2])
  <2>1. (IF reports THEN r[2] ELSE None) \in Loaded
    BY <1>2 DEF Loaded
  <2> QED BY <1>0, <1>2, <2>1, DoneIsWire
<1>4. conns' = [conns EXCEPT ![c].up = IF conns[c].h THEN Append(conns[c].up, m)
                                       ELSE conns[c].up]
  BY <1>1
<1> HIDE DEF m
<1> DEFINE u == IF conns[c].h THEN conns[c].up \o <<m>> ELSE conns[c].up
<1>5. conns[c].up \in Seq(Wire) /\ conns[c].down \in Seq(Wire)
  BY <1>0, ConnIs
<1>6. Append(conns[c].up, m) = conns[c].up \o <<m>> /\ Append(conns[c].up, m) \in Seq(Wire)
  BY <1>3, <1>5, AppendIs
<1>7. conns' = [conns EXCEPT ![c].up = u, ![c].down = conns[c].down] /\ u \in Seq(Wire)
  BY <1>0, <1>4, <1>5, <1>6 DEF ConnRecords
<1>8. Moved(c, u, conns[c].down) /\ conns'[c].agreed = conns[c].agreed
  <2> HIDE DEF u
  <2> QED BY <1>0, <1>5, <1>7, MovedIs
<1>9. GuestIs("serve", guest.conn, None)
  <2>1. PICK b \in BOOLEAN : b = (guest.down \/ (g.job = "reboot" /\ r[1] = "ok"))
    OBVIOUS
  <2>2. guest' = [guest EXCEPT !.pc = "serve", !.job = None, !.down = b]
    BY <1>1, <2>1
  <2> QED BY <1>0, <2>2, GuestJobDown DEF GuestSteps
<1> QED BY <1>0, <1>1, <1>2, <1>3, <1>8, <1>9

\* The guest's end of its connection, if it has one, is gone.
GuestLeaves ==
  /\ IF guest.conn = None THEN UNCHANGED conns ELSE Ended(guest.conn)
  /\ disp' \in Loaded
  /\ \E x \in {"off", "start", "away", "dead"}, j \in Wire \cup {None} : GuestIs(x, None, j)
  /\ UNCHANGED <<guestOnly, backlog>>
  /\ faults' \in 0..MaxFaults

LEMMA GuestLeavesIs ==
  ASSUME Shape, GuestSessionEnds \/ GuestGoesDown \/ GuestDies \/ AgentDies
  PROVE  GuestLeaves
<1>0. /\ guest.conn \in Conns \cup {None} /\ conns \in [Conns -> ConnRecords]
      /\ guest \in GuestRecords /\ disp \in Loaded /\ guest.run \in Builds
      /\ guest.bin \in Builds \cup {"missing"} /\ faults \in 0..MaxFaults
      /\ guest.job \in Wire \cup {None}
  BY DEF Shape, GuestRecords
<1>1. faults' \in 0..MaxFaults
  BY <1>0, Constants DEF GuestSessionEnds, GuestGoesDown, GuestDies, AgentDies, Fault
<1>2. UNCHANGED <<guestOnly, backlog>>
  BY DEF GuestSessionEnds, GuestGoesDown, GuestDies, AgentDies
<1>3. disp' \in Loaded
  BY <1>0, CutShortIs DEF GuestSessionEnds, GuestGoesDown, GuestDies, AgentDies
<1>4. IF guest.conn = None THEN UNCHANGED conns ELSE Ended(guest.conn)
  <2>1. CASE guest.conn = None
    <3>1. ~GuestSessionEnds
      BY <2>1 DEF GuestSessionEnds, Shape, GuestHasConn
    <3> QED BY <2>1, <3>1 DEF GuestGoesDown, GuestDies, AgentDies
  <2>2. CASE guest.conn # None
    <3>1. PICK how \in {"closed", "lost"} : conns' = GuestEnds(guest.conn, how)
      BY <2>2 DEF GuestSessionEnds, GuestGoesDown, GuestDies, AgentDies
    <3> QED BY <1>0, <2>2, <3>1, GuestEndsIs
  <2> QED BY <2>1, <2>2
<1>5. \E x \in {"off", "start", "away", "dead"}, j \in Wire \cup {None} : GuestIs(x, None, j)
  <2>1. CASE GuestSessionEnds
    <3>1. guest' = [guest EXCEPT !.pc = "away", !.conn = None, !.hb = FALSE]
      BY <2>1 DEF GuestSessionEnds
    <3>2. GuestIs("away", None, guest.job)
      BY <1>0, <3>1, GuestLeft DEF GuestSteps
    <3> QED BY <1>0, <3>2
  <2>2. CASE GuestGoesDown \/ GuestDies
    <3>1. guest' = [guest EXCEPT !.pc = "off", !.conn = None, !.hb = FALSE, !.job = None, !.down = FALSE]
      BY <2>2 DEF GuestGoesDown, GuestDies
    <3>2. GuestIs("off", None, None)
      BY <1>0, <3>1, GuestDown DEF GuestSteps
    <3> QED BY <3>2
  <2>3. CASE AgentDies
    <3>1. PICK x \in {"dead", "start"}, b \in Builds :
            guest' = [guest EXCEPT !.pc = x, !.run = b, !.conn = None, !.hb = FALSE, !.job = None]
      <4>1. CASE guest.bin = "missing"
        BY <1>0, <2>3, <4>1 DEF AgentDies
      <4>2. CASE guest.bin # "missing"
        BY <1>0, <2>3, <4>2 DEF AgentDies
      <4> QED BY <4>1, <4>2
    <3>2. GuestIs(x, None, None)
      BY <1>0, <3>1, GuestAgain DEF GuestSteps
    <3> QED BY <3>2
  <2> QED BY <2>1, <2>2, <2>3
<1> QED BY <1>1, <1>2, <1>3, <1>4, <1>5 DEF GuestLeaves

-----------------------------------------------------------------------------
(* Every step keeps the shape. *)

\* The parts of the shape: the host's, the guest's, and the rest.
HostShape ==
  /\ h \in HostRecords
  /\ h.conn # None <=> h.pc \in HasConn
  /\ h.cand # None <=> HasCand
GuestShape ==
  /\ guest \in GuestRecords
  /\ guest.conn # None <=> guest.pc \in GuestHasConn
  /\ guest.pc = "busy" => guest.job \in Wire /\ guest.job.k = "job"
RestShape ==
  /\ conns \in [Conns -> ConnRecords] /\ backlog \in Seq(Conns)
  /\ online \in BOOLEAN /\ running \in BOOLEAN /\ late \in BOOLEAN
  /\ queue \in [update : Seq(Asks), reboot : Seq(Asks)]
  /\ asks \in [Asks -> AskRecords] /\ facts \in Loaded /\ disp \in Loaded
  /\ faults \in 0..MaxFaults

LEMMA ShapeIs == Shape <=> HostShape /\ GuestShape /\ RestShape
  BY DEF Shape, HostShape, GuestShape, RestShape

LEMMA ShapeInit ==
  ASSUME Init
  PROVE  Shape
<1>1. HostShape
  BY Constants DEF Init, HostShape, HostAt, HostRecords, HostSteps, HasConn, HasCand, InSession
<1>2. GuestShape
  <2>1. PICK g \in Guests :
          guest = [pc |-> "off", conn |-> None, hb |-> FALSE, job |-> None, run |-> g.build,
                   bin |-> g.build, key |-> g.key, offer |-> g.offer, down |-> FALSE]
    BY DEF Init
  <2>2. g \in [build : {"current", "old", "alien"}, key : BOOLEAN, offer : SUBSET {"gpu", "display"}]
    BY LinkAssumption
  <2> QED BY <2>1, <2>2 DEF GuestShape, GuestRecords, GuestSteps, GuestHasConn, Builds
<1>3. RestShape
  <2>1. conns \in [Conns -> ConnRecords]
    BY NoConnIs DEF Init
  <2>2. asks \in [Asks -> AskRecords]
    BY DEF Init, NoAsk, AskRecords, AskStates, Loaded
  <2>3. faults \in 0..MaxFaults
    BY Constants DEF Init
  <2>4. backlog \in Seq(Conns) /\ queue \in [update : Seq(Asks), reboot : Seq(Asks)]
    BY DEF Init
  <2>5. online \in BOOLEAN /\ running \in BOOLEAN /\ late \in BOOLEAN
    BY DEF Init
  <2>6. facts \in Loaded /\ disp \in Loaded
    BY DEF Init, Loaded
  <2> QED BY <2>1, <2>2, <2>3, <2>4, <2>5, <2>6 DEF RestShape
<1> QED BY <1>1, <1>2, <1>3, ShapeIs

LEMMA HostShapeNext ==
  ASSUME Shape, Next
  PROVE  HostShape'
<1> USE DEF HostShape, HostMoves, HostExits, HostIs, HasConn, HasCand, InSession
<1>0. HostShape /\ None \notin Conns
  BY ShapeIs, Constants
<1>1. CASE h' = h
  BY <1>0, <1>1
<1>2. CASE Accept \/ ReplacementReady
  BY <1>0, <1>2, AcceptIs, ReplacementReadyIs
<1>3. ASSUME FailsToOpen PROVE HostShape'
  BY <1>0, <1>3 DEF FailsToOpen, InCandidate
<1>4. CASE Greet
  BY <1>0, <1>3, <1>4, GreetIs DEF InCandidate
<1>5. CASE Authenticate
  BY <1>0, <1>3, <1>5, AuthenticateIs DEF InCandidate
<1>6. CASE OpeningFails
  BY <1>3, <1>6, OpeningFailsIs
<1>7. CASE GoOnline
  BY <1>0, <1>7, GoOnlineIs
<1>8. CASE SessionEnds
  BY <1>0, <1>8, SessionEndsIs
<1>9. CASE OfferAgain \/ ThreadEnds
  BY <1>0, <1>9, ListensOrEnds
<1>10. CASE SessionBreaks \/ Unresponsive
  BY <1>0, <1>10, SessionStopsIs
<1>11. CASE GpuAttached \/ GpuRecipeApplied \/ GpuProbed
  BY <1>0, <1>11, GpuReadIs DEF Follows, Takes
<1>12. CASE DisplayAttached \/ DisplayRecipeApplied
  BY <1>0, <1>12, DisplayReadIs DEF Follows, Takes
<1>13. CASE UpdateAnswered \/ RebootAnswered
  BY <1>0, <1>13, UpdateAnsweredIs, RebootAnsweredIs DEF Takes
<1>14. CASE ProbeAnswered
  BY <1>0, <1>14, ProbeAnsweredIs
<1>15. CASE TakeUpdate \/ TakeReboot
  BY <1>0, <1>1, <1>15, TakeUpdateIs, TakeRebootIs DEF Probes
<1>16. CASE SendLivenessProbe
  BY <1>0, <1>16, SendLivenessProbeIs DEF Probes
<1>17. CASE AnswerHeartbeat \/ ListenerCloses \/ Cancel
  BY <1>1, <1>17 DEF AnswerHeartbeat, ListenerCloses, Cancel
<1>18. CASE GuestStep \/ GuestDies \/ AgentDies
  <2>1. h' = h
    BY <1>18 DEF GuestStep, GuestWorks, GuestDies, AgentDies, Boot, SelfUpdate, SelfUpdateWrite,
         Connect, GuestGreeted, GuestAuthenticates, GuestSessionEnds, GuestHeartbeat,
         GuestAnswersHeartbeat, GuestBegins, GuestFinishes, GuestGoesDown, guestOnly
  <2> QED BY <1>1, <2>1
<1>19. CASE CallerStep
  BY <1>1, <1>19 DEF CallerStep, Ask, GiveUp, RecordAnswer, callerOnly
<1> QED BY <1>2, <1>4, <1>5, <1>6, <1>7, <1>8, <1>9, <1>10, <1>11, <1>12, <1>13, <1>14, <1>15,
          <1>16, <1>17, <1>18, <1>19 DEF Next, HostStep, HostOpens, HostReads

LEMMA GuestShapeNext ==
  ASSUME Shape, Next
  PROVE  GuestShape'
<1>0. GuestShape /\ None \notin Conns
  BY ShapeIs, Constants
<1>1. CASE guest' = guest
  BY <1>0, <1>1 DEF GuestShape
<1>2. CASE HostStep
  <2>1. guest' = guest
    BY <1>2 DEF HostStep, HostOpens, HostReads, Accept, Greet, Authenticate, OpeningFails, GoOnline,
         SessionEnds, OfferAgain, ThreadEnds, ListenerCloses, AnswerHeartbeat, GpuAttached,
         GpuRecipeApplied, GpuProbed, DisplayAttached, DisplayRecipeApplied, UpdateAnswered,
         RebootAnswered, ProbeAnswered, SessionBreaks, Unresponsive, ReplacementReady, TakeUpdate,
         TakeReboot, SendLivenessProbe, hostOnly, sessionOnly
  <2> QED BY <1>1, <2>1
<1>3. CASE CallerStep \/ Cancel
  BY <1>1, <1>3 DEF CallerStep, Ask, GiveUp, RecordAnswer, callerOnly, Cancel
<1> USE DEF GuestShape, GuestIs, GuestHasConn
<1>4. CASE Boot \/ SelfUpdate \/ SelfUpdateWrite
  BY <1>0, <1>4, IndoorsIs
<1>5. ASSUME NEW c \in Conns, Connect(c) PROVE GuestShape'
  BY <1>0, <1>5, ConnectIs
<1>6. CASE GuestGreeted \/ GuestAuthenticates \/ GuestAnswersHeartbeat
  BY <1>0, <1>6, GuestTalksIs
<1>7. CASE GuestHeartbeat
  BY <1>0, <1>7, GuestHeartbeatIs
<1>8. CASE GuestBegins
  BY <1>0, <1>8, GuestBeginsIs
<1>9. CASE GuestFinishes
  BY <1>0, <1>9, GuestFinishesIs
<1>10. CASE GuestSessionEnds \/ GuestGoesDown \/ GuestDies \/ AgentDies
  BY <1>0, <1>10, GuestLeavesIs DEF GuestLeaves
<1> QED BY <1>2, <1>3, <1>4, <1>5, <1>6, <1>7, <1>8, <1>9, <1>10 DEF Next, GuestStep, GuestWorks

LEMMA HeadUpIs ==
  ASSUME Shape, h.pc = "serve", conns[h.conn].up # <<>>
  PROVE  /\ HeadUp \in Wire /\ HeadUp.p \in Loaded
         /\ conns[h.conn].up \in Seq(Wire) /\ conns[h.conn].down \in Seq(Wire) /\ h.conn \in Conns
<1>1. h.conn \in Conns /\ conns \in [Conns -> ConnRecords]
  BY ShapeGives DEF HasConn, InSession
<1>2. conns[h.conn].up \in Seq(Wire) /\ conns[h.conn].down \in Seq(Wire)
  BY <1>1, ConnIs
<1>3. HeadUp \in Wire
  BY <1>2 DEF HeadUp
<1> QED BY <1>1, <1>2, <1>3 DEF Wire, Frames

\* What a caller's step leaves of the records of the asks.
LEMMA CallersAre ==
  ASSUME Shape, NEW a \in Asks
  PROVE  /\ Ask(a) => /\ asks' \in [Asks -> AskRecords]
                      /\ \A x \in Asks : x # a => asks'[x] = asks[x]
                      /\ asks[a].st = "idle"
                      /\ IF online THEN asks'[a].st = "waiting" ELSE asks'[a].st = "over"
         /\ GiveUp(a) \/ RecordAnswer(a) =>
              /\ asks' \in [Asks -> AskRecords]
              /\ \A x \in Asks : x # a => asks'[x] = asks[x]
              /\ asks'[a].st = "over" /\ asks[a].st \in {"waiting", "answered"}
<1>0. asks \in [Asks -> AskRecords]
  BY DEF Shape
<1>1. Over \in AskRecords /\ Over.st = "over"
  BY DEF Over, AskRecords, AskStates, Loaded
<1>2. [NoAsk EXCEPT !.st = "waiting"] \in AskRecords /\ [NoAsk EXCEPT !.st = "waiting"].st = "waiting"
  BY DEF NoAsk, AskRecords, AskStates, Loaded
<1>3. Ask(a) => /\ asks' \in [Asks -> AskRecords]
                /\ \A x \in Asks : x # a => asks'[x] = asks[x]
                /\ asks[a].st = "idle"
                /\ IF online THEN asks'[a].st = "waiting" ELSE asks'[a].st = "over"
  BY <1>0, <1>1, <1>2 DEF Ask
<1>4. GiveUp(a) \/ RecordAnswer(a) =>
        /\ asks' \in [Asks -> AskRecords]
        /\ \A x \in Asks : x # a => asks'[x] = asks[x]
        /\ asks'[a].st = "over" /\ asks[a].st \in {"waiting", "answered"}
  BY <1>0, <1>1 DEF GiveUp, RecordAnswer, Waiting
<1> QED BY <1>3, <1>4

\* The queues after a caller has asked.
LEMMA QueuesAre ==
  ASSUME Shape, NEW a \in Asks, Ask(a)
  PROVE  /\ queue' \in [update : Seq(Asks), reboot : Seq(Asks)]
         /\ AskKind[a] = "update" /\ online =>
              queue'.update = Append(queue.update, a) /\ queue'.reboot = queue.reboot
         /\ AskKind[a] = "reboot" /\ online =>
              queue'.reboot = Append(queue.reboot, a) /\ queue'.update = queue.update
         /\ ~online => queue' = queue
<1>0. /\ queue \in [update : Seq(Asks), reboot : Seq(Asks)]
      /\ queue.update \in Seq(Asks) /\ queue.reboot \in Seq(Asks)
      /\ AskKind[a] \in {"update", "reboot"}
  BY Constants DEF Shape
<1>1. Append(queue.update, a) \in Seq(Asks) /\ Append(queue.reboot, a) \in Seq(Asks)
  BY <1>0
<1>2. CASE ~online
  BY <1>0, <1>2, Constants DEF Ask
<1>3. CASE online /\ AskKind[a] = "update"
  <2>1. queue' = [queue EXCEPT !.update = Append(queue.update, a)]
    BY <1>3 DEF Ask
  <2> QED BY <1>0, <1>1, <1>3, <2>1
<1>4. CASE online /\ AskKind[a] = "reboot"
  <2>1. queue' = [queue EXCEPT !.reboot = Append(queue.reboot, a)]
    BY <1>4 DEF Ask
  <2> QED BY <1>0, <1>1, <1>4, <2>1
<1> QED BY <1>0, <1>2, <1>3, <1>4

LEMMA RestShapeNext ==
  ASSUME Shape, Next
  PROVE  RestShape'
<1> USE DEF RestShape
<1>0. RestShape /\ None \in Loaded
  BY ShapeIs DEF Loaded
<1>1. CASE Accept \/ ReplacementReady
  <2>1. backlog' = Tail(backlog) /\ backlog # <<>>
        /\ UNCHANGED <<conns, online, running, queue, asks, facts, guest, disp, faults, late>>
    BY <1>1, AcceptIs, ReplacementReadyIs
  <2>2. backlog' \in Seq(Conns)
    BY <1>0, <2>1
  <2> QED BY <1>0, <2>1, <2>2
<1>2. ASSUME conns' \in [Conns -> ConnRecords], UNCHANGED hostOnly, faults' \in 0..MaxFaults
      PROVE  RestShape'
  BY <1>0, <1>2 DEF hostOnly
<1>3. CASE Greet
  BY <1>0, <1>2, <1>3, GreetIs DEF FailsToOpen, Closed, Sends, Moved
<1>4. CASE Authenticate
  BY <1>0, <1>2, <1>4, AuthenticateIs DEF FailsToOpen, Closed, Sends, Moved
<1>5. CASE OpeningFails
  BY <1>2, <1>5, OpeningFailsIs DEF FailsToOpen, Closed
<1>6. CASE GoOnline
  BY <1>0, <1>6, GoOnlineIs DEF Sends, Moved
<1>7. CASE SessionEnds
  <2>1. asks' \in [Asks -> AskRecords]
    BY <1>0, <1>7, SessionEndsIs, DrainedIs
  <2>2. queue' \in [update : Seq(Asks), reboot : Seq(Asks)]
    <3>1. queue' = [update |-> <<>>, reboot |-> <<>>]
      BY <1>7, SessionEndsIs
    <3> QED BY <3>1
  <2> QED BY <1>0, <1>7, <2>1, <2>2, SessionEndsIs DEF Closed
<1>8. CASE OfferAgain \/ ThreadEnds
  BY <1>0, <1>2, <1>8, ListensOrEnds
<1>9. CASE SessionBreaks \/ Unresponsive
  BY <1>0, <1>2, <1>9, SessionStopsIs
<1>10. CASE ListenerCloses
  <2>1. backlog' \in Seq(Conns)
    <3>1. backlog' = Tail(backlog) /\ backlog # <<>>
      BY <1>10, ListenerClosesIs
    <3> QED BY <1>0, <3>1
  <2> QED BY <1>0, <1>10, <2>1, ListenerClosesIs DEF Closed
<1>11. CASE Cancel
  <2>1. faults' \in 0..MaxFaults
    BY <1>0, <1>11, Constants DEF Cancel, Fault
  <2> QED BY <1>0, <1>11, <2>1 DEF Cancel
<1>12. ASSUME NEW J, Takes(J), asks' \in [Asks -> AskRecords], facts' \in Loaded
       PROVE  RestShape'
  BY <1>0, <1>12 DEF Takes, Sends, Moved, sessionOnly
<1>13. CASE GpuAttached \/ GpuRecipeApplied \/ GpuProbed
  <2>1. (\E J : Takes(J)) /\ UNCHANGED <<asks, facts>>
    BY <1>13, GpuReadIs DEF Follows
  <2> QED BY <1>0, <1>12, <2>1
<1>14. CASE DisplayAttached \/ DisplayRecipeApplied
  <2>1. (\E J : Takes(J)) /\ UNCHANGED asks /\ facts' \in {facts, None, HeadUp.p}
    BY <1>14, DisplayReadIs DEF Follows
  <2> QED BY <1>0, <1>12, <2>1, HeadUpIs DEF Takes
<1>15. CASE UpdateAnswered
  <2>1. Takes({}) /\ facts' = HeadUp.p /\ asks' = Told(h.upd, HeadUp.p)
    BY <1>15, UpdateAnsweredIs
  <2>2. HeadUp.p \in Loaded
    BY <2>1, HeadUpIs DEF Takes
  <2> QED BY <1>0, <1>12, <2>1, <2>2, ToldIs
<1>16. CASE RebootAnswered
  <2>1. Takes({}) /\ UNCHANGED facts /\ asks' = Told(h.reb, None)
    BY <1>16, RebootAnsweredIs
  <2> QED BY <1>0, <1>12, <2>1, ToldIs
<1>17. CASE ProbeAnswered
  <2>1. (\E J : Takes(J)) /\ UNCHANGED facts /\ (UNCHANGED asks \/ asks' = Told(h.parked, None))
    BY <1>17, ProbeAnsweredIs
  <2>2. asks' \in [Asks -> AskRecords]
    BY <1>0, <2>1, ToldIs
  <2> QED BY <1>0, <1>12, <2>1, <2>2
<1>18. CASE AnswerHeartbeat
  BY <1>0, <1>12, <1>18, AnswerHeartbeatIs
<1>19. CASE TakeUpdate
  <2>1. conns' \in [Conns -> ConnRecords] /\ asks' \in [Asks -> AskRecords]
    BY <1>0, <1>19, TakeUpdateIs, ToldIs DEF Probes, Sends, Moved
  <2> QED BY <1>0, <1>19, <2>1, TakeUpdateIs
<1>20. CASE TakeReboot
  BY <1>0, <1>20, TakeRebootIs DEF Probes, Sends, Moved
<1>21. CASE SendLivenessProbe
  BY <1>0, <1>2, <1>21, SendLivenessProbeIs DEF Probes, Sends, Moved
<1>22. ASSUME NEW a \in Asks, Ask(a) PROVE RestShape'
  BY <1>0, <1>22, CallersAre, QueuesAre DEF Ask, callerOnly
<1>23. ASSUME NEW a \in Asks, GiveUp(a) PROVE RestShape'
  BY <1>0, <1>23, CallersAre DEF GiveUp, callerOnly
<1>24. ASSUME NEW a \in Asks, RecordAnswer(a) PROVE RestShape'
  <2>1. asks[a].p \in Loaded /\ asks[a].old \in BOOLEAN
    BY <1>0 DEF AskRecords
  <2>2. late' \in BOOLEAN /\ facts' \in Loaded
    BY <1>0, <1>24, <2>1 DEF RecordAnswer
  <2> QED BY <1>0, <1>24, <2>2, CallersAre DEF RecordAnswer, callerOnly
<1>25. CASE Boot \/ SelfUpdate \/ SelfUpdateWrite
  BY <1>0, <1>25, IndoorsIs DEF guestOnly
<1>26. ASSUME NEW c \in Conns, Connect(c) PROVE RestShape'
  <2>1. backlog' \in Seq(Conns)
    <3>1. backlog' = Append(backlog, c)
      BY <1>26 DEF Connect
    <3> QED BY <1>0, <3>1
  <2> QED BY <1>0, <1>26, <2>1, ConnectIs DEF guestOnly
<1>27. CASE GuestGreeted \/ GuestAuthenticates \/ GuestAnswersHeartbeat
  BY <1>0, <1>27, GuestTalksIs DEF GuestTells, Moved, guestOnly
<1>28. CASE GuestHeartbeat
  BY <1>0, <1>28, GuestHeartbeatIs DEF Moved, guestOnly
<1>29. CASE GuestBegins
  BY <1>0, <1>29, GuestBeginsIs DEF GuestTells, Moved, guestOnly
<1>30. CASE GuestFinishes
  BY <1>0, <1>30, GuestFinishesIs DEF Moved, guestOnly
<1>31. CASE GuestSessionEnds \/ GuestGoesDown \/ GuestDies \/ AgentDies
  BY <1>0, <1>31, GuestLeavesIs DEF GuestLeaves, Ended, guestOnly
<1> QED BY <1>1, <1>3, <1>4, <1>5, <1>6, <1>7, <1>8, <1>9, <1>10, <1>11, <1>13, <1>14, <1>15,
          <1>16, <1>17, <1>18, <1>19, <1>20, <1>21, <1>22, <1>23, <1>24, <1>25, <1>26, <1>27,
          <1>28, <1>29, <1>30, <1>31
       DEF Next, HostStep, HostOpens, HostReads, GuestStep, GuestWorks, CallerStep

LEMMA ShapeNext ==
  ASSUME Shape, [Next]_vars
  PROVE  Shape'
<1>1. CASE Next
  <2>1. HostShape' /\ GuestShape' /\ RestShape'
    BY <1>1, HostShapeNext, GuestShapeNext, RestShapeNext
  <2> QED BY <2>1 DEF Shape, HostShape, GuestShape, RestShape, HasCand
<1>2. CASE UNCHANGED vars
  BY <1>2 DEF vars, Shape, HasCand
<1> QED BY <1>1, <1>2

-----------------------------------------------------------------------------
(* The host's ends. *)

LEMMA EndsSame ==
  ASSUME Shape, Ends, backlog' = backlog, h'.conn = h.conn, h'.cand = h.cand,
         \A c \in Conns : conns'[c].h <=> conns[c].h
  PROVE  Ends'
<1>1. /\ \A i \in DOMAIN backlog : backlog[i] \in Conns
      /\ h.conn \in Conns \cup {None} /\ h.cand \in Conns \cup {None}
  BY DEF Shape, HostRecords
<1> QED BY <1>1 DEF Ends

\* The first of the backlog leaves it.
LEMMA BacklogPopped ==
  ASSUME Shape, Ends, backlog # <<>>, backlog' = Tail(backlog)
  PROVE  /\ Head(backlog) \in Conns /\ conns[Head(backlog)].h
         /\ Head(backlog) # h.conn /\ Head(backlog) # h.cand
         /\ \A i \in DOMAIN backlog' :
              /\ backlog'[i] \in Conns /\ backlog'[i] # Head(backlog) /\ conns[backlog'[i]].h
              /\ backlog'[i] # h.conn /\ backlog'[i] # h.cand
              /\ \A j \in DOMAIN backlog' : backlog'[i] = backlog'[j] => i = j
         /\ \A i \in DOMAIN backlog' : \E j \in DOMAIN backlog : backlog'[i] = backlog[j]
         /\ \E j \in DOMAIN backlog : Head(backlog) = backlog[j]
<1>0. backlog \in Seq(Conns)
  BY DEF Shape
<1>1. /\ Head(backlog) = backlog[1] /\ 1 \in DOMAIN backlog /\ Head(backlog) \in Conns
      /\ \A i \in DOMAIN backlog' : i \in Nat \ {0} /\ i + 1 \in DOMAIN backlog
                                    /\ backlog'[i] = backlog[i + 1]
      /\ \A i \in DOMAIN backlog : backlog[i] \in Conns
  BY <1>0
<1>2. ASSUME NEW i \in DOMAIN backlog'
      PROVE  /\ backlog'[i] \in Conns /\ backlog'[i] # Head(backlog) /\ conns[backlog'[i]].h
             /\ backlog'[i] # h.conn /\ backlog'[i] # h.cand
             /\ \A j \in DOMAIN backlog' : backlog'[i] = backlog'[j] => i = j
  <2>1. i \in Nat \ {0} /\ i + 1 \in DOMAIN backlog /\ backlog'[i] = backlog[i + 1] /\ i + 1 # 1
    BY <1>1
  <2>2. ASSUME NEW j \in DOMAIN backlog', backlog'[i] = backlog'[j] PROVE i = j
    <3>1. i + 1 = j + 1
      BY <1>1, <2>1, <2>2 DEF Ends
    <3>2. j \in Nat
      BY <1>1
    <3> QED BY <2>1, <3>1, <3>2
  <2> QED BY <1>1, <2>1, <2>2 DEF Ends
<1> QED BY <1>1, <1>2 DEF Ends

LEMMA MovedKeepsEnds ==
  ASSUME NEW c, NEW u, NEW d, Moved(c, u, d)
  PROVE  \A e \in Conns : conns'[e].h <=> conns[e].h
  BY DEF Moved

LEMMA SendsKeepsEnds ==
  ASSUME NEW c, NEW u, NEW J, Sends(c, u, J)
  PROVE  \A e \in Conns : conns'[e].h <=> conns[e].h
  BY DEF Sends, Moved

LEMMA EndsNext ==
  ASSUME Shape, Ends, Next
  PROVE  Ends'
<1>0. /\ \A i \in DOMAIN backlog : backlog[i] \in Conns
      /\ h.conn \in Conns \cup {None} /\ h.cand \in Conns \cup {None} /\ None \notin Conns
      /\ h.conn # None <=> h.pc \in HasConn
      /\ h.cand # None <=> HasCand
  BY Constants DEF Shape, HostRecords
<1>1. CASE Accept
  <2>1. /\ h.pc = "listen" /\ backlog # <<>> /\ h'.conn = Head(backlog) /\ h'.cand = h.cand
        /\ backlog' = Tail(backlog) /\ conns' = conns
    BY <1>1, AcceptIs DEF HostMoves, HostIs
  <2>2. h.cand = None
    BY <1>0, <2>1 DEF HasCand
  <2> QED BY <1>0, <2>1, <2>2, BacklogPopped DEF Ends
<1>2. CASE ReplacementReady
  <2>1. /\ h.pc = "serve" /\ backlog # <<>> /\ h'.cand = Head(backlog) /\ h'.conn = h.conn
        /\ backlog' = Tail(backlog) /\ conns' = conns
    BY <1>2, ReplacementReadyIs DEF HostMoves, HostIs
  <2> QED BY <1>0, <2>1, BacklogPopped DEF Ends
<1>3. ASSUME FailsToOpen PROVE Ends'
  <2>1. CASE InCandidate
    <3>1. h'.conn = h.conn /\ h'.cand = None /\ backlog' = backlog /\ Closed(h.cand)
          /\ h.conn # None /\ h.cand # None
      BY <1>0, <1>3, <2>1 DEF FailsToOpen, HostMoves, HostIs, hostOnly, Opening, InCandidate, HasConn,
                              InSession, HasCand
    <3> QED BY <1>0, <3>1 DEF Ends, Closed
  <2>2. CASE ~InCandidate
    <3>1. h'.conn = None /\ h'.cand = h.cand /\ backlog' = backlog /\ Closed(h.conn)
          /\ h.conn # None /\ h.cand = None
      BY <1>0, <1>3, <2>2 DEF FailsToOpen, HostMoves, HostIs, hostOnly, Opening, InCandidate, HasConn,
                              InSession, HasCand
    <3> QED BY <1>0, <3>1 DEF Ends, Closed
  <2> QED BY <2>1, <2>2
<1>4. CASE Greet
  <2>1. CASE FailsToOpen
    BY <1>3, <2>1
  <2>2. CASE ~FailsToOpen
    BY <1>4, <2>2, GreetIs, EndsSame, SendsKeepsEnds DEF HostMoves, HostIs, hostOnly
  <2> QED BY <2>1, <2>2
<1>5. CASE Authenticate
  <2>1. CASE FailsToOpen
    BY <1>3, <2>1
  <2>2. CASE ~FailsToOpen
    BY <1>5, <2>2, AuthenticateIs, EndsSame, SendsKeepsEnds DEF HostMoves, HostExits, HostIs, hostOnly
  <2> QED BY <2>1, <2>2
<1>6. CASE OpeningFails
  BY <1>3, <1>6, OpeningFailsIs
<1>7. CASE GoOnline
  BY <1>7, GoOnlineIs, EndsSame, SendsKeepsEnds DEF HostIs
<1>8. CASE SessionEnds
  <2>1. h.pc = "drain" /\ Closed(h.conn) /\ backlog' = backlog /\ h.conn # None
    BY <1>0, <1>8, SessionEndsIs DEF HasConn, InSession
  <2>2. h'.cand = None /\ h'.conn \in {h.cand, None}
    BY <1>8, SessionEndsIs DEF HostIs
  <2> QED BY <1>0, <2>1, <2>2 DEF Ends, Closed
<1>9. CASE OfferAgain \/ ThreadEnds
  <2>1. h.conn = None /\ h.cand = None
    BY <1>0, <1>9, ListensOrEnds DEF HasConn, InSession, HasCand
  <2> QED BY <1>9, <2>1, ListensOrEnds, EndsSame DEF HostIs, hostOnly
<1>10. CASE SessionBreaks \/ Unresponsive
  BY <1>10, SessionStopsIs, EndsSame DEF HostExits, HostIs, hostOnly
<1>11. CASE ListenerCloses
  <2>1. /\ h.pc = "ended" /\ backlog # <<>> /\ Closed(Head(backlog)) /\ backlog' = Tail(backlog)
        /\ h' = h
    BY <1>11, ListenerClosesIs
  <2>2. h.conn = None /\ h.cand = None
    BY <1>0, <2>1 DEF HasConn, InSession, HasCand
  <2> QED BY <1>0, <2>1, <2>2, BacklogPopped DEF Ends, Closed
<1>12. CASE Cancel \/ CallerStep
  BY <1>12, EndsSame DEF Cancel, CallerStep, Ask, GiveUp, RecordAnswer, callerOnly
<1>13. ASSUME NEW J, Takes(J), h'.conn = h.conn, h'.cand = h.cand PROVE Ends'
  BY <1>13, EndsSame, SendsKeepsEnds DEF Takes, sessionOnly
<1>14. CASE GpuAttached \/ GpuRecipeApplied \/ GpuProbed
  BY <1>13, <1>14, GpuReadIs DEF Follows, HostIs
<1>15. CASE DisplayAttached \/ DisplayRecipeApplied
  BY <1>13, <1>15, DisplayReadIs DEF Follows, HostIs
<1>16. CASE UpdateAnswered \/ RebootAnswered
  BY <1>13, <1>16, UpdateAnsweredIs, RebootAnsweredIs DEF HostIs
<1>17. CASE ProbeAnswered
  BY <1>13, <1>17, ProbeAnsweredIs DEF HostIs
<1>18. CASE AnswerHeartbeat
  BY <1>13, <1>18, AnswerHeartbeatIs
<1>19. CASE TakeUpdate
  BY <1>19, TakeUpdateIs, EndsSame, SendsKeepsEnds DEF Probes, HostIs
<1>20. CASE TakeReboot \/ SendLivenessProbe
  BY <1>20, TakeRebootIs, SendLivenessProbeIs, EndsSame, SendsKeepsEnds DEF Probes, HostIs, hostOnly
<1>21. CASE Boot \/ SelfUpdate \/ SelfUpdateWrite
  BY <1>21, IndoorsIs, EndsSame DEF guestOnly
<1>22. ASSUME NEW c \in Conns, Connect(c) PROVE Ends'
  <2>1. /\ ~conns[c].h /\ conns'[c].h /\ h' = h /\ \A e \in Conns : e # c => conns'[e] = conns[e]
        /\ backlog' = Append(backlog, c) /\ backlog \in Seq(Conns)
    BY <1>22, ConnectIs DEF guestOnly, Shape
  <2>2. c # h.conn /\ c # h.cand /\ \A i \in DOMAIN backlog : backlog[i] # c
    BY <1>0, <2>1 DEF Ends
  <2>3. \A i \in DOMAIN backlog' : \/ i \in DOMAIN backlog /\ backlog'[i] = backlog[i]
                                   \/ i = Len(backlog) + 1 /\ backlog'[i] = c
    BY <2>1
  <2> QED BY <1>0, <2>1, <2>2, <2>3 DEF Ends
<1>23. CASE GuestGreeted \/ GuestAuthenticates \/ GuestAnswersHeartbeat
  BY <1>23, GuestTalksIs, EndsSame, MovedKeepsEnds DEF GuestTells, guestOnly
<1>24. CASE GuestHeartbeat
  BY <1>24, GuestHeartbeatIs, EndsSame, MovedKeepsEnds DEF guestOnly
<1>25. CASE GuestBegins
  BY <1>25, GuestBeginsIs, EndsSame, MovedKeepsEnds DEF GuestTells, guestOnly
<1>26. CASE GuestFinishes
  BY <1>26, GuestFinishesIs, EndsSame, MovedKeepsEnds DEF guestOnly
<1>27. CASE GuestSessionEnds \/ GuestGoesDown \/ GuestDies \/ AgentDies
  BY <1>27, GuestLeavesIs, EndsSame DEF GuestLeaves, Ended, guestOnly
<1> QED BY <1>1, <1>2, <1>4, <1>5, <1>6, <1>7, <1>8, <1>9, <1>10, <1>11, <1>12, <1>14, <1>15,
          <1>16, <1>17, <1>18, <1>19, <1>20, <1>21, <1>22, <1>23, <1>24, <1>25, <1>26, <1>27
       DEF Next, HostStep, HostOpens, HostReads, GuestStep, GuestWorks

-----------------------------------------------------------------------------
(* The tokens. *)

LEMMA HeldIsOpen ==
  /\ Shape /\ Ends => \A c \in Conns : Held(c) => conns[c].h
  /\ (Shape /\ Ends => \A c \in Conns : Held(c) => conns[c].h)'
<1>1. Shape /\ Ends => \A c \in Conns : Held(c) => conns[c].h
  BY Constants DEF Shape, Ends, Held
<1>2. (Shape /\ Ends => \A c \in Conns : Held(c) => conns[c].h)'
  BY Constants DEF Shape, Ends, Held
<1> QED BY <1>1, <1>2

\* A connection nothing happens on.
LEMMA FlightSame ==
  ASSUME Tokens, NEW c \in Conns, Held(c), conns'[c] = conns[c],
         AtWork(c)' = AtWork(c), Pending(c)' = Pending(c)
  PROVE  InFlight(c)'
  BY DEF Tokens, InFlight

\* Nothing moves, and the host holds no more than it did.
LEMMA TokensSame ==
  ASSUME Tokens, conns' = conns, \A c \in Conns : AtWork(c)' = AtWork(c),
         \A c \in Conns : Held(c)' => Held(c) /\ Pending(c)' = Pending(c)
  PROVE  Tokens'
<1> SUFFICES ASSUME NEW c \in Conns, Held(c)' PROVE InFlight(c)'
  BY DEF Tokens
<1> QED BY FlightSame

LEMMA SendsFlight ==
  ASSUME conns \in [Conns -> ConnRecords], NEW c \in Conns, NEW u \in Seq(Wire), NEW J, NEW w, NEW p,
         Sends(c, u, J), Flight(u, conns[c].down, w, p), J \cap p = {}
  PROVE  Flight(conns'[c].up, conns'[c].down, w, p \cup J)
<1>0. conns[c].down \in Seq(Wire)
  BY ConnIs
<1>1. PICK d \in Seq(Wire) :
        /\ Moved(c, u, d)
        /\ \/ d = conns[c].down
           \/ \E t \in Seq(Wire) :
                d = conns[c].down \o t /\ Once(t, "job") /\ JobsIn(t, "job") = J
  BY DEF Sends
<1>2. conns'[c].up = u /\ conns'[c].down = d
  BY <1>1 DEF Moved
<1>3. Flight(u, d, w, p \cup J)
  <2>1. CASE d = conns[c].down
    BY <2>1, FlightMore
  <2>2. ASSUME NEW t \in Seq(Wire), d = conns[c].down \o t, Once(t, "job"), JobsIn(t, "job") = J
        PROVE  Flight(u, d, w, p \cup J)
    BY <1>0, <2>2, FlightSend
  <2> QED BY <1>1, <2>1, <2>2
<1> QED BY <1>2, <1>3

\* The host sends on its connection, or a candidate's.
LEMMA SendsTokens ==
  ASSUME Shape, Tokens, NEW c \in Conns, Held(c), NEW J, NEW q,
         NEW u \in Seq(Wire), Sends(c, u, J), Flight(u, conns[c].down, AtWork(c), q),
         J \cap q = {}, q \cup J = IF c = h.conn THEN h'.pend ELSE {},
         c # h.conn => h'.pend = h.pend,
         h'.conn = h.conn, h'.cand = h.cand, backlog' = backlog, guest' = guest
  PROVE  Tokens'
<1>0. conns \in [Conns -> ConnRecords]
  BY DEF Shape
<1> SUFFICES ASSUME NEW e \in Conns, Held(e)' PROVE InFlight(e)'
  BY DEF Tokens
<1>1. Held(e) /\ AtWork(e)' = AtWork(e)
  BY DEF Held, AtWork
<1>2. CASE e = c
  <2>1. Flight(conns'[c].up, conns'[c].down, AtWork(c), q \cup J)
    BY <1>0, SendsFlight
  <2>2. Pending(c)' = q \cup J
    BY DEF Pending
  <2> QED BY <1>1, <1>2, <2>1, <2>2 DEF InFlight
<1>3. CASE e # c
  <2>1. conns'[e] = conns[e]
    BY <1>3 DEF Sends, Moved
  <2>2. Pending(e)' = Pending(e)
    BY <1>3 DEF Pending
  <2> QED BY <1>1, <2>1, <2>2, FlightSame
<1> QED BY <1>2, <1>3

\* The session reads a frame.
LEMMA TakesTokens ==
  ASSUME Shape, Tokens, NEW J, Takes(J), h'.conn = h.conn, h'.cand = h.cand
  PROVE  /\ HeadUp.k = "done" => HeadUp.job \in h.pend
         /\ h'.pend = h.pend \cup J /\ J \cap h.pend = {} => Tokens'
         /\ HeadUp.k = "done" /\ h'.pend = (h.pend \ {HeadUp.job}) \cup J
              /\ J \cap (h.pend \ {HeadUp.job}) = {} => Tokens'
<1>0. /\ h.conn \in Conns /\ conns[h.conn].up \in Seq(Wire) /\ conns[h.conn].down \in Seq(Wire)
      /\ conns[h.conn].up # <<>>
  BY HeadUpIs DEF Takes
<1> DEFINE u == Tail(conns[h.conn].up)
           d == conns[h.conn].down
           w == AtWork(h.conn)
<1>1. Held(h.conn) /\ Flight(conns[h.conn].up, d, w, h.pend)
  BY <1>0 DEF Tokens, Held, InFlight, Pending
<1>2. u \in Seq(Wire)
  BY <1>0, TailIs
<1>3. /\ Flight(u, d, w, h.pend)
      /\ HeadUp.k = "done" => HeadUp.job \in h.pend /\ Flight(u, d, w, h.pend \ {HeadUp.job})
  BY <1>0, <1>1, FlightRead DEF HeadUp
<1>4. Sends(h.conn, u, J) /\ backlog' = backlog /\ guest' = guest
  BY DEF Takes, sessionOnly
<1> HIDE DEF u
<1>5. ASSUME NEW q, Flight(u, d, w, q), h'.pend = q \cup J, J \cap q = {} PROVE Tokens'
  BY <1>0, <1>1, <1>2, <1>4, <1>5, SendsTokens
<1> QED BY <1>3, <1>5

\* An answer that is followed by at most one request of its own lane.
LEMMA FollowsTokens ==
  ASSUME Shape, Waits, Tokens, NEW j, NEW J, Follows(j, J),
         \A n \in J : CapabilityFor(n) = CapabilityFor(j)
  PROVE  j \in h.pend /\ Tokens'
<1>1. /\ Takes(J) /\ HeadUp.k = "done" /\ HeadUp.job = j /\ h'.conn = h.conn /\ h'.cand = h.cand
      /\ h'.pend = (h.pend \ {j}) \cup J
  BY DEF Follows, HostIs
<1>2. j \in h.pend
  BY <1>1, TakesTokens
<1>3. J \cap (h.pend \ {j}) = {}
  BY <1>2 DEF Waits
<1> QED BY <1>1, <1>2, <1>3, TakesTokens

\* The guest moves frames on its connection.
LEMMA GuestTokens ==
  ASSUME Shape, Tokens, guest.conn \in Conns, NEW u, NEW d, Moved(guest.conn, u, d),
         backlog' = backlog, h' = h, guest'.conn = guest.conn,
         Held(guest.conn) => Flight(u, d, AtWork(guest.conn)', Pending(guest.conn))
  PROVE  Tokens'
<1> SUFFICES ASSUME NEW e \in Conns, Held(e)' PROVE InFlight(e)'
  BY DEF Tokens
<1>1. Held(e) /\ Pending(e)' = Pending(e)
  BY DEF Held, Pending
<1>2. CASE e = guest.conn
  BY <1>1, <1>2 DEF InFlight, Moved
<1>3. CASE e # guest.conn
  <2>1. conns'[e] = conns[e] /\ AtWork(e)' = AtWork(e)
    BY <1>3 DEF Moved, AtWork
  <2> QED BY <1>1, <2>1, FlightSame
<1> QED BY <1>2, <1>3

\* One connection is closed or opened under the tokens of the others.
LEMMA TokensBut ==
  ASSUME Tokens, NEW c, \A e \in Conns : e # c => conns'[e] = conns[e],
         \A e \in Conns : e # c => AtWork(e)' = AtWork(e),
         \A e \in Conns : e # c /\ Held(e)' => Held(e) /\ Pending(e)' = Pending(e),
         c \in Conns /\ Held(c)' => InFlight(c)'
  PROVE  Tokens'
<1> SUFFICES ASSUME NEW e \in Conns, Held(e)' PROVE InFlight(e)'
  BY DEF Tokens
<1>1. CASE e = c
  BY <1>1
<1>2. CASE e # c
  BY <1>2, FlightSame
<1> QED BY <1>1, <1>2

LEMMA HostTokens ==
  ASSUME Shape, Shape', Ends, Ends', Waits, Tokens, HostOpens \/ ReplacementReady
  PROVE  Tokens'
<1>0. /\ h.conn \in Conns \cup {None} /\ h.cand \in Conns \cup {None} /\ None \notin Conns
      /\ h.conn # None <=> h.pc \in HasConn
      /\ h.cand # None <=> HasCand
      /\ h.pc \notin InSession => h.pend = {}
      /\ conns \in [Conns -> ConnRecords]
      /\ \A c \in Conns : Held(c)' => conns'[c].h
  <2>1. \A c \in Conns : Held(c)' => conns'[c].h
    BY HeldIsOpen
  <2> QED BY <2>1, Constants DEF Shape, HostRecords, Waits
<1>1. CASE Accept
  <2>1. /\ h.pc = "listen" /\ backlog # <<>> /\ h'.conn = Head(backlog) /\ h'.cand = h.cand
        /\ backlog' = Tail(backlog) /\ conns' = conns /\ guest' = guest /\ h'.pend = h.pend
    BY <1>1, AcceptIs DEF HostMoves, HostIs
  <2>2. h.pend = {}
    BY <1>0, <2>1 DEF InSession
  <2>3. \A c \in Conns : Held(c)' => Held(c)
    BY <2>1, BacklogPopped DEF Held
  <2>4. \A c \in Conns : Pending(c)' = Pending(c) /\ AtWork(c)' = AtWork(c)
    BY <2>1, <2>2 DEF Pending, AtWork
  <2> QED BY <2>1, <2>3, <2>4, TokensSame
<1>2. CASE ReplacementReady
  <2>1. /\ h.pc = "serve" /\ backlog # <<>> /\ h'.cand = Head(backlog) /\ h'.conn = h.conn
        /\ backlog' = Tail(backlog) /\ conns' = conns /\ guest' = guest /\ h'.pend = h.pend
    BY <1>2, ReplacementReadyIs DEF HostMoves, HostIs
  <2>3. \A c \in Conns : Held(c)' => Held(c)
    BY <2>1, BacklogPopped DEF Held
  <2>4. \A c \in Conns : Pending(c)' = Pending(c) /\ AtWork(c)' = AtWork(c)
    BY <2>1 DEF Pending, AtWork
  <2> QED BY <2>1, <2>3, <2>4, TokensSame
<1>3. ASSUME FailsToOpen PROVE Tokens'
  <2>1. /\ Closed(Opening) /\ guest' = guest /\ backlog' = backlog /\ h'.pend = h.pend
        /\ \/ h'.conn = h.conn /\ h'.cand = None
           \/ h'.conn = None /\ h'.cand = h.cand /\ h.pc \in {"hello", "proof"}
    BY <1>3 DEF FailsToOpen, hostOnly, HostMoves, HostIs, InCandidate
  <2> PICK c : c = Opening
    OBVIOUS
  <2>2. \A e \in Conns : e # c => conns'[e] = conns[e]
    BY <2>1 DEF Closed
  <2>3. \A e \in Conns : AtWork(e)' = AtWork(e)
    BY <2>1 DEF AtWork
  <2>4. \A e \in Conns : Held(e)' => Held(e)
    BY <1>0, <2>1 DEF Held
  <2>5. \A e \in Conns : Pending(e)' = Pending(e)
    BY <1>0, <2>1 DEF Pending, InSession
  <2>6. c \in Conns => ~Held(c)'
    BY <1>0, <2>1 DEF Closed
  <2> QED BY <2>2, <2>3, <2>4, <2>5, <2>6, TokensBut
<1>4. ASSUME Sends(Opening, Tail(conns[Opening].up), {}), conns[Opening].up # <<>>, Opening \in Conns,
             h'.pend = h.pend, h'.conn = h.conn, h'.cand = h.cand, UNCHANGED hostOnly
      PROVE  Tokens'
  <2> PICK c \in Conns : c = Opening
    BY <1>4
  <2>1. Held(c)
    BY DEF Held, Opening
  <2>2. Flight(conns[c].up, conns[c].down, AtWork(c), Pending(c))
    BY <2>1 DEF Tokens, InFlight
  <2>3. conns[c].up \in Seq(Wire) /\ conns[c].down \in Seq(Wire)
    BY <1>0, ConnIs
  <2>4. Flight(Tail(conns[c].up), conns[c].down, AtWork(c), Pending(c)) /\ Tail(conns[c].up) \in Seq(Wire)
    BY <1>4, <2>2, <2>3, FlightRead, TailIs
  <2>5. Pending(c) \cup {} = (IF c = h.conn THEN h'.pend ELSE {}) /\ {} \cap Pending(c) = {}
    BY <1>4 DEF Pending
  <2>6. backlog' = backlog /\ guest' = guest
    BY <1>4 DEF hostOnly
  <2> QED BY <1>4, <2>1, <2>4, <2>5, <2>6, SendsTokens
<1>5. CASE Greet
  <2>1. CASE FailsToOpen
    BY <1>3, <2>1
  <2>2. CASE ~FailsToOpen
    BY <1>4, <1>5, <2>2, GreetIs, ShapeGives DEF HostMoves, HostIs
  <2> QED BY <2>1, <2>2
<1>6. CASE Authenticate
  <2>1. CASE FailsToOpen
    BY <1>3, <2>1
  <2>2. CASE ~FailsToOpen
    BY <1>4, <1>6, <2>2, AuthenticateIs, ShapeGives DEF HostMoves, HostExits, HostIs
  <2> QED BY <2>1, <2>2
<1>7. CASE OpeningFails
  BY <1>3, <1>7, OpeningFailsIs
<1>8. CASE GoOnline
  <2> DEFINE first == Attaches(conns[h.conn].agreed)
  <2>1. /\ h.pc = "online" /\ Sends(h.conn, conns[h.conn].up, first)
        /\ h'.conn = h.conn /\ h'.cand = h.cand /\ h'.pend = first
        /\ backlog' = backlog /\ guest' = guest
    BY <1>8, GoOnlineIs DEF HostIs
  <2>2. h.conn \in Conns /\ h.pend = {} /\ Held(h.conn)
    BY <1>0, <2>1 DEF HasConn, InSession, Held
  <2>3. Flight(conns[h.conn].up, conns[h.conn].down, AtWork(h.conn), {})
    BY <2>2 DEF Tokens, InFlight, Pending
  <2>4. conns[h.conn].up \in Seq(Wire)
    BY <1>0, <2>2, ConnIs
  <2> HIDE DEF first
  <2> QED BY <2>1, <2>2, <2>3, <2>4, SendsTokens
<1>9. CASE SessionEnds
  <2>1. /\ Closed(h.conn) /\ backlog' = backlog /\ guest' = guest
        /\ h'.pend = {} /\ h'.cand = None /\ h'.conn \in {h.cand, None}
    BY <1>9, SessionEndsIs DEF HostIs
  <2> PICK c : c = h.conn
    OBVIOUS
  <2>2. \A e \in Conns : e # c => conns'[e] = conns[e]
    BY <2>1 DEF Closed
  <2>3. \A e \in Conns : AtWork(e)' = AtWork(e)
    BY <2>1 DEF AtWork
  <2>4. \A e \in Conns : e # c /\ Held(e)' => Held(e) /\ Pending(e)' = Pending(e)
    BY <1>0, <2>1 DEF Held, Pending
  <2>5. c \in Conns => ~Held(c)'
    BY <1>0, <2>1 DEF Closed
  <2> QED BY <2>2, <2>3, <2>4, <2>5, TokensBut
<1>10. CASE OfferAgain \/ ThreadEnds
  <2>1. /\ conns' = conns /\ guest' = guest /\ backlog' = backlog
        /\ h'.conn = None /\ h'.cand = None /\ h'.pend = {} /\ h.conn = None
    BY <1>0, <1>10, ListensOrEnds DEF HostIs, hostOnly, HasConn, InSession
  <2>2. \A c \in Conns : /\ Held(c)' => Held(c)
                         /\ Pending(c)' = Pending(c) /\ AtWork(c)' = AtWork(c)
    BY <1>0, <2>1 DEF Held, Pending, AtWork
  <2> QED BY <2>1, <2>2, TokensSame
<1>11. CASE ListenerCloses
  <2>1. /\ Closed(Head(backlog)) /\ backlog' = Tail(backlog) /\ h' = h /\ guest' = guest
        /\ backlog # <<>> /\ Head(backlog) \in Conns
    BY <1>11, ListenerClosesIs
  <2> PICK c \in Conns : c = Head(backlog)
    BY <2>1
  <2>2. \A e \in Conns : e # c => conns'[e] = conns[e]
    BY <2>1 DEF Closed
  <2>3. \A e \in Conns : AtWork(e)' = AtWork(e) /\ Pending(e)' = Pending(e)
    BY <2>1 DEF AtWork, Pending
  <2>4. \A e \in Conns : Held(e)' => Held(e)
    BY <2>1, BacklogPopped DEF Held
  <2>5. ~Held(c)'
    BY <1>0, <2>1 DEF Closed
  <2> QED BY <2>2, <2>3, <2>4, <2>5, TokensBut
<1> QED BY <1>1, <1>2, <1>5, <1>6, <1>7, <1>8, <1>9, <1>10, <1>11 DEF HostOpens

LEMMA SessionTokens ==
  ASSUME Shape, Waits, Tokens,
         \/ HostReads \/ SessionBreaks \/ Unresponsive
         \/ TakeUpdate \/ TakeReboot \/ SendLivenessProbe
  PROVE  Tokens'
<1>1. CASE GpuAttached \/ GpuRecipeApplied \/ GpuProbed
  BY <1>1, GpuReadIs, FollowsTokens DEF CapabilityFor
<1>2. CASE DisplayAttached \/ DisplayRecipeApplied
  BY <1>2, DisplayReadIs, FollowsTokens DEF CapabilityFor
<1>3. CASE UpdateAnswered \/ RebootAnswered
  <2>1. /\ Takes({}) /\ HeadUp.k = "done" /\ h'.pend = (h.pend \ {HeadUp.job}) \cup {}
        /\ h'.conn = h.conn /\ h'.cand = h.cand
    BY <1>3, UpdateAnsweredIs, RebootAnsweredIs DEF HostIs
  <2> QED BY <2>1, TakesTokens
<1>4. CASE ProbeAnswered
  <2>1. h.pend = {}
    BY <1>4, ProbeAnsweredIs DEF Waits
  <2>2. \E J : Takes(J) /\ h'.pend = h.pend \cup J /\ h'.conn = h.conn /\ h'.cand = h.cand
    BY <1>4, ProbeAnsweredIs DEF HostIs
  <2> QED BY <2>1, <2>2, TakesTokens
<1>5. CASE AnswerHeartbeat
  BY <1>5, AnswerHeartbeatIs, TakesTokens
<1>6. ASSUME NEW a, Probes(a), h.pc = "serve", backlog' = backlog, guest' = guest PROVE Tokens'
  <2>1. h.conn \in Conns /\ conns \in [Conns -> ConnRecords]
    BY <1>6, ShapeGives DEF HasConn, InSession
  <2>2. /\ Sends(h.conn, conns[h.conn].up, {}) /\ h'.pend = h.pend
        /\ h'.conn = h.conn /\ h'.cand = h.cand
    BY <1>6 DEF Probes, HostIs
  <2>3. Held(h.conn) /\ Flight(conns[h.conn].up, conns[h.conn].down, AtWork(h.conn), h.pend)
    BY <2>1 DEF Tokens, Held, InFlight, Pending
  <2>4. conns[h.conn].up \in Seq(Wire) /\ {} \cap h.pend = {} /\ h.pend \cup {} = h'.pend
    BY <2>1, <2>2, ConnIs
  <2> QED BY <1>6, <2>1, <2>2, <2>3, <2>4, SendsTokens
<1>7. ASSUME conns' = conns, guest' = guest, backlog' = backlog, h'.conn = h.conn, h'.cand = h.cand,
             h'.pend = h.pend
      PROVE  Tokens'
  BY <1>7, TokensSame DEF AtWork, Held, Pending
<1>8. CASE SessionBreaks \/ Unresponsive
  BY <1>7, <1>8, SessionStopsIs DEF HostExits, HostIs, hostOnly
<1>9. CASE TakeUpdate
  BY <1>6, <1>7, <1>9, TakeUpdateIs
<1>10. CASE TakeReboot \/ SendLivenessProbe
  BY <1>6, <1>10, TakeRebootIs, SendLivenessProbeIs DEF hostOnly
<1> QED BY <1>1, <1>2, <1>3, <1>4, <1>5, <1>8, <1>9, <1>10 DEF HostReads

LEMMA GuestStepTokens ==
  ASSUME Shape, Shape', Ends, Ends', Waits, Tokens, GuestStep \/ GuestDies \/ AgentDies
  PROVE  Tokens'
<1>0. /\ conns \in [Conns -> ConnRecords] /\ None \notin Conns
      /\ guest.pc = "busy" => guest.conn # None
      /\ \A c \in Conns : Held(c) => conns[c].h
  <2>1. \A c \in Conns : Held(c) => conns[c].h
    BY HeldIsOpen
  <2> QED BY <2>1, Constants DEF Shape, GuestHasConn
<1>1. CASE Boot \/ SelfUpdate \/ SelfUpdateWrite
  <2>1. /\ conns' = conns /\ h' = h /\ backlog' = backlog
        /\ guest.conn = None /\ guest'.conn = None
    BY <1>1, IndoorsIs DEF guestOnly, GuestIs
  <2>2. \A c \in Conns : AtWork(c)' = AtWork(c) /\ Pending(c)' = Pending(c) /\ (Held(c)' => Held(c))
    BY <1>0, <2>1 DEF AtWork, Pending, Held
  <2> QED BY <2>1, <2>2, TokensSame
<1>2. ASSUME NEW c \in Conns, Connect(c) PROVE Tokens'
  <2>1. /\ guest.pc = "away" /\ guest'.pc = "hello" /\ h' = h
        /\ \A e \in Conns : e # c => conns'[e] = conns[e]
        /\ conns'[c].down = <<>> /\ \E m \in Wire : m.k = "hello" /\ conns'[c].up = <<m>>
        /\ backlog' = Append(backlog, c) /\ backlog \in Seq(Conns)
    BY <1>2, ConnectIs DEF guestOnly, GuestIs, Shape
  <2>2. \A e \in Conns : AtWork(e)' = AtWork(e) /\ Pending(e)' = Pending(e) /\ AtWork(e)' = {}
    BY <2>1 DEF AtWork, Pending
  <2>3. \A i \in DOMAIN backlog' : \/ i \in DOMAIN backlog /\ backlog'[i] = backlog[i]
                                   \/ backlog'[i] = c
    BY <2>1
  <2>4. \A e \in Conns : e # c /\ Held(e)' => Held(e)
    BY <2>1, <2>3 DEF Held
  <2>5. InFlight(c)'
    <3>1. PICK m \in Wire : m.k = "hello" /\ conns'[c].up = <<m>>
      BY <2>1
    <3>2. Flight(<<m>>, <<>>, {}, Pending(c))
      BY <3>1, FlightOpens
    <3> QED BY <2>1, <2>2, <3>1, <3>2 DEF InFlight
  <2> QED BY <2>1, <2>2, <2>4, <2>5, TokensBut
<1>3. ASSUME guest.conn \in Conns
      PROVE  LET c == guest.conn
             IN /\ conns[c].up \in Seq(Wire) /\ conns[c].down \in Seq(Wire)
                /\ Held(c) => conns[c].h /\ Flight(conns[c].up, conns[c].down, AtWork(c), Pending(c))
  BY <1>0, <1>3, ConnIs DEF Tokens, InFlight
<1>4. CASE GuestGreeted \/ GuestAuthenticates \/ GuestAnswersHeartbeat
  <2> DEFINE c == guest.conn
  <2>1. /\ guest.pc # "busy" /\ guest'.pc # "busy" /\ guest'.conn = c /\ h' = h /\ backlog' = backlog
    BY <1>4, GuestTalksIs DEF GuestIs, guestOnly
  <2>2. PICK t : Plain(t) /\ GuestTells(t)
    BY <1>4, GuestTalksIs
  <2>3. c \in Conns /\ conns[c].down # <<>>
        /\ Moved(c, IF conns[c].h THEN conns[c].up \o t ELSE conns[c].up, Tail(conns[c].down))
    BY <2>2 DEF GuestTells
  <2>4. AtWork(c) = {} /\ AtWork(c)' = {}
    BY <2>1 DEF AtWork
  <2>5. Held(c) => Flight(conns[c].up \o t, Tail(conns[c].down), {}, Pending(c)) /\ conns[c].h
    <3>1. SUFFICES ASSUME Held(c) PROVE Flight(conns[c].up \o t, Tail(conns[c].down), {}, Pending(c))
      BY <1>3, <2>3
    <3>2. Flight(conns[c].up, conns[c].down, {}, Pending(c))
          /\ conns[c].up \in Seq(Wire) /\ conns[c].down \in Seq(Wire)
      BY <1>3, <2>3, <2>4, <3>1
    <3>3. Flight(conns[c].up, Tail(conns[c].down), {}, Pending(c)) /\ Tail(conns[c].down) \in Seq(Wire)
      BY <2>3, <3>2, FlightTaken, TailIs
    <3>4. t \in Seq(Wire) /\ Once(t, "done") /\ JobsIn(t, "done") \subseteq {}
          /\ {} \ JobsIn(t, "done") = {}
      BY <2>2 DEF Plain
    <3>5. Flight(conns[c].up \o t, Tail(conns[c].down), {} \ JobsIn(t, "done"), Pending(c))
      BY <3>2, <3>3, <3>4, FlightDone
    <3> QED BY <3>4, <3>5
  <2> QED BY <2>1, <2>3, <2>4, <2>5, GuestTokens
<1>5. CASE GuestHeartbeat
  <2> DEFINE c == guest.conn
  <2>1. /\ guest.pc # "busy" /\ guest'.pc # "busy" /\ guest'.conn = c /\ h' = h /\ backlog' = backlog
        /\ c \in Conns
    BY <1>5, GuestHeartbeatIs DEF GuestIs, guestOnly
  <2>2. PICK t : Plain(t) /\ Moved(c, conns[c].up \o t, conns[c].down)
    BY <1>5, GuestHeartbeatIs
  <2>3. AtWork(c) = {} /\ AtWork(c)' = {}
    BY <2>1 DEF AtWork
  <2>4. t \in Seq(Wire) /\ Once(t, "done") /\ JobsIn(t, "done") \subseteq {}
        /\ {} \ JobsIn(t, "done") = {}
    BY <2>2 DEF Plain
  <2>5. ASSUME Held(c) PROVE Flight(conns[c].up \o t, conns[c].down, {}, Pending(c))
    <3>1. Flight(conns[c].up, conns[c].down, {}, Pending(c))
          /\ conns[c].up \in Seq(Wire) /\ conns[c].down \in Seq(Wire)
      BY <1>3, <2>1, <2>3, <2>5
    <3>2. Flight(conns[c].up \o t, conns[c].down, {} \ JobsIn(t, "done"), Pending(c))
      BY <2>4, <3>1, FlightDone
    <3> QED BY <2>4, <3>2
  <2> QED BY <2>1, <2>2, <2>3, <2>5, GuestTokens
<1>6. CASE GuestBegins
  <2> DEFINE c == guest.conn
  <2>1. /\ guest.pc = "serve" /\ guest'.pc = "busy" /\ guest'.conn = c /\ guest'.job = HeadDown
        /\ HeadDown.k = "job" /\ h' = h /\ backlog' = backlog /\ GuestTells(<<>>)
    BY <1>6, GuestBeginsIs DEF GuestIs, guestOnly
  <2>2. c \in Conns /\ conns[c].down # <<>>
        /\ Moved(c, IF conns[c].h THEN conns[c].up \o <<>> ELSE conns[c].up, Tail(conns[c].down))
    BY <2>1 DEF GuestTells
  <2>3. AtWork(c) = {} /\ AtWork(c)' = {HeadDown.job}
    BY <2>1 DEF AtWork
  <2>4. conns[c].up \o <<>> = conns[c].up
    BY <1>3, <2>2
  <2>5. ASSUME Held(c) PROVE Flight(conns[c].up, Tail(conns[c].down), {HeadDown.job}, Pending(c))
    <3>1. Flight(conns[c].up, conns[c].down, {}, Pending(c))
          /\ conns[c].up \in Seq(Wire) /\ conns[c].down \in Seq(Wire)
      BY <1>3, <2>2, <2>3, <2>5
    <3> QED BY <2>1, <2>2, <3>1, FlightTaken DEF HeadDown
  <2> QED BY <2>1, <2>2, <2>3, <2>4, <2>5, GuestTokens
<1>7. CASE GuestFinishes
  <2> DEFINE c == guest.conn
  <2>1. /\ guest.pc = "busy" /\ guest'.pc = "serve" /\ guest'.conn = c /\ h' = h /\ backlog' = backlog
        /\ c \in Conns
    BY <1>7, GuestFinishesIs DEF GuestIs, guestOnly
  <2>2. PICK m \in Wire :
          /\ m.k = "done" /\ m.job = guest.job.job
          /\ Moved(c, IF conns[c].h THEN conns[c].up \o <<m>> ELSE conns[c].up, conns[c].down)
    BY <1>7, GuestFinishesIs
  <2>3. AtWork(c) = {guest.job.job} /\ AtWork(c)' = {}
    BY <2>1 DEF AtWork
  <2>4. <<m>> \in Seq(Wire) /\ Once(<<m>>, "done") /\ JobsIn(<<m>>, "done") = {guest.job.job}
    BY <2>2, FewAreWire, JobsOfFew
  <2>5. ASSUME Held(c)
        PROVE  Flight(conns[c].up \o <<m>>, conns[c].down, {}, Pending(c)) /\ conns[c].h
    <3>1. Flight(conns[c].up, conns[c].down, {guest.job.job}, Pending(c)) /\ conns[c].h
          /\ conns[c].up \in Seq(Wire) /\ conns[c].down \in Seq(Wire)
      BY <1>3, <2>1, <2>3, <2>5
    <3>2. Flight(conns[c].up \o <<m>>, conns[c].down, {guest.job.job} \ {guest.job.job}, Pending(c))
      BY <2>4, <3>1, FlightDone
    <3>3. {guest.job.job} \ {guest.job.job} = {}
      OBVIOUS
    <3> QED BY <3>1, <3>2, <3>3
  <2> QED BY <2>1, <2>2, <2>3, <2>5, GuestTokens
<1>8. CASE GuestSessionEnds \/ GuestGoesDown \/ GuestDies \/ AgentDies
  <2> PICK c : c = guest.conn
    OBVIOUS
  <2>1. /\ h' = h /\ backlog' = backlog /\ guest'.conn = None
        /\ IF c = None THEN conns' = conns ELSE Ended(c)
    BY <1>8, GuestLeavesIs DEF GuestLeaves, GuestIs, guestOnly
  <2>2. \A e \in Conns : AtWork(e)' = {} /\ (e # c => AtWork(e) = {})
                         /\ Pending(e)' = Pending(e) /\ (Held(e)' => Held(e))
    BY <1>0, <2>1 DEF AtWork, Pending, Held
  <2>3. \A e \in Conns : e # c => conns'[e] = conns[e]
    BY <2>1 DEF Ended
  <2>4. ASSUME c \in Conns, Held(c)' PROVE InFlight(c)'
    <3>1. Flight(conns[c].up, conns[c].down, AtWork(c), Pending(c)) /\ conns[c].h
      BY <1>3, <2>2, <2>4
    <3>2. Flight(conns[c].up, <<>>, {}, Pending(c))
      BY <3>1, FlightLost
    <3>3. conns'[c].up = conns[c].up /\ conns'[c].down = <<>>
      BY <1>0, <2>1, <2>4, <3>1 DEF Ended
    <3>4. AtWork(c)' = {} /\ Pending(c)' = Pending(c)
      BY <2>2, <2>4
    <3> QED BY <3>2, <3>3, <3>4 DEF InFlight
  <2> QED BY <2>2, <2>3, <2>4, TokensBut
<1> QED BY <1>1, <1>2, <1>4, <1>5, <1>6, <1>7, <1>8 DEF GuestStep, GuestWorks

LEMMA TokensNext ==
  ASSUME Shape, Shape', Ends, Ends', Waits, Tokens, Next
  PROVE  Tokens'
<1>1. CASE Cancel \/ CallerStep
  <2>1. conns' = conns /\ guest' = guest /\ backlog' = backlog /\ h' = h
    BY <1>1 DEF Cancel, CallerStep, Ask, GiveUp, RecordAnswer, callerOnly
  <2> QED BY <2>1, TokensSame DEF AtWork, Held, Pending
<1> QED BY <1>1, HostTokens, SessionTokens, GuestStepTokens DEF Next, HostStep

-----------------------------------------------------------------------------
(* The callers. *)

\* Nothing a caller waits for changes.
LEMMA WaitsSame ==
  ASSUME Waits, UNCHANGED <<online, queue, asks>>,
         h'.pc \in InSession <=> h.pc \in InSession,
         h'.pend = h.pend, h'.probe <=> h.probe, h'.parked = h.parked, h'.upd = h.upd, h'.reb = h.reb
  PROVE  Waits'
  BY DEF Waits, Waiting

\* Whom a caller's request is with.
With(a) ==
  \/ a = h.parked \/ a = h.upd \/ a = h.reb
  \/ \E i \in DOMAIN queue.update : a = queue.update[i]
  \/ \E i \in DOMAIN queue.reboot : a = queue.reboot[i]
Lanes == \A j, k \in h.pend : CapabilityFor(j) = CapabilityFor(k) => j = k

\* A session's step: whoever waits has its request with the session, and what
\* is in flight keeps to its lanes.
LEMMA WaitsServed ==
  ASSUME Shape, Waits, h.pc \in InSession, h'.pc \in InSession, online' = online,
         \A a \in Asks : Waiting(a)' => Waiting(a) /\ With(a)',
         h'.probe => h'.pend = {},
         ~h'.probe => h'.parked = None,
         h'.upd # None => "update" \in h'.pend,
         h'.reb # None => "reboot" \in h'.pend /\ AskKind[h'.reb] = "reboot",
         Lanes'
  PROVE  Waits'
<1>1. online /\ online'
  BY DEF Waits
<1> QED BY <1>1 DEF Waits, With, Lanes

\* The answer to one job is in, and at most one other of its lane follows.
LEMMA LanesFollow ==
  ASSUME Waits, NEW j \in h.pend, NEW J, h'.pend = (h.pend \ {j}) \cup J,
         J = {} \/ \E n : J = {n} /\ CapabilityFor(n) = CapabilityFor(j)
  PROVE  Lanes' /\ ~h.probe
<1>1. \A i, k \in h.pend : CapabilityFor(i) = CapabilityFor(k) => i = k
  BY DEF Waits
<1>2. ~h.probe
  BY DEF Waits
<1> QED BY <1>1, <1>2 DEF Lanes

LEMMA WaitsHost ==
  ASSUME Shape, Waits,
         \/ HostOpens \/ ReplacementReady \/ SessionBreaks \/ Unresponsive \/ AnswerHeartbeat
  PROVE  Waits'
<1>0. online <=> h.pc \in InSession
  BY DEF Waits
<1>1. CASE Accept \/ ReplacementReady
  BY <1>1, AcceptIs, ReplacementReadyIs, WaitsSame DEF HostMoves, HostIs, InSession
<1>2. ASSUME FailsToOpen PROVE Waits'
  BY <1>2, WaitsSame DEF FailsToOpen, HostMoves, HostIs, InSession, hostOnly, InCandidate
<1>3. CASE Greet
  BY <1>2, <1>3, GreetIs, WaitsSame DEF HostMoves, HostIs, InSession, hostOnly, InCandidate
<1>4. CASE Authenticate
  BY <1>2, <1>4, AuthenticateIs, WaitsSame DEF HostMoves, HostExits, HostIs, InSession, hostOnly, InCandidate
<1>5. CASE OpeningFails
  BY <1>2, <1>5, OpeningFailsIs
<1>6. CASE OfferAgain \/ ThreadEnds
  BY <1>0, <1>6, ListensOrEnds, WaitsSame DEF HostIs, InSession, hostOnly, Waits
<1>7. CASE ListenerCloses
  BY <1>7, ListenerClosesIs, WaitsSame
<1>8. CASE SessionBreaks \/ Unresponsive
  BY <1>8, SessionStopsIs, WaitsSame DEF HostExits, HostIs, InSession, hostOnly
<1>9. CASE AnswerHeartbeat
  BY <1>9, AnswerHeartbeatIs, WaitsSame DEF Takes, sessionOnly
<1>10. CASE GoOnline
  <2>1. /\ h.pc = "online" /\ online' /\ h'.pc = "serve" /\ UNCHANGED <<queue, asks>>
        /\ h'.pend \subseteq {"attach_gpu", "attach_display"} /\ ~h'.probe
        /\ h'.parked = h.parked /\ h'.upd = h.upd /\ h'.reb = h.reb
    BY <1>10, GoOnlineIs, AttachesAre DEF HostIs
  <2>2. ~online /\ h.parked = None /\ h.upd = None /\ h.reb = None
    BY <1>0, <2>1 DEF Waits, InSession
  <2>3. \A a \in Asks : ~Waiting(a)'
    BY <2>1, <2>2 DEF Waits, Waiting
  <2>4. \A j, k \in h'.pend : CapabilityFor(j) = CapabilityFor(k) => j = k
    BY <2>1 DEF CapabilityFor
  <2> QED BY <2>1, <2>2, <2>3, <2>4 DEF Waits, InSession
<1>11. CASE SessionEnds
  <2>1. /\ ~online' /\ asks' = Drained.asks /\ asks \in [Asks -> AskRecords]
        /\ h'.pc \notin InSession /\ h'.pend = {} /\ ~h'.probe
        /\ h'.parked = None /\ h'.upd = None /\ h'.reb = None
    BY <1>11, SessionEndsIs DEF HostIs, Shape, InSession
  <2>2. \A a \in Asks : ~Waiting(a)'
    <3>1. Over.st = "over"
      BY DEF Over
    <3>2. \A a \in Asks : Waiting(a) => asks'[a] = Over
      BY <2>1, DrainedIs DEF Waits
    <3> QED BY <2>1, <3>1, <3>2, DrainedIs DEF Waiting
  <2> QED BY <2>1, <2>2 DEF Waits
<1> QED BY <1>1, <1>3, <1>4, <1>5, <1>6, <1>7, <1>8, <1>9, <1>10, <1>11 DEF HostOpens

\* What is popped of a queue, and what is put into one.
LEMMA Popped ==
  ASSUME NEW s \in Seq(Asks), s # <<>>, NEW i \in DOMAIN s
  PROVE  s[i] = Head(s) \/ \E k \in DOMAIN Tail(s) : s[i] = Tail(s)[k]
  BY TailIs

LEMMA Queued ==
  ASSUME NEW s \in Seq(Asks), NEW a \in Asks
  PROVE  /\ \E k \in DOMAIN Append(s, a) : Append(s, a)[k] = a
         /\ \A i \in DOMAIN s : i \in DOMAIN Append(s, a) /\ Append(s, a)[i] = s[i]
         /\ \A i \in DOMAIN Append(s, a) : \/ i \in DOMAIN s /\ Append(s, a)[i] = s[i]
                                           \/ i = Len(s) + 1 /\ Append(s, a)[i] = a
<1>1. Len(s) + 1 \in DOMAIN Append(s, a) /\ Append(s, a)[Len(s) + 1] = a
  OBVIOUS
<1>2. /\ \A i \in DOMAIN s : i \in DOMAIN Append(s, a) /\ Append(s, a)[i] = s[i]
      /\ \A i \in DOMAIN Append(s, a) : \/ i \in DOMAIN s /\ Append(s, a)[i] = s[i]
                                        \/ i = Len(s) + 1 /\ Append(s, a)[i] = a
  OBVIOUS
<1> QED BY <1>1, <1>2

LEMMA WaitsFollows ==
  ASSUME Shape, Waits, Tokens, UNCHANGED asks, NEW j, NEW J, Follows(j, J), j \notin {"update", "reboot"},
         J = {} \/ \E n : J = {n} /\ CapabilityFor(n) = CapabilityFor(j)
  PROVE  Waits'
<1>1. /\ h.pc = "serve" /\ h'.pc = "serve" /\ h'.pend = (h.pend \ {j}) \cup J
      /\ h'.probe <=> h.probe
      /\ h'.parked = h.parked /\ h'.upd = h.upd /\ h'.reb = h.reb
      /\ UNCHANGED <<online, queue>>
  BY DEF Follows, HostIs, Takes, sessionOnly
<1>2. j \in h.pend
  BY FollowsTokens
<1>3. Lanes' /\ ~h.probe
  BY <1>1, <1>2, LanesFollow
<1>4. \A a \in Asks : Waiting(a)' => Waiting(a) /\ With(a)'
  BY <1>1 DEF Waits, Waiting, With
<1>5. /\ h'.upd # None => "update" \in h'.pend
      /\ h'.reb # None => "reboot" \in h'.pend /\ AskKind[h'.reb] = "reboot"
      /\ ~h'.probe => h'.parked = None
  BY <1>1 DEF Waits
<1> QED BY <1>1, <1>3, <1>4, <1>5, WaitsServed DEF InSession

LEMMA WaitsReads ==
  ASSUME Shape, Waits, Tokens, HostReads
  PROVE  Waits'
<1>0. /\ asks \in [Asks -> AskRecords] /\ None \notin Asks /\ None \in Loaded
      /\ h.parked \in Asks \cup {None} /\ h.upd \in Asks \cup {None} /\ h.reb \in Asks \cup {None}
  BY Constants DEF Shape, HostRecords, Loaded
<1>1. CASE AnswerHeartbeat
  BY <1>1, WaitsHost
<1>2. CASE GpuAttached \/ GpuRecipeApplied \/ GpuProbed
  BY <1>2, GpuReadIs, WaitsFollows DEF CapabilityFor
<1>3. CASE DisplayAttached \/ DisplayRecipeApplied
  BY <1>3, DisplayReadIs, WaitsFollows DEF CapabilityFor
<1>4. CASE UpdateAnswered
  <2>1. /\ h.pc = "serve" /\ h'.pc = "serve" /\ h'.pend = (h.pend \ {"update"}) \cup {}
        /\ h'.probe <=> h.probe
        /\ h'.parked = h.parked /\ h'.upd = None /\ h'.reb = h.reb /\ h'.conn = h.conn /\ h'.cand = h.cand
        /\ UNCHANGED <<online, queue>> /\ asks' = Told(h.upd, HeadUp.p)
        /\ Takes({}) /\ HeadUp.k = "done" /\ HeadUp.job = "update" /\ conns[h.conn].up # <<>>
    BY <1>4, UpdateAnsweredIs DEF HostIs, Takes, sessionOnly
  <2>2. "update" \in h.pend
    BY <2>1, TakesTokens
  <2>3. Lanes' /\ ~h.probe
    BY <2>1, <2>2, LanesFollow
  <2>4. HeadUp.p \in Loaded
    BY <2>1, HeadUpIs
  <2>5. \A a \in Asks : Waiting(a)' => Waiting(a) /\ a # h.upd
    BY <1>0, <2>1, <2>4, ToldIs DEF Waiting
  <2>6. \A a \in Asks : Waiting(a)' => Waiting(a) /\ With(a)'
    BY <2>1, <2>5 DEF Waits, With
  <2>7. /\ h'.reb # None => "reboot" \in h'.pend /\ AskKind[h'.reb] = "reboot"
        /\ ~h'.probe => h'.parked = None
    BY <2>1 DEF Waits
  <2> QED BY <2>1, <2>3, <2>6, <2>7, WaitsServed DEF InSession
<1>5. CASE RebootAnswered
  <2>1. /\ h.pc = "serve" /\ h'.pc = "serve" /\ h'.pend = (h.pend \ {"reboot"}) \cup {}
        /\ h'.probe <=> h.probe
        /\ h'.parked = h.parked /\ h'.upd = h.upd /\ h'.reb = None /\ h'.conn = h.conn /\ h'.cand = h.cand
        /\ UNCHANGED <<online, queue>> /\ asks' = Told(h.reb, None)
        /\ Takes({}) /\ HeadUp.k = "done" /\ HeadUp.job = "reboot"
    BY <1>5, RebootAnsweredIs DEF HostIs, Takes, sessionOnly
  <2>2. "reboot" \in h.pend
    BY <2>1, TakesTokens
  <2>3. Lanes' /\ ~h.probe
    BY <2>1, <2>2, LanesFollow
  <2>5. \A a \in Asks : Waiting(a)' => Waiting(a) /\ a # h.reb
    BY <1>0, <2>1, ToldIs DEF Waiting
  <2>6. \A a \in Asks : Waiting(a)' => Waiting(a) /\ With(a)'
    BY <2>1, <2>5 DEF Waits, With
  <2>7. /\ h'.upd # None => "update" \in h'.pend
        /\ ~h'.probe => h'.parked = None
    BY <2>1 DEF Waits
  <2> QED BY <2>1, <2>3, <2>6, <2>7, WaitsServed DEF InSession
<1>6. CASE ProbeAnswered
  <2>0. /\ h.pc = "serve" /\ h'.pc = "serve" /\ h.pend = {} /\ h.upd = None /\ h.reb = None
        /\ ~h'.probe /\ UNCHANGED <<online, queue>>
    BY <1>6, ProbeAnsweredIs DEF HostIs, Takes, sessionOnly, Waits
  <2>1. \/ /\ h.parked = None /\ UNCHANGED asks /\ h'.pend = {} /\ h'.parked = None
           /\ h'.upd = None /\ h'.reb = None
        \/ /\ h'.pend = {"update"} /\ h'.parked = None /\ h'.upd = h.parked /\ h'.reb = None
           /\ UNCHANGED asks
        \/ /\ asks' = Told(h.parked, None) /\ h'.pend = {} /\ h'.parked = None
           /\ h'.upd = None /\ h'.reb = None
        \/ /\ h.parked # None /\ AskKind[h.parked] # "update" /\ UNCHANGED asks
           /\ h'.pend = {"reboot"} /\ h'.parked = None /\ h'.upd = None /\ h'.reb = h.parked
    BY <1>6, <2>0, ProbeAnsweredIs DEF HostIs
  <2>2. \A a \in Asks : Waiting(a)' => Waiting(a) /\ With(a)'
    <3>0. \A a \in Asks : Waiting(a) => With(a)
      BY DEF Waits, With
    <3>1. CASE UNCHANGED asks /\ h'.upd = h.parked
      BY <1>0, <2>0, <3>0, <3>1 DEF Waiting, With
    <3>3. CASE UNCHANGED asks /\ h'.reb = h.parked
      BY <1>0, <2>0, <3>0, <3>3 DEF Waiting, With
    <3>2. CASE asks' = Told(h.parked, None) /\ h'.pend = {} /\ h'.parked = None
                 /\ h'.upd = None /\ h'.reb = None
      <4>1. \A a \in Asks : Waiting(a)' => Waiting(a) /\ a # h.parked
        BY <1>0, <3>2, ToldIs DEF Waiting
      <4> QED BY <1>0, <2>0, <3>0, <4>1 DEF With
    <3> QED BY <2>1, <3>1, <3>2, <3>3
  <2>3. /\ h'.upd # None => "update" \in h'.pend
        /\ h'.reb # None => "reboot" \in h'.pend /\ AskKind[h'.reb] = "reboot"
        /\ h'.parked = None
    BY <1>0, <2>1, Constants
  <2>4. Lanes'
    BY <2>1 DEF Lanes
  <2> QED BY <2>0, <2>2, <2>3, <2>4, WaitsServed DEF InSession
<1> QED BY <1>1, <1>2, <1>3, <1>4, <1>5, <1>6 DEF HostReads

LEMMA WaitsTakes ==
  ASSUME Shape, Waits, TakeUpdate \/ TakeReboot \/ SendLivenessProbe
  PROVE  Waits'
<1>0. /\ asks \in [Asks -> AskRecords] /\ None \notin Asks /\ None \in Loaded
      /\ queue.update \in Seq(Asks) /\ queue.reboot \in Seq(Asks)
  BY Constants DEF Shape, Loaded
<1>1. ASSUME NEW a, Probes(a), UNCHANGED <<online, asks>>, h.pc = "serve", h.pend = {}, ~h.probe,
             \A b \in Asks : Waiting(b) => With(b)'
      PROVE  Waits'
  <2>1. h'.pc = "serve" /\ h'.pend = {} /\ h'.probe /\ h'.upd = None /\ h'.reb = None
    BY <1>1 DEF Probes, HostIs, Waits
  <2>2. \A b \in Asks : Waiting(b)' => Waiting(b) /\ With(b)'
    BY <1>1 DEF Waiting
  <2> QED BY <1>1, <2>1, <2>2, WaitsServed DEF InSession, Lanes
<1>2. \A b \in Asks : Waiting(b) => With(b)
  BY DEF Waits, With
<1>3. CASE TakeUpdate
  <2>0. /\ h.pc = "serve" /\ ~h.probe /\ h.pend = {} /\ queue.update # <<>> /\ h.parked = None
        /\ queue'.update = Tail(queue.update) /\ queue'.reboot = queue.reboot /\ online' = online
        /\ \/ Probes(Head(queue.update)) /\ UNCHANGED asks
           \/ asks' = Told(Head(queue.update), None) /\ UNCHANGED h
    BY <1>3, TakeUpdateIs DEF Waits
  <2>1. \A i \in DOMAIN queue.update : \/ queue.update[i] = Head(queue.update)
                                       \/ \E k \in DOMAIN queue'.update : queue.update[i] = queue'.update[k]
    BY <1>0, <2>0, Popped
  <2>2. CASE Probes(Head(queue.update)) /\ UNCHANGED asks
    <3>1. h'.parked = Head(queue.update) /\ h'.upd = h.upd /\ h'.reb = h.reb
      BY <2>2 DEF Probes, HostIs
    <3>2. \A b \in Asks : Waiting(b) => With(b)'
      <4> SUFFICES ASSUME NEW b \in Asks, Waiting(b) PROVE With(b)'
        OBVIOUS
      <4>1. b # None /\ With(b)
        BY <1>0, <1>2
      <4>2. CASE \E i \in DOMAIN queue.update : b = queue.update[i]
        BY <2>1, <3>1, <4>2 DEF With
      <4>3. CASE ~\E i \in DOMAIN queue.update : b = queue.update[i]
        BY <2>0, <3>1, <4>1, <4>3 DEF With
      <4> QED BY <4>2, <4>3
    <3> QED BY <1>1, <2>0, <2>2, <3>2
  <2>3. CASE asks' = Told(Head(queue.update), None) /\ UNCHANGED h
    <3>1. \A b \in Asks : Waiting(b)' => Waiting(b) /\ b # Head(queue.update)
      BY <1>0, <2>3, ToldIs DEF Waiting
    <3>2. \A b \in Asks : Waiting(b)' => Waiting(b) /\ With(b)'
      BY <1>2, <2>0, <2>1, <2>3, <3>1 DEF With
    <3>3. Lanes'
      BY <2>3 DEF Waits, Lanes
    <3> QED BY <2>0, <2>3, <3>2, <3>3, WaitsServed DEF Waits, InSession
  <2> QED BY <2>0, <2>2, <2>3
<1>4. CASE TakeReboot
  <2>0. /\ h.pc = "serve" /\ ~h.probe /\ h.pend = {} /\ queue.reboot # <<>> /\ h.parked = None
        /\ queue'.reboot = Tail(queue.reboot) /\ queue'.update = queue.update
        /\ Probes(Head(queue.reboot)) /\ UNCHANGED <<online, asks>>
    BY <1>4, TakeRebootIs DEF Waits
  <2>1. \A i \in DOMAIN queue.reboot : \/ queue.reboot[i] = Head(queue.reboot)
                                       \/ \E k \in DOMAIN queue'.reboot : queue.reboot[i] = queue'.reboot[k]
    BY <1>0, <2>0, Popped
  <2>2. h'.parked = Head(queue.reboot) /\ h'.upd = h.upd /\ h'.reb = h.reb
    BY <2>0 DEF Probes, HostIs
  <2>3. \A b \in Asks : Waiting(b) => With(b)'
    <3> SUFFICES ASSUME NEW b \in Asks, Waiting(b) PROVE With(b)'
      OBVIOUS
    <3>1. b # None /\ With(b)
      BY <1>0, <1>2
    <3>2. CASE \E i \in DOMAIN queue.reboot : b = queue.reboot[i]
      BY <2>1, <2>2, <3>2 DEF With
    <3>3. CASE ~\E i \in DOMAIN queue.reboot : b = queue.reboot[i]
      BY <2>0, <2>2, <3>1, <3>3 DEF With
    <3> QED BY <3>2, <3>3
  <2> QED BY <1>1, <2>0, <2>3
<1>5. CASE SendLivenessProbe
  <2>0. /\ h.pc = "serve" /\ ~h.probe /\ h.pend = {} /\ h.parked = None
        /\ Probes(None) /\ UNCHANGED <<online, asks, queue>>
    BY <1>5, SendLivenessProbeIs DEF Waits, hostOnly
  <2>1. h'.parked = None /\ h'.upd = h.upd /\ h'.reb = h.reb
    BY <2>0 DEF Probes, HostIs
  <2>2. \A b \in Asks : Waiting(b) => With(b)'
    BY <1>0, <1>2, <2>0, <2>1 DEF With
  <2> QED BY <1>1, <2>0, <2>2
<1> QED BY <1>3, <1>4, <1>5

\* No step of the guest is one of the host's or a caller's.
LEMMA GuestsAre ==
  ASSUME GuestStep \/ GuestDies \/ AgentDies
  PROVE  UNCHANGED guestOnly
  BY DEF GuestStep, GuestWorks, GuestHeartbeat, GuestDies, AgentDies, Boot, SelfUpdate, SelfUpdateWrite,
         Connect, GuestGreeted, GuestAuthenticates, GuestSessionEnds, GuestAnswersHeartbeat,
         GuestBegins, GuestFinishes, GuestGoesDown

LEMMA WaitsNext ==
  ASSUME Shape, Waits, Tokens, Next
  PROVE  Waits'
<1>1. CASE GuestStep \/ GuestDies \/ AgentDies \/ Cancel
  <2>1. UNCHANGED <<h, online, queue, asks>>
    BY <1>1, GuestsAre DEF guestOnly, Cancel
  <2> QED BY <2>1, WaitsSame
<1>2. ASSUME NEW a \in Asks, GiveUp(a) \/ RecordAnswer(a) PROVE Waits'
  <2>1. UNCHANGED <<h, online, queue>>
    BY <1>2 DEF GiveUp, RecordAnswer, callerOnly
  <2>2. \A b \in Asks : Waiting(b)' => Waiting(b)
    BY <1>2, CallersAre DEF Waiting
  <2> QED BY <2>1, <2>2 DEF Waits
<1>3. ASSUME NEW a \in Asks, Ask(a) PROVE Waits'
  <2>1. UNCHANGED <<h, online>>
    BY <1>3 DEF Ask, callerOnly
  <2>2. CASE ~online
    <3>1. \A b \in Asks : ~Waiting(b)'
      BY <1>3, <2>2, CallersAre DEF Waiting, Waits
    <3> QED BY <2>1, <2>2, <3>1 DEF Waits
  <2>3. CASE online
    <3>0. queue.update \in Seq(Asks) /\ queue.reboot \in Seq(Asks) /\ AskKind[a] \in {"update", "reboot"}
      BY Constants DEF Shape
    <3>1. \A b \in Asks : Waiting(b)' => b = a \/ Waiting(b)
      BY <1>3, CallersAre DEF Waiting
    <3>2. /\ \A i \in DOMAIN queue.update : \E k \in DOMAIN queue'.update : queue'.update[k] = queue.update[i]
          /\ \A i \in DOMAIN queue.reboot : \E k \in DOMAIN queue'.reboot : queue'.reboot[k] = queue.reboot[i]
          /\ \/ \E k \in DOMAIN queue'.update : queue'.update[k] = a
             \/ \E k \in DOMAIN queue'.reboot : queue'.reboot[k] = a
      <4>1. CASE AskKind[a] = "update"
        <5>1. queue'.update = Append(queue.update, a) /\ queue'.reboot = queue.reboot
          BY <1>3, <2>3, <4>1, QueuesAre
        <5>2. /\ \A i \in DOMAIN queue.update : i \in DOMAIN queue'.update /\ queue'.update[i] = queue.update[i]
              /\ \E n \in DOMAIN queue'.update : queue'.update[n] = a
          BY <3>0, <5>1, Queued
        <5> QED BY <5>1, <5>2
      <4>2. CASE AskKind[a] = "reboot"
        <5>1. queue'.reboot = Append(queue.reboot, a) /\ queue'.update = queue.update
          BY <1>3, <2>3, <4>2, QueuesAre
        <5>2. /\ \A i \in DOMAIN queue.reboot : i \in DOMAIN queue'.reboot /\ queue'.reboot[i] = queue.reboot[i]
              /\ \E n \in DOMAIN queue'.reboot : queue'.reboot[n] = a
          BY <3>0, <5>1, Queued
        <5> QED BY <5>1, <5>2
      <4> QED BY <3>0, <4>1, <4>2
    <3> QED BY <2>1, <2>3, <3>1, <3>2 DEF Waits
  <2> QED BY <2>2, <2>3
<1> QED BY <1>1, <1>2, <1>3, WaitsHost, WaitsReads, WaitsTakes DEF Next, HostStep, CallerStep

-----------------------------------------------------------------------------
(* What the host is told. *)

\* A step that leaves alone what the two ends of a session have in common.
Quiet ==
  SameConn' => /\ SameConn /\ h'.conn = h.conn /\ h.conn \in Conns
               /\ conns'[h.conn].up = conns[h.conn].up
               /\ conns'[h.conn].agreed = conns[h.conn].agreed
               /\ disp' = disp /\ guest'.offer = guest.offer

LEMMA SessionGives ==
  ASSUME Shape, Ends, Waits
  PROVE  /\ online <=> h.pc \in InSession
         /\ online => h.conn \in Conns /\ h.conn # h.cand /\ conns[h.conn].h
         /\ SameConn => online /\ guest.conn = h.conn /\ h.conn \in Conns
<1>1. online <=> h.pc \in InSession
  BY DEF Waits
<1>2. online => h.conn \in Conns
  BY <1>1, ShapeGives DEF HasConn
<1>3. online => h.conn # h.cand /\ conns[h.conn].h
  BY <1>2, ShapeGives DEF Ends
<1> QED BY <1>1, <1>2, <1>3 DEF SameConn

LEMMA QuietHost ==
  ASSUME Shape, Ends, Waits,
         \/ Accept \/ Greet \/ Authenticate \/ OpeningFails \/ SessionEnds \/ OfferAgain \/ ThreadEnds
         \/ ListenerCloses \/ ReplacementReady \/ SessionBreaks \/ Unresponsive
         \/ TakeUpdate \/ TakeReboot \/ SendLivenessProbe \/ Cancel \/ CallerStep
  PROVE  Quiet
<1>0. /\ online <=> h.pc \in InSession
      /\ online => h.conn \in Conns /\ h.conn # h.cand /\ conns[h.conn].h
      /\ SameConn => online /\ guest.conn = h.conn /\ h.conn \in Conns
  BY SessionGives
<1>1. ASSUME ~online' PROVE Quiet
  BY <1>1 DEF Quiet, SameConn
<1>2. ASSUME UNCHANGED <<online, disp, guest>>,
             online => h'.conn = h.conn /\ conns'[h.conn].up = conns[h.conn].up
                         /\ conns'[h.conn].agreed = conns[h.conn].agreed
      PROVE  Quiet
  BY <1>0, <1>2 DEF Quiet, SameConn
<1>3. CASE Accept
  BY <1>0, <1>1, <1>3, AcceptIs DEF InSession
<1>4. ASSUME FailsToOpen PROVE Quiet
  <2>1. online => InCandidate
    BY <1>0, <1>4 DEF FailsToOpen, InSession, InCandidate
  <2>2. online => h'.conn = h.conn /\ conns'[h.conn] = conns[h.conn]
    BY <1>0, <1>4, <2>1 DEF FailsToOpen, HostMoves, HostIs, Opening, InCandidate, Closed
  <2>3. UNCHANGED <<online, disp, guest>>
    BY <1>4 DEF FailsToOpen, hostOnly
  <2> QED BY <1>2, <2>2, <2>3
<1>5. ASSUME NEW u, NEW J, Sends(Opening, u, J), UNCHANGED hostOnly, h'.conn = h.conn,
             h.pc \in {"hello", "proof", "cand_hello", "cand_proof"}
      PROVE  Quiet
  <2>1. online => Opening = h.cand
    BY <1>0, <1>5 DEF Opening, InSession
  <2>2. online => conns'[h.conn] = conns[h.conn]
    BY <1>0, <1>5, <2>1 DEF Sends, Moved
  <2> QED BY <1>2, <1>5, <2>2 DEF hostOnly
<1>6. CASE Greet
  BY <1>4, <1>5, <1>6, GreetIs DEF HostMoves, HostIs
<1>7. CASE Authenticate
  BY <1>4, <1>5, <1>7, AuthenticateIs DEF HostMoves, HostExits, HostIs
<1>8. CASE OpeningFails
  BY <1>4, <1>8, OpeningFailsIs
<1>9. CASE SessionEnds
  BY <1>1, <1>9, SessionEndsIs
<1>10. CASE OfferAgain \/ ThreadEnds
  BY <1>0, <1>1, <1>10, ListensOrEnds DEF InSession, hostOnly
<1>11. CASE ListenerCloses
  BY <1>0, <1>1, <1>11, ListenerClosesIs DEF InSession
<1>12. CASE ReplacementReady
  BY <1>2, <1>12, ReplacementReadyIs DEF HostMoves, HostIs
<1>13. CASE SessionBreaks \/ Unresponsive
  BY <1>2, <1>13, SessionStopsIs DEF HostExits, HostIs, hostOnly
<1>14. ASSUME NEW a, Probes(a), UNCHANGED <<online, disp, guest>> PROVE Quiet
  <2>1. h'.conn = h.conn /\ conns'[h.conn].agreed = conns[h.conn].agreed
    BY <1>14 DEF Probes, HostIs
  <2>2. conns'[h.conn].up = conns[h.conn].up
    BY <1>14 DEF Probes, Sends, Moved
  <2> QED BY <1>2, <1>14, <2>1, <2>2
<1>15. CASE TakeUpdate
  <2>1. UNCHANGED <<online, disp, guest>>
    BY <1>15, TakeUpdateIs
  <2>2. CASE UNCHANGED <<h, conns>>
    BY <1>2, <2>1, <2>2
  <2> QED BY <1>14, <1>15, <2>1, <2>2, TakeUpdateIs
<1>16. CASE TakeReboot \/ SendLivenessProbe
  BY <1>14, <1>16, TakeRebootIs, SendLivenessProbeIs DEF hostOnly
<1>17. CASE Cancel \/ CallerStep
  BY <1>2, <1>17 DEF Cancel, CallerStep, Ask, GiveUp, RecordAnswer, callerOnly
<1> QED BY <1>3, <1>6, <1>7, <1>8, <1>9, <1>10, <1>11, <1>12, <1>13, <1>15, <1>16, <1>17

\* A guest that is elsewhere, connects or leaves.
Absent ==
  \/ Boot \/ SelfUpdate \/ SelfUpdateWrite \/ (\E c \in Conns : Connect(c))
  \/ GuestSessionEnds \/ GuestGoesDown \/ GuestDies \/ AgentDies

LEMMA QuietGuest ==
  ASSUME Shape, Ends, Waits, Absent
  PROVE  ~SameConn'
<1>0. /\ online => h.conn \in Conns /\ conns[h.conn].h
      /\ None \notin Conns
  BY SessionGives, Constants
<1>1. h' = h /\ online' = online
  BY GuestsAre DEF Absent, GuestStep, GuestWorks, guestOnly
<1>2. CASE Boot \/ SelfUpdate \/ SelfUpdateWrite
  <2>1. guest'.conn = None
    BY <1>2, IndoorsIs DEF GuestIs
  <2> QED BY <1>0, <1>1, <2>1 DEF SameConn
<1>3. ASSUME NEW c \in Conns, Connect(c) PROVE ~SameConn'
  <2>1. guest'.conn = c /\ ~conns[c].h
    BY <1>3, ConnectIs DEF GuestIs
  <2> QED BY <1>0, <1>1, <2>1 DEF SameConn
<1>4. CASE GuestSessionEnds \/ GuestGoesDown \/ GuestDies \/ AgentDies
  <2>1. guest'.conn = None
    BY <1>4, GuestLeavesIs DEF GuestLeaves, GuestIs
  <2> QED BY <1>0, <1>1, <2>1 DEF SameConn
<1> QED BY <1>2, <1>3, <1>4 DEF Absent

\* The guest talks on its connection, and begins what it is asked for.
Talks == GuestGreeted \/ GuestAuthenticates \/ GuestAnswersHeartbeat \/ GuestHeartbeat \/ GuestBegins

LEMMA TalksAre ==
  ASSUME Shape, Talks
  PROVE  /\ guest.conn \in Conns /\ guest'.conn = guest.conn /\ guest'.offer = guest.offer
         /\ UNCHANGED <<guestOnly, disp>>
         /\ conns'[guest.conn].agreed = conns[guest.conn].agreed
         /\ \E t : Plain(t) /\ conns'[guest.conn].up \in {conns[guest.conn].up, conns[guest.conn].up \o t}
<1>1. CASE GuestGreeted \/ GuestAuthenticates \/ GuestAnswersHeartbeat
  BY <1>1, GuestTalksIs DEF GuestTells, GuestIs, Moved
<1>2. CASE GuestHeartbeat
  BY <1>2, GuestHeartbeatIs DEF GuestIs, Moved
<1>3. CASE GuestBegins
  <2>1. Plain(<<>>)
    BY PlainAre
  <2> QED BY <1>3, <2>1, GuestBeginsIs DEF GuestTells, GuestIs, Moved
<1> QED BY <1>1, <1>2, <1>3 DEF Talks

\* What is in flight of the session.
LEMMA SessionFlight ==
  ASSUME Shape, Ends, Waits, Tokens, h.conn \in Conns
  PROVE  /\ JobsIn(conns[h.conn].up, "done") \subseteq h.pend
         /\ guest.conn = h.conn /\ guest.pc = "busy" =>
              guest.job.job \in h.pend /\ guest.job.job \notin JobsIn(conns[h.conn].up, "done")
         /\ conns[h.conn].up \in Seq(Wire)
<1>1. Flight(conns[h.conn].up, conns[h.conn].down, AtWork(h.conn), h.pend)
  BY DEF Tokens, Held, InFlight, Pending
<1>2. guest.conn = h.conn /\ guest.pc = "busy" => AtWork(h.conn) = {guest.job.job}
  BY DEF AtWork
<1>3. conns[h.conn].up \in Seq(Wire)
  BY ShapeGives, ConnIs
<1> QED BY <1>1, <1>2, <1>3 DEF Flight

\* The requests the guest reports its display after.
DisplayJobs == {"display_recipe", "update"}

LEMMA FinishesAre ==
  ASSUME Shape, Ends, Waits, Tokens, GuestFinishes, SameConn'
  PROVE  /\ SameConn /\ h' = h /\ h.conn \in Conns /\ conns[h.conn].up \in Seq(Wire)
         /\ guest'.offer = guest.offer /\ conns'[h.conn].agreed = conns[h.conn].agreed
         /\ \E m \in Wire : /\ m.job = guest.job.job /\ m.k = "done"
                            /\ m.job \in DisplayJobs => m.p = disp'
                            /\ conns'[h.conn].up = conns[h.conn].up \o <<m>>
         /\ guest.job.job \in h.pend /\ guest.job.job \notin JobsIn(conns[h.conn].up, "done")
         /\ guest.job.job \notin DisplayJobs => disp' = disp
<1>1. h' = h /\ online' = online /\ guest'.conn = guest.conn /\ guest'.offer = guest.offer
      /\ guest.pc = "busy"
  BY GuestFinishesIs DEF GuestIs, guestOnly
<1>2. SameConn
  BY <1>1 DEF SameConn
<1>3. h.conn \in Conns /\ guest.conn = h.conn /\ conns[h.conn].h
  BY <1>2, SessionGives
<1>4. /\ conns'[h.conn].agreed = conns[h.conn].agreed
      /\ guest.job.job \notin DisplayJobs => disp' = disp
      /\ \E m \in Wire : /\ m.job = guest.job.job /\ m.k = "done"
                         /\ m.job \in DisplayJobs => m.p = disp'
                         /\ conns'[h.conn].up = conns[h.conn].up \o <<m>>
  BY <1>3, GuestFinishesIs DEF Moved, DisplayJobs
<1>5. /\ guest.job.job \in h.pend /\ guest.job.job \notin JobsIn(conns[h.conn].up, "done")
      /\ conns[h.conn].up \in Seq(Wire)
  BY <1>1, <1>3, SessionFlight
<1> QED BY <1>1, <1>2, <1>3, <1>4, <1>5

LEMMA ReportsNext ==
  ASSUME Shape, Ends, Waits, Tokens, Reports, Next
  PROVE  Reports'
<1>0. SameConn => Says(conns[h.conn].up, disp)
  BY DEF Reports
<1>1. ASSUME Quiet PROVE Reports'
  BY <1>0, <1>1 DEF Quiet, Reports
<1>2. CASE GoOnline
  <2>1. /\ h.pc = "online" /\ h'.conn = h.conn /\ conns'[h.conn].up = conns[h.conn].up
    BY <1>2, GoOnlineIs DEF HostIs, Sends, Moved
  <2>2. h.conn \in Conns /\ h.pend = {}
    BY <2>1, ShapeGives DEF HasConn, Waits, InSession
  <2>3. conns[h.conn].up \in Seq(Wire) /\ JobsIn(conns[h.conn].up, "done") = {}
    BY <2>2, SessionFlight
  <2>4. \A v : Says(conns[h.conn].up, v)
    BY <2>3, SaysNothing
  <2> QED BY <2>1, <2>4 DEF Reports
<1>3. ASSUME NEW J, Takes(J), h'.conn = h.conn PROVE Reports'
  <2>1. UNCHANGED <<online, guest, disp>> /\ h.pc = "serve" /\ conns[h.conn].up # <<>>
    BY <1>3 DEF Takes, sessionOnly
  <2>2. conns'[h.conn].up = Tail(conns[h.conn].up)
    BY <1>3 DEF Takes, Sends, Moved
  <2>3. conns[h.conn].up \in Seq(Wire)
    BY <2>1, HeadUpIs
  <2>4. SameConn' => SameConn
    BY <1>3, <2>1 DEF SameConn
  <2>5. SameConn => Says(Tail(conns[h.conn].up), disp)
    BY <1>0, <2>1, <2>3, SaysRead
  <2> QED BY <1>3, <2>1, <2>2, <2>4, <2>5 DEF Reports
<1>4. CASE HostReads
  <2>1. CASE GpuAttached \/ GpuRecipeApplied \/ GpuProbed
    BY <1>3, <2>1, GpuReadIs DEF Follows, HostIs
  <2>2. CASE DisplayAttached \/ DisplayRecipeApplied
    BY <1>3, <2>2, DisplayReadIs DEF Follows, HostIs
  <2>3. CASE AnswerHeartbeat \/ UpdateAnswered \/ RebootAnswered
    BY <1>3, <2>3, AnswerHeartbeatIs, UpdateAnsweredIs, RebootAnsweredIs DEF HostIs
  <2>4. CASE ProbeAnswered
    BY <1>3, <2>4, ProbeAnsweredIs DEF HostIs
  <2> QED BY <1>4, <2>1, <2>2, <2>3, <2>4 DEF HostReads
<1>5. CASE Absent
  BY <1>5, QuietGuest DEF Reports
<1>6. CASE Talks
  <2>1. /\ guest'.conn = guest.conn /\ UNCHANGED <<h, online, disp>>
        /\ \E t : Plain(t) /\ conns'[guest.conn].up \in {conns[guest.conn].up, conns[guest.conn].up \o t}
    BY <1>6, TalksAre DEF guestOnly
  <2>2. SUFFICES ASSUME SameConn PROVE Says(conns'[h.conn].up, disp)
    BY <2>1 DEF Reports, SameConn
  <2>3. h.conn \in Conns /\ guest.conn = h.conn
    BY <2>2, SessionGives
  <2>4. conns[h.conn].up \in Seq(Wire) /\ Says(conns[h.conn].up, disp)
    BY <1>0, <2>2, <2>3, SessionFlight
  <2>5. PICK t : Plain(t) /\ conns'[h.conn].up \in {conns[h.conn].up, conns[h.conn].up \o t}
    BY <2>1, <2>3
  <2>6. t \in Seq(Wire) /\ Says(t, disp)
    BY <2>5, SaysNothing DEF Plain
  <2> QED BY <2>4, <2>5, <2>6, SaysSent
<1>7. CASE GuestFinishes
  <2> SUFFICES ASSUME SameConn' PROVE Says(conns'[h'.conn].up, disp')
    BY DEF Reports
  <2>1. /\ SameConn /\ h' = h /\ h.conn \in Conns /\ conns[h.conn].up \in Seq(Wire)
        /\ guest.job.job \in h.pend /\ guest.job.job \notin JobsIn(conns[h.conn].up, "done")
        /\ guest.job.job \notin DisplayJobs => disp' = disp
        /\ JobsIn(conns[h.conn].up, "done") \subseteq h.pend
    BY <1>7, FinishesAre, SessionFlight
  <2>2. PICK m \in Wire : /\ m.job = guest.job.job /\ m.k = "done"
                          /\ m.job \in DisplayJobs => m.p = disp'
                          /\ conns'[h.conn].up = conns[h.conn].up \o <<m>>
    BY <1>7, FinishesAre
  <2>3. <<m>> \in Seq(Wire) /\ Says(<<m>>, disp')
    BY <2>2, FewAreWire, SaysFew DEF DisplayJobs
  <2>4. Says(conns[h.conn].up, disp')
    <3>1. CASE guest.job.job \notin DisplayJobs
      BY <1>0, <2>1, <3>1
    <3>2. CASE guest.job.job \in DisplayJobs
      <4>1. \A j \in DisplayJobs : j \in h.pend => j = guest.job.job
        BY <2>1, <3>2 DEF Waits, CapabilityFor, DisplayJobs
      <4>2. \A j \in DisplayJobs : j \notin JobsIn(conns[h.conn].up, "done")
        BY <2>1, <4>1
      <4> QED BY <2>1, <4>2, SaysNothing DEF DisplayJobs
    <3> QED BY <3>1, <3>2
  <2> QED BY <2>1, <2>2, <2>3, <2>4, SaysSent
<1> QED BY <1>1, <1>2, <1>4, <1>5, <1>6, <1>7, QuietHost
        DEF Next, HostStep, HostOpens, GuestStep, GuestWorks, Absent, Talks

LEMMA HeadReports ==
  ASSUME Shape, Reports, SameConn, h.pc = "serve", conns[h.conn].up # <<>>,
         HeadUp.k = "done", HeadUp.job \in DisplayJobs
  PROVE  HeadUp.p = disp
<1>1. conns[h.conn].up \in Seq(Wire)
  BY HeadUpIs
<1> QED BY <1>1, SaysRead DEF Reports, HeadUp, DisplayJobs

LEMMA FactsNext ==
  ASSUME Shape, Ends, Waits, Tokens, Reports, Facts, Answers, Next
  PROVE  Facts'
<1>1. ASSUME Quiet, UNCHANGED <<facts, late>>, SameConn' => h'.pend = h.pend PROVE Facts'
  BY <1>1 DEF Quiet, Facts, DisplayIdle
<1>2. CASE \/ Accept \/ Greet \/ Authenticate \/ OpeningFails \/ SessionEnds \/ OfferAgain \/ ThreadEnds
           \/ ListenerCloses \/ ReplacementReady \/ SessionBreaks \/ Unresponsive
           \/ TakeUpdate \/ TakeReboot \/ SendLivenessProbe \/ Cancel
  <2>1. UNCHANGED <<facts, late>>
    BY <1>2 DEF Accept, Greet, Authenticate, OpeningFails, SessionEnds, OfferAgain, ThreadEnds,
                ListenerCloses, ReplacementReady, SessionBreaks, Unresponsive, TakeUpdate, TakeReboot,
                SendLivenessProbe, Cancel, hostOnly
  <2>2. SameConn' => h'.pend = h.pend
    <3>1. CASE Accept \/ ReplacementReady \/ ListenerCloses \/ Cancel
      BY <3>1, AcceptIs, ReplacementReadyIs, ListenerClosesIs DEF HostMoves, HostIs, Cancel
    <3>2. CASE Greet \/ OpeningFails
      BY <3>2, GreetIs, OpeningFailsIs DEF FailsToOpen, HostMoves, HostIs
    <3>3. CASE Authenticate
      BY <3>3, AuthenticateIs DEF FailsToOpen, HostMoves, HostExits, HostIs
    <3>4. CASE SessionEnds
      BY <3>4, SessionEndsIs DEF SameConn
    <3>5. CASE OfferAgain \/ ThreadEnds
      BY <3>5, ListensOrEnds DEF SameConn, Waits, InSession, hostOnly
    <3>6. CASE SessionBreaks \/ Unresponsive
      BY <3>6, SessionStopsIs DEF HostExits, HostIs
    <3>7. CASE TakeUpdate \/ TakeReboot \/ SendLivenessProbe
      BY <3>7, TakeUpdateIs, TakeRebootIs, SendLivenessProbeIs DEF Probes, HostIs
    <3> QED BY <1>2, <3>1, <3>2, <3>3, <3>4, <3>5, <3>6, <3>7
  <2> QED BY <1>1, <1>2, <2>1, <2>2, QuietHost
<1>3. CASE GoOnline
  <2>1. /\ h.pc = "online" /\ h'.conn = h.conn /\ conns'[h.conn].agreed = conns[h.conn].agreed
        /\ guest' = guest /\ h'.pend = Attaches(conns[h.conn].agreed)
    BY <1>3, GoOnlineIs DEF HostIs
  <2>2. "display" \in conns'[h'.conn].agreed.caps /\ "display" \in guest'.offer
          => "attach_display" \in h'.pend
    BY <2>1, AttachesAre
  <2>3. CapabilityFor("attach_display") = {"display"}
    BY DEF CapabilityFor
  <2> QED BY <2>2, <2>3 DEF Facts, DisplayIdle
<1>4. ASSUME NEW J, Takes(J), h'.conn = h.conn, UNCHANGED facts,
             DisplayIdle' => DisplayIdle
      PROVE  Facts'
  BY <1>4 DEF Facts, SameConn, Takes, sessionOnly
<1>5. ASSUME NEW J, Takes(J), h'.conn = h.conn, HeadUp.k = "done", HeadUp.job \in DisplayJobs,
             facts' = HeadUp.p
      PROVE  Facts'
  <2>1. /\ SameConn' => SameConn
        /\ h.pc = "serve" /\ conns[h.conn].up # <<>> /\ disp' = disp
    BY <1>5 DEF Takes, sessionOnly, SameConn
  <2> QED BY <1>5, <2>1, HeadReports DEF Facts
<1>6. CASE GpuAttached \/ GpuRecipeApplied \/ GpuProbed
  <2>1. PICK j \in {"attach_gpu", "gpu_recipe", "gpu_probe"}, J \in SUBSET Jobs : Follows(j, J)
    BY <1>6, GpuReadIs DEF Jobs
  <2>2. DisplayIdle' => DisplayIdle
    BY <2>1 DEF Follows, HostIs, DisplayIdle, CapabilityFor
  <2> QED BY <1>4, <1>6, <2>1, <2>2, GpuReadIs DEF Follows, HostIs
<1>7. CASE DisplayAttached \/ DisplayRecipeApplied
  <2>1. CASE Follows("attach_display", {"display_recipe"})
    <3>1. "display_recipe" \in h'.pend
      BY <2>1 DEF Follows, HostIs
    <3> QED BY <3>1 DEF Facts, DisplayIdle, CapabilityFor
  <2>2. CASE facts' = None
    BY <2>2 DEF Facts
  <2>3. CASE Follows("display_recipe", {}) /\ facts' = HeadUp.p
    BY <1>5, <2>3 DEF Follows, HostIs, DisplayJobs
  <2> QED BY <1>7, <2>1, <2>2, <2>3, DisplayReadIs
<1>8. CASE UpdateAnswered
  BY <1>5, <1>8, UpdateAnsweredIs DEF HostIs, DisplayJobs
<1>9. CASE RebootAnswered
  <2>1. DisplayIdle' => DisplayIdle
    BY <1>9, RebootAnsweredIs DEF HostIs, DisplayIdle, CapabilityFor
  <2> QED BY <1>4, <1>9, <2>1, RebootAnsweredIs DEF HostIs
<1>10. CASE ProbeAnswered
  <2>1. DisplayIdle
    BY <1>10, ProbeAnsweredIs DEF Waits, DisplayIdle
  <2> QED BY <1>4, <1>10, <2>1, ProbeAnsweredIs DEF HostIs
<1>11. CASE AnswerHeartbeat
  BY <1>4, <1>11, AnswerHeartbeatIs DEF DisplayIdle
<1>12. CASE CallerStep
  <2>1. PICK a \in Asks : Ask(a) \/ GiveUp(a) \/ RecordAnswer(a)
    BY <1>12 DEF CallerStep
  <2>2. h' = h
    BY <2>1 DEF Ask, GiveUp, RecordAnswer, callerOnly
  <2>3. CASE UNCHANGED <<facts, late>>
    BY <1>1, <1>12, <2>2, <2>3, QuietHost
  <2>4. CASE RecordAnswer(a) /\ AskKind[a] = "update"
    <3>1. /\ facts' = asks[a].p /\ asks[a].st = "answered" /\ (asks[a].old => late')
          /\ UNCHANGED <<h, online, guest, disp>>
      BY <2>4 DEF RecordAnswer, callerOnly
    <3>2. SameConn' => SameConn
      BY <3>1 DEF SameConn
    <3>3. SameConn /\ ~late' => asks[a].p \in {None, disp}
      BY <2>4, <3>1 DEF Answers, Fresh
    <3> QED BY <3>1, <3>2, <3>3 DEF Facts
  <2> QED BY <2>1, <2>3, <2>4 DEF Ask, GiveUp, RecordAnswer
<1>13. CASE Absent
  BY <1>13, QuietGuest DEF Facts
<1>14. CASE Talks
  <2>1. /\ guest'.conn = guest.conn /\ guest'.offer = guest.offer
        /\ UNCHANGED <<h, online, facts, late, disp>>
        /\ conns'[guest.conn].agreed = conns[guest.conn].agreed
    BY <1>14, TalksAre DEF guestOnly
  <2> QED BY <2>1 DEF Facts, SameConn, DisplayIdle
<1>15. CASE GuestFinishes
  <2> SUFFICES ASSUME SameConn' PROVE Facts'
    BY DEF Facts
  <2>1. /\ SameConn /\ h' = h /\ guest'.offer = guest.offer
        /\ conns'[h.conn].agreed = conns[h.conn].agreed
        /\ guest.job.job \in h.pend /\ (guest.job.job \notin DisplayJobs => disp' = disp)
    BY <1>15, FinishesAre
  <2>2. UNCHANGED <<facts, late>>
    BY <1>15 DEF GuestFinishes, guestOnly
  <2>3. CASE guest.job.job \in DisplayJobs
    <3>1. ~DisplayIdle'
      BY <2>1, <2>3 DEF DisplayIdle, CapabilityFor, DisplayJobs
    <3> QED BY <3>1 DEF Facts
  <2>4. CASE guest.job.job \notin DisplayJobs
    BY <2>1, <2>2, <2>4 DEF Facts, DisplayIdle
  <2> QED BY <2>3, <2>4
<1> QED BY <1>2, <1>3, <1>6, <1>7, <1>8, <1>9, <1>10, <1>11, <1>12, <1>13, <1>14, <1>15
        DEF Next, HostStep, HostOpens, HostReads, GuestStep, GuestWorks, Absent, Talks

-----------------------------------------------------------------------------
(* The updates' callers. *)

\* A step after which no answer is fresh that was not, and nothing an answer
\* depends on has changed.
LEMMA AnswersSame ==
  ASSUME Answers, Quiet, \A a \in Asks : Fresh(a)' => Fresh(a) /\ asks'[a].p = asks[a].p,
         (\E a \in Asks : Fresh(a)) =>
           /\ online' = online /\ queue'.update = queue.update
           /\ DisplayIdle => DisplayIdle'
           /\ h'.parked # None => h'.parked = h.parked \/ AskKind[h'.parked] = "reboot"
  PROVE  Answers'
<1> SUFFICES ASSUME NEW a \in Asks, Fresh(a)'
             PROVE  /\ online' /\ queue'.update = <<>> /\ DisplayIdle'
                    /\ h'.parked # None => AskKind[h'.parked] = "reboot"
                    /\ SameConn' => asks'[a].p \in {None, disp'}
  BY DEF Answers
<1>1. Fresh(a) /\ asks'[a].p = asks[a].p
  OBVIOUS
<1> QED BY <1>1 DEF Answers, Quiet

\* No answer was fresh, and none is.
LEMMA AnswersNone ==
  ASSUME asks' = asks, ~\E a \in Asks : Fresh(a)
  PROVE  Answers'
  BY DEF Answers, Fresh

\* The session reads a frame.
LEMMA AnswersTaken ==
  ASSUME Shape, Ends, Waits, Answers, NEW J, Takes(J), h'.conn = h.conn,
         \A a \in Asks : Fresh(a)' => Fresh(a) /\ asks'[a].p = asks[a].p,
         (\E a \in Asks : Fresh(a)) =>
           /\ DisplayIdle => DisplayIdle'
           /\ h'.parked # None => h'.parked = h.parked
  PROVE  Answers'
<1>1. /\ UNCHANGED <<online, queue, guest, disp>>
      /\ SameConn' => SameConn
  BY DEF Takes, sessionOnly, SameConn
<1> SUFFICES ASSUME NEW a \in Asks, Fresh(a)'
             PROVE  /\ online' /\ queue'.update = <<>> /\ DisplayIdle'
                    /\ h'.parked # None => AskKind[h'.parked] = "reboot"
                    /\ SameConn' => asks'[a].p \in {None, disp'}
  BY DEF Answers
<1>2. Fresh(a) /\ asks'[a].p = asks[a].p
  OBVIOUS
<1> QED BY <1>1, <1>2 DEF Answers

\* A caller of another kind is told.
LEMMA FreshTold ==
  ASSUME Shape, NEW a, asks' = Told(a, None), a = None \/ AskKind[a] # "update"
  PROVE  \A b \in Asks : Fresh(b)' => Fresh(b) /\ asks'[b].p = asks[b].p
<1>1. asks \in [Asks -> AskRecords] /\ None \in Loaded /\ None \notin Asks
  BY Constants DEF Shape, Loaded
<1>2. \A x \in Asks : x # a => asks'[x] = asks[x]
  BY <1>1, ToldIs
<1> QED BY <1>1, <1>2 DEF Fresh

LEMMA AnswersReads ==
  ASSUME Shape, Ends, Waits, Tokens, Reports, Answers, Line, HostReads
  PROVE  Answers'
<1>0. /\ asks \in [Asks -> AskRecords] /\ None \notin Asks /\ None \in Loaded
      /\ h.parked \in Asks \cup {None} /\ h.upd \in Asks \cup {None} /\ h.reb \in Asks \cup {None}
  BY Constants DEF Shape, HostRecords, Loaded
<1>1. asks' = asks => \A a \in Asks : Fresh(a)' => Fresh(a) /\ asks'[a].p = asks[a].p
  BY DEF Fresh
<1>2. CASE AnswerHeartbeat
  <2>1. Takes({}) /\ h' = h /\ asks' = asks
    BY <1>2, AnswerHeartbeatIs
  <2> QED BY <1>1, <2>1, AnswersTaken DEF DisplayIdle
<1>3. CASE GpuAttached \/ GpuRecipeApplied \/ GpuProbed
  <2>1. PICK j \in {"attach_gpu", "gpu_recipe", "gpu_probe"}, J \in SUBSET {"gpu_recipe", "gpu_probe"} :
          Follows(j, J)
    BY <1>3, GpuReadIs
  <2>2. DisplayIdle => DisplayIdle'
    BY <2>1 DEF Follows, HostIs, DisplayIdle, CapabilityFor
  <2>3. Takes(J) /\ h'.conn = h.conn /\ h'.parked = h.parked /\ asks' = asks
    BY <1>3, <2>1, GpuReadIs DEF Follows, HostIs
  <2> QED BY <1>1, <2>2, <2>3, AnswersTaken
<1>4. CASE DisplayAttached \/ DisplayRecipeApplied
  <2>1. \E j \in {"attach_display", "display_recipe"} : j \in h.pend
    BY <1>4, DisplayReadIs, FollowsTokens DEF CapabilityFor
  <2>2. ~DisplayIdle
    BY <2>1 DEF DisplayIdle, CapabilityFor
  <2>3. ~\E a \in Asks : Fresh(a)
    BY <2>2 DEF Answers
  <2> QED BY <1>4, <2>3, DisplayReadIs, AnswersNone
<1>5. CASE UpdateAnswered
  <2>1. /\ h.pc = "serve" /\ h'.pend = h.pend \ {"update"} /\ conns[h.conn].up # <<>>
        /\ h'.parked = h.parked /\ h'.conn = h.conn /\ h'.cand = h.cand
        /\ UNCHANGED <<online, queue, guest, disp>> /\ asks' = Told(h.upd, HeadUp.p)
        /\ Takes({}) /\ HeadUp.k = "done" /\ HeadUp.job = "update"
    BY <1>5, UpdateAnsweredIs DEF HostIs, Takes, sessionOnly
  <2>2. "update" \in h.pend
    BY <2>1, TakesTokens
  <2>3. ~DisplayIdle /\ DisplayIdle' /\ ~h.probe /\ h.parked = None
    BY <2>1, <2>2 DEF Waits, DisplayIdle, CapabilityFor
  <2>4. ~\E a \in Asks : Fresh(a)
    BY <2>3 DEF Answers
  <2>5. HeadUp.p \in Loaded
    BY <2>1, HeadUpIs
  <2> SUFFICES ASSUME NEW a \in Asks, Fresh(a)'
               PROVE  /\ online' /\ queue'.update = <<>> /\ DisplayIdle'
                      /\ h'.parked # None => AskKind[h'.parked] = "reboot"
                      /\ SameConn' => asks'[a].p \in {None, disp'}
    BY DEF Answers
  <2>6. a = h.upd /\ Waiting(a) /\ asks'[a].p = HeadUp.p /\ AskKind[a] = "update"
    BY <1>0, <2>1, <2>4, <2>5, ToldIs DEF Fresh
  <2>7. queue.update = <<>>
    <3> SUFFICES ASSUME queue.update # <<>> PROVE FALSE
      OBVIOUS
    <3>1. Len(queue.update) \in DOMAIN queue.update
      BY DEF Shape
    <3> QED BY <2>6, <3>1 DEF Line
  <2>8. SameConn' => HeadUp.p = disp'
    BY <2>1, HeadReports DEF SameConn, DisplayJobs
  <2>9. online
    BY <2>1 DEF Waits, InSession
  <2> QED BY <2>1, <2>3, <2>6, <2>7, <2>8, <2>9
<1>6. CASE RebootAnswered
  <2>1. /\ Takes({}) /\ h'.conn = h.conn /\ h'.parked = h.parked /\ h'.pend = h.pend \ {"reboot"}
        /\ asks' = Told(h.reb, None)
    BY <1>6, RebootAnsweredIs DEF HostIs
  <2>2. h.reb = None \/ AskKind[h.reb] # "update"
    BY DEF Waits
  <2>3. DisplayIdle => DisplayIdle'
    BY <2>1 DEF DisplayIdle
  <2>4. \A b \in Asks : Fresh(b)' => Fresh(b) /\ asks'[b].p = asks[b].p
    BY <2>1, <2>2, FreshTold
  <2> QED BY <2>1, <2>3, <2>4, AnswersTaken
<1>7. CASE ProbeAnswered
  <2>0. h.probe /\ h.pend = {} /\ h'.conn = h.conn
    BY <1>7, ProbeAnsweredIs DEF Waits, HostIs
  <2>1. CASE UNCHANGED asks /\ Takes({}) /\ h'.pend = h.pend /\ h'.parked = h.parked
    BY <1>1, <2>0, <2>1, AnswersTaken DEF DisplayIdle
  <2>2. CASE h.parked # None /\ AskKind[h.parked] = "update" /\ UNCHANGED asks
    <3>1. ~\E a \in Asks : Fresh(a)
      BY <2>2 DEF Answers
    <3> QED BY <2>2, <3>1, AnswersNone
  <2>3. CASE h.parked # None /\ AskKind[h.parked] # "update" /\ asks' = Told(h.parked, None)
               /\ Takes({}) /\ h'.pend = h.pend /\ h'.parked = None
    <3>1. \A b \in Asks : Fresh(b)' => Fresh(b) /\ asks'[b].p = asks[b].p
      BY <2>3, FreshTold
    <3> QED BY <2>0, <2>3, <3>1, AnswersTaken DEF DisplayIdle
  <2>4. CASE UNCHANGED asks /\ Takes({"reboot"}) /\ h'.pend = h.pend \cup {"reboot"} /\ h'.parked = None
    <3>1. DisplayIdle'
      BY <2>0, <2>4 DEF DisplayIdle, CapabilityFor
    <3> QED BY <1>1, <2>0, <2>4, <3>1, AnswersTaken
  <2> QED BY <1>7, <2>1, <2>2, <2>3, <2>4, ProbeAnsweredIs DEF HostIs
<1> QED BY <1>2, <1>3, <1>4, <1>5, <1>6, <1>7 DEF HostReads

LEMMA OneIsLast ==
  ASSUME NEW S, NEW s \in Seq(S), Len(s) = 1
  PROVE  Tail(s) = <<>>
<1>1. s # <<>> /\ DOMAIN s = 1..1
  OBVIOUS
<1>2. Tail(s) \in Seq(S)
  BY <1>1
<1>3. Tail(s) # <<>> => 1 \in DOMAIN Tail(s)
  BY <1>2, TailIs
<1>4. 1 \in DOMAIN Tail(s) => 1 + 1 \in DOMAIN s
  BY <1>1, TailIs
<1> QED BY <1>1, <1>3, <1>4

LEMMA AnswersHost ==
  ASSUME Shape, Ends, Waits, Answers, Line,
         \/ HostOpens \/ ReplacementReady \/ SessionBreaks \/ Unresponsive
         \/ TakeUpdate \/ TakeReboot \/ SendLivenessProbe \/ Cancel
  PROVE  Answers'
<1>0. /\ asks \in [Asks -> AskRecords] /\ None \notin Asks /\ None \in Loaded
      /\ queue.update \in Seq(Asks) /\ queue.reboot \in Seq(Asks)
      /\ ~online => ~\E a \in Asks : Fresh(a)
      /\ asks' = asks => \A a \in Asks : Fresh(a)' => Fresh(a) /\ asks'[a].p = asks[a].p
      /\ online <=> h.pc \in InSession
  BY Constants DEF Shape, Loaded, Answers, Fresh, Waits
<1>1. ASSUME Quiet, UNCHANGED <<online, queue, asks>>, h'.pend = h.pend, h'.parked = h.parked
      PROVE  Answers'
  BY <1>0, <1>1, AnswersSame DEF DisplayIdle
<1>2. CASE Accept \/ ListenerCloses \/ Cancel \/ ReplacementReady
  BY <1>1, <1>2, QuietHost, AcceptIs, ListenerClosesIs, ReplacementReadyIs DEF HostMoves, HostIs, Cancel
<1>3. CASE Greet \/ OpeningFails
  BY <1>1, <1>3, QuietHost, GreetIs, OpeningFailsIs DEF FailsToOpen, HostMoves, HostIs, hostOnly
<1>4. CASE Authenticate
  BY <1>1, <1>4, QuietHost, AuthenticateIs DEF FailsToOpen, HostMoves, HostExits, HostIs, hostOnly
<1>5. CASE OfferAgain \/ ThreadEnds
  BY <1>0, <1>5, ListensOrEnds, AnswersNone DEF InSession, hostOnly
<1>6. CASE SessionBreaks \/ Unresponsive
  BY <1>1, <1>6, QuietHost, SessionStopsIs DEF HostExits, HostIs, hostOnly
<1>7. CASE GoOnline
  BY <1>0, <1>7, GoOnlineIs, AnswersNone DEF InSession
<1>8. CASE SessionEnds
  <2>1. \A a \in Asks : ~Fresh(a)'
    BY <1>0, <1>8, SessionEndsIs, DrainedIs DEF Fresh, Over
  <2> QED BY <2>1 DEF Answers
<1>9. CASE TakeUpdate
  <2>0. /\ h.pc = "serve" /\ ~h.probe /\ h.pend = {} /\ queue.update # <<>> /\ h.parked = None
        /\ queue'.update = Tail(queue.update) /\ online' = online /\ online
        /\ UNCHANGED asks \/ (asks' = Told(Head(queue.update), None) /\ UNCHANGED h)
    BY <1>0, <1>9, TakeUpdateIs DEF Waits, InSession
  <2>1. ~\E a \in Asks : Fresh(a)
    BY <2>0 DEF Answers
  <2>2. CASE UNCHANGED asks
    BY <2>1, <2>2, AnswersNone
  <2>3. CASE asks' = Told(Head(queue.update), None) /\ UNCHANGED h
    <3> SUFFICES ASSUME NEW a \in Asks, Fresh(a)'
                 PROVE  /\ online' /\ queue'.update = <<>> /\ DisplayIdle'
                        /\ h'.parked # None => AskKind[h'.parked] = "reboot"
                        /\ SameConn' => asks'[a].p \in {None, disp'}
      BY DEF Answers
    <3>1. a = Head(queue.update) /\ Waiting(a) /\ asks'[a].p = None /\ AskKind[a] = "update"
      BY <1>0, <2>1, <2>3, ToldIs DEF Fresh
    <3>2. /\ a = queue.update[1] /\ a = queue.update[Len(queue.update)]
          /\ 1 \in DOMAIN queue.update /\ Len(queue.update) \in DOMAIN queue.update
      BY <1>0, <2>0, <3>1 DEF Line
    <3>3. Len(queue.update) = 1
      BY <3>2 DEF Line
    <3>4. Tail(queue.update) = <<>>
      BY <1>0, <3>3, OneIsLast
    <3>5. DisplayIdle' /\ h'.parked = None
      BY <2>0, <2>3 DEF DisplayIdle
    <3> QED BY <2>0, <3>1, <3>4, <3>5
  <2> QED BY <2>0, <2>2, <2>3
<1>10. CASE TakeReboot
  <2>1. /\ queue.reboot # <<>> /\ queue'.update = queue.update /\ UNCHANGED <<online, asks>>
        /\ h'.parked = Head(queue.reboot) /\ h'.pend = h.pend
    BY <1>10, TakeRebootIs DEF Probes, HostIs
  <2>2. AskKind[Head(queue.reboot)] = "reboot"
    BY <1>0, <2>1 DEF Line
  <2>3. DisplayIdle => DisplayIdle'
    BY <2>1 DEF DisplayIdle
  <2> QED BY <1>0, <1>10, <2>1, <2>2, <2>3, QuietHost, AnswersSame
<1>11. CASE SendLivenessProbe
  <2>1. UNCHANGED <<online, queue, asks>> /\ h'.parked = None /\ h'.pend = h.pend
    BY <1>11, SendLivenessProbeIs DEF Probes, HostIs, hostOnly
  <2>2. DisplayIdle => DisplayIdle'
    BY <2>1 DEF DisplayIdle
  <2> QED BY <1>0, <1>11, <2>1, <2>2, QuietHost, AnswersSame
<1> QED BY <1>2, <1>3, <1>4, <1>5, <1>6, <1>7, <1>8, <1>9, <1>10, <1>11 DEF HostOpens

LEMMA AnswersNext ==
  ASSUME Shape, Ends, Waits, Tokens, Reports, Answers, Line, Next
  PROVE  Answers'
<1>0. asks' = asks => \A a \in Asks : Fresh(a)' => Fresh(a) /\ asks'[a].p = asks[a].p
  BY DEF Fresh
<1>1. ASSUME NEW a \in Asks, Ask(a) PROVE Answers'
  <2>1. UNCHANGED <<h, online>> /\ Quiet
    <3>1. CallerStep
      BY <1>1 DEF CallerStep
    <3> QED BY <1>1, <3>1, QuietHost DEF Ask, callerOnly
  <2>2. \A b \in Asks : Fresh(b)' => Fresh(b) /\ asks'[b].p = asks[b].p
    BY <1>1, CallersAre DEF Fresh
  <2>3. (\E b \in Asks : Fresh(b)) => queue'.update = queue.update
    <3>1. CASE AskKind[a] = "update"
      BY <1>1, <3>1 DEF Ask, Fresh
    <3>2. CASE AskKind[a] = "reboot"
      BY <1>1, <3>2, QueuesAre
    <3> QED BY <3>1, <3>2, Constants
  <2> QED BY <2>1, <2>2, <2>3, AnswersSame DEF DisplayIdle
<1>2. ASSUME NEW a \in Asks, GiveUp(a) \/ RecordAnswer(a) PROVE Answers'
  <2>1. UNCHANGED <<h, online, queue>> /\ Quiet
    <3>1. CallerStep
      BY <1>2 DEF CallerStep
    <3> QED BY <1>2, <3>1, QuietHost DEF GiveUp, RecordAnswer, callerOnly
  <2>2. \A b \in Asks : Fresh(b)' => Fresh(b) /\ asks'[b].p = asks[b].p
    BY <1>2, CallersAre DEF Fresh
  <2> QED BY <2>1, <2>2, AnswersSame DEF DisplayIdle
<1>3. ASSUME UNCHANGED guestOnly, SameConn' => SameConn /\ (DisplayIdle => disp' = disp)
      PROVE  Answers'
  <2>1. UNCHANGED <<h, online, queue, asks>>
    BY <1>3 DEF guestOnly
  <2> SUFFICES ASSUME NEW a \in Asks, Fresh(a)'
               PROVE  /\ online' /\ queue'.update = <<>> /\ DisplayIdle'
                      /\ h'.parked # None => AskKind[h'.parked] = "reboot"
                      /\ SameConn' => asks'[a].p \in {None, disp'}
    BY DEF Answers
  <2>2. Fresh(a) /\ (DisplayIdle <=> DisplayIdle')
    BY <2>1 DEF Fresh, DisplayIdle
  <2> QED BY <1>3, <2>1, <2>2 DEF Answers
<1>4. CASE Absent
  <2>1. UNCHANGED guestOnly
    BY <1>4, GuestsAre DEF Absent, GuestStep, GuestWorks
  <2> QED BY <1>3, <1>4, <2>1, QuietGuest
<1>5. CASE Talks
  BY <1>3, <1>5, TalksAre DEF SameConn, guestOnly
<1>6. CASE GuestFinishes
  <2>1. ASSUME SameConn' PROVE SameConn /\ (DisplayIdle => disp' = disp)
    BY <1>6, <2>1, FinishesAre DEF DisplayIdle, DisplayJobs, CapabilityFor
  <2>2. UNCHANGED guestOnly
    BY <1>6 DEF GuestFinishes
  <2> QED BY <1>3, <2>1, <2>2
<1> QED BY <1>1, <1>2, <1>4, <1>5, <1>6, AnswersReads, AnswersHost
        DEF Next, HostStep, GuestStep, GuestWorks, CallerStep, Absent, Talks

\* No caller asks anew.
Settles ==
  \A a \in Asks : /\ Asking(a)' => Asking(a)
                  /\ Waiting(a)' => Waiting(a)
                  /\ asks'[a].st = "idle" => asks[a].st = "idle"

LEMMA SettlesIs ==
  ASSUME Shape
  PROVE  /\ UNCHANGED asks => Settles
         /\ \A a, p : p \in Loaded /\ asks' = Told(a, p) => Settles
         /\ asks' = Drained.asks => Settles
         /\ \A a \in Asks : GiveUp(a) \/ RecordAnswer(a) => Settles
<1>0. asks \in [Asks -> AskRecords]
  BY DEF Shape
<1>1. UNCHANGED asks => Settles
  BY DEF Settles, Asking, Waiting
<1>2. ASSUME NEW a, NEW p \in Loaded, asks' = Told(a, p) PROVE Settles
  BY <1>0, <1>2, ToldIs DEF Settles, Asking, Waiting
<1>3. ASSUME asks' = Drained.asks PROVE Settles
  BY <1>0, <1>3, DrainedIs DEF Settles, Asking, Waiting, Over
<1>4. ASSUME NEW a \in Asks, GiveUp(a) \/ RecordAnswer(a) PROVE Settles
  BY <1>4, CallersAre DEF Settles, Asking, Waiting
<1> QED BY <1>1, <1>2, <1>3, <1>4

LEMMA LineSame ==
  ASSUME Shape, Line, Settles, queue' = queue,
         h'.parked \in {h.parked, None}, h'.upd \in {h.upd, None}
  PROVE  Line'
<1>0. /\ None \notin Asks /\ h.parked \in Asks \cup {None} /\ h.upd \in Asks \cup {None}
      /\ \A i \in DOMAIN queue.update : queue.update[i] \in Asks
  BY Constants DEF Shape, HostRecords
<1>1. (\A a, b \in Asks : Asking(a) /\ Asking(b) => a = b)'
  BY DEF Line, Settles
<1>2. (\A a \in Asks : AskKind[a] = "update" /\ Waiting(a) /\ queue.update # <<>>
                         => a = queue.update[Len(queue.update)])'
  BY DEF Line, Settles
<1>3. ASSUME NEW i \in DOMAIN queue.update
      PROVE  /\ AskKind[queue.update[i]] = "update" /\ asks'[queue.update[i]].st # "idle"
             /\ queue.update[i] # h'.parked /\ queue.update[i] # h'.upd
             /\ \A j \in DOMAIN queue.update : queue.update[i] = queue.update[j] => i = j
  <2>1. /\ AskKind[queue.update[i]] = "update" /\ asks[queue.update[i]].st # "idle"
        /\ queue.update[i] # h.parked /\ queue.update[i] # h.upd /\ queue.update[i] \in Asks
        /\ \A j \in DOMAIN queue.update : queue.update[i] = queue.update[j] => i = j
    BY <1>0 DEF Line
  <2> QED BY <1>0, <2>1 DEF Settles
<1>4. (\A i \in DOMAIN queue.reboot : AskKind[queue.reboot[i]] = "reboot")'
  BY DEF Line
<1>5. /\ (h.parked # None /\ AskKind[h.parked] = "update" => asks[h.parked].st # "idle")'
      /\ (h.upd # None => asks[h.upd].st # "idle")'
  BY <1>0 DEF Line, Settles
<1> QED BY <1>1, <1>2, <1>3, <1>4, <1>5 DEF Line

LEMMA LineHost ==
  ASSUME Shape, Waits, Line,
         \/ HostOpens \/ ReplacementReady \/ SessionBreaks \/ Unresponsive \/ Cancel
         \/ GuestStep \/ GuestDies \/ AgentDies \/ SendLivenessProbe
  PROVE  Line'
<1>1. ASSUME UNCHANGED <<asks, queue>>, h'.parked \in {h.parked, None}, h'.upd \in {h.upd, None}
      PROVE  Line'
  BY <1>1, SettlesIs, LineSame
<1>2. CASE Accept \/ ListenerCloses \/ Cancel \/ ReplacementReady
  BY <1>1, <1>2, AcceptIs, ListenerClosesIs, ReplacementReadyIs DEF HostMoves, HostIs, Cancel
<1>3. CASE Greet \/ OpeningFails
  BY <1>1, <1>3, GreetIs, OpeningFailsIs DEF FailsToOpen, HostMoves, HostIs, hostOnly
<1>4. CASE Authenticate
  BY <1>1, <1>4, AuthenticateIs DEF FailsToOpen, HostMoves, HostExits, HostIs, hostOnly
<1>5. CASE OfferAgain \/ ThreadEnds
  BY <1>1, <1>5, ListensOrEnds DEF HostIs, hostOnly
<1>6. CASE SessionBreaks \/ Unresponsive
  BY <1>1, <1>6, SessionStopsIs DEF HostExits, HostIs, hostOnly
<1>7. CASE GoOnline
  BY <1>1, <1>7, GoOnlineIs DEF HostIs
<1>8. CASE SendLivenessProbe
  BY <1>1, <1>8, SendLivenessProbeIs DEF Probes, HostIs, hostOnly
<1>9. CASE GuestStep \/ GuestDies \/ AgentDies
  BY <1>1, <1>9, GuestsAre DEF guestOnly
<1>10. CASE SessionEnds
  <2>1. /\ queue' = [update |-> <<>>, reboot |-> <<>>] /\ asks' = Drained.asks
        /\ h'.parked = None /\ h'.upd = None
    BY <1>10, SessionEndsIs DEF HostIs
  <2>2. queue'.update = <<>> /\ queue'.reboot = <<>> /\ DOMAIN queue'.update = {} /\ DOMAIN queue'.reboot = {}
    BY <2>1
  <2>3. Settles
    BY <2>1, SettlesIs
  <2> QED BY <2>1, <2>2, <2>3 DEF Line, Settles
<1> QED BY <1>2, <1>3, <1>4, <1>5, <1>6, <1>7, <1>8, <1>9, <1>10 DEF HostOpens

LEMMA LineReads ==
  ASSUME Shape, Waits, Line, HostReads
  PROVE  Line'
<1>0. None \in Loaded /\ None \notin Asks /\ h.parked \in Asks \cup {None}
      /\ \A i \in DOMAIN queue.update : queue.update[i] \in Asks
  BY Constants DEF Loaded, Shape, HostRecords
<1>1. ASSUME NEW J, Takes(J), Settles, h'.parked \in {h.parked, None}, h'.upd \in {h.upd, None}
      PROVE  Line'
  BY <1>1, LineSame DEF Takes, sessionOnly
<1>2. CASE GpuAttached \/ GpuRecipeApplied \/ GpuProbed
  BY <1>1, <1>2, GpuReadIs, SettlesIs DEF Follows, HostIs
<1>3. CASE DisplayAttached \/ DisplayRecipeApplied
  BY <1>1, <1>3, DisplayReadIs, SettlesIs DEF Follows, HostIs
<1>4. CASE AnswerHeartbeat
  BY <1>1, <1>4, AnswerHeartbeatIs, SettlesIs
<1>5. CASE UpdateAnswered
  <2>1. /\ Takes({}) /\ asks' = Told(h.upd, HeadUp.p) /\ h'.parked = h.parked /\ h'.upd = None
        /\ h.pc = "serve" /\ conns[h.conn].up # <<>>
    BY <1>5, UpdateAnsweredIs DEF HostIs, Takes
  <2>2. HeadUp.p \in Loaded
    BY <2>1, HeadUpIs
  <2> QED BY <1>1, <2>1, <2>2, SettlesIs
<1>6. CASE RebootAnswered
  BY <1>0, <1>1, <1>6, RebootAnsweredIs, SettlesIs DEF HostIs
<1>7. CASE ProbeAnswered
  <2>1. CASE h'.upd = h.upd
    <3>1. \E J : Takes(J) /\ Settles /\ h'.parked \in {h.parked, None}
      BY <1>0, <1>7, ProbeAnsweredIs, SettlesIs DEF HostIs
    <3> QED BY <1>1, <2>1, <3>1
  <2>2. CASE /\ h.parked # None /\ AskKind[h.parked] = "update" /\ UNCHANGED asks
             /\ Takes({"update"}) /\ h'.parked = None /\ h'.upd = h.parked
    <3>1. queue' = queue
      BY <2>2 DEF Takes, sessionOnly
    <3> QED BY <1>0, <2>2, <3>1 DEF Line, Asking, Waiting
  <2> QED BY <1>7, <2>1, <2>2, ProbeAnsweredIs DEF HostIs
<1> QED BY <1>2, <1>3, <1>4, <1>5, <1>6, <1>7 DEF HostReads

LEMMA TailLast ==
  ASSUME NEW S, NEW s \in Seq(S), s # <<>>, Tail(s) # <<>>
  PROVE  Tail(s)[Len(Tail(s))] = s[Len(s)]
<1>1. Len(Tail(s)) = Len(s) - 1 /\ Len(s) \in Nat /\ Tail(s) \in Seq(S)
  OBVIOUS
<1>2. 1 \in DOMAIN Tail(s)
  BY <1>1, TailIs
<1>3. Len(s) - 1 \in DOMAIN Tail(s) /\ (Len(s) - 1) + 1 = Len(s)
  BY <1>1, <1>2
<1> QED BY <1>1, <1>3, TailIs

LEMMA LineTakes ==
  ASSUME Shape, Waits, Line, TakeUpdate \/ TakeReboot
  PROVE  Line'
<1>0. /\ None \in Loaded /\ None \notin Asks
      /\ queue.update \in Seq(Asks) /\ queue.reboot \in Seq(Asks)
      /\ \A i \in DOMAIN queue.update : queue.update[i] \in Asks
  BY Constants DEF Loaded, Shape
<1>1. CASE TakeUpdate
  <2>0. /\ queue.update # <<>> /\ queue'.update = Tail(queue.update) /\ queue'.reboot = queue.reboot
        /\ h.parked = None
        /\ \/ asks' = asks /\ h'.parked = Head(queue.update) /\ h'.upd = h.upd
           \/ asks' = Told(Head(queue.update), None) /\ h' = h
    BY <1>1, TakeUpdateIs DEF Probes, HostIs, Waits
  <2>1. Settles
    BY <1>0, <2>0, SettlesIs
  <2>2. /\ Head(queue.update) = queue.update[1] /\ 1 \in DOMAIN queue.update
        /\ \A i \in DOMAIN queue'.update :
             i + 1 \in DOMAIN queue.update /\ queue'.update[i] = queue.update[i + 1] /\ i \in Nat \ {0}
    BY <1>0, <2>0
  <2>3. queue'.update # <<>> => queue'.update[Len(queue'.update)] = queue.update[Len(queue.update)]
    BY <1>0, <2>0, TailLast
  <2>4. (\A a, b \in Asks : Asking(a) /\ Asking(b) => a = b)'
    BY <2>1 DEF Line, Settles
  <2>5. (\A a \in Asks : AskKind[a] = "update" /\ Waiting(a) /\ queue.update # <<>>
                           => a = queue.update[Len(queue.update)])'
    BY <2>0, <2>1, <2>3 DEF Line, Settles
  <2>6. ASSUME NEW i \in DOMAIN queue'.update
        PROVE  /\ AskKind[queue'.update[i]] = "update" /\ asks'[queue'.update[i]].st # "idle"
               /\ queue'.update[i] # h'.parked /\ queue'.update[i] # h'.upd
               /\ \A j \in DOMAIN queue'.update : queue'.update[i] = queue'.update[j] => i = j
    <3>1. /\ i + 1 \in DOMAIN queue.update /\ queue'.update[i] = queue.update[i + 1]
          /\ i \in Nat \ {0} /\ i + 1 # 1
      BY <2>2, <2>6
    <3>2. /\ AskKind[queue'.update[i]] = "update" /\ asks[queue'.update[i]].st # "idle"
          /\ queue'.update[i] # h.upd /\ queue'.update[i] # Head(queue.update)
          /\ queue'.update[i] \in Asks
      BY <1>0, <2>2, <3>1 DEF Line
    <3>3. queue'.update[i] # h'.parked /\ queue'.update[i] # h'.upd
      BY <1>0, <2>0, <3>2
    <3>4. \A j \in DOMAIN queue'.update : queue'.update[i] = queue'.update[j] => i = j
      <4> SUFFICES ASSUME NEW j \in DOMAIN queue'.update, queue'.update[i] = queue'.update[j]
                   PROVE  i = j
        OBVIOUS
      <4>1. j + 1 \in DOMAIN queue.update /\ queue.update[i + 1] = queue.update[j + 1] /\ j \in Nat
        BY <2>2, <3>1
      <4>2. i + 1 = j + 1
        BY <3>1, <4>1 DEF Line
      <4> QED BY <3>1, <4>1, <4>2
    <3> QED BY <2>1, <3>2, <3>3, <3>4 DEF Settles
  <2>7. (\A i \in DOMAIN queue.reboot : AskKind[queue.reboot[i]] = "reboot")'
    BY <2>0 DEF Line
  <2>8. asks[Head(queue.update)].st # "idle" /\ Head(queue.update) \in Asks
    BY <1>0, <2>2 DEF Line
  <2>9. /\ (h.parked # None /\ AskKind[h.parked] = "update" => asks[h.parked].st # "idle")'
        /\ (h.upd # None => asks[h.upd].st # "idle")'
    <3>1. h.upd \in Asks \cup {None} /\ h'.upd = h.upd /\ h'.parked \in {None, Head(queue.update)}
      BY <2>0 DEF Shape, HostRecords
    <3> QED BY <2>1, <2>8, <3>1 DEF Line, Settles
  <2> QED BY <2>4, <2>5, <2>6, <2>7, <2>9 DEF Line
<1>2. CASE TakeReboot
  <2>0. /\ queue.reboot # <<>> /\ queue.update = <<>>
        /\ queue'.reboot = Tail(queue.reboot) /\ queue'.update = queue.update
        /\ asks' = asks /\ h'.parked = Head(queue.reboot) /\ h'.upd = h.upd
    BY <1>2, TakeRebootIs DEF Probes, HostIs
  <2>1. /\ Head(queue.reboot) = queue.reboot[1] /\ 1 \in DOMAIN queue.reboot
        /\ \A i \in DOMAIN queue'.reboot :
             i + 1 \in DOMAIN queue.reboot /\ queue'.reboot[i] = queue.reboot[i + 1]
    BY <1>0, <2>0
  <2>2. AskKind[h'.parked] = "reboot" /\ \A i \in DOMAIN queue'.reboot : AskKind[queue'.reboot[i]] = "reboot"
    BY <2>0, <2>1 DEF Line
  <2>3. queue'.update = <<>> /\ DOMAIN queue'.update = {}
    BY <2>0
  <2> QED BY <2>0, <2>2, <2>3 DEF Line, Asking, Waiting
<1> QED BY <1>1, <1>2

LEMMA LineAsk ==
  ASSUME Shape, Line, NEW a \in Asks, Ask(a)
  PROVE  Line'
<1>0. /\ None \notin Asks /\ h.parked \in Asks \cup {None} /\ h.upd \in Asks \cup {None}
      /\ queue.update \in Seq(Asks) /\ queue.reboot \in Seq(Asks)
      /\ AskKind[a] \in {"update", "reboot"} /\ h' = h
      /\ \A i \in DOMAIN queue.update : queue.update[i] \in Asks
  <2>1. h' = h
    BY DEF Ask, callerOnly
  <2> QED BY <2>1, Constants DEF Shape, HostRecords
<1>1. /\ \A x \in Asks : x # a => asks'[x] = asks[x]
      /\ asks[a].st = "idle" /\ asks'[a].st # "idle"
      /\ ~online => asks'[a].st = "over"
  BY CallersAre
<1>2. \A x \in Asks : asks[x].st # "idle" => asks'[x].st # "idle" /\ x # a
  BY <1>1
<1>3. AskKind[a] = "update" => \A b \in Asks : ~Asking(b)
  BY DEF Ask, Asking
<1>4. (\A x, y \in Asks : Asking(x) /\ Asking(y) => x = y)'
  BY <1>0, <1>1, <1>3 DEF Line, Asking
<1>5. /\ (h.parked # None /\ AskKind[h.parked] = "update" => asks[h.parked].st # "idle")'
      /\ (h.upd # None => asks[h.upd].st # "idle")'
  BY <1>0, <1>2 DEF Line
<1>6. CASE ~(online /\ AskKind[a] = "update")
  <2>1. queue'.update = queue.update
    BY <1>0, <1>6, QueuesAre
  <2>2. \A x \in Asks : AskKind[x] = "update" /\ Waiting(x)' => Waiting(x)
    BY <1>0, <1>1, <1>6 DEF Waiting
  <2>3. (\A x \in Asks : AskKind[x] = "update" /\ Waiting(x) /\ queue.update # <<>>
                           => x = queue.update[Len(queue.update)])'
    BY <2>1, <2>2 DEF Line
  <2>4. (\A i \in DOMAIN queue.update :
           /\ AskKind[queue.update[i]] = "update" /\ asks[queue.update[i]].st # "idle"
           /\ queue.update[i] # h.parked /\ queue.update[i] # h.upd
           /\ \A j \in DOMAIN queue.update : queue.update[i] = queue.update[j] => i = j)'
    BY <1>0, <1>2, <2>1 DEF Line
  <2>5. (\A i \in DOMAIN queue.reboot : AskKind[queue.reboot[i]] = "reboot")'
    <3>1. CASE queue'.reboot = queue.reboot
      BY <3>1 DEF Line
    <3>2. CASE queue'.reboot = Append(queue.reboot, a) /\ AskKind[a] = "reboot"
      BY <1>0, <3>2, Queued DEF Line
    <3> QED BY <1>0, <1>6, <3>1, <3>2, QueuesAre
  <2> QED BY <1>4, <1>5, <2>3, <2>4, <2>5 DEF Line
<1>7. CASE online /\ AskKind[a] = "update"
  <2>1. queue'.update = Append(queue.update, a) /\ queue'.reboot = queue.reboot
    BY <1>7, QueuesAre
  <2>2. /\ Len(queue'.update) = Len(queue.update) + 1
        /\ queue'.update[Len(queue.update) + 1] = a
        /\ Len(queue.update) + 1 \notin DOMAIN queue.update
        /\ \A i \in DOMAIN queue'.update : \/ i \in DOMAIN queue.update /\ queue'.update[i] = queue.update[i]
                                           \/ i = Len(queue.update) + 1 /\ queue'.update[i] = a
    BY <1>0, <2>1
  <2>3. \A x \in Asks : AskKind[x] = "update" /\ Waiting(x)' => x = a
    BY <1>1, <1>3, <1>7 DEF Waiting, Asking
  <2>4. (\A x \in Asks : AskKind[x] = "update" /\ Waiting(x) /\ queue.update # <<>>
                           => x = queue.update[Len(queue.update)])'
    BY <2>2, <2>3
  <2>5. \A i \in DOMAIN queue.update :
          /\ AskKind[queue.update[i]] = "update" /\ asks'[queue.update[i]].st # "idle"
          /\ queue.update[i] # h.parked /\ queue.update[i] # h.upd /\ queue.update[i] # a
          /\ \A j \in DOMAIN queue.update : queue.update[i] = queue.update[j] => i = j
    BY <1>0, <1>2 DEF Line
  <2>6. a # h.parked /\ a # h.upd
    BY <1>0, <1>1, <1>7 DEF Line
  <2>7. ASSUME NEW i \in DOMAIN queue'.update
        PROVE  /\ AskKind[queue'.update[i]] = "update" /\ asks'[queue'.update[i]].st # "idle"
               /\ queue'.update[i] # h'.parked /\ queue'.update[i] # h'.upd
               /\ \A j \in DOMAIN queue'.update : queue'.update[i] = queue'.update[j] => i = j
    BY <1>0, <1>1, <1>7, <2>2, <2>5, <2>6, <2>7
  <2>8. (\A i \in DOMAIN queue.reboot : AskKind[queue.reboot[i]] = "reboot")'
    BY <2>1 DEF Line
  <2> QED BY <1>4, <1>5, <2>4, <2>7, <2>8 DEF Line
<1> QED BY <1>6, <1>7

LEMMA LineNext ==
  ASSUME Shape, Waits, Line, Next
  PROVE  Line'
<1>1. ASSUME NEW a \in Asks, GiveUp(a) \/ RecordAnswer(a) PROVE Line'
  <2>1. Settles /\ UNCHANGED <<h, queue>>
    BY <1>1, SettlesIs DEF GiveUp, RecordAnswer, callerOnly
  <2> QED BY <2>1, LineSame
<1> QED BY <1>1, LineAsk, LineTakes, LineReads, LineHost DEF Next, HostStep, CallerStep

-----------------------------------------------------------------------------
(* The theorems. *)

LEMMA InvInit == Init => Inv
<1> SUFFICES ASSUME Init PROVE Inv
  OBVIOUS
<1>0. /\ backlog = <<>> /\ DOMAIN backlog = {} /\ online = FALSE
      /\ queue.update = <<>> /\ queue.reboot = <<>>
      /\ DOMAIN queue.update = {} /\ DOMAIN queue.reboot = {}
      /\ \A a \in Asks : asks[a].st = "idle"
  BY DEF Init, NoAsk
<1>1. /\ h.pc = "listen" /\ h.conn = None /\ h.cand = None /\ h.pend = {} /\ ~h.probe
      /\ h.parked = None /\ h.upd = None /\ h.reb = None
  BY DEF Init, HostAt
<1>2. Shape
  BY ShapeInit
<1>3. Ends
  BY <1>0, <1>1 DEF Ends
<1>4. Waits
  BY <1>0, <1>1 DEF Waits, Waiting, InSession
<1>5. Tokens
  BY <1>0, <1>1, Constants DEF Tokens, Held
<1>6. Reports /\ Facts
  BY <1>0 DEF Reports, Facts, SameConn
<1>7. Answers
  BY <1>0 DEF Answers, Fresh
<1>8. Line
  BY <1>0, <1>1 DEF Line, Asking, Waiting
<1> QED BY <1>2, <1>3, <1>4, <1>5, <1>6, <1>7, <1>8 DEF Inv

LEMMA InvNext == Inv /\ [Next]_vars => Inv'
<1> SUFFICES ASSUME Inv, [Next]_vars PROVE Inv'
  OBVIOUS
<1>0. Shape /\ Ends /\ Waits /\ Tokens /\ Reports /\ Facts /\ Answers /\ Line
  BY DEF Inv
<1>1. CASE Next
  <2>1. Shape'
    BY <1>0, <1>1, ShapeNext
  <2>2. Ends'
    BY <1>0, <1>1, <2>1, EndsNext
  <2>3. Waits'
    BY <1>0, <1>1, WaitsNext
  <2>4. Tokens'
    BY <1>0, <1>1, <2>1, <2>2, TokensNext
  <2>5. Reports' /\ Facts'
    BY <1>0, <1>1, ReportsNext, FactsNext
  <2>6. Answers' /\ Line'
    BY <1>0, <1>1, AnswersNext, LineNext
  <2> QED BY <2>1, <2>2, <2>3, <2>4, <2>5, <2>6 DEF Inv
<1>2. CASE UNCHANGED vars
  <2> USE <1>2 DEF vars
  <2>1. Shape'
    BY <1>0 DEF Shape, HasCand
  <2>2. Ends'
    BY <1>0 DEF Ends
  <2>3. Waits'
    BY <1>0, WaitsSame
  <2>4. Tokens'
    BY <1>0, TokensSame DEF AtWork, Held, Pending
  <2>5. Reports'
    BY <1>0 DEF Reports, SameConn
  <2>6. Facts'
    BY <1>0 DEF Facts, SameConn, DisplayIdle
  <2>7. Answers'
    BY <1>0 DEF Answers, Fresh, SameConn, DisplayIdle
  <2>8. Line'
    BY <1>0 DEF Line, Asking, Waiting
  <2> QED BY <2>1, <2>2, <2>3, <2>4, <2>5, <2>6, <2>7, <2>8 DEF Inv
<1> QED BY <1>1, <1>2

\* The whole of it: on every connection the host holds each request is in one
\* place and pending, callers wait only for a session that has their request,
\* and what the host is told is what the guest has (agent.rs serve,
\* agent_session.rs serve_with_timing, session.rs of crates/agent).
THEOREM LinkInvariant == Spec => []Inv
<1> QED BY InvInit, InvNext, PTL DEF Spec

\* Nobody waits on a link without a session, and every variable keeps its type:
\* set_offline_and_cancel_requests drops all a session had been given, and
\* DisplayUpdateChannel::ask and RebootChannel::ask find the gate open only
\* where there is a session to serve them.
THEOREM LinkStaysSound == Spec => []LinkIsSound
<1>1. Inv => LinkIsSound
  <2> SUFFICES ASSUME Inv PROVE LinkIsSound
    OBVIOUS
  <2>1. Shape /\ Waits
    BY DEF Inv
  <2>2. TypeOK
    <3>1. /\ DOMAIN conns = Conns
          /\ \A c \in Conns : /\ conns[c].g \in {"open", "closed", "lost"}
                              /\ conns[c].h \in BOOLEAN /\ conns[c].agreed \in Sessions
      BY <2>1, ConnIs DEF Shape
    <3>2. /\ \A i \in DOMAIN backlog : backlog[i] \in Conns
          /\ \A i \in DOMAIN queue.update : queue.update[i] \in Asks
          /\ \A i \in DOMAIN queue.reboot : queue.reboot[i] \in Asks
      BY <2>1 DEF Shape
    <3>3. /\ h.pc \in HostSteps /\ h.conn \in Conns \cup {None} /\ h.cand \in Conns \cup {None}
          /\ h.pend \subseteq Jobs /\ h.probe \in BOOLEAN
          /\ h.parked \in Asks \cup {None} /\ {h.upd, h.reb} \subseteq Asks \cup {None}
      BY <2>1 DEF Shape, HostRecords
    <3>4. /\ online \in BOOLEAN /\ running \in BOOLEAN /\ disp \in Loaded /\ faults \in 0..MaxFaults
          /\ \A a \in Asks : asks[a].st \in AskStates
      BY <2>1 DEF Shape, AskRecords
    <3>5. /\ guest.pc \in GuestSteps /\ guest.run \in Builds
          /\ guest.bin \in Builds \cup {"missing"} /\ guest.conn \in Conns \cup {None}
      BY <2>1 DEF Shape, GuestRecords
    <3> QED BY <3>1, <3>2, <3>3, <3>4, <3>5 DEF TypeOK
  <2>3. WaitingMeansOnline
    BY <2>1 DEF Waits, WaitingMeansOnline
  <2> QED BY <2>2, <2>3 DEF LinkIsSound
<1> QED BY <1>1, LinkInvariant, PTL

\* A liveness probe never finds the guest at work: it is sent when nothing is
\* pending (agent_session.rs has_pending_work), and what the guest works at is
\* pending, whatever session, timeout or crash came before.
THEOREM ProbesFindIdle == Spec => []ProbesFindTheGuestIdle
<1>1. Inv => ProbesFindTheGuestIdle
  <2> SUFFICES ASSUME Inv, h.pc = "serve", h.probe, guest.conn = h.conn, guest.pc = "busy" PROVE FALSE
    BY DEF ProbesFindTheGuestIdle
  <2>1. Shape /\ Ends /\ Waits /\ Tokens
    BY DEF Inv
  <2>2. h.conn \in Conns /\ h.pend = {}
    BY <2>1, ShapeGives DEF Waits, HasConn, InSession
  <2> QED BY <2>1, <2>2, SessionFlight
<1> QED BY <1>1, LinkInvariant, PTL

\* With nothing in flight, the version the host shows as loaded is the guest's
\* own or none (agent_session.rs report_display_recipe, report_display_update;
\* repository.rs update_display_payload): reports arrive in the order of the
\* work they are about, and no two requests of the display are in flight.
THEOREM FactsStayTheGuests == Spec => []FactsAreTheGuests
<1>1. Inv => FactsAreTheGuests
  <2> SUFFICES ASSUME Inv, Linked, h.pend = {}, ~late, "display" \in guest.offer,
                      "display" \in conns[h.conn].agreed.caps
               PROVE  facts \in {None, disp}
    BY DEF FactsAreTheGuests
  <2>1. Waits /\ Facts
    BY DEF Inv
  <2>2. SameConn
    BY <2>1 DEF Linked, Waits, InSession, SameConn
  <2>3. DisplayIdle
    BY DEF DisplayIdle
  <2> QED BY <2>1, <2>2, <2>3 DEF Facts
<1> QED BY <1>1, LinkInvariant, PTL
=============================================================================
