------------------------- MODULE GuestUpdateProofs -------------------------
(***************************************************************************)
(* Proofs about GuestUpdate, for any guests, payloads, number of faults    *)
(* and reboots and either order in which DKMS lists its versions: what a   *)
(* recipe or an update reports is so, a recipe none of whose stages fails  *)
(* puts the payload in place, and the stamp vouches for the files.         *)
(*                                                                         *)
(* A job is a sequence of stages that only ever loses stages from its      *)
(* front, so what it has yet to do is a final segment, by Rank, of one of  *)
(* five fixed plans, one per phase of UInv.  The rest says what holds of   *)
(* the guest once a stage is no longer due.                                *)
(***************************************************************************)
EXTENDS GuestUpdate, TLAPS

-----------------------------------------------------------------------------
(* The stages a job has yet to do. *)

\* An order of the stages that every plan follows.
Rank(s) ==
  CASE s = "payload" -> 1 [] s = "decide" -> 2 [] s = "dependencies" -> 3
    [] s = "key" -> 4 [] s = "create" -> 5 [] s = "resign" -> 6
    [] s = "source" -> 7 [] s = "add" -> 8 [] s = "build" -> 9
    [] s = "install" -> 10 [] s = "signature" -> 11 [] s = "prepare" -> 12
    [] s = "initramfs" -> 13 [] s = "replace" -> 14 [] s = "load" -> 15
    [] s = "unload" -> 16 [] s = "insert" -> 17 [] s = "renderer" -> 18
    [] s = "copy" -> 19 [] s = "stamp" -> 20 [] s = "isolation" -> 21
    [] s = "device" -> 22 [] s = "verify" -> 23 [] s = "services" -> 24
    [] s = "write" -> 25 [] s = "start" -> 26 [] s = "remove" -> 27
    [] s = "reinsert" -> 28 [] s = "refresh" -> 29 [] s = "judge" -> 30

Left(q) == {q[i] : i \in 1..Len(q)}
Ordered(q) == \A i, j \in 1..Len(q) : i < j => Rank(q[i]) < Rank(q[j])
Due(s) == s \in Left(w.todo)

\* `L` is what is left of `F` from some stage on.
Segment(L, F) == L \subseteq F /\ \A x \in L, y \in F : Rank(x) < Rank(y) => y \in L

LEMMA Ranks ==
  /\ Rank("payload") = 1 /\ Rank("decide") = 2 /\ Rank("dependencies") = 3
  /\ Rank("key") = 4 /\ Rank("create") = 5 /\ Rank("resign") = 6
  /\ Rank("source") = 7 /\ Rank("add") = 8 /\ Rank("build") = 9
  /\ Rank("install") = 10 /\ Rank("signature") = 11 /\ Rank("prepare") = 12
  /\ Rank("initramfs") = 13 /\ Rank("replace") = 14 /\ Rank("load") = 15
  /\ Rank("unload") = 16 /\ Rank("insert") = 17 /\ Rank("renderer") = 18
  /\ Rank("copy") = 19 /\ Rank("stamp") = 20 /\ Rank("isolation") = 21
  /\ Rank("device") = 22 /\ Rank("verify") = 23 /\ Rank("services") = 24
  /\ Rank("write") = 25 /\ Rank("start") = 26 /\ Rank("remove") = 27
  /\ Rank("reinsert") = 28 /\ Rank("refresh") = 29 /\ Rank("judge") = 30
  BY DEF Rank

LEMMA RanksAreNumbers == \A s \in Stages : Rank(s) \in Nat
  BY Ranks DEF Stages

LEMMA SegmentsNest ==
  ASSUME NEW K, NEW L, NEW F, Segment(K, L), Segment(L, F)
  PROVE  Segment(K, F)
  BY DEF Segment

LEMMA TailLeft ==
  ASSUME NEW q \in Seq(Stages), q # <<>>, Ordered(q)
  PROVE  /\ Tail(q) \in Seq(Stages) /\ Ordered(Tail(q))
         /\ Head(q) \in Stages /\ Head(q) \in Left(q) /\ Left(q) \subseteq Stages
         /\ Left(Tail(q)) = Left(q) \ {Head(q)} /\ Segment(Left(Tail(q)), Left(q))
         /\ \A x \in Left(q) : Rank(Head(q)) <= Rank(x)
<1> DEFINE t == Tail(q)
           n == Len(t)
<1>1. /\ t \in Seq(Stages) /\ n \in Nat /\ Len(q) = n + 1 /\ Head(q) = q[1]
      /\ \A i \in 1..n : t[i] = q[i + 1]
  OBVIOUS
<1> HIDE DEF t, n
<1>2. \A i \in 1..(n + 1) : q[i] \in Stages /\ Rank(q[i]) \in Nat
  BY <1>1, RanksAreNumbers
<1>3. \A i \in 1..n : i + 1 \in 1..(n + 1) /\ 1 < i + 1 /\ 1 \in 1..(n + 1)
  BY <1>1
<1>4. \A i \in 1..n : Rank(q[1]) < Rank(q[i + 1])
  BY <1>1, <1>3 DEF Ordered
<1>5. Ordered(t)
  <2> SUFFICES ASSUME NEW i \in 1..n, NEW j \in 1..n, i < j
               PROVE  Rank(t[i]) < Rank(t[j])
    BY DEF Ordered, n
  <2>1. i + 1 < j + 1 /\ i + 1 \in 1..Len(q) /\ j + 1 \in 1..Len(q)
    BY <1>1
  <2>2. QED
    BY <1>1, <2>1 DEF Ordered
<1>6. \A i \in 1..(n + 1) : i = 1 \/ (i - 1 \in 1..n /\ (i - 1) + 1 = i)
  BY <1>1
<1>7. Left(t) = {q[i + 1] : i \in 1..n}
  BY <1>1 DEF Left, n
<1>8. /\ \A x \in Left(q) : x = q[1] \/ x \in Left(t)
      /\ \A x \in Left(t) : x \in Left(q) /\ Rank(q[1]) < Rank(x)
  <2>1. ASSUME NEW x \in Left(q) PROVE x = q[1] \/ x \in Left(t)
    <3>1. PICK i \in 1..(n + 1) : x = q[i]
      BY <1>1 DEF Left
    <3>2. i = 1 \/ (i - 1 \in 1..n /\ x = q[(i - 1) + 1])
      BY <1>6, <3>1
    <3>3. QED
      BY <1>7, <3>1, <3>2
  <2>2. ASSUME NEW x \in Left(t) PROVE x \in Left(q) /\ Rank(q[1]) < Rank(x)
    <3>1. PICK i \in 1..n : x = q[i + 1]
      BY <1>7
    <3>2. QED
      BY <1>1, <1>3, <1>4, <3>1 DEF Left
  <2>3. QED
    BY <2>1, <2>2
<1>9. q[1] \in Left(q) /\ Left(q) \subseteq Stages /\ q[1] \in Stages
  BY <1>1, <1>2 DEF Left
<1>10. q[1] \notin Left(t) /\ \A x \in Left(q) : Rank(q[1]) <= Rank(x) /\ ~(Rank(x) < Rank(q[1]))
  <2>1. \A x \in Left(q) : Rank(x) \in Nat
    BY <1>9, RanksAreNumbers
  <2>2. QED
    BY <1>8, <1>9, <2>1
<1>11. Left(t) = Left(q) \ {q[1]}
  BY <1>8, <1>9, <1>10
<1>12. Segment(Left(t), Left(q))
  <2> SUFFICES ASSUME NEW x \in Left(t), NEW y \in Left(q), Rank(x) < Rank(y)
               PROVE  y \in Left(t)
    BY <1>8 DEF Segment
  <2>1. y # q[1]
    BY <1>8, <1>10
  <2>2. QED
    BY <1>11, <2>1
<1>13. QED
  BY <1>1, <1>5, <1>9, <1>10, <1>11, <1>12 DEF t

LEMMA SubSeqIs ==
  ASSUME NEW q \in Seq(Stages), NEW n \in 1..Len(q)
  PROVE  /\ SubSeq(q, n + 1, Len(q)) \in Seq(Stages)
         /\ Len(SubSeq(q, n + 1, Len(q))) = Len(q) - n
         /\ \A i \in 1..(Len(q) - n) : SubSeq(q, n + 1, Len(q))[i] = q[n + i]
<1> DEFINE t == SubSeq(q, n + 1, Len(q))
<1>1. Len(q) \in Nat
  OBVIOUS
<1>2. t \in Seq(Stages) /\ Len(t) = Len(q) - n
  <2>1. CASE n + 1 <= Len(q)
    BY <1>1, <2>1
  <2>2. CASE ~(n + 1 <= Len(q))
    BY <1>1, <2>2
  <2>3. QED
    BY <2>1, <2>2
<1>3. ASSUME NEW i \in 1..(Len(q) - n) PROVE t[i] = q[n + i]
  <2>1. t[i] = q[(n + 1) + (i - 1)]
    BY <1>1
  <2>2. (n + 1) + (i - 1) = n + i
    BY <1>1
  <2>3. QED
    BY <2>1, <2>2
<1>4. QED
  BY <1>2, <1>3

\* Past leaves what comes after a stage.
LEMMA PastLeft ==
  ASSUME w.todo \in Seq(Stages), Ordered(w.todo), NEW st \in Left(w.todo)
  PROVE  /\ Past(st) \in Seq(Stages) /\ Ordered(Past(st))
         /\ Left(Past(st)) = {x \in Left(w.todo) : Rank(st) < Rank(x)}
         /\ Segment(Left(Past(st)), Left(w.todo))
<1> DEFINE q == w.todo
           n == CHOOSE i \in DOMAIN q : q[i] = st
           t == Past(st)
<1>1. DOMAIN q = 1..Len(q) /\ Len(q) \in Nat
  OBVIOUS
<1>2. n \in 1..Len(q) /\ q[n] = st
  BY <1>1 DEF Left
<1>3. t = SubSeq(q, n + 1, Len(q))
  BY DEF Past
<1> HIDE DEF n, t
<1>4. /\ t \in Seq(Stages) /\ Len(t) = Len(q) - n
      /\ \A i \in 1..(Len(q) - n) : t[i] = q[n + i]
  BY <1>2, <1>3, SubSeqIs
<1> HIDE DEF q
<1>5. Ordered(t)
  <2> SUFFICES ASSUME NEW i \in 1..(Len(q) - n), NEW j \in 1..(Len(q) - n), i < j
               PROVE  Rank(t[i]) < Rank(t[j])
    BY <1>4 DEF Ordered
  <2>1. n + i \in 1..Len(q) /\ n + j \in 1..Len(q) /\ n + i < n + j
    BY <1>1, <1>2
  <2>2. Rank(q[n + i]) < Rank(q[n + j])
    BY <2>1 DEF Ordered, q
  <2>3. QED
    BY <1>4, <2>2
<1>6. \A i \in 1..Len(q) : q[i] \in Stages /\ Rank(q[i]) \in Nat
  BY RanksAreNumbers DEF q
<1>7. ASSUME NEW x \in Left(q), Rank(st) < Rank(x) PROVE x \in Left(t)
  <2>1. PICK i \in 1..Len(q) : x = q[i]
    BY DEF Left
  <2>2. ~(i < n)
    BY <1>2, <1>6, <1>7, <2>1 DEF Ordered, q
  <2>3. i # n
    BY <1>2, <1>6, <1>7, <2>1
  <2>4. i - n \in 1..(Len(q) - n) /\ n + (i - n) = i
    BY <1>1, <1>2, <2>2, <2>3
  <2>5. x = t[i - n]
    BY <1>4, <2>1, <2>4
  <2>6. QED
    BY <1>4, <2>4, <2>5 DEF Left
<1>8. ASSUME NEW x \in Left(t) PROVE x \in Left(q) /\ Rank(st) < Rank(x)
  <2>1. PICK i \in 1..(Len(q) - n) : x = q[n + i]
    BY <1>4 DEF Left
  <2>2. n + i \in 1..Len(q) /\ n < n + i
    BY <1>1, <1>2
  <2>3. QED
    BY <1>2, <2>1, <2>2 DEF Ordered, Left, q
<1>9. Left(t) = {x \in Left(q) : Rank(st) < Rank(x)}
  BY <1>7, <1>8
<1>10. Segment(Left(t), Left(q))
  <2> SUFFICES ASSUME NEW x \in Left(t), NEW y \in Left(q), Rank(x) < Rank(y)
               PROVE  y \in Left(t)
    BY <1>8 DEF Segment
  <2>1. \A z \in Left(q) : Rank(z) \in Nat
    BY <1>6 DEF Left
  <2>2. st \in Left(q)
    BY <1>2 DEF Left
  <2>3. Rank(st) < Rank(y)
    BY <1>8, <2>1, <2>2
  <2>4. QED
    BY <1>7, <2>3
<1>11. QED
  BY <1>4, <1>5, <1>9, <1>10 DEF t, q

\* The stage after the first, when it is the next in rank.
LEMMA NextLeft ==
  ASSUME NEW q \in Seq(Stages), q # <<>>, Ordered(q),
         NEW b \in Left(q), Rank(b) = Rank(Head(q)) + 1
  PROVE  /\ Tail(Tail(q)) \in Seq(Stages) /\ Ordered(Tail(Tail(q)))
         /\ Left(Tail(Tail(q))) = Left(q) \ {Head(q), b}
         /\ Segment(Left(Tail(Tail(q))), Left(q))
<1> DEFINE t == Tail(q)
<1>1. /\ t \in Seq(Stages) /\ Ordered(t) /\ Head(q) \in Stages /\ Left(q) \subseteq Stages
      /\ Left(t) = Left(q) \ {Head(q)} /\ Segment(Left(t), Left(q))
      /\ \A x \in Left(q) : Rank(Head(q)) <= Rank(x)
  BY TailLeft
<1> HIDE DEF t
<1>2. \A x \in Stages : Rank(x) \in Nat
  BY RanksAreNumbers
<1>3. b \in Left(t)
  <2>1. b # Head(q)
    BY <1>1, <1>2
  <2>2. QED
    BY <1>1, <2>1
<1>4. t # <<>>
  <2>1. Len(t) \in Nat /\ Len(t) # 0
    BY <1>1, <1>3 DEF Left
  <2>2. QED
    BY <2>1
<1>5. /\ Tail(t) \in Seq(Stages) /\ Ordered(Tail(t)) /\ Head(t) \in Left(t)
      /\ Left(Tail(t)) = Left(t) \ {Head(t)} /\ Segment(Left(Tail(t)), Left(t))
      /\ \A x \in Left(t) : Rank(Head(t)) <= Rank(x)
  BY <1>1, <1>4, TailLeft
<1>6. Head(t) = b
  <2>1. \A i, j \in 1..Len(t) : t[i] # t[j] => Rank(t[i]) # Rank(t[j])
    <3> SUFFICES ASSUME NEW i \in 1..Len(t), NEW j \in 1..Len(t), t[i] # t[j]
                 PROVE  Rank(t[i]) # Rank(t[j])
      OBVIOUS
    <3>1. Len(t) \in Nat /\ t[i] \in Stages /\ t[j] \in Stages
      BY <1>1
    <3>2. Rank(t[i]) \in Nat /\ Rank(t[j]) \in Nat /\ i # j
      BY <1>2, <3>1
    <3>3. Rank(t[i]) < Rank(t[j]) \/ Rank(t[j]) < Rank(t[i])
      BY <1>1, <3>1, <3>2 DEF Ordered
    <3>4. QED
      BY <3>2, <3>3
  <2>2. \A x, y \in Left(t) : x # y => Rank(x) # Rank(y)
    BY <2>1 DEF Left
  <2>3. /\ Rank(Head(t)) <= Rank(b) /\ Rank(Head(q)) <= Rank(Head(t))
        /\ Rank(Head(t)) \in Nat /\ Rank(Head(q)) \in Nat /\ Rank(b) \in Nat
    BY <1>1, <1>2, <1>3, <1>5
  <2>4. Rank(Head(t)) # Rank(Head(q))
    <3>1. \A x \in Left(t) : Rank(Head(q)) < Rank(x)
      <4> DEFINE n == Len(t)
      <4>1. /\ n \in Nat /\ Len(q) = n + 1 /\ Head(q) = q[1]
            /\ \A i \in 1..n : t[i] = q[i + 1]
        BY DEF t
      <4>2. \A i \in 1..n : i + 1 \in 1..(n + 1) /\ 1 < i + 1 /\ 1 \in 1..(n + 1)
        BY <4>1
      <4>3. QED
        BY <4>1, <4>2 DEF Ordered, Left
    <3>2. QED
      BY <1>5, <2>3, <3>1
  <2>5. Rank(Head(t)) = Rank(b)
    BY <2>3, <2>4
  <2>6. QED
    BY <1>3, <1>5, <2>2, <2>5
<1>7. Segment(Left(Tail(t)), Left(q))
  BY <1>1, <1>5, SegmentsNest
<1>8. QED
  BY <1>1, <1>5, <1>6, <1>7 DEF t

LEMMA ConcatLeft ==
  ASSUME NEW p \in Seq(Stages), NEW q \in Seq(Stages)
  PROVE  /\ p \o q \in Seq(Stages) /\ Left(p \o q) = Left(p) \cup Left(q)
         /\ Ordered(p) /\ Ordered(q) /\ (\A x \in Left(p), y \in Left(q) : Rank(x) < Rank(y))
              => Ordered(p \o q)
<1> DEFINE c == p \o q
           m == Len(p)
           n == Len(q)
<1>1. /\ c \in Seq(Stages) /\ m \in Nat /\ n \in Nat /\ Len(c) = m + n
  OBVIOUS
<1>a. /\ \A i \in 1..m : c[i] = p[i]
      /\ \A j \in 1..n : c[m + j] = q[j]
  OBVIOUS
<1> HIDE DEF c, m, n
<1>2. \A i \in 1..(m + n) : i \in 1..m \/ (i - m \in 1..n /\ m + (i - m) = i)
  BY <1>1
<1>3. /\ \A i \in 1..m : i \in 1..(m + n)
      /\ \A j \in 1..n : m + j \in 1..(m + n)
  BY <1>1
<1>4. Left(c) = Left(p) \cup Left(q)
  <2>1. ASSUME NEW x \in Left(c) PROVE x \in Left(p) \cup Left(q)
    <3>1. PICK i \in 1..(m + n) : x = c[i]
      BY <1>1 DEF Left
    <3>2. i \in 1..m => x = p[i]
      BY <1>a, <3>1
    <3>3. i \notin 1..m => i - m \in 1..n /\ x = q[i - m]
      BY <1>a, <1>2, <3>1
    <3>4. QED
      BY <3>2, <3>3 DEF Left, m, n
  <2>2. ASSUME NEW x \in Left(p) PROVE x \in Left(c)
    BY <1>1, <1>a, <1>3 DEF Left, m
  <2>3. ASSUME NEW x \in Left(q) PROVE x \in Left(c)
    BY <1>1, <1>a, <1>3 DEF Left, n
  <2>4. QED
    BY <2>1, <2>2, <2>3
<1>5. ASSUME Ordered(p), Ordered(q), \A x \in Left(p), y \in Left(q) : Rank(x) < Rank(y)
      PROVE  Ordered(c)
  <2> SUFFICES ASSUME NEW i \in 1..(m + n), NEW j \in 1..(m + n), i < j
               PROVE  Rank(c[i]) < Rank(c[j])
    BY <1>1 DEF Ordered
  <2>1. CASE i \in 1..m /\ j \in 1..m
    BY <1>a, <1>5, <2>1 DEF Ordered, m
  <2>2. CASE i \in 1..m /\ j \notin 1..m
    <3>1. c[i] \in Left(p) /\ c[j] \in Left(q)
      BY <1>a, <1>2, <2>2 DEF Left, m, n
    <3>2. QED
      BY <1>5, <3>1
  <2>3. CASE i \notin 1..m
    <3>1. i - m \in 1..n /\ j - m \in 1..n /\ i - m < j - m /\ m + (i - m) = i /\ m + (j - m) = j
      BY <1>1, <2>3
    <3>2. Rank(q[i - m]) < Rank(q[j - m])
      BY <1>5, <3>1 DEF Ordered, n
    <3>3. c[m + (i - m)] = q[i - m] /\ c[m + (j - m)] = q[j - m]
      BY <1>a, <3>1
    <3>4. QED
      BY <3>1, <3>2, <3>3
  <2>4. QED
    BY <2>1, <2>2, <2>3
<1>6. QED
  BY <1>1, <1>4, <1>5 DEF c

-----------------------------------------------------------------------------
(* What `dkms` does. *)

\* What `dkms status` prints is registered, and there are two versions at most.
LEMMA VersionsListed ==
  ASSUME NEW s \in Guests
  PROVE  /\ DkmsVersions(s) \in Seq(Versions) /\ Len(DkmsVersions(s)) \in 0..2
         /\ \A i \in 1..Len(DkmsVersions(s)) : Registered(s, DkmsVersions(s)[i])
<1> DEFINE q == DkmsVersions(s)
           here == {v \in Versions : Registered(s, v)}
<1>1. /\ ToSet(<<>>) = {}
      /\ \A x : ToSet(<<x>>) = {x}
      /\ \A x, y : ToSet(<<x, y>>) = {x, y}
  BY DEF ToSet
<1>2. here \in {{}, {"old"}, {"new"}, {"old", "new"}}
  BY DEF Versions
<1>3. \E p \in {<<>>, <<DkmsOrder[1]>>, <<DkmsOrder[2]>>, DkmsOrder} : ToSet(p) = here
  BY <1>1, <1>2, UpdateAssumption
<1>4. q \in {<<>>, <<DkmsOrder[1]>>, <<DkmsOrder[2]>>, DkmsOrder} /\ ToSet(q) = here
  BY <1>3 DEF DkmsVersions
<1> HIDE DEF q
<1>5. q \in Seq(Versions) /\ Len(q) \in 0..2
  <2>1. \A x \in Versions : <<x>> \in Seq(Versions) /\ Len(<<x>>) = 1
    OBVIOUS
  <2>2. /\ DkmsOrder \in Seq(Versions) /\ Len(DkmsOrder) = 2
        /\ DkmsOrder[1] \in Versions /\ DkmsOrder[2] \in Versions
    <3>1. CASE DkmsOrder = <<"old", "new">>
      BY <3>1 DEF Versions
    <3>2. CASE DkmsOrder = <<"new", "old">>
      BY <3>2 DEF Versions
    <3>3. QED
      BY <3>1, <3>2, UpdateAssumption
  <2>3. CASE q = <<>>
    BY <2>3
  <2>4. CASE q = <<DkmsOrder[1]>>
    BY <2>1, <2>2, <2>4
  <2>5. CASE q = <<DkmsOrder[2]>>
    BY <2>1, <2>2, <2>5
  <2>6. CASE q = DkmsOrder
    BY <2>2, <2>6
  <2>7. QED
    BY <1>4, <2>3, <2>4, <2>5, <2>6
<1>6. \A i \in 1..Len(q) : q[i] \in ToSet(q)
  BY <1>5 DEF ToSet
<1>7. QED
  BY <1>4, <1>5, <1>6 DEF q

\* The n-th of them, built and installed anew.
Anew(s, v) == DkmsInstalled(DkmsBuilt(s, v), v)

LEMMA ResignedIs ==
  ASSUME NEW s \in Guests, NEW n \in 0..Len(DkmsVersions(s))
  PROVE  LET all == DkmsVersions(s) IN
         Resigned(s, n) = IF n = 0 THEN s ELSE IF n = 1 THEN Anew(s, all[1])
                          ELSE Anew(Anew(s, all[1]), all[2])
<1> DEFINE all == DkmsVersions(s)
           f == [i \in 0..n |-> IF i = 0 THEN s ELSE IF i = 1 THEN Anew(s, all[1])
                                ELSE Anew(Anew(s, all[1]), all[2])]
           r == CHOOSE after :
                  after = [i \in 0..n |-> IF i = 0 THEN s
                                          ELSE Anew(after[i - 1], all[i])]
<1>0. n \in 0..2
  BY VersionsListed
<1> HIDE DEF all
<1>1. f = [i \in 0..n |-> IF i = 0 THEN s ELSE Anew(f[i - 1], all[i])]
  <2>1. ASSUME NEW i \in 0..n
        PROVE  f[i] = IF i = 0 THEN s ELSE Anew(f[i - 1], all[i])
    <3>1. i \in {0, 1, 2}
      BY <1>0
    <3>2. CASE i = 0
      BY <3>2
    <3>3. CASE i = 1
      <4>1. f[0] = s /\ i - 1 = 0
        BY <3>3
      <4>2. QED
        BY <3>3, <4>1
    <3>4. CASE i = 2
      <4>1. f[1] = Anew(s, all[1]) /\ i - 1 = 1
        BY <3>4, <1>0
      <4>2. QED
        BY <3>4, <4>1
    <3>5. QED
      BY <3>1, <3>2, <3>3, <3>4
  <2> QED
    BY <2>1
<1> HIDE DEF f
<1>2. r = [i \in 0..n |-> IF i = 0 THEN s ELSE Anew(r[i - 1], all[i])]
  BY <1>1, Zenon
<1>3. Resigned(s, n) = r[n]
  BY Zenon DEF Resigned, Anew, all
<1> HIDE DEF r
<1>4. r[0] = s /\ (n > 0 => r[1] = Anew(r[0], all[1])) /\ (n > 1 => r[2] = Anew(r[1], all[2]))
  <2>1. \A i \in 0..n : r[i] = IF i = 0 THEN s ELSE Anew(r[i - 1], all[i])
    BY <1>2
  <2>2. r[0] = s
    BY <1>0, <2>1
  <2>3. n > 0 => 1 \in 0..n /\ 1 - 1 = 0 /\ 1 # 0
    BY <1>0
  <2>4. n > 1 => 2 \in 0..n /\ 2 - 1 = 1 /\ 2 # 0
    BY <1>0
  <2>5. QED
    BY <2>1, <2>2, <2>3, <2>4
<1>5. QED
  BY <1>0, <1>3, <1>4 DEF all

-----------------------------------------------------------------------------
(* The plans. *)

Prelude == {"payload", "decide"}
ServicePlan == {"services", "write", "start"}
Recipe(built) ==
  {"key", "create", "resign", "signature", "prepare", "load", "unload", "insert", "renderer",
   "isolation", "device", "services", "write", "start"}
  \cup (IF built THEN {"dependencies", "source", "add", "build", "install", "initramfs"} ELSE {})
Attempt ==
  {"payload", "dependencies", "key", "create", "resign", "source", "add", "build", "install",
   "signature", "initramfs", "replace", "insert", "verify"}
RollBackPlan == {"unload", "remove", "reinsert", "refresh", "judge"}

\* `q` does the stages `L`, in the order of their ranks.
Does(q, L) == q \in Seq(Stages) /\ Ordered(q) /\ Left(q) = L

LEMMA Joined ==
  ASSUME NEW p, NEW q, NEW K, NEW L, Does(p, K), Does(q, L),
         \A x \in K, y \in L : Rank(x) < Rank(y)
  PROVE  Does(p \o q, K \cup L)
  BY ConcatLeft DEF Does

LEMMA DoesNothing == Does(<<>>, {})
  BY DEF Does, Ordered, Left

LEMMA DoesOne ==
  ASSUME NEW a \in Stages
  PROVE  Does(<<a>>, {a})
  BY DEF Does, Ordered, Left

LEMMA DoesTwo ==
  ASSUME NEW a \in Stages, NEW b \in Stages, Rank(a) < Rank(b)
  PROVE  Does(<<a, b>>, {a, b})
<1> DEFINE q == <<a, b>>
<1>1. q \in Seq(Stages) /\ Len(q) = 2 /\ q[1] = a /\ q[2] = b
  OBVIOUS
<1> HIDE DEF q
<1>2. \A i \in 1..2 : i = 1 \/ i = 2
  OBVIOUS
<1>3. Left(q) = {a, b} /\ Ordered(q)
  BY <1>1, <1>2 DEF Left, Ordered
<1>4. QED
  BY <1>1, <1>3 DEF Does, q

LEMMA DoesThree ==
  ASSUME NEW a \in Stages, NEW b \in Stages, NEW c \in Stages,
         Rank(a) < Rank(b), Rank(b) < Rank(c), Rank(a) < Rank(c)
  PROVE  Does(<<a, b, c>>, {a, b, c})
<1> DEFINE q == <<a, b, c>>
<1>1. q \in Seq(Stages) /\ Len(q) = 3 /\ q[1] = a /\ q[2] = b /\ q[3] = c
  OBVIOUS
<1> HIDE DEF q
<1>2. \A i \in 1..3 : i = 1 \/ i = 2 \/ i = 3
  OBVIOUS
<1>3. Left(q) = {a, b, c} /\ Ordered(q)
  BY <1>1, <1>2 DEF Left, Ordered
<1>4. QED
  BY <1>1, <1>3 DEF Does, q

LEMMA DoesFour ==
  ASSUME NEW a \in Stages, NEW b \in Stages, NEW c \in Stages, NEW d \in Stages,
         Rank(a) < Rank(b), Rank(b) < Rank(c), Rank(c) < Rank(d)
  PROVE  Does(<<a, b, c, d>>, {a, b, c, d})
<1> DEFINE q == <<a, b, c, d>>
<1>1. q \in Seq(Stages) /\ Len(q) = 4 /\ q[1] = a /\ q[2] = b /\ q[3] = c /\ q[4] = d
  OBVIOUS
<1> HIDE DEF q
<1>2. \A i \in 1..4 : i = 1 \/ i = 2 \/ i = 3 \/ i = 4
  OBVIOUS
<1>3. \A x \in {a, b, c, d} : Rank(x) \in Nat
  BY RanksAreNumbers
<1>4. Rank(a) < Rank(c) /\ Rank(a) < Rank(d) /\ Rank(b) < Rank(d)
  BY <1>3
<1>5. Left(q) = {a, b, c, d}
  BY <1>1, <1>2 DEF Left
<1>6. Ordered(q)
  BY <1>1, <1>2, <1>4 DEF Ordered
<1>7. QED
  BY <1>1, <1>5, <1>6 DEF Does, q

LEMMA DoesFive ==
  ASSUME NEW a \in Stages, NEW b \in Stages, NEW c \in Stages, NEW d \in Stages,
         NEW e \in Stages,
         Rank(a) < Rank(b), Rank(b) < Rank(c), Rank(c) < Rank(d), Rank(d) < Rank(e)
  PROVE  Does(<<a, b, c, d, e>>, {a, b, c, d, e})
<1> DEFINE q == <<a, b, c, d, e>>
<1>1. /\ q \in Seq(Stages) /\ Len(q) = 5 /\ q[1] = a /\ q[2] = b /\ q[3] = c /\ q[4] = d
      /\ q[5] = e
  OBVIOUS
<1> HIDE DEF q
<1>2. \A i \in 1..5 : i = 1 \/ i = 2 \/ i = 3 \/ i = 4 \/ i = 5
  OBVIOUS
<1>3. \A x \in {a, b, c, d, e} : Rank(x) \in Nat
  BY RanksAreNumbers
<1>4. /\ Rank(a) < Rank(c) /\ Rank(a) < Rank(d) /\ Rank(a) < Rank(e)
      /\ Rank(b) < Rank(d) /\ Rank(b) < Rank(e) /\ Rank(c) < Rank(e)
  BY <1>3
<1>5. Left(q) = {a, b, c, d, e}
  BY <1>1, <1>2 DEF Left
<1>6. Ordered(q)
  BY <1>1, <1>2, <1>4 DEF Ordered
<1>7. QED
  BY <1>1, <1>5, <1>6 DEF Does, q

LEMMA DoesSix ==
  ASSUME NEW a \in Stages, NEW b \in Stages, NEW c \in Stages, NEW d \in Stages,
         NEW e \in Stages, NEW f \in Stages,
         Rank(a) < Rank(b), Rank(b) < Rank(c), Rank(c) < Rank(d), Rank(d) < Rank(e),
         Rank(e) < Rank(f)
  PROVE  Does(<<a, b, c, d, e, f>>, {a, b, c, d, e, f})
<1> DEFINE q == <<a, b, c, d, e, f>>
<1>1. /\ q \in Seq(Stages) /\ Len(q) = 6 /\ q[1] = a /\ q[2] = b /\ q[3] = c /\ q[4] = d
      /\ q[5] = e /\ q[6] = f
  OBVIOUS
<1> HIDE DEF q
<1>2. \A i \in 1..6 : i = 1 \/ i = 2 \/ i = 3 \/ i = 4 \/ i = 5 \/ i = 6
  OBVIOUS
<1>3. \A x \in {a, b, c, d, e, f} : Rank(x) \in Nat
  BY RanksAreNumbers
<1>4. /\ Rank(a) < Rank(c) /\ Rank(a) < Rank(d) /\ Rank(a) < Rank(e) /\ Rank(a) < Rank(f)
      /\ Rank(b) < Rank(d) /\ Rank(b) < Rank(e) /\ Rank(b) < Rank(f)
      /\ Rank(c) < Rank(e) /\ Rank(c) < Rank(f) /\ Rank(d) < Rank(f)
  BY <1>3
<1>5. Left(q) = {a, b, c, d, e, f}
  BY <1>1, <1>2 DEF Left
<1>6. Ordered(q)
  BY <1>1, <1>2, <1>4 DEF Ordered
<1>7. QED
  BY <1>1, <1>5, <1>6 DEF Does, q

\* The plans do what they are made of, in the order of the ranks.
LEMMA ShortPlans ==
  /\ Does(<<"payload", "decide">>, Prelude)
  /\ Does(<<"payload">>, {"payload"})
  /\ Does(ServiceStages, ServicePlan)
  /\ Does(RollBackStages, RollBackPlan)
  /\ Does(BuildStages, {"source", "add", "build", "install"})
<1>1. Does(<<"payload", "decide">>, Prelude)
  <2>1. {"payload", "decide"} \subseteq Stages
    BY DEF Stages
  <2>2. Rank("payload") < Rank("decide")
    BY Ranks
  <2>3. "payload" \in Stages /\ "decide" \in Stages
    BY <2>1
  <2>4. QED
    BY <2>2, <2>3, DoesTwo, Zenon DEF Prelude
<1>2. Does(<<"payload">>, {"payload"})
  BY DoesOne DEF Stages
<1>3. Does(ServiceStages, ServicePlan)
  <2>1. {"services", "write", "start"} \subseteq Stages
    BY DEF Stages
  <2>2. Rank("services") < Rank("write") /\ Rank("write") < Rank("start") /\ Rank("services") < Rank("start")
    BY Ranks
  <2>3. "services" \in Stages /\ "write" \in Stages /\ "start" \in Stages
    BY <2>1
  <2>4. QED
    BY <2>2, <2>3, DoesThree, Zenon DEF ServiceStages, ServicePlan
<1>4. Does(RollBackStages, RollBackPlan)
  <2>1. {"unload", "remove", "reinsert", "refresh", "judge"} \subseteq Stages
    BY DEF Stages
  <2>2. Rank("unload") < Rank("remove") /\ Rank("remove") < Rank("reinsert") /\ Rank("reinsert") < Rank("refresh") /\ Rank("refresh") < Rank("judge")
    BY Ranks
  <2>3. "unload" \in Stages /\ "remove" \in Stages /\ "reinsert" \in Stages /\ "refresh" \in Stages /\ "judge" \in Stages
    BY <2>1
  <2>4. QED
    BY <2>2, <2>3, DoesFive, Zenon DEF RollBackStages, RollBackPlan
<1>5. Does(BuildStages, {"source", "add", "build", "install"})
  <2>1. {"source", "add", "build", "install"} \subseteq Stages
    BY DEF Stages
  <2>2. Rank("source") < Rank("add") /\ Rank("add") < Rank("build") /\ Rank("build") < Rank("install")
    BY Ranks
  <2>3. "source" \in Stages /\ "add" \in Stages /\ "build" \in Stages /\ "install" \in Stages
    BY <2>1
  <2>4. QED
    BY <2>2, <2>3, DoesFour, Zenon DEF BuildStages
<1>6. QED
  BY <1>1, <1>2, <1>3, <1>4, <1>5

LEMMA AttemptIs == Does(<<"payload">> \o AttemptStages, Attempt)
<1> DEFINE a == <<"dependencies", "key", "create", "resign">>
           b == BuildStages
           c == <<"signature", "initramfs", "replace", "insert", "verify">>
           A == {"dependencies", "key", "create", "resign"}
           B == {"source", "add", "build", "install"}
           C == {"signature", "initramfs", "replace", "insert", "verify"}
<1>1. Does(a, A)
  <2>1. {"dependencies", "key", "create", "resign"} \subseteq Stages
    BY DEF Stages
  <2>2. Rank("dependencies") < Rank("key") /\ Rank("key") < Rank("create") /\ Rank("create") < Rank("resign")
    BY Ranks
  <2>3. "dependencies" \in Stages /\ "key" \in Stages /\ "create" \in Stages /\ "resign" \in Stages
    BY <2>1
  <2>4. QED
    BY <2>2, <2>3, DoesFour, Zenon
<1>2. Does(c, C)
  <2>1. {"signature", "initramfs", "replace", "insert", "verify"} \subseteq Stages
    BY DEF Stages
  <2>2. Rank("signature") < Rank("initramfs") /\ Rank("initramfs") < Rank("replace") /\ Rank("replace") < Rank("insert") /\ Rank("insert") < Rank("verify")
    BY Ranks
  <2>3. "signature" \in Stages /\ "initramfs" \in Stages /\ "replace" \in Stages /\ "insert" \in Stages /\ "verify" \in Stages
    BY <2>1
  <2>4. QED
    BY <2>2, <2>3, DoesFive, Zenon
<1>3. AttemptStages = (a \o b) \o c
  BY DEF AttemptStages
<1>4. /\ \A x \in A, y \in B : Rank(x) < Rank(y)
      /\ \A x \in A \cup B, y \in C : Rank(x) < Rank(y)
      /\ \A x \in {"payload"}, y \in (A \cup B) \cup C : Rank(x) < Rank(y)
  BY Ranks
<1>5. {"payload"} \cup ((A \cup B) \cup C) = Attempt
  BY DEF Attempt
<1> HIDE DEF a, b, c, A, B, C
<1>6. Does(b, B)
  BY ShortPlans DEF b, B
<1>7. Does(a \o b, A \cup B)
  BY <1>1, <1>4, <1>6, Joined
<1>8. Does((a \o b) \o c, (A \cup B) \cup C)
  BY <1>2, <1>4, <1>7, Joined
<1>9. Does(<<"payload">> \o ((a \o b) \o c), {"payload"} \cup ((A \cup B) \cup C))
  BY <1>4, <1>8, ShortPlans, Joined
<1>10. QED
  BY <1>3, <1>5, <1>9

LEMMA RecipeIs ==
  ASSUME NEW built \in BOOLEAN
  PROVE  Does(ApplyStages(built) \o ServiceStages, Recipe(built))
<1> DEFINE a == IF built THEN <<"dependencies">> ELSE <<>>
           b == <<"key", "create", "resign">>
           c == IF built THEN BuildStages ELSE <<>>
           d == <<"signature", "prepare">>
           e == IF built THEN <<"initramfs">> ELSE <<>>
           f == <<"load", "unload", "insert", "renderer", "isolation", "device">>
           A == IF built THEN {"dependencies"} ELSE {}
           B == {"key", "create", "resign"}
           C == IF built THEN {"source", "add", "build", "install"} ELSE {}
           D == {"signature", "prepare"}
           E == IF built THEN {"initramfs"} ELSE {}
           F == {"load", "unload", "insert", "renderer", "isolation", "device"}
           S == ServicePlan
<1>1. Does(a, A)
  BY DoesOne, DoesNothing DEF Stages
<1>2. Does(b, B)
  <2>1. {"key", "create", "resign"} \subseteq Stages
    BY DEF Stages
  <2>2. Rank("key") < Rank("create") /\ Rank("create") < Rank("resign") /\ Rank("key") < Rank("resign")
    BY Ranks
  <2>3. "key" \in Stages /\ "create" \in Stages /\ "resign" \in Stages
    BY <2>1
  <2>4. QED
    BY <2>2, <2>3, DoesThree, Zenon
<1>3. Does(c, C)
  BY ShortPlans, DoesNothing
<1>4. Does(d, D)
  <2>1. {"signature", "prepare"} \subseteq Stages
    BY DEF Stages
  <2>2. Rank("signature") < Rank("prepare")
    BY Ranks
  <2>3. "signature" \in Stages /\ "prepare" \in Stages
    BY <2>1
  <2>4. QED
    BY <2>2, <2>3, DoesTwo, Zenon
<1>5. Does(e, E)
  BY DoesOne, DoesNothing DEF Stages
<1>6. Does(f, F)
  <2>1. {"load", "unload", "insert", "renderer", "isolation", "device"} \subseteq Stages
    BY DEF Stages
  <2>2. Rank("load") < Rank("unload") /\ Rank("unload") < Rank("insert") /\ Rank("insert") < Rank("renderer") /\ Rank("renderer") < Rank("isolation") /\ Rank("isolation") < Rank("device")
    BY Ranks
  <2>3. "load" \in Stages /\ "unload" \in Stages /\ "insert" \in Stages /\ "renderer" \in Stages /\ "isolation" \in Stages /\ "device" \in Stages
    BY <2>1
  <2>4. QED
    BY <2>2, <2>3, DoesSix, Zenon
<1>7. ApplyStages(built) = ((((a \o b) \o c) \o d) \o e) \o f
  BY DEF ApplyStages
<1>8. /\ \A x \in A, y \in B : Rank(x) < Rank(y)
      /\ \A x \in A \cup B, y \in C : Rank(x) < Rank(y)
      /\ \A x \in (A \cup B) \cup C, y \in D : Rank(x) < Rank(y)
  BY Ranks
<1>9. \A x \in ((A \cup B) \cup C) \cup D, y \in E : Rank(x) < Rank(y)
  BY Ranks
<1>10. \A x \in (((A \cup B) \cup C) \cup D) \cup E, y \in F : Rank(x) < Rank(y)
  BY Ranks
<1>11. \A x \in ((((A \cup B) \cup C) \cup D) \cup E) \cup F, y \in S : Rank(x) < Rank(y)
  BY Ranks DEF ServicePlan
<1>12. (((((A \cup B) \cup C) \cup D) \cup E) \cup F) \cup S = Recipe(built)
  BY DEF Recipe, ServicePlan
<1> HIDE DEF a, b, c, d, e, f, A, B, C, D, E, F, S
<1>13. Does(a \o b, A \cup B)
  BY <1>1, <1>2, <1>8, Joined
<1>14. Does((a \o b) \o c, (A \cup B) \cup C)
  BY <1>3, <1>8, <1>13, Joined
<1>15. Does(((a \o b) \o c) \o d, ((A \cup B) \cup C) \cup D)
  BY <1>4, <1>8, <1>14, Joined
<1>16. Does((((a \o b) \o c) \o d) \o e, (((A \cup B) \cup C) \cup D) \cup E)
  BY <1>5, <1>9, <1>15, Joined
<1>17. Does(((((a \o b) \o c) \o d) \o e) \o f, ((((A \cup B) \cup C) \cup D) \cup E) \cup F)
  BY <1>6, <1>10, <1>16, Joined
<1>18. Does(ServiceStages, S)
  BY ShortPlans DEF S
<1>19. Does((((((a \o b) \o c) \o d) \o e) \o f) \o ServiceStages,
            (((((A \cup B) \cup C) \cup D) \cup E) \cup F) \cup S)
  BY <1>11, <1>17, <1>18, Joined
<1>20. QED
  BY <1>7, <1>12, <1>19

-----------------------------------------------------------------------------
(* The inductive invariant. *)

\* What holds of a guest at any time.  Whoever has the old payload was asked for
\* it at every boot.
HasOld(s) == s.dkms["old"] # "absent" \/ s.ko = "old" \/ s.loaded = "old" \/ s.image = "old"
GuestOK(s) ==
  /\ s \in Guests
  /\ \A v \in Versions : s.dkms[v] = "installed" <=> s.ko = v
  /\ HasOld(s) => s.asked
  /\ s.builder \/ s.image = None
  /\ s.device => s.loaded # None

\* A stamp is there only while the files it vouches for are.
Stamped ==
  /\ StampVouches
  /\ Due("copy") \/ Due("stamp") => g.stamp = None

\* No job: a host that will ask for an update asks a guest that needs it.
Resting ==
  /\ w.job = "idle" /\ w.todo = <<>> /\ w.outcome = None
  /\ ready /\ told # "new" => g.loaded # "new"

\* A recipe that has not decided whether to build.
Preparing ==
  /\ w.job = "apply" /\ w.outcome = None
  /\ Segment(Left(w.todo), Prelude) /\ Due("decide")
  /\ w.report["signature"] = "unsaid"

\* A recipe that has.
Extra == {"copy", "stamp"}
Equipping ==
  /\ w.job = "apply" /\ w.outcome = None
  /\ Segment(Left(w.todo) \ Extra, Recipe(w.built))
  /\ Left(w.todo) \subseteq Recipe(w.built) \cup Extra
  /\ Due("renderer") => ~Due("copy") /\ ~Due("stamp")
  /\ Due("copy") => Due("stamp")

Signs ==
  /\ Due("signature") => w.report["signature"] = "unsaid"
  /\ \/ Due("signature") \/ ~w.signing \/ w.report["signature"] = "failed"
     \/ g.ko # None /\ g.signed[g.ko]
Shows == (Due("device") \/ g.device) /\ (Due("prepare") \/ g.asked)
Serves ==
  /\ g.carried = {} \/ Due("services") \/ Due("write") \/ g.services = "new"
  /\ w.clean => g.carried = {} \/ Due("start") \/ g.up = "new"
Builds ==
  /\ w.built => Due("install") \/ g.ko = "new"
  /\ w.built => Due("initramfs") \/ ~g.builder \/ g.image = "new"
  /\ ~w.built => g.loaded \in {None, "new"} \/ (~Due("insert") /\ g.loaded = g.ko)
Renders ==
  w.clean => Due("renderer") \/ Due("stamp") \/ g.aquamarine = None \/ g.aquamarine = g.lib
Recipes == Equipping /\ Signs /\ Shows /\ Serves /\ Builds /\ Renders

\* What an update returns to is what ran before it.
Remembers == w.before # None => w.back = w.before

\* An update before its module is verified.
Trying ==
  /\ w.job = "update" /\ w.outcome = None
  /\ Segment(Left(w.todo), Attempt) /\ Due("verify")
  /\ Due("payload") \/ Remembers
  /\ Due("replace") => g.loaded # "new" /\ (Due("payload") \/ g.loaded = w.before)
  /\ Due("install") \/ ~Due("replace") \/ g.ko = "new"
  /\ Due("initramfs") \/ ~Due("replace") \/ ~g.builder \/ g.image = "new"

\* An update whose module was verified.
Verified ==
  /\ w.job = "update" /\ w.outcome = None
  /\ Segment(Left(w.todo), ServicePlan) /\ g.loaded = "new" /\ Remembers

RollingBack ==
  /\ w.job = "update" /\ w.outcome = "failed" /\ w.back # None
  /\ Segment(Left(w.todo), RollBackPlan) /\ Remembers

\* A job that ended before its last stage.
Over ==
  /\ w.job \in {"apply", "update"} /\ w.todo = <<>>
  /\ w.job = "apply" => w.outcome = "failed" /\ ~w.clean
  /\ w.outcome # None
  /\ w.outcome = "rolled_back" => g.loaded = w.back /\ w.back # None /\ Remembers
  /\ w.outcome = "reboot_required" => g.loaded = w.before /\ w.before # None /\ Boots(g) = "new"
  /\ w.outcome # "updated"

Types == w \in Jobs /\ told \in Loaded /\ ready \in BOOLEAN
           /\ faults \in 0..MaxFaults /\ boots \in 0..MaxBoots

UInv ==
  /\ Types /\ GuestOK(g) /\ Ordered(w.todo) /\ Stamped
  /\ Resting \/ Preparing \/ Recipes \/ Trying \/ Verified \/ RollingBack \/ Over
-----------------------------------------------------------------------------
(* What the commands do to the guest. *)

\* The two guests differ in the modules DKMS has at most.
Beside(s, t) ==
  /\ t.image = s.image /\ t.builder = s.builder /\ t.loaded = s.loaded /\ t.device = s.device
  /\ t.params = s.params /\ t.opts = s.opts /\ t.asked = s.asked /\ t.signs = s.signs
  /\ t.key = s.key /\ t.aquamarine = s.aquamarine /\ t.stamp = s.stamp /\ t.lib = s.lib
  /\ t.services = s.services /\ t.up = s.up /\ t.carried = s.carried

LEMMA NoneIsNoVersion == None # "old" /\ None # "new" /\ None # "torn" /\ "old" # "new"
  BY UpdateAssumption DEF Versions

LEMMA BuiltKeeps ==
  ASSUME NEW s, GuestOK(s), NEW v \in Versions, v = "new" \/ Registered(s, v)
  PROVE  /\ GuestOK(DkmsBuilt(s, v)) /\ Beside(s, DkmsBuilt(s, v))
         /\ Registered(DkmsBuilt(s, v), v) /\ DkmsBuilt(s, v).ko = s.ko
         /\ \A u \in Versions : Registered(s, u) => Registered(DkmsBuilt(s, v), u)
<1> DEFINE t == DkmsBuilt(s, v)
<1>1. t \in Guests
  BY DEF GuestOK, Guests, DkmsBuilt
<1>2. /\ Beside(s, t) /\ t.ko = s.ko
      /\ t.dkms = [s.dkms EXCEPT ![v] = IF @ = "installed" THEN @ ELSE "built"]
  BY DEF GuestOK, Guests, DkmsBuilt, Beside
<1> HIDE DEF t
<1>3. /\ s.dkms \in [Versions -> {"absent", "added", "built", "installed"}]
  BY DEF GuestOK, Guests
<1>4. \A u \in Versions : /\ t.dkms[u] = "installed" <=> s.dkms[u] = "installed"
                          /\ u # v => t.dkms[u] = s.dkms[u]
                          /\ t.dkms[v] # "absent"
  BY <1>2, <1>3
<1>5. QED
  BY <1>1, <1>2, <1>4 DEF GuestOK, HasOld, Beside, Registered, Versions, t

LEMMA InstalledKeeps ==
  ASSUME NEW s, GuestOK(s), NEW v \in Versions, v = "new" \/ Registered(s, v)
  PROVE  /\ GuestOK(DkmsInstalled(s, v)) /\ Beside(s, DkmsInstalled(s, v))
         /\ DkmsInstalled(s, v).ko = v /\ DkmsInstalled(s, v).signed = s.signed
         /\ \A u \in Versions : Registered(s, u) => Registered(DkmsInstalled(s, v), u)
<1> DEFINE t == DkmsInstalled(s, v)
<1>1. t \in Guests
  BY DEF GuestOK, Guests, DkmsInstalled, Loaded
<1>2. /\ Beside(s, t) /\ t.ko = v /\ t.signed = s.signed
      /\ t.dkms = [u \in Versions |->
                        IF u = v THEN "installed"
                        ELSE IF s.dkms[u] = "installed" THEN "built" ELSE s.dkms[u]]
  BY DEF GuestOK, Guests, DkmsInstalled, Beside
<1> HIDE DEF t
<1>3. \A u \in Versions : /\ t.dkms[u] = "installed" <=> u = v
                          /\ s.dkms[u] # "absent" => t.dkms[u] # "absent"
                          /\ u # v /\ t.dkms[u] # "absent" => s.dkms[u] # "absent"
  BY <1>2
<1>4. HasOld(t) => t.asked
  BY <1>2, <1>3, NoneIsNoVersion DEF GuestOK, HasOld, Beside, Registered, Versions
<1>5. QED
  BY <1>1, <1>2, <1>3, <1>4 DEF GuestOK, Beside, Registered, t

LEMMA AnewKeeps ==
  ASSUME NEW s, GuestOK(s), NEW v \in Versions, v = "new" \/ Registered(s, v)
  PROVE  /\ GuestOK(Anew(s, v)) /\ Beside(s, Anew(s, v))
         /\ \A u \in Versions : Registered(s, u) => Registered(Anew(s, v), u)
<1> DEFINE t == DkmsBuilt(s, v)
<1>1. /\ GuestOK(t) /\ Beside(s, t) /\ Registered(t, v)
      /\ \A u \in Versions : Registered(s, u) => Registered(t, u)
  BY BuiltKeeps
<1> HIDE DEF t
<1> DEFINE r == DkmsInstalled(t, v)
<1>2. /\ GuestOK(r) /\ Beside(t, r)
      /\ \A u \in Versions : Registered(t, u) => Registered(r, u)
  BY <1>1, InstalledKeeps
<1>3. Anew(s, v) = r
  BY DEF Anew, t
<1> HIDE DEF r
<1>4. QED
  BY <1>1, <1>2, <1>3 DEF Beside

LEMMA ResignedKeeps ==
  ASSUME NEW s, GuestOK(s), NEW n \in 0..Len(DkmsVersions(s))
  PROVE  GuestOK(Resigned(s, n)) /\ Beside(s, Resigned(s, n))
<1> DEFINE all == DkmsVersions(s)
           a == Anew(s, all[1])
           b == Anew(a, all[2])
<1>1. s \in Guests
  BY DEF GuestOK
<1>2. /\ Len(all) \in 0..2 /\ \A i \in 1..Len(all) : all[i] \in Versions /\ Registered(s, all[i])
  BY <1>1, VersionsListed
<1>3. Resigned(s, n) = IF n = 0 THEN s ELSE IF n = 1 THEN a ELSE b
  BY <1>1, ResignedIs
<1> HIDE DEF all
<1>4. n > 0 => GuestOK(a) /\ Beside(s, a) /\ \A u \in Versions : Registered(s, u) => Registered(a, u)
  <2> SUFFICES ASSUME n > 0 PROVE GuestOK(a) /\ Beside(s, a) /\ \A u \in Versions : Registered(s, u) => Registered(a, u)
    OBVIOUS
  <2>1. all[1] \in Versions /\ Registered(s, all[1])
    BY <1>2 DEF all
  <2>2. QED
    BY <2>1, AnewKeeps
<1> HIDE DEF a
<1>5. n > 1 => GuestOK(b) /\ Beside(a, b)
  <2> SUFFICES ASSUME n > 1 PROVE GuestOK(b) /\ Beside(a, b)
    OBVIOUS
  <2>1. all[2] \in Versions /\ Registered(s, all[2]) /\ n > 0
    BY <1>2 DEF all
  <2>2. GuestOK(a) /\ Registered(a, all[2])
    BY <1>4, <2>1
  <2>3. QED
    BY <2>1, <2>2, AnewKeeps
<1> HIDE DEF b
<1>6. CASE n = 0
  BY <1>3, <1>6 DEF Beside
<1>7. CASE n = 1
  BY <1>3, <1>4, <1>7
<1>8. CASE n > 1
  BY <1>3, <1>4, <1>5, <1>8 DEF Beside
<1>9. QED
  BY <1>6, <1>7, <1>8

LEMMA RemovedKeeps ==
  ASSUME NEW s, GuestOK(s), NEW t \in DkmsRemoved(s, "new")
  PROVE  GuestOK(t) /\ Beside(s, t)
<1> DEFINE gone == [s EXCEPT !.dkms["new"] = "absent", !.signed["new"] = FALSE]
           bare == [gone EXCEPT !.ko = None]
           back == DkmsInstalled(gone, "old")
<1>1. /\ s.ko # "new" => t = gone
      /\ s.ko = "new" => t = bare \/ (s.dkms["old"] = "built" /\ t = back)
  BY DEF DkmsRemoved, Versions
<1>2. /\ s.dkms \in [Versions -> {"absent", "added", "built", "installed"}]
      /\ s \in Guests
  BY DEF GuestOK, Guests
<1>3. gone \in Guests /\ bare \in Guests
  BY <1>2 DEF Guests, Loaded, Versions
<1>4. /\ Beside(s, gone) /\ Beside(s, bare) /\ gone.ko = s.ko /\ bare.ko = None
      /\ gone.dkms = [s.dkms EXCEPT !["new"] = "absent"]
      /\ bare.dkms = gone.dkms
  BY <1>2 DEF Guests, Beside
<1>5. back \in Guests
  BY <1>3 DEF DkmsInstalled, Guests, Loaded, Versions
<1>6. /\ back.ko = "old" /\ Beside(gone, back)
      /\ back.dkms = [u \in Versions |->
                        IF u = "old" THEN "installed"
                        ELSE IF gone.dkms[u] = "installed" THEN "built" ELSE gone.dkms[u]]
  BY <1>3 DEF DkmsInstalled, Guests, Beside
<1> HIDE DEF gone, bare, back
<1>7. gone.dkms["new"] = "absent" /\ gone.dkms["old"] = s.dkms["old"]
  BY <1>2, <1>4, NoneIsNoVersion DEF Versions
<1>8. back.dkms["old"] = "installed" /\ back.dkms["new"] = "absent"
  BY <1>6, <1>7, NoneIsNoVersion DEF Versions
<1>9. Beside(s, back)
  BY <1>4, <1>6 DEF Beside
<1>10. CASE s.ko # "new"
  <2>1. t = gone /\ gone.asked = s.asked /\ (HasOld(gone) => HasOld(s))
    BY <1>1, <1>4, <1>7, <1>10 DEF HasOld, Beside
  <2>2. \A v \in Versions : gone.dkms[v] = "installed" <=> gone.ko = v
    BY <1>4, <1>7, <1>10 DEF GuestOK, Versions
  <2>3. (gone.builder \/ gone.image = None) /\ (gone.device => gone.loaded # None)
    BY <1>4 DEF Beside, GuestOK
  <2>4. QED
    BY <1>3, <1>4, <2>1, <2>2, <2>3 DEF GuestOK
<1>11. CASE s.ko = "new" /\ t = bare
  <2>1. bare.asked = s.asked /\ (HasOld(bare) => HasOld(s))
    BY <1>4, <1>7, NoneIsNoVersion DEF HasOld, Beside
  <2>2. \A v \in Versions : bare.dkms[v] = "installed" <=> bare.ko = v
    BY <1>4, <1>7, <1>11, NoneIsNoVersion DEF GuestOK, Versions
  <2>3. (bare.builder \/ bare.image = None) /\ (bare.device => bare.loaded # None)
    BY <1>4 DEF Beside, GuestOK
  <2>4. QED
    BY <1>3, <1>4, <1>11, <2>1, <2>2, <2>3 DEF GuestOK
<1>12. CASE s.ko = "new" /\ s.dkms["old"] = "built" /\ t = back
  <2>1. HasOld(s) /\ s.asked
    BY <1>12 DEF GuestOK, HasOld
  <2>2. back.asked /\ (back.builder \/ back.image = None) /\ (back.device => back.loaded # None)
    BY <1>9, <2>1 DEF Beside, GuestOK
  <2>3. \A v \in Versions : back.dkms[v] = "installed" <=> back.ko = v
    BY <1>6, <1>8 DEF Versions
  <2>4. QED
    BY <1>5, <1>9, <1>12, <2>2, <2>3 DEF GuestOK
<1>13. QED
  BY <1>1, <1>10, <1>11, <1>12

\* All but the running kernel.
Under(s, t) ==
  /\ t.dkms = s.dkms /\ t.signed = s.signed /\ t.ko = s.ko /\ t.image = s.image
  /\ t.builder = s.builder /\ t.opts = s.opts /\ t.asked = s.asked /\ t.signs = s.signs
  /\ t.key = s.key /\ t.aquamarine = s.aquamarine /\ t.stamp = s.stamp /\ t.lib = s.lib
  /\ t.services = s.services /\ t.carried = s.carried

LEMMA InsertedKeeps ==
  ASSUME NEW s, GuestOK(s), s.ko # None,
         NEW t \in {Inserted(s), [Inserted(s) EXCEPT !.device = FALSE]}
  PROVE  GuestOK(t) /\ Under(s, t) /\ t.loaded = s.ko /\ t.up = s.up
<1> DEFINE r == Inserted(s)
<1>1. r \in Guests /\ [r EXCEPT !.device = FALSE] \in Guests
  BY DEF GuestOK, Guests, Inserted
<1>2. Under(s, r) /\ r.loaded = s.ko /\ r.up = s.up
  BY DEF GuestOK, Guests, Inserted, Under
<1> HIDE DEF r
<1>3. Under(s, t) /\ t.loaded = s.ko /\ t.up = s.up /\ t \in Guests
  <2>1. CASE t = r
    BY <1>1, <1>2, <2>1
  <2>2. CASE t = [r EXCEPT !.device = FALSE]
    BY <1>1, <1>2, <2>2 DEF Under, Guests
  <2>3. QED
    BY <2>1, <2>2 DEF r
<1>4. QED
  BY <1>3 DEF GuestOK, HasOld, Under

LEMMA UnloadedKeeps ==
  ASSUME NEW s, GuestOK(s), NEW t \in Unloaded(s)
  PROVE  /\ GuestOK(t) /\ Under(s, t) /\ t.up = s.up
         /\ t.loaded = None \/ t = s
<1>1. t = s \/ t = [s EXCEPT !.loaded = None, !.device = FALSE]
  BY DEF Unloaded
<1>2. CASE t = s
  BY <1>2 DEF Under
<1>3. CASE t = [s EXCEPT !.loaded = None, !.device = FALSE]
  <2>1. t \in Guests
    BY <1>3 DEF GuestOK, Guests, Loaded
  <2>2. Under(s, t) /\ t.loaded = None /\ t.device = FALSE /\ t.up = s.up
    BY <1>3 DEF GuestOK, Guests, Under
  <2>3. QED
    BY <2>1, <2>2, NoneIsNoVersion DEF GuestOK, HasOld, Under
<1>4. QED
  BY <1>1, <1>2, <1>3

LEMMA BootedKeeps ==
  ASSUME NEW s, GuestOK(s)
  PROVE  GuestOK(Booted(s)) /\ Under(s, Booted(s))
<1> DEFINE t == Booted(s)
<1>1. Boots(s) \in Loaded /\ Runs(s.services) \in Loaded
  BY DEF GuestOK, Guests, Boots, Runs, Drafts, Loaded
<1>2. t \in Guests
  BY <1>1 DEF GuestOK, Guests, Booted
<1>3. Under(s, t) /\ t.loaded = Boots(s) /\ t.device = (Boots(s) # None)
  BY DEF GuestOK, Guests, Booted, Under
<1> HIDE DEF t
<1>4. t.loaded = "old" => HasOld(s)
  BY <1>3, NoneIsNoVersion DEF Boots, HasOld
<1>5. QED
  BY <1>2, <1>3, <1>4 DEF GuestOK, HasOld, Under, t
-----------------------------------------------------------------------------
(* How a job moves. *)

Reports == [Steps -> {"unsaid", "ok", "skipped", "failed"}]

LEMMA RecordedIs ==
  ASSUME NEW r \in Reports, NEW step \in Steps, NEW state \in {"ok", "skipped", "failed"}
  PROVE  /\ Recorded(r, step, state) \in Reports
         /\ \A s \in Steps : s # step => Recorded(r, step, state)[s] = r[s]
         /\ r[step] = "unsaid" => Recorded(r, step, state)[step] = state
  BY DEF Recorded, Reports

LEMMA JobFields ==
  ASSUME NEW x \in Jobs
  PROVE  /\ x.job \in {"idle", "apply", "update"} /\ x.todo \in Seq(Stages)
         /\ x.report \in Reports /\ x.built \in BOOLEAN /\ x.signing \in BOOLEAN
         /\ x.before \in Loaded /\ x.back \in Loaded /\ x.outcome \in Outcomes \cup {None}
         /\ x.clean \in BOOLEAN /\ x.stopping \in BOOLEAN /\ x.mode \in Modes
  BY DEF Jobs, Reports

\* The job is given up.
Fails == w'.todo = <<>> /\ w'.outcome = "failed" /\ w'.clean = FALSE

\* The job stays the job it was.
SameJob ==
  /\ w' \in Jobs /\ w'.job = w.job /\ w'.built = w.built /\ w'.before = w.before
  /\ w'.back = w.back

\* It leaves the stages `D` behind.
Proceeds(D, report, signing, clean) ==
  /\ Ordered(w'.todo) /\ Left(w'.todo) = Left(w.todo) \ D
  /\ Segment(Left(w'.todo), Left(w.todo))
  /\ w'.outcome = w.outcome /\ w'.report = report /\ w'.signing = signing
  /\ w'.clean = clean

LEMMA OnwardIs ==
  ASSUME NEW x \in Jobs, NEW q \in Seq(Stages), w' = Onward(x, q)
  PROVE  /\ w' \in Jobs /\ w'.job = x.job /\ w'.built = x.built /\ w'.before = x.before
         /\ w'.back = x.back
         /\ \/ Fails
            \/ /\ w'.todo = q /\ w'.outcome = x.outcome /\ w'.report = x.report
               /\ w'.signing = x.signing /\ w'.clean = x.clean
<1>1. \/ w' = [x EXCEPT !.todo = <<>>, !.outcome = "failed", !.clean = FALSE]
      \/ w' = [x EXCEPT !.todo = q]
  BY DEF Onward
<1>2. CASE w' = [x EXCEPT !.todo = <<>>, !.outcome = "failed", !.clean = FALSE]
  <2>1. <<>> \in Seq(Stages) /\ "failed" \in Outcomes
    BY DEF Outcomes
  <2>2. w' \in Jobs
    BY <1>2, <2>1 DEF Jobs
  <2>3. QED
    BY <1>2, <2>2 DEF Jobs, Fails
<1>3. CASE w' = [x EXCEPT !.todo = q]
  <2>1. w' \in Jobs
    BY <1>3 DEF Jobs
  <2>2. QED
    BY <1>3, <2>1 DEF Jobs
<1>4. QED
  BY <1>1, <1>2, <1>3

\* The job `x` is the one at hand but for what it has to say.
Saying(x, report, signing, clean) ==
  /\ x \in Jobs /\ x.job = w.job /\ x.built = w.built /\ x.before = w.before
  /\ x.back = w.back /\ x.outcome = w.outcome
  /\ x.report = report /\ x.signing = signing /\ x.clean = clean

LEMMA Moves ==
  ASSUME NEW x, NEW report, NEW signing, NEW clean, Saying(x, report, signing, clean),
         NEW q \in Seq(Stages), Ordered(q), Segment(Left(q), Left(w.todo)),
         NEW D, Left(q) = Left(w.todo) \ D, w' = Onward(x, q)
  PROVE  SameJob /\ (Fails \/ Proceeds(D, report, signing, clean))
<1>1. x \in Jobs
  BY DEF Saying
<1>2. /\ w' \in Jobs /\ w'.job = x.job /\ w'.built = x.built /\ w'.before = x.before
      /\ w'.back = x.back
      /\ \/ Fails
         \/ /\ w'.todo = q /\ w'.outcome = x.outcome /\ w'.report = x.report
            /\ w'.signing = x.signing /\ w'.clean = x.clean
  BY <1>1, OnwardIs
<1>3. QED
  BY <1>2 DEF Saying, SameJob, Proceeds

LEMMA GoOnSays ==
  ASSUME w \in Jobs, NEW report \in Reports, NEW broken \in BOOLEAN
  PROVE  Saying([w EXCEPT !.report = report, !.clean = @ /\ ~broken],
                report, w.signing, w.clean /\ ~broken)
<1>1. (w.clean /\ ~broken) \in BOOLEAN
  OBVIOUS
<1>2. QED
  BY <1>1 DEF Saying, Jobs, Reports

\* What the first stage of a job says of the others.
LEMMA AtIs ==
  ASSUME UInv, NEW st, At(st)
  PROVE  /\ w \in Jobs /\ w.todo \in Seq(Stages) /\ w.todo # <<>> /\ Ordered(w.todo)
         /\ st = Head(w.todo) /\ Due(st) /\ st \in Stages /\ Left(w.todo) \subseteq Stages
         /\ \A x \in Left(w.todo) : Rank(st) <= Rank(x)
         /\ w.job \in {"apply", "update"}
         /\ Recipes \/ Preparing \/ Trying \/ Verified \/ RollingBack
<1>1. w \in Jobs /\ w.todo # <<>> /\ Ordered(w.todo) /\ st = Head(w.todo)
  BY DEF UInv, Types, At
<1>2. w.todo \in Seq(Stages)
  BY <1>1, JobFields
<1>3. /\ Head(w.todo) \in Stages /\ Head(w.todo) \in Left(w.todo) /\ Left(w.todo) \subseteq Stages
      /\ \A x \in Left(w.todo) : Rank(Head(w.todo)) <= Rank(x)
  BY <1>1, <1>2, TailLeft
<1>4. ~Resting /\ ~Over
  BY <1>1 DEF Resting, Over
<1>5. QED
  BY <1>1, <1>2, <1>3, <1>4 DEF UInv, At, Due

LEMMA TailGoes ==
  ASSUME UInv, NEW st, At(st), NEW x, NEW report, NEW signing, NEW clean,
         Saying(x, report, signing, clean), w' = Onward(x, Tail(w.todo))
  PROVE  SameJob /\ (Fails \/ Proceeds({st}, report, signing, clean))
<1>1. w.todo \in Seq(Stages) /\ w.todo # <<>> /\ Ordered(w.todo) /\ st = Head(w.todo)
  BY AtIs
<1>2. /\ Tail(w.todo) \in Seq(Stages) /\ Ordered(Tail(w.todo))
      /\ Left(Tail(w.todo)) = Left(w.todo) \ {st}
      /\ Segment(Left(Tail(w.todo)), Left(w.todo))
  BY <1>1, TailLeft
<1>3. QED
  BY <1>2, Moves

LEMMA PastGoes ==
  ASSUME UInv, NEW st, At(st), NEW to \in Left(w.todo),
         NEW x, NEW report, NEW signing, NEW clean,
         Saying(x, report, signing, clean), w' = Onward(x, Past(to))
  PROVE  /\ SameJob
         /\ Fails \/ Proceeds({y \in Left(w.todo) : Rank(y) <= Rank(to)}, report, signing, clean)
<1> DEFINE D == {y \in Left(w.todo) : Rank(y) <= Rank(to)}
<1>1. w.todo \in Seq(Stages) /\ Ordered(w.todo) /\ Left(w.todo) \subseteq Stages
  BY AtIs
<1>2. /\ Past(to) \in Seq(Stages) /\ Ordered(Past(to))
      /\ Left(Past(to)) = {y \in Left(w.todo) : Rank(to) < Rank(y)}
      /\ Segment(Left(Past(to)), Left(w.todo))
  BY <1>1, PastLeft
<1>3. \A y \in Left(w.todo) : Rank(y) \in Nat
  BY <1>1, RanksAreNumbers
<1>4. \A y \in Left(w.todo) : Rank(to) < Rank(y) <=> ~(Rank(y) <= Rank(to))
  BY <1>3
<1>5. Left(Past(to)) = Left(w.todo) \ D
  BY <1>2, <1>4
<1> HIDE DEF D
<1>6. SameJob /\ (Fails \/ Proceeds(D, report, signing, clean))
  BY <1>2, <1>5, Moves
<1>7. QED
  BY <1>6 DEF D

LEMMA TwoGo ==
  ASSUME UInv, NEW st, At(st), NEW b \in Left(w.todo), Rank(b) = Rank(st) + 1,
         NEW x, NEW report, NEW signing, NEW clean,
         Saying(x, report, signing, clean), w' = Onward(x, Tail(Tail(w.todo)))
  PROVE  SameJob /\ (Fails \/ Proceeds({st, b}, report, signing, clean))
<1>1. w.todo \in Seq(Stages) /\ w.todo # <<>> /\ Ordered(w.todo) /\ st = Head(w.todo)
  BY AtIs
<1>2. /\ Tail(Tail(w.todo)) \in Seq(Stages) /\ Ordered(Tail(Tail(w.todo)))
      /\ Left(Tail(Tail(w.todo))) = Left(w.todo) \ {st, b}
      /\ Segment(Left(Tail(Tail(w.todo))), Left(w.todo))
  BY <1>1, NextLeft
<1>3. QED
  BY <1>2, Moves

\* The first stage is left behind, and something was said of a step.
LEMMA GoesIs ==
  ASSUME UInv, NEW st, At(st), NEW report \in Reports, NEW broken \in BOOLEAN,
         GoOn(Tail(w.todo), report, broken)
  PROVE  SameJob /\ (Fails \/ Proceeds({st}, report, w.signing, w.clean /\ ~broken))
<1> DEFINE x == [w EXCEPT !.report = report, !.clean = @ /\ ~broken]
<1>1. w \in Jobs
  BY AtIs
<1>2. Saying(x, report, w.signing, w.clean /\ ~broken)
  BY <1>1, GoOnSays
<1>3. w' = Onward(x, Tail(w.todo))
  BY DEF GoOn
<1> HIDE DEF x
<1>4. QED
  BY <1>2, <1>3, TailGoes

-----------------------------------------------------------------------------
(* How each phase is kept. *)

\* What a stage leaves alone, and the faults it may count.
Quiet == UNCHANGED rest /\ faults' \in 0..MaxFaults

LEMMA FaultsCount ==
  ASSUME Types, Works \/ Breaks
  PROVE  faults' \in 0..MaxFaults
<1>1. faults \in 0..MaxFaults /\ MaxFaults \in Nat
  BY UpdateAssumption DEF Types
<1>2. QED
  BY <1>1 DEF Works, Breaks

LEMMA QuietTypes ==
  ASSUME UInv, Quiet, w' \in Jobs
  PROVE  Types'
  BY DEF UInv, Types, Quiet, rest

LEMMA NothingLeft == <<>> \in Seq(Stages) /\ Ordered(<<>>) /\ Left(<<>>) = {}
  BY DoesNothing DEF Does

\* A job that is given up is over.
LEMMA FailsIsOver ==
  ASSUME UInv, w.job \in {"apply", "update"}, SameJob, Fails, Quiet,
         GuestOK(g)', StampVouches'
  PROVE  UInv'
<1>1. Over'
  BY NothingLeft, UpdateAssumption DEF Over, Fails, SameJob, Outcomes, Remembers
<1>2. Ordered(w.todo)' /\ Stamped'
  BY NothingLeft DEF Fails, Stamped, Due
<1>3. Types'
  BY QuietTypes DEF SameJob
<1>4. QED
  BY <1>1, <1>2, <1>3 DEF UInv

LEMMA EndsIs ==
  ASSUME UInv, NEW st, At(st), NEW step \in Steps, Ends(step)
  PROVE  /\ SameJob /\ w'.outcome = "failed" /\ w'.clean = FALSE
         /\ \/ w'.todo = <<>>
            \/ w'.todo = RollBackStages /\ w.job = "update" /\ w.back # None /\ st # "payload"
<1> DEFINE todo == IF InAttempt /\ w.back # None THEN RollBackStages ELSE <<>>
<1>1. w \in Jobs /\ Head(w.todo) = st
  BY AtIs
<1>2. todo \in Seq(Stages)
  BY NothingLeft, ShortPlans DEF Does
<1>3. \/ todo = <<>>
      \/ todo = RollBackStages /\ w.job = "update" /\ w.back # None /\ st # "payload"
  BY <1>1 DEF InAttempt
<1>4. Say(step, "failed") \in Reports
  BY <1>1, JobFields, RecordedIs DEF Say
<1>5. w' = [w EXCEPT !.todo = todo, !.outcome = "failed", !.clean = FALSE,
                     !.report = Say(step, "failed")]
  BY DEF Ends
<1> HIDE DEF todo
<1>6. w' \in Jobs
  BY <1>1, <1>2, <1>4, <1>5 DEF Jobs, Outcomes, Reports
<1>7. /\ w'.job = w.job /\ w'.built = w.built /\ w'.before = w.before /\ w'.back = w.back
      /\ w'.outcome = "failed" /\ w'.clean = FALSE /\ w'.todo = todo
  BY <1>1, <1>5 DEF Jobs
<1>8. QED
  BY <1>3, <1>6, <1>7 DEF SameJob

\* A job sent into its rollback.
LEMMA RollsBack ==
  ASSUME UInv, NEW st, At(st), st # "payload", Trying \/ Verified \/ RollingBack,
         SameJob, w'.outcome = "failed", w'.todo = RollBackStages, w.back # None,
         Quiet, GuestOK(g)', StampVouches'
  PROVE  UInv'
<1>1. Does(w'.todo, RollBackPlan)
  BY ShortPlans
<1>2. /\ w.job = "update" /\ Remembers
  <2>1. ~Due("payload")
    <3>1. st \in Stages /\ \A x \in Left(w.todo) : Rank(st) <= Rank(x)
      BY AtIs
    <3>2. ~(Rank(st) <= Rank("payload"))
      BY <3>1, Ranks DEF Stages
    <3>3. QED
      BY <3>1, <3>2 DEF Due
  <2>2. QED
    BY <2>1 DEF Trying, Verified, RollingBack
<1>3. Segment(Left(w'.todo), RollBackPlan)
  BY <1>1 DEF Does, Segment
<1>4. RollingBack'
  BY <1>2, <1>3 DEF RollingBack, SameJob, Remembers
<1>5. Stamped'
  BY <1>1 DEF Stamped, Due, Does, RollBackPlan
<1>6. Types'
  BY QuietTypes DEF SameJob
<1>7. QED
  BY <1>1, <1>4, <1>5, <1>6 DEF UInv, Does

LEMMA EndsKeeps ==
  ASSUME UInv, NEW st, At(st), NEW step \in Steps, Ends(step), Quiet,
         GuestOK(g)', StampVouches'
  PROVE  UInv'
<1>1. /\ SameJob /\ w'.outcome = "failed" /\ w'.clean = FALSE
      /\ \/ w'.todo = <<>>
         \/ w'.todo = RollBackStages /\ w.job = "update" /\ w.back # None /\ st # "payload"
  BY EndsIs
<1>2. /\ w.job \in {"apply", "update"}
      /\ Recipes \/ Preparing \/ Trying \/ Verified \/ RollingBack
  BY AtIs
<1>3. CASE w'.todo = <<>>
  BY <1>1, <1>2, <1>3, FailsIsOver DEF Fails
<1>4. CASE w'.todo = RollBackStages /\ w.job = "update" /\ w.back # None /\ st # "payload"
  <2>1. Trying \/ Verified \/ RollingBack
    BY <1>2, <1>4 DEF Recipes, Equipping, Preparing
  <2>2. QED
    BY <1>1, <1>4, <2>1, RollsBack
<1>5. QED
  BY <1>1, <1>3, <1>4

\* An action that ends its job and leaves the guest alone.
LEMMA EndsAlone ==
  ASSUME UInv, NEW st, At(st), NEW step \in Steps, Ends(step), Quiet, UNCHANGED g
  PROVE  UInv'
<1>1. GuestOK(g)' /\ StampVouches'
  BY DEF UInv, Stamped, StampVouches
<1>2. QED
  BY <1>1, EndsKeeps

\* The parts of a recipe after a stage that goes on.
RecipeFacts == Signs /\ Shows /\ Serves /\ Builds /\ Renders

LEMMA RecipeGoesOn ==
  ASSUME UInv, Recipes, NEW D, NEW report, NEW signing, NEW clean,
         SameJob, Fails \/ Proceeds(D, report, signing, clean), Quiet,
         GuestOK(g)', StampVouches', Due("copy")' \/ Due("stamp")' => g'.stamp = None,
         Proceeds(D, report, signing, clean) => RecipeFacts'
  PROVE  UInv'
<1>1. w.job = "apply" /\ w.outcome = None
  BY DEF Recipes, Equipping
<1>2. CASE Fails
  BY <1>1, <1>2, FailsIsOver
<1>3. CASE Proceeds(D, report, signing, clean)
  <2>1. /\ Segment(Left(w'.todo), Left(w.todo)) /\ Ordered(w'.todo) /\ w'.outcome = None
        /\ w'.job = "apply" /\ w'.built = w.built
    BY <1>1, <1>3 DEF Proceeds, SameJob
  <2>2. Segment(Left(w'.todo) \ Extra, Left(w.todo) \ Extra)
    BY <2>1 DEF Segment
  <2>3. Segment(Left(w'.todo) \ Extra, Recipe(w.built))
    BY <2>2, SegmentsNest DEF Recipes, Equipping
  <2>4. \A x : x \in Left(w'.todo) => x \in Left(w.todo)
    BY <2>1 DEF Segment
  <2>5. Due("copy")' => Due("stamp")'
    BY <2>1, <2>4, Ranks DEF Segment, Due, Recipes, Equipping
  <2>6. /\ Left(w'.todo) \subseteq Recipe(w.built) \cup Extra
        /\ Due("renderer")' => ~Due("copy")' /\ ~Due("stamp")'
    BY <2>4 DEF Recipes, Equipping, Due
  <2>7. Equipping'
    BY <2>1, <2>3, <2>5, <2>6 DEF Equipping
  <2>8. Recipes'
    BY <1>3, <2>7 DEF Recipes, RecipeFacts
  <2>9. Types' /\ Stamped'
    BY QuietTypes DEF SameJob, Stamped
  <2>10. QED
    BY <2>1, <2>8, <2>9 DEF UInv
<1>4. QED
  BY <1>2, <1>3

\* The parts of an attempt after a stage that goes on.
TrialFacts ==
  /\ Due("payload") \/ Remembers
  /\ Due("replace") => g.loaded # "new" /\ (Due("payload") \/ g.loaded = w.before)
  /\ Due("install") \/ ~Due("replace") \/ g.ko = "new"
  /\ Due("initramfs") \/ ~Due("replace") \/ ~g.builder \/ g.image = "new"

LEMMA TrialGoesOn ==
  ASSUME UInv, Trying, NEW D, NEW report, NEW signing, NEW clean,
         w' \in Jobs, w'.job = w.job, Fails \/ Proceeds(D, report, signing, clean), Quiet,
         Fails => SameJob,
         GuestOK(g)', StampVouches', "verify" \notin D,
         Proceeds(D, report, signing, clean) => TrialFacts'
  PROVE  UInv'
<1>1. w.job = "update" /\ w.outcome = None /\ Due("verify") /\ Segment(Left(w.todo), Attempt)
  BY DEF Trying
<1>2. CASE Fails
  BY <1>1, <1>2, FailsIsOver
<1>3. CASE Proceeds(D, report, signing, clean)
  <2>1. /\ Segment(Left(w'.todo), Left(w.todo)) /\ Ordered(w'.todo) /\ w'.outcome = None
        /\ w'.job = "update" /\ Due("verify")'
    BY <1>1, <1>3 DEF Proceeds, Due
  <2>2. Segment(Left(w'.todo), Attempt)
    BY <1>1, <2>1, SegmentsNest
  <2>3. Trying'
    BY <1>3, <2>1, <2>2 DEF Trying, TrialFacts
  <2>4. Types'
    BY QuietTypes
  <2>5. ~Due("copy")' /\ ~Due("stamp")'
    BY <2>2 DEF Due, Segment, Attempt
  <2>6. QED
    BY <2>1, <2>3, <2>4, <2>5 DEF UInv, Stamped
<1>4. QED
  BY <1>2, <1>3

LEMMA ServicesGoOn ==
  ASSUME UInv, Verified, NEW D, NEW report, NEW signing, NEW clean,
         SameJob, Fails \/ Proceeds(D, report, signing, clean), Quiet,
         GuestOK(g)', StampVouches', g'.loaded = g.loaded
  PROVE  UInv'
<1>1. /\ w.job = "update" /\ w.outcome = None /\ Segment(Left(w.todo), ServicePlan)
      /\ Remembers /\ g.loaded = "new"
  BY DEF Verified
<1>2. CASE Fails
  BY <1>1, <1>2, FailsIsOver
<1>3. CASE Proceeds(D, report, signing, clean)
  <2>1. /\ Segment(Left(w'.todo), Left(w.todo)) /\ Ordered(w'.todo) /\ w'.outcome = None
        /\ w'.job = "update" /\ Remembers'
    BY <1>1, <1>3 DEF Proceeds, SameJob, Remembers
  <2>2. Segment(Left(w'.todo), ServicePlan)
    BY <1>1, <2>1, SegmentsNest
  <2>3. Verified'
    BY <1>1, <2>1, <2>2 DEF Verified
  <2>4. Types'
    BY QuietTypes DEF SameJob
  <2>5. ~Due("copy")' /\ ~Due("stamp")'
    BY <2>2 DEF Due, Segment, ServicePlan
  <2>6. QED
    BY <2>1, <2>3, <2>4, <2>5 DEF UInv, Stamped
<1>4. QED
  BY <1>2, <1>3

LEMMA RollBackGoesOn ==
  ASSUME UInv, RollingBack, NEW D, NEW report, NEW signing, NEW clean,
         SameJob, Fails \/ Proceeds(D, report, signing, clean), Quiet,
         GuestOK(g)', StampVouches'
  PROVE  UInv'
<1>1. /\ w.job = "update" /\ w.outcome = "failed" /\ Segment(Left(w.todo), RollBackPlan)
      /\ w.back # None /\ Remembers
  BY DEF RollingBack
<1>2. CASE Fails
  BY <1>1, <1>2, FailsIsOver
<1>3. CASE Proceeds(D, report, signing, clean)
  <2>1. /\ Segment(Left(w'.todo), Left(w.todo)) /\ Ordered(w'.todo) /\ w'.outcome = "failed"
        /\ w'.job = "update" /\ w'.back # None /\ Remembers'
    BY <1>1, <1>3 DEF Proceeds, SameJob, Remembers
  <2>2. Segment(Left(w'.todo), RollBackPlan)
    BY <1>1, <2>1, SegmentsNest
  <2>3. RollingBack'
    BY <2>1, <2>2 DEF RollingBack
  <2>4. Types'
    BY QuietTypes DEF SameJob
  <2>5. ~Due("copy")' /\ ~Due("stamp")'
    BY <2>2 DEF Due, Segment, RollBackPlan
  <2>6. QED
    BY <2>1, <2>3, <2>4, <2>5 DEF UInv, Stamped
<1>4. QED
  BY <1>2, <1>3

\* In a recipe, or an attempt, what comes later than the first stage is due and
\* what comes earlier is not.
LEMMA RecipeOrder ==
  ASSUME UInv, Recipes, NEW st, At(st), NEW y \in Recipe(w.built)
  PROVE  /\ Rank(y) < Rank(st) => ~Due(y)
         /\ Rank(st) < Rank(y) /\ st \notin Extra => Due(y)
<1>1. Due(st) /\ st \in Stages /\ Left(w.todo) \subseteq Stages
      /\ \A x \in Left(w.todo) : Rank(st) <= Rank(x)
  BY AtIs
<1>2. Segment(Left(w.todo) \ Extra, Recipe(w.built))
  BY DEF Recipes, Equipping
<1>3. \A x \in Left(w.todo) : Rank(x) \in Nat
  BY <1>1, RanksAreNumbers
<1>4. Rank(y) < Rank(st) => ~Due(y)
  BY <1>1, <1>3 DEF Due
<1>5. Rank(st) < Rank(y) /\ st \notin Extra => Due(y)
  BY <1>1, <1>2 DEF Due, Segment
<1>6. QED
  BY <1>4, <1>5

LEMMA TrialOrder ==
  ASSUME UInv, Trying, NEW st, At(st), NEW y \in Attempt
  PROVE  /\ Rank(y) < Rank(st) => ~Due(y)
         /\ Rank(st) < Rank(y) => Due(y)
<1>1. Due(st) /\ st \in Stages /\ Left(w.todo) \subseteq Stages
      /\ \A x \in Left(w.todo) : Rank(st) <= Rank(x)
  BY AtIs
<1>2. Segment(Left(w.todo), Attempt)
  BY DEF Trying
<1>3. \A x \in Left(w.todo) : Rank(x) \in Nat
  BY <1>1, RanksAreNumbers
<1>4. Rank(y) < Rank(st) => ~Due(y)
  BY <1>1, <1>3 DEF Due
<1>5. Rank(st) < Rank(y) => Due(y)
  BY <1>1, <1>2 DEF Due, Segment
<1>6. QED
  BY <1>4, <1>5

LEMMA AtPhases ==
  ASSUME UInv, NEW st, At(st)
  PROVE  \/ Preparing /\ st \in Prelude
         \/ Recipes /\ st \in Recipe(w.built) \cup Extra
         \/ Trying /\ st \in Attempt
         \/ Verified /\ st \in ServicePlan
         \/ RollingBack /\ st \in RollBackPlan
<1>1. Due(st) /\ (Recipes \/ Preparing \/ Trying \/ Verified \/ RollingBack)
  BY AtIs
<1>2. QED
  BY <1>1 DEF Due, Preparing, Recipes, Equipping, Trying, Verified, RollingBack, Segment

-----------------------------------------------------------------------------
(* The stages of a recipe and of an attempt. *)

\* The stages something is known to hold after.
Marks == {"device", "prepare", "signature", "services", "write", "start", "install",
          "initramfs", "renderer", "stamp", "payload", "replace", "verify"}

\* The guests differ in the modules DKMS has and in what they are signed with.
Apart(s, t) ==
  /\ t.image = s.image /\ t.builder = s.builder /\ t.loaded = s.loaded /\ t.device = s.device
  /\ t.asked = s.asked /\ t.aquamarine = s.aquamarine /\ t.stamp = s.stamp /\ t.lib = s.lib
  /\ t.services = s.services /\ t.up = s.up /\ t.carried = s.carried

Early == {"key", "create", "resign", "add", "build"}

LEMMA StagePasses ==
  ASSUME UInv, NEW st, At(st), NEW D, NEW report, NEW signing, NEW clean,
         SameJob, Fails \/ Proceeds(D, report, signing, clean), Quiet, ~Preparing,
         GuestOK(g)', Apart(g, g'),
         \A x \in Marks : x \in D => ~Due(x),
         report["signature"] = w.report["signature"], clean => w.clean,
         \/ g'.ko = g.ko /\ g'.signed = g.signed /\ signing = w.signing
         \/ st \in Early
  PROVE  UInv'
<1>1. StampVouches'
  BY DEF UInv, Stamped, StampVouches, Apart
<1>2. Proceeds(D, report, signing, clean) => \A x : Due(x)' <=> Due(x) /\ x \notin D
  BY DEF Proceeds, Due
<1>3. Due("copy")' \/ Due("stamp")' => g'.stamp = None
  <2>1. CASE Fails
    BY <2>1, NothingLeft DEF Due, Fails
  <2>2. CASE Proceeds(D, report, signing, clean)
    BY <1>2, <2>2 DEF UInv, Stamped, Apart
  <2>3. QED
    BY <2>1, <2>2
<1>4. CASE Recipes
  <2>1. ASSUME Proceeds(D, report, signing, clean)
        PROVE  RecipeFacts'
    <3>1. /\ \A x \in Marks : Due(x)' <=> Due(x)
          /\ Due("insert")' => Due("insert")
      BY <1>2, <2>1
    <3>2. /\ w'.report = report /\ w'.signing = signing /\ w'.clean = clean /\ w'.built = w.built
      BY <2>1 DEF Proceeds, SameJob
    <3>3. st \in Early => /\ Due("signature") /\ Due("insert")
                          /\ w.built => Due("install")
      BY <1>4, RecipeOrder, Ranks DEF Recipe, Early, Extra
    <3>4. Shows' /\ Serves' /\ Renders'
      BY <1>4, <3>1, <3>2 DEF Recipes, Shows, Serves, Renders, Apart, Marks
    <3>5. Signs'
      BY <1>4, <3>1, <3>2, <3>3 DEF Recipes, Signs, Marks
    <3>6. Builds'
      BY <1>4, <3>1, <3>2, <3>3 DEF Recipes, Builds, Marks, Apart
    <3>7. QED
      BY <3>4, <3>5, <3>6 DEF RecipeFacts
  <2>2. QED
    BY <1>1, <1>3, <1>4, <2>1, RecipeGoesOn
<1>5. CASE Trying
  <2>1. ASSUME Proceeds(D, report, signing, clean)
        PROVE  TrialFacts'
    <3>1. \A x \in Marks : Due(x)' <=> Due(x)
      BY <1>2, <2>1
    <3>2. w'.before = w.before /\ w'.back = w.back
      BY DEF SameJob
    <3>3. st \in Early => Due("install")
      BY <1>5, TrialOrder, Ranks DEF Attempt, Early
    <3>4. QED
      BY <1>5, <3>1, <3>2, <3>3 DEF Trying, TrialFacts, Marks, Apart, Remembers
  <2>2. "verify" \notin D
    BY <1>5 DEF Trying, Marks
  <2>3. QED
    BY <1>1, <1>5, <2>1, <2>2, TrialGoesOn DEF SameJob
<1>6. CASE Verified
  BY <1>1, <1>6, ServicesGoOn DEF Apart
<1>7. CASE RollingBack
  BY <1>1, <1>7, RollBackGoesOn
<1>8. QED
  BY <1>4, <1>5, <1>6, <1>7, AtIs

LEMMA NotPreparing ==
  ASSUME UInv, NEW st, At(st), st \notin Prelude
  PROVE  ~Preparing
  BY AtIs DEF Preparing, Segment, Due

\* A stage that only says how a step went.
LEMMA StageSays ==
  ASSUME UInv, NEW st, At(st), st \notin Marks, st \notin Prelude, UNCHANGED g, Quiet,
         NEW step \in Steps, step # "signature", NEW state \in {"ok", "skipped", "failed"},
         NEW broken \in BOOLEAN, GoOn(Tail(w.todo), Say(step, state), broken)
  PROVE  UInv'
<1>1. w \in Jobs /\ w.report \in Reports /\ w.clean \in BOOLEAN
  BY AtIs, JobFields
<1>2. Say(step, state) \in Reports /\ Say(step, state)["signature"] = w.report["signature"]
  BY <1>1, RecordedIs DEF Say, Steps
<1>3. SameJob /\ (Fails \/ Proceeds({st}, Say(step, state), w.signing, w.clean /\ ~broken))
  BY <1>2, GoesIs
<1>4. GuestOK(g)' /\ Apart(g, g') /\ g'.ko = g.ko /\ g'.signed = g.signed
  BY DEF UInv, Apart
<1>5. ~Preparing
  BY NotPreparing
<1> HIDE DEF Say
<1>6. \A x \in Marks : x \in {st} => ~Due(x)
  OBVIOUS
<1>7. (w.clean /\ ~broken) => w.clean
  OBVIOUS
<1>8. QED
  BY <1>2, <1>3, <1>4, <1>5, <1>6, <1>7, StagePasses

\* A stage of the kind, whose failure ends the job.
LEMMA StagePassesOrEnds ==
  ASSUME UInv, NEW st, At(st), st \notin Marks, st \notin Prelude,
         NEW step \in Steps, step # "signature",
         \/ Works /\ Passes(step)
         \/ Breaks /\ Ends(step),
         UNCHANGED <<g, rest>>
  PROVE  UInv'
<1>1. Quiet /\ UNCHANGED g
  BY FaultsCount DEF UInv, Quiet
<1>2. CASE Passes(step)
  BY <1>1, <1>2, StageSays DEF Passes
<1>3. CASE Ends(step)
  BY <1>1, <1>3, EndsAlone
<1>4. QED
  BY <1>2, <1>3

LEMMA DependenciesKeeps == UInv /\ DependenciesStage => UInv'
  BY StagePassesOrEnds DEF DependenciesStage, Marks, Prelude, Steps

LEMMA SourceKeeps == UInv /\ SourceStage => UInv'
  BY StagePassesOrEnds DEF SourceStage, Marks, Prelude, Steps

LEMMA IsolationKeeps == UInv /\ IsolationStage => UInv'
  BY StagePassesOrEnds DEF IsolationStage, Marks, Prelude, Steps

\* The stages of the key may all be behind at once: none of them is a mark.
LEMMA PastResign ==
  ASSUME UInv, NEW st, At(st), st \in {"key", "create"},
         NEW x, NEW report, NEW signing, NEW clean,
         Saying(x, report, signing, clean), w' = Onward(x, Past("resign")),
         report["signature"] = w.report["signature"], clean => w.clean,
         GuestOK(g)', Apart(g, g'), Quiet
  PROVE  UInv'
<1> DEFINE D == {y \in Left(w.todo) : Rank(y) <= Rank("resign")}
<1>1. ~Preparing
  BY NotPreparing DEF Prelude
<1>2. "resign" \in Left(w.todo)
  <2>1. Recipes \/ Trying
    BY AtPhases DEF Prelude, ServicePlan, RollBackPlan
  <2>2. CASE Recipes
    BY <2>2, RecipeOrder, Ranks DEF Recipe, Extra, Due
  <2>3. CASE Trying
    BY <2>3, TrialOrder, Ranks DEF Attempt, Due
  <2>4. QED
    BY <2>1, <2>2, <2>3
<1>3. SameJob /\ (Fails \/ Proceeds(D, report, signing, clean))
  BY <1>2, PastGoes
<1>4. \A y \in Marks : y \in D => ~Due(y)
  <2>1. \A y \in Left(w.todo) : Rank(st) <= Rank(y)
    BY AtIs
  <2>2. ~Due("payload")
    BY <2>1, Ranks DEF Due
  <2>3. QED
    BY <2>2, Ranks DEF Marks
<1> HIDE DEF D
<1>5. QED
  BY <1>1, <1>3, <1>4, StagePasses DEF Early

LEMMA KeyKeeps == UInv /\ KeyStage => UInv'
<1> SUFFICES ASSUME UInv, KeyStage PROVE UInv'
  OBVIOUS
<1>1. At("key") /\ Quiet
  BY FaultsCount DEF KeyStage, UInv, Quiet
<1>2. w \in Jobs /\ w.report \in Reports /\ w.clean \in BOOLEAN
  BY <1>1, AtIs, JobFields
<1>3. /\ \A state \in {"ok", "skipped", "failed"} :
           /\ Say("key", state) \in Reports
           /\ Say("key", state)["signature"] = w.report["signature"]
  BY <1>2, RecordedIs DEF Say, Steps
<1>4. UNCHANGED g => GuestOK(g)' /\ Apart(g, g')
  BY DEF UInv, Apart
<1>5. CASE ~g.signs /\ GoOn(Past("resign"), Say("key", "skipped"), FALSE) /\ UNCHANGED g
  <2> DEFINE r == Say("key", "skipped")
             x == [w EXCEPT !.report = r, !.clean = @ /\ ~FALSE]
  <2>1. Saying(x, r, w.signing, w.clean /\ ~FALSE)
    BY <1>2, <1>3, GoOnSays
  <2>2. w' = Onward(x, Past("resign"))
    BY <1>5 DEF GoOn
  <2>3. r["signature"] = w.report["signature"]
    BY <1>3
  <2> HIDE DEF x, r
  <2>4. QED
    BY <1>1, <1>4, <1>5, <2>1, <2>2, <2>3, PastResign
<1>6. CASE /\ g.signs /\ g.key = "pair"
           /\ w' = Onward([w EXCEPT !.signing = TRUE, !.report = Say("key", "ok")],
                          Past("resign"))
           /\ UNCHANGED g
  <2> DEFINE r == Say("key", "ok")
             x == [w EXCEPT !.signing = TRUE, !.report = r]
  <2>1. r \in Reports /\ r["signature"] = w.report["signature"]
    BY <1>3
  <2>2. w' = Onward(x, Past("resign"))
    BY <1>6
  <2> HIDE DEF r
  <2>3. Saying(x, r, TRUE, w.clean)
    BY <1>2, <2>1 DEF Saying, Jobs, Reports
  <2> HIDE DEF x
  <2>4. QED
    BY <1>1, <1>4, <1>6, <2>1, <2>2, <2>3, PastResign
<1>7. CASE /\ g.signs /\ g.key # "pair"
           /\ g' = [g EXCEPT !.key = "absent", !.signed = [v \in Versions |-> FALSE]]
           /\ Goes
  <2>1. SameJob /\ (Fails \/ Proceeds({"key"}, w.report, w.signing, w.clean /\ ~FALSE))
    BY <1>1, <1>2, <1>7, GoesIs DEF Goes
  <2>2. g' \in Guests
    BY <1>7 DEF UInv, GuestOK, Guests
  <2>3. Apart(g, g') /\ g'.dkms = g.dkms /\ g'.ko = g.ko
    BY <1>7 DEF UInv, GuestOK, Guests, Apart
  <2>4. GuestOK(g)'
    BY <2>2, <2>3 DEF UInv, GuestOK, HasOld, Apart
  <2>5. ~Preparing
    BY <1>1, NotPreparing DEF Prelude
  <2>6. \A y \in Marks : y \in {"key"} => ~Due(y)
    BY DEF Marks
  <2>7. QED
    BY <1>1, <2>1, <2>3, <2>4, <2>5, <2>6, StagePasses DEF Early
<1>8. QED
  BY <1>5, <1>6, <1>7 DEF KeyStage

LEMMA CreateKeeps == UInv /\ CreateSigningKey => UInv'
<1> SUFFICES ASSUME UInv, CreateSigningKey PROVE UInv'
  OBVIOUS
<1>1. At("create") /\ Quiet
  BY FaultsCount DEF CreateSigningKey, UInv, Quiet
<1>2. w \in Jobs /\ w.report \in Reports /\ w.clean \in BOOLEAN
  BY <1>1, AtIs, JobFields
<1>3. ASSUME NEW k \in {"absent", "half", "pair"}, g' = [g EXCEPT !.key = k]
      PROVE  GuestOK(g)' /\ Apart(g, g') /\ g'.ko = g.ko /\ g'.signed = g.signed
  <2>1. g' \in Guests
    BY <1>3 DEF UInv, GuestOK, Guests
  <2>2. Apart(g, g') /\ g'.dkms = g.dkms /\ g'.ko = g.ko /\ g'.signed = g.signed
    BY <1>3 DEF UInv, GuestOK, Guests, Apart
  <2>3. QED
    BY <2>1, <2>2 DEF UInv, GuestOK, HasOld, Apart
<1>4. CASE g' = [g EXCEPT !.key = "pair"] /\ Goes
  <2>1. SameJob /\ (Fails \/ Proceeds({"create"}, w.report, w.signing, w.clean /\ ~FALSE))
    BY <1>1, <1>2, <1>4, GoesIs DEF Goes
  <2>2. ~Preparing
    BY <1>1, NotPreparing DEF Prelude
  <2>3. \A y \in Marks : y \in {"create"} => ~Due(y)
    BY DEF Marks
  <2>4. QED
    BY <1>1, <1>3, <1>4, <2>1, <2>2, <2>3, StagePasses DEF Early
<1>5. CASE /\ \E k \in {"absent", "half"} : g' = [g EXCEPT !.key = k]
           /\ GoOn(Past("resign"), Say("key", "failed"), TRUE)
  <2> DEFINE r == Say("key", "failed")
             x == [w EXCEPT !.report = r, !.clean = @ /\ ~TRUE]
  <2>1. r \in Reports /\ r["signature"] = w.report["signature"]
    BY <1>2, RecordedIs DEF Say, Steps
  <2>2. w' = Onward(x, Past("resign"))
    BY <1>5 DEF GoOn
  <2>3. Saying(x, r, w.signing, w.clean /\ ~TRUE)
    BY <1>2, <2>1, GoOnSays
  <2> HIDE DEF x, r
  <2>4. GuestOK(g)' /\ Apart(g, g')
    BY <1>3, <1>5
  <2>5. QED
    BY <1>1, <2>1, <2>2, <2>3, <2>4, PastResign
<1>6. QED
  BY <1>4, <1>5 DEF CreateSigningKey

LEMMA ResignKeeps == UInv /\ ResignStage => UInv'
<1> SUFFICES ASSUME UInv, ResignStage PROVE UInv'
  OBVIOUS
<1> DEFINE all == Len(DkmsVersions(g))
<1>1. At("resign") /\ GuestOK(g) /\ UNCHANGED rest
  BY DEF ResignStage, UInv
<1>2. PICK n \in 0..all :
        /\ IF n < all THEN Breaks ELSE Works
        /\ g' = Resigned(g, n)
        /\ w' = Onward([w EXCEPT !.signing = TRUE, !.clean = @ /\ n = all,
                                 !.report = Say("key", IF n < all THEN "failed" ELSE "ok")],
                       Tail(w.todo))
  BY DEF ResignStage
<1>3. GuestOK(g)' /\ Beside(g, g')
  BY <1>1, <1>2, ResignedKeeps
<1>4. Apart(g, g')
  BY <1>3 DEF Apart, Beside
<1>5. Quiet
  BY <1>1, <1>2, FaultsCount DEF UInv, Quiet
<1>6. w \in Jobs /\ w.report \in Reports /\ w.clean \in BOOLEAN
  BY <1>1, AtIs, JobFields
<1> DEFINE r == Say("key", IF n < all THEN "failed" ELSE "ok")
           c == w.clean /\ n = all
           x == [w EXCEPT !.signing = TRUE, !.clean = c, !.report = r]
<1>7. r \in Reports /\ r["signature"] = w.report["signature"]
  BY <1>6, RecordedIs DEF Say, Steps
<1>8. w' = Onward(x, Tail(w.todo))
  BY <1>2
<1>9. c \in BOOLEAN /\ (c => w.clean)
  BY <1>6
<1> HIDE DEF r, c, all
<1>10. Saying(x, r, TRUE, c)
  BY <1>6, <1>7, <1>9 DEF Saying, Jobs, Reports
<1> HIDE DEF x
<1>11. SameJob /\ (Fails \/ Proceeds({"resign"}, r, TRUE, c))
  BY <1>1, <1>8, <1>10, TailGoes
<1>12. ~Preparing
  BY <1>1, NotPreparing DEF Prelude
<1>13. \A y \in Marks : y \in {"resign"} => ~Due(y)
  BY DEF Marks
<1>14. QED
  BY <1>1, <1>3, <1>4, <1>5, <1>7, <1>9, <1>11, <1>12, <1>13, StagePasses DEF Early

\* A stage of DKMS that goes on.
LEMMA DkmsGoes ==
  ASSUME UInv, NEW st \in {"add", "build"}, At(st), Goes, Quiet, GuestOK(g)', Apart(g, g')
  PROVE  UInv'
<1>1. w \in Jobs /\ w.report \in Reports /\ w.clean \in BOOLEAN
  BY AtIs, JobFields
<1>2. SameJob /\ (Fails \/ Proceeds({st}, w.report, w.signing, w.clean /\ ~FALSE))
  BY <1>1, GoesIs DEF Goes
<1>3. ~Preparing
  BY NotPreparing DEF Prelude
<1>4. \A y \in Marks : y \in {st} => ~Due(y)
  BY DEF Marks
<1>5. QED
  BY <1>2, <1>3, <1>4, StagePasses DEF Early

\* What is known once the version of the payload is the one installed.
LEMMA InstallGoes ==
  ASSUME UInv, NEW st \in {"add", "install"}, At(st), NEW D, NEW report, NEW clean,
         SameJob, Fails \/ Proceeds(D, report, w.signing, clean), Quiet,
         GuestOK(g)', Apart(g, g'), g'.ko = "new",
         \A x \in Marks : x \in D => ~Due(x) \/ x = "install",
         report["signature"] = w.report["signature"], clean => w.clean
  PROVE  UInv'
<1>1. StampVouches'
  BY DEF UInv, Stamped, StampVouches, Apart
<1>2. Proceeds(D, report, w.signing, clean) => \A x : Due(x)' <=> Due(x) /\ x \notin D
  BY DEF Proceeds, Due
<1>3. Due("copy")' \/ Due("stamp")' => g'.stamp = None
  <2>1. CASE Fails
    BY <2>1, NothingLeft DEF Due, Fails
  <2>2. CASE Proceeds(D, report, w.signing, clean)
    BY <1>2, <2>2 DEF UInv, Stamped, Apart
  <2>3. QED
    BY <2>1, <2>2
<1>4. CASE Recipes
  <2>1. ASSUME Proceeds(D, report, w.signing, clean)
        PROVE  RecipeFacts'
    <3>1. /\ \A x \in Marks : x # "install" => (Due(x)' <=> Due(x))
          /\ Due("insert")' => Due("insert")
      BY <1>2, <2>1
    <3>2. /\ w'.report = report /\ w'.signing = w.signing /\ w'.clean = clean
          /\ w'.built = w.built
      BY <2>1 DEF Proceeds, SameJob
    <3>3. Due("signature") /\ Due("insert")
      BY <1>4, RecipeOrder, Ranks DEF Recipe, Extra
    <3>4. Shows' /\ Serves' /\ Renders'
      BY <1>4, <3>1, <3>2 DEF Recipes, Shows, Serves, Renders, Apart, Marks
    <3>5. Signs'
      BY <1>4, <3>1, <3>2, <3>3 DEF Recipes, Signs, Marks
    <3>6. Builds'
      BY <1>4, <3>1, <3>2, <3>3 DEF Recipes, Builds, Marks, Apart
    <3>7. QED
      BY <3>4, <3>5, <3>6 DEF RecipeFacts
  <2>2. QED
    BY <1>1, <1>3, <1>4, <2>1, RecipeGoesOn
<1>5. CASE Trying
  <2>1. ASSUME Proceeds(D, report, w.signing, clean)
        PROVE  TrialFacts'
    <3>1. \A x \in Marks : x # "install" => (Due(x)' <=> Due(x))
      BY <1>2, <2>1
    <3>2. w'.before = w.before /\ w'.back = w.back
      BY DEF SameJob
    <3>3. QED
      BY <1>5, <3>1, <3>2 DEF Trying, TrialFacts, Marks, Apart, Remembers
  <2>2. "verify" \notin D
    BY <1>5 DEF Trying, Marks
  <2>3. QED
    BY <1>1, <1>5, <2>1, <2>2, TrialGoesOn DEF SameJob
<1>6. QED
  BY <1>4, <1>5, AtPhases DEF Prelude, ServicePlan, RollBackPlan

LEMMA AddKeeps == UInv /\ DkmsAdd => UInv'
<1> SUFFICES ASSUME UInv, DkmsAdd PROVE UInv'
  OBVIOUS
<1>1. At("add") /\ Quiet
  BY FaultsCount DEF DkmsAdd, UInv, Quiet
<1>2. w \in Jobs /\ w.report \in Reports /\ w.clean \in BOOLEAN
  BY <1>1, AtIs, JobFields
<1>3. CASE /\ DkmsReportsInstalled(g, "new") /\ UNCHANGED g
           /\ GoOn(Past("install"), Say("build", "skipped"), FALSE)
  <2> DEFINE r == Say("build", "skipped")
             x == [w EXCEPT !.report = r, !.clean = @ /\ ~FALSE]
             D == {y \in Left(w.todo) : Rank(y) <= Rank("install")}
  <2>1. r \in Reports /\ r["signature"] = w.report["signature"]
    BY <1>2, RecordedIs DEF Say, Steps
  <2>2. w' = Onward(x, Past("install"))
    BY <1>3 DEF GoOn
  <2>3. Saying(x, r, w.signing, w.clean /\ ~FALSE)
    BY <1>2, <2>1, GoOnSays
  <2> HIDE DEF x, r
  <2>4. "install" \in Left(w.todo)
    <3>1. (Recipes /\ "add" \in Recipe(w.built)) \/ Trying
      BY <1>1, AtPhases DEF Prelude, ServicePlan, RollBackPlan, Extra
    <3>2. CASE Recipes /\ "add" \in Recipe(w.built)
      <4>1. "install" \in Recipe(w.built)
        BY <3>2 DEF Recipe
      <4>2. QED
        BY <1>1, <3>2, <4>1, RecipeOrder, Ranks DEF Extra, Due
    <3>3. CASE Trying
      BY <1>1, <3>3, TrialOrder, Ranks DEF Attempt, Due
    <3>4. QED
      BY <3>1, <3>2, <3>3
  <2>5. SameJob /\ (Fails \/ Proceeds(D, r, w.signing, w.clean /\ ~FALSE))
    BY <1>1, <2>2, <2>3, <2>4, PastGoes
  <2>6. \A y \in Marks : y \in D => ~Due(y) \/ y = "install"
    <3>1. \A y \in Left(w.todo) : Rank("add") <= Rank(y)
      BY <1>1, AtIs
    <3>2. ~Due("payload")
      BY <3>1, Ranks DEF Due
    <3>3. QED
      BY <3>2, Ranks DEF Marks
  <2> HIDE DEF D
  <2>7. GuestOK(g)' /\ Apart(g, g') /\ g'.ko = "new"
    BY <1>3 DEF UInv, Apart, GuestOK, DkmsReportsInstalled, Versions
  <2>8. QED
    BY <1>1, <2>1, <2>5, <2>6, <2>7, InstallGoes
<1>4. CASE /\ ~DkmsReportsInstalled(g, "new")
           /\ g' = [g EXCEPT !.dkms["new"] = IF @ = "absent" THEN "added" ELSE @]
           /\ Goes
  <2>1. g' \in Guests
    BY <1>4 DEF UInv, GuestOK, Guests
  <2>2. Apart(g, g') /\ g'.ko = g.ko
        /\ g'.dkms = [g.dkms EXCEPT !["new"] = IF @ = "absent" THEN "added" ELSE @]
    BY <1>4 DEF UInv, GuestOK, Guests, Apart
  <2>3. g.dkms \in [Versions -> {"absent", "added", "built", "installed"}]
    BY DEF UInv, GuestOK, Guests
  <2>4. /\ \A v \in Versions : g'.dkms[v] = "installed" <=> g.dkms[v] = "installed"
        /\ g'.dkms["old"] = g.dkms["old"]
    BY <2>2, <2>3, NoneIsNoVersion DEF Versions
  <2>5. GuestOK(g)'
    BY <2>1, <2>2, <2>4 DEF UInv, GuestOK, HasOld, Apart
  <2>6. QED
    BY <1>1, <1>4, <2>2, <2>5, DkmsGoes
<1>5. QED
  BY <1>3, <1>4 DEF DkmsAdd

LEMMA BuildKeeps == UInv /\ DkmsBuild => UInv'
<1> SUFFICES ASSUME UInv, DkmsBuild PROVE UInv'
  OBVIOUS
<1>1. At("build") /\ Quiet /\ GuestOK(g)
  BY FaultsCount DEF DkmsBuild, UInv, Quiet
<1>2. CASE g' = DkmsBuilt(g, "new") /\ Goes
  <2>1. GuestOK(g)' /\ Beside(g, g')
    BY <1>1, <1>2, BuiltKeeps DEF Versions
  <2>2. QED
    BY <1>1, <1>2, <2>1, DkmsGoes DEF Beside, Apart
<1>3. CASE Ends("build") /\ UNCHANGED g
  BY <1>1, <1>3, EndsAlone DEF Steps
<1>4. QED
  BY <1>2, <1>3 DEF DkmsBuild

LEMMA InstallKeeps == UInv /\ DkmsInstall => UInv'
<1> SUFFICES ASSUME UInv, DkmsInstall PROVE UInv'
  OBVIOUS
<1>1. At("install") /\ Quiet /\ GuestOK(g)
  BY FaultsCount DEF DkmsInstall, UInv, Quiet
<1>2. CASE g' = DkmsInstalled(g, "new") /\ Passes("build")
  <2>1. GuestOK(g)' /\ Beside(g, g') /\ g'.ko = "new"
    BY <1>1, <1>2, InstalledKeeps DEF Versions
  <2>2. w \in Jobs /\ w.report \in Reports /\ w.clean \in BOOLEAN
    BY <1>1, AtIs, JobFields
  <2>3. /\ Say("build", "ok") \in Reports
        /\ Say("build", "ok")["signature"] = w.report["signature"]
    BY <2>2, RecordedIs DEF Say, Steps
  <2>4. /\ SameJob
        /\ Fails \/ Proceeds({"install"}, Say("build", "ok"), w.signing, w.clean /\ ~FALSE)
    BY <1>1, <1>2, <2>3, GoesIs DEF Passes
  <2>5. Apart(g, g')
    BY <2>1 DEF Beside, Apart
  <2>6. \A y \in Marks : y \in {"install"} => ~Due(y) \/ y = "install"
    OBVIOUS
  <2>7. QED
    BY <1>1, <2>1, <2>3, <2>4, <2>5, <2>6, InstallGoes
<1>3. CASE Ends("build") /\ UNCHANGED g
  BY <1>1, <1>3, EndsAlone DEF Steps
<1>4. QED
  BY <1>2, <1>3 DEF DkmsInstall

LEMMA SignatureKeeps == UInv /\ ModuleSignatureStage => UInv'
<1> SUFFICES ASSUME UInv, ModuleSignatureStage PROVE UInv'
  OBVIOUS
<1> DEFINE state == IF ~w.signing THEN "skipped"
                    ELSE IF g.ko # None /\ g.signed[g.ko] THEN "ok" ELSE "failed"
           r == Say("signature", state)
<1>1. At("signature") /\ Quiet /\ UNCHANGED g
  BY FaultsCount DEF ModuleSignatureStage, UInv, Quiet
<1>2. GoOn(Tail(w.todo), r, FALSE)
  BY DEF ModuleSignatureStage
<1>3. w \in Jobs /\ w.report \in Reports /\ w.clean \in BOOLEAN
  BY <1>1, AtIs, JobFields
<1>4. r \in Reports /\ (w.report["signature"] = "unsaid" => r["signature"] = state)
  BY <1>3, RecordedIs DEF Say, Steps
<1>5. ~w.signing \/ state = "failed" \/ (g.ko # None /\ g.signed[g.ko])
  OBVIOUS
<1> HIDE DEF r, state
<1>6. SameJob /\ (Fails \/ Proceeds({"signature"}, r, w.signing, w.clean /\ ~FALSE))
  BY <1>1, <1>2, <1>4, GoesIs
<1>7. GuestOK(g)' /\ StampVouches' /\ Due("signature")
  BY <1>1, AtIs DEF UInv, Stamped, StampVouches
<1>8. Proceeds({"signature"}, r, w.signing, w.clean /\ ~FALSE) =>
        \A x : Due(x)' <=> Due(x) /\ x # "signature"
  BY DEF Proceeds, Due
<1>9. CASE Recipes
  <2>1. ASSUME Proceeds({"signature"}, r, w.signing, w.clean /\ ~FALSE)
        PROVE  RecipeFacts'
    <3>1. /\ w'.report = r /\ w'.signing = w.signing /\ w'.built = w.built
          /\ w'.clean => w.clean
      BY <2>1, <1>6 DEF Proceeds, SameJob
    <3>2. \A x : Due(x)' <=> Due(x) /\ x # "signature"
      BY <1>8, <2>1
    <3>3. w.report["signature"] = "unsaid"
      BY <1>7, <1>9 DEF Recipes, Signs
    <3>4. Signs'
      BY <1>1, <1>4, <1>5, <3>1, <3>2, <3>3 DEF Signs
    <3>5. Shows' /\ Serves' /\ Renders' /\ Builds'
      BY <1>1, <1>9, <3>1, <3>2 DEF Recipes, Shows, Serves, Renders, Builds
    <3>6. QED
      BY <3>4, <3>5 DEF RecipeFacts
  <2>2. Due("copy")' \/ Due("stamp")' => g'.stamp = None
    <3>1. CASE Fails
      BY <3>1, NothingLeft DEF Due, Fails
    <3>2. CASE ~Fails
      BY <1>1, <1>6, <1>8, <3>2 DEF UInv, Stamped
    <3>3. QED
      BY <3>1, <3>2
  <2>3. QED
    BY <1>1, <1>6, <1>7, <1>9, <2>1, <2>2, RecipeGoesOn
<1>10. CASE Trying
  <2>1. ASSUME Proceeds({"signature"}, r, w.signing, w.clean /\ ~FALSE)
        PROVE  TrialFacts'
    BY <1>1, <1>6, <1>8, <1>10, <2>1 DEF Trying, TrialFacts, SameJob, Remembers
  <2>2. QED
    BY <1>1, <1>6, <1>7, <1>10, <2>1, TrialGoesOn DEF SameJob
<1>11. QED
  BY <1>1, <1>9, <1>10, AtPhases DEF Prelude, ServicePlan, RollBackPlan

-----------------------------------------------------------------------------
(* The beginning of a job. *)

LEMMA PayloadKeeps == UInv /\ PayloadStage => UInv'
<1> SUFFICES ASSUME UInv, PayloadStage PROVE UInv'
  OBVIOUS
<1>1. At("payload") /\ Quiet /\ UNCHANGED g
  BY FaultsCount DEF PayloadStage, UInv, Quiet
<1>2. CASE Ends("payload")
  BY <1>1, <1>2, EndsAlone DEF Steps
<1> DEFINE i == InstalledVersions(g)
           back == IF i.loaded # None THEN i.loaded ELSE Previous(i, "new")
           r == Say("payload", "ok")
           x == [w EXCEPT !.report = r, !.before = g.loaded, !.back = back]
<1>3. CASE w' = Onward(x, Tail(w.todo))
  <2>1. w \in Jobs /\ w.report \in Reports /\ w.todo \in Seq(Stages) /\ w.todo # <<>>
        /\ Ordered(w.todo) /\ Head(w.todo) = "payload" /\ Due("payload")
        /\ w.job \in {"apply", "update"}
    BY <1>1, AtIs, JobFields
  <2>2. r \in Reports /\ r["signature"] = w.report["signature"]
    BY <2>1, RecordedIs DEF Say, Steps
  <2>3. g.loaded \in Loaded /\ i.loaded = g.loaded
    BY DEF UInv, GuestOK, Guests, InstalledVersions
  <2>4. back \in Loaded /\ (g.loaded # None => back = g.loaded)
    <3>1. Previous(i, "new") \in Loaded
      <4> DEFINE q == DkmsVersions(g)
                 others == {n \in DOMAIN q : q[n] # "new"}
      <4>1. i.versions = q /\ q \in Seq(Versions)
        BY VersionsListed DEF UInv, GuestOK, InstalledVersions
      <4>2. Len(q) \in 0..2 /\ DOMAIN q = 1..Len(q)
        BY <4>1, VersionsListed DEF UInv, GuestOK
      <4>3. others # {} => Min(others) \in others
        <5>1. others \subseteq {1, 2}
          BY <4>2
        <5>2. others # {} => \E m \in others : \A n \in others : m <= n
          BY <5>1
        <5>3. QED
          BY <5>2 DEF Min
      <4>4. others # {} => q[Min(others)] \in Versions
        BY <4>1, <4>2, <4>3
      <4>5. QED
        BY <4>1, <4>4 DEF Previous, Loaded
    <3>2. QED
      BY <2>3, <3>1
  <2> HIDE DEF r, back
  <2>5. x \in Jobs
    BY <2>1, <2>2, <2>3, <2>4 DEF Jobs, Reports
  <2>6. /\ x.job = w.job /\ x.built = w.built /\ x.before = g.loaded /\ x.back = back
        /\ x.outcome = w.outcome /\ x.report = r /\ x.signing = w.signing /\ x.clean = w.clean
    BY <2>1 DEF Jobs
  <2> HIDE DEF x
  <2>7. /\ Tail(w.todo) \in Seq(Stages) /\ Ordered(Tail(w.todo))
        /\ Left(Tail(w.todo)) = Left(w.todo) \ {"payload"}
        /\ Segment(Left(Tail(w.todo)), Left(w.todo))
    BY <2>1, TailLeft
  <2>8. /\ w' \in Jobs /\ w'.job = w.job /\ w'.built = w.built /\ w'.before = g.loaded
        /\ w'.back = back
        /\ \/ Fails
           \/ /\ w'.todo = Tail(w.todo) /\ w'.outcome = w.outcome /\ w'.report = r
              /\ w'.signing = w.signing /\ w'.clean = w.clean
    BY <1>3, <2>5, <2>6, <2>7, OnwardIs
  <2>9. GuestOK(g)' /\ StampVouches' /\ Types'
    BY <1>1, <2>8, QuietTypes DEF UInv, Stamped, StampVouches
  <2>10. CASE Fails
    <3>1. Over'
      BY <2>1, <2>8, <2>10, UpdateAssumption DEF Over, Fails, Outcomes, Remembers
    <3>2. Ordered(w.todo)' /\ Stamped'
      BY <2>9, <2>10, NothingLeft DEF Fails, Stamped, Due
    <3>3. QED
      BY <2>9, <3>1, <3>2 DEF UInv
  <2>11. CASE /\ w'.todo = Tail(w.todo) /\ w'.outcome = w.outcome /\ w'.report = r
              /\ w'.signing = w.signing /\ w'.clean = w.clean
    <3>1. Proceeds({"payload"}, r, w.signing, w.clean)
      BY <2>7, <2>11 DEF Proceeds
    <3>2. \A y : Due(y)' <=> Due(y) /\ y # "payload"
      BY <2>7, <2>11 DEF Due
    <3>3. CASE Preparing
      <4>1. Segment(Left(w'.todo), Prelude)
        BY <2>7, <2>11, <3>3, SegmentsNest DEF Preparing
      <4>2. Preparing'
        BY <2>2, <2>8, <2>11, <3>2, <3>3, <4>1 DEF Preparing
      <4>3. Stamped'
        BY <2>9, <4>1 DEF Stamped, Due, Segment, Prelude
      <4>4. QED
        BY <2>7, <2>9, <2>11, <4>2, <4>3 DEF UInv
    <3>4. CASE Trying
      <4>1. ~Fails
        BY <2>11, <3>4, UpdateAssumption DEF Trying, Fails, Outcomes
      <4>2. Remembers' /\ g'.loaded = w'.before
        BY <1>1, <2>4, <2>8 DEF Remembers
      <4>3. g'.loaded = g.loaded /\ g'.ko = g.ko /\ g'.builder = g.builder /\ g'.image = g.image
        BY <1>1
      <4>4. TrialFacts'
        BY <3>2, <3>4, <4>2, <4>3 DEF Trying, TrialFacts
      <4>5. QED
        BY <1>1, <2>8, <2>9, <3>1, <3>4, <4>1, <4>4, TrialGoesOn
    <3>5. QED
      BY <1>1, <3>3, <3>4, AtPhases DEF Recipe, Extra, ServicePlan, RollBackPlan
  <2>12. QED
    BY <2>8, <2>10, <2>11
<1>4. QED
  BY <1>2, <1>3 DEF PayloadStage

LEMMA DecideKeeps == UInv /\ Decide => UInv'
<1> SUFFICES ASSUME UInv, Decide PROVE UInv'
  OBVIOUS
<1> DEFINE built == NeedsBuild(g)
           skip == IF built THEN {} ELSE {"dependencies", "source", "build"}
           todo == ApplyStages(built) \o ServiceStages
           r == [s \in Steps |-> IF s \in skip THEN "skipped" ELSE w.report[s]]
<1>1. At("decide") /\ UNCHANGED <<g, rest, faults>>
  BY DEF Decide
<1>2. w \in Jobs /\ w.report \in Reports /\ Preparing /\ w.clean \in BOOLEAN
  BY <1>1, AtIs, JobFields, AtPhases DEF Recipe, Extra, Attempt, ServicePlan, RollBackPlan
<1>3. w' = [w EXCEPT !.built = built, !.todo = todo, !.report = r]
  BY DEF Decide
<1>4. built \in BOOLEAN /\ (~built => g.loaded = "new")
  BY DEF NeedsBuild
<1>5. r \in Reports /\ r["signature"] = "unsaid"
  <2>1. r \in Reports
    BY <1>2 DEF Reports
  <2>2. "signature" \in Steps /\ "signature" \notin skip
    BY DEF Steps
  <2>3. QED
    BY <1>2, <2>1, <2>2 DEF Preparing
<1> HIDE DEF built, r
<1>6. Does(todo, Recipe(built))
  BY <1>4, RecipeIs
<1> HIDE DEF todo
<1>7. todo \in Seq(Stages) /\ Ordered(todo) /\ Left(todo) = Recipe(built)
  BY <1>6 DEF Does
<1>8. w' \in Jobs
  BY <1>2, <1>3, <1>4, <1>5, <1>7 DEF Jobs, Reports
<1>9. /\ w'.job = "apply" /\ w'.outcome = None /\ w'.built = built /\ w'.todo = todo
      /\ w'.report = r
  BY <1>2, <1>3 DEF Jobs, Preparing
<1>10. /\ Segment(Recipe(built) \ Extra, Recipe(built)) /\ "copy" \notin Recipe(built)
       /\ "stamp" \notin Recipe(built)
  <2>1. Recipe(built) \ Extra = Recipe(built)
    BY DEF Recipe, Extra
  <2>2. QED
    BY <2>1 DEF Segment, Extra
<1>11. \A y : Due(y)' <=> y \in Recipe(built)
  BY <1>7, <1>9 DEF Due
<1>12. Equipping'
  BY <1>7, <1>9, <1>10, <1>11 DEF Equipping
<1>13. RecipeFacts'
  <2>1. /\ \A y \in {"device", "prepare", "signature", "services", "start", "renderer"} : Due(y)'
        /\ built => Due("install")' /\ Due("initramfs")'
    BY <1>11 DEF Recipe
  <2>2. ~built => g'.loaded = "new"
    BY <1>1, <1>4
  <2>3. QED
    BY <1>5, <1>9, <2>1, <2>2 DEF RecipeFacts, Signs, Shows, Serves, Builds, Renders
<1>14. Types' /\ GuestOK(g)' /\ StampVouches'
  BY <1>1, <1>8 DEF UInv, Types, rest, Stamped, StampVouches
<1>15. Stamped'
  BY <1>10, <1>11, <1>14 DEF Stamped
<1>16. QED
  BY <1>7, <1>9, <1>12, <1>13, <1>14, <1>15 DEF UInv, Recipes, RecipeFacts

-----------------------------------------------------------------------------
(* The module. *)

LEMMA StampStays ==
  ASSUME UInv, NEW D, NEW report, NEW signing, NEW clean,
         Fails \/ Proceeds(D, report, signing, clean), g'.stamp = g.stamp, g'.lib = g.lib
  PROVE  StampVouches' /\ (Due("copy")' \/ Due("stamp")' => g'.stamp = None)
<1>1. CASE Fails
  BY <1>1, NothingLeft DEF Due, Fails, UInv, Stamped, StampVouches
<1>2. CASE Proceeds(D, report, signing, clean)
  BY <1>2 DEF Due, Proceeds, UInv, Stamped, StampVouches
<1>3. QED
  BY <1>1, <1>2

\* Going on with what was said of a step.
LEMMA SaysIs ==
  ASSUME UInv, NEW st, At(st), NEW step \in Steps, step # "signature",
         NEW state \in {"ok", "skipped", "failed"}, NEW broken \in BOOLEAN,
         GoOn(Tail(w.todo), Say(step, state), broken)
  PROVE  /\ SameJob
         /\ Fails \/ Proceeds({st}, Say(step, state), w.signing, w.clean /\ ~broken)
         /\ ~Fails => /\ \A y : Due(y)' <=> Due(y) /\ y # st
                      /\ w'.report["signature"] = w.report["signature"]
                      /\ w'.signing = w.signing /\ w'.built = w.built
                      /\ w'.clean => w.clean /\ ~broken
<1>1. w \in Jobs /\ w.report \in Reports /\ w.clean \in BOOLEAN
  BY AtIs, JobFields
<1>2. Say(step, state) \in Reports /\ Say(step, state)["signature"] = w.report["signature"]
  BY <1>1, RecordedIs DEF Say, Steps
<1>3. SameJob /\ (Fails \/ Proceeds({st}, Say(step, state), w.signing, w.clean /\ ~broken))
  BY <1>2, GoesIs
<1>4. QED
  BY <1>2, <1>3 DEF Proceeds, Due, SameJob

LEMMA GoesSays ==
  ASSUME UInv, NEW st, At(st), Goes
  PROVE  /\ SameJob
         /\ Fails \/ Proceeds({st}, w.report, w.signing, w.clean /\ ~FALSE)
         /\ ~Fails => /\ \A y : Due(y)' <=> Due(y) /\ y # st
                      /\ w'.report["signature"] = w.report["signature"]
                      /\ w'.signing = w.signing /\ w'.built = w.built
                      /\ w'.clean => w.clean
<1>1. w \in Jobs /\ w.report \in Reports /\ w.clean \in BOOLEAN
  BY AtIs, JobFields
<1>2. SameJob /\ (Fails \/ Proceeds({st}, w.report, w.signing, w.clean /\ ~FALSE))
  BY <1>1, GoesIs DEF Goes
<1>3. QED
  BY <1>2 DEF Proceeds, Due, SameJob

\* A stage of a recipe or an attempt, by what is known after it.
LEMMA RecipeStage ==
  ASSUME UInv, Recipes, NEW st, At(st), NEW D, NEW report, NEW signing, NEW clean,
         SameJob, Fails \/ Proceeds(D, report, signing, clean), Quiet,
         GuestOK(g)', g'.stamp = g.stamp, g'.lib = g.lib, ~Fails => RecipeFacts'
  PROVE  UInv'
<1>1. StampVouches' /\ (Due("copy")' \/ Due("stamp")' => g'.stamp = None)
  BY StampStays
<1>2. CASE Fails
  BY <1>1, <1>2, AtIs, FailsIsOver
<1>3. CASE ~Fails
  BY <1>1, <1>3, RecipeGoesOn
<1>4. QED
  BY <1>2, <1>3

LEMMA TrialStage ==
  ASSUME UInv, Trying, NEW st, At(st), NEW D, NEW report, NEW signing, NEW clean,
         SameJob, Fails \/ Proceeds(D, report, signing, clean), Quiet, "verify" \notin D,
         GuestOK(g)', g'.stamp = g.stamp, g'.lib = g.lib, ~Fails => TrialFacts'
  PROVE  UInv'
<1>1. StampVouches'
  BY StampStays
<1>2. CASE Fails
  BY <1>1, <1>2, AtIs, FailsIsOver
<1>3. CASE ~Fails
  BY <1>1, <1>3, TrialGoesOn DEF SameJob
<1>4. QED
  BY <1>2, <1>3

LEMMA PrepareKeeps == UInv /\ PrepareLoad => UInv'
<1> SUFFICES ASSUME UInv, PrepareLoad PROVE UInv'
  OBVIOUS
<1>1. At("prepare") /\ Quiet /\ GuestOK(g)
  BY FaultsCount DEF PrepareLoad, UInv, Quiet
<1>2. CASE Ends("load") /\ UNCHANGED g
  BY <1>1, <1>2, EndsAlone DEF Steps
<1>3. CASE g' = [g EXCEPT !.asked = TRUE, !.opts = w.mode] /\ Goes
  <2>1. w.mode \in Modes
    BY <1>1, AtIs, JobFields
  <2>2. g' \in Guests
    BY <1>1, <1>3, <2>1 DEF GuestOK, Guests
  <2>3. /\ g'.dkms = g.dkms /\ g'.ko = g.ko /\ g'.image = g.image /\ g'.builder = g.builder
        /\ g'.loaded = g.loaded /\ g'.device = g.device /\ g'.signed = g.signed
        /\ g'.aquamarine = g.aquamarine /\ g'.stamp = g.stamp /\ g'.lib = g.lib
        /\ g'.services = g.services /\ g'.up = g.up /\ g'.carried = g.carried
        /\ g'.asked = TRUE
    BY <1>1, <1>3 DEF GuestOK, Guests
  <2>4. GuestOK(g)'
    BY <1>1, <2>2, <2>3 DEF GuestOK
  <2>5. Recipes
    BY <1>1, AtPhases DEF Prelude, Attempt, ServicePlan, RollBackPlan
  <2>6. /\ SameJob
        /\ Fails \/ Proceeds({"prepare"}, w.report, w.signing, w.clean /\ ~FALSE)
        /\ ~Fails => /\ \A y : Due(y)' <=> Due(y) /\ y # "prepare"
                     /\ w'.report["signature"] = w.report["signature"]
                     /\ w'.signing = w.signing /\ w'.built = w.built
                     /\ w'.clean => w.clean
    BY <1>1, <1>3, GoesSays
  <2>7. ~Fails => RecipeFacts'
    BY <2>3, <2>5, <2>6 DEF Recipes, RecipeFacts, Signs, Shows, Serves, Builds, Renders
  <2>8. QED
    BY <1>1, <2>3, <2>4, <2>5, <2>6, <2>7, RecipeStage
<1>4. QED
  BY <1>2, <1>3 DEF PrepareLoad

LEMMA InitramfsKeeps == UInv /\ InitramfsStage => UInv'
<1> SUFFICES ASSUME UInv, InitramfsStage PROVE UInv'
  OBVIOUS
<1>1. At("initramfs") /\ Quiet /\ GuestOK(g)
  BY FaultsCount DEF InitramfsStage, UInv, Quiet
<1>2. CASE Ends("initramfs") /\ UNCHANGED g
  BY <1>1, <1>2, EndsAlone DEF Steps
<1>3. ASSUME NEW state \in {"ok", "skipped"},
             GoOn(Tail(w.todo), Say("initramfs", state), FALSE),
             GuestOK(g)', g'.builder = g.builder, ~g.builder \/ g'.image = g.ko,
             g'.ko = g.ko, g'.signed = g.signed, g'.loaded = g.loaded, g'.device = g.device,
             g'.asked = g.asked, g'.aquamarine = g.aquamarine, g'.stamp = g.stamp,
             g'.lib = g.lib, g'.services = g.services, g'.up = g.up, g'.carried = g.carried
      PROVE  UInv'
  <2>1. /\ SameJob
        /\ Fails \/ Proceeds({"initramfs"}, Say("initramfs", state), w.signing,
                             w.clean /\ ~FALSE)
        /\ ~Fails => /\ \A y : Due(y)' <=> Due(y) /\ y # "initramfs"
                     /\ w'.report["signature"] = w.report["signature"]
                     /\ w'.signing = w.signing /\ w'.built = w.built
                     /\ w'.clean => w.clean
    BY <1>1, <1>3, SaysIs DEF Steps
  <2> HIDE DEF Say
  <2>2. CASE Recipes
    <3>1. w.built => g.ko = "new"
      <4>1. w.built => ~Due("install")
        BY <1>1, <2>2, RecipeOrder, Ranks DEF Recipe
      <4>2. QED
        BY <2>2, <4>1 DEF Recipes, Builds
    <3>2. ~Fails => RecipeFacts'
      BY <1>3, <2>1, <2>2, <3>1 DEF Recipes, RecipeFacts, Signs, Shows, Serves, Builds, Renders
    <3>3. QED
      BY <1>1, <1>3, <2>1, <2>2, <3>2, RecipeStage
  <2>3. CASE Trying
    <3>1. Due("replace") /\ ~Due("install")
      BY <1>1, <2>3, TrialOrder, Ranks DEF Attempt
    <3>2. g.ko = "new"
      BY <2>3, <3>1 DEF Trying
    <3>3. ~Fails => TrialFacts'
      BY <1>3, <2>1, <2>3, <3>2 DEF Trying, TrialFacts, SameJob, Remembers
    <3>4. QED
      BY <1>1, <1>3, <2>1, <2>3, <3>3, TrialStage
  <2>4. QED
    BY <1>1, <2>2, <2>3, AtPhases DEF Prelude, ServicePlan, RollBackPlan
<1>4. CASE ~g.builder /\ Skips("initramfs") /\ UNCHANGED g
  BY <1>1, <1>3, <1>4 DEF Skips
<1>5. CASE g.builder /\ g' = [g EXCEPT !.image = g.ko] /\ Passes("initramfs")
  <2>1. g' \in Guests
    BY <1>1, <1>5 DEF GuestOK, Guests
  <2>2. /\ g'.dkms = g.dkms /\ g'.ko = g.ko /\ g'.image = g.ko /\ g'.builder = g.builder
        /\ g'.loaded = g.loaded /\ g'.device = g.device /\ g'.signed = g.signed
        /\ g'.aquamarine = g.aquamarine /\ g'.stamp = g.stamp /\ g'.lib = g.lib
        /\ g'.services = g.services /\ g'.up = g.up /\ g'.carried = g.carried
        /\ g'.asked = g.asked
    BY <1>1, <1>5 DEF GuestOK, Guests
  <2>3. GuestOK(g)'
    BY <1>1, <1>5, <2>1, <2>2 DEF GuestOK, HasOld
  <2>4. QED
    BY <1>3, <1>5, <2>2, <2>3 DEF Passes
<1>6. QED
  BY <1>2, <1>4, <1>5 DEF InitramfsStage

LEMMA LoadKeeps == UInv /\ LoadStage => UInv'
<1> SUFFICES ASSUME UInv, LoadStage PROVE UInv'
  OBVIOUS
<1>1. At("load") /\ Quiet /\ UNCHANGED g
  BY FaultsCount DEF LoadStage, UInv, Quiet
<1>2. w \in Jobs /\ w.report \in Reports /\ w.clean \in BOOLEAN
  BY <1>1, AtIs, JobFields
<1>3. Recipes /\ ~Preparing
  BY <1>1, AtPhases, NotPreparing DEF Prelude, Attempt, ServicePlan, RollBackPlan
<1>4. "unload" \in Left(w.todo) /\ "insert" \in Left(w.todo)
  BY <1>1, <1>3, RecipeOrder, Ranks DEF Recipe, Extra, Due
<1>5. GuestOK(g)' /\ Apart(g, g') /\ g'.ko = g.ko /\ g'.signed = g.signed
  BY <1>1 DEF UInv, Apart
<1>6. ASSUME NEW D, \A y \in Marks : y \in D => ~Due(y), NEW report, NEW clean,
             report["signature"] = w.report["signature"], clean => w.clean,
             SameJob, Fails \/ Proceeds(D, report, w.signing, clean)
      PROVE  UInv'
  BY <1>1, <1>3, <1>5, <1>6, StagePasses
<1>7. CASE GoOn(Tail(Tail(w.todo)), w.report, FALSE)
  <2> DEFINE x == [w EXCEPT !.report = w.report, !.clean = @ /\ ~FALSE]
  <2>1. Saying(x, w.report, w.signing, w.clean /\ ~FALSE)
    BY <1>2, GoOnSays
  <2>2. w' = Onward(x, Tail(Tail(w.todo)))
    BY <1>7 DEF GoOn
  <2> HIDE DEF x
  <2>3. Rank("unload") = Rank("load") + 1
    BY Ranks
  <2>4. SameJob /\ (Fails \/ Proceeds({"load", "unload"}, w.report, w.signing, w.clean /\ ~FALSE))
    BY <1>1, <1>4, <2>1, <2>2, <2>3, TwoGo
  <2>5. \A y \in Marks : y \in {"load", "unload"} => ~Due(y)
    BY DEF Marks
  <2>6. QED
    BY <1>6, <2>4, <2>5
<1>8. CASE Goes
  <2>1. SameJob /\ (Fails \/ Proceeds({"load"}, w.report, w.signing, w.clean /\ ~FALSE))
    BY <1>1, <1>8, GoesSays
  <2>2. \A y \in Marks : y \in {"load"} => ~Due(y)
    BY DEF Marks
  <2>3. QED
    BY <1>6, <2>1, <2>2
<1>9. CASE GoOn(Past("insert"), Say("load", "skipped"), FALSE)
  <2> DEFINE r == Say("load", "skipped")
             x == [w EXCEPT !.report = r, !.clean = @ /\ ~FALSE]
             D == {y \in Left(w.todo) : Rank(y) <= Rank("insert")}
  <2>1. r \in Reports /\ r["signature"] = w.report["signature"]
    BY <1>2, RecordedIs DEF Say, Steps
  <2>2. Saying(x, r, w.signing, w.clean /\ ~FALSE)
    BY <1>2, <2>1, GoOnSays
  <2>3. w' = Onward(x, Past("insert"))
    BY <1>9 DEF GoOn
  <2> HIDE DEF x, r
  <2>4. SameJob /\ (Fails \/ Proceeds(D, r, w.signing, w.clean /\ ~FALSE))
    BY <1>1, <1>4, <2>2, <2>3, PastGoes
  <2>5. \A y \in Marks : y \in D => ~Due(y)
    <3>1. \A y \in Left(w.todo) : Rank("load") <= Rank(y)
      BY <1>1, AtIs
    <3>2. QED
      BY <3>1, Ranks DEF Marks, Due
  <2> HIDE DEF D
  <2>6. QED
    BY <1>6, <2>1, <2>4, <2>5
<1>10. QED
  BY <1>7, <1>8, <1>9 DEF LoadStage

LEMMA UnloadKeeps == UInv /\ Unload => UInv'
<1> SUFFICES ASSUME UInv, Unload PROVE UInv'
  OBVIOUS
<1>1. At("unload") /\ Quiet /\ GuestOK(g)
  BY FaultsCount DEF Unload, UInv, Quiet
<1>2. /\ GuestOK(g)' /\ Under(g, g') /\ g'.up = g.up
      /\ g'.loaded = None \/ g' = g
  BY <1>1, UnloadedKeeps DEF Unload
<1>3. /\ SameJob
      /\ Fails \/ Proceeds({"unload"}, w.report, w.signing, w.clean /\ ~FALSE)
      /\ ~Fails => /\ \A y : Due(y)' <=> Due(y) /\ y # "unload"
                   /\ w'.report["signature"] = w.report["signature"]
                   /\ w'.signing = w.signing /\ w'.built = w.built
                   /\ w'.clean => w.clean
  BY <1>1, GoesSays DEF Unload
<1>4. g'.stamp = g.stamp /\ g'.lib = g.lib
  BY <1>2 DEF Under
<1>5. CASE Recipes
  <2>1. Due("device") /\ Due("insert")
    BY <1>1, <1>5, RecipeOrder, Ranks DEF Recipe, Extra
  <2>2. ~Fails => Signs' /\ Shows' /\ Serves' /\ Renders'
    BY <1>2, <1>3, <1>5, <2>1 DEF Recipes, Signs, Shows, Serves, Renders, Under
  <2>3. ~Fails => Builds'
    BY <1>2, <1>3, <1>5, <2>1 DEF Recipes, Builds, Under
  <2>4. QED
    BY <1>1, <1>2, <1>3, <1>4, <1>5, <2>2, <2>3, RecipeStage DEF RecipeFacts
<1>6. CASE RollingBack
  <2>1. StampVouches'
    BY <1>3, <1>4, StampStays
  <2>2. QED
    BY <1>1, <1>2, <1>3, <1>6, <2>1, RollBackGoesOn
<1>7. QED
  BY <1>1, <1>5, <1>6, AtPhases DEF Prelude, Attempt, ServicePlan

LEMMA ReplaceKeeps == UInv /\ ReplaceModule => UInv'
<1> SUFFICES ASSUME UInv, ReplaceModule PROVE UInv'
  OBVIOUS
<1>1. At("replace") /\ Quiet /\ GuestOK(g)
  BY FaultsCount DEF ReplaceModule, UInv, Quiet
<1>2. /\ GuestOK(g)' /\ Under(g, g') /\ g'.up = g.up
      /\ g'.loaded = None \/ g' = g
  BY <1>1, UnloadedKeeps DEF ReplaceModule
<1>3. Trying /\ w \in Jobs /\ w.report \in Reports /\ Due("replace")
  BY <1>1, AtIs, JobFields, AtPhases DEF Prelude, Recipe, Extra, ServicePlan, RollBackPlan
<1>4. ~Due("payload") /\ ~Due("install") /\ ~Due("initramfs")
  BY <1>1, <1>3, TrialOrder, Ranks DEF Attempt
<1>5. g'.stamp = g.stamp /\ g'.lib = g.lib
  BY <1>2 DEF Under
<1>6. CASE /\ g'.loaded # None
           /\ w' = [w EXCEPT !.todo = <<>>, !.outcome = "reboot_required",
                             !.report = Say("load", "failed")]
  <2>1. Say("load", "failed") \in Reports
    BY <1>3, RecordedIs DEF Say, Steps
  <2>2. <<>> \in Seq(Stages) /\ "reboot_required" \in Outcomes
    BY NothingLeft DEF Outcomes
  <2>3. w' \in Jobs
    BY <1>3, <1>6, <2>1, <2>2 DEF Jobs, Reports
  <2>4. /\ w'.job = "update" /\ w'.todo = <<>> /\ w'.outcome = "reboot_required"
        /\ w'.before = w.before
    BY <1>3, <1>6 DEF Jobs, Trying
  <2>5. g' = g
    BY <1>2, <1>6
  <2>6. /\ g.loaded = w.before /\ g.loaded # None /\ g.loaded # "new" /\ g.ko = "new"
        /\ ~g.builder \/ g.image = "new"
    BY <1>3, <1>4, <1>6, <2>5 DEF Trying
  <2>7. g.loaded = "old" /\ g.asked
    BY <1>1, <2>6 DEF GuestOK, Guests, Loaded, Versions, HasOld
  <2>8. Boots(g) = "new"
    BY <1>1, <2>6, <2>7, NoneIsNoVersion DEF Boots, GuestOK
  <2>9. w'.outcome \notin {"failed", "rolled_back", "updated", None}
    BY <2>2, <2>4, UpdateAssumption
  <2>10. Over'
    BY <2>4, <2>5, <2>6, <2>8, <2>9 DEF Over
  <2>11. Types' /\ Stamped' /\ Ordered(w.todo)'
    BY <1>1, <1>5, <2>3, <2>4, NothingLeft, QuietTypes DEF Stamped, StampVouches, Due, UInv
  <2>12. QED
    BY <1>2, <2>10, <2>11 DEF UInv
<1>7. CASE g'.loaded = None /\ Goes
  <2>1. /\ SameJob
        /\ Fails \/ Proceeds({"replace"}, w.report, w.signing, w.clean /\ ~FALSE)
        /\ ~Fails => \A y : Due(y)' <=> Due(y) /\ y # "replace"
    BY <1>1, <1>7, GoesSays
  <2>2. ~Fails => TrialFacts'
    BY <1>3, <1>4, <2>1 DEF Trying, TrialFacts, SameJob, Remembers
  <2>3. QED
    BY <1>1, <1>2, <1>3, <1>5, <2>1, <2>2, TrialStage
<1>8. QED
  BY <1>6, <1>7 DEF ReplaceModule

LEMMA InsertKeeps == UInv /\ InsertModule => UInv'
<1> SUFFICES ASSUME UInv, InsertModule PROVE UInv'
  OBVIOUS
<1>1. At("insert") /\ Quiet /\ GuestOK(g)
  BY FaultsCount DEF InsertModule, UInv, Quiet
<1>2. CASE Passes("load") /\ UNCHANGED g
  BY <1>1, <1>2, StageSays DEF Passes, Marks, Prelude, Steps
<1>3. CASE Ends("load") /\ UNCHANGED g
  BY <1>1, <1>3, EndsAlone DEF Steps
<1>4. ASSUME g.ko # None, g' \in {Inserted(g), [Inserted(g) EXCEPT !.device = FALSE]},
             NEW broken \in BOOLEAN, GoOn(Tail(w.todo), Say("load", "ok"), broken)
      PROVE  UInv'
  <2>1. GuestOK(g)' /\ Under(g, g') /\ g'.loaded = g.ko /\ g'.up = g.up
    BY <1>1, <1>4, InsertedKeeps
  <2>2. /\ SameJob
        /\ Fails \/ Proceeds({"insert"}, Say("load", "ok"), w.signing, w.clean /\ ~broken)
        /\ ~Fails => /\ \A y : Due(y)' <=> Due(y) /\ y # "insert"
                     /\ w'.report["signature"] = w.report["signature"]
                     /\ w'.signing = w.signing /\ w'.built = w.built
                     /\ w'.clean => w.clean /\ ~broken
    BY <1>1, <1>4, SaysIs DEF Steps
  <2>3. g'.stamp = g.stamp /\ g'.lib = g.lib
    BY <2>1 DEF Under
  <2> HIDE DEF Say
  <2>4. CASE Recipes
    <3>1. Due("device")
      BY <1>1, <2>4, RecipeOrder, Ranks DEF Recipe, Extra
    <3>2. ~Fails => Signs' /\ Shows' /\ Serves' /\ Renders' /\ Builds'
      BY <2>1, <2>2, <2>4, <3>1 DEF Recipes, Signs, Shows, Serves, Renders, Builds, Under
    <3>3. QED
      BY <1>1, <2>1, <2>2, <2>3, <2>4, <3>2, RecipeStage DEF RecipeFacts
  <2>5. CASE Trying
    <3>1. ~Due("replace") /\ ~Due("payload")
      BY <1>1, <2>5, TrialOrder, Ranks DEF Attempt
    <3>2. ~Fails => TrialFacts'
      BY <2>2, <2>5, <3>1 DEF Trying, TrialFacts, SameJob, Remembers
    <3>3. QED
      BY <1>1, <2>1, <2>2, <2>3, <2>5, <3>2, TrialStage
  <2>6. QED
    BY <1>1, <2>4, <2>5, AtPhases DEF Prelude, ServicePlan, RollBackPlan
<1>5. CASE g.ko # None /\ g' = Inserted(g) /\ Passes("load")
  BY <1>4, <1>5 DEF Passes
<1>6. CASE /\ g.ko # None /\ g' = [Inserted(g) EXCEPT !.device = FALSE]
           /\ GoOn(Tail(w.todo), Say("load", "ok"), TRUE)
  BY <1>4, <1>6
<1>7. QED
  BY <1>2, <1>3, <1>5, <1>6 DEF InsertModule

LEMMA DeviceKeeps == UInv /\ DeviceStage => UInv'
<1> SUFFICES ASSUME UInv, DeviceStage PROVE UInv'
  OBVIOUS
<1>1. At("device") /\ Quiet /\ UNCHANGED g
  BY FaultsCount DEF DeviceStage, UInv, Quiet
<1>2. CASE Ends("device")
  BY <1>1, <1>2, EndsAlone DEF Steps
<1>3. CASE g.device /\ Passes("device")
  <2>1. /\ SameJob
        /\ Fails \/ Proceeds({"device"}, Say("device", "ok"), w.signing, w.clean /\ ~FALSE)
        /\ ~Fails => /\ \A y : Due(y)' <=> Due(y) /\ y # "device"
                     /\ w'.report["signature"] = w.report["signature"]
                     /\ w'.signing = w.signing /\ w'.built = w.built
                     /\ w'.clean => w.clean /\ ~FALSE
    BY <1>1, <1>3, SaysIs DEF Steps, Passes
  <2> HIDE DEF Say
  <2>2. Recipes /\ GuestOK(g)' /\ g'.stamp = g.stamp /\ g'.lib = g.lib
    BY <1>1, AtPhases DEF Prelude, Attempt, ServicePlan, RollBackPlan, UInv
  <2>3. ~Fails => Signs' /\ Shows' /\ Serves' /\ Renders' /\ Builds'
    BY <1>1, <1>3, <2>1, <2>2 DEF Recipes, Signs, Shows, Serves, Renders, Builds
  <2>4. QED
    BY <1>1, <2>1, <2>2, <2>3, RecipeStage DEF RecipeFacts
<1>4. QED
  BY <1>2, <1>3 DEF DeviceStage

-----------------------------------------------------------------------------
(* The renderer. *)

\* Only the services, or only the staged renderer, of the guest have changed.
Beyond(s, t) ==
  /\ t.dkms = s.dkms /\ t.signed = s.signed /\ t.ko = s.ko /\ t.image = s.image
  /\ t.builder = s.builder /\ t.loaded = s.loaded /\ t.device = s.device /\ t.asked = s.asked
  /\ t.aquamarine = s.aquamarine /\ t.carried = s.carried

LEMMA BeyondKeeps ==
  ASSUME NEW s, NEW t, GuestOK(s), t \in Guests, Beyond(s, t)
  PROVE  GuestOK(t)
  BY DEF GuestOK, HasOld, Beyond

LEMMA RendererKeeps == UInv /\ RendererStage => UInv'
<1> SUFFICES ASSUME UInv, RendererStage PROVE UInv'
  OBVIOUS
<1>1. At("renderer") /\ Quiet /\ GuestOK(g)
  BY FaultsCount DEF RendererStage, UInv, Quiet
<1>2. Recipes /\ w \in Jobs /\ Due("renderer")
  BY <1>1, AtIs, AtPhases DEF Prelude, Attempt, ServicePlan, RollBackPlan
<1>3. ASSUME NEW state \in {"ok", "skipped", "failed"}, NEW broken \in BOOLEAN,
             GoOn(Tail(w.todo), Say("renderer", state), broken), UNCHANGED g,
             broken \/ g.aquamarine = None \/ g.aquamarine = g.lib
      PROVE  UInv'
  <2>1. /\ SameJob
        /\ Fails \/ Proceeds({"renderer"}, Say("renderer", state), w.signing,
                             w.clean /\ ~broken)
        /\ ~Fails => /\ \A y : Due(y)' <=> Due(y) /\ y # "renderer"
                     /\ w'.report["signature"] = w.report["signature"]
                     /\ w'.signing = w.signing /\ w'.built = w.built
                     /\ w'.clean => w.clean /\ ~broken
    BY <1>1, <1>3, SaysIs DEF Steps
  <2> HIDE DEF Say
  <2>2. GuestOK(g)' /\ g'.stamp = g.stamp /\ g'.lib = g.lib
    BY <1>3 DEF UInv
  <2>3. ~Fails => Signs' /\ Shows' /\ Serves' /\ Builds'
    BY <1>2, <1>3, <2>1 DEF Recipes, Signs, Shows, Serves, Builds
  <2>4. ~Fails => Renders'
    BY <1>2, <1>3, <2>1 DEF Recipes, Renders
  <2>5. QED
    BY <1>1, <1>2, <2>1, <2>2, <2>3, <2>4, RecipeStage DEF RecipeFacts
<1>4. CASE g.aquamarine = None /\ Skips("renderer") /\ UNCHANGED g
  BY <1>3, <1>4 DEF Skips
<1>5. CASE g.aquamarine # None /\ g.stamp = g.aquamarine /\ Passes("renderer") /\ UNCHANGED g
  <2>1. g.aquamarine = g.lib
    BY <1>5 DEF UInv, Stamped, StampVouches
  <2>2. QED
    BY <1>3, <1>5, <2>1 DEF Passes
<1>6. CASE GoOn(Tail(w.todo), Say("renderer", "failed"), TRUE) /\ UNCHANGED g
  BY <1>3, <1>6
<1>7. CASE /\ g' = [g EXCEPT !.stamp = None]
           /\ w' = [w EXCEPT !.todo = <<"copy", "stamp">> \o Tail(@)]
  <2> DEFINE t == Tail(w.todo)
             todo == <<"copy", "stamp">> \o t
  <2>1. /\ w.todo \in Seq(Stages) /\ w.todo # <<>> /\ Ordered(w.todo)
        /\ Head(w.todo) = "renderer"
        /\ \A x \in Left(w.todo) : Rank("renderer") <= Rank(x)
    BY <1>1, AtIs
  <2>2. /\ t \in Seq(Stages) /\ Ordered(t) /\ Left(t) = Left(w.todo) \ {"renderer"}
        /\ Segment(Left(t), Left(w.todo))
    BY <2>1, TailLeft
  <2> HIDE DEF t
  <2>3. "copy" \notin Left(w.todo) /\ "stamp" \notin Left(w.todo)
    BY <1>2 DEF Recipes, Equipping, Due
  <2>4. Left(t) \subseteq Recipe(w.built) /\ Left(w.todo) \subseteq Recipe(w.built)
    BY <1>2, <2>2, <2>3 DEF Recipes, Equipping, Extra
  <2>5. \A x \in Left(t) : Rank(x) > 20
    <3>1. \A x \in Left(t) : x \in Recipe(w.built) /\ x # "renderer" /\ 18 <= Rank(x)
      BY <2>1, <2>2, <2>4, Ranks
    <3>2. \A x \in Recipe(w.built) : x # "renderer" /\ 18 <= Rank(x) =>
            x \in {"isolation", "device", "services", "write", "start"}
      BY Ranks DEF Recipe
    <3>3. \A x \in {"isolation", "device", "services", "write", "start"} : Rank(x) > 20
      BY Ranks
    <3>4. QED
      BY <3>1, <3>2, <3>3
  <2>6. Does(<<"copy", "stamp">>, {"copy", "stamp"})
    <3>1. "copy" \in Stages /\ "stamp" \in Stages
      BY DEF Stages
    <3>2. Rank("copy") < Rank("stamp")
      BY Ranks
    <3>3. QED
      BY <3>1, <3>2, DoesTwo, Zenon
  <2>7. \A x \in {"copy", "stamp"}, y \in Left(t) : Rank(x) < Rank(y)
    <3>1. Left(t) \subseteq Stages
      BY <2>1, <2>2, TailLeft
    <3>2. \A y \in Left(t) : Rank(y) \in Nat
      BY <3>1, RanksAreNumbers
    <3>3. Rank("copy") = 19 /\ Rank("stamp") = 20
      BY Ranks
    <3>4. QED
      BY <2>5, <3>2, <3>3
  <2>8. Does(todo, {"copy", "stamp"} \cup Left(t))
    <3>1. Does(t, Left(t))
      BY <2>2 DEF Does
    <3>2. QED
      BY <2>6, <2>7, <3>1, Joined
  <2>9. w' = [w EXCEPT !.todo = todo]
    BY <1>7 DEF t
  <2> HIDE DEF todo
  <2>10. todo \in Seq(Stages) /\ Ordered(todo) /\ Left(todo) = {"copy", "stamp"} \cup Left(t)
    BY <2>8 DEF Does
  <2>11. w' \in Jobs
    BY <1>2, <2>9, <2>10 DEF Jobs
  <2>12. /\ w'.job = w.job /\ w'.outcome = w.outcome /\ w'.built = w.built /\ w'.todo = todo
         /\ w'.report = w.report /\ w'.signing = w.signing /\ w'.clean = w.clean
    BY <1>2, <2>9 DEF Jobs
  <2>13. g' \in Guests
    BY <1>1, <1>7 DEF GuestOK, Guests, Loaded
  <2>14. Beyond(g, g') /\ g'.stamp = None /\ g'.services = g.services /\ g'.up = g.up
    BY <1>1, <1>7 DEF GuestOK, Guests, Beyond
  <2>15. GuestOK(g)'
    BY <1>1, <2>13, <2>14, BeyondKeeps
  <2>16. \A y : Due(y)' <=> y \in Extra \/ (Due(y) /\ y # "renderer")
    BY <2>2, <2>10, <2>12 DEF Due, Extra
  <2>17. Equipping'
    <3>1. Left(w'.todo) \ Extra = Left(t)
      BY <2>2, <2>3, <2>10, <2>12 DEF Extra
    <3>2. Segment(Left(w.todo), Recipe(w.built))
      <4>1. Left(w.todo) \ Extra = Left(w.todo)
        BY <2>3 DEF Extra
      <4>2. QED
        BY <1>2, <4>1 DEF Recipes, Equipping
    <3>3. Segment(Left(t), Recipe(w.built))
      BY <2>2, <3>2, SegmentsNest
    <3>4. Left(w'.todo) \subseteq Recipe(w.built) \cup Extra
      BY <2>4, <2>10, <2>12 DEF Extra
    <3>5. ~Due("renderer")' /\ Due("stamp")'
      BY <2>16 DEF Extra
    <3>6. QED
      BY <1>2, <2>12, <3>1, <3>3, <3>4, <3>5 DEF Recipes, Equipping
  <2>18. Signs' /\ Shows' /\ Serves' /\ Builds'
    BY <1>2, <2>12, <2>14, <2>16 DEF Recipes, Signs, Shows, Serves, Builds, Beyond, Extra
  <2>19. Renders' /\ Stamped'
    BY <2>14, <2>16 DEF Renders, Stamped, StampVouches, Extra
  <2>20. Types'
    BY <1>1, <2>11, QuietTypes
  <2>21. QED
    BY <2>10, <2>12, <2>15, <2>17, <2>18, <2>19, <2>20 DEF UInv, Recipes
<1>8. QED
  BY <1>4, <1>5, <1>6, <1>7 DEF RendererStage

LEMMA CopyKeeps == UInv /\ CopyRenderer => UInv'
<1> SUFFICES ASSUME UInv, CopyRenderer PROVE UInv'
  OBVIOUS
<1>1. At("copy") /\ Quiet /\ GuestOK(g) /\ g' = [g EXCEPT !.lib = "torn"] /\ Goes
  BY FaultsCount DEF CopyRenderer, UInv, Quiet
<1>2. Recipes /\ w \in Jobs /\ Due("copy")
  BY <1>1, AtIs, AtPhases DEF Prelude, Attempt, ServicePlan, RollBackPlan
<1>3. /\ SameJob
      /\ Fails \/ Proceeds({"copy"}, w.report, w.signing, w.clean /\ ~FALSE)
      /\ ~Fails => /\ \A y : Due(y)' <=> Due(y) /\ y # "copy"
                   /\ w'.report["signature"] = w.report["signature"]
                   /\ w'.signing = w.signing /\ w'.built = w.built
                   /\ w'.clean => w.clean
  BY <1>1, GoesSays
<1>4. g' \in Guests
  BY <1>1 DEF GuestOK, Guests, Drafts
<1>5. Beyond(g, g') /\ g'.stamp = g.stamp /\ g'.services = g.services /\ g'.up = g.up
  BY <1>1 DEF GuestOK, Guests, Beyond
<1>6. GuestOK(g)' /\ g'.stamp = None
  BY <1>1, <1>2, <1>4, <1>5, BeyondKeeps DEF UInv, Stamped
<1>7. ~Fails => Signs' /\ Shows' /\ Serves' /\ Builds'
  BY <1>2, <1>3, <1>5 DEF Recipes, Signs, Shows, Serves, Builds, Beyond
<1>8. ~Fails => Renders'
  BY <1>2, <1>3 DEF Recipes, Equipping, Renders
<1>9. StampVouches'
  BY <1>6 DEF StampVouches
<1>10. CASE Fails
  BY <1>1, <1>3, <1>6, <1>9, <1>10, AtIs, FailsIsOver
<1>11. CASE ~Fails
  BY <1>1, <1>2, <1>3, <1>6, <1>7, <1>8, <1>9, <1>11, RecipeGoesOn DEF RecipeFacts
<1>12. QED
  BY <1>10, <1>11

LEMMA StampKeeps == UInv /\ StampRenderer => UInv'
<1> SUFFICES ASSUME UInv, StampRenderer PROVE UInv'
  OBVIOUS
<1>1. At("stamp") /\ Quiet /\ GuestOK(g)
  BY FaultsCount DEF StampRenderer, UInv, Quiet
<1>2. Recipes /\ w \in Jobs /\ Due("stamp") /\ ~Due("copy")
  <2>1. \A x \in Left(w.todo) : Rank("stamp") <= Rank(x)
    BY <1>1, AtIs
  <2>2. ~Due("copy")
    BY <2>1, Ranks DEF Due
  <2>3. QED
    BY <1>1, <2>2, AtIs, AtPhases DEF Prelude, Attempt, ServicePlan, RollBackPlan
<1>3. ASSUME NEW state \in {"ok", "failed"}, NEW broken \in BOOLEAN,
             GoOn(Tail(w.todo), Say("renderer", state), broken), g' \in Guests, Beyond(g, g'),
             g'.services = g.services, g'.up = g.up, StampVouches',
             broken \/ g'.aquamarine = g'.lib
      PROVE  UInv'
  <2>1. /\ SameJob
        /\ Fails \/ Proceeds({"stamp"}, Say("renderer", state), w.signing,
                             w.clean /\ ~broken)
        /\ ~Fails => /\ \A y : Due(y)' <=> Due(y) /\ y # "stamp"
                     /\ w'.report["signature"] = w.report["signature"]
                     /\ w'.signing = w.signing /\ w'.built = w.built
                     /\ w'.clean => w.clean /\ ~broken
    BY <1>1, <1>3, SaysIs DEF Steps
  <2> HIDE DEF Say
  <2>2. GuestOK(g)'
    BY <1>1, <1>3, BeyondKeeps
  <2>3. ~Fails => Signs' /\ Shows' /\ Serves' /\ Builds'
    BY <1>2, <1>3, <2>1 DEF Recipes, Signs, Shows, Serves, Builds, Beyond
  <2>4. ~Fails => Renders'
    BY <1>3, <2>1 DEF Renders
  <2>5. CASE Fails
    BY <1>1, <1>3, <2>1, <2>2, <2>5, AtIs, FailsIsOver
  <2>6. CASE ~Fails
    <3>1. ~Due("copy")' /\ ~Due("stamp")'
      BY <1>2, <2>1, <2>6
    <3>2. QED
      BY <1>1, <1>2, <1>3, <2>1, <2>2, <2>3, <2>4, <2>6, <3>1, RecipeGoesOn DEF RecipeFacts
  <2>7. QED
    BY <2>5, <2>6
<1>4. CASE /\ g' = [g EXCEPT !.lib = g.aquamarine, !.stamp = g.aquamarine]
           /\ Passes("renderer")
  <2>1. g.aquamarine \in Loaded /\ g.aquamarine \in Drafts
    BY <1>1 DEF GuestOK, Guests, Loaded, Drafts, Versions
  <2>2. g' \in Guests
    BY <1>1, <1>4, <2>1 DEF GuestOK, Guests
  <2>3. /\ Beyond(g, g') /\ g'.services = g.services /\ g'.up = g.up
        /\ g'.lib = g.aquamarine /\ g'.stamp = g.aquamarine /\ g'.aquamarine = g.aquamarine
    BY <1>1, <1>4 DEF GuestOK, Guests, Beyond
  <2>4. QED
    BY <1>3, <1>4, <2>2, <2>3 DEF Passes, StampVouches
<1>5. CASE GoOn(Tail(w.todo), Say("renderer", "failed"), TRUE) /\ UNCHANGED g
  <2>1. g' \in Guests /\ Beyond(g, g') /\ StampVouches'
    BY <1>1, <1>5 DEF GuestOK, Beyond, UInv, Stamped, StampVouches
  <2>2. QED
    BY <1>3, <1>5, <2>1
<1>6. QED
  BY <1>4, <1>5 DEF StampRenderer

-----------------------------------------------------------------------------
(* The display services. *)

LEMMA ServicesKeeps == UInv /\ ServicesStage => UInv'
<1> SUFFICES ASSUME UInv, ServicesStage PROVE UInv'
  OBVIOUS
<1>1. At("services") /\ Quiet /\ UNCHANGED g
  BY FaultsCount DEF ServicesStage, UInv, Quiet
<1>2. w \in Jobs /\ w.report \in Reports /\ w.clean \in BOOLEAN
  BY <1>1, AtIs, JobFields
<1>3. Recipes \/ Verified
  BY <1>1, AtPhases DEF Prelude, Attempt, RollBackPlan
<1>4. "write" \in Left(w.todo) /\ "start" \in Left(w.todo)
  <2>1. Recipes => Due("write") /\ Due("start")
    BY <1>1, RecipeOrder, Ranks DEF Recipe, Extra
  <2>2. Verified => Due("write") /\ Due("start")
    <3>1. Due("services")
      BY <1>1, AtIs
    <3>2. QED
      BY <3>1, Ranks DEF Verified, Segment, ServicePlan, Due
  <2>3. QED
    BY <1>3, <2>1, <2>2 DEF Due
<1>5. CASE Ends("services")
  BY <1>1, <1>5, EndsAlone DEF Steps
<1>6. ASSUME NEW D, \A y \in Marks : y \in D => ~Due(y) \/ y \in ServicePlan,
             NEW report, NEW clean,
             report["signature"] = w.report["signature"], clean => w.clean,
             SameJob, Fails \/ Proceeds(D, report, w.signing, clean),
             \/ g.carried = {}
             \/ "start" \notin D /\ ("write" \notin D \/ g.services = "new")
      PROVE  UInv'
  <2>1. GuestOK(g)' /\ StampVouches' /\ g'.stamp = g.stamp /\ g'.lib = g.lib
        /\ g'.loaded = g.loaded
    BY <1>1 DEF UInv, Stamped, StampVouches
  <2>2. CASE Recipes
    <3>1. ASSUME ~Fails PROVE RecipeFacts'
      <4>1. Proceeds(D, report, w.signing, clean)
        BY <1>6, <3>1
      <4>2. \A y : Due(y)' <=> Due(y) /\ y \notin D
        BY <4>1 DEF Proceeds, Due
      <4>3. \A y \in Marks \ ServicePlan : Due(y)' <=> Due(y)
        BY <1>6, <4>2
      <4>4. /\ w'.report = report /\ w'.signing = w.signing /\ w'.clean = clean
            /\ w'.built = w.built
        BY <1>6, <4>1 DEF Proceeds, SameJob
      <4>5. Signs' /\ Shows' /\ Renders' /\ Builds'
        BY <1>1, <1>6, <2>2, <4>2, <4>3, <4>4
           DEF Recipes, Signs, Shows, Renders, Builds, Marks, ServicePlan
      <4>6. Serves'
        BY <1>1, <1>4, <1>6, <2>2, <4>2, <4>4 DEF Recipes, Serves, Due
      <4>7. QED
        BY <4>5, <4>6 DEF RecipeFacts
    <3>2. QED
      BY <1>1, <1>6, <2>1, <2>2, <3>1, RecipeStage
  <2>3. CASE Verified
    BY <1>1, <1>6, <2>1, <2>3, ServicesGoOn
  <2>4. QED
    BY <1>3, <2>2, <2>3
<1>7. Say("services", "skipped") \in Reports
      /\ Say("services", "skipped")["signature"] = w.report["signature"]
  BY <1>2, RecordedIs DEF Say, Steps
<1> DEFINE r == Say("services", "skipped")
           x == [w EXCEPT !.report = r, !.clean = @ /\ ~FALSE]
<1>8. Saying(x, r, w.signing, w.clean /\ ~FALSE)
  BY <1>2, <1>7, GoOnSays
<1>9. \A q : GoOn(q, r, FALSE) => w' = Onward(x, q)
  BY DEF GoOn
<1> HIDE DEF x, r
<1>10. r["signature"] = w.report["signature"]
  BY <1>7 DEF r
<1>11. CASE g.carried = {} /\ GoOn(Past("start"), r, FALSE)
  <2> DEFINE D == {y \in Left(w.todo) : Rank(y) <= Rank("start")}
  <2>1. SameJob /\ (Fails \/ Proceeds(D, r, w.signing, w.clean /\ ~FALSE))
    BY <1>1, <1>4, <1>8, <1>9, <1>11, PastGoes
  <2>2. \A y \in Marks : y \in D => ~Due(y) \/ y \in ServicePlan
    <3>1. \A y \in Left(w.todo) : Rank("services") <= Rank(y)
      BY <1>1, AtIs
    <3>2. QED
      BY <3>1, Ranks DEF Marks, ServicePlan, Due
  <2> HIDE DEF D
  <2>3. QED
    BY <1>6, <1>10, <1>11, <2>1, <2>2
<1>12. CASE g.carried # {} /\ Goes
  <2>1. SameJob /\ (Fails \/ Proceeds({"services"}, w.report, w.signing, w.clean /\ ~FALSE))
    BY <1>1, <1>12, GoesSays
  <2>2. \A y \in Marks : y \in {"services"} => ~Due(y) \/ y \in ServicePlan
    BY DEF ServicePlan
  <2>3. "start" \notin {"services"} /\ "write" \notin {"services"}
    OBVIOUS
  <2>4. (w.clean /\ ~FALSE) => w.clean
    OBVIOUS
  <2>5. QED
    BY <1>6, <2>1, <2>2, <2>3, <2>4
<1>13. CASE g.carried # {} /\ ~ServicesNeedInstall(g) /\ GoOn(Tail(Tail(w.todo)), r, FALSE)
  <2>1. Rank("write") = Rank("services") + 1
    BY Ranks
  <2>2. SameJob /\ (Fails \/ Proceeds({"services", "write"}, r, w.signing, w.clean /\ ~FALSE))
    BY <1>1, <1>4, <1>8, <1>9, <1>13, <2>1, TwoGo
  <2>3. \A y \in Marks : y \in {"services", "write"} => ~Due(y) \/ y \in ServicePlan
    BY DEF ServicePlan
  <2>4. g.services = "new"
    BY <1>13 DEF ServicesNeedInstall
  <2>5. "start" \notin {"services", "write"}
    OBVIOUS
  <2>6. (w.clean /\ ~FALSE) => w.clean
    OBVIOUS
  <2>7. QED
    BY <1>6, <1>10, <2>2, <2>3, <2>4, <2>5, <2>6
<1>14. QED
  BY <1>5, <1>11, <1>12, <1>13 DEF ServicesStage, r

LEMMA WriteKeeps == UInv /\ WriteServices => UInv'
<1> SUFFICES ASSUME UInv, WriteServices PROVE UInv'
  OBVIOUS
<1>1. At("write") /\ Quiet /\ GuestOK(g)
  BY FaultsCount DEF WriteServices, UInv, Quiet
<1>2. ASSUME NEW v \in {"new", "torn"}, g' = [g EXCEPT !.services = v]
      PROVE  /\ GuestOK(g)' /\ Beyond(g, g') /\ g'.services = v /\ g'.up = g.up
             /\ g'.stamp = g.stamp /\ g'.lib = g.lib /\ StampVouches'
  <2>1. g' \in Guests
    BY <1>1, <1>2 DEF GuestOK, Guests, Drafts, Versions
  <2>2. /\ Beyond(g, g') /\ g'.services = v /\ g'.up = g.up
        /\ g'.stamp = g.stamp /\ g'.lib = g.lib
    BY <1>1, <1>2 DEF GuestOK, Guests, Beyond
  <2>3. QED
    BY <1>1, <2>1, <2>2, BeyondKeeps DEF UInv, Stamped, StampVouches
<1>3. CASE g' = [g EXCEPT !.services = "torn"] /\ Ends("services")
  BY <1>1, <1>2, <1>3, EndsKeeps DEF Steps
<1>4. CASE g' = [g EXCEPT !.services = "new"] /\ Passes("services")
  <2>1. /\ SameJob
        /\ Fails \/ Proceeds({"write"}, Say("services", "ok"), w.signing, w.clean /\ ~FALSE)
        /\ ~Fails => /\ \A y : Due(y)' <=> Due(y) /\ y # "write"
                     /\ w'.report["signature"] = w.report["signature"]
                     /\ w'.signing = w.signing /\ w'.built = w.built
                     /\ w'.clean => w.clean /\ ~FALSE
    BY <1>1, <1>4, SaysIs DEF Steps, Passes
  <2> HIDE DEF Say
  <2>2. /\ GuestOK(g)' /\ Beyond(g, g') /\ g'.services = "new" /\ g'.up = g.up
        /\ g'.stamp = g.stamp /\ g'.lib = g.lib /\ StampVouches'
    BY <1>2, <1>4
  <2>3. CASE Recipes
    <3>1. ~Fails => Signs' /\ Shows' /\ Renders' /\ Builds' /\ Serves'
      BY <2>1, <2>2, <2>3 DEF Recipes, Signs, Shows, Renders, Builds, Serves, Beyond
    <3>2. QED
      BY <1>1, <2>1, <2>2, <2>3, <3>1, RecipeStage DEF RecipeFacts
  <2>4. CASE Verified
    BY <1>1, <2>1, <2>2, <2>4, ServicesGoOn DEF Beyond
  <2>5. QED
    BY <1>1, <2>3, <2>4, AtPhases DEF Prelude, Attempt, RollBackPlan
<1>5. QED
  BY <1>3, <1>4 DEF WriteServices

LEMMA StartKeeps == UInv /\ StartServices => UInv'
<1> SUFFICES ASSUME UInv, StartServices PROVE UInv'
  OBVIOUS
<1>1. At("start") /\ Quiet /\ GuestOK(g)
  BY FaultsCount DEF StartServices, UInv, Quiet
<1>2. Runs(g.services) \in Loaded /\ None \in Loaded
  BY <1>1 DEF GuestOK, Guests, Runs, Drafts, Loaded
<1>3. ASSUME NEW v \in Loaded, g' = [g EXCEPT !.up = v]
      PROVE  /\ GuestOK(g)' /\ Beyond(g, g') /\ g'.services = g.services /\ g'.up = v
             /\ g'.stamp = g.stamp /\ g'.lib = g.lib /\ StampVouches'
  <2>1. g' \in Guests
    BY <1>1, <1>3 DEF GuestOK, Guests
  <2>2. /\ Beyond(g, g') /\ g'.services = g.services /\ g'.up = v
        /\ g'.stamp = g.stamp /\ g'.lib = g.lib
    BY <1>1, <1>3 DEF GuestOK, Guests, Beyond
  <2>3. QED
    BY <1>1, <2>1, <2>2, BeyondKeeps DEF UInv, Stamped, StampVouches
<1>4. CASE \E v \in Loaded : g' = [g EXCEPT !.up = v] /\ Ends("start")
  BY <1>1, <1>3, <1>4, EndsKeeps DEF Steps
<1>5. CASE g' = [g EXCEPT !.up = Runs(g.services)] /\ Passes("start")
  <2>1. /\ SameJob
        /\ Fails \/ Proceeds({"start"}, Say("start", "ok"), w.signing, w.clean /\ ~FALSE)
        /\ ~Fails => /\ \A y : Due(y)' <=> Due(y) /\ y # "start"
                     /\ w'.report["signature"] = w.report["signature"]
                     /\ w'.signing = w.signing /\ w'.built = w.built
                     /\ w'.clean => w.clean /\ ~FALSE
    BY <1>1, <1>5, SaysIs DEF Steps, Passes
  <2> HIDE DEF Say
  <2>2. /\ GuestOK(g)' /\ Beyond(g, g') /\ g'.services = g.services
        /\ g'.up = Runs(g.services)
        /\ g'.stamp = g.stamp /\ g'.lib = g.lib /\ StampVouches'
    BY <1>2, <1>3, <1>5
  <2>3. CASE Recipes
    <3>1. ~Due("services") /\ ~Due("write")
      BY <1>1, <2>3, RecipeOrder, Ranks DEF Recipe
    <3>2. g.carried = {} \/ g'.up = "new"
      BY <2>2, <2>3, <3>1 DEF Recipes, Serves, Runs
    <3>3. ~Fails => Signs' /\ Shows' /\ Renders' /\ Builds'
      BY <2>1, <2>2, <2>3 DEF Recipes, Signs, Shows, Renders, Builds, Beyond
    <3>4. ~Fails => Serves'
      BY <2>1, <2>2, <2>3, <3>2 DEF Recipes, Serves, Beyond
    <3>5. QED
      BY <1>1, <2>1, <2>2, <2>3, <3>3, <3>4, RecipeStage DEF RecipeFacts
  <2>4. CASE Verified
    BY <1>1, <2>1, <2>2, <2>4, ServicesGoOn DEF Beyond
  <2>5. QED
    BY <1>1, <2>3, <2>4, AtPhases DEF Prelude, Attempt, RollBackPlan
<1>6. QED
  BY <1>2, <1>4, <1>5 DEF StartServices

-----------------------------------------------------------------------------
(* The end of an update. *)

LEMMA VerifyKeeps == UInv /\ Verify => UInv'
<1> SUFFICES ASSUME UInv, Verify PROVE UInv'
  OBVIOUS
<1>1. At("verify") /\ Quiet /\ UNCHANGED g
  BY FaultsCount DEF Verify, UInv, Quiet
<1>2. Trying /\ w \in Jobs /\ w.report \in Reports
  BY <1>1, AtIs, JobFields, AtPhases DEF Prelude, Recipe, Extra, ServicePlan, RollBackPlan
<1>3. Remembers
  BY <1>1, <1>2, TrialOrder, Ranks DEF Attempt, Trying
<1>4. GuestOK(g)' /\ StampVouches' /\ w.job = "update" /\ w.outcome = None
  BY <1>1, <1>2 DEF UInv, Stamped, StampVouches, Trying
<1>5. CASE /\ g.loaded = "new"
           /\ w' = [w EXCEPT !.todo = ServiceStages, !.report = Say("device", "ok")]
  <2>1. Say("device", "ok") \in Reports
    BY <1>2, RecordedIs DEF Say, Steps
  <2>2. ServiceStages \in Seq(Stages) /\ Ordered(ServiceStages) /\ Left(ServiceStages) = ServicePlan
    BY ShortPlans DEF Does
  <2>3. w' \in Jobs
    BY <1>2, <1>5, <2>1, <2>2 DEF Jobs, Reports
  <2>4. /\ w'.job = "update" /\ w'.outcome = None /\ w'.todo = ServiceStages
        /\ w'.before = w.before /\ w'.back = w.back
    BY <1>2, <1>4, <1>5 DEF Jobs
  <2>5. Verified'
    BY <1>1, <1>3, <1>5, <2>2, <2>4 DEF Verified, Segment, Remembers
  <2>6. Stamped'
    BY <1>4, <2>2, <2>4 DEF Stamped, Due, ServicePlan
  <2>7. QED
    BY <1>1, <1>4, <2>2, <2>3, <2>4, <2>5, <2>6, QuietTypes DEF UInv
<1>6. ASSUME NEW state \in {"ok", "failed"},
             w' = [w EXCEPT !.todo = IF w.back # None THEN RollBackStages ELSE <<>>,
                            !.outcome = "failed", !.report = Say("device", state)]
      PROVE  UInv'
  <2> DEFINE todo == IF w.back # None THEN RollBackStages ELSE <<>>
  <2>1. Say("device", state) \in Reports
    BY <1>2, RecordedIs DEF Say, Steps
  <2>2. todo \in Seq(Stages)
    BY ShortPlans, NothingLeft DEF Does
  <2>3. w' = [w EXCEPT !.todo = todo, !.outcome = "failed", !.report = Say("device", state)]
    BY <1>6
  <2>4. (w.back # None /\ todo = RollBackStages) \/ todo = <<>>
    OBVIOUS
  <2> HIDE DEF todo
  <2>5. w' \in Jobs
    BY <1>2, <2>1, <2>2, <2>3 DEF Jobs, Reports, Outcomes
  <2>6. /\ w'.job = w.job /\ w'.outcome = "failed" /\ w'.todo = todo
        /\ w'.before = w.before /\ w'.back = w.back /\ w'.built = w.built
    BY <1>2, <2>3 DEF Jobs
  <2>7. CASE w.back # None /\ todo = RollBackStages
    BY <1>1, <1>2, <1>4, <2>5, <2>6, <2>7, RollsBack DEF SameJob
  <2>8. CASE todo = <<>>
    <3>1. Over'
      BY <1>4, <2>6, <2>8, UpdateAssumption DEF Over, Outcomes, Remembers
    <3>2. Ordered(w.todo)' /\ Stamped'
      BY <1>4, <2>6, <2>8, NothingLeft DEF Stamped, Due
    <3>3. QED
      BY <1>1, <1>4, <2>5, <3>1, <3>2, QuietTypes DEF UInv
  <2>9. QED
    BY <2>4, <2>7, <2>8
<1>7. QED
  BY <1>5, <1>6 DEF Verify

\* A command of the rollback.
LEMMA RollBackStage ==
  ASSUME UInv, NEW st \in {"remove", "reinsert", "refresh"}, At(st), Goes, Quiet,
         GuestOK(g)', g'.stamp = g.stamp, g'.lib = g.lib
  PROVE  UInv'
<1>1. RollingBack
  BY AtPhases DEF Prelude, Recipe, Extra, Attempt, ServicePlan
<1>2. SameJob /\ (Fails \/ Proceeds({st}, w.report, w.signing, w.clean /\ ~FALSE))
  BY GoesSays
<1>3. StampVouches'
  BY <1>2, StampStays
<1>4. QED
  BY <1>1, <1>2, <1>3, RollBackGoesOn

LEMMA RemoveKeeps == UInv /\ RemoveAttempted => UInv'
<1> SUFFICES ASSUME UInv, RemoveAttempted PROVE UInv'
  OBVIOUS
<1>1. At("remove") /\ Quiet /\ GuestOK(g) /\ Goes
  BY FaultsCount DEF RemoveAttempted, UInv, Quiet
<1>2. GuestOK(g)' /\ g'.stamp = g.stamp /\ g'.lib = g.lib
  <2>1. CASE g' \in DkmsRemoved(g, "new")
    BY <1>1, <2>1, RemovedKeeps DEF Beside
  <2>2. CASE UNCHANGED g
    BY <1>1, <2>2
  <2>3. QED
    BY <2>1, <2>2 DEF RemoveAttempted
<1>3. QED
  BY <1>1, <1>2, RollBackStage

LEMMA ReinsertKeeps == UInv /\ Reinsert => UInv'
<1> SUFFICES ASSUME UInv, Reinsert PROVE UInv'
  OBVIOUS
<1>1. At("reinsert") /\ Quiet /\ GuestOK(g) /\ Goes
  BY FaultsCount DEF Reinsert, UInv, Quiet
<1>2. GuestOK(g)' /\ g'.stamp = g.stamp /\ g'.lib = g.lib
  <2>1. CASE UNCHANGED g
    BY <1>1, <2>1
  <2>2. CASE g.ko # None /\ g' \in {Inserted(g), [Inserted(g) EXCEPT !.device = FALSE]}
    BY <1>1, <2>2, InsertedKeeps DEF Under
  <2>3. QED
    BY <2>1, <2>2 DEF Reinsert
<1>3. QED
  BY <1>1, <1>2, RollBackStage

LEMMA RefreshKeeps == UInv /\ RefreshImage => UInv'
<1> SUFFICES ASSUME UInv, RefreshImage PROVE UInv'
  OBVIOUS
<1>1. At("refresh") /\ Quiet /\ GuestOK(g) /\ Goes
  BY FaultsCount DEF RefreshImage, UInv, Quiet
<1>2. GuestOK(g)' /\ g'.stamp = g.stamp /\ g'.lib = g.lib
  <2>1. CASE UNCHANGED g
    BY <1>1, <2>1
  <2>2. CASE g.builder /\ g' = [g EXCEPT !.image = g.ko]
    <3>1. g' \in Guests
      BY <1>1, <2>2 DEF GuestOK, Guests
    <3>2. /\ g'.dkms = g.dkms /\ g'.ko = g.ko /\ g'.image = g.ko /\ g'.builder = g.builder
          /\ g'.loaded = g.loaded /\ g'.device = g.device /\ g'.stamp = g.stamp
          /\ g'.lib = g.lib /\ g'.asked = g.asked
      BY <1>1, <2>2 DEF GuestOK, Guests
    <3>3. GuestOK(g)'
      BY <1>1, <2>2, <3>1, <3>2 DEF GuestOK, HasOld
    <3>4. QED
      BY <3>2, <3>3
  <2>3. QED
    BY <2>1, <2>2 DEF RefreshImage
<1>3. QED
  BY <1>1, <1>2, RollBackStage

LEMMA JudgeKeeps == UInv /\ Judge => UInv'
<1> SUFFICES ASSUME UInv, Judge PROVE UInv'
  OBVIOUS
<1> DEFINE outcome == IF g.loaded = w.back /\ g.device THEN "rolled_back" ELSE "failed"
<1>1. At("judge") /\ Quiet /\ UNCHANGED g
  BY FaultsCount DEF Judge, UInv, Quiet
<1>2. RollingBack /\ w \in Jobs
  BY <1>1, AtIs, AtPhases DEF Prelude, Recipe, Extra, ServicePlan, Attempt
<1>3. w' = [w EXCEPT !.todo = <<>>, !.outcome = outcome]
  BY DEF Judge
<1>4. outcome \in {"failed", "rolled_back"} /\ (outcome = "rolled_back" => g.loaded = w.back)
  OBVIOUS
<1> HIDE DEF outcome
<1>5. <<>> \in Seq(Stages) /\ outcome \in Outcomes
  BY <1>4 DEF Outcomes
<1>6. w' \in Jobs
  BY <1>2, <1>3, <1>5 DEF Jobs
<1>7. /\ w'.job = w.job /\ w'.outcome = outcome /\ w'.todo = <<>>
      /\ w'.before = w.before /\ w'.back = w.back
  BY <1>2, <1>3 DEF Jobs
<1>8. outcome # None
  BY <1>5, UpdateAssumption
<1>9. Over'
  BY <1>1, <1>2, <1>4, <1>7, <1>8 DEF RollingBack, Over, Remembers
<1>10. Ordered(w.todo)' /\ Stamped'
  BY <1>1, <1>7, NothingLeft DEF Stamped, StampVouches, Due, UInv
<1>11. QED
  BY <1>1, <1>6, <1>9, <1>10, QuietTypes DEF UInv

-----------------------------------------------------------------------------
(* Between jobs, and what happens around them. *)

LEMMA IdleIs ==
  ASSUME NEW stopping \in BOOLEAN
  PROVE  LET x == [Idle EXCEPT !.stopping = stopping] IN
         /\ x \in Jobs /\ x.job = "idle" /\ x.todo = <<>> /\ x.outcome = None
         /\ Idle \in Jobs /\ Idle.job = "idle" /\ Idle.todo = <<>> /\ Idle.outcome = None
<1>1. NoReport \in Reports
  BY DEF NoReport, Reports
<1>2. <<>> \in Seq(Stages)
  BY NothingLeft
<1>3. Idle \in Jobs
  BY <1>1, <1>2 DEF Idle, Jobs, Reports, Modes, Loaded
<1>4. Idle.job = "idle" /\ Idle.todo = <<>> /\ Idle.outcome = None
  BY DEF Idle
<1> HIDE DEF Idle
<1>5. QED
  BY <1>3, <1>4 DEF Jobs

\* A job is over, one way or the other.
LEMMA Rests ==
  ASSUME UInv, \E stopping \in BOOLEAN : w' \in {Idle, [Idle EXCEPT !.stopping = stopping]},
         told' \in Loaded, ready' \in BOOLEAN, ready' /\ told' # "new" => g'.loaded # "new",
         faults' \in 0..MaxFaults, boots' \in 0..MaxBoots, GuestOK(g)', StampVouches'
  PROVE  UInv'
<1>1. w' \in Jobs /\ w'.job = "idle" /\ w'.todo = <<>> /\ w'.outcome = None
  BY IdleIs
<1>2. Resting' /\ Types'
  BY <1>1 DEF Resting, Types
<1>3. Ordered(w.todo)' /\ Stamped'
  BY <1>1, NothingLeft DEF Stamped, Due
<1>4. QED
  BY <1>2, <1>3 DEF UInv

LEMMA AnswerKeeps == UInv /\ Answer => UInv'
<1> SUFFICES ASSUME UInv, Answer PROVE UInv'
  OBVIOUS
<1>1. w.stopping \in BOOLEAN /\ w' = [Idle EXCEPT !.stopping = w.stopping]
  BY JobFields DEF UInv, Types, Answer
<1>2. g \in Guests /\ g.loaded \in Loaded
  BY DEF UInv, GuestOK, Guests
<1> DEFINE i == InstalledVersions(g)
           q == DkmsVersions(g)
<1>3. i.loaded = g.loaded /\ i.versions = q
  BY DEF InstalledVersions
<1>4. q # <<>> => q[1] \in Versions
  BY <1>2, VersionsListed
<1>5. VersionsReported(g) \in Loaded
  BY <1>2, <1>3, <1>4 DEF VersionsReported, Loaded
<1>6. VersionsReported(g) # "new" => g.loaded # "new"
  BY <1>3, NoneIsNoVersion DEF VersionsReported
<1>7. Reported \in Loaded /\ (Reported # "new" => g.loaded # "new")
  BY <1>5, <1>6 DEF Reported, Loaded, Versions
<1>8. QED
  BY <1>1, <1>7, Rests DEF Answer, UInv, Types, Stamped, StampVouches

LEMMA ApplyKeeps ==
  ASSUME NEW mode \in Modes
  PROVE  UInv /\ Apply(mode) => UInv'
<1> SUFFICES ASSUME UInv, Apply(mode) PROVE UInv'
  OBVIOUS
<1> DEFINE todo == <<"payload", "decide">>
<1>1. /\ w' = [Idle EXCEPT !.job = "apply", !.todo = todo, !.mode = mode, !.before = g.loaded]
      /\ UNCHANGED <<g, told, ready, faults, boots>>
  BY DEF Apply
<1>2. todo \in Seq(Stages) /\ Ordered(todo) /\ Left(todo) = Prelude
  BY ShortPlans DEF Does
<1>3. g.loaded \in Loaded /\ Idle \in Jobs /\ Idle.outcome = None
  BY IdleIs DEF UInv, GuestOK, Guests
<1> HIDE DEF todo
<1>4. w' \in Jobs
  BY <1>1, <1>2, <1>3 DEF Jobs
<1>5. w'.job = "apply" /\ w'.todo = todo /\ w'.outcome = None /\ w'.report = Idle.report
  BY <1>1, <1>3 DEF Jobs
<1>6. Idle.report["signature"] = "unsaid"
  BY DEF Idle, NoReport, Steps
<1>7. Preparing'
  BY <1>2, <1>5, <1>6 DEF Preparing, Segment, Due, Prelude
<1>8. Stamped' /\ Types' /\ GuestOK(g)'
  BY <1>1, <1>2, <1>4, <1>5 DEF UInv, Stamped, StampVouches, Due, Prelude, Types
<1>9. QED
  BY <1>2, <1>5, <1>7, <1>8 DEF UInv

LEMMA UpdateKeeps == UInv /\ Update => UInv'
<1> SUFFICES ASSUME UInv, Update PROVE UInv'
  OBVIOUS
<1> DEFINE todo == <<"payload">> \o AttemptStages
<1>1. /\ w' = [Idle EXCEPT !.job = "update", !.todo = todo] /\ w.job = "idle" /\ HostAsks
      /\ UNCHANGED <<g, told, ready, faults, boots>>
  BY DEF Update
<1>2. todo \in Seq(Stages) /\ Ordered(todo) /\ Left(todo) = Attempt
  BY AttemptIs DEF Does
<1>3. Idle \in Jobs /\ Idle.outcome = None
  BY IdleIs
<1> HIDE DEF todo
<1>4. w' \in Jobs
  BY <1>1, <1>2, <1>3 DEF Jobs
<1>5. w'.job = "update" /\ w'.todo = todo /\ w'.outcome = None
  BY <1>1, <1>3 DEF Jobs
<1>6. Resting /\ g.loaded # "new"
  <2>1. Resting
    BY <1>1 DEF UInv, Preparing, Recipes, Equipping, Trying, Verified, RollingBack, Over
  <2>2. QED
    BY <1>1, <2>1 DEF Resting, HostAsks
<1>7. \A y \in Attempt : Due(y)'
  BY <1>2, <1>5 DEF Due
<1>8. Due("payload")' /\ Due("install")' /\ Due("initramfs")' /\ Due("verify")'
  BY <1>7 DEF Attempt
<1>9. Trying'
  BY <1>1, <1>2, <1>5, <1>6, <1>8 DEF Trying, Segment
<1>10. Stamped' /\ Types' /\ GuestOK(g)'
  BY <1>1, <1>2, <1>4, <1>5 DEF UInv, Stamped, StampVouches, Due, Attempt, Types
<1>11. QED
  BY <1>2, <1>5, <1>9, <1>10 DEF UInv

\* Something happens beside the job.
LEMMA Disturbs ==
  ASSUME UInv, w' \in Jobs, w'.job = w.job, w'.todo = w.todo, w'.report = w.report,
         w'.built = w.built, w'.signing = w.signing, w'.before = w.before,
         w'.back = w.back, w'.outcome = w.outcome, w'.clean => w.clean,
         w'.clean = FALSE \/ g'.up = g.up, ~w.clean => ~w'.clean,
         GuestOK(g)', Beyond(g, g'), g'.stamp = g.stamp, g'.lib = g.lib,
         g'.services = g.services,
         told' = told, ready' = ready, faults' \in 0..MaxFaults, boots' \in 0..MaxBoots
  PROVE  UInv'
<1>1. Types' /\ Ordered(w.todo)'
  BY DEF UInv, Types
<1>2. \A y : Due(y)' <=> Due(y)
  BY DEF Due
<1>3. Stamped'
  BY <1>2 DEF UInv, Stamped, StampVouches
<1>4. Boots(g') = Boots(g) /\ (Remembers' <=> Remembers)
  BY DEF Boots, Beyond, Remembers
<1>5. Resting => Resting'
  BY DEF Resting, Beyond
<1>6. Preparing => Preparing'
  BY <1>2 DEF Preparing
<1>7. Recipes => Recipes'
  <2>1. Equipping => Equipping'
    BY <1>2 DEF Equipping
  <2>2. Recipes => Signs' /\ Shows' /\ Serves' /\ Builds' /\ Renders'
    BY <1>2 DEF Recipes, Signs, Shows, Serves, Builds, Renders, Beyond
  <2>3. QED
    BY <2>1, <2>2 DEF Recipes
<1>8. Trying => Trying'
  BY <1>2, <1>4 DEF Trying, Beyond
<1>9. Verified => Verified'
  BY <1>4 DEF Verified, Beyond
<1>10. RollingBack => RollingBack'
  BY <1>4 DEF RollingBack
<1>11. Over => Over'
  BY <1>4 DEF Over, Beyond
<1>12. QED
  BY <1>1, <1>3, <1>5, <1>6, <1>7, <1>8, <1>9, <1>10, <1>11 DEF UInv

LEMMA StopKeeps == UInv /\ Stop => UInv'
<1> SUFFICES ASSUME UInv, Stop PROVE UInv'
  OBVIOUS
<1>1. w \in Jobs /\ w.clean \in BOOLEAN
  BY JobFields DEF UInv, Types
<1>2. boots' \in 0..MaxBoots
  <2>1. boots \in 0..MaxBoots /\ MaxBoots \in Nat
    BY UpdateAssumption DEF UInv, Types
  <2>2. QED
    BY <2>1 DEF Stop
<1>3. w' = [w EXCEPT !.stopping = TRUE] /\ UNCHANGED <<g, told, ready, faults>>
  BY DEF Stop
<1>4. /\ w' \in Jobs /\ w'.job = w.job /\ w'.todo = w.todo /\ w'.report = w.report
      /\ w'.built = w.built /\ w'.signing = w.signing /\ w'.before = w.before
      /\ w'.back = w.back /\ w'.outcome = w.outcome /\ w'.clean = w.clean
  BY <1>1, <1>3 DEF Jobs
<1>5. GuestOK(g)' /\ Beyond(g, g') /\ faults' \in 0..MaxFaults
  BY <1>3 DEF UInv, Beyond, Types
<1>6. QED
  BY <1>2, <1>3, <1>4, <1>5, Disturbs

\* A fault that costs the job nothing but its good name.
LEMMA Harms ==
  ASSUME UInv, w' = [w EXCEPT !.clean = FALSE], Breaks, UNCHANGED rest,
         g' \in Guests, Beyond(g, g'), g'.stamp = g.stamp, g'.lib = g.lib,
         g'.services = g.services
  PROVE  UInv'
<1>1. w \in Jobs
  BY DEF UInv, Types
<1>2. /\ w' \in Jobs /\ w'.job = w.job /\ w'.todo = w.todo /\ w'.report = w.report
      /\ w'.built = w.built /\ w'.signing = w.signing /\ w'.before = w.before
      /\ w'.back = w.back /\ w'.outcome = w.outcome /\ w'.clean = FALSE
  BY <1>1 DEF Jobs
<1>3. GuestOK(g)' /\ faults' \in 0..MaxFaults /\ boots' \in 0..MaxBoots
  BY BeyondKeeps, FaultsCount DEF UInv, Types, rest
<1>4. QED
  BY <1>2, <1>3, Disturbs DEF rest

LEMMA ServicesDieKeeps == UInv /\ ServicesDie => UInv'
<1> SUFFICES ASSUME UInv, ServicesDie PROVE UInv'
  OBVIOUS
<1>1. g' = [g EXCEPT !.up = None] /\ g \in Guests
  BY DEF ServicesDie, UInv, GuestOK
<1>2. g' \in Guests
  BY <1>1 DEF Guests, Loaded
<1>3. Beyond(g, g') /\ g'.stamp = g.stamp /\ g'.lib = g.lib /\ g'.services = g.services
  BY <1>1 DEF Guests, Beyond
<1>4. QED
  BY <1>2, <1>3, Harms DEF ServicesDie

LEMMA KeyHalfLostKeeps == UInv /\ KeyHalfLost => UInv'
<1> SUFFICES ASSUME UInv, KeyHalfLost PROVE UInv'
  OBVIOUS
<1>1. g' = [g EXCEPT !.key = "half"] /\ g \in Guests
  BY DEF KeyHalfLost, UInv, GuestOK
<1>2. g' \in Guests
  BY <1>1 DEF Guests
<1>3. Beyond(g, g') /\ g'.stamp = g.stamp /\ g'.lib = g.lib /\ g'.services = g.services
  BY <1>1 DEF Guests, Beyond
<1>4. QED
  BY <1>2, <1>3, Harms DEF KeyHalfLost

LEMMA InterruptedKeeps ==
  ASSUME UInv
  PROVE  /\ GuestOK(Interrupted(g)) /\ Interrupted(g).stamp = g.stamp
         /\ Interrupted(g).lib = g.lib
<1> DEFINE t == [g EXCEPT !.services = "torn"]
<1>1. GuestOK(g)
  BY DEF UInv
<1>2. t \in Guests
  BY <1>1 DEF GuestOK, Guests, Drafts
<1>3. Beyond(g, t) /\ t.stamp = g.stamp /\ t.lib = g.lib
  BY <1>1 DEF GuestOK, Guests, Beyond
<1> HIDE DEF t
<1>4. GuestOK(t)
  BY <1>1, <1>2, <1>3, BeyondKeeps
<1>5. Interrupted(g) = t \/ Interrupted(g) = g
  BY DEF Interrupted, t
<1>6. QED
  BY <1>1, <1>3, <1>4, <1>5

LEMMA GoDownKeeps == UInv /\ GoDown => UInv'
<1> SUFFICES ASSUME UInv, GoDown PROVE UInv'
  OBVIOUS
<1>1. GuestOK(g)' /\ Under(g, g')
  BY BootedKeeps DEF GoDown, UInv
<1>2. StampVouches'
  BY <1>1 DEF Under, UInv, Stamped, StampVouches
<1>3. QED
  BY <1>1, <1>2, Rests DEF GoDown, UInv, Types

LEMMA PowerLossKeeps == UInv /\ PowerLoss => UInv'
<1> SUFFICES ASSUME UInv, PowerLoss PROVE UInv'
  OBVIOUS
<1> DEFINE s == Interrupted(g)
<1>1. GuestOK(s) /\ s.stamp = g.stamp /\ s.lib = g.lib
  BY InterruptedKeeps
<1>2. g' = Booted(s)
  BY DEF PowerLoss
<1> HIDE DEF s
<1>3. GuestOK(g)' /\ Under(s, g')
  BY <1>1, <1>2, BootedKeeps
<1>4. StampVouches'
  BY <1>1, <1>3 DEF Under, UInv, Stamped, StampVouches
<1>5. faults' \in 0..MaxFaults
  BY FaultsCount DEF PowerLoss, UInv
<1>6. QED
  BY <1>3, <1>4, <1>5, Rests DEF PowerLoss, UInv, Types

LEMMA AgentKilledKeeps == UInv /\ AgentKilled => UInv'
<1> SUFFICES ASSUME UInv, AgentKilled PROVE UInv'
  OBVIOUS
<1>1. GuestOK(g)' /\ g'.stamp = g.stamp /\ g'.lib = g.lib
  BY InterruptedKeeps DEF AgentKilled
<1>2. StampVouches'
  BY <1>1 DEF UInv, Stamped, StampVouches
<1>3. faults' \in 0..MaxFaults
  BY FaultsCount DEF AgentKilled, UInv
<1>4. w.stopping \in BOOLEAN
  BY JobFields DEF UInv, Types
<1>5. QED
  BY <1>1, <1>2, <1>3, <1>4, Rests DEF AgentKilled, UInv, Types

-----------------------------------------------------------------------------
(* The theorems. *)

LEMMA InitOK == Init => UInv
<1> SUFFICES ASSUME Init PROVE UInv
  OBVIOUS
<1>1. PICK kind \in Kinds, carried \in Carried :
        g \in {Fresh(kind, carried), Equipped(Fresh(kind, carried))}
  BY DEF Init
<1>2. /\ kind.builder \in BOOLEAN /\ kind.signs \in BOOLEAN
      /\ carried \in SUBSET {"binary", "unit"}
  BY UpdateAssumption
<1> DEFINE s == Fresh(kind, carried)
<1>3. s \in Guests
  BY <1>2 DEF Fresh, Guests, Loaded, Drafts, Versions, Modes
<1>4. /\ s.dkms = [v \in Versions |-> "absent"] /\ s.ko = None /\ s.image = None
      /\ s.loaded = None /\ s.device = FALSE /\ s.stamp = None
  BY DEF Fresh
<1> HIDE DEF s
<1>5. GuestOK(s)
  BY <1>3, <1>4, NoneIsNoVersion DEF GuestOK, HasOld, Versions
<1> DEFINE t == Equipped(s)
<1>6. t \in Guests
  BY <1>3 DEF Equipped, Guests, Loaded, Drafts, Versions
<1>7. /\ t.dkms = [s.dkms EXCEPT !["old"] = "installed"] /\ t.ko = "old"
      /\ t.image = (IF s.builder THEN "old" ELSE None) /\ t.loaded = "old"
      /\ t.device = TRUE /\ t.asked = TRUE /\ t.lib = t.stamp /\ t.builder = s.builder
  BY <1>3 DEF Equipped, Guests
<1> HIDE DEF t
<1>8. t.dkms["old"] = "installed" /\ t.dkms["new"] = "absent"
  BY <1>4, <1>7, NoneIsNoVersion DEF Versions
<1>9. GuestOK(t)
  BY <1>6, <1>7, <1>8, NoneIsNoVersion DEF GuestOK, Versions
<1>10. g \in {s, t}
  BY <1>1 DEF s, t
<1>11. GuestOK(g) /\ StampVouches
  BY <1>4, <1>5, <1>7, <1>9, <1>10 DEF StampVouches
<1>12. w \in Jobs /\ w.job = "idle" /\ w.todo = <<>> /\ w.outcome = None
  BY IdleIs DEF Init
<1>13. Resting /\ Types
  <2>1. 0 \in 0..MaxFaults /\ 0 \in 0..MaxBoots
    <3>1. MaxFaults \in Nat /\ MaxBoots \in Nat
      BY UpdateAssumption
    <3>2. QED
      BY <3>1
  <2>2. told = None /\ ready = FALSE /\ faults = 0 /\ boots = 0
    BY DEF Init
  <2>3. QED
    BY <1>12, <2>1, <2>2 DEF Resting, Types, Loaded
<1>14. QED
  BY <1>11, <1>12, <1>13, NothingLeft DEF UInv, Stamped, Due

LEMMA StepOK == UInv /\ [Next]_vars => UInv'
<1> SUFFICES ASSUME UInv, [Next]_vars PROVE UInv'
  OBVIOUS
<1>1. CASE Work
  BY <1>1, PayloadKeeps, DecideKeeps, DependenciesKeeps, KeyKeeps, CreateKeeps, ResignKeeps,
     SourceKeeps, AddKeeps, BuildKeeps, InstallKeeps, SignatureKeeps, PrepareKeeps,
     InitramfsKeeps, LoadKeeps, UnloadKeeps, ReplaceKeeps, InsertKeeps, DeviceKeeps,
     RendererKeeps, CopyKeeps, StampKeeps, IsolationKeeps, ServicesKeeps, WriteKeeps,
     StartKeeps, VerifyKeeps, RemoveKeeps, ReinsertKeeps, RefreshKeeps, JudgeKeeps,
     AnswerKeeps DEF Work
<1>2. CASE UNCHANGED vars
  <2>1. UNCHANGED <<g, w, told, ready, faults, boots>>
    BY <1>2 DEF vars
  <2>2. QED
    BY <2>1 DEF UInv, Types, Stamped, StampVouches, Resting, Preparing, Recipes, Equipping,
       Signs, Shows, Serves, Builds, Renders, Trying, Verified, RollingBack, Over, Remembers,
       Due
<1>3. QED
  BY <1>1, <1>2, ApplyKeeps, UpdateKeeps, StopKeeps, GoDownKeeps, PowerLossKeeps,
     AgentKilledKeeps, ServicesDieKeeps, KeyHalfLostKeeps DEF Next

LEMMA Invariance == Spec => []UInv
  BY InitOK, StepOK, PTL DEF Spec

LEMMA ReportsFollow == UInv => ReportsAreTrue
<1> SUFFICES ASSUME UInv PROVE ReportsAreTrue
  OBVIOUS
<1>1. TypeOK
  BY DEF UInv, Types, GuestOK, TypeOK
<1>2. KeepsItsPromise
  <2> SUFFICES ASSUME Done, w.job = "update"
               PROVE  UpdatePromise(w.before, OutcomeOf, g.loaded)
    BY DEF KeepsItsPromise
  <2>1. w.todo = <<>> /\ Left(w.todo) = {} /\ w \in Jobs /\ g.loaded \in Loaded
    BY NothingLeft DEF Done, UInv, Types, GuestOK, Guests
  <2>2. Verified \/ RollingBack \/ Over
    BY <2>1 DEF UInv, Resting, Preparing, Recipes, Equipping, Trying, Due
  <2>3. None \notin Outcomes /\ w.outcome \in Outcomes \cup {None}
    BY <2>1, JobFields, UpdateAssumption
  <2>4. CASE Verified
    BY <2>4 DEF Verified, OutcomeOf, UpdatePromise
  <2>5. CASE RollingBack
    BY <2>1, <2>3, <2>5 DEF RollingBack, OutcomeOf, UpdatePromise, Outcomes
  <2>6. CASE Over
    <3>1. OutcomeOf = w.outcome /\ w.outcome \in {"failed", "rolled_back", "reboot_required"}
      BY <2>3, <2>6 DEF Over, OutcomeOf, Outcomes
    <3>2. QED
      BY <2>1, <2>6, <3>1 DEF Over, UpdatePromise, Remembers
  <2>7. QED
    BY <2>2, <2>4, <2>5, <2>6
<1>3. GoodReportIsTrue
  <2> SUFFICES ASSUME Done, w.job = "apply", w.outcome = None,
                      \A s \in Steps : w.report[s] # "failed"
               PROVE  /\ g.device /\ g.loaded # None /\ g.asked
                      /\ w.signing => g.signed[g.ko]
                      /\ g.carried # {} => g.services = "new"
    BY DEF GoodReportIsTrue
  <2>1. Left(w.todo) = {} /\ w.report["signature"] # "failed"
    BY NothingLeft DEF Done, Steps
  <2>2. Recipes
    BY <2>1 DEF UInv, Resting, Preparing, Trying, Verified, RollingBack, Over, Due
  <2>3. \A y : ~Due(y)
    BY <2>1 DEF Due
  <2>4. QED
    BY <2>1, <2>2, <2>3 DEF UInv, GuestOK, Recipes, Signs, Shows, Serves
<1>4. RebootFinishes
  <2> SUFFICES ASSUME Done, OutcomeOf = "reboot_required"
               PROVE  Boots(g) = "new"
    BY DEF RebootFinishes
  <2>1. w.outcome = "reboot_required"
    BY DEF OutcomeOf
  <2>2. w.outcome # None
    BY <2>1, UpdateAssumption DEF Outcomes
  <2>3. Over
    BY <2>1, <2>2 DEF UInv, Resting, Preparing, Recipes, Equipping, Trying, Verified,
       RollingBack
  <2>4. QED
    BY <2>1, <2>3 DEF Over
<1>5. QED
  BY <1>1, <1>2, <1>3, <1>4 DEF ReportsAreTrue

\* What the guest tells the host is so, for any guest and through any number of
\* failed commands, kills, resets and reboots: an update's outcome says which
\* module runs, a recipe without a failed stage has the display, signed, with
\* its services, and a reboot finishes an update that asks for one
\* (display_kernel.rs apply, update, roll_back).
THEOREM ReportsHold == Spec => []ReportsAreTrue
  BY Invariance, ReportsFollow, PTL

LEMMA RecipeFollows == UInv => CleanRecipeEquips
<1> SUFFICES ASSUME UInv, Done, w.job = "apply", w.clean, w.built \/ g.ko = "new"
             PROVE  /\ "new" \in {g.loaded, Boots(g)} /\ g.device
                    /\ g.carried # {} => g.services = "new" /\ g.up = "new"
                    /\ g.aquamarine \in {None, g.lib}
  BY DEF CleanRecipeEquips
<1>1. Left(w.todo) = {}
  BY NothingLeft DEF Done
<1>2. Recipes
  BY <1>1 DEF UInv, Resting, Preparing, Trying, Verified, RollingBack, Over, Due
<1>3. \A y : ~Due(y)
  BY <1>1 DEF Due
<1>4. g.device /\ g.asked /\ g.loaded # None /\ (g.builder \/ g.image = None)
  BY <1>2, <1>3 DEF Recipes, Shows, UInv, GuestOK
<1>5. "new" \in {g.loaded, Boots(g)}
  <2>1. CASE w.built
    <3>1. g.ko = "new" /\ (~g.builder \/ g.image = "new")
      BY <1>2, <1>3, <2>1 DEF Recipes, Builds
    <3>2. Boots(g) = "new"
      BY <1>4, <3>1, NoneIsNoVersion DEF Boots
    <3>3. QED
      BY <3>2
  <2>2. CASE ~w.built
    BY <1>2, <1>3, <1>4, <2>2 DEF Recipes, Builds
  <2>3. QED
    BY <2>1, <2>2
<1>6. QED
  BY <1>2, <1>3, <1>4, <1>5 DEF Recipes, Serves, Renders

\* A recipe none of whose stages fails puts the payload in place, whatever the
\* recipes, updates, kills and resets before it left (display_kernel.rs
\* run_stages, needs_build).
THEOREM CleanRecipesEquip == Spec => []CleanRecipeEquips
  BY Invariance, RecipeFollows, PTL

\* The stamp of the staged aquamarine vouches for its files at any time: it is
\* removed before the first of them is touched (display_aquamarine.rs install).
THEOREM StampsVouch == Spec => []StampVouches
<1>1. UInv => StampVouches
  BY DEF UInv, Stamped
<1>2. QED
  BY <1>1, Invariance, PTL
=============================================================================
