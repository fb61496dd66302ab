------------------------ MODULE StartRegistryProofs ------------------------
(***************************************************************************)
(* What the start registry guarantees for any finite set of VM names and   *)
(* any number of starts: its types; that no product of a start is lost     *)
(* while the application is in use; that the products of a VM are handed   *)
(* over once and in the order of its starts; that leaving loses the        *)
(* products of late threads alone; and that the registry in use implements *)
(* Handover.                                                               *)
(*                                                                         *)
(* None of these is inductive by itself.  A start accepted for a name      *)
(* whose outcome cell is still full would renumber that product, so        *)
(* EntriesInv says which entries can have a full cell; and an order says   *)
(* nothing of what is still to come, so TicketsInv relates what has been   *)
(* handed over to the numbers the entries hold.                            *)
(***************************************************************************)
EXTENDS StartRegistry, TLAPS, FiniteSetTheorems

\* A full outcome cell belongs to an entry whose start is over, because the
\* worker stores the outcome and then the flag and start refuses a listed name;
\* every entry carries the number of its start; and join_all, which alone waits,
\* waits for one thread at a time.
EntriesInv ==
  /\ \A n \in Names :
       /\ n \in stored => starts[n] \in {"stored", "ended"}
       /\ starts[n] # "none" => ticket[n] # 0
  /\ phase = "open" => waiting = {}
  /\ \A m, n \in waiting : m = n

Inv == TypeOK /\ EntriesInv /\ NothingLost

\* Every number given out so far is at most `accepted`, and what an entry may
\* still hand over is newer than all its name has handed over.  join_all is past
\* the entry it waits for.
TicketsInv ==
  /\ \A p \in Range(taken \o started) : p[2] <= accepted
  /\ \A n \in Names :
       /\ ticket[n] <= accepted
       /\ starts[n] # "none" /\ n \notin waiting =>
            \A p \in Range(taken \o started) : p[1] = n => p[2] < ticket[n]

OrderInv == TicketsInv /\ HandedOverInOrder
------------------------------------------------------------------------------
(* Sequences. *)

\* The range of a concatenation, whose elements are those of its parts.
LEMMA ConcatRange ==
  ASSUME NEW S, NEW s \in Seq(S), NEW t \in Seq(S)
  PROVE  s \o t \in Seq(S) /\ Range(s \o t) = Range(s) \cup Range(t)
<1>1. s \o t \in Seq(S)
  OBVIOUS
<1>2. ASSUME NEW x \in Range(s \o t)
      PROVE  x \in Range(s) \cup Range(t)
  <2>1. PICK i \in DOMAIN (s \o t) : x = (s \o t)[i]
    BY DEF Range
  <2>2. CASE i <= Len(s)
    BY <2>1, <2>2 DEF Range
  <2>3. CASE i > Len(s)
    <3>1. i - Len(s) \in DOMAIN t /\ x = t[i - Len(s)]
      BY <2>1, <2>3
    <3> QED  BY <3>1 DEF Range
  <2> QED  BY <2>1, <2>2, <2>3
<1>3. ASSUME NEW x \in Range(s)
      PROVE  x \in Range(s \o t)
  <2>1. PICK i \in DOMAIN s : x = s[i]
    BY <1>3 DEF Range
  <2>2. i \in DOMAIN (s \o t) /\ x = (s \o t)[i]
    BY <2>1
  <2> QED  BY <2>2 DEF Range
<1>4. ASSUME NEW x \in Range(t)
      PROVE  x \in Range(s \o t)
  <2>1. PICK i \in DOMAIN t : x = t[i]
    BY <1>4 DEF Range
  <2>2. Len(s) + i \in DOMAIN (s \o t) /\ x = (s \o t)[Len(s) + i]
    BY <2>1
  <2> QED  BY <2>2 DEF Range
<1> QED  BY <1>1, <1>2, <1>3, <1>4

\* The range of a sequence that got one more element.
LEMMA AppendRange ==
  ASSUME NEW S, NEW s \in Seq(S), NEW x \in S
  PROVE  Append(s, x) \in Seq(S) /\ Range(Append(s, x)) = Range(s) \cup {x}
<1>1. Append(s, x) = s \o <<x>>
  OBVIOUS
<1>2. <<x>> \in Seq(S) /\ Range(<<x>>) = {x}
  BY DEF Range
<1>3. s \o <<x>> \in Seq(S) /\ Range(s \o <<x>>) = Range(s) \cup Range(<<x>>)
  BY <1>2, ConcatRange
<1> QED  BY <1>1, <1>2, <1>3

\* An order of a finite set is a sequence of exactly its elements.
LEMMA OrdersAreSequences ==
  ASSUME NEW S, IsFiniteSet(S), NEW order \in Orders(S)
  PROVE  order \in Seq(S) /\ Range(order) = S
<1>1. Cardinality(S) \in Nat
  BY FS_CardinalityType
<1>2. order \in [1..Cardinality(S) -> S] /\ Range(order) = S
  BY DEF Orders
<1>3. [1..Cardinality(S) -> S] \subseteq Seq(S)
  BY <1>1
<1> QED  BY <1>2, <1>3

------------------------------------------------------------------------------
(* The registry. *)

\* What an entry holds, if it holds anything, is a product.
LEMMA ProductType ==
  ASSUME TypeOK, EntriesInv, NEW n \in Names, starts[n] # "none"
  PROVE  Product(n) \in Products
BY MaxStartsAssumption DEF TypeOK, EntriesInv, Product, Products

\* What a reap collects is a finite set of products.
LEMMA ReapableType ==
  ASSUME TypeOK, EntriesInv
  PROVE  IsFiniteSet(Reapable) /\ Reapable \subseteq Products
<1>1. Reapable \subseteq Products
  <2> SUFFICES ASSUME NEW n \in Finished \cap stored
               PROVE  Product(n) \in Products
    BY DEF Reapable
  <2>1. n \in Names /\ starts[n] # "none"
    BY DEF Finished
  <2> QED  BY <2>1, ProductType
<1>2. IsFiniteSet(Finished \cap stored)
  <2>1. Finished \cap stored \subseteq Names
    BY DEF Finished
  <2> QED  BY <2>1, NamesAssumption, FS_Subset
<1>3. [n \in Finished \cap stored |-> Product(n)]
        \in Surjection(Finished \cap stored, Reapable)
  BY DEF Surjection, Reapable
<1>4. IsFiniteSet(Reapable)
  BY <1>2, <1>3, FS_Surjection
<1> QED  BY <1>1, <1>4

\* A reap empties the cells it collects from, and the cells it leaves keep what
\* they had.
LEMMA ReapSplits ==
  ASSUME TypeOK, EntriesInv, ReapEntries, UNCHANGED <<phase, waiting>>
  PROVE  /\ starts' \in [Names -> {"none", "running", "stored", "ended"}]
         /\ ticket' \in [Names -> 0..MaxStarts]
         /\ stored' \subseteq Names
         /\ EntriesInv'
         /\ {Product(n) : n \in stored} =
              {Product(n) : n \in stored}' \cup Reapable
<1>1. /\ starts' \in [Names -> {"none", "running", "stored", "ended"}]
      /\ ticket' \in [Names -> 0..MaxStarts]
      /\ stored' \subseteq Names
  BY MaxStartsAssumption DEF TypeOK, ReapEntries
<1>2. EntriesInv'
  BY DEF TypeOK, EntriesInv, ReapEntries
<1>3. \A n \in stored' : Product(n)' = Product(n)
  BY DEF TypeOK, ReapEntries, Product
<1>4. stored = stored' \cup (Finished \cap stored)
  BY DEF ReapEntries
<1> QED  BY <1>1, <1>2, <1>3, <1>4 DEF Reapable

\* The initial state.
LEMMA InitInv == Init => Inv
<1> SUFFICES ASSUME Init PROVE Inv
  OBVIOUS
<1>1. TypeOK
  BY MaxStartsAssumption DEF Init, TypeOK
<1>2. EntriesInv
  BY DEF Init, EntriesInv
<1>3. NothingLost
  BY DEF Init, NothingLost, Range
<1> QED  BY <1>1, <1>2, <1>3 DEF Inv

\* The two ways a finished start leaves its entry.
LEMMA ContainsInv == Inv /\ Contains => Inv'
<1> SUFFICES ASSUME Inv, Contains PROVE Inv'
  OBVIOUS
<1> USE DEF Inv
<1>1. PICK order \in Orders(Reapable) : started' = started \o order
  BY DEF Contains
<1>2. order \in Seq(Reapable) /\ Range(order) = Reapable
  BY ReapableType, OrdersAreSequences
<1>3. order \in Seq(Products) /\ started \in Seq(Products)
  BY <1>2, ReapableType DEF TypeOK
<1>4. started' \in Seq(Products) /\ Range(started') = Range(started) \cup Reapable
  BY <1>1, <1>2, <1>3, ConcatRange
<1>5. TypeOK' /\ EntriesInv'
  BY <1>4, ReapSplits DEF TypeOK, Contains, Products
<1>6. NothingLost'
  <2>1. produced = {Product(n) : n \in stored} \cup Range(started) \cup Range(taken)
    BY DEF NothingLost, Contains
  <2>2. {Product(n) : n \in stored} = {Product(n) : n \in stored}' \cup Reapable
    BY ReapSplits DEF Contains
  <2>3. produced' = produced /\ Range(taken)' = Range(taken)
    BY DEF Contains, Range
  <2>4. Range(started)' = Range(started) \cup Reapable
    BY <1>4
  <2> QED  BY <2>1, <2>2, <2>3, <2>4 DEF NothingLost
<1> QED  BY <1>5, <1>6

\* take_started, which also empties the queue.
LEMMA TakeStartedInv == Inv /\ TakeStarted => Inv'
<1> SUFFICES ASSUME Inv, TakeStarted PROVE Inv'
  OBVIOUS
<1> USE DEF Inv
<1>1. PICK order \in Orders(Reapable) : taken' = taken \o started \o order
  BY DEF TakeStarted
<1>2. order \in Seq(Reapable) /\ Range(order) = Reapable
  BY ReapableType, OrdersAreSequences
<1>3. order \in Seq(Products) /\ started \in Seq(Products) /\ taken \in Seq(Products)
  BY <1>2, ReapableType DEF TypeOK
<1>4. /\ taken \o started \in Seq(Products)
      /\ Range(taken \o started) = Range(taken) \cup Range(started)
  BY <1>3, ConcatRange
<1>5. /\ taken' \in Seq(Products)
      /\ Range(taken') = Range(taken) \cup Range(started) \cup Reapable
  <2> DEFINE held == taken \o started
  <2>1. held \in Seq(Products) /\ taken' = held \o order
    BY <1>1, <1>4
  <2>2. held \o order \in Seq(Products) /\ Range(held \o order) = Range(held) \cup Range(order)
    <3> HIDE DEF held
    <3> QED  BY <1>3, <2>1, ConcatRange
  <2> QED  BY <1>2, <1>4, <2>1, <2>2
<1>6. started' \in Seq(Products) /\ Range(started') = {}
  BY DEF TakeStarted, Range
<1>7. TypeOK' /\ EntriesInv'
  BY <1>5, <1>6, ReapSplits DEF TypeOK, TakeStarted, Products
<1>8. NothingLost'
  <2>1. produced = {Product(n) : n \in stored} \cup Range(started) \cup Range(taken)
    BY DEF NothingLost, TakeStarted
  <2>2. {Product(n) : n \in stored} = {Product(n) : n \in stored}' \cup Reapable
    BY ReapSplits DEF TakeStarted
  <2>3. produced' = produced
    BY DEF TakeStarted
  <2>4. Range(taken)' = Range(taken) \cup Range(started) \cup Reapable
    BY <1>5
  <2>5. Range(started)' = {}
    BY <1>6
  <2> QED  BY <2>1, <2>2, <2>3, <2>4, <2>5 DEF NothingLost
<1> QED  BY <1>7, <1>8

\* A worker's product goes from its thread to its outcome cell.
LEMMA WorkerInv == ASSUME NEW n \in Names PROVE Inv /\ Worker(n) => Inv'
<1> SUFFICES ASSUME Inv, Worker(n) PROVE Inv'
  OBVIOUS
<1> USE DEF Inv
<1>1. CASE WorkerStore(n)
  <2>1. Product(n) \in Products
    BY <1>1, ProductType DEF WorkerStore
  <2>2. TypeOK' /\ EntriesInv'
    BY <1>1, <2>1 DEF TypeOK, EntriesInv, WorkerStore, Products
  <2>3. \A k \in Names : Product(k)' = Product(k)
    BY <1>1 DEF WorkerStore, Product
  <2>4. NothingLost'
    BY <1>1, <2>3 DEF NothingLost, WorkerStore, TypeOK
  <2> QED  BY <2>2, <2>4
<1>2. CASE WorkerFinish(n) \/ WorkerFail(n)
  <2>1. TypeOK' /\ EntriesInv'
    BY <1>2 DEF TypeOK, EntriesInv, WorkerFinish, WorkerFail, Products
  <2>2. \A k \in Names : Product(k)' = Product(k)
    BY <1>2 DEF WorkerFinish, WorkerFail, Product
  <2>3. NothingLost'
    BY <1>2, <2>2 DEF NothingLost, WorkerFinish, WorkerFail, TypeOK
  <2> QED  BY <2>1, <2>3
<1> QED  BY <1>1, <1>2 DEF Worker

\* A start is listed for a name whose cell is empty.
LEMMA StartInv == ASSUME NEW n \in Names PROVE Inv /\ Start(n) => Inv'
<1> SUFFICES ASSUME Inv, Start(n) PROVE Inv'
  OBVIOUS
<1> USE DEF Inv
<1>1. TypeOK' /\ EntriesInv'
  BY MaxStartsAssumption DEF TypeOK, EntriesInv, Start, Products
<1>2. \A k \in stored : Product(k)' = Product(k)
  BY DEF TypeOK, EntriesInv, Start, Product
<1>3. NothingLost'
  BY <1>2 DEF NothingLost, Start
<1> QED  BY <1>1, <1>3

\* Leaving: nothing is promised of the products any more.
LEMMA LeaveInv == Inv /\ Leave => Inv'
<1> SUFFICES ASSUME Inv, Leave PROVE Inv'
  OBVIOUS
<1> USE DEF Inv
<1>1. CASE JoinAll \/ Joined
  BY <1>1 DEF JoinAll, Joined, TypeOK, EntriesInv, NothingLost, Products
<1>2. ASSUME NEW n \in Names, DrainEntry(n) PROVE Inv'
  <2>1. Product(n) \in Products /\ Append(started, Product(n)) \in Seq(Products)
    BY <1>2, ProductType DEF DrainEntry, TypeOK
  <2> QED  BY <1>2, <2>1 DEF DrainEntry, TypeOK, EntriesInv, NothingLost, Products
<1>3. ASSUME NEW n \in Names, JoinEntry(n) PROVE Inv'
  BY <1>3, MaxStartsAssumption DEF JoinEntry, TypeOK, EntriesInv, NothingLost, Products
<1> QED  BY <1>1, <1>2, <1>3 DEF Leave

\* Every step keeps the types, the entries and the products.
LEMMA NextInv == Inv /\ [Next]_vars => Inv'
<1> SUFFICES ASSUME Inv, [Next]_vars PROVE Inv'
  OBVIOUS
<1>1. CASE UNCHANGED vars
  BY <1>1 DEF Inv, TypeOK, EntriesInv, NothingLost, Product, Products, Range, vars
<1>2. CASE Next
  BY <1>2, ContainsInv, TakeStartedInv, StartInv, WorkerInv, LeaveInv
     DEF Next, Use
<1> QED  BY <1>1, <1>2
------------------------------------------------------------------------------
(* The order of the products. *)

\* An older sequence followed by a newer one.
LEMMA ConcatInOrder ==
  ASSUME NEW s \in Seq(Products), NEW t \in Seq(Products), InOrder(s), InOrder(t),
         \A x \in Range(s), y \in Range(t) : x[1] = y[1] => x[2] < y[2]
  PROVE  InOrder(s \o t)
<1> SUFFICES ASSUME NEW i \in DOMAIN (s \o t), NEW j \in DOMAIN (s \o t),
                    i < j, (s \o t)[i][1] = (s \o t)[j][1]
             PROVE  (s \o t)[i][2] < (s \o t)[j][2]
  BY DEF InOrder
<1>1. CASE j <= Len(s)
  <2>1. i \in DOMAIN s /\ j \in DOMAIN s /\ (s \o t)[i] = s[i] /\ (s \o t)[j] = s[j]
    BY <1>1
  <2> QED  BY <2>1 DEF InOrder
<1>2. CASE i > Len(s)
  <2>1. /\ i - Len(s) \in DOMAIN t /\ (s \o t)[i] = t[i - Len(s)]
        /\ j - Len(s) \in DOMAIN t /\ (s \o t)[j] = t[j - Len(s)]
        /\ i - Len(s) < j - Len(s)
    BY <1>2
  <2> QED  BY <2>1 DEF InOrder
<1>3. CASE i <= Len(s) /\ j > Len(s)
  <2>1. /\ i \in DOMAIN s /\ (s \o t)[i] = s[i]
        /\ j - Len(s) \in DOMAIN t /\ (s \o t)[j] = t[j - Len(s)]
    BY <1>3
  <2>2. (s \o t)[i] \in Range(s) /\ (s \o t)[j] \in Range(t)
    BY <2>1 DEF Range
  <2> QED  BY <2>2
<1> QED  BY <1>1, <1>2, <1>3

\* A reap collects each product once, and one of each name.
LEMMA ReapableInOrder ==
  ASSUME TypeOK, EntriesInv, NEW order \in Orders(Reapable)
  PROVE  InOrder(order)
<1> DEFINE N == Cardinality(Reapable)
<1>1. IsFiniteSet(Reapable) /\ N \in Nat
  BY ReapableType, FS_CardinalityType
<1>2. order \in [1..N -> Reapable] /\ Range(order) = Reapable
  BY DEF Orders
<1>3. order \in Surjection(1..N, Reapable)
  BY <1>2 DEF Surjection, Range
<1>4. IsFiniteSet(1..N) /\ Cardinality(1..N) = N
  BY <1>1, FS_Interval
<1>5. order \in Injection(1..N, Reapable)
  BY <1>1, <1>3, <1>4, FS_SurjSameCardinalityImpliesInj
<1>6. \A i, j \in DOMAIN order : order[i][1] = order[j][1] => order[i] = order[j]
  BY <1>2 DEF Reapable, Product
<1> QED  BY <1>1, <1>2, <1>5, <1>6 DEF InOrder, Injection, IsInjective

\* What a reap adds to what was handed over keeps the order, and is older than
\* what the entries it leaves may still hand over.
LEMMA ReapInOrder ==
  ASSUME Inv, OrderInv, phase = "open", ReapEntries,
         NEW order \in Orders(Reapable),
         taken' \o started' = taken \o started \o order,
         UNCHANGED <<accepted, waiting>>
  PROVE  OrderInv'
<1> DEFINE handed == taken \o started
<1>1. /\ order \in Seq(Products) /\ Range(order) = Reapable /\ InOrder(order)
      /\ handed \in Seq(Products) /\ InOrder(handed)
  <2>1. order \in Seq(Reapable) /\ Range(order) = Reapable
    BY ReapableType, OrdersAreSequences DEF Inv
  <2>2. order \in Seq(Products)
    BY <2>1, ReapableType DEF Inv
  <2>3. handed \in Seq(Products)
    BY DEF Inv, TypeOK
  <2> QED
    BY <2>1, <2>2, <2>3, ReapableInOrder DEF Inv, OrderInv, HandedOverInOrder
<1>2. \A p \in Reapable : /\ p[1] \in Finished /\ p[2] = ticket[p[1]]
                          /\ p[1] \in Names
  BY DEF Reapable, Product, Finished
<1>3. waiting = {}
  BY DEF Inv, EntriesInv
<1>4. \A x \in Range(handed), y \in Reapable : x[1] = y[1] => x[2] < y[2]
  BY <1>2, <1>3 DEF OrderInv, TicketsInv, Finished
<1>5. taken' \o started' = handed \o order
  OBVIOUS
<1> HIDE DEF handed
<1>6. InOrder(handed \o order) /\ Range(handed \o order) = Range(handed) \cup Reapable
  BY <1>1, <1>4, ConcatInOrder, ConcatRange
<1>7. \A p \in Range(handed) : p[2] <= accepted
  BY DEF handed, OrderInv, TicketsInv
<1>8. \A n \in Names : starts'[n] # "none" =>
        /\ n \notin Finished
        /\ ticket'[n] = ticket[n]
        /\ \A p \in Range(handed) : p[1] = n => p[2] < ticket[n]
  BY <1>3 DEF handed, OrderInv, TicketsInv, ReapEntries, Inv, TypeOK
<1>9. \A n \in Names : ticket[n] <= accepted /\ ticket'[n] <= accepted
  BY DEF OrderInv, TicketsInv, ReapEntries, Inv, TypeOK
<1>10. TicketsInv'
  BY <1>2, <1>5, <1>6, <1>7, <1>8, <1>9 DEF TicketsInv
<1> QED  BY <1>5, <1>6, <1>10 DEF OrderInv, HandedOverInOrder

\* The initial state, and every step.
LEMMA InitOrder == Init => OrderInv
BY DEF Init, OrderInv, TicketsInv, HandedOverInOrder, InOrder, Range

\* Every step hands over in order and keeps the tickets that say so.
LEMMA NextOrder == Inv /\ OrderInv /\ [Next]_vars => OrderInv'
<1> SUFFICES ASSUME Inv, OrderInv, [Next]_vars PROVE OrderInv'
  OBVIOUS
<1>1. CASE UNCHANGED vars
  BY <1>1 DEF OrderInv, TicketsInv, HandedOverInOrder, vars
<1>2. CASE Contains
  <2>1. PICK order \in Orders(Reapable) : started' = started \o order
    BY <1>2 DEF Contains
  <2>2. order \in Seq(Products)
    BY ReapableType, OrdersAreSequences DEF Inv
  <2>3. taken' \o started' = taken \o started \o order
    BY <1>2, <2>1, <2>2 DEF Contains, Inv, TypeOK
  <2> QED  BY <1>2, <2>3, ReapInOrder DEF Contains
<1>3. CASE TakeStarted
  <2>1. PICK order \in Orders(Reapable) : taken' = taken \o started \o order
    BY <1>3 DEF TakeStarted
  <2>2. order \in Seq(Products)
    BY ReapableType, OrdersAreSequences DEF Inv
  <2>3. taken' \o started' = taken \o started \o order
    BY <1>3, <2>1, <2>2 DEF TakeStarted, Inv, TypeOK
  <2> QED  BY <1>3, <2>3, ReapInOrder DEF TakeStarted
<1>4. ASSUME NEW n \in Names, Start(n) PROVE OrderInv'
  <2>1. \A p \in Range(taken \o started) : p[2] \in Nat
    <3>1. taken \o started \in Seq(Products)
      BY DEF Inv, TypeOK
    <3> HIDE DEF Inv
    <3>2. Range(taken \o started) \subseteq Products
      BY <3>1 DEF Range
    <3> QED  BY <3>2, MaxStartsAssumption DEF Products
  <2> QED
    BY <1>4, <2>1, MaxStartsAssumption
       DEF Start, OrderInv, TicketsInv, HandedOverInOrder, Inv, TypeOK
<1>5. ASSUME NEW n \in Names, Worker(n) PROVE OrderInv'
  BY <1>5 DEF Worker, WorkerStore, WorkerFinish, WorkerFail, OrderInv, TicketsInv,
              HandedOverInOrder, Inv, TypeOK
<1>6. CASE JoinAll \/ Joined
  BY <1>6 DEF JoinAll, Joined, OrderInv, TicketsInv, HandedOverInOrder
<1>7. ASSUME NEW n \in Names, DrainEntry(n) PROVE OrderInv'
  <2> DEFINE handed == taken \o started
  <2>1. Product(n) \in Products
    BY <1>7, ProductType DEF DrainEntry, Inv
  <2>2. handed \in Seq(Products) /\ InOrder(handed)
    BY DEF Inv, TypeOK, OrderInv, HandedOverInOrder
  <2>3. \A p \in Range(handed) : p[1] = n => p[2] < ticket[n]
    BY <1>7 DEF DrainEntry, OrderInv, TicketsInv
  <2>4. CASE n \in stored
    <3> DEFINE last == <<Product(n)>>
    <3>1. taken' \o started' = handed \o last
      BY <1>7, <2>1, <2>4 DEF DrainEntry, Inv, TypeOK
    <3>2. last \in Seq(Products) /\ InOrder(last) /\ Range(last) = {Product(n)}
      BY <2>1 DEF InOrder, Range
    <3>3. Product(n)[1] = n /\ Product(n)[2] = ticket[n]
      BY DEF Product
    <3> HIDE DEF handed, last
    <3>4. InOrder(handed \o last) /\ Range(handed \o last) = Range(handed) \cup {Product(n)}
      <4>1. \A x \in Range(handed), y \in Range(last) : x[1] = y[1] => x[2] < y[2]
        BY <2>3, <3>2, <3>3
      <4> QED  BY <2>2, <3>2, <4>1, ConcatInOrder, ConcatRange
    <3>5. /\ \A p \in Range(handed) : p[2] <= accepted
          /\ \A m \in Names : ticket[m] <= accepted
          /\ \A m \in Names : starts[m] # "none" =>
               \A p \in Range(handed) : p[1] = m => p[2] < ticket[m]
      BY <1>7 DEF DrainEntry, handed, OrderInv, TicketsInv
    <3>6. TicketsInv'
      BY <1>7, <3>1, <3>3, <3>4, <3>5 DEF DrainEntry, TicketsInv
    <3> QED  BY <3>1, <3>4, <3>6 DEF OrderInv, HandedOverInOrder
  <2>5. CASE n \notin stored
    BY <1>7, <2>5 DEF DrainEntry, OrderInv, TicketsInv, HandedOverInOrder
  <2> QED  BY <2>4, <2>5
<1>8. ASSUME NEW n \in Names, JoinEntry(n) PROVE OrderInv'
  <2>1. waiting = {n}
    BY <1>8 DEF JoinEntry, Inv, TypeOK, EntriesInv
  <2> QED
    BY <1>8, <2>1 DEF JoinEntry, OrderInv, TicketsInv, HandedOverInOrder, Inv, TypeOK
<1> QED  BY <1>1, <1>2, <1>3, <1>4, <1>5, <1>6, <1>7, <1>8 DEF Next, Use, Leave
------------------------------------------------------------------------------
(* The theorems. *)

\* The registry keeps its types: every entry in one of its four states, every
\* product handed over numbered by an accepted start.
THEOREM TypeCorrect == Spec => []TypeOK
<1>1. Inv => TypeOK
  BY DEF Inv
<1> QED  BY <1>1, InitInv, NextInv, PTL DEF Spec

\* While the application is in use no start's product is lost on its way from
\* the worker to the refresh that takes it over.
THEOREM ProductsSurvive == Spec => []NothingLost
<1>1. Inv => NothingLost
  BY DEF Inv
<1> QED  BY <1>1, InitInv, NextInv, PTL DEF Spec

\* Products are handed over once, and those of one VM in the order of its starts.
THEOREM ProductsInOrder == Spec => []HandedOverInOrder
<1>1. OrderInv => HandedOverInOrder
  BY DEF OrderInv
<1> QED  BY <1>1, InitInv, NextInv, InitOrder, NextOrder, PTL DEF Spec

------------------------------------------------------------------------------
(* Leaving. *)

\* What an entry's start has produced is in its cell until join_all has been
\* there.
CellsInv ==
  \A n \in Names :
    starts[n] # "none" /\ n \notin waiting /\ Product(n) \in produced => n \in stored

\* While the application is in use this follows from the tickets.
LEMMA CellsInUse ==
  ASSUME Inv, OrderInv, phase = "open"
  PROVE  CellsInv
<1> SUFFICES ASSUME NEW n \in Names, starts[n] # "none", Product(n) \in produced
             PROVE  n \in stored
  BY DEF CellsInv
<1>1. Product(n) \in {Product(m) : m \in stored} \cup Range(started) \cup Range(taken)
  BY DEF Inv, NothingLost
<1>2. Product(n)[1] = n /\ Product(n)[2] = ticket[n] /\ ticket[n] \in Nat
  BY MaxStartsAssumption DEF Product, Inv, TypeOK
<1>3. Product(n) \notin Range(started) \cup Range(taken)
  <2>1. Range(taken \o started) = Range(taken) \cup Range(started)
    BY ConcatRange DEF Inv, TypeOK
  <2>2. \A p \in Range(taken) \cup Range(started) : p[1] = n => p[2] < ticket[n]
    BY <2>1 DEF OrderInv, TicketsInv, Inv, EntriesInv
  <2> QED  BY <1>2, <2>2
<1>4. PICK m \in stored : Product(n) = Product(m)
  BY <1>1, <1>3
<1> QED  BY <1>4 DEF Product

LEMMA NextCells == Inv /\ OrderInv /\ CellsInv /\ [Next]_vars /\ Inv' /\ OrderInv' => CellsInv'
<1> SUFFICES ASSUME Inv, OrderInv, CellsInv, [Next]_vars, Inv', OrderInv' PROVE CellsInv'
  OBVIOUS
<1>1. CASE phase' = "open"
  <2>1. (Inv /\ OrderInv /\ phase = "open" => CellsInv)'
    BY CellsInUse, PTL
  <2> QED  BY <1>1, <2>1
<1>2. CASE UNCHANGED <<starts, ticket, stored, produced, waiting>>
  BY <1>2 DEF CellsInv, Product
<1>3. ASSUME NEW n \in Names, Worker(n) PROVE CellsInv'
  <2>1. \A k \in Names : Product(k)' = Product(k)
    BY <1>3 DEF Worker, WorkerStore, WorkerFinish, WorkerFail, Product
  <2>2. CASE WorkerStore(n)
    <3>1. \A k \in Names : Product(k) = Product(n) => k = n
      BY DEF Product
    <3> QED  BY <2>1, <2>2, <3>1 DEF WorkerStore, CellsInv, Inv, TypeOK
  <2>3. CASE WorkerFinish(n) \/ WorkerFail(n)
    BY <2>1, <2>3 DEF WorkerFinish, WorkerFail, CellsInv, Inv, TypeOK
  <2> QED  BY <1>3, <2>2, <2>3 DEF Worker
<1>4. ASSUME NEW n \in Names, DrainEntry(n) PROVE CellsInv'
  BY <1>4 DEF DrainEntry, CellsInv, Product
<1>5. ASSUME NEW n \in Names, JoinEntry(n) PROVE CellsInv'
  <2>1. waiting = {n}
    BY <1>5 DEF JoinEntry, Inv, TypeOK, EntriesInv
  <2> QED  BY <1>5, <2>1 DEF JoinEntry, CellsInv, Product, Inv, TypeOK
<1> QED
  BY <1>1, <1>2, <1>3, <1>4, <1>5
     DEF Next, Use, Leave, Contains, TakeStarted, Start, JoinAll, Joined, vars

\* No step loses a product but the join of the thread it waited for.
LEMMA NextHolds ==
  ASSUME Inv, [Next]_vars, Inv'
  PROVE  \A p \in Held : p \in Held' \/ \E n \in waiting : p = Product(n)
<1>1. CASE phase = "open" /\ phase' = "open"
  <2>1. produced \subseteq produced'
    BY DEF Next, Use, Leave, Worker, Contains, TakeStarted, Start, WorkerStore, WorkerFinish,
           WorkerFail, JoinAll, DrainEntry, JoinEntry, Joined, vars
  <2> QED  BY <1>1, <2>1 DEF Held, Inv, NothingLost
<1>2. CASE UNCHANGED <<ticket, stored, started, taken>>
  BY <1>2 DEF Held, Product, Range
<1>3. ASSUME NEW n \in Names, WorkerStore(n) PROVE Held \subseteq Held'
  BY <1>3 DEF WorkerStore, Held, Product, Range
<1>4. ASSUME NEW n \in Names, DrainEntry(n) PROVE Held \subseteq Held'
  <2>1. \A k \in Names : Product(k)' = Product(k)
    BY <1>4 DEF DrainEntry, Product
  <2>2. CASE n \in stored
    <3>1. Product(n) \in Products
      BY <1>4, ProductType DEF DrainEntry, Inv
    <3>2. Range(started') = Range(started) \cup {Product(n)}
      BY <1>4, <2>2, <3>1, AppendRange DEF DrainEntry, Inv, TypeOK
    <3> QED  BY <1>4, <2>1, <3>2 DEF DrainEntry, Held, Inv, TypeOK
  <2>3. CASE n \notin stored
    BY <1>4, <2>1, <2>3 DEF DrainEntry, Held, Inv, TypeOK
  <2> QED  BY <2>2, <2>3
<1>5. ASSUME NEW n \in Names, JoinEntry(n)
      PROVE  \A p \in Held : p \in Held' \/ \E k \in waiting : p = Product(k)
  <2>1. \A k \in stored \ {n} : Product(k)' = Product(k)
    BY <1>5 DEF JoinEntry, Product, Inv, TypeOK
  <2> QED  BY <1>5, <2>1 DEF JoinEntry, Held
<1> QED
  BY <1>1, <1>2, <1>3, <1>4, <1>5
     DEF Next, Use, Leave, Worker, Contains, TakeStarted, Start, WorkerFinish, WorkerFail,
         JoinAll, Joined, vars

\* join_all has collected from an entry before it waits for its thread.
LEMMA NextCollects ==
  ASSUME Inv, CellsInv, [Next]_vars, NEW n \in waiting' \ waiting, Product(n) \in produced
  PROVE  Product(n) \in Range(started')
<1>1. PICK m \in Names : DrainEntry(m)
  BY DEF Next, Use, Leave, Worker, Contains, TakeStarted, Start, WorkerStore, WorkerFinish,
         WorkerFail, JoinAll, JoinEntry, Joined, vars
<1>2. m = n /\ starts[n] # "none"
  BY <1>1 DEF DrainEntry
<1>3. n \in stored /\ Product(n) \in Products
  BY <1>2, ProductType DEF CellsInv, Inv
<1>4. started' = Append(started, Product(n)) /\ started \in Seq(Products)
  BY <1>1, <1>2, <1>3 DEF DrainEntry, Inv, TypeOK
<1> QED  BY <1>3, <1>4, AppendRange

\* Leaving loses at most the product of a thread it waits for, stored after its
\* entry was collected from; nothing else is ever lost (start_registry.rs
\* join_all).
THEOREM LeavingLosesTheLate == Spec => OnlyLateIsLost
<1>1. Init => CellsInv
  BY DEF Init, CellsInv
<1>2. Inv /\ CellsInv /\ [Next]_vars /\ Inv' =>
        [/\ \A p \in Held : p \in Held' \/ \E n \in waiting : p = Product(n)
         /\ \A n \in waiting' \ waiting :
              Product(n) \in produced => Product(n) \in Range(started')]_vars
  BY NextHolds, NextCollects
<1> QED
  BY <1>1, <1>2, InitInv, NextInv, InitOrder, NextOrder, NextCells, PTL
     DEF Spec, OnlyLateIsLost

------------------------------------------------------------------------------
(* The refinement.  A start is active while its worker runs; a product is
   parked from the moment the worker stores it until take_started. *)

Active == [n \in Names |-> IF starts[n] = "running" THEN ticket[n] ELSE 0]
Parked == {Product(n) : n \in stored} \cup Range(started)

\* What take_started leaves in the outcome cells is none of what it takes.
LEMMA LeftInCells ==
  ASSUME Inv, OrderInv, phase = "open", ReapEntries
  PROVE  {Product(n) : n \in stored}' \cap (Range(started) \cup Reapable) = {}
<1> SUFFICES ASSUME NEW n \in stored', Product(n)' \in Range(started) \cup Reapable
             PROVE  FALSE
  OBVIOUS
<1>1. n \in Names /\ n \notin Finished /\ starts[n] # "none" /\ Product(n)' = <<n, ticket[n]>>
  BY DEF ReapEntries, Inv, TypeOK, EntriesInv, Product
<1>2. CASE Product(n)' \in Reapable
  BY <1>1, <1>2 DEF Reapable, Product
<1>3. CASE Product(n)' \in Range(started)
  <2>1. Range(started) \subseteq Range(taken \o started)
    BY ConcatRange DEF Inv, TypeOK
  <2>2. ticket[n] < ticket[n]
    BY <1>1, <1>3, <2>1 DEF OrderInv, TicketsInv, Inv, EntriesInv
  <2> QED  BY <1>1, <2>2 DEF Inv, TypeOK
<1> QED  BY <1>2, <1>3

Open == phase = "open"

\* A step of the registry is a step of Handover, or none.
LEMMA NextRefines ==
  ASSUME Inv, OrderInv, Inv', [Next]_vars
  PROVE  [H!Next]_(H!vars)
<1> USE DEF Inv
<1> SUFFICES \/ H!Next
             \/ UNCHANGED <<Active, Parked, Range(taken), accepted, Open>>
  BY DEF H!vars, Active, Parked, Open
<1>1. CASE UNCHANGED vars
  BY <1>1 DEF vars, Active, Parked, Product, Range, Open
<1>2. CASE Contains
  <2>1. PICK order \in Orders(Reapable) : started' = started \o order
    BY <1>2 DEF Contains
  <2>2. order \in Seq(Products) /\ Range(order) = Reapable /\ started \in Seq(Products)
    BY ReapableType, OrdersAreSequences DEF TypeOK
  <2>3. Range(started)' = Range(started) \cup Reapable
    BY <2>1, <2>2, ConcatRange
  <2>4. {Product(n) : n \in stored} = {Product(n) : n \in stored}' \cup Reapable
    BY <1>2, ReapSplits DEF Contains
  <2>5. Parked' = Parked
    BY <2>3, <2>4 DEF Parked
  <2>6. Active' = Active
    BY <1>2 DEF Contains, ReapEntries, Finished, Active
  <2> QED  BY <1>2, <2>5, <2>6 DEF Contains, Open
<1>3. CASE TakeStarted
  <2> DEFINE some == Range(started) \cup Reapable
  <2>1. PICK order \in Orders(Reapable) : taken' = taken \o started \o order
    BY <1>3 DEF TakeStarted
  <2>2. /\ order \in Seq(Products) /\ Range(order) = Reapable
        /\ started \in Seq(Products) /\ taken \in Seq(Products)
        /\ taken \o started \in Seq(Products)
    BY ReapableType, OrdersAreSequences DEF TypeOK
  <2>3. Range(taken)' = Range(taken) \cup some
    <3>1. Range(taken \o started) = Range(taken) \cup Range(started)
      BY <2>2, ConcatRange
    <3> DEFINE held == taken \o started
    <3>2. held \in Seq(Products) /\ taken' = held \o order
      BY <2>1, <2>2
    <3> HIDE DEF held
    <3>3. Range(held \o order) = Range(held) \cup Range(order)
      BY <2>2, <3>2, ConcatRange
    <3> QED  BY <2>2, <3>1, <3>2, <3>3 DEF held
  <2>4. {Product(n) : n \in stored} = {Product(n) : n \in stored}' \cup Reapable
    BY <1>3, ReapSplits DEF TakeStarted
  <2>5. Parked' = {Product(n) : n \in stored}'
    BY <1>3 DEF TakeStarted, Parked, Range
  <2>6. Parked = Parked' \cup some /\ Parked' \cap some = {}
    BY <1>3, <2>4, <2>5, LeftInCells DEF Parked, TakeStarted
  <2>7. Active' = Active /\ accepted' = accepted /\ Open /\ Open' = Open
    BY <1>3 DEF TakeStarted, ReapEntries, Finished, Active, Open
  <2>8. CASE some = {}
    BY <2>3, <2>6, <2>7, <2>8
  <2>9. CASE some # {}
    <3> HIDE DEF some
    <3>1. some \in SUBSET Parked /\ Parked' = Parked \ some
      BY <2>6
    <3>2. H!Take
      BY <2>3, <2>7, <2>9, <3>1 DEF H!Take, Active, Parked, Open
    <3> QED  BY <3>2 DEF H!Next
  <2> QED  BY <2>8, <2>9
<1>4. ASSUME NEW n \in Names, Start(n) PROVE H!Next
  <2>1. Active[n] = 0 /\ Active' = [Active EXCEPT ![n] = accepted + 1]
    BY <1>4 DEF Start, Active, TypeOK
  <2>2. \A k \in stored : Product(k)' = Product(k)
    BY <1>4 DEF TypeOK, EntriesInv, Start, Product
  <2>3. Parked' = Parked
    BY <1>4, <2>2 DEF Start, Parked, Range
  <2>4. Range(taken)' = Range(taken)
    BY <1>4 DEF Start
  <2>5. H!Accept(n)
    BY <1>4, <2>1, <2>3, <2>4 DEF H!Accept, Start, Active, Parked, Open
  <2> QED  BY <2>5 DEF H!Next
<1>5. ASSUME NEW n \in Names, WorkerStore(n) PROVE H!Next
  <2>1. /\ Active[n] # 0 /\ <<n, Active[n]>> = Product(n)
        /\ Active' = [Active EXCEPT ![n] = 0]
    BY <1>5 DEF WorkerStore, Active, Product, TypeOK, EntriesInv
  <2>2. \A k \in Names : Product(k)' = Product(k)
    BY <1>5 DEF WorkerStore, Product
  <2>3. Parked' = Parked \cup {Product(n)}
    BY <1>5, <2>2 DEF WorkerStore, Parked, Range, TypeOK
  <2>4. Range(taken)' = Range(taken) /\ accepted' = accepted /\ Open' = Open
    BY <1>5 DEF WorkerStore, Open
  <2>5. H!Produce(n)
    BY <2>1, <2>3, <2>4 DEF H!Produce, Active, Parked, Open
  <2> QED  BY <2>5 DEF H!Next
<1>6. ASSUME NEW n \in Names, WorkerFinish(n)
      PROVE  UNCHANGED <<Active, Parked, Range(taken), accepted, Open>>
  <2>1. Active' = Active
    BY <1>6 DEF WorkerFinish, Active, TypeOK
  <2>2. /\ Parked' = Parked /\ Range(taken)' = Range(taken)
        /\ accepted' = accepted /\ Open' = Open
    BY <1>6 DEF WorkerFinish, Parked, Product, Range, Open
  <2> QED  BY <2>1, <2>2
<1>7. ASSUME NEW n \in Names, WorkerFail(n) PROVE H!Next
  <2>1. Active[n] # 0 /\ Active' = [Active EXCEPT ![n] = 0]
    BY <1>7 DEF WorkerFail, Active, TypeOK, EntriesInv
  <2>2. /\ Parked' = Parked /\ Range(taken)' = Range(taken)
        /\ accepted' = accepted /\ Open' = Open
    BY <1>7 DEF WorkerFail, Parked, Product, Range, Open
  <2>3. H!Fail(n)
    BY <2>1, <2>2 DEF H!Fail, Active, Parked, Open
  <2> QED  BY <2>3 DEF H!Next
<1>8. CASE JoinAll
  <2>1. Open /\ Open' = FALSE
    BY <1>8 DEF JoinAll, Open
  <2>2. UNCHANGED <<Active, Parked, Range(taken), accepted>>
    BY <1>8 DEF JoinAll, Active, Parked, Product, Range
  <2>3. H!Leave
    BY <2>1, <2>2 DEF H!Leave, Active, Parked, Open
  <2> QED  BY <2>3 DEF H!Next
<1>9. ASSUME NEW n \in Names, DrainEntry(n)
      PROVE  UNCHANGED <<Active, Parked, Range(taken), accepted, Open>>
  <2>1. \A k \in Names : Product(k)' = Product(k)
    BY <1>9 DEF DrainEntry, Product
  <2>2. CASE n \in stored
    <3>1. Product(n) \in Products
      <4>1. starts[n] # "none" /\ ticket[n] # 0
        BY <2>2 DEF EntriesInv
      <4>2. ticket[n] \in 1..MaxStarts
        BY <4>1, MaxStartsAssumption DEF TypeOK
      <4> QED  BY <4>2 DEF Product, Products
    <3>2. Range(started)' = Range(started) \cup {Product(n)}
      BY <1>9, <2>2, <3>1, AppendRange DEF DrainEntry, TypeOK
    <3>3. stored' = stored \ {n} /\ stored \subseteq Names
      BY <1>9 DEF DrainEntry, TypeOK
    <3>4. Parked' = Parked
      BY <2>1, <2>2, <3>2, <3>3 DEF Parked
    <3> QED  BY <1>9, <3>4 DEF DrainEntry, Active, Open
  <2>3. CASE n \notin stored
    <3>1. stored' = stored /\ started' = started /\ stored \subseteq Names
      BY <1>9, <2>3 DEF DrainEntry, TypeOK
    <3>2. Parked' = Parked
      BY <2>1, <3>1 DEF Parked, Range
    <3> QED  BY <1>9, <3>2 DEF DrainEntry, Active, Open
  <2> QED  BY <2>2, <2>3
<1>10. ASSUME NEW n \in Names, JoinEntry(n)
       PROVE  \/ H!Next
              \/ UNCHANGED <<Active, Parked, Range(taken), accepted, Open>>
  <2>1. \A k \in stored' : Product(k)' = Product(k) /\ k \in stored
    BY <1>10 DEF JoinEntry, Product, TypeOK
  <2>2. Parked' \subseteq Parked
    BY <1>10, <2>1 DEF JoinEntry, Parked, Range
  <2>3. UNCHANGED <<Active, Range(taken), accepted, Open>>
    BY <1>10 DEF JoinEntry, Active, TypeOK, Open
  <2>4. ~Open
    BY <1>10 DEF JoinEntry, EntriesInv, Open
  <2>5. CASE Parked' = Parked
    BY <2>3, <2>5
  <2>6. CASE Parked' # Parked
    <3> DEFINE some == Parked \ Parked'
    <3>1. some # {} /\ some \in SUBSET Parked /\ Parked' = Parked \ some
      BY <2>2, <2>6
    <3> HIDE DEF some
    <3>2. H!Abandon
      BY <2>3, <2>4, <3>1 DEF H!Abandon, Active, Parked, Open
    <3> QED  BY <3>2 DEF H!Next
  <2> QED  BY <2>5, <2>6
<1>11. CASE Joined
  BY <1>11 DEF Joined, Active, Parked, Product, Range, Open
<1> QED
  BY <1>1, <1>2, <1>3, <1>4, <1>5, <1>6, <1>7, <1>8, <1>9, <1>10, <1>11
     DEF Next, Use, Leave, Worker

\* The registry implements the hand-over: what it promises of products and of
\* the starts that make them, whatever the order in which workers end and queries
\* reap, and whenever the application leaves.
THEOREM Implements == Spec => HandoverSpec
<1>1. Init => H!Init
  BY DEF Init, H!Init, Range
<1>2. Inv /\ OrderInv /\ Inv' /\ [Next]_vars => [H!Next]_(H!vars)
  BY NextRefines
<1> QED
  BY <1>1, <1>2, InitInv, NextInv, InitOrder, NextOrder, PTL
     DEF Spec, HandoverSpec, H!Spec

=============================================================================
