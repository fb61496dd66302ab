------------------------------ MODULE Handover ------------------------------
(***************************************************************************)
(* What a background start promises the thread that asked for it.          *)
(*                                                                         *)
(* A start is accepted at most once per name at a time, runs on a thread   *)
(* of its own and may leave a product -- the console session and mapping   *)
(* of build.rs StartedVm.  Dropping a product on the way would cancel the  *)
(* console of a running VM, so every product is parked until the main      *)
(* thread takes it, and is taken once.  Only an application that is        *)
(* leaving may abandon what is parked.                                     *)
(*                                                                         *)
(* StartRegistry implements this specification.                            *)
(***************************************************************************)
EXTENDS Naturals, FiniteSets

CONSTANTS Names,      \* VM names a start can be asked for
          MaxStarts   \* bound on the starts accepted in one behaviour

VARIABLES
  active,    \* name -> the number of its start that has not ended, or 0
  parked,    \* products waiting to be taken: the name and the start's number
  taken,     \* products the main thread has taken over
  accepted,  \* how many starts have been accepted
  open       \* the application is not leaving

vars == <<active, parked, taken, accepted, open>>

Init ==
  /\ active = [n \in Names |-> 0]
  /\ parked = {}
  /\ taken = {}
  /\ accepted = 0
  /\ open = TRUE

\* A start is accepted for a name that is not being started.
Accept(n) ==
  /\ open
  /\ active[n] = 0
  /\ accepted < MaxStarts
  /\ accepted' = accepted + 1
  /\ active' = [active EXCEPT ![n] = accepted + 1]
  /\ UNCHANGED <<parked, taken, open>>

\* A start ends with its product parked.
Produce(n) ==
  /\ active[n] # 0
  /\ parked' = parked \cup {<<n, active[n]>>}
  /\ active' = [active EXCEPT ![n] = 0]
  /\ UNCHANGED <<taken, accepted, open>>

\* A start ends with nothing: it failed, or its thread died.
Fail(n) ==
  /\ active[n] # 0
  /\ active' = [active EXCEPT ![n] = 0]
  /\ UNCHANGED <<parked, taken, accepted, open>>

\* The main thread takes over some of what is parked; what it leaves is
\* still parked.
Take ==
  /\ open
  /\ \E some \in SUBSET parked :
       /\ some # {}
       /\ taken' = taken \cup some
       /\ parked' = parked \ some
  /\ UNCHANGED <<active, accepted, open>>

\* The application begins to leave ...
Leave ==
  /\ open
  /\ open' = FALSE
  /\ UNCHANGED <<active, parked, taken, accepted>>

\* ... and what is still parked, or comes to be, may be dropped.
Abandon ==
  /\ ~open
  /\ \E some \in SUBSET parked : some # {} /\ parked' = parked \ some
  /\ UNCHANGED <<active, taken, accepted, open>>

Next ==
  \/ \E n \in Names : Accept(n) \/ Produce(n) \/ Fail(n)
  \/ Take
  \/ Leave
  \/ Abandon

Spec == Init /\ [][Next]_vars
=============================================================================
