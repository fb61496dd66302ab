--------------------------- MODULE DisplayPayload ---------------------------
(***************************************************************************)
(* What the guest's display payload promises the host: which version of    *)
(* the module may be loaded after an update, by the outcome the guest      *)
(* reports.  AgentLink runs the guest's handlers by this contract;         *)
(* GuestUpdate, which models them stage by stage, is checked against it.   *)
(***************************************************************************)
CONSTANT None   \* Option::None: no version

\* The version of the payload the guest has and the one the host stages.
Versions == {"old", "new"}

\* The module of the running kernel.
Loaded == Versions \cup {None}

\* DisplayUpdateOutcome.
Outcomes == {"updated", "rolled_back", "reboot_required", "failed"}

\* What each outcome of an update to the new payload says of the module that
\* was loaded before and the one that is loaded after it.
UpdatePromise(before, outcome, after) ==
  CASE outcome = "updated" -> after = "new"
    [] outcome = "rolled_back" -> after # None /\ before \in {None, after}
    [] outcome = "reboot_required" -> after # None /\ after = before
    [] outcome = "failed" -> after \in Loaded
=============================================================================
