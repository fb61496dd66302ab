-------------------------- MODULE MCPayloadStaging --------------------------
(* PayloadStaging with two releases: a program, and the unit beside it in one. *)
EXTENDS PayloadStaging

TwoReleases == {"g1", "g2"}
AllFiles == {Manifest, "broker", "broker.service"}
TwoDeclared == [g1 |-> AllFiles, g2 |-> {Manifest, "broker"}]
OneName == [f \in AllFiles |-> IF f = Manifest THEN "payload" ELSE "broker"]
=============================================================================
