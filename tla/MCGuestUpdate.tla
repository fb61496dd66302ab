--------------------------- MODULE MCGuestUpdate ---------------------------
(* GuestUpdate on small instances. *)
EXTENDS GuestUpdate

\* A guest with all there is, one without a boot image, and a plain one.
Guest(builder, signs, aquamarine) ==
  [builder |-> builder, signs |-> signs, aquamarine |-> aquamarine]
ThreeKinds == {Guest(TRUE, TRUE, TRUE), Guest(FALSE, TRUE, FALSE), Guest(FALSE, FALSE, FALSE)}

NoneOrBoth == {{}, {"binary", "unit"}}
OldFirst == <<"old", "new">>
=============================================================================
