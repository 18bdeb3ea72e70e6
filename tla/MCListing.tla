----------------------------- MODULE MCListing -----------------------------
(* Instances of Listing for TLC. *)
EXTENDS Listing

\* Below zero, zero, within the limits, at them and past them.
MCRawNumbers == {-1, 0, 1, 2, 4, MaxInt32, MaxInt32 + 2}

=============================================================================
