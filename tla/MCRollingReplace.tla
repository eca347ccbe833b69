--------------------------- MODULE MCRollingReplace ---------------------------
(***************************************************************************)
(* RollingReplace on groups of up to four instances, with up to four       *)
(* failed ones, and policies below, at and above the size of the group.    *)
(* A negative batch size is one; OnCourse bounds the loop it never leaves. *)
(***************************************************************************)
EXTENDS RollingReplace

UpToFour  == 0..4
UpToSeven == 0..7
AnySize   == -2..7
NoOrOne   == {0, 1}
Either    == BOOLEAN

(* Bound: what remains is not followed beyond Beyond more than there was.  *)
Beyond   == 4
OnCourse == remainder <= capacity + Beyond
=============================================================================
