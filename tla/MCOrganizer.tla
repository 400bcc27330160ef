---------------------------- MODULE MCOrganizer ----------------------------
(***************************************************************************)
(* Small libraries for the organizer.  Photos a and b have the same        *)
(* timestamp and camera, so that their names collide.                      *)
(***************************************************************************)
EXTENDS Organizer

CONSTANTS a, b

At(dir, stem, sfx) == [dir |-> dir, stem |-> stem, sfx |-> sfx]

TwinPhotos == {a, b}
TwinHome   == (a :> At("src", "IMG", <<>>)) @@ (b :> At("src", "IMG", <<1>>))
TwinTarget == (a :> At("day", "T", <<>>)) @@ (b :> At("day", "T", <<>>))

SeveralRoots == {{"src"}, {"day"}, {"src", "day"}}
=============================================================================
