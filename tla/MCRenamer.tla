----------------------------- MODULE MCRenamer -----------------------------
(***************************************************************************)
(* Small directories for the renamer.  The names are chosen to collide:    *)
(* b is added as "T_1", the name a collision suffix makes of "T", and may  *)
(* be renamed to "img", which differs from a's "IMG" in case only.         *)
(***************************************************************************)
EXTENDS Renamer

CONSTANTS a, b, c

At(stem, sfx)   == [dir |-> "lib", stem |-> stem, sfx |-> sfx]
Name(stem, sfx) == [stem |-> stem, sfx |-> sfx]

MCKey(path) == [path EXCEPT !.stem = IF @ = "img" THEN "IMG" ELSE @]

PairHome   == (a :> At("IMG", <<>>)) @@ (b :> At("T", <<1>>))

TrioPhotos == {a, b, c}
TrioHome   == PairHome @@ (c :> At("T", <<>>))

(* One name for all; and a pattern that gives each file the name another   *)
(* file may have.                                                          *)
Same(photos) == [f \in photos |-> Name("T", <<>>)]

TrioPatterns == {Same({a, b, c}),
                 (a :> Name("T", <<>>)) @@ (b :> Name("img", <<>>))
                    @@ (c :> Name("T", <<1>>))}
=============================================================================
