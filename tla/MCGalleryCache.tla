--------------------------- MODULE MCGalleryCache ---------------------------
(***************************************************************************)
(* Small instances for the gallery cache.  The profiles p and q are of one *)
(* source directory, as when an option was changed; r is of another.       *)
(***************************************************************************)
EXTENDS GalleryCache

CONSTANTS a, b, p, q, r

Sources == [x \in Profiles |-> IF x = r THEN {b} ELSE {a}]
=============================================================================
