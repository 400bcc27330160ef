--------------------------- MODULE MCDuplicates ---------------------------
(***************************************************************************)
(* Small libraries for the duplicate finder.  Contents x and y have one    *)
(* MD5.  One library holds three copies of x, one of them in an environment *)
(* directory; the other mixes the contents.                                *)
(***************************************************************************)
EXTENDS Duplicates, TLC

CONSTANTS x, y, z

At(dir, stem) == [dir |-> dir, stem |-> stem, sfx |-> <<>>]

ThreeContents == {x, y, z}
TwoMd5s       == {"m", "n"}
SharedMd5     == (x :> "m") @@ (y :> "m") @@ (z :> "n")

CopyInEnv == (At("lib", "a") :> x) @@ (At("sub", "a") :> x) @@ (At("env", "a") :> x)
Mixed     == (At("lib", "a") :> x) @@ (At("lib", "b") :> y) @@
               (At("sub", "a") :> x) @@ (At("sub", "b") :> z)

SmallLibraries == {CopyInEnv, Mixed}
EditedPaths    == {At("lib", "b")}
EnvDirs        == {"env", "old"}
=============================================================================
