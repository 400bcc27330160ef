---------------------------- MODULE FileSystem ----------------------------
(***************************************************************************)
(* The file operations of utils/fs_utils.c that the organizer, the renamer *)
(* and the duplicate mover are built from, as operators on a disk.         *)
(*                                                                         *)
(* A disk is a function from the paths that exist to the identity of the   *)
(* file found there.  A path is a record: a directory, a stem, and the     *)
(* collision suffixes appended to the stem, so that "IMG_1" made from      *)
(* "IMG" is [stem |-> "IMG", sfx |-> <<1>>].  The extension travels with   *)
(* the stem.                                                               *)
(***************************************************************************)
EXTENDS Naturals, Sequences

(* The path with "_<n>" appended to its stem. *)
Suffixed(path, n) == [path EXCEPT !.sfx = Append(@, n)]

(* Whether the path exists: stat(2) or access(2) with F_OK succeeds. *)
Exists(disk, path) == path \in DOMAIN disk

(* rename(2): the file at from is now at to, and whatever was at to before *)
(* is gone.  Renaming a path to itself changes nothing.                    *)
RenameOn(disk, from, to) ==
    [p \in (DOMAIN disk \ {from}) \cup {to} |->
        IF p = to THEN disk[from] ELSE disk[p]]

(* The candidates a collision loop tries, in order: the path itself, then  *)
(* the path with the suffixes 1, 2, ...                                    *)
Candidate(path, n) == IF n = 0 THEN path ELSE Suffixed(path, n)

(* Mutant: the path is taken without looking whether it exists. *)
Unprobed(disk, path, bound) == {path}

(* The set whose one element is the first candidate that does not exist;   *)
(* bound is the largest suffix the model gives the loop.                   *)
FirstFree(disk, path, bound) ==
    {Candidate(path, n) : n \in
        {k \in 0 .. bound : /\ ~Exists(disk, Candidate(path, k))
                            /\ \A j \in 0 .. k - 1 : Exists(disk, Candidate(path, j))}}

(* The files the disk holds. *)
FilesOn(disk) == {disk[p] : p \in DOMAIN disk}
=============================================================================
