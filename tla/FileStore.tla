----------------------------- MODULE FileStore -----------------------------
(***************************************************************************)
(* What every operation that moves files promises: while it runs, files    *)
(* move one at a time and only onto paths that do not exist, so that none  *)
(* is ever overwritten or dropped.  Only the user, and only between        *)
(* operations, adds and removes files.                                     *)
(***************************************************************************)
EXTENDS FileSystem

CONSTANT Contents     \* the identities of the files

VARIABLES disk,       \* the file at every path that exists
          busy        \* whether an operation of the program is running

storeVars == <<disk, busy>>

StoreInit == FilesOn(disk) \subseteq Contents /\ busy = FALSE

(* The operation moves one file onto a path that does not exist. *)
MoveFile ==
    /\ busy /\ busy'
    /\ \E from \in DOMAIN disk, to \in DOMAIN disk' \ DOMAIN disk :
          disk' = RenameOn(disk, from, to)

(* The user changes what is on the disk, between operations. *)
UserEdit ==
    /\ ~busy /\ ~busy'
    /\ FilesOn(disk') \subseteq Contents

(* An operation begins, or it ends or is cut short; no file moves. *)
BeginOrEnd ==
    /\ busy' = ~busy
    /\ UNCHANGED disk

StoreNext == MoveFile \/ UserEdit \/ BeginOrEnd

StoreSpec == StoreInit /\ [][StoreNext]_storeVars
=============================================================================
