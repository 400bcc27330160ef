--------------------------- MODULE MCScanPipeline ---------------------------
(***************************************************************************)
(* Small directories for the scan.                                         *)
(***************************************************************************)
EXTENDS ScanPipeline

MediaFiles == {"a", "b"}

(* Two links lead to the second media file; the first and the last file   *)
(* are no media files.  The first thread has one file more.                *)
LinkedPaths == {"0", "a", "b", "z"}
LinkedFiles == <<"0", "a", "b", "b", "z">>

OwnKey == [p \in Paths |-> p]
=============================================================================
