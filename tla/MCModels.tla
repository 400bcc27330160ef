----------------------------- MODULE MCModels -----------------------------
(***************************************************************************)
(* Two models in two versions.  The first manifest is sound; the second    *)
(* asks for a new version of both and delivers a wrong second one; the     *)
(* third names a URL this build cannot read, and the fourth is malformed.  *)
(***************************************************************************)
EXTENDS Models

CONSTANTS clf, embed,                     \* models
          c1, c2, e1, e2, wrong,          \* payloads
          absent, torn, unsupported       \* marks

TwoModels    == {clf, embed}
FivePayloads == {c1, c2, e1, e2, wrong}
TwoNeeds     == {{clf}, {embed}}

Of(model, sha, url) == [model |-> model, sha |-> sha, url |-> url]

First  == [entries |-> <<Of(clf, c1, c1), Of(embed, e1, e1)>>, defect |-> FALSE]
Update == [entries |-> <<Of(clf, c2, c2), Of(embed, e2, wrong)>>, defect |-> FALSE]
Remote == [entries |-> <<Of(embed, e2, e2), Of(clf, c1, unsupported)>>, defect |-> FALSE]
Broken == [entries |-> <<Of(clf, c1, c1)>>, defect |-> TRUE]

FourManifests == {First, Update, Remote, Broken}
=============================================================================
