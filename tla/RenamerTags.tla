---------------------------- MODULE RenamerTags -----------------------------
(* renamer_tags*.c: the tag sidecar of the renamer, rename_tags.json, and the *)
(* tags a preview shows. A preview loads the sidecar, replaces entries from a *)
(* map file, applies the four comma-separated lists of its request to every   *)
(* file of the batch, rewrites the sidecar in place, and only then resolves,  *)
(* file by file, the tags the names are made of.                              *)
(*                                                                            *)
(* Three lists are kept per file: manualTags, metaTagAdds (tags added as if   *)
(* the metadata held them) and suppressedMetaTags (tags hidden from it).      *)
(*                                                                            *)
(* The sidecar is a cJSON object, whose lookups ignore case: paths that       *)
(* differ in case only share one entry. The GUI's rename panel writes the     *)
(* same file on the main thread (gui_rename_map.c), also while a preview      *)
(* runs on the worker, and stores what the user typed as it was typed.        *)
EXTENDS RenameText, FiniteSets

CONSTANTS
  Paths,        \* the paths a map may name
  Files,        \* those a preview may find
  Key,          \* path -> the path as case_insensitive_strcmp of cJSON sees it
  Metadata,     \* file -> the keys of allMetadataJson with their spellings:
                \* a sequence of records [key, tags], or Malformed
  Malformed,    \* allMetadataJson that does not parse
  Whitelist,    \* RENAMER_META_TAG_WHITELIST
  Requests,     \* records of the batch that is found, of a map file (a sequence
                \* of records [path, manual, adds, hidden]) and of the four lists
                \* add, remove, metaAdd and metaRemove (sequences of spellings)
  Typed,        \* what the user may type into the panel's two fields
  TagSize,      \* the buffer of a tag, 64
  TagLimit,     \* RENAMER_TAG_LIMIT, 128
  MaxPreviews,  \* bound: previews
  MaxEdits,     \* bound: edits from the panel
  MaxFaults     \* bound: failed or interrupted writes

(* Comma-separated spellings, cut at the commas. *)
Csvs == Seq(Seq(STRING))

ASSUME LimitAssumption == TagLimit \in Nat \ {0} /\ TagSize \in Nat
ASSUME MetadataAssumption ==
  \A f \in Files : Metadata[f] = Malformed \/ Metadata[f] \in Seq([key : STRING, tags : Csvs])
ASSUME RequestAssumption ==
  /\ Files \subseteq Paths /\ IsFiniteSet(Paths) /\ DOMAIN Key = Paths
  /\ Typed \subseteq Csvs
  /\ Requests \subseteq
       [batch : SUBSET Files,
        map : Seq([path : Paths, manual : Csvs, adds : Csvs, hidden : Csvs]),
        add : Csvs, remove : Csvs, metaAdd : Csvs, metaRemove : Csvs]

(* A copy of the sidecar is its entries by key and, which the program does   *)
(* not keep, what was last asked of each entry and tag.                      *)
VARIABLES
  disk,      \* the copy in rename_tags.json; Nothing when there is none or the
             \* file does not parse
  root,      \* the copy in memory of the last preview
  panel,     \* the copy in memory of the panel's edit, or Nothing
  writing,   \* the panel has loaded the sidecar and not yet saved it
  phase,     \* "idle", "edited", "saved", "shown", "unresolved" or "failed"
  request,   \* the request of the last preview
  shown,     \* file -> the tags its name was made of: the rows of the panel
  previews, edits, faults

vars == <<disk, root, panel, writing, phase, request, shown, previews, edits, faults>>

NoEntry == [manual |-> << >>, adds |-> << >>, hidden |-> << >>]
NoRequest == [batch |-> {}, map |-> << >>, add |-> << >>, remove |-> << >>,
              metaAdd |-> << >>, metaRemove |-> << >>]

Keys(paths) == {Key[p] : p \in paths}

(* Mutant: a tag is added again to an array that holds it. *)
AddAlways(array, tag) == Append(array, tag)

(* The arrays of the sidecar have no limit. *)
AddTag(array, tag) == IF tag \in Range(array) THEN array ELSE Append(array, tag)
AddTags(array, tags) == Loop(AddTag, array, tags)

(* The tags of an array that are not among some others, in their order.      *)
Without(array, others) ==
  Loop(LAMBDA out, tag : IF tag \in others THEN out ELSE Append(out, tag), << >>, array)
RemoveTags(array, tags) == Without(array, Range(tags))

(* AppendCsvTags of the panel: trimmed, without the empty ones, each once,   *)
(* and not normalized. *)
Blanks == {" ", "\t", "\n", "\f", "\r"}
AppendCsvTags(csv) ==
  AddTags(<< >>, Without([i \in DOMAIN csv |-> Trim(csv[i], Blanks)], {<< >>}))

Given(r) == {r.add, r.remove, r.metaAdd, r.metaRemove}
            \cup UNION {{r.map[i].manual, r.map[i].adds, r.map[i].hidden} : i \in DOMAIN r.map}

Tags(csv) == {NormalizeTag(csv[i], TagSize) : i \in DOMAIN csv} \ {<< >>}
AllTags == UNION {Tags(list) : list \in UNION {Given(r) : r \in Requests}
                                        \cup {AppendCsvTags(csv) : csv \in Typed}}

Unsaid == [k \in Keys(Files) |-> [t \in AllTags |-> "unsaid"]]
Nothing == [entries |-> << >>, manualIs |-> Unsaid, metaIs |-> Unsaid]

Init ==
  /\ disk = Nothing /\ root = Nothing /\ panel = Nothing /\ writing = FALSE
  /\ phase = "idle" /\ request = NoRequest
  /\ shown = << >>
  /\ previews = 0 /\ edits = 0 /\ faults = 0
-----------------------------------------------------------------------------
(* Mutant: the limit is one tag too low. *)
TagListLow(list, tag) ==
  IF Len(list) >= TagLimit - 1 THEN [i \in 1 .. TagLimit + 1 |-> tag]
  ELSE IF tag \in Range(list) THEN list
  ELSE Append(list, tag)

(* A list of tags in an array of TagLimit: the limit is tested before the    *)
(* tag is looked for, so that a full array refuses even a tag it holds. A    *)
(* list that failed is marked by having more than TagLimit elements.         *)
TagListAppend(list, tag) ==
  IF Len(list) >= TagLimit THEN [i \in 1 .. TagLimit + 1 |-> tag]
  ELSE IF tag \in Range(list) THEN list
  ELSE Append(list, tag)

Overflowed(list) == Len(list) > TagLimit

AppendAll(list, more) == Loop(TagListAppend, list, more)

(* ParseCsvTags and ParseTagsFromNode: normalized, without the empty ones,   *)
(* each once. *)
Parse(csv) ==
  AppendAll(<< >>, Without([i \in DOMAIN csv |-> NormalizeTag(csv[i], TagSize)], {<< >>}))

Entry(entries, k) == IF k \in DOMAIN entries THEN entries[k] ELSE NoEntry
With(entries, k, entry) ==
  [q \in DOMAIN entries \cup {k} |-> IF q = k THEN entry ELSE entries[q]]
-----------------------------------------------------------------------------
(* RenamerTagsApplyMapFile: an entry of the map replaces the three lists of  *)
(* its file, unless the file is not in a non-empty batch, which strcmp tells *)
(* by the path; a path that cannot be resolved fails the whole map.          *)
Relevant(item, batch) == batch = {} \/ item.path \in batch

MapReads(map, batch) ==
  \A i \in DOMAIN map :
    /\ map[i].path \in Files
    /\ Relevant(map[i], batch) =>
       \A list \in {map[i].manual, map[i].adds, map[i].hidden} : ~Overflowed(Parse(list))

ApplyMapEntry(entries, item) ==
  With(entries, Key[item.path],
       [manual |-> Parse(item.manual),
        adds   |-> RemoveTags(Parse(item.adds), Parse(item.hidden)),
        hidden |-> Parse(item.hidden)])

ApplyMap(entries, map, batch) ==
  Loop(LAMBDA e, item : IF Relevant(item, batch) THEN ApplyMapEntry(e, item) ELSE e,
       entries, map)

(* RenamerTagsApplyBulkCsv, for one file: the four lists in this order. *)
Showing(entry, tags, list) ==
  [entry EXCEPT ![list] = AddTags(@, tags), !.hidden = RemoveTags(@, tags)]

Hiding(entry, tags, list) ==
  [entry EXCEPT ![list] = RemoveTags(@, tags), !.hidden = AddTags(@, tags)]

(* Mutant: what is removed is removed before what is added. *)
RemovingFirst(entry, r) ==
  Showing(Showing(Hiding(Hiding(entry, Parse(r.remove), "manual"),
                         Parse(r.metaRemove), "adds"),
                  Parse(r.add), "manual"),
          Parse(r.metaAdd), "adds")

Bulk(entry, r) ==
  Hiding(Showing(Hiding(Showing(entry, Parse(r.add), "manual"),
                        Parse(r.remove), "manual"),
                 Parse(r.metaAdd), "adds"),
         Parse(r.metaRemove), "adds")

BulkReads(r) ==
  \A list \in {r.add, r.remove, r.metaAdd, r.metaRemove} : ~Overflowed(Parse(list))

(* The lists are applied once to an entry that several files of the batch    *)
(* share, where the code applies them once for each: that changes neither    *)
(* list, nor what is hidden, only its order, which nothing depends on.       *)
ApplyBulk(entries, r) ==
  [k \in DOMAIN entries \cup Keys(r.batch) |->
     IF k \in Keys(r.batch) THEN Bulk(Entry(entries, k), r) ELSE entries[k]]

(* The panel's Apply Manual and Apply Meta: one list becomes what was typed, *)
(* and what is spelled exactly like a hidden tag unhides it.                 *)
PanelEdit(entry, list, tags) ==
  CASE list = "manual" -> [entry EXCEPT !.manual = tags]
    [] list = "adds"   -> [entry EXCEPT !.adds = tags, !.hidden = RemoveTags(@, tags)]
-----------------------------------------------------------------------------
(* RenamerTagsResolve: the manual tags, the tags of the whitelisted metadata *)
(* keys and then the added ones, without the hidden, and both together. *)
KeyNodes(f) == {node \in Range(Metadata[f]) : node.key \in Whitelist}

KeyTags(f, hidden) ==
  Loop(LAMBDA out, node : IF node.key \in Whitelist
                          THEN AppendAll(out, Without(Parse(node.tags), hidden)) ELSE out,
       << >>, Metadata[f])

MetaTags(entries, f) ==
  LET entry  == Entry(entries, Key[f])
      hidden == Range(entry.hidden)
  IN AppendAll(KeyTags(f, hidden), Without(Parse(entry.adds), hidden))

Resolved(entries, f) ==
  LET manual == Parse(Entry(entries, Key[f]).manual)
      meta   == MetaTags(entries, f)
  IN [manual |-> manual, meta |-> meta, merged |-> AppendAll(AppendAll(<< >>, manual), meta)]

Resolves(entries, f) ==
  /\ Metadata[f] # Malformed
  /\ LET r == Resolved(entries, f)
     IN \A list \in {r.manual, r.meta, r.merged, Parse(Entry(entries, Key[f]).adds)}
                    \cup {Parse(node.tags) : node \in KeyNodes(f)} : ~Overflowed(list)
-----------------------------------------------------------------------------
(* What was asked for last, entry by entry and tag by tag: the manual lists  *)
(* and the map speak of an entry's own tags; all of them speak of what is    *)
(* shown of the metadata, where a tag that is added by hand is only no       *)
(* longer hidden.                                                            *)
MapItem(r, k) ==
  SelectLastInSeq(r.map, LAMBDA item : Key[item.path] = k /\ Relevant(item, r.batch))

MappedManual(was, k, t, r) ==
  LET i == MapItem(r, k)
  IN IF i = 0 THEN was
     ELSE IF t \in Tags(r.map[i].manual) THEN "on" ELSE "off"

MappedMeta(was, k, t, r) ==
  LET i == MapItem(r, k)
  IN IF i = 0 THEN was
     ELSE IF t \in Tags(r.map[i].hidden) THEN "off"
     ELSE IF t \in Tags(r.map[i].adds) THEN "on" ELSE "unsaid"

ManualAfter(was, t, r) ==
  CASE t \in Tags(r.remove) -> "off"
    [] t \in Tags(r.add) /\ t \notin Tags(r.remove) -> "on"
    [] OTHER -> was

MetaAfter(was, t, r) ==
  IF t \in Tags(r.metaRemove) THEN "off"
  ELSE IF t \in Tags(r.metaAdd) THEN "on"
  ELSE IF t \in Tags(r.remove) THEN "off"
  ELSE IF t \in Tags(r.add) /\ was = "off" THEN "unsaid"
  ELSE was

Decided(is, Mapping(_, _, _, _), After(_, _, _), r) ==
  [k \in Keys(Files) |-> [t \in AllTags |->
     LET mapped == Mapping(is[k][t], k, t, r)
     IN IF k \in Keys(r.batch) THEN After(mapped, t, r) ELSE mapped]]

(* What a preview makes of a copy of the sidecar. *)
Edited(copy, r) ==
  [entries  |-> ApplyBulk(ApplyMap(copy.entries, r.map, r.batch), r),
   manualIs |-> Decided(copy.manualIs, MappedManual, ManualAfter, r),
   metaIs   |-> Decided(copy.metaIs, MappedMeta, MetaAfter, r)]

(* The panel asks for the tags it is given; the others are not manual tags,  *)
(* and no longer added to the metadata.                                      *)
Asked(is, k, list, tags) ==
  [q \in Keys(Files) |-> [t \in AllTags |->
     IF q # k THEN is[q][t]
     ELSE IF t \in Tags(tags) THEN "on"
     ELSE IF list = "manual" \/ is[q][t] = "off" THEN "off" ELSE "unsaid"]]

(* What the panel makes of a copy of the sidecar. *)
PanelEdited(copy, f, list, tags) ==
  [entries  |-> With(copy.entries, Key[f],
                     PanelEdit(Entry(copy.entries, Key[f]), list, tags)),
   manualIs |-> IF list = "manual" THEN Asked(copy.manualIs, Key[f], list, tags)
                ELSE copy.manualIs,
   metaIs   |-> IF list = "adds" THEN Asked(copy.metaIs, Key[f], list, tags)
                ELSE copy.metaIs]
-----------------------------------------------------------------------------
(* The file is opened for writing and then filled: who reads it while the    *)
(* other thread writes may find it torn, and so may be what two threads      *)
(* leave that write at once. A torn file is loaded as an empty sidecar, and  *)
(* every decision is forgotten.                                              *)
Torn(copy, contended) == IF contended THEN {copy, Nothing} ELSE {copy}

(* RenamerPreviewBuild up to the edits, all of them in memory. *)
BeginPreview(r) ==
  /\ phase \notin {"edited", "saved"} /\ previews < MaxPreviews
  /\ previews' = previews + 1
  /\ request' = r
  /\ IF MapReads(r.map, r.batch) /\ BulkReads(r)
     THEN /\ \E copy \in Torn(disk, writing) : root' = Edited(copy, r)
          /\ phase' = "edited"
     ELSE /\ root' = Nothing
          /\ phase' = "failed"
  /\ UNCHANGED <<disk, panel, writing, shown, edits, faults>>

(* Once the panel has written the sidecar for want of a map, the sidecar is  *)
(* itself the map of the previews that follow: every entry, in any order and *)
(* under any of the paths that share its key. One that cannot be read fails  *)
(* like a map that cannot be resolved.                                       *)
OwnMaps ==
  LET here == disk.entries
      Spellings == {path \in [DOMAIN here -> Paths] : \A k \in DOMAIN here : Key[path[k]] = k}
  IN {[i \in DOMAIN keys |->
         [path |-> path[keys[i]], manual |-> here[keys[i]].manual,
          adds |-> here[keys[i]].adds, hidden |-> here[keys[i]].hidden]] :
      keys \in SetToSeqs(DOMAIN here), path \in Spellings}

BeginOwnMapPreview(r) ==
  /\ edits > 0
  /\ \E map \in OwnMaps : BeginPreview([r EXCEPT !.map = map])

Save ==
  /\ phase = "edited"
  /\ disk' \in Torn(root, writing)
  /\ phase' = "saved"
  /\ UNCHANGED <<root, panel, writing, request, shown, previews, edits, faults>>

Fails(copy) == faults < MaxFaults /\ faults' = faults + 1 /\ disk' \in Torn(copy, TRUE)

(* The sidecar is written in place: a write that fails or is cut short by a  *)
(* crash leaves the old file, or a torn one.                                 *)
SaveFails ==
  /\ phase = "edited" /\ Fails(disk)
  /\ phase' = "failed"
  /\ root' = Nothing
  /\ UNCHANGED <<panel, writing, request, shown, previews, edits>>

(* RenamerTagsResolve for every file; the first one that fails ends the      *)
(* preview, and the sidecar keeps the edits. *)
Resolve ==
  /\ phase = "saved"
  /\ IF \A f \in request.batch : Resolves(root.entries, f)
     THEN /\ shown' = [f \in request.batch |-> Resolved(root.entries, f)]
          /\ phase' = "shown"
     ELSE /\ phase' = "unresolved"
          /\ UNCHANGED shown
  /\ UNCHANGED <<disk, root, panel, writing, request, previews, edits, faults>>

(* GuiRenameMapUpsertEntry for a row of the last preview, whatever the       *)
(* worker is doing: the sidecar is loaded and edited, and then saved.        *)
PanelLoads(f, list, csv) ==
  /\ ~writing /\ edits < MaxEdits
  /\ edits' = edits + 1 /\ writing' = TRUE
  /\ \E copy \in Torn(disk, phase = "edited") :
       panel' = PanelEdited(copy, f, list, AppendCsvTags(csv))
  /\ UNCHANGED <<disk, root, phase, request, shown, previews, faults>>

PanelSaves ==
  /\ writing /\ writing' = FALSE /\ panel' = Nothing
  /\ \/ disk' \in Torn(panel, phase = "edited") /\ UNCHANGED faults
     \/ Fails(disk)
  /\ UNCHANGED <<root, phase, request, shown, previews, edits>>

Preview ==
  \/ \E r \in Requests : BeginPreview(r) \/ (r.map = << >> /\ BeginOwnMapPreview(r))
  \/ Save \/ SaveFails \/ Resolve

Panel ==
  \/ \E f \in DOMAIN shown, list \in {"manual", "adds"}, csv \in Typed : PanelLoads(f, list, csv)
  \/ PanelSaves

Next == Preview \/ Panel

Spec == Init /\ [][Next]_vars
-----------------------------------------------------------------------------
Plain(list) == \A i \in DOMAIN list : NormalizeTag(list[i], TagSize) = list[i]

(* The tags of a preview are what was last asked of each entry and tag of    *)
(* the sidecar it loaded and by itself, however many previews, maps, panel   *)
(* edits and restarts lie between: what was added is there, what was removed *)
(* stays away until it is asked for again, from the metadata too; a name's   *)
(* merged list has each tag of the two once, whatever spellings and keys it  *)
(* came from. What the panel stored in another spelling is out of reach of   *)
(* later edits: a list that still holds one may show a removed tag, and its  *)
(* tags may stay hidden.                                                     *)
DecisionsAreShown ==
  phase = "shown" =>
    \A f \in request.batch :
      /\ Range(shown[f].merged) = Range(shown[f].manual) \cup Range(shown[f].meta)
      /\ Cardinality(Range(shown[f].merged)) = Len(shown[f].merged)
      /\ LET entry == Entry(root.entries, Key[f])
         IN \A t \in AllTags :
              /\ root.manualIs[Key[f]][t] = "on"  => t \in Range(shown[f].manual)
              /\ root.manualIs[Key[f]][t] = "off" /\ Plain(entry.manual)
                   => t \notin Range(shown[f].manual)
              /\ root.metaIs[Key[f]][t] = "on" /\ Plain(entry.adds)
                   => t \in Range(shown[f].meta)
              /\ root.metaIs[Key[f]][t] = "off" => t \notin Range(shown[f].meta)

(* Edits can only keep a preview from being shown when a file's metadata     *)
(* does not parse or its tags have reached the limit: the arrays of the      *)
(* sidecar grow without limit, and neither repetitions nor other spellings   *)
(* of a tag count.                                                           *)
FailsOnlyAtTheLimit ==
  phase = "unresolved" =>
    \E f \in request.batch :
      LET entry == Entry(root.entries, Key[f])
      IN \/ Metadata[f] = Malformed
         \/ Cardinality(Tags(entry.manual) \cup Tags(entry.adds)
                        \cup UNION {Tags(node.tags) : node \in KeyNodes(f)}) >= TagLimit

(* The same preview again, with nobody else writing the sidecar in between,  *)
(* shows the same tags in the same order: renewing a preview does not change *)
(* the names it proposes. *)
SameEditSameTags ==
  [][phase = "shown" /\ phase' = "edited" /\ request' = request
     /\ disk = root /\ ~writing
       => \A f \in request.batch : Resolved(root'.entries, f) = shown[f]]_vars
=============================================================================
