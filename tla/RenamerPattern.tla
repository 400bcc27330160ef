--------------------------- MODULE RenamerPattern ---------------------------
(* renamer_pattern.c and the part of renamer_preview.c that turns a pattern   *)
(* into file names: the pattern of the request, or the one saved as default,  *)
(* is read left to right by one loop, once to validate it and once per file   *)
(* to render it; a validated pattern becomes the default of later previews,   *)
(* and every rendered name is made a slug and shortened.                      *)
(*                                                                            *)
(* A token is named in Allowlist by the characters between its brackets and   *)
(* mapped to the field it stands for.                                         *)
EXTENDS RenameText, FiniteSets

CONSTANTS
  FirstPatterns,   \* the patterns a first preview may ask for; << >> for none
  LaterPatterns,   \* those of the previews after it
  Batch,           \* a sequence of metadata records, one per file
  Numeral,         \* the number of a file -> its decimal digits
  Allowlist,       \* token text -> field
  Fallback,        \* field -> the value of a file without it
  DefaultPattern,  \* RenamerPatternDefault()
  PatternSize,     \* the buffer of the effective pattern, 256
  ValueSize,       \* the buffer of a token's value, 256
  RenderSize,      \* RENAMER_INLINE_BUFFER, 1024
  MaxCalls,        \* bound: previews
  MaxSaveFaults    \* bound: writes of the configuration that fail

(* The longest token has 11 characters, so RENAMER_PATTERN_TOKEN_MAX never   *)
(* refuses one that the list allows; the empty token is not in the list.     *)
ASSUME AllowlistAssumption ==
  \A t \in DOMAIN Allowlist :
    t \in Seq(STRING) /\ Len(t) \in 1 .. 63 /\ Range(t) \cap {"[", "]"} = {}

Text == Seq(STRING)

Fields == {"date", "time", "datetime", "camera", "make", "model", "format", "lat", "lon",
           "location", "index", "tags_manual", "tags_meta", "tags"}

ASSUME BatchAssumption ==
  /\ Batch \in Seq([dateTaken : Text, make : Text, model : Text, lat : Text, lon : Text,
                    path : Text, tags_manual : Text, tags_meta : Text, tags : Text])
  /\ \A i \in DOMAIN Batch : Numeral[i] \in Seq(Range(Lower)) \ {<< >>}
  /\ Range(Allowlist) \subseteq Fields
  /\ \A field \in Range(Allowlist) \ {"index"} : Fallback[field] \in Text

ASSUME PatternAssumption ==
  /\ FirstPatterns \cup LaterPatterns \subseteq Text
  /\ DefaultPattern \in Text \ {<< >>} /\ "f" \in Range(Lower)
  /\ PatternSize \in Nat /\ PatternSize >= 2
  /\ ValueSize \in Nat /\ ValueSize >= 1
  /\ RenderSize \in Nat /\ RenderSize >= 2

VARIABLES
  config,    \* defaultPattern in rename_config.json, << >> when the file is
             \* missing, does not parse or holds no pattern
  pattern,   \* effective_pattern of the call in progress
  stage,     \* "idle", "validating", "rejected", "rendering", "previewed",
             \* "failed"
  pos,       \* i of the loop, counted from 1
  index,     \* the file that is being rendered
  rendered,  \* the rendered text so far
  names,     \* candidate_filename of the files rendered so far
  drafts,    \* the text each of them was made from
  calls, saveFaults

patternVars == <<config, pattern, stage, pos, index, rendered, names, drafts, calls, saveFaults>>

PatternInit ==
  /\ config = << >>
  /\ pattern = << >> /\ stage = "idle" /\ pos = 1 /\ index = 1
  /\ rendered = << >> /\ names = << >> /\ drafts = << >>
  /\ calls = 0 /\ saveFaults = 0
-----------------------------------------------------------------------------
(* The fields of a file. dateTaken has the form YYYY:MM:DD HH:MM:SS, and one *)
(* that is shorter gives no date. *)
Taken(md, spans) ==
  LET Digits(k) == SubSeq(md.dateTaken, spans[k][1], spans[k][2])
  IN IF Len(md.dateTaken) < 19 THEN << >> ELSE Digits(1) \o Digits(2) \o Digits(3)

Format(path) ==
  IF DotOf(path) = 0 THEN << >>
  ELSE [i \in 1 .. Len(path) - DotOf(path) |->
          LET c == path[DotOf(path) + i]
          IN IF Alphanumeric(c) THEN Lower[c] ELSE c]

Joined(a, b) == IF a # << >> /\ b # << >> THEN a \o <<"-">> \o b ELSE a \o b

Field(md, field) ==
  CASE field = "date"     -> Taken(md, <<<<1, 4>>, <<6, 7>>, <<9, 10>>>>)
    [] field = "time"     -> Taken(md, <<<<12, 13>>, <<15, 16>>, <<18, 19>>>>)
    [] field = "datetime" -> Joined(Taken(md, <<<<1, 4>>, <<6, 7>>, <<9, 10>>>>),
                                    Taken(md, <<<<12, 13>>, <<15, 16>>, <<18, 19>>>>))
    [] field = "camera"   -> Joined(md.make, md.model)
    [] field = "location" -> Joined(md.lat, md.lon)
    [] field = "format"   -> Format(md.path)
    [] OTHER              -> md[field]

(* Only media files are listed: each has one of the known formats, all of    *)
(* which are short. *)
ASSUME FormatAssumption ==
  \A i \in DOMAIN Batch :
    /\ Format(Batch[i].path) \in Seq(Range(Lower)) \ {<< >>}
    /\ Len(Format(Batch[i].path)) < ExtMax /\ Len(Format(Batch[i].path)) < ValueSize

(* The built-in pattern ends in the number, a dot and the format.            *)
ASSUME DefaultAssumption ==
  \E k \in 1 .. Len(DefaultPattern), t \in DOMAIN Allowlist, u \in DOMAIN Allowlist :
    /\ Allowlist[t] = "index" /\ Allowlist[u] = "format"
    /\ k > 1 => DefaultPattern[k - 1] # "["
    /\ SubSeq(DefaultPattern, k, Len(DefaultPattern))
         = <<"[">> \o t \o <<"]", ".", "[">> \o u \o <<"]">>

ResolveTokenValue(token, i) ==
  LET field == Allowlist[token]
  IN IF field = "index" THEN Numeral[i]
     ELSE BuildSlug(Field(Batch[i], field), ValueSize, Fallback[field])
-----------------------------------------------------------------------------
(* RenamerPreviewBuild: the request's pattern, cut to the buffer, or the     *)
(* saved one, or the built-in one. *)
EffectivePattern(request) ==
  LET wanted == IF request # << >> THEN request
                ELSE IF config # << >> THEN config ELSE DefaultPattern
  IN First(wanted, PatternSize - 1)

(* Mutant: the pattern is saved as the default before it is validated. *)
BeginSaving(request) ==
  /\ stage \in {"idle", "previewed", "rejected", "failed"}
  /\ calls < MaxCalls
  /\ request \in IF calls = 0 THEN FirstPatterns ELSE LaterPatterns
  /\ pattern' = EffectivePattern(request)
  /\ config' = pattern'
  /\ stage' = "validating" /\ pos' = 1 /\ index' = 1
  /\ rendered' = << >> /\ names' = << >> /\ drafts' = << >>
  /\ calls' = calls + 1
  /\ UNCHANGED saveFaults

Begin(request) ==
  /\ stage \in {"idle", "previewed", "rejected", "failed"}
  /\ calls < MaxCalls
  /\ request \in IF calls = 0 THEN FirstPatterns ELSE LaterPatterns
  /\ pattern' = EffectivePattern(request)
  /\ stage' = "validating" /\ pos' = 1 /\ index' = 1
  /\ rendered' = << >> /\ names' = << >> /\ drafts' = << >>
  /\ calls' = calls + 1
  /\ UNCHANGED <<config, saveFaults>>

Reading == stage \in {"validating", "rendering"} /\ pos <= Len(pattern)

At(i, c) == i <= Len(pattern) /\ pattern[i] = c

Fail ==
  /\ stage' = IF stage = "validating" THEN "rejected" ELSE "failed"
  /\ UNCHANGED <<config, pattern, pos, index, rendered, names, drafts, calls, saveFaults>>

(* AppendChar and AppendText fail when the text and its NUL do not fit. *)
Advance(next, text) ==
  \/ /\ stage = "validating" \/ Len(rendered) + Len(text) < RenderSize
     /\ pos' = next
     /\ rendered' = IF stage = "rendering" THEN rendered \o text ELSE rendered
     /\ UNCHANGED <<config, pattern, stage, index, names, drafts, calls, saveFaults>>
  \/ /\ stage = "rendering" /\ Len(rendered) + Len(text) >= RenderSize
     /\ Fail

(* "[[" and "]]" stand for one bracket. *)
Escaped(c) == Reading /\ At(pos, c) /\ At(pos + 1, c) /\ Advance(pos + 2, <<c>>)

(* A single "[" opens a token that ends at the next "]". *)
Opens == Reading /\ At(pos, "[") /\ ~At(pos + 1, "[")

Closers == {i \in pos + 1 .. Len(pattern) : pattern[i] = "]"}

TokenText == IF Closers = {} THEN << >> ELSE SubSeq(pattern, pos + 1, Min(Closers) - 1)

Token ==
  /\ Opens /\ TokenText \in DOMAIN Allowlist
  /\ Advance(Min(Closers) + 1,
             IF stage = "rendering" THEN ResolveTokenValue(TokenText, index) ELSE << >>)

(* A token that never ends, is empty, too long or unknown. *)
BadToken == Opens /\ TokenText \notin DOMAIN Allowlist /\ Fail

LoneClose == Reading /\ At(pos, "]") /\ ~At(pos + 1, "]") /\ Fail

(* Mutant: a bracket that closes nothing is taken for a character. *)
AnyLiteral == Reading /\ ~At(pos, "[") /\ ~(At(pos, "]") /\ At(pos + 1, "]"))
              /\ Advance(pos + 1, <<pattern[pos]>>)

Literal ==
  /\ Reading /\ ~At(pos, "[") /\ ~At(pos, "]")
  /\ Advance(pos + 1, <<pattern[pos]>>)
-----------------------------------------------------------------------------
Rendering ==
  /\ stage' = IF Batch = << >> THEN "previewed" ELSE "rendering"
  /\ pos' = 1 /\ index' = 1 /\ rendered' = << >>
  /\ UNCHANGED <<pattern, names, drafts, calls>>

(* RenamerPreviewSaveDefaultPattern rewrites the file in place: a failed     *)
(* write leaves the old pattern or a file that does not parse. *)
SaveDefault ==
  /\ stage = "validating" /\ pos > Len(pattern)
  /\ config' = pattern
  /\ Rendering
  /\ UNCHANGED saveFaults

SaveDefaultFails ==
  /\ stage = "validating" /\ pos > Len(pattern) /\ saveFaults < MaxSaveFaults
  /\ config' \in {config, << >>}
  /\ saveFaults' = saveFaults + 1
  /\ stage' = "failed"
  /\ UNCHANGED <<pattern, pos, index, rendered, names, drafts, calls>>

(* Mutant: names are not sanitized again once they are put together. *)
Unsanitized(text) == IF text = << >> THEN <<"f">> ELSE ApplyLengthPolicy(text)

(* RenamerPatternRender after the loop: RenamerPatternSanitizeSlug, which    *)
(* leaves an empty text alone, ApplyLengthPolicy and the name "file". *)
Finished(text) ==
  IF text = << >> THEN <<"f">>
  ELSE ApplyLengthPolicy(BuildSlug(text, RenderSize, <<"f">>))

EndName ==
  /\ stage = "rendering" /\ pos > Len(pattern)
  /\ names' = Append(names, Finished(rendered))
  /\ drafts' = Append(drafts, rendered)
  /\ stage' = IF index = Len(Batch) THEN "previewed" ELSE "rendering"
  /\ pos' = 1 /\ index' = index + 1 /\ rendered' = << >>
  /\ UNCHANGED <<config, pattern, calls, saveFaults>>

PatternNext ==
  \/ \E request \in FirstPatterns \cup LaterPatterns : Begin(request)
  \/ \E c \in {"[", "]"} : Escaped(c)
  \/ Token
  \/ BadToken
  \/ LoneClose
  \/ Literal
  \/ SaveDefault
  \/ SaveDefaultFails
  \/ EndName

PatternSpec == PatternInit /\ [][PatternNext]_patternVars
-----------------------------------------------------------------------------
(* The language of patterns, with the ways to cut one into pieces: a literal *)
(* character that is no bracket, a doubled bracket, or a token. Meanings[i]  *)
(* are the texts file n gives to what begins at i. *)
Piece(p, i, n) ==
  (IF p[i] \notin {"[", "]"} THEN {<<i + 1, <<p[i]>>>>} ELSE {})
  \cup (IF p[i] \in {"[", "]"} /\ i < Len(p) /\ p[i + 1] = p[i]
        THEN {<<i + 2, <<p[i]>>>>} ELSE {})
  \cup {<<i + Len(t) + 2, ResolveTokenValue(t, n)>> :
          t \in {u \in DOMAIN Allowlist :
                   /\ i + Len(u) < Len(p)
                   /\ SubSeq(p, i, i + Len(u) + 1) = <<"[">> \o u \o <<"]">>}}

Meanings(p, n) ==
  LET from[i \in 1 .. Len(p) + 1] ==
        IF i = Len(p) + 1 THEN {<< >>}
        ELSE UNION {{e[2] \o rest : rest \in from[e[1]]} : e \in Piece(p, i, n)}
  IN IF p = << >> THEN {} ELSE from[1]

(* One pass from left to right, which never looks back, computes what the    *)
(* language means: it rejects only patterns that cannot be cut into pieces,  *)
(* takes none of those, and the text of a name is the one and only meaning   *)
(* its pattern has for that file. *)
RenderedIsMeaning ==
  /\ stage = "rejected" => Meanings(pattern, 1) = {}
  /\ stage \in {"rendering", "previewed"} => Meanings(pattern, 1) # {}
  /\ \A i \in DOMAIN drafts : Meanings(pattern, i) = {drafts[i]}

(* Whatever the pattern and the metadata hold, a candidate name stays in the *)
(* directory of its source: it is not empty, not hidden, holds no separator, *)
(* begins and ends with a letter or digit, and fits NameMax; and the texts   *)
(* it is made from fit their buffers with the NUL. *)
NameIsSafe ==
  /\ Len(pattern) < PatternSize /\ Len(rendered) < RenderSize
  /\ \A i \in DOMAIN names :
       /\ Len(names[i]) \in 1 .. NameMax
       /\ \A k \in DOMAIN names[i] : names[i][k] \in Range(Lower) \cup Marks
       /\ names[i][1] \notin Marks /\ Last(names[i]) \notin Marks

(* A pattern that ends the name in a dot and the format, like the built-in   *)
(* one, gives each file an extension that the scans still take for its       *)
(* format, also when the name had to be shortened. *)
ExtensionIsKept ==
  pattern = DefaultPattern =>
    \A i \in DOMAIN names : Extension(names[i]) = <<".">> \o Format(Batch[i].path)

(* The pattern that previews without one will use is always one that a       *)
(* preview can use: a pattern is saved after it was validated, and a pattern *)
(* that was cut to fit is validated as it was cut. *)
DefaultIsUsable == config # << >> => Meanings(config, 1) # {}
=============================================================================
