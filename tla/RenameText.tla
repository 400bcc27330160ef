----------------------------- MODULE RenameText -----------------------------
(* The text conversions of renamer_pattern.c and renamer_tags_common.c: the   *)
(* slug every token value and every finished file name goes through, the      *)
(* spelling of a tag, the parts of the date and of the path that become       *)
(* tokens, and the policy that shortens long names.                           *)
(* A text is a sequence of characters, a character a string of length one.   *)
EXTENDS Naturals, Sequences, SequencesExt

CONSTANTS
  Lower,    \* the ASCII letters and digits, each mapped to its lower case
  Basis,    \* the hash a name begins with, 2166136261
  Mix,      \* <<hash, character>> -> the next hash
  Hex,      \* hash -> its eight hex digits
  NameMax,  \* RENAMER_FILENAME_COMPONENT_MAX, 180
  ExtMax    \* the longest extension a shortened name keeps, 15

ASSUME NameMaxAssumption == NameMax \in Nat /\ ExtMax \in Nat

Marks == {"-", "_", "."}

(* A lower-case letter is its own lower case, and no mark is a letter.       *)
ASSUME LowerAssumption ==
  /\ \A c \in DOMAIN Lower : Lower[c] \in DOMAIN Lower /\ Lower[Lower[c]] = Lower[c]
  /\ Marks \cap DOMAIN Lower = {}

(* The digits are lower-case letters and digits, and a name that is cut has  *)
(* room for some of its characters, a mark, the digits and its extension. *)
ASSUME HashAssumption ==
  /\ Basis \in DOMAIN Hex
  /\ \A h \in DOMAIN Hex, c \in Range(Lower) \cup Marks : Mix[<<h, c>>] \in DOMAIN Hex
  /\ \A h \in DOMAIN Hex : /\ Hex[h] \in Seq(Range(Lower)) \ {<< >>}
                           /\ Len(Hex[h]) + ExtMax + 1 < NameMax

(* A loop over a text or a list, from left to right: FoldLeft, written as a  *)
(* recursive function. *)
Loop(Step(_, _), start, items) ==
  LET after[i \in 0 .. Len(items)] ==
        IF i = 0 THEN start ELSE Step(after[i - 1], items[i])
  IN after[Len(items)]

First(text, n) == SubSeq(text, 1, Min({n, Len(text)}))

Alphanumeric(c) == c \in DOMAIN Lower

(* Keep the first of a run of characters of marks, and at most size - 1      *)
(* characters: the body of both loops. *)
Squeeze(text, marks, size) ==
  Loop(LAMBDA out, c :
         IF \/ c \in marks /\ out # << >> /\ Last(out) \in marks
            \/ Len(out) + 1 >= size
         THEN out
         ELSE Append(out, c),
       << >>, text)

Trim(text, marks) ==
  LET kept == {i \in DOMAIN text : text[i] \notin marks}
  IN IF kept = {} THEN << >> ELSE SubSeq(text, Min(kept), Max(kept))

SqueezeThenTrim(text, marks, size) == Trim(Squeeze(text, marks, size), marks)

(* Everything that is neither alphanumeric nor a mark becomes "-". *)
SlugChar(c) ==
  CASE Alphanumeric(c) -> Lower[c]
    [] c \in Marks     -> c
    [] OTHER           -> "-"

TagChar(c) == IF Alphanumeric(c) THEN Lower[c] ELSE "-"

Mapped(Char(_), text) == [i \in DOMAIN text |-> Char(text[i])]

BuildSlug(text, size, fallback) ==
  LET slug == SqueezeThenTrim(Mapped(SlugChar, text), Marks, size)
  IN IF slug = << >> THEN First(fallback, size - 1) ELSE slug

(* A tag without any alphanumeric character is the empty tag, which every    *)
(* list ignores. *)
NormalizeTag(text, size) ==
  SqueezeThenTrim(Mapped(TagChar, text), {"-"}, size)

-----------------------------------------------------------------------------
(* The extension is what follows the last dot, the dot included, unless the  *)
(* name begins with it; one longer than ExtMax does not count. *)
DotOf(name) ==
  LET dots == {i \in DOMAIN name : name[i] = "."}
  IN IF dots = {} THEN 0 ELSE Max(dots)

Extension(name) ==
  IF DotOf(name) <= 1 \/ Len(name) - DotOf(name) + 1 > ExtMax THEN << >>
  ELSE SubSeq(name, DotOf(name), Len(name))

(* The FNV-1a hash, whose arithmetic is left open. *)
Fnv1a32(name) == Loop(LAMBDA hash, c : Mix[<<hash, c>>], Basis, name)
Digest(name) == Hex[Fnv1a32(name)]

(* Mutant: the suffix is put after the extension. *)
SuffixLast(name) ==
  LET suffix == <<"-">> \o Digest(name)
  IN IF Len(name) <= NameMax THEN name
     ELSE First(name, NameMax - Len(suffix)) \o suffix

ApplyLengthPolicy(name) ==
  LET suffix == <<"-">> \o Digest(name)
      ext    == Extension(name)
      taken  == Len(suffix) + Len(ext)
      keep   == IF NameMax > taken THEN NameMax - taken ELSE 0
  IN IF Len(name) <= NameMax THEN name
     ELSE First(name, keep) \o suffix \o ext
=============================================================================
