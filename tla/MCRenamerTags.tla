---------------------------- MODULE MCRenamerTags ----------------------------
(* Two files, a third whose path differs from the first one's in case only,   *)
(* and one whose metadata has too many tags; three tags in several spellings, *)
(* a map that replaces one entry under two paths and one that cannot be       *)
(* resolved.                                                                  *)
EXTENDS RenamerTags

CONSTANTS f1, twin, f2, f3, gone

MCLower == [c \in {"a", "b", "c", "A", "B"} |->
              CASE c = "A" -> "a" [] c = "B" -> "b" [] OTHER -> c]
MCMix == [h \in {0}, c \in DOMAIN MCLower \cup Marks |-> 0]
MCHex == [h \in {0} |-> <<"a">>]

MCKey == [p \in {f1, twin, f2, f3, gone} |-> IF p = twin THEN f1 ELSE p]

MCMetadata ==
  (f1 :> <<[key |-> "Keywords", tags |-> <<<<"A">>, <<"-">>>>],
           [key |-> "Title",    tags |-> <<<<"c">>>>],
           [key |-> "Subject",  tags |-> <<<<"a", "_">>>>]>>)
  @@ (twin :> << >>) @@ (f2 :> << >>)
  @@ (f3 :> <<[key |-> "Keywords", tags |-> <<<<"a">>, <<"b">>, <<"c">>>>]>>)

MCTyped == {<<<<"A">>, <<"b">>>>, <<<<" ", "a">>>>}
TwinMap == <<[path |-> twin, manual |-> << >>, adds |-> << >>, hidden |-> << >>],
             [path |-> f1, manual |-> <<<<"c">>>>, adds |-> <<<<"b">>, <<"a">>>>,
              hidden |-> <<<<"A">>>>]>>
GoneMap == <<[path |-> gone, manual |-> << >>, adds |-> << >>, hidden |-> << >>]>>

(* At most two edits of two tags each of the shared entry, maps for a batch   *)
(* that is empty, and previews that ask for nothing.                          *)
MCCsvs == {<< >>, <<<<"a">>>>, <<<<"B", "/">>, <<" ", "a">>>>}
MCRequests ==
  {r \in [batch : {{f1, twin}}, map : {<< >>, TwinMap}, add : MCCsvs, remove : MCCsvs,
          metaAdd : MCCsvs, metaRemove : MCCsvs] :
     Cardinality({e \in {"map", "add", "remove", "metaAdd", "metaRemove"} : r[e] # << >>}) <= 2}
  \cup {[NoRequest EXCEPT !.map = map] : map \in {TwinMap, GoneMap}}
  \cup {[NoRequest EXCEPT !.batch = batch] : batch \in {{f1}, {f1, f2}, {f3}}}
=============================================================================
