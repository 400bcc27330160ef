-------------------------- MODULE MCRenamerPattern --------------------------
(* Every pattern of up to five characters over brackets, a token's letter, a *)
(* separator and a dot, and some longer ones, on two files.                  *)
EXTENDS RenamerPattern

MCLower == [c \in {"a", "b", "t", "i", "f", "c", "j", "p", "0", "1", "2", "A", "J"} |->
              CASE c = "A" -> "a" [] c = "J" -> "j" [] OTHER -> c]
MCMix == [h \in {0, 1}, c \in DOMAIN MCLower \cup {"-", "_", ".", "/", "[", "]"} |-> 1 - h]
MCHex == [h \in {0, 1} |-> IF h = 0 THEN <<"0">> ELSE <<"1">>]
MCNumeral == <<<<"1">>, <<"2">>>>

MCAllowlist == (<<"t">> :> "tags") @@ (<<"i">> :> "index")
               @@ (<<"f">> :> "format") @@ (<<"c">> :> "camera") @@ (<<"d">> :> "datetime")
MCFallback == [field \in {"tags", "format", "camera", "datetime"} |-> <<"0", "-", "f">>]

MCDefault == <<"p", "[", "c", "]", "-", "[", "i", "]", ".", "[", "f", "]">>
MCDate == <<"2", "0", "1", "0", ":", "1", "1", ":", "0", "2", " ",
            "1", "2", ":", "0", "0", ":", "0", "1">>
MCBatch ==
  <<[dateTaken |-> << >>, make |-> <<"A">>, model |-> <<"b", "/">>, lat |-> << >>,
     lon |-> << >>, path |-> <<"/", "a", ".", "J", "p">>, tags |-> <<"a", "[", "-", "A">>,
     tags_manual |-> << >>, tags_meta |-> << >>],
    [dateTaken |-> MCDate, make |-> << >>, model |-> << >>, lat |-> <<"1">>,
     lon |-> <<"2">>, path |-> <<"/", "a", ".", "j">>, tags |-> <<"-">>,
     tags_manual |-> << >>, tags_meta |-> << >>]>>

Chars == {"[", "]", "t", "A", "/", "."}
Short == UNION {[1 .. n -> Chars] : n \in 0 .. 5}
Longer ==
  {MCDefault,
   <<"[", "t", "]", "-", "[", "t", "]">>,
   <<"[", "[", "t", "]", "]", "[", "i", "]">>,
   <<"[", "c", "]", "[", "c", "]", ".", "[", "f", "]">>,
   <<"[", "d", "]", "[", "d", "]">>,
   <<"A", "a", "A", "a", "A", "a", "A", "a", "A", "a", ".", "[", "f", "]">>,
   <<"A", "a", "A", "a", "A", "a", "A", "a", "A", "a", "A", "a", "[", "f", "]">>,
   <<"[", "d", "]", ".", "[", "f", "]">>}
MCFirst == Short \cup Longer
MCLater == {<< >>, MCDefault, <<"[", "t">>}
=============================================================================
