----------------------------- MODULE MCGuiState -----------------------------
(* Real ranges and defaults, a few texts of every kind. *)
EXTENDS GuiState, TLC

MCNumber == [t \in {"0", "1", "3", "8", "19", "200", "256", "999", "1000000", "-5"} |->
               CASE t = "0" -> 0 [] t = "1" -> 1 [] t = "3" -> 3 [] t = "8" -> 8
                 [] t = "19" -> 19 [] t = "200" -> 200 [] t = "256" -> 256
                 [] t = "999" -> 999 [] t = "1000000" -> 1000000 [] OTHER -> -5]
MCFraction ==
  ("0.000" :> 0) @@ ("0.920" :> 9200) @@ ("0.9203" :> 9203)
  @@ ("0.9207" :> 9207) @@ ("0.921" :> 9210) @@ ("1.000" :> 10000) @@ ("999" :> 9990000)

MCFiles ==
  {[dir |-> "g", jobs |-> 999, level |-> 25, threshold |-> 17000, pattern |-> " "],
   [dir |-> "g", zstd |-> TRUE, jobs |-> 8, level |-> 19, threshold |-> 9203,
    pattern |-> "p", keep |-> -5]}
=============================================================================
