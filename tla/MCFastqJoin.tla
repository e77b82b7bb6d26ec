----------------------------- MODULE MCFastqJoin -----------------------------
(***************************************************************************)
(* Model-checking instance of FastqJoin: reads of length 0 to 2 over two   *)
(* bases and two quality symbols, up to three reads per file, so that files  *)
(* of equal and unequal length, empty files and empty reads all occur.     *)
(***************************************************************************)
EXTENDS FastqJoin

MCReadSet ==
  {[header |-> "h1", seq |-> <<>>,         qual |-> <<>>],
   [header |-> "h2", seq |-> <<"A">>,      qual |-> <<"?">>],
   [header |-> "h3", seq |-> <<"A", "C">>, qual |-> <<"?", "5">>]}

\* No padding, the default "NNNNNNNN"/"IIIIIIII" cut to one symbol, and a
\* padding whose quality string is too long.
MCPadOptions ==
  {<<<<>>, <<>>>>, <<<<"N">>, <<"I">>>>, <<<<"N">>, <<"I", "I">>>>}

MCOutputConfigs == {{}, {"fastqout"}, {"fastqout", "fastaout"}}

MCComplement == [b \in {"A", "C", "G", "T", "N"} |->
                   CASE b = "A" -> "T" [] b = "C" -> "G" [] b = "G" -> "C"
                     [] b = "T" -> "A" [] b = "N" -> "N"]

=============================================================================
