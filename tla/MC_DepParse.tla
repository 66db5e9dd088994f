----------------------------- MODULE MC_DepParse -----------------------------
(* Every text of up to five characters over the operator characters, '!',  *)
(* the tag separator, one name character and one version digit.           *)
EXTENDS DepParse

MCAlphabet == {"!", "<", ">", "~", "=", "@", "a", "1"}
=============================================================================
