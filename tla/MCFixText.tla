----------------------------- MODULE MCFixText -----------------------------
(***************************************************************************)
(* The instance of FixText for TLC: values that end in a delimiter, that   *)
(* go on with more text, or with a field of their own.                     *)
(***************************************************************************)
EXTENDS FixText

MCRests == {<< >>, <<<<"empty">>>>, <<<<"no_separator">>>>, <<<<"field", 11, "a">>>>}

=============================================================================
