----------------------------- MODULE MCWordCount -----------------------------
(* A small instance of WordCount for TLC: a space, an apostrophe, a letter of *)
(* each case.                                                                 *)
EXTENDS WordCount
=============================================================================
