-------------------------- MODULE MCLanguageServer --------------------------
(* An editor with two documents and two texts: one that does not parse     *)
(* (two errors) and one CodeGen rejects.  A text without errors would be   *)
(* told apart from them in the same way, by Diagnostics' field `of`.       *)
EXTENDS LanguageServer

CONSTANTS broken, rejected

Errors == [t \in Texts |-> IF t = broken THEN 2 ELSE 0]
=============================================================================
