--------------------------- MODULE MCLanguageServer ---------------------------
(* An instance of LanguageServer for TLC: a project of two files, one of   *)
(* which the editor also knows by another spelling of its URI.             *)
EXTENDS LanguageServer

MCPathOf == [u \in Uris |-> IF u = "file:///q" THEN "q" ELSE "p"]
MCOwnUri == [p \in Paths |-> IF p = "q" THEN "file:///q" ELSE "file:///p"]
===============================================================================
