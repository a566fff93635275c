---- MODULE MCParameters ----
(***************************************************************************)
(* All texts of at most MaxLength characters.  The value of p is a         *)
(* parameter itself, and that of q begins one.                             *)
(***************************************************************************)
EXTENDS Parameters

CONSTANT MaxLength

MCChars  == {"$", "(", ")", "p"}
MCTexts  == UNION {[1 .. n -> MCChars] : n \in 0 .. MaxLength}
MCParams == (<<"p">> :> <<"$", "(", "p", ")">>) @@ (<<"p", "p">> :> <<"$">>)
====
