---------------------------- MODULE MCDBStorage ----------------------------
(* Two batches that write the same rows in opposite orders, and one        *)
(* POST /update of a row they share.                                       *)
EXTENDS DBStorage, TLC

CONSTANTS h1, h2, h3, a, b

HandlersDef == {h1, h2, h3}
RowsDef == {a, b}
BatchDef == h1 :> <<a, b>> @@ h2 :> <<b, a>> @@ h3 :> <<a>>
SinglesDef == {h3}
=============================================================================
