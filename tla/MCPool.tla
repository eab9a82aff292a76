---- MODULE MCPool ----
(* A is pooled and holds itself, B and C; B embeds D of its own package, C  *)
(* of the other one, both or none.  A change of the sources may give D a     *)
(* field without a statement, or mark E, which has type parameters.         *)
EXTENDS Pool, TLC

CONSTANTS A, B, C, D, E, g1, g2, o1

MCPkgOf == (A :> "p") @@ (B :> "p") @@ (C :> "q") @@ (D :> "p") @@ (E :> "q")

Field(k, T, e, o) == [kind |-> k, type |-> T, embedded |-> e, ok |-> o]
Plain(k) == Field(k, "none", FALSE, TRUE)
Holds(T) == Field("struct", T, FALSE, TRUE)
Embeds(T) == Field("struct", T, TRUE, TRUE)
Blank == Field("value", "none", FALSE, FALSE)

MCShapes ==
    (A :> {Plain("value"), Plain("kept"), Holds(A), Holds(B), Holds(C)})
    @@ (B :> {Embeds(C), Embeds(D)}) @@ (C :> {Plain("value")})
    @@ (D :> {Plain("value"), Blank}) @@ (E :> {})

MCStartFields ==
    {[T \in Types |-> CASE T = B -> S [] T = D -> {Plain("value")} [] OTHER -> MCShapes[T]] :
        S \in SUBSET MCShapes[B]}
====
