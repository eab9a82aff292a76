-------------------------------- MODULE Pool --------------------------------
(***************************************************************************)
(* Pool[*Elem] in a program built from the sources and the generated files *)
(* of ResetGen: goroutines Get an object, use it and Put it back, which    *)
(* resets it first and then hands it to sync.Pool.  What an object holds   *)
(* is the set of its fields, and of those of the structs in it, down to a  *)
(* depth, that are not zero.                                               *)
(***************************************************************************)
EXTENDS ResetGen

CONSTANTS
    Elem,        \* the struct in the pool
    Depth,       \* bound on the structs inside one another
    Goroutines,
    Objects

ASSUME ObjectsAssumption ==
    Elem \in Types /\ Depth \in Nat /\ Objects # {} /\ \A g \in Goroutines : g \notin {"none", "pool"}

VARIABLES
    built,  \* a program has been built and runs: the sources stay as they are
    place,  \* of each object: "none", "pool" or a goroutine
    dirty,  \* of each object: the fields that are not zero
    pc,     \* of each goroutine: "idle", "got", "using" or "resetting"
    held    \* the object each goroutine works with

poolVars == <<built, place, dirty, pc, held>>
vars == <<genVars, poolVars>>

Init ==
    /\ GenInit
    /\ built = FALSE
    /\ place = [o \in Objects |-> "none"]
    /\ dirty = [o \in Objects |-> {}]
    /\ pc = [g \in Goroutines |-> "idle"]
    /\ held \in [Goroutines -> {CHOOSE o \in Objects : TRUE}]

\* The go compiler: everything compiles and Elem meets the constraint.
Build ==
    /\ ~built
    /\ next = 0
    /\ \A p \in Packages : Compiles(p)
    /\ Elem \in WithReset
    /\ built' = TRUE
    /\ UNCHANGED <<genVars, place, dirty, pc, held>>

Structs == {f \in AllFields : f.kind = "struct"}

\* All the fields of an object that are not structs themselves, each with
\* the fields that lead to it.
Leaves ==
    {l \in (UNION {Paths(Elem, n, Structs) : n \in 0..Depth}) \X (AllFields \ Structs) :
        l[2] \in fields[End(Elem, l[1])]}

\* The struct that i of the fields lead to.
At(s, i) == IF i = 0 THEN Elem ELSE s[i].type

Statements(T) == UNION {gen[p][T] : p \in {q \in Packages : T \in DOMAIN gen[q]}}

\* The fields a struct's own method clears and those whose Reset it calls;
\* one that is written by hand keeps to the same rules.
Zeroes(T) ==
    IF written[T] = "method" THEN {f \in fields[T] : f.kind = "value" /\ f.ok}
    ELSE {s.field : s \in {t \in Statements(T) : t.op = "zero"}}
Calls(T) ==
    IF written[T] = "method"
    THEN {f \in fields[T] : f.kind = "struct" /\ f.ok /\ f.type \in WithReset}
    ELSE {s.field : s \in {t \in Statements(T) : t.op = "call"}}

\* The call of Elem's Reset comes to the struct at the end of a path: the
\* methods that run on the way are those of the structs in M, each called by
\* one before it and perhaps promoted to where it is called.
Runs(s) ==
    \E M \in SUBSET (0..Len(s)) :
        /\ Len(s) \in M
        /\ \A m \in M :
              \/ Promotes(Elem, SubSeq(s, 1, m))
              \/ \E k \in M :
                    /\ k < m
                    /\ s[k + 1] \in Calls(At(s, k))
                    /\ Promotes(s[k + 1].type, SubSeq(s, k + 2, m))

\* What Reset clears.
Cleared == {l \in Leaves : Runs(l[1]) /\ l[2] \in Zeroes(End(Elem, l[1]))}

\* sync.Pool.Get: any object of the pool, or a new one from the factory.
Get(g) ==
    /\ pc[g] = "idle"
    /\ \E o \in Objects :
          /\ place[o] \in {"pool", "none"}
          /\ place' = [place EXCEPT ![o] = g]
          /\ dirty' = [dirty EXCEPT ![o] = IF place[o] = "none" THEN {} ELSE @]
          /\ held' = [held EXCEPT ![g] = o]
    /\ pc' = [pc EXCEPT ![g] = "got"]
    /\ UNCHANGED built

\* The caller fills the object.
Use(g) ==
    /\ pc[g] = "got"
    /\ dirty' = [dirty EXCEPT ![held[g]] = Leaves]
    /\ pc' = [pc EXCEPT ![g] = "using"]
    /\ UNCHANGED <<built, place, held>>

\* MUTANT of Put: the object is in the pool before it is reset.
PutStoresFirst(g) ==
    \/ /\ pc[g] = "using"
       /\ place' = [place EXCEPT ![held[g]] = "pool"]
       /\ pc' = [pc EXCEPT ![g] = "resetting"]
       /\ UNCHANGED <<built, dirty, held>>
    \/ /\ pc[g] = "resetting"
       /\ dirty' = [dirty EXCEPT ![held[g]] = @ \ Cleared]
       /\ pc' = [pc EXCEPT ![g] = "idle"]
       /\ UNCHANGED <<built, place, held>>

\* v.Reset, then sync.Pool.Put.
Put(g) ==
    \/ /\ pc[g] = "using"
       /\ dirty' = [dirty EXCEPT ![held[g]] = @ \ Cleared]
       /\ pc' = [pc EXCEPT ![g] = "resetting"]
       /\ UNCHANGED <<built, place, held>>
    \/ /\ pc[g] = "resetting"
       /\ place' = [place EXCEPT ![held[g]] = "pool"]
       /\ pc' = [pc EXCEPT ![g] = "idle"]
       /\ UNCHANGED <<built, dirty, held>>

\* sync.Pool forgets an object at a garbage collection.
Collect ==
    /\ \E o \in Objects : place[o] = "pool" /\ place' = [place EXCEPT ![o] = "none"]
    /\ UNCHANGED <<built, dirty, pc, held>>

Next ==
    \/ ~built /\ GenNext /\ UNCHANGED poolVars
    \/ Build
    \/ built /\ UNCHANGED genVars /\ ((\E g \in Goroutines : Get(g) \/ Use(g) \/ Put(g)) \/ Collect)

Spec == Init /\ [][Next]_vars
-----------------------------------------------------------------------------
\* The structs the rules speak of: with a Reset of one's own or a mark.  The
\* method of a struct that has lost its mark may linger in an old file.
Resettable == marked \cup {T \in Types : written[T] = "method"}

\* What the rules do not reach: fields of a kind no rule covers or that have
\* no statement, and all that is inside a struct without a Reset of its own.
Outside ==
    {l \in Leaves :
        \/ l[2].kind = "kept" \/ ~l[2].ok
        \/ \E i \in 1..Len(l[1]) : ~l[1][i].ok
        \/ \E i \in 0..Len(l[1]) : At(l[1], i) \notin Resettable}

(* An object that Get returns carries nothing over from its last user,      *)
(* except what the rules of Reset do not reach, and nobody else clears it   *)
(* while it is in use, provided the files were settled when the program was *)
(* built.                                                                   *)
PoolClean ==
    built => \A g \in Goroutines :
        /\ pc[g] = "got" /\ Settled => dirty[held[g]] \subseteq Outside
        /\ pc[g] = "using" => dirty[held[g]] = Leaves
=============================================================================
