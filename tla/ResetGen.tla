------------------------------ MODULE ResetGen ------------------------------
(***************************************************************************)
(* cmd/reset: Run regenerates the reset.gen.go of every package, one       *)
(* directory after the other in the order of their names, while the        *)
(* sources change between the runs.  The generator loads each package with *)
(* the file of the last run in it, so that what it emits depends on the    *)
(* methods it finds there.                                                 *)
(*                                                                         *)
(* A field is a record of kind, type, embedded and ok.  The kind is        *)
(* "value" for what is reset in place (basic types, slices, maps, pointers *)
(* to basic types and named types over these), "struct" for T or *T, and   *)
(* "kept" for what no rule covers (arrays, interfaces, channels, pointers  *)
(* to slices or maps).  ok says whether a statement about the field        *)
(* compiles: one about a blank field does not, nor does 0 for an           *)
(* unsafe.Pointer, or clear before Go 1.21.                                *)
(***************************************************************************)
EXTENDS Naturals, Sequences, FiniteSets

CONSTANTS
    Types,       \* the structs
    PkgOf,       \* their packages
    Shapes,      \* for each struct the fields it may have
    StartFields, \* the fields the structs may begin with
    Unfit,       \* structs that no receiver *T compiles for: with type
                 \* parameters, or with a name that begins with "_"
    MaxEdits     \* bound on the changes of the sources

Packages == {PkgOf[T] : T \in Types}

ASSUME PackagesAssumption == Types # {} /\ IsFiniteSet(Types) /\ IsFiniteSet(Packages)

ASSUME ShapesAssumption ==
    /\ \A T \in Types : \A f \in Shapes[T] :
          /\ f.kind \in {"value", "kept", "struct"}
          /\ f.kind = "struct" \/ f.embedded => f.type \in Types
    /\ \A s \in StartFields :
          DOMAIN s = Types /\ \A T \in Types : s[T] \subseteq Shapes[T]

VARIABLES
    order,   \* the packages as sort.Strings has them
    marked,  \* structs with the comment // generate:reset
    fields,  \* the fields of each struct
    written, \* what is written by hand under the name Reset in each struct: "none",
             \* the "method", or "other": a field, a method with parameters or results
    gen,     \* reset.gen.go of each package: a struct to its statements
    next,    \* the package Run is at, 0 outside Run
    runs,    \* complete Runs since the last change, up to 2
    lost,    \* history: structs that have lost their method in these Runs
    edits    \* number of changes

genVars == <<order, marked, fields, written, gen, next, runs, lost, edits>>

MarkedIn(p) == {T \in marked : PkgOf[T] = p}

-----------------------------------------------------------------------------
(* The methods, as go/types and the compiler see them.                      *)

AllFields == UNION {fields[T] : T \in Types}
Embedded == {f \in AllFields : f.embedded}

\* The ways of n fields of a set into a struct, and where one ends.
Paths(T, n, F) ==
    {s \in [1..n -> F] : \A i \in 1..n : s[i] \in fields[IF i = 1 THEN T ELSE s[i - 1].type]}
End(T, s) == IF s = <<>> THEN T ELSE s[Len(s)].type

Generated == UNION {DOMAIN gen[p] : p \in Packages}
Named(T) == written[T] # "none" \/ T \in Generated
OwnReset(T) == written[T] = "method" \/ T \in Generated

\* The Reset of a struct is the one at the end of these embedded fields: no
\* other Reset is embedded as deep or less deep.
Promotes(T, s) ==
    /\ s \in Paths(T, Len(s), Embedded)
    /\ OwnReset(End(T, s))
    /\ \A n \in 0..Len(s) : \A r \in Paths(T, n, Embedded) : Named(End(T, r)) => r = s

\* Embedded fields beyond this number come to a struct for the second time.
MaxDepth == Cardinality(Types) - 1

\* The structs whose pointer has a Reset method, their own or promoted.
WithReset == {T \in Types : \E n \in 0..MaxDepth : \E s \in Paths(T, n, Embedded) : Promotes(T, s)}

\* The generated file of a package: a method has a receiver and is declared
\* once, its statements name fields of the struct, and what it calls is there.
Compiles(p) ==
    \A T \in DOMAIN gen[p] :
        /\ T \notin Unfit
        /\ written[T] = "none"
        /\ \A s \in gen[p][T] :
              /\ s.field \in fields[T] /\ s.field.ok
              /\ s.op = "call" => s.field.type \in WithReset

Imports(p) ==
    {PkgOf[f.type] : f \in UNION {{g \in fields[T] : g.kind = "struct" \/ g.embedded} :
                                     T \in {U \in Types : PkgOf[U] = p}}}

\* packages.Load without errors: the package and all it depends on compile.
Loads(p) ==
    \E S \in SUBSET Packages :
        p \in S /\ \A q \in S : Compiles(q) /\ Imports(q) \subseteq S

-----------------------------------------------------------------------------
GenInit ==
    /\ order \in {o \in [1..Cardinality(Packages) -> Packages] : \A p \in Packages : \E i \in DOMAIN o : o[i] = p}
    /\ marked \in SUBSET Types
    /\ fields \in StartFields
    /\ written = [T \in Types |-> "none"]
    /\ gen = [p \in Packages |-> <<>>]
    /\ next = 0
    /\ runs = 0
    /\ lost = {}
    /\ edits = 0

-----------------------------------------------------------------------------
(* The sources change: a comment, a field, a Reset, a generated file.       *)

Toggle(S, x) == IF x \in S THEN S \ {x} ELSE S \cup {x}

Edit ==
    /\ next = 0
    /\ edits < MaxEdits
    /\ edits' = edits + 1
    /\ runs' = 0
    /\ lost' = {}
    /\ UNCHANGED <<order, next>>

EditMark(T) == Edit /\ marked' = Toggle(marked, T) /\ UNCHANGED <<fields, written, gen>>

EditField(T, f) ==
    Edit /\ fields' = [fields EXCEPT ![T] = Toggle(@, f)] /\ UNCHANGED <<marked, written, gen>>

EditMethod(T) ==
    /\ Edit
    /\ \E w \in {"none", "method", "other"} \ {written[T]} : written' = [written EXCEPT ![T] = w]
    /\ UNCHANGED <<marked, fields, gen>>

EditRemoveFile(p) ==
    Edit /\ gen[p] # <<>> /\ gen' = [gen EXCEPT ![p] = <<>>] /\ UNCHANGED <<marked, fields, written>>

-----------------------------------------------------------------------------
(* The generator.                                                           *)

\* MUTANT of hasOrWillHaveReset: only the methods that exist are looked at.
hasResetOnly(T, p) == T \in WithReset

\* A method found in the loaded package, or one this file will have.
hasOrWillHaveReset(T, p) == T \in WithReset \/ T \in MarkedIn(p)

\* The statement for a field, if there is one.
resetField(f, p) ==
    CASE f.kind = "value" -> {[field |-> f, op |-> "zero"]}
      [] f.kind = "struct" /\ hasOrWillHaveReset(f.type, p) -> {[field |-> f, op |-> "call"]}
      [] OTHER -> {}

buildFile(p) == [T \in MarkedIn(p) |-> UNION {resetField(f, p) : f \in fields[T]}]

RunStart ==
    /\ next = 0
    /\ next' = 1
    /\ UNCHANGED <<order, marked, fields, written, gen, runs, lost, edits>>

\* A package that does not load ends Run with an error.
RunFails ==
    /\ next # 0
    /\ ~Loads(order[next])
    /\ next' = 0
    /\ runs' = 0
    /\ UNCHANGED <<order, marked, fields, written, gen, lost, edits>>

\* The file of a package with a marked struct is written, that of any other
\* package stays as it is.
RunPackage ==
    LET p == order[next]
    IN  /\ next # 0
        /\ Loads(p)
        /\ UNCHANGED <<order, marked, fields, written, edits>>
        /\ gen' = IF MarkedIn(p) = {} THEN gen ELSE [gen EXCEPT ![p] = buildFile(p)]
        /\ lost' = lost \cup (WithReset \ WithReset')
        /\ IF next = Len(order)
           THEN next' = 0 /\ runs' = (IF runs = 2 THEN 2 ELSE runs + 1)
           ELSE next' = next + 1 /\ UNCHANGED runs

GenNext ==
    \/ \E T \in Types : EditMark(T) \/ EditMethod(T) \/ \E f \in Shapes[T] : EditField(T, f)
    \/ \E p \in Packages : EditRemoveFile(p)
    \/ RunStart \/ RunFails \/ RunPackage

-----------------------------------------------------------------------------
Position(p) == CHOOSE i \in DOMAIN order : order[i] = p

\* The structs that are embedded in one.
Below(T) == {End(T, s) : s \in UNION {Paths(T, n, Embedded) : n \in 1..MaxDepth}}

\* Whether a struct has a method is not known yet when the file of p is
\* written: it is marked in a package Run comes to later, or it embeds a
\* struct of a package that is not written yet.
Late(T, p) ==
    \/ T \in marked /\ Position(p) < Position(PkgOf[T])
    \/ \E V \in Below(T) : MarkedIn(PkgOf[V]) # {} /\ Position(p) <= Position(PkgOf[V])

LateDependency ==
    \E T \in marked : \E f \in fields[T] : f.kind = "struct" /\ Late(f.type, PkgOf[T])

\* What breaks the file of a package although Run has reported no error: a
\* marked struct that has no receiver or uses the name Reset already, a
\* statement about a field that has none, or a call of a method that was
\* there when the file was written and that these Runs have removed.
Broken(p) ==
    \E T \in DOMAIN gen[p] :
        \/ T \in Unfit
        \/ written[T] # "none"
        \/ \E s \in gen[p][T] : ~s.field.ok \/ (s.op = "call" /\ s.field.type \in lost)

Settled == next = 0 /\ runs > 0 /\ (runs = 2 \/ ~LateDependency)

(* After a Run without an error the generated files compile, but for the    *)
(* cases of Broken, and nothing is left to generate: another Run would      *)
(* write the same files.  Where a struct depends on a package that is       *)
(* written later, or on a method promoted from one that is not written      *)
(* yet, it takes a second Run.                                              *)
RunSettles ==
    /\ next = 0 /\ runs > 0 => \A p \in Packages : Compiles(p) \/ Broken(p)
    /\ Settled /\ (\A p \in Packages : Compiles(p)) =>
          \A p \in Packages : MarkedIn(p) # {} => gen[p] = buildFile(p)
=============================================================================
