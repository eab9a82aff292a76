----------------------------- MODULE PoolProofs -----------------------------
(***************************************************************************)
(* Proofs about ResetGen and Pool for any structs, packages and            *)
(* goroutines.  What the generator writes depends on the methods it finds  *)
(* while it runs; the inductive invariant keeps, for every file it has     *)
(* written, the set of methods it was written with, and how far that set   *)
(* can be from the methods there are now.                                  *)
(***************************************************************************)
EXTENDS Pool, FiniteSetTheorems, TLAPS

(* What the steps need to know of the types.                                *)
GenTypeInv ==
    /\ order \in [1..Cardinality(Packages) -> Packages]
    /\ \A p \in Packages : \E i \in DOMAIN order : order[i] = p
    /\ marked \subseteq Types
    /\ DOMAIN fields = Types
    /\ \A T \in Types : fields[T] \subseteq Shapes[T]
    /\ DOMAIN gen = Packages
    /\ \A p \in Packages : \A T \in DOMAIN gen[p] : T \in Types /\ PkgOf[T] = p
    /\ next \in 0..Cardinality(Packages)
    /\ runs \in {0, 1, 2}

(* Run has been at a package since the last change of the sources; and with *)
(* the methods of a complete Run before.                                    *)
Passed(p) == \E i \in 1..(next - 1) : order[i] = p
Done(p) == runs > 0 \/ Passed(p)
Fresh(p) == runs = 2 \/ (runs = 1 /\ Passed(p))

(* The statements for a struct when the structs in X have a method.         *)
Stmts(T, X) ==
    {[field |-> f, op |-> "zero"] : f \in {g \in fields[T] : g.kind = "value"}}
    \cup {[field |-> f, op |-> "call"] : f \in {g \in fields[T] : g.kind = "struct" /\ g.type \in X}}

(* The file of a package was written with methods that are there or lost    *)
(* since, and with all that are there but for those that came later.        *)
WrittenWith(p, X) ==
    /\ gen[p] = [T \in MarkedIn(p) |-> Stmts(T, X)]
    /\ X \subseteq WithReset \cup lost
    /\ \A T \in WithReset \ X : Late(T, p)
    /\ Fresh(p) => WithReset \subseteq X

FilesInv == \A p \in Packages : Done(p) /\ MarkedIn(p) # {} => \E X : WrittenWith(p, X)

(* Also the files that are left as they are name fields of the structs, and *)
(* call methods that are there or lost since.                               *)
CallsInv ==
    \A p \in Packages : Done(p) => \A T \in DOMAIN gen[p] : \A s \in gen[p][T] :
        s.field \in fields[T] /\ (s.op = "call" => s.field.type \in WithReset \cup lost)

GenInv == GenTypeInv /\ FilesInv /\ CallsInv

-----------------------------------------------------------------------------
(* The packages are counted, and there is one.                              *)
LEMMA Count == Cardinality(Packages) \in Nat /\ Cardinality(Packages) >= 1
<1>1. Packages # {}
  BY PackagesAssumption DEF Packages
<1> QED BY <1>1, PackagesAssumption, FS_CardinalityType, FS_EmptySet

(* Every package has a place in the list.                                  *)
LEMMA OrderIsList ==
    ASSUME GenTypeInv
    PROVE  Len(order) = Cardinality(Packages) /\ DOMAIN order = 1..Cardinality(Packages)
<1>1. DOMAIN order = 1..Cardinality(Packages)
  BY DEF GenTypeInv
<1> QED BY <1>1, Count DEF GenTypeInv

(* Position finds a package where it is.                                    *)
LEMMA PositionIs ==
    ASSUME GenTypeInv, NEW i \in DOMAIN order
    PROVE  Position(order[i]) = i
<1> DEFINE n == Cardinality(Packages)
<1>1. n \in Nat /\ IsFiniteSet(1..n) /\ Cardinality(1..n) = n
  BY Count, FS_Interval
<1>2. order \in Surjection(1..n, Packages)
  BY OrderIsList DEF GenTypeInv, Surjection
<1>3. order \in Injection(1..n, Packages)
  BY <1>1, <1>2, FS_SurjSameCardinalityImpliesInj
<1>4. \A j \in DOMAIN order : order[j] = order[i] => j = i
  BY <1>3 DEF Injection, IsInjective
<1> QED BY <1>4 DEF Position

-----------------------------------------------------------------------------
(* Methods, own and promoted.                                               *)

(* The way of no fields.                                                    *)
LEMMA EmptyPath ==
    ASSUME NEW T, NEW F
    PROVE  Paths(T, 0, F) = {<<>>} /\ End(T, <<>>) = T
<1>1. \A s \in [1..0 -> F] : s = <<>>
  OBVIOUS
<1>2. <<>> \in [1..0 -> F]
  OBVIOUS
<1>3. 1..0 = {}
  OBVIOUS
<1>4. Paths(T, 0, F) = [1..0 -> F]
  BY <1>3 DEF Paths
<1>5. End(T, <<>>) = T
  BY DEF End
<1> QED BY <1>1, <1>2, <1>4, <1>5

(* The structs are counted.                                                 *)
LEMMA DepthIsNat == MaxDepth \in Nat
<1>1. Cardinality(Types) \in Nat /\ Cardinality(Types) # 0
  BY PackagesAssumption, FS_CardinalityType, FS_EmptySet
<1> QED BY <1>1 DEF MaxDepth

(* A Reset of one's own hides all that are embedded.                        *)
LEMMA OwnComesFirst ==
    ASSUME NEW T, OwnReset(T)
    PROVE  Promotes(T, <<>>) /\ (T \in Types => T \in WithReset)
<1>1. Len(<<>>) = 0 /\ 0..0 = {0}
  OBVIOUS
<1>2. Promotes(T, <<>>)
  BY <1>1, EmptyPath DEF Promotes
<1>3. <<>> \in Paths(T, 0, Embedded) /\ 0 \in 0..MaxDepth
  BY EmptyPath, DepthIsNat
<1> QED BY <1>2, <1>3 DEF WithReset

(* The same after a step.                                                   *)
LEMMA OwnAfter ==
    ASSUME NEW T \in Types, OwnReset(T)'
    PROVE  T \in WithReset'
<1>1. Len(<<>>) = 0 /\ 0..0 = {0} /\ 0 \in 0..MaxDepth
  BY DepthIsNat
<1>2. \A F : Paths(T, 0, F)' = {<<>>} /\ End(T, <<>>) = T
  <2> SUFFICES ASSUME NEW F PROVE Paths(T, 0, F)' = {<<>>}
    BY DEF End
  <2>1. \A s \in [1..0 -> F] : s = <<>>
    OBVIOUS
  <2>2. <<>> \in [1..0 -> F] /\ 1..0 = {}
    OBVIOUS
  <2>3. Paths(T, 0, F)' = [1..0 -> F]
    BY <2>2 DEF Paths
  <2> QED BY <2>1, <2>2, <2>3
<1>3. Promotes(T, <<>>)'
  BY <1>1, <1>2 DEF Promotes
<1> QED BY <1>1, <1>2, <1>3 DEF WithReset

(* Which methods a struct has depends on those that are declared for it and *)
(* for the structs it embeds.                                               *)
LEMMA MethodsFrom ==
    ASSUME UNCHANGED <<fields, written>>, NEW T \in Types,
           \A V \in {T} \cup Below(T) : V \in Generated' <=> V \in Generated
    PROVE  T \in WithReset' <=> T \in WithReset
<1>1. Embedded' = Embedded /\ \A n, F : Paths(T, n, F)' = Paths(T, n, F)
  BY DEF Embedded, AllFields, Paths
<1>2. ASSUME NEW n \in 0..MaxDepth, NEW s \in Paths(T, n, Embedded)
      PROVE  End(T, s) \in {T} \cup Below(T) /\ Len(s) = n
  <2>1. s \in [1..n -> Embedded] /\ Len(s) = n
    BY DepthIsNat DEF Paths
  <2>2. CASE n = 0
    BY <1>2, <2>1, <2>2, EmptyPath
  <2>3. CASE n # 0
    BY <2>1, <2>3, DepthIsNat DEF Below
  <2> QED BY <2>2, <2>3
<1>3. ASSUME NEW n \in 0..MaxDepth, NEW s \in Paths(T, n, Embedded)
      PROVE  (Named(End(T, s))' <=> Named(End(T, s))) /\ (OwnReset(End(T, s))' <=> OwnReset(End(T, s)))
  <2>1. End(T, s)' = End(T, s)
    BY DEF End
  <2> QED BY <1>2, <2>1 DEF Named, OwnReset
<1>4. ASSUME NEW n \in 0..MaxDepth, NEW s \in Paths(T, n, Embedded)
      PROVE  Promotes(T, s)' <=> Promotes(T, s)
  <2>1. Len(s) = n
    BY <1>2
  <2>2. \A m \in 0..n : m \in 0..MaxDepth
    BY DepthIsNat
  <2>3. \A m \in 0..n : \A r \in Paths(T, m, Embedded) : Named(End(T, r))' <=> Named(End(T, r))
    BY <1>3, <2>2
  <2>4. OwnReset(End(T, s))' <=> OwnReset(End(T, s))
    BY <1>3
  <2> QED BY <1>1, <2>1, <2>3, <2>4 DEF Promotes
<1>5. T \in WithReset <=> \E n \in 0..MaxDepth : \E s \in Paths(T, n, Embedded) : Promotes(T, s)
  BY DEF WithReset
<1>6. T \in WithReset' <=> \E n \in 0..MaxDepth : \E s \in Paths(T, n, Embedded) : Promotes(T, s)'
  BY <1>1 DEF WithReset
<1> QED BY <1>4, <1>5, <1>6

(* Files that declare the same methods leave the methods as they are.       *)
LEMMA SameMethods ==
    ASSUME UNCHANGED <<fields, written>>, Generated' = Generated
    PROVE  WithReset' = WithReset
<1>1. \A T \in Types : T \in WithReset' <=> T \in WithReset
  BY MethodsFrom
<1> QED BY <1>1 DEF WithReset

(* A struct gets a method when the file of its own package, or of a struct  *)
(* it embeds, is written.                                                   *)
LEMMA GainedFrom ==
    ASSUME GenTypeInv, GenTypeInv', UNCHANGED <<fields, written>>, NEW p0,
           \A p \in Packages \ {p0} : gen'[p] = gen[p],
           NEW T \in WithReset', T \notin WithReset
    PROVE  \/ p0 \in Packages /\ T \in DOMAIN gen'[p0]
           \/ \E V \in Below(T) : PkgOf[V] = p0
<1> SUFFICES ASSUME ~(p0 \in Packages /\ T \in DOMAIN gen'[p0]),
                    \A V \in Below(T) : PkgOf[V] # p0
             PROVE  FALSE
  OBVIOUS
<1>1. T \in Types
  BY DEF WithReset
<1>2. ASSUME NEW V, PkgOf[V] # p0 PROVE V \in Generated' <=> V \in Generated
  <2>1. ASSUME NEW p \in Packages, V \in DOMAIN gen[p] PROVE V \in DOMAIN gen'[p]
    <3>1. p # p0
      BY <1>2, <2>1 DEF GenTypeInv
    <3> QED BY <2>1, <3>1
  <2>2. ASSUME NEW p \in Packages, V \in DOMAIN gen'[p] PROVE V \in DOMAIN gen[p]
    <3>1. p # p0
      BY <1>2, <2>2 DEF GenTypeInv
    <3> QED BY <2>2, <3>1
  <2> QED BY <2>1, <2>2 DEF Generated
<1>3. T \notin Generated
  BY <1>1, OwnComesFirst DEF OwnReset
<1>4. T \notin Generated'
  BY <1>3 DEF Generated
<1>5. T \in WithReset' <=> T \in WithReset
  BY <1>1, <1>2, <1>3, <1>4, MethodsFrom
<1> QED BY <1>5

-----------------------------------------------------------------------------
(* What the generator emits for a package: the statements for the methods   *)
(* that are there or will be in this file.                                  *)
LEMMA BuildFileIs ==
    ASSUME GenTypeInv, NEW p \in Packages
    PROVE  buildFile(p) = [T \in MarkedIn(p) |-> Stmts(T, WithReset \cup MarkedIn(p))]
<1> DEFINE X == WithReset \cup MarkedIn(p)
<1> SUFFICES ASSUME NEW T \in MarkedIn(p)
             PROVE  UNION {resetField(f, p) : f \in fields[T]} = Stmts(T, X)
  BY DEF buildFile
<1>1. ASSUME NEW f \in fields[T]
      PROVE  /\ f.kind = "value" => resetField(f, p) = {[field |-> f, op |-> "zero"]}
             /\ f.kind = "struct" /\ f.type \in X => resetField(f, p) = {[field |-> f, op |-> "call"]}
             /\ f.kind # "value" /\ ~(f.kind = "struct" /\ f.type \in X) => resetField(f, p) = {}
  <2> HIDE DEF X
  <2>1. hasOrWillHaveReset(f.type, p) <=> f.type \in X
    BY DEF hasOrWillHaveReset, X
  <2>2. CASE f.kind = "value"
    BY <2>2 DEF resetField
  <2>3. CASE f.kind = "struct" /\ f.type \in X
    BY <2>1, <2>3 DEF resetField
  <2>4. CASE f.kind # "value" /\ ~(f.kind = "struct" /\ f.type \in X)
    BY <2>1, <2>4 DEF resetField
  <2> QED BY <2>2, <2>3, <2>4
<1> HIDE DEF X
<1>2. ASSUME NEW s \in UNION {resetField(f, p) : f \in fields[T]} PROVE s \in Stmts(T, X)
  <2>1. PICK f \in fields[T] : s \in resetField(f, p)
    BY <1>2
  <2> QED BY <1>1, <2>1 DEF Stmts
<1>3. ASSUME NEW s \in Stmts(T, X) PROVE s \in UNION {resetField(f, p) : f \in fields[T]}
  <2>1. \E f \in fields[T] : s \in resetField(f, p)
    BY <1>1, <1>3 DEF Stmts
  <2> QED BY <2>1
<1> QED BY <1>2, <1>3

(* A change of the sources or a failing Run ends what has been done.        *)
LEMMA NothingDone ==
    ASSUME runs' = 0, next' = 0
    PROVE  FilesInv' /\ CallsInv'
<1>1. \A p : ~Done(p)'
  BY DEF Done, Passed
<1> QED BY <1>1 DEF FilesInv, CallsInv

(* The invariant holds before the first Run.                                *)
LEMMA GenInvInit == GenInit => GenInv
<1> SUFFICES ASSUME GenInit PROVE GenInv
  OBVIOUS
<1>1. GenTypeInv
  <2>1. DOMAIN fields = Types /\ \A T \in Types : fields[T] \subseteq Shapes[T]
    BY ShapesAssumption DEF GenInit
  <2>2. DOMAIN gen = Packages /\ \A p \in Packages : DOMAIN gen[p] = {}
    BY DEF GenInit
  <2>3. /\ order \in [1..Cardinality(Packages) -> Packages]
        /\ \A p \in Packages : \E i \in DOMAIN order : order[i] = p
    BY DEF GenInit
  <2>4. marked \subseteq Types /\ next \in 0..Cardinality(Packages) /\ runs \in {0, 1, 2}
    BY Count DEF GenInit
  <2> QED BY <2>1, <2>2, <2>3, <2>4 DEF GenTypeInv
<1>2. \A p : ~Done(p)
  BY DEF GenInit, Done, Passed
<1> QED BY <1>1, <1>2 DEF GenInv, FilesInv, CallsInv

(* The sources change, or a package does not load.                          *)
LEMMA EditStep ==
    ASSUME GenInv,
           \/ \E T \in Types : EditMark(T) \/ EditMethod(T) \/ \E f \in Shapes[T] : EditField(T, f)
           \/ \E p \in Packages : EditRemoveFile(p)
           \/ RunFails
    PROVE  GenInv'
<1>1. runs' = 0 /\ next' = 0 /\ UNCHANGED order
  BY DEF EditMark, EditMethod, EditField, EditRemoveFile, Edit, RunFails, GenInv, GenTypeInv
<1>2. GenTypeInv'
  <2>1. ASSUME NEW T \in Types, EditMark(T) PROVE GenTypeInv'
    BY <1>1, <2>1, Count DEF EditMark, Toggle, GenInv, GenTypeInv
  <2>2. ASSUME NEW T \in Types, EditMethod(T) PROVE GenTypeInv'
    BY <1>1, <2>2, Count DEF EditMethod, GenInv, GenTypeInv
  <2>3. ASSUME NEW T \in Types, NEW f \in Shapes[T], EditField(T, f) PROVE GenTypeInv'
    BY <1>1, <2>3, Count DEF EditField, Toggle, GenInv, GenTypeInv
  <2>4. ASSUME NEW p \in Packages, EditRemoveFile(p) PROVE GenTypeInv'
    BY <1>1, <2>4, Count DEF EditRemoveFile, GenInv, GenTypeInv
  <2>5. CASE RunFails
    BY <1>1, <2>5, Count DEF RunFails, GenInv, GenTypeInv
  <2> QED BY <2>1, <2>2, <2>3, <2>4, <2>5
<1> QED BY <1>1, <1>2, NothingDone DEF GenInv

(* What depends on the sources alone.                                       *)
LEMMA SameSources ==
    ASSUME UNCHANGED <<order, marked, fields>>
    PROVE  /\ \A p : MarkedIn(p)' = MarkedIn(p)
           /\ \A T, X : Stmts(T, X)' = Stmts(T, X)
           /\ \A T, p : Late(T, p)' <=> Late(T, p)
<1>1. \A p : MarkedIn(p)' = MarkedIn(p)
  BY DEF MarkedIn
<1>2. \A T, X : Stmts(T, X)' = Stmts(T, X)
  BY DEF Stmts
<1>3. Embedded' = Embedded
  BY DEF Embedded, AllFields
<1>4. \A T, n, F : Paths(T, n, F)' = Paths(T, n, F)
  BY DEF Paths
<1>5. \A T : Below(T)' = Below(T)
  BY <1>3, <1>4 DEF Below, End
<1>6. \A p : Position(p)' = Position(p)
  BY DEF Position
<1>7. \A T, p : Late(T, p)' <=> Late(T, p)
  BY <1>1, <1>5, <1>6 DEF Late
<1> QED BY <1>1, <1>2, <1>7

(* What a written file says depends on the sources, the methods and what    *)
(* has been lost.                                                           *)
LEMMA SameFiles ==
    ASSUME GenInv, GenTypeInv', UNCHANGED <<order, marked, fields, written, gen, lost>>,
           \A p \in Packages : (Done(p)' => Done(p)) /\ (Fresh(p)' => Fresh(p))
    PROVE  GenInv'
<1>1. WithReset' = WithReset
  BY SameMethods DEF Generated
<1>2. \A p : MarkedIn(p)' = MarkedIn(p)
  BY SameSources
<1>3. (\A T, X : Stmts(T, X)' = Stmts(T, X)) /\ \A T, p : Late(T, p)' <=> Late(T, p)
  BY SameSources
<1>4. FilesInv'
  <2> SUFFICES ASSUME NEW p \in Packages, Done(p)', MarkedIn(p)' # {} PROVE \E X : WrittenWith(p, X)'
    BY DEF FilesInv
  <2>1. PICK X : WrittenWith(p, X)
    BY <1>2 DEF GenInv, FilesInv
  <2>2. WrittenWith(p, X)'
    BY <1>1, <1>2, <1>3, <2>1 DEF WrittenWith
  <2> QED BY <2>2
<1>5. CallsInv'
  BY <1>1 DEF GenInv, CallsInv
<1> QED BY <1>4, <1>5 DEF GenInv

(* Run starts: nothing has been done in it yet.                             *)
LEMMA RunStartStep == GenInv /\ RunStart => GenInv'
<1> SUFFICES ASSUME GenInv, RunStart PROVE GenInv'
  OBVIOUS
<1>1. next = 0 /\ next' = 1 /\ UNCHANGED <<order, marked, fields, written, gen, runs, lost>>
  BY DEF RunStart
<1>2. GenTypeInv'
  BY <1>1, Count DEF GenInv, GenTypeInv
<1>3. \A p : ~Passed(p)'
  BY <1>1 DEF Passed
<1>4. \A p \in Packages : (Done(p)' => Done(p)) /\ (Fresh(p)' => Fresh(p))
  BY <1>1, <1>3 DEF Done, Fresh
<1> QED BY <1>1, <1>2, <1>4, SameFiles

(* One package further, Run has been at no other package than this one; and *)
(* it is at the end when it has been at all of them.                        *)
LEMMA OneFurther ==
    ASSUME GenTypeInv, RunPackage
    PROVE  /\ order[next] \in Packages
           /\ GenTypeInv'
           /\ \A p \in Packages \ {order[next]} :
                 (Done(p)' => Done(p)) /\ (Fresh(p)' => Fresh(p))
           /\ \A p : p = order[next] /\ Fresh(p)' => runs > 0
<1> DEFINE n == Cardinality(Packages)
<1>1. n \in Nat /\ Len(order) = n /\ DOMAIN order = 1..n
  BY Count, OrderIsList
<1>2. next \in 1..n /\ UNCHANGED <<order, marked, fields>>
  BY <1>1 DEF RunPackage, GenTypeInv
<1>3. order[next] \in Packages
  BY <1>2 DEF GenTypeInv
<1>4. \/ next = n /\ next' = 0 /\ runs' = IF runs = 2 THEN 2 ELSE runs + 1
      \/ next # n /\ next' = next + 1 /\ runs' = runs
  BY <1>1 DEF RunPackage
<1>5. /\ DOMAIN gen' = Packages
      /\ \A p \in Packages : \A T \in DOMAIN gen'[p] : T \in Types /\ PkgOf[T] = p
  <2>1. CASE MarkedIn(order[next]) = {}
    BY <2>1 DEF RunPackage, GenTypeInv
  <2>2. CASE MarkedIn(order[next]) # {}
    <3>1. gen' = [gen EXCEPT ![order[next]] = buildFile(order[next])]
      BY <2>2 DEF RunPackage
    <3>2. DOMAIN buildFile(order[next]) = MarkedIn(order[next])
      BY DEF buildFile
    <3> QED BY <1>3, <3>1, <3>2 DEF GenTypeInv, MarkedIn
  <2> QED BY <2>1, <2>2
<1>6. next' \in 0..n /\ runs' \in {0, 1, 2}
  BY <1>1, <1>2, <1>4 DEF GenTypeInv
<1>7. GenTypeInv'
  BY <1>2, <1>5, <1>6 DEF GenTypeInv
<1>8. ASSUME NEW p \in Packages, p # order[next], next = n PROVE Passed(p)
  <2>1. PICK i \in 1..n : order[i] = p
    BY <1>1 DEF GenTypeInv
  <2>2. i # next /\ i \in 1..(next - 1)
    BY <1>1, <1>8, <2>1
  <2> QED BY <2>1, <2>2 DEF Passed
<1>9. ASSUME NEW p \in Packages, p # order[next], Passed(p)' PROVE Passed(p)
  <2>1. PICK i \in 1..(next' - 1) : order[i] = p
    BY <1>2, <1>9 DEF Passed
  <2>2. i \in 1..(next - 1)
    BY <1>1, <1>2, <1>4, <1>9, <2>1
  <2> QED BY <2>1, <2>2 DEF Passed
<1>10. next' = 0 => \A p : ~Passed(p)'
  BY DEF Passed
<1>11. ASSUME NEW p \in Packages, p # order[next]
       PROVE  (Done(p)' => Done(p)) /\ (Fresh(p)' => Fresh(p))
  <2>1. CASE next = n
    <3>1. runs = 2 \/ runs' = runs + 1
      BY <1>4, <2>1
    <3> QED BY <1>4, <1>8, <1>10, <1>11, <2>1, <3>1 DEF Done, Fresh, GenTypeInv
  <2>2. CASE next # n
    BY <1>4, <1>9, <1>11, <2>2 DEF Done, Fresh
  <2> QED BY <2>1, <2>2
<1>12. ASSUME NEW p, p = order[next], Fresh(p)' PROVE runs > 0
  <2>1. CASE next = n
    BY <1>4, <1>10, <1>12, <2>1 DEF Fresh, GenTypeInv
  <2>2. CASE next # n
    BY <1>4, <1>12, <2>2 DEF Fresh
  <2> QED BY <2>1, <2>2
<1> QED BY <1>3, <1>7, <1>11, <1>12

(* A package is written, or left alone because nothing in it is marked.     *)
LEMMA RunPackageStep == GenInv /\ RunPackage => GenInv'
<1> SUFFICES ASSUME GenInv, RunPackage PROVE GenInv'
  OBVIOUS
<1>0. PICK p0 : p0 = order[next]
  OBVIOUS
<1>1. /\ p0 \in Packages /\ GenTypeInv'
      /\ \A p \in Packages \ {p0} : (Done(p)' => Done(p)) /\ (Fresh(p)' => Fresh(p))
      /\ Fresh(p0)' => runs > 0
  BY <1>0, OneFurther DEF GenInv
<1>2. UNCHANGED <<order, marked, fields, written>> /\ next # 0 /\ Loads(p0)
  BY <1>0 DEF RunPackage
<1>3. \A p : MarkedIn(p)' = MarkedIn(p)
  BY <1>2, SameSources
<1>4. (\A T, X : Stmts(T, X)' = Stmts(T, X)) /\ \A T, p : Late(T, p)' <=> Late(T, p)
  BY <1>2, SameSources
<1>5. CASE MarkedIn(p0) = {}
  <2>1. UNCHANGED gen
    BY <1>0, <1>5 DEF RunPackage
  <2>2. WithReset' = WithReset
    BY <1>2, <2>1, SameMethods DEF Generated
  <2>3. UNCHANGED lost
    BY <2>2 DEF RunPackage
  <2>4. FilesInv'
    <3> SUFFICES ASSUME NEW p \in Packages, Done(p)', MarkedIn(p)' # {} PROVE \E X : WrittenWith(p, X)'
      BY DEF FilesInv
    <3>1. p # p0
      BY <1>3, <1>5
    <3>2. PICK X : WrittenWith(p, X)
      BY <1>1, <1>3, <3>1 DEF GenInv, FilesInv
    <3>3. WrittenWith(p, X)'
      BY <1>1, <1>3, <1>4, <2>1, <2>2, <2>3, <3>1, <3>2 DEF WrittenWith
    <3> QED BY <3>3
  <2>5. CallsInv'
    <3> SUFFICES ASSUME NEW p \in Packages, Done(p)', NEW T \in DOMAIN gen[p], NEW s \in gen[p][T]
                 PROVE  s.field \in fields[T] /\ (s.op = "call" => s.field.type \in WithReset \cup lost)
      BY <1>2, <2>1, <2>2, <2>3 DEF CallsInv
    <3>1. CASE p = p0
      BY <1>2, <3>1 DEF Loads, Compiles
    <3>2. CASE p # p0
      BY <1>1, <3>2 DEF GenInv, CallsInv
    <3> QED BY <3>1, <3>2
  <2> QED BY <1>1, <2>4, <2>5 DEF GenInv
<1>6. CASE MarkedIn(p0) # {}
  <2>0. PICK X0 : X0 = WithReset \cup MarkedIn(p0)
    OBVIOUS
  <2>1. /\ gen' = [gen EXCEPT ![p0] = buildFile(p0)]
        /\ lost' = lost \cup (WithReset \ WithReset')
    BY <1>0, <1>6 DEF RunPackage
  <2>2. DOMAIN gen = Packages /\ buildFile(p0) = [T \in MarkedIn(p0) |-> Stmts(T, X0)]
    BY <1>1, <2>0, BuildFileIs DEF GenInv, GenTypeInv
  <2>3. gen'[p0] = [T \in MarkedIn(p0) |-> Stmts(T, X0)]
    BY <1>1, <2>1, <2>2
  <2>4. \A p \in Packages \ {p0} : gen'[p] = gen[p]
    BY <2>1, <2>2
  <2>5. DOMAIN gen'[p0] = MarkedIn(p0)
    BY <2>3
  <2>6. MarkedIn(p0) \subseteq WithReset'
    <3> SUFFICES ASSUME NEW T \in MarkedIn(p0) PROVE T \in WithReset'
      OBVIOUS
    <3>1. T \in Types /\ OwnReset(T)'
      <4>1. T \in Types
        BY DEF MarkedIn, GenInv, GenTypeInv
      <4>2. \E p \in Packages : T \in DOMAIN gen'[p]
        BY <1>1, <2>5
      <4>3. T \in Generated'
        BY <4>2 DEF Generated
      <4> QED BY <4>1, <4>3 DEF OwnReset
    <3> QED BY <3>1, OwnAfter
  <2>7. X0 \subseteq WithReset' \cup lost' /\ WithReset \cup lost \subseteq WithReset' \cup lost'
    BY <2>0, <2>1, <2>6
  <2>8. ASSUME NEW T \in WithReset' \ WithReset
        PROVE  T \in MarkedIn(p0) \/ \E V \in Below(T) : PkgOf[V] = p0
    BY <1>1, <1>2, <2>4, <2>5, <2>8, GainedFrom DEF GenInv
  <2>9. runs > 0 => WithReset' = WithReset
    <3> SUFFICES ASSUME runs > 0 PROVE WithReset' = WithReset
      OBVIOUS
    <3>1. PICK Y : WrittenWith(p0, Y)
      BY <1>1, <1>6 DEF GenInv, FilesInv, Done
    <3>2. DOMAIN gen[p0] = MarkedIn(p0)
      BY <3>1 DEF WrittenWith
    <3>3. \A p \in Packages : DOMAIN gen'[p] = DOMAIN gen[p]
      BY <2>4, <2>5, <3>2
    <3>4. Generated' = Generated
      BY <3>3 DEF Generated
    <3> QED BY <1>2, <3>4, SameMethods
  <2>10. /\ DOMAIN order = 1..Cardinality(Packages) /\ Cardinality(Packages) \in Nat
         /\ next \in 1..Cardinality(Packages) /\ Position(p0) = next
    <3>1. /\ DOMAIN order = 1..Cardinality(Packages) /\ Cardinality(Packages) \in Nat
          /\ next \in 1..Cardinality(Packages)
      BY <1>2, Count, OrderIsList DEF GenInv, GenTypeInv
    <3> QED BY <1>0, <3>1, PositionIs DEF GenInv
  <2>11. FilesInv'
    <3> SUFFICES ASSUME NEW p \in Packages, Done(p)', MarkedIn(p)' # {} PROVE \E X : WrittenWith(p, X)'
      BY DEF FilesInv
    <3>1. CASE p = p0
      <4>1. ASSUME NEW T \in WithReset' \ X0 PROVE Late(T, p0)
        <5>1. PICK V \in Below(T) : PkgOf[V] = p0
          BY <2>0, <2>8, <4>1
        <5> QED BY <1>6, <2>10, <5>1 DEF Late
      <4>2. Fresh(p0)' => WithReset' \subseteq X0
        BY <1>1, <2>0, <2>9
      <4>3. WrittenWith(p0, X0)'
        BY <1>3, <1>4, <2>3, <2>7, <4>1, <4>2 DEF WrittenWith
      <4> QED BY <3>1, <4>3
    <3>2. CASE p # p0
      <4>1. Done(p) /\ (Fresh(p)' => Fresh(p)) /\ gen'[p] = gen[p]
        BY <1>1, <2>4, <3>2
      <4>2. PICK X : WrittenWith(p, X)
        BY <1>3, <4>1 DEF GenInv, FilesInv
      <4>3. X \subseteq WithReset' \cup lost'
        BY <2>7, <4>2 DEF WrittenWith
      <4>4. CASE runs > 0
        <5>1. WrittenWith(p, X)'
          BY <1>3, <1>4, <2>9, <4>1, <4>2, <4>3, <4>4 DEF WrittenWith
        <5> QED BY <5>1
      <4>5. CASE ~(runs > 0)
        <5>1. Passed(p) /\ ~Fresh(p)
          BY <4>1, <4>5 DEF Done, Fresh, GenInv, GenTypeInv
        <5>2. Position(p) < Position(p0) /\ Position(p) \in Nat /\ Position(p0) \in Nat
          <6>1. PICK i \in 1..(next - 1) : order[i] = p
            BY <5>1 DEF Passed
          <6>2. Position(p) = i
            BY <2>10, <6>1, PositionIs DEF GenInv
          <6> QED BY <2>10, <6>1, <6>2
        <5>3. ASSUME NEW T \in WithReset' \ X PROVE Late(T, p)
          <6>1. CASE T \in WithReset
            BY <4>2, <5>3, <6>1 DEF WrittenWith
          <6>2. CASE T \in MarkedIn(p0)
            BY <5>2, <6>2 DEF Late, MarkedIn
          <6>3. ASSUME NEW V \in Below(T), PkgOf[V] = p0 PROVE Late(T, p)
            BY <1>6, <5>2, <6>3 DEF Late
          <6> QED BY <2>8, <5>3, <6>1, <6>2, <6>3
        <5>4. WrittenWith(p, X)'
          BY <1>3, <1>4, <4>1, <4>2, <4>3, <5>1, <5>3 DEF WrittenWith
        <5> QED BY <5>4
      <4> QED BY <4>4, <4>5
    <3> QED BY <3>1, <3>2
  <2>12. CallsInv'
    <3> SUFFICES ASSUME NEW p \in Packages, Done(p)', NEW T \in DOMAIN gen'[p], NEW s \in gen'[p][T]
                 PROVE  s.field \in fields[T] /\ (s.op = "call" => s.field.type \in WithReset' \cup lost')
      BY <1>2 DEF CallsInv
    <3>1. CASE p = p0
      <4>1. s \in Stmts(T, X0)
        BY <2>3, <3>1
      <4>2. s.field \in fields[T] /\ (s.op = "call" => s.field.type \in X0)
        BY <4>1 DEF Stmts
      <4> QED BY <2>7, <4>2
    <3>2. CASE p # p0
      <4>1. s.field \in fields[T] /\ (s.op = "call" => s.field.type \in WithReset \cup lost)
        BY <1>1, <2>4, <3>2 DEF GenInv, CallsInv
      <4> QED BY <2>7, <4>1
    <3> QED BY <3>1, <3>2
  <2> QED BY <1>1, <2>11, <2>12 DEF GenInv
<1> QED BY <1>5, <1>6

(* The invariant holds before and after the program is built.               *)
LEMMA GenInvHolds == Spec => []GenInv
<1>1. Init => GenInv
  BY GenInvInit DEF Init
<1>2. GenInv /\ [Next]_vars => GenInv'
  <2> SUFFICES ASSUME GenInv, [Next]_vars PROVE GenInv'
    OBVIOUS
  <2>1. CASE UNCHANGED genVars
    <3>1. UNCHANGED <<order, marked, fields, written, gen, next, runs, lost>>
      BY <2>1 DEF genVars
    <3>2. GenTypeInv'
      BY <3>1 DEF GenInv, GenTypeInv
    <3>3. \A p : (Done(p)' => Done(p)) /\ (Fresh(p)' => Fresh(p))
      BY <3>1 DEF Done, Fresh, Passed
    <3> QED BY <3>1, <3>2, <3>3, SameFiles
  <2>2. CASE GenNext
    BY <2>2, EditStep, RunStartStep, RunPackageStep DEF GenNext
  <2> QED BY <2>1, <2>2 DEF Next, Build, vars
<1> QED BY <1>1, <1>2, PTL DEF Spec

(* Settled files of packages that compile are what the generator would      *)
(* write again.                                                             *)
LEMMA SettledFiles ==
    ASSUME GenInv, Settled, \A p \in Packages : Compiles(p), NEW p \in Packages, MarkedIn(p) # {}
    PROVE  gen[p] = buildFile(p)
<1>1. runs > 0 /\ Done(p)
  BY DEF Settled, Done
<1>2. PICK X : WrittenWith(p, X)
  BY <1>1 DEF GenInv, FilesInv
<1>3. PICK Y : Y = WithReset \cup MarkedIn(p)
  OBVIOUS
<1>4. DOMAIN gen[p] = MarkedIn(p) /\ \A T \in MarkedIn(p) : gen[p][T] = Stmts(T, X)
  BY <1>2 DEF WrittenWith
<1>5. ASSUME NEW T \in MarkedIn(p), NEW f \in fields[T], f.kind = "struct"
      PROVE  f.type \in X <=> f.type \in Y
  <2>1. ASSUME f.type \in X PROVE f.type \in WithReset
    <3>1. [field |-> f, op |-> "call"] \in gen[p][T]
      BY <1>4, <1>5, <2>1 DEF Stmts
    <3> QED BY <1>4, <3>1 DEF Compiles
  <2>2. MarkedIn(p) \subseteq WithReset
    BY <1>4, OwnComesFirst DEF OwnReset, Generated, MarkedIn, GenInv, GenTypeInv
  <2>3. ASSUME f.type \in WithReset PROVE f.type \in X
    <3>1. CASE runs = 2
      BY <1>2, <2>3, <3>1 DEF WrittenWith, Fresh
    <3>2. CASE runs # 2
      <4>1. ~LateDependency
        BY <3>2 DEF Settled
      <4>2. ~Late(f.type, p)
        BY <1>5, <4>1 DEF LateDependency, MarkedIn
      <4> QED BY <1>2, <2>3, <4>2 DEF WrittenWith
    <3> QED BY <3>1, <3>2
  <2> QED BY <1>3, <2>1, <2>2, <2>3
<1>6. \A T \in MarkedIn(p) : Stmts(T, X) = Stmts(T, Y)
  BY <1>5 DEF Stmts
<1>7. gen[p] = [T \in MarkedIn(p) |-> Stmts(T, X)]
  BY <1>2 DEF WrittenWith
<1>8. buildFile(p) = [T \in MarkedIn(p) |-> Stmts(T, Y)]
  BY <1>3, BuildFileIs DEF GenInv
<1> QED BY <1>6, <1>7, <1>8

(* For any structs and packages and any history of changes and Runs: a Run  *)
(* without an error leaves packages that compile, but for the cases of      *)
(* Broken, and after it, or after a second one where a struct depends on a  *)
(* method that came too late, there is nothing left to generate.            *)
THEOREM RunsSettle == Spec => []RunSettles
<1>1. ASSUME GenInv, next = 0, runs > 0, NEW p \in Packages PROVE Compiles(p) \/ Broken(p)
  <2>1. Done(p)
    BY <1>1 DEF Done
  <2>2. \A T \in DOMAIN gen[p] : \A s \in gen[p][T] :
            s.field \in fields[T] /\ (s.op = "call" => s.field.type \in WithReset \cup lost)
    BY <1>1, <2>1 DEF GenInv, CallsInv
  <2> QED BY <2>2 DEF Compiles, Broken
<1>2. GenInv => RunSettles
  BY <1>1, SettledFiles DEF RunSettles
<1> QED BY <1>2, GenInvHolds, PTL

-----------------------------------------------------------------------------
(* What Reset leaves of an object that has been used.                       *)
Left == Leaves \ Cleared

(* An object in use belongs to one goroutine; what it holds follows from    *)
(* how far that goroutine is, and in the pool it holds what Reset leaves.   *)
PoolInv ==
    /\ built \in BOOLEAN
    /\ place \in [Objects -> {"none", "pool"} \cup Goroutines]
    /\ DOMAIN dirty = Objects
    /\ pc \in [Goroutines -> {"idle", "got", "using", "resetting"}]
    /\ held \in [Goroutines -> Objects]
    /\ built => \A p \in Packages : Compiles(p)
    /\ ~built => \A g \in Goroutines : pc[g] = "idle"
    /\ ~built => \A o \in Objects : place[o] = "none"
    /\ \A g \in Goroutines :
          /\ pc[g] # "idle" => place[held[g]] = g
          /\ pc[g] = "got" => dirty[held[g]] \subseteq Left
          /\ pc[g] = "using" => dirty[held[g]] = Leaves
          /\ pc[g] = "resetting" => dirty[held[g]] = Left
    /\ \A o \in Objects : place[o] = "pool" => dirty[o] \subseteq Left

(* A struct with a mark or a method of its own has a Reset that clears its  *)
(* values and calls the Reset of the structs in it, in settled files.       *)
LEMMA ResettableIsReset ==
    ASSUME GenInv, Settled, \A p \in Packages : Compiles(p), NEW T \in Resettable, NEW f \in fields[T], f.ok
    PROVE  /\ f.kind = "value" => f \in Zeroes(T)
           /\ f.kind = "struct" /\ f.type \in WithReset => f \in Calls(T)
<1>1. CASE written[T] = "method"
  BY <1>1 DEF Zeroes, Calls
<1>2. CASE written[T] # "method"
  <2>1. T \in Types /\ PkgOf[T] \in Packages /\ T \in MarkedIn(PkgOf[T])
    BY <1>2 DEF GenInv, GenTypeInv, MarkedIn, Packages, Resettable
  <2>2. gen[PkgOf[T]] = [U \in MarkedIn(PkgOf[T]) |-> Stmts(U, WithReset \cup MarkedIn(PkgOf[T]))]
    BY <2>1, SettledFiles, BuildFileIs DEF GenInv
  <2>3. /\ T \in DOMAIN gen[PkgOf[T]]
        /\ gen[PkgOf[T]][T] = Stmts(T, WithReset \cup MarkedIn(PkgOf[T]))
    BY <2>1, <2>2
  <2>4. gen[PkgOf[T]][T] \subseteq Statements(T)
    BY <2>1, <2>3 DEF Statements
  <2>5. ASSUME f.kind = "value" PROVE f \in Zeroes(T)
    <3>1. [field |-> f, op |-> "zero"] \in Statements(T)
      BY <2>3, <2>4, <2>5 DEF Stmts
    <3>2. [field |-> f, op |-> "zero"].field = f /\ [field |-> f, op |-> "zero"].op = "zero"
      OBVIOUS
    <3> QED BY <1>2, <3>1, <3>2 DEF Zeroes
  <2>6. ASSUME f.kind = "struct", f.type \in WithReset PROVE f \in Calls(T)
    <3>1. [field |-> f, op |-> "call"] \in Statements(T)
      BY <2>3, <2>4, <2>6 DEF Stmts
    <3>2. [field |-> f, op |-> "call"].field = f /\ [field |-> f, op |-> "call"].op = "call"
      OBVIOUS
    <3> QED BY <1>2, <3>1, <3>2 DEF Calls
  <2> QED BY <2>5, <2>6
<1> QED BY <1>1, <1>2

(* It has one in the first place.                                           *)
LEMMA ResettableHasReset ==
    ASSUME GenInv, Settled, \A p \in Packages : Compiles(p), NEW T \in Resettable
    PROVE  T \in WithReset /\ Promotes(T, <<>>)
<1>1. T \in Types
  BY DEF Resettable, GenInv, GenTypeInv
<1>2. CASE written[T] = "method"
  BY <1>1, <1>2, OwnComesFirst DEF OwnReset
<1>3. CASE written[T] # "method"
  <2>1. PkgOf[T] \in Packages /\ T \in MarkedIn(PkgOf[T])
    BY <1>1, <1>3 DEF MarkedIn, Packages, Resettable
  <2>2. DOMAIN gen[PkgOf[T]] = MarkedIn(PkgOf[T])
    BY <2>1, SettledFiles DEF buildFile
  <2> QED BY <1>1, <2>1, <2>2, OwnComesFirst DEF OwnReset, Generated
<1> QED BY <1>2, <1>3

(* What Reset leaves when the files are settled is what its rules do not    *)
(* reach: on the way to all else every struct has a Reset of its own, and   *)
(* each calls the next.                                                     *)
LEMMA LeftIsOutside ==
    ASSUME GenInv, Settled, \A p \in Packages : Compiles(p)
    PROVE  Left \subseteq Outside
<1> SUFFICES ASSUME NEW l \in Leaves, l \notin Cleared, l \notin Outside PROVE FALSE
  BY DEF Left
<1>1. PICK s, f : s = l[1] /\ f = l[2]
  OBVIOUS
<1>2. PICK n \in 0..Depth : s \in Paths(Elem, n, Structs)
  BY <1>1 DEF Leaves
<1>3. f \in AllFields \ Structs /\ f \in fields[End(Elem, s)]
  BY <1>1 DEF Leaves
<1>4. n \in Nat /\ s \in [1..n -> Structs] /\ Len(s) = n /\ s \in Seq(Structs)
  BY <1>2, ObjectsAssumption DEF Paths
<1>5. f.kind # "kept" /\ f.ok /\ (\A i \in 1..n : s[i].ok) /\ \A i \in 0..n : At(s, i) \in Resettable
  BY <1>1, <1>4 DEF Outside
<1>6. \A i \in 1..n : s[i].kind = "struct" /\ s[i] \in fields[At(s, i - 1)] /\ s[i].type = At(s, i)
  <2>1. \A i \in 1..n : s[i] \in fields[IF i = 1 THEN Elem ELSE s[i - 1].type]
    BY <1>2 DEF Paths
  <2>2. \A i \in 1..n : At(s, i - 1) = (IF i = 1 THEN Elem ELSE s[i - 1].type) /\ At(s, i) = s[i].type
    BY <1>4 DEF At
  <2> QED BY <1>4, <2>1, <2>2 DEF Structs
<1>7. End(Elem, s) = At(s, n)
  <2>1. CASE n = 0
    BY <1>4, <2>1 DEF End, At
  <2>2. CASE n # 0
    BY <1>4, <2>2 DEF End, At
  <2> QED BY <2>1, <2>2
<1>8. f.kind = "value"
  <2>1. PICK T \in Types : f \in fields[T]
    BY <1>3 DEF AllFields
  <2> QED BY <1>3, <1>5, <2>1, ShapesAssumption DEF Structs, GenInv, GenTypeInv
<1>9. f \in Zeroes(End(Elem, s))
  BY <1>3, <1>4, <1>5, <1>7, <1>8, ResettableIsReset
<1>10. \A i \in 0..n : At(s, i) \in WithReset /\ Promotes(At(s, i), <<>>)
  BY <1>5, ResettableHasReset
<1>11. \A m \in 0..n : SubSeq(s, m + 1, m) = <<>>
  BY <1>4
<1>12. Runs(s)
  <2> DEFINE M == 0..n
  <2>1. M \in SUBSET (0..Len(s)) /\ Len(s) \in M
    BY <1>4
  <2>2. ASSUME NEW m \in M
        PROVE  \/ Promotes(Elem, SubSeq(s, 1, m))
               \/ \E k \in M : /\ k < m
                               /\ s[k + 1] \in Calls(At(s, k))
                               /\ Promotes(s[k + 1].type, SubSeq(s, k + 2, m))
    <3>1. CASE m = 0
      <4>1. At(s, 0) = Elem /\ SubSeq(s, 1, 0) = <<>>
        BY <1>4, <1>11 DEF At
      <4> QED BY <1>4, <1>10, <3>1, <4>1
    <3>2. CASE m # 0
      <4>1. PICK k \in 0..n : k + 1 = m /\ k + 2 = m + 1 /\ k < m
        <5>1. m - 1 \in 0..n /\ (m - 1) + 1 = m /\ (m - 1) + 2 = m + 1 /\ m - 1 < m
          BY <1>4, <3>2
        <5> QED BY <5>1
      <4>2. m \in 1..n /\ m - 1 = k
        BY <1>4, <3>2, <4>1
      <4>3. s[m] \in Calls(At(s, k))
        BY <1>5, <1>6, <1>10, <4>2, ResettableIsReset
      <4>4. Promotes(s[m].type, SubSeq(s, m + 1, m))
        BY <1>6, <1>10, <1>11, <4>2
      <4> QED BY <4>1, <4>3, <4>4
    <3> QED BY <3>1, <3>2
  <2> QED BY <2>1, <2>2 DEF Runs
<1> QED BY <1>1, <1>9, <1>12 DEF Cleared

(* A built program does not change.                                         *)
LEMMA SameProgram ==
    ASSUME UNCHANGED genVars
    PROVE  Leaves' = Leaves /\ Left' = Left /\ \A p : Compiles(p)' <=> Compiles(p)
<1>1. UNCHANGED <<order, marked, fields, written, gen, next, runs, lost>>
  BY DEF genVars
<1>2. Generated' = Generated
  BY <1>1 DEF Generated
<1>3. WithReset' = WithReset
  BY <1>1, <1>2, SameMethods
<1>4. AllFields' = AllFields /\ Structs' = Structs /\ Embedded' = Embedded
  BY <1>1 DEF AllFields, Structs, Embedded
<1>5. \A T, n, F : Paths(T, n, F)' = Paths(T, n, F)
  BY <1>1 DEF Paths
<1>6. Leaves' = Leaves
  BY <1>1, <1>4, <1>5 DEF Leaves, End
<1>7. \A T : (Named(T)' <=> Named(T)) /\ (OwnReset(T)' <=> OwnReset(T))
  BY <1>1, <1>2 DEF Named, OwnReset
<1>8. \A T, r : Promotes(T, r)' <=> Promotes(T, r)
  BY <1>4, <1>5, <1>7 DEF Promotes, End
<1>9. \A T : Statements(T)' = Statements(T)
  BY <1>1 DEF Statements
<1>10. \A T : Zeroes(T)' = Zeroes(T) /\ Calls(T)' = Calls(T)
  BY <1>1, <1>3, <1>9 DEF Zeroes, Calls
<1>11. \A r : Runs(r)' <=> Runs(r)
  BY <1>8, <1>10 DEF Runs, At
<1>12. Cleared' = Cleared
  BY <1>6, <1>10, <1>11 DEF Cleared, End
<1>13. \A p : Compiles(p)' <=> Compiles(p)
  BY <1>1, <1>3 DEF Compiles
<1> QED BY <1>6, <1>12, <1>13 DEF Left

(* Every step of the goroutines, of the collector and of those who change   *)
(* the sources keeps the invariant.                                         *)
LEMMA PoolInvHolds == Spec => []PoolInv
<1>1. Init => PoolInv
  <2> SUFFICES ASSUME Init PROVE PoolInv
    OBVIOUS
  <2>1. held \in [Goroutines -> Objects]
    BY ObjectsAssumption DEF Init
  <2>2. /\ built = FALSE /\ DOMAIN dirty = Objects
        /\ place \in [Objects -> {"none", "pool"} \cup Goroutines]
        /\ pc \in [Goroutines -> {"idle", "got", "using", "resetting"}]
    BY DEF Init
  <2>3. /\ \A g \in Goroutines : pc[g] = "idle"
        /\ \A o \in Objects : place[o] = "none"
    BY DEF Init
  <2> QED BY <2>1, <2>2, <2>3 DEF PoolInv
<1>2. PoolInv /\ [Next]_vars => PoolInv'
  <2> SUFFICES ASSUME PoolInv, [Next]_vars PROVE PoolInv'
    OBVIOUS
  <2>1. CASE ~built /\ GenNext /\ UNCHANGED poolVars
    <3>1. UNCHANGED <<built, place, dirty, pc, held>> /\ ~built
      BY <2>1 DEF poolVars
    <3> QED BY <3>1 DEF PoolInv
  <2>2. CASE Build
    <3>1. UNCHANGED genVars /\ UNCHANGED <<place, dirty, pc, held>> /\ built' = TRUE /\ ~built
          /\ \A p \in Packages : Compiles(p)
      BY <2>2 DEF Build
    <3> QED BY <3>1, SameProgram DEF PoolInv
  <2>3. ASSUME built, UNCHANGED genVars, NEW g \in Goroutines, Get(g) PROVE PoolInv'
    <3>1. PICK o \in Objects :
              /\ place[o] \in {"pool", "none"}
              /\ place' = [place EXCEPT ![o] = g]
              /\ dirty' = [dirty EXCEPT ![o] = IF place[o] = "none" THEN {} ELSE @]
              /\ held' = [held EXCEPT ![g] = o]
      BY <2>3 DEF Get
    <3>2. pc' = [pc EXCEPT ![g] = "got"] /\ UNCHANGED built /\ pc[g] = "idle"
      BY <2>3 DEF Get
    <3>3. dirty'[o] \subseteq Left
      BY <3>1 DEF PoolInv
    <3>4. \A h \in Goroutines : pc[h] # "idle" => held[h] # o
      BY <3>1, ObjectsAssumption DEF PoolInv
    <3>5. \A h \in Goroutines : h # g /\ pc[h] # "idle" =>
              held'[h] = held[h] /\ pc'[h] = pc[h] /\ dirty'[held[h]] = dirty[held[h]]
              /\ place'[held[h]] = place[held[h]]
      BY <3>1, <3>2, <3>4 DEF PoolInv
    <3>6. /\ place' \in [Objects -> {"none", "pool"} \cup Goroutines] /\ DOMAIN dirty' = Objects
          /\ pc' \in [Goroutines -> {"idle", "got", "using", "resetting"}]
          /\ held' \in [Goroutines -> Objects]
      BY <3>1, <3>2 DEF PoolInv
    <3>7. pc'[g] = "got" /\ held'[g] = o /\ place'[o] = g
      BY <3>1, <3>2 DEF PoolInv
    <3>8. \A h \in Goroutines : h # g /\ pc[h] = "idle" => pc'[h] = "idle"
      BY <3>2 DEF PoolInv
    <3>9. \A h \in Goroutines :
          /\ pc'[h] # "idle" => place'[held'[h]] = h
          /\ pc'[h] = "got" => dirty'[held'[h]] \subseteq Left
          /\ pc'[h] = "using" => dirty'[held'[h]] = Leaves
          /\ pc'[h] = "resetting" => dirty'[held'[h]] = Left
      <4> SUFFICES ASSUME NEW h \in Goroutines
                   PROVE  /\ pc'[h] # "idle" => place'[held'[h]] = h
                          /\ pc'[h] = "got" => dirty'[held'[h]] \subseteq Left
                          /\ pc'[h] = "using" => dirty'[held'[h]] = Leaves
                          /\ pc'[h] = "resetting" => dirty'[held'[h]] = Left
        OBVIOUS
      <4>1. CASE h = g
        BY <3>3, <3>7, <4>1
      <4>2. CASE h # g
        BY <3>5, <3>8, <4>2 DEF PoolInv
      <4> QED BY <4>1, <4>2
    <3>10. \A x \in Objects : place'[x] = "pool" => dirty'[x] \subseteq Left
      BY <3>1, <3>3 DEF PoolInv
    <3> QED BY <2>3, <3>2, <3>6, <3>9, <3>10, SameProgram DEF PoolInv
  <2>4. ASSUME built, UNCHANGED genVars, NEW g \in Goroutines, Use(g) \/ Put(g) PROVE PoolInv'
    <3>1. UNCHANGED <<built, held>> /\ pc[g] # "idle"
      BY <2>4 DEF Use, Put
    <3>2. PICK o \in Objects : o = held[g]
      BY DEF PoolInv
    <3>3. place[o] = g /\ \A h \in Goroutines : h # g /\ pc[h] # "idle" => held[h] # o
      BY <3>1, <3>2 DEF PoolInv
    <3>4. CASE Use(g)
      <4>1. dirty' = [dirty EXCEPT ![o] = Leaves] /\ pc' = [pc EXCEPT ![g] = "using"] /\ UNCHANGED place
        BY <3>2, <3>4 DEF Use
      <4>2. place[o] # "pool"
        BY <3>3, ObjectsAssumption
      <4> QED BY <2>4, <3>1, <3>2, <3>3, <4>1, <4>2, SameProgram DEF PoolInv
    <3>5. CASE pc[g] = "using" /\ Put(g)
      <4>1. dirty' = [dirty EXCEPT ![o] = @ \ Cleared] /\ pc' = [pc EXCEPT ![g] = "resetting"]
            /\ UNCHANGED place
        BY <3>2, <3>5 DEF Put
      <4>2. place[o] # "pool"
        BY <3>3, ObjectsAssumption
      <4>3. dirty'[o] = Left
        BY <3>2, <3>5, <4>1 DEF PoolInv, Left
      <4> QED BY <2>4, <3>1, <3>2, <3>3, <4>1, <4>2, <4>3, SameProgram DEF PoolInv
    <3>6. CASE pc[g] = "resetting" /\ Put(g)
      <4>1. place' = [place EXCEPT ![o] = "pool"] /\ pc' = [pc EXCEPT ![g] = "idle"]
            /\ UNCHANGED dirty
        BY <3>2, <3>6 DEF Put
      <4>2. dirty[o] = Left
        BY <3>2, <3>6 DEF PoolInv
      <4> QED BY <2>4, <3>1, <3>2, <3>3, <4>1, <4>2, SameProgram DEF PoolInv
    <3> QED BY <2>4, <3>4, <3>5, <3>6 DEF Put
  <2>5. CASE built /\ UNCHANGED genVars /\ Collect
    <3>1. PICK o \in Objects : place[o] = "pool" /\ place' = [place EXCEPT ![o] = "none"]
      BY <2>5 DEF Collect
    <3>2. UNCHANGED <<built, dirty, pc, held>>
      BY <2>5 DEF Collect
    <3>3. \A h \in Goroutines : pc[h] # "idle" => held[h] # o
      BY <3>1, ObjectsAssumption DEF PoolInv
    <3> QED BY <2>5, <3>1, <3>2, <3>3, SameProgram DEF PoolInv
  <2>6. CASE UNCHANGED vars
    <3>1. UNCHANGED genVars /\ UNCHANGED <<built, place, dirty, pc, held>>
      BY <2>6 DEF vars, poolVars
    <3> QED BY <3>1, SameProgram DEF PoolInv
  <2> QED BY <2>1, <2>2, <2>3, <2>4, <2>5, <2>6 DEF Next
<1> QED BY <1>1, <1>2, PTL DEF Spec

(* For any number of goroutines and objects, and structs inside one another *)
(* to any depth, themselves included: an object from the pool of a program  *)
(* that was built with settled files holds nothing of its last user that    *)
(* the rules of Reset reach, and nobody clears it while it is in use.       *)
THEOREM PoolIsClean == Spec => []PoolClean
<1>1. GenInv /\ PoolInv => PoolClean
  <2> SUFFICES ASSUME GenInv, PoolInv, built, NEW g \in Goroutines
               PROVE  /\ pc[g] = "got" /\ Settled => dirty[held[g]] \subseteq Outside
                      /\ pc[g] = "using" => dirty[held[g]] = Leaves
    BY DEF PoolClean
  <2>1. pc[g] = "using" => dirty[held[g]] = Leaves
    BY DEF PoolInv
  <2>2. pc[g] = "got" => dirty[held[g]] \subseteq Left
    BY DEF PoolInv
  <2>3. \A p \in Packages : Compiles(p)
    BY DEF PoolInv
  <2> QED BY <2>1, <2>2, <2>3, LeftIsOutside
<1> QED BY <1>1, GenInvHolds, PoolInvHolds, PTL
=============================================================================
