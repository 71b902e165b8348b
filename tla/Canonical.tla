----------------------------- MODULE Canonical -----------------------------
(***************************************************************************)
(* The typed canonical form of radiald/canonical.py, on every object graph *)
(* a program can build: containers that hold atoms and each other, shared  *)
(* or in a circle, and that grow in any order.                             *)
(*                                                                         *)
(* Things contain each other, so what is said of one is a function defined *)
(* by recursion.  A form is a tag and what it is of, as _canonical returns *)
(* it; forms that differ have different JSON texts.                        *)
(***************************************************************************)
EXTENDS Naturals, Sequences, FiniteSets, SequencesExt

CONSTANTS
    Names,      \* what id() may return, in the order of creation
    Atoms,      \* values without parts
    TypeOf,     \* their Python types
    Refusable,  \* the atoms of an unsupported type, and non-finite floats
    ClassOf,    \* two atoms of one class are equal for Python, as True and 1
    MaxRows,    \* the number of rows in a container
    Before(_, _)\* whether the JSON text of a form precedes that of another

Sequential == {"list", "tuple"}
Unordered  == {"set", "frozenset"}
Kinds      == Sequential \cup Unordered \cup {"dict"}

ASSUME CanonicalAssumption ==
    /\ Names \in Seq(Range(Names)) /\ IsInjective(Names)
    /\ Range(Names) \cap Atoms = {}
    /\ Refusable \subseteq Atoms
    /\ \A a \in Atoms : TypeOf[a] \notin Kinds
    /\ MaxRows \in Nat

\* On a set of forms Before is a strict order that leaves no two of them level.
OrderOn(S) ==
    /\ \A f \in S : ~Before(f, f)
    /\ \A f, g \in S : f # g => Before(f, g) \/ Before(g, f)
    /\ \A f, g, h \in S : Before(f, g) /\ Before(g, h) => Before(f, h)

VARIABLE heap  \* from the objects created so far to their kinds and rows

\* An element of a list, tuple or set is a row of one value, an entry of a
\* dict one of two.
RowsOf(o) == heap[o].rows
Things    == Atoms \cup DOMAIN heap
---------------------------------------------------------------------------
\* The program that builds the values.

Hashable[v \in Things] ==
    IF v \in Atoms THEN TRUE
    ELSE /\ heap[v].kind \in {"tuple", "frozenset"}
         /\ \A i \in DOMAIN RowsOf(v) : Hashable[RowsOf(v)[i][1]]

\* v == w, for hashable values.
PyEqual[v \in Things] == [w \in Things |->
    IF v \in Atoms \/ w \in Atoms
    THEN v \in Atoms /\ w \in Atoms /\ ClassOf[v] = ClassOf[w]
    ELSE LET r == RowsOf(v)
             s == RowsOf(w)
         IN  /\ heap[v].kind = heap[w].kind
             /\ Len(r) = Len(s)
             /\ IF heap[v].kind = "tuple"
                THEN \A i \in DOMAIN r : PyEqual[r[i][1]][s[i][1]]
                ELSE \A i \in DOMAIN r : \E j \in DOMAIN s : PyEqual[r[i][1]][s[j][1]]]

\* A new object, under the next name.
Create(kind, rows) ==
    /\ Cardinality(DOMAIN heap) < Len(Names)
    /\ heap' = [o \in DOMAIN heap \cup {Names[Cardinality(DOMAIN heap) + 1]} |->
                   IF o \in DOMAIN heap THEN heap[o]
                                        ELSE [kind |-> kind, rows |-> rows]]

Frozen(kind) ==
    \E items \in BoundedSeq(Things, MaxRows) :
        /\ kind = "frozenset" =>
              /\ \A i \in DOMAIN items : Hashable[items[i]]
              /\ \A i, j \in DOMAIN items : i # j => ~PyEqual[items[i]][items[j]]
        /\ Create(kind, [i \in DOMAIN items |-> <<items[i]>>])

Extend(o, rows) ==
    /\ Len(rows) =< MaxRows
    /\ heap' = [heap EXCEPT ![o].rows = rows]

Append1(o, v) == heap[o].kind = "list" /\ Extend(o, RowsOf(o) \o << <<v>> >>)

\* A set iterates over its elements in an order of its own.
Add(o, v) ==
    /\ heap[o].kind = "set"
    /\ Hashable[v]
    /\ \A i \in DOMAIN RowsOf(o) : ~PyEqual[RowsOf(o)[i][1]][v]
    /\ \E i \in 1 .. Len(RowsOf(o)) + 1 : Extend(o, InsertAt(RowsOf(o), i, <<v>>))

\* A dict keeps the order of insertion, and the first of two equal keys.
Put(o, k, v) ==
    /\ heap[o].kind = "dict"
    /\ Hashable[k]
    /\ IF \E i \in DOMAIN RowsOf(o) : PyEqual[RowsOf(o)[i][1]][k]
       THEN heap' = [heap EXCEPT ![o].rows = [i \in DOMAIN @ |->
                        IF PyEqual[@[i][1]][k] THEN <<@[i][1], v>> ELSE @[i]]]
       ELSE Extend(o, RowsOf(o) \o << <<k, v>> >>)

CanonicalInit == heap = [o \in {} |-> [kind |-> "list", rows |-> <<>>]]

CanonicalNext ==
    \/ \E kind \in {"list", "set", "dict"} : Create(kind, <<>>)
    \/ \E kind \in {"tuple", "frozenset"} : Frozen(kind)
    \/ \E o \in DOMAIN heap, v \in Things : Append1(o, v) \/ Add(o, v)
    \/ \E o \in DOMAIN heap, k, v \in Things : Put(o, k, v)

CanonicalSpec == CanonicalInit /\ [][CanonicalNext]_heap
---------------------------------------------------------------------------
\* canonical.py.

\* CanonicalizationError is raised: no form is empty.
Refused == <<>>

\* Bug: the type is left out, and atoms Python calls equal are written alike.
AtomFormUntyped(v) == IF v \in Refusable THEN Refused ELSE <<"atom", ClassOf[v]>>
AtomForm(v) == IF v \in Refusable THEN Refused ELSE <<TypeOf[v], v>>

\* The rows of a dict are sorted by the texts of their keys, the elements of
\* a set or frozenset by their own.
\* Bug: they are left in the order of iteration.
ArrangedAsMet(kind, rows) == rows
Arranged(kind, rows) ==
    IF kind \in Sequential THEN rows
    ELSE LET order == CHOOSE p \in Bijection(DOMAIN rows, DOMAIN rows) :
                        \A i, j \in DOMAIN rows :
                            i < j => ~Before(rows[p[j]][1], rows[p[i]][1])
         IN  [i \in DOMAIN rows |-> rows[order[i]]]

Parts(v) == IF v \in Atoms THEN {} ELSE UNION {Range(row) : row \in Range(RowsOf(v))}

\* The containers in v.
Inner(v) == Parts(v) \cap DOMAIN heap

\* The containers below v, itself included only if it is in a circle: they are
\* in every set that holds those in v and those in its own members.
Below(v) ==
    {w \in DOMAIN heap : \A S \in SUBSET DOMAIN heap :
        (\A u \in {v} \cup S : Inner(u) \subseteq S) => w \in S}

\* The containers that are being written when row i of o is.
\* Bug: a container stays on the stack when it has been written.
StackUnpopped(stack, o, i) ==
    stack \cup {o} \cup UNION {
        UNION {({w} \ Atoms) \cup Below(w) : w \in Range(RowsOf(o)[h])} : h \in 1 .. i - 1}
Stack(stack, o, i) == stack \cup {o}

\* The form of a container, from those of its rows.
ContainerForm(kind, rows) ==
    IF \E i \in DOMAIN rows : \E j \in DOMAIN rows[i] : rows[i][j] = Refused
    THEN Refused
    ELSE <<kind, Arranged(kind, rows)>>

\* _canonical(v, stack).
Canon[stack \in SUBSET DOMAIN heap] == [v \in Things |->
    IF v \in Atoms THEN AtomForm(v)
    ELSE IF v \in stack THEN Refused
    ELSE ContainerForm(heap[v].kind,
            [i \in DOMAIN RowsOf(v) |->
                [j \in DOMAIN RowsOf(v)[i] |->
                    Canon[Stack(stack, v, i)][RowsOf(v)[i][j]]]])]

\* stable_digest, for a digest that keeps forms apart, and typed_identity.
StableDigest(v) == Canon[{}][v]
TypedIdentity(v) ==
    IF StableDigest(v) = Refused THEN Refused
    ELSE <<"list", << << <<"str", "radiald-identity-v1">> >>, <<StableDigest(v)>> >> >>
---------------------------------------------------------------------------
\* Equal in type and content, all the way down: the order of rows counts in
\* lists and tuples only, and the names of objects never.
SameValue[v \in Things] == [w \in Things |->
    IF v \in Atoms \/ w \in Atoms THEN v = w
    ELSE LET Alike(r, s) == \A j \in DOMAIN r : SameValue[r[j]][s[j]]
             r == RowsOf(v)
             s == RowsOf(w)
         IN  /\ heap[v].kind = heap[w].kind
             /\ Len(r) = Len(s)
             /\ IF heap[v].kind \in Sequential
                THEN \A i \in DOMAIN r : Alike(r[i], s[i])
                ELSE \A i \in DOMAIN r : \E j \in DOMAIN s : Alike(r[i], s[j])]

\* "Unsupported or cyclic values fail closed" (the docstring of
\* canonical_bytes), and nothing else does: a value is refused exactly when it
\* is, contains, or runs in a circle through something that has no form.  A
\* container met twice on different paths is not a circle.
FailsClosedExactly ==
    \A v \in DOMAIN heap :
        StableDigest(v) = Refused <=>
            \E w \in {v} \cup Below(v) :
                w \in Below(w) \/ Parts(w) \cap Refusable # {}

\* "A deterministic, type-preserving representation" (ibid.), and gate G9,
\* "True versus 1": two values that are identified have one identity exactly
\* if they are the same in type and content, whatever order they were built
\* or iterate in, and although Python may call others equal too.
IdentityIsTypedContent ==
    LET identity   == [v \in Things |-> TypedIdentity(v)]
        identified == {v \in Things : identity[v] # Refused}
    IN  \A v, w \in identified : identity[v] = identity[w] <=> SameValue[v][w]
=============================================================================
