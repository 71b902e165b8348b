-------------------------- MODULE CanonicalProofs --------------------------
(***************************************************************************)
(* What Canonical computes on every heap, proved.                          *)
(***************************************************************************)
EXTENDS Canonical, Induction, FunctionTheorems, SequenceTheorems

\* The forms of the parts of v, row by row, when form gives those of things.
RowForms(form, v) ==
    [i \in DOMAIN RowsOf(v) |-> [j \in DOMAIN RowsOf(v)[i] |-> form[RowsOf(v)[i][j]]]]

\* The form of v, given those of things on the stack v is pushed on.
Written(form, stack, v) ==
    IF v \in Atoms THEN AtomForm(v)
    ELSE IF v \in stack THEN Refused
    ELSE ContainerForm(heap[v].kind, RowForms(form, v))

\* How many containers are not on the stack.
Rest(stack) == Cardinality(DOMAIN heap \ stack)
---------------------------------------------------------------------------
\* The number of containers that are not being written decreases at each
\* recursive call.
LEMMA Pushed ==
    ASSUME IsFiniteSet(DOMAIN heap), NEW stack \in SUBSET DOMAIN heap, NEW v \in DOMAIN heap \ stack
    PROVE  /\ stack \cup {v} \in SUBSET DOMAIN heap
           /\ Rest(stack) \in Nat
           /\ Rest(stack \cup {v}) \in Nat
           /\ Rest(stack \cup {v}) + 1 = Rest(stack)
<1>1. IsFiniteSet(DOMAIN heap \ stack) /\ IsFiniteSet(DOMAIN heap \ (stack \cup {v}))
  <2>1. DOMAIN heap \ stack \in SUBSET DOMAIN heap
    OBVIOUS
  <2>2. DOMAIN heap \ (stack \cup {v}) \in SUBSET DOMAIN heap
    OBVIOUS
  <2> QED
    BY <2>1, <2>2, FS_Subset
<1>2. DOMAIN heap \ (stack \cup {v}) = (DOMAIN heap \ stack) \ {v}
  OBVIOUS
<1>3. Rest(stack \cup {v}) = Rest(stack) - 1
  <2> DEFINE rest == DOMAIN heap \ stack
  <2>1. Cardinality(rest \ {v}) = Cardinality(rest) - 1
    <3>1. IsFiniteSet(rest) /\ v \in rest
      BY <1>1
    <3> HIDE DEF rest
    <3> QED
      BY <3>1, FS_RemoveElement
  <2> QED
    BY <1>2, <2>1 DEF Rest
<1>4. Rest(stack) \in Nat /\ Rest(stack \cup {v}) \in Nat
  BY <1>1, FS_CardinalityType DEF Rest
<1> QED
  BY <1>3, <1>4

\* The recursion of _canonical() ends, so Canon satisfies its own definition.
LEMMA CanonSteps ==
    ASSUME IsFiniteSet(DOMAIN heap), NEW stack \in SUBSET DOMAIN heap, NEW v \in Things
    PROVE  Canon[stack][v] = Written(Canon[stack \cup {v}], stack, v)
<1> DEFINE F(c) == [s \in SUBSET DOMAIN heap |-> [u \in Things |->
                       IF u \in Atoms THEN AtomForm(u)
                       ELSE IF u \in s THEN Refused
                       ELSE ContainerForm(heap[u].kind,
                               [i \in DOMAIN RowsOf(u) |->
                                   [j \in DOMAIN RowsOf(u)[i] |->
                                       c[Stack(s, u, i)][RowsOf(u)[i][j]]]])]]
           IsForm(c) == c = F(c)
           canon == CHOOSE c : IsForm(c)
<1>1. ASSUME NEW c
      PROVE  F(c) = [s \in SUBSET DOMAIN heap |-> [u \in Things |-> Written(c[s \cup {u}], s, u)]]
  BY DEF Written, RowForms, Stack
<1>2. ASSUME NEW c, NEW d, NEW s \in SUBSET DOMAIN heap,
             \A u \in DOMAIN heap \ s : c[s \cup {u}] = d[s \cup {u}]
      PROVE  F(c)[s] = F(d)[s]
  <2>1. \A u \in Things : Written(c[s \cup {u}], s, u) = Written(d[s \cup {u}], s, u)
    BY <1>2 DEF Written, Things
  <2>2. /\ F(c)[s] = [u \in Things |-> Written(c[s \cup {u}], s, u)]
        /\ F(d)[s] = [u \in Things |-> Written(d[s \cup {u}], s, u)]
    <3> HIDE DEF F
    <3> QED
      BY <1>1
  <2> HIDE DEF F
  <2> QED
    BY <2>1, <2>2
<1> DEFINE good == {n \in Nat : \E c : \A s \in SUBSET DOMAIN heap :
                                  Rest(s) <= n => c[s] = F(c)[s]}
<1>3. 0 \in good
  <2> HIDE DEF F
  <2>1. ASSUME NEW s \in SUBSET DOMAIN heap, Rest(s) <= 0
        PROVE  F(F(<<>>))[s] = F(<<>>)[s]
    <3>1. DOMAIN heap \ s = {}
      <4>1. IsFiniteSet(DOMAIN heap \ s)
        <5>1. DOMAIN heap \ s \in SUBSET DOMAIN heap
          OBVIOUS
        <5> QED
          BY <5>1, FS_Subset
      <4>2. Cardinality(DOMAIN heap \ s) = 0
        BY <2>1, <4>1, FS_CardinalityType DEF Rest
      <4> QED
        BY <4>1, <4>2, FS_EmptySet
    <3> QED
      BY <1>2, <3>1
  <2>2. \A s \in SUBSET DOMAIN heap : Rest(s) <= 0 => F(<<>>)[s] = F(F(<<>>))[s]
    BY <2>1
  <2> QED
    BY <2>2
<1>4. ASSUME NEW n \in Nat, n \in good
      PROVE  n + 1 \in good
  <2> HIDE DEF F
  <2>1. PICK c : \A s \in SUBSET DOMAIN heap : Rest(s) <= n => c[s] = F(c)[s]
    BY <1>4
  <2>2. ASSUME NEW s \in SUBSET DOMAIN heap, Rest(s) <= n + 1
        PROVE  F(c)[s] = F(F(c))[s]
    <3>1. ASSUME NEW u \in DOMAIN heap \ s
          PROVE  c[s \cup {u}] = F(c)[s \cup {u}]
      <4>1. s \cup {u} \in SUBSET DOMAIN heap /\ Rest(s \cup {u}) <= n
        BY <2>2, Pushed
      <4> QED
        BY <2>1, <4>1
    <3> QED
      BY <1>2, <3>1
  <2>3. \A s \in SUBSET DOMAIN heap : Rest(s) <= n + 1 => F(c)[s] = F(F(c))[s]
    BY <2>2
  <2> QED
    BY <2>3
<1>5. PICK c : \A s \in SUBSET DOMAIN heap : c[s] = F(c)[s]
  <2> DEFINE n == Cardinality(DOMAIN heap)
  <2>1. n \in good
    <3>1. Nat \subseteq good
      <4> HIDE DEF good
      <4> QED
        BY <1>3, <1>4, SetInduction
    <3>2. n \in Nat
      BY FS_CardinalityType
    <3> HIDE DEF n, good
    <3> QED
      BY <3>1, <3>2
  <2>2. \A s \in SUBSET DOMAIN heap : Rest(s) <= n
    <3>1. \A s \in SUBSET DOMAIN heap : DOMAIN heap \ s \in SUBSET DOMAIN heap
      OBVIOUS
    <3> QED
      BY <3>1, FS_Subset DEF Rest
  <2> HIDE DEF n, F
  <2> QED
    BY <2>1, <2>2
<1>6. IsForm(F(c))
  <2> HIDE DEF F
  <2>1. \A s \in SUBSET DOMAIN heap : F(c)[s] = F(F(c))[s]
    <3>1. ASSUME NEW s \in SUBSET DOMAIN heap
          PROVE  F(c)[s] = F(F(c))[s]
      <4>1. \A u \in DOMAIN heap \ s : c[s \cup {u}] = F(c)[s \cup {u}]
        BY <1>5, Pushed
      <4> QED
        BY <1>2, <4>1
    <3> QED
      BY <3>1
  <2>2. \A d : F(d) = [s \in SUBSET DOMAIN heap |-> F(d)[s]]
    BY <1>1
  <2> QED
    BY <2>1, <2>2
<1>7. canon = F(canon)
  <2>1. IsForm(canon)
    <3> HIDE DEF IsForm
    <3> QED
      BY <1>6
  <2> QED
    BY <2>1
<1>8. canon = Canon
  BY DEF Canon
<1> HIDE DEF canon
<1>9. Canon = F(Canon)
  <2> HIDE DEF F, IsForm
  <2> QED
    BY <1>7, <1>8
<1> HIDE DEF F
<1>10. ASSUME NEW d, NEW e, e = F(d)
       PROVE  e[stack][v] = Written(d[stack \cup {v}], stack, v)
  <2>1. e = [s \in SUBSET DOMAIN heap |-> [u \in Things |-> Written(d[s \cup {u}], s, u)]]
    BY <1>1, <1>10
  <2>2. e[stack] = [u \in Things |-> Written(d[stack \cup {u}], stack, u)]
    BY <2>1
  <2> QED
    BY <2>2
<1> QED
  BY <1>9, <1>10
---------------------------------------------------------------------------
\* The containers below one are those in it and those below them.
LEMMA BelowUnfolds ==
    ASSUME NEW v
    PROVE  Below(v) = Inner(v) \cup UNION {Below(u) : u \in Inner(v)}
<1> DEFINE Closed(w, S) == \A u \in {w} \cup S : Inner(u) \subseteq S
           all == Inner(v) \cup UNION {Below(u) : u \in Inner(v)}
<1>1. \A w : Inner(w) \subseteq DOMAIN heap /\ Below(w) \subseteq DOMAIN heap
  BY DEF Inner, Below
<1>2. \A w, S : S \subseteq DOMAIN heap /\ Closed(w, S) => Below(w) \subseteq S
  BY DEF Below
<1>3. ASSUME NEW w
      PROVE  Closed(w, Below(w))
  <2>1. ASSUME NEW u \in {w} \cup Below(w), NEW x \in Inner(u),
               NEW S \in SUBSET DOMAIN heap, Closed(w, S)
        PROVE  x \in S
    <3>1. Below(w) \subseteq S
      BY <1>2, <2>1
    <3> QED
      BY <2>1, <3>1
  <2>2. ASSUME NEW u \in {w} \cup Below(w), NEW x \in Inner(u)
        PROVE  x \in Below(w)
    BY <1>1, <2>1, <2>2 DEF Below
  <2> QED
    BY <2>2
<1> HIDE DEF Closed
<1>4. all \subseteq Below(v)
  <2>1. Inner(v) \subseteq Below(v)
    BY <1>3 DEF Closed
  <2>2. ASSUME NEW u \in Inner(v)
        PROVE  Below(u) \subseteq Below(v)
    <3>1. Closed(u, Below(v))
      BY <1>3, <2>1 DEF Closed
    <3> QED
      BY <1>1, <1>2, <3>1
  <2> QED
    BY <2>1, <2>2
<1>5. Below(v) \subseteq all
  <2>1. all \subseteq DOMAIN heap
    BY <1>1
  <2>2. ASSUME NEW u \in {v} \cup all
        PROVE  Inner(u) \subseteq all
    <3>1. CASE u = v
      BY <3>1
    <3>2. CASE u \in Inner(v)
      <4>1. Inner(u) \subseteq Below(u)
        BY <1>3 DEF Closed
      <4> QED
        BY <3>2, <4>1
    <3>3. CASE \E w \in Inner(v) : u \in Below(w)
      <4>1. PICK w \in Inner(v) : u \in Below(w)
        BY <3>3
      <4>2. Inner(u) \subseteq Below(w)
        BY <1>3, <4>1 DEF Closed
      <4> QED
        BY <4>1, <4>2
    <3> QED
      BY <2>2, <3>1, <3>2, <3>3
  <2>3. Closed(v, all)
    <3> HIDE DEF all
    <3> QED
      BY <2>2 DEF Closed
  <2> HIDE DEF all
  <2> QED
    BY <1>2, <2>1, <2>3
<1> QED
  BY <1>4, <1>5

\* What is said of a container below another holds of all that is below it.
LEMMA BelowGrows ==
    ASSUME NEW v, NEW u \in Inner(v)
    PROVE  u \in Below(v) /\ Below(u) \subseteq Below(v)
BY BelowUnfolds

\* An entry of a dict is a key and a value, an element of any other container
\* a value.
Width(kind) == IF kind = "dict" THEN 2 ELSE 1

Row(kind, S) == {row \in Seq(S) : Len(row) = Width(kind)}

\* Every container created has a kind, and the rows of one.
HeapOK ==
    /\ IsFiniteSet(DOMAIN heap)
    /\ DOMAIN heap \cap Atoms = {}
    /\ heap \in [DOMAIN heap -> [kind : Kinds, rows : Seq(Seq(Things))]]
    /\ \A o \in DOMAIN heap : heap[o].rows \in Seq(Row(heap[o].kind, Things))

\* The parts of a container are what its rows hold.
LEMMA PartsInRows ==
    ASSUME HeapOK, NEW v \in DOMAIN heap
    PROVE  /\ Parts(v) \subseteq Things
           /\ v \notin Atoms
           /\ \A x : x \in Parts(v) <=>
                  \E i \in DOMAIN RowsOf(v) : \E j \in DOMAIN RowsOf(v)[i] : x = RowsOf(v)[i][j]
<1>1. v \notin Atoms
  BY DEF HeapOK
<1>2. RowsOf(v) \in Seq(Seq(Things))
  BY DEF HeapOK, RowsOf
<1>3. \A i \in DOMAIN RowsOf(v) : RowsOf(v)[i] \in Seq(Things)
  BY <1>2
<1>4. \A i \in DOMAIN RowsOf(v) : \A j \in DOMAIN RowsOf(v)[i] : RowsOf(v)[i][j] \in Things
  BY <1>3
<1>5. \A x : x \in Parts(v) <=>
          \E i \in DOMAIN RowsOf(v) : \E j \in DOMAIN RowsOf(v)[i] : x = RowsOf(v)[i][j]
  BY <1>1 DEF Parts, Range
<1> QED
  BY <1>1, <1>4, <1>5

\* A container is refused if one of its parts is.
LEMMA ContainerRefused ==
    ASSUME HeapOK, NEW v \in DOMAIN heap, NEW form
    PROVE  ContainerForm(heap[v].kind, RowForms(form, v)) = Refused <=>
               \E x \in Parts(v) : form[x] = Refused
<1> DEFINE rows == RowForms(form, v)
<1>1. /\ DOMAIN rows = DOMAIN RowsOf(v)
      /\ \A i \in DOMAIN rows : /\ DOMAIN rows[i] = DOMAIN RowsOf(v)[i]
                                /\ \A j \in DOMAIN rows[i] : rows[i][j] = form[RowsOf(v)[i][j]]
  BY DEF RowForms
<1>2. (\E i \in DOMAIN rows : \E j \in DOMAIN rows[i] : rows[i][j] = Refused) <=>
          \E x \in Parts(v) : form[x] = Refused
  <2> HIDE DEF rows
  <2> QED
    BY <1>1, PartsInRows
<1>3. ContainerForm(heap[v].kind, rows) = Refused <=>
          \E i \in DOMAIN rows : \E j \in DOMAIN rows[i] : rows[i][j] = Refused
  <2> HIDE DEF rows
  <2> QED
    BY DEF ContainerForm, Refused
<1> QED
  BY <1>2, <1>3

\* An atom is refused if it is of an unsupported type or not finite.
LEMMA AtomRefused ==
    ASSUME NEW v
    PROVE  AtomForm(v) = Refused <=> v \in Refusable
BY DEF AtomForm, Refused

\* v is, contains, or runs in a circle through something that has no form.
Unformed(v) == \E w \in {v} \cup Below(v) : w \in Below(w) \/ Parts(w) \cap Refusable # {}

\* What contains something without a form has none.
LEMMA UnformedPart ==
    ASSUME HeapOK, NEW v \in DOMAIN heap
    PROVE  Unformed(v) => \/ Parts(v) \cap Refusable # {}
                          \/ \E u \in Inner(v) : Unformed(u)
<1> SUFFICES ASSUME Unformed(v), Parts(v) \cap Refusable = {}
             PROVE  \E u \in Inner(v) : Unformed(u)
  OBVIOUS
<1>1. PICK w \in {v} \cup Below(v) : w \in Below(w) \/ Parts(w) \cap Refusable # {}
  BY DEF Unformed
<1>2. w \in Below(v)
  BY <1>1
<1>3. PICK u \in Inner(v) : w = u \/ w \in Below(u)
  BY <1>2, BelowUnfolds
<1>4. Unformed(u)
  BY <1>1, <1>3 DEF Unformed
<1> QED
  BY <1>4

\* What has a form contains nothing without one, and is in no circle.
LEMMA FormedPart ==
    ASSUME HeapOK, NEW v \in DOMAIN heap, ~Unformed(v)
    PROVE  /\ Parts(v) \cap Refusable = {}
           /\ v \notin Below(v)
           /\ \A u \in Inner(v) : ~Unformed(u)
<1>1. ASSUME NEW u \in Inner(v)
      PROVE  ~Unformed(u)
  <2>1. {u} \cup Below(u) \subseteq {v} \cup Below(v)
    BY BelowGrows
  <2> QED
    BY <2>1 DEF Unformed
<1> QED
  BY <1>1 DEF Unformed

\* With enough containers off the stack, exactly what is not formed is refused.
LEMMA RefusedExactly ==
    ASSUME HeapOK, CanonicalAssumption
    PROVE  \A stack \in SUBSET DOMAIN heap, v \in DOMAIN heap :
               /\ Unformed(v) => Canon[stack][v] = Refused
               /\ ~Unformed(v) /\ ({v} \cup Below(v)) \cap stack = {} => Canon[stack][v] # Refused
<1> DEFINE Exact(stack, v) ==
               /\ Unformed(v) => Canon[stack][v] = Refused
               /\ ~Unformed(v) /\ ({v} \cup Below(v)) \cap stack = {} => Canon[stack][v] # Refused
           good == {n \in Nat : \A stack \in SUBSET DOMAIN heap, v \in DOMAIN heap :
                                    Rest(stack) <= n => Exact(stack, v)}
<1>1. IsFiniteSet(DOMAIN heap)
  BY DEF HeapOK
<1>2. ASSUME NEW stack \in SUBSET DOMAIN heap, NEW v \in stack
      PROVE  Exact(stack, v)
  <2>1. v \in Things /\ v \notin Atoms
    BY DEF HeapOK, Things
  <2>2. Canon[stack][v] = Refused
    BY <1>1, <2>1, CanonSteps DEF Written
  <2> QED
    BY <2>2
<1>3. ASSUME NEW stack \in SUBSET DOMAIN heap, NEW v \in DOMAIN heap \ stack,
             \A u \in DOMAIN heap : Exact(stack \cup {v}, u)
      PROVE  Exact(stack, v)
  <2> DEFINE form == Canon[stack \cup {v}]
  <2>1. stack \cup {v} \in SUBSET DOMAIN heap
    OBVIOUS
  <2>2. Canon[stack][v] = ContainerForm(heap[v].kind, RowForms(form, v))
    <3>1. v \in Things /\ v \notin Atoms
      BY DEF HeapOK, Things
    <3> QED
      BY <1>1, <3>1, CanonSteps DEF Written
  <2>3. Canon[stack][v] = Refused <=> \E x \in Parts(v) : form[x] = Refused
    BY <2>2, ContainerRefused
  <2>4. \A x \in Atoms : form[x] = Refused <=> x \in Refusable
    <3>1. ASSUME NEW x \in Atoms
          PROVE  form[x] = AtomForm(x)
      <4>1. x \in Things
        BY DEF Things
      <4> QED
        BY <1>1, <2>1, <4>1, CanonSteps DEF Written
    <3> QED
      BY <3>1, AtomRefused
  <2>5. Parts(v) \subseteq Atoms \cup Inner(v) /\ Inner(v) \subseteq Parts(v) /\ Inner(v) \subseteq DOMAIN heap
    BY PartsInRows DEF Inner, Things
  <2>6. Refusable \subseteq Atoms
    BY DEF CanonicalAssumption
  <2>7. \A u \in DOMAIN heap : Unformed(u) => form[u] = Refused
    BY <1>3
  <2>8. \A u \in DOMAIN heap :
            ~Unformed(u) /\ ({u} \cup Below(u)) \cap (stack \cup {v}) = {} => form[u] # Refused
    BY <1>3
  <2> HIDE DEF form
  <2>9. CASE Unformed(v)
    <3>1. \E x \in Parts(v) : form[x] = Refused
      <4>1. CASE Parts(v) \cap Refusable # {}
        BY <2>4, <2>6, <4>1
      <4>2. CASE \E u \in Inner(v) : Unformed(u)
        BY <2>5, <2>7, <4>2
      <4> QED
        BY <2>9, <4>1, <4>2, UnformedPart
    <3> QED
      BY <2>3, <2>9, <3>1
  <2>10. CASE ~Unformed(v) /\ ({v} \cup Below(v)) \cap stack = {}
    <3>1. ASSUME NEW x \in Atoms \cap Parts(v)
          PROVE  form[x] # Refused
      BY <2>4, <2>10, FormedPart
    <3>2. ASSUME NEW u \in Inner(v)
          PROVE  form[u] # Refused
      <4>1. ~Unformed(u) /\ v \notin Below(v)
        BY <2>10, FormedPart
      <4>2. {u} \cup Below(u) \subseteq Below(v)
        BY BelowGrows
      <4>3. ({u} \cup Below(u)) \cap (stack \cup {v}) = {}
        BY <2>10, <4>1, <4>2
      <4> QED
        BY <2>5, <2>8, <4>1, <4>3
    <3> QED
      BY <2>3, <2>5, <2>10, <3>1, <3>2
  <2> QED
    BY <2>9, <2>10
<1> HIDE DEF Exact
<1>4. 0 \in good
  <2>1. ASSUME NEW stack \in SUBSET DOMAIN heap, NEW v \in DOMAIN heap, Rest(stack) <= 0
        PROVE  v \in stack
    <3> SUFFICES ASSUME v \notin stack PROVE FALSE
      OBVIOUS
    <3>1. Rest(stack \cup {v}) \in Nat /\ Rest(stack) \in Nat /\ Rest(stack \cup {v}) + 1 = Rest(stack)
      BY <1>1, Pushed
    <3> QED
      BY <2>1, <3>1
  <2> QED
    BY <1>2, <2>1
<1>5. ASSUME NEW n \in Nat, n \in good
      PROVE  n + 1 \in good
  <2>1. ASSUME NEW stack \in SUBSET DOMAIN heap, NEW v \in DOMAIN heap, Rest(stack) <= n + 1
        PROVE  Exact(stack, v)
    <3>1. CASE v \in stack
      BY <1>2, <3>1
    <3>2. CASE v \notin stack
      <4>1. stack \cup {v} \in SUBSET DOMAIN heap /\ Rest(stack \cup {v}) <= n
        BY <1>1, <2>1, <3>2, Pushed
      <4>2. \A u \in DOMAIN heap : Exact(stack \cup {v}, u)
        BY <1>5, <4>1
      <4> QED
        BY <1>3, <3>2, <4>2
    <3> QED
      BY <3>1, <3>2
  <2> QED
    BY <2>1
<1>6. Nat \subseteq good
  <2> HIDE DEF good
  <2> QED
    BY <1>4, <1>5, SetInduction
<1>7. ASSUME NEW stack \in SUBSET DOMAIN heap, NEW v \in DOMAIN heap
      PROVE  Exact(stack, v)
  <2>1. Rest(stack) \in Nat
    <3>1. DOMAIN heap \ stack \in SUBSET DOMAIN heap
      OBVIOUS
    <3> QED
      BY <1>1, <3>1, FS_Subset, FS_CardinalityType DEF Rest
  <2> QED
    BY <1>6, <2>1
<1> QED
  BY <1>7 DEF Exact

\* Rows of things are sequences of sequences of things.
LEMMA RowsAreSeqs ==
    ASSUME NEW kind, NEW rows \in Seq(Row(kind, Things))
    PROVE  rows \in Seq(Seq(Things))
<1>1. Row(kind, Things) \subseteq Seq(Things)
  BY DEF Row
<1> QED
  BY <1>1, SeqMonotonic

\* A new container with well-formed rows keeps the heap well formed.
LEMMA Created ==
    ASSUME CanonicalAssumption, HeapOK, NEW kind \in Kinds, NEW rows \in Seq(Row(kind, Things)),
           Create(kind, rows)
    PROVE  HeapOK'
<1> DEFINE name == Names[Cardinality(DOMAIN heap) + 1]
<1>1. name \notin Atoms
  <2>1. Cardinality(DOMAIN heap) \in Nat /\ Cardinality(DOMAIN heap) < Len(Names)
    BY FS_CardinalityType DEF HeapOK, Create
  <2>2. Cardinality(DOMAIN heap) + 1 \in DOMAIN Names
    BY <2>1 DEF CanonicalAssumption
  <2> QED
    BY <2>2 DEF CanonicalAssumption, Range
<1> HIDE DEF name
<1>2. /\ DOMAIN heap' = DOMAIN heap \cup {name}
      /\ \A o \in DOMAIN heap' :
             heap'[o] = IF o \in DOMAIN heap THEN heap[o] ELSE [kind |-> kind, rows |-> rows]
      /\ heap' = [o \in DOMAIN heap' |-> heap'[o]]
  BY DEF Create, name
<1>3. IsFiniteSet(DOMAIN heap') /\ DOMAIN heap' \cap Atoms = {}
  <2>1. IsFiniteSet(DOMAIN heap \cup {name})
    BY FS_AddElement DEF HeapOK
  <2> QED
    BY <1>1, <1>2, <2>1 DEF HeapOK
<1>4. /\ Seq(Seq(Things)) \subseteq Seq(Seq(Things)')
      /\ \A k : Seq(Row(k, Things)) \subseteq Seq(Row(k, Things'))
  <2>1. Things \subseteq Things'
    BY <1>2 DEF Things
  <2>2. \A row \in Seq(Things) : row \in Seq(Things)'
    BY <2>1, SeqMonotonic
  <2>3. \A k : Row(k, Things) \subseteq Row(k, Things')
    BY <2>2 DEF Row
  <2> QED
    BY <2>2, <2>3, SeqMonotonic
<1>5. ASSUME NEW o \in DOMAIN heap'
      PROVE  /\ heap'[o] \in [kind : Kinds, rows : Seq(Seq(Things)')]
             /\ heap'[o].rows \in Seq(Row(heap'[o].kind, Things'))
  <2>1. CASE o \in DOMAIN heap
    <3>1. heap'[o] = heap[o] /\ heap[o] \in [kind : Kinds, rows : Seq(Seq(Things))]
      BY <1>2, <2>1 DEF HeapOK
    <3>2. heap[o].rows \in Seq(Seq(Things)') /\ heap[o].rows \in Seq(Row(heap[o].kind, Things'))
      BY <1>4, <2>1, <3>1 DEF HeapOK
    <3>3. heap[o] = [kind |-> heap[o].kind, rows |-> heap[o].rows]
      BY <3>1
    <3> QED
      BY <3>1, <3>2, <3>3
  <2>2. CASE o \notin DOMAIN heap
    <3>1. heap'[o] = [kind |-> kind, rows |-> rows]
      BY <1>2, <2>2
    <3>2. rows \in Seq(Seq(Things)') /\ rows \in Seq(Row(kind, Things'))
      BY <1>4, RowsAreSeqs
    <3> QED
      BY <3>1, <3>2
  <2> QED
    BY <2>1, <2>2
<1> QED
  BY <1>2, <1>3, <1>5 DEF HeapOK

\* So does a container given other well-formed rows,
LEMMA Extended ==
    ASSUME HeapOK, NEW o \in DOMAIN heap, NEW rows \in Seq(Row(heap[o].kind, Things)),
           heap' = [heap EXCEPT ![o].rows = rows]
    PROVE  HeapOK'
<1>1. heap[o] \in [kind : Kinds, rows : Seq(Seq(Things))] /\ rows \in Seq(Seq(Things))
  BY RowsAreSeqs DEF HeapOK
<1>2. /\ DOMAIN heap' = DOMAIN heap
      /\ heap' = [u \in DOMAIN heap |-> heap'[u]]
      /\ \A u \in DOMAIN heap \ {o} : heap'[u] = heap[u]
      /\ heap'[o] = [heap[o] EXCEPT !.rows = rows]
  OBVIOUS
<1>3. Things' = Things
  BY <1>2 DEF Things
<1>4. /\ heap'[o] \in [kind : Kinds, rows : Seq(Seq(Things))]
      /\ heap'[o].rows = rows
      /\ heap'[o].kind = heap[o].kind
  BY <1>1, <1>2
<1>5. \A u \in DOMAIN heap : /\ heap'[u] \in [kind : Kinds, rows : Seq(Seq(Things))]
                             /\ heap'[u].rows \in Seq(Row(heap'[u].kind, Things))
  BY <1>2, <1>4 DEF HeapOK
<1> QED
  BY <1>2, <1>3, <1>5 DEF HeapOK

\* and rows stay well formed when one more is appended or inserted.
LEMMA SeqGrows ==
    ASSUME NEW S, NEW s \in Seq(S), NEW x \in S, NEW i \in 1 .. Len(s) + 1
    PROVE  s \o <<x>> \in Seq(S) /\ InsertAt(s, i, x) \in Seq(S)
<1> DEFINE a == SubSeq(s, 1, i - 1)
           b == SubSeq(s, i, Len(s))
<1>1. a \in Seq(S) /\ b \in Seq(S) /\ <<x>> \in Seq(S)
  OBVIOUS
<1>2. InsertAt(s, i, x) = (a \o <<x>>) \o b
  BY DEF InsertAt
<1> HIDE DEF a, b
<1> QED
  BY <1>1, <1>2, ConcatProperties

\* No step of the program breaks the form of the heap.
LEMMA HeapStep ==
    ASSUME CanonicalAssumption, HeapOK, [CanonicalNext]_heap
    PROVE  HeapOK'
<1>1. ASSUME NEW o \in DOMAIN heap
      PROVE  RowsOf(o) \in Seq(Row(heap[o].kind, Things))
  BY DEF HeapOK, RowsOf
<1>2. ASSUME NEW kind, Width(kind) = 1, NEW v \in Things
      PROVE  <<v>> \in Row(kind, Things)
  BY <1>2 DEF Row
<1>3. \A kind : kind # "dict" => Width(kind) = 1
  BY DEF Width
<1>4. ASSUME NEW kind \in {"list", "set", "dict"}, Create(kind, <<>>)
      PROVE  HeapOK'
  <2>1. <<>> \in Seq(Row(kind, Things)) /\ kind \in Kinds
    BY DEF Kinds, Sequential, Unordered
  <2> QED
    BY <1>4, <2>1, Created
<1>5. ASSUME NEW kind \in {"tuple", "frozenset"}, Frozen(kind)
      PROVE  HeapOK'
  <2>1. PICK items \in BoundedSeq(Things, MaxRows) :
                 Create(kind, [i \in DOMAIN items |-> <<items[i]>>])
    BY <1>5 DEF Frozen
  <2>2. PICK m \in Nat : items \in [1 .. m -> Things]
    BY DEF BoundedSeq, SeqOf, CanonicalAssumption
  <2> DEFINE rows == [i \in DOMAIN items |-> <<items[i]>>]
  <2>3. kind \in Kinds
    BY DEF Kinds, Sequential, Unordered
  <2>4. rows \in [1 .. m -> Row(kind, Things)]
    <3>1. \A i \in 1 .. m : <<items[i]>> \in Row(kind, Things)
      BY <1>2, <1>3, <2>2
    <3> QED
      BY <2>2, <3>1
  <2> HIDE DEF rows
  <2>5. rows \in Seq(Row(kind, Things))
    BY <2>4
  <2> QED
    BY <2>1, <2>3, <2>5, Created DEF rows
<1>6. ASSUME NEW o \in DOMAIN heap, NEW v \in Things, Append1(o, v)
      PROVE  HeapOK'
  <2> DEFINE rows == RowsOf(o) \o << <<v>> >>
  <2>1. heap' = [heap EXCEPT ![o].rows = rows] /\ <<v>> \in Row(heap[o].kind, Things)
    BY <1>2, <1>3, <1>6 DEF Append1, Extend
  <2>2. rows \in Seq(Row(heap[o].kind, Things))
    BY <1>1, <2>1, ConcatProperties
  <2> HIDE DEF rows
  <2> QED
    BY <2>1, <2>2, Extended
<1>7. ASSUME NEW o \in DOMAIN heap, NEW v \in Things, Add(o, v)
      PROVE  HeapOK'
  <2>1. PICK i \in 1 .. Len(RowsOf(o)) + 1 :
                 heap' = [heap EXCEPT ![o].rows = InsertAt(RowsOf(o), i, <<v>>)]
    BY <1>7 DEF Add, Extend
  <2>2. <<v>> \in Row(heap[o].kind, Things)
    BY <1>2, <1>3, <1>7 DEF Add
  <2>3. InsertAt(RowsOf(o), i, <<v>>) \in Seq(Row(heap[o].kind, Things))
    BY <1>1, <2>2, SeqGrows
  <2> QED
    BY <2>1, <2>3, Extended
<1>8. ASSUME NEW o \in DOMAIN heap, NEW k \in Things, NEW v \in Things, Put(o, k, v)
      PROVE  HeapOK'
  <2>1. heap[o].kind = "dict" /\ \A x \in Things : <<x, v>> \in Row(heap[o].kind, Things)
    <3>1. heap[o].kind = "dict" /\ Width(heap[o].kind) = 2
      BY <1>8 DEF Put, Width
    <3>2. \A x \in Things : <<x, v>> \in Seq(Things) /\ Len(<<x, v>>) = 2
      OBVIOUS
    <3> QED
      BY <3>1, <3>2 DEF Row
  <2>2. CASE \E i \in DOMAIN RowsOf(o) : PyEqual[RowsOf(o)[i][1]][k]
    <3> DEFINE r == RowsOf(o)
               rows == [i \in DOMAIN r |-> IF PyEqual[r[i][1]][k] THEN <<r[i][1], v>> ELSE r[i]]
    <3>1. heap' = [heap EXCEPT ![o].rows = rows]
      BY <1>8, <2>2 DEF Put, RowsOf
    <3>2. r \in [1 .. Len(r) -> Row(heap[o].kind, Things)] /\ Len(r) \in Nat
      BY <1>1
    <3>3. ASSUME NEW row \in Row(heap[o].kind, Things)
          PROVE  row[1] \in Things
      <4>1. row \in Seq(Things) /\ Len(row) = 2
        BY <2>1 DEF Row, Width
      <4>2. 1 \in 1 .. Len(row)
        BY <4>1
      <4> QED
        BY <4>1, <4>2, ElementOfSeq
    <3> HIDE DEF r
    <3>4. rows \in [1 .. Len(r) -> Row(heap[o].kind, Things)]
      BY <2>1, <3>2, <3>3
    <3> HIDE DEF rows
    <3>5. rows \in Seq(Row(heap[o].kind, Things))
      BY <3>2, <3>4
    <3> QED
      BY <3>1, <3>5, Extended
  <2>3. CASE ~\E i \in DOMAIN RowsOf(o) : PyEqual[RowsOf(o)[i][1]][k]
    <3> DEFINE rows == RowsOf(o) \o << <<k, v>> >>
    <3>1. heap' = [heap EXCEPT ![o].rows = rows]
      BY <1>8, <2>3 DEF Put, Extend
    <3>2. rows \in Seq(Row(heap[o].kind, Things))
      BY <1>1, <2>1, ConcatProperties
    <3> HIDE DEF rows
    <3> QED
      BY <3>1, <3>2, Extended
  <2> QED
    BY <2>2, <2>3
<1>9. CASE UNCHANGED heap
  BY <1>9 DEF HeapOK, Things, Row
<1> QED
  BY <1>4, <1>5, <1>6, <1>7, <1>8, <1>9 DEF CanonicalNext

\* What the program builds is always a heap of well-formed containers.
THEOREM HeapInvariant == CanonicalSpec => []HeapOK
<1>1. CanonicalInit => HeapOK
  BY FS_EmptySet DEF CanonicalInit, HeapOK
<1>2. HeapOK /\ [CanonicalNext]_heap => HeapOK'
  BY CanonicalAssumption, HeapStep
<1> QED
  BY <1>1, <1>2, PTL DEF CanonicalSpec

\* "Unsupported or cyclic values fail closed" (canonical_bytes), and nothing
\* else does, in every object graph a program can build.
THEOREM FailsClosedExactlyHolds == CanonicalSpec => []FailsClosedExactly
<1>1. HeapOK => FailsClosedExactly
  <2> SUFFICES ASSUME HeapOK, NEW v \in DOMAIN heap
               PROVE  StableDigest(v) = Refused <=> Unformed(v)
    BY DEF FailsClosedExactly, Unformed
  <2>1. {} \in SUBSET DOMAIN heap
    OBVIOUS
  <2> QED
    BY <2>1, CanonicalAssumption, RefusedExactly DEF StableDigest
<1> QED
  BY <1>1, HeapInvariant, PTL
---------------------------------------------------------------------------
Ascending(rows, n) == \A i, j \in 1 .. n : i < j => Before(rows[i][1], rows[j][1])

\* Each of the first n rows of r is one of those of s.
Among(r, s, n) == \A i \in 1 .. n : \E j \in 1 .. n : r[i] = s[j]

\* Among is transitive.
LEMMA AmongTransitive ==
    ASSUME NEW n, NEW r, NEW s, NEW t, Among(r, s, n), Among(s, t, n)
    PROVE  Among(r, t, n)
<1>1. \A i \in 1 .. n : \E j \in 1 .. n : r[i] = s[j]
  BY DEF Among
<1>2. \A i \in 1 .. n : \E j \in 1 .. n : s[i] = t[j]
  BY DEF Among
<1>3. ASSUME NEW i \in 1 .. n
      PROVE  \E j \in 1 .. n : r[i] = t[j]
  <2>1. PICK k \in 1 .. n : r[i] = s[k]
    BY <1>1
  <2> QED
    BY <1>2, <2>1
<1> QED
  BY <1>3 DEF Among

\* Rows with different keys can be sorted: each goes where as many precede it as
\* have smaller keys.
LEMMA SortExists ==
    ASSUME NEW S, OrderOn(S), NEW n \in Nat, NEW rows,
           \A i \in 1 .. n : rows[i][1] \in S,
           \A i, j \in 1 .. n : rows[i][1] = rows[j][1] => i = j
    PROVE  \E p \in Bijection(1 .. n, 1 .. n) :
               \A i, j \in 1 .. n : i < j => ~Before(rows[p[j]][1], rows[p[i]][1])
<1> DEFINE D == 1 .. n
           smaller(i) == {j \in D : Before(rows[j][1], rows[i][1])}
           place == [i \in D |-> Cardinality(smaller(i)) + 1]
<1>1. IsFiniteSet(D) /\ Cardinality(D) = n
  BY FS_Interval
<1>2. ASSUME NEW i \in D
      PROVE  /\ IsFiniteSet(smaller(i))
             /\ Cardinality(smaller(i)) \in Nat
             /\ Cardinality(smaller(i)) + 1 \in D
  <2>1. i \notin smaller(i) /\ smaller(i) \in SUBSET D
    BY DEF OrderOn
  <2> HIDE DEF smaller
  <2>2. IsFiniteSet(smaller(i)) /\ Cardinality(smaller(i)) <= n
    BY <1>1, <2>1, FS_Subset
  <2>3. Cardinality(smaller(i)) # n
    BY <1>1, <2>1, FS_Subset
  <2>4. Cardinality(smaller(i)) \in Nat
    BY <2>2, FS_CardinalityType
  <2> QED
    BY <2>2, <2>3, <2>4
<1>3. ASSUME NEW i \in D, NEW k \in D, Before(rows[i][1], rows[k][1])
      PROVE  place[i] < place[k]
  <2>1. smaller(i) \in SUBSET smaller(k) /\ i \in smaller(k) /\ i \notin smaller(i)
    BY <1>3 DEF OrderOn
  <2> HIDE DEF smaller
  <2>2. Cardinality(smaller(i)) <= Cardinality(smaller(k)) /\ Cardinality(smaller(i)) # Cardinality(smaller(k))
    BY <1>2, <2>1, FS_Subset
  <2> QED
    BY <1>2, <2>2
<1>4. place \in [D -> D]
  BY <1>2
<1> HIDE DEF place
<1>5. ASSUME NEW i \in D, NEW k \in D, place[i] = place[k]
      PROVE  i = k
  <2> SUFFICES ASSUME i # k PROVE FALSE
    OBVIOUS
  <2>1. rows[i][1] # rows[k][1]
    OBVIOUS
  <2>2. Before(rows[i][1], rows[k][1]) \/ Before(rows[k][1], rows[i][1])
    BY <2>1 DEF OrderOn
  <2>3. place[i] \in D /\ place[k] \in D
    BY <1>4
  <2> QED
    BY <1>3, <1>5, <2>2, <2>3
<1>6. place \in Injection(D, D)
  BY <1>4, <1>5 DEF Injection, IsInjective
<1>7. place \in Bijection(D, D)
  <2>1. place \in Surjection(D, D)
    <3> HIDE DEF D
    <3> QED
      BY <1>1, <1>6, FS_Injection
  <2> QED
    BY <1>6, <2>1 DEF Bijection
<1> DEFINE p == Inverse(place, D, D)
<1>8. p \in Bijection(D, D) /\ \A i \in D : p[i] \in D /\ place[p[i]] = i
  <2> HIDE DEF D
  <2>1. p \in Bijection(D, D) /\ \A i \in D : p[place[i]] = i
    BY <1>7, Fun_BijInverse
  <2>2. \A i \in D : \E k \in D : place[k] = i
    BY <1>7, Fun_BijectionProperties
  <2>3. \A i \in D : p[i] \in D
    BY <2>1, Fun_BijectionProperties
  <2> HIDE DEF p
  <2> QED
    BY <2>1, <2>2, <2>3
<1> HIDE DEF p
<1>9. \A i, j \in D : i < j => ~Before(rows[p[j]][1], rows[p[i]][1])
  <2> SUFFICES ASSUME NEW i \in D, NEW j \in D, i < j, Before(rows[p[j]][1], rows[p[i]][1])
               PROVE  FALSE
    OBVIOUS
  <2>1. place[p[j]] < place[p[i]]
    BY <1>3, <1>8
  <2> QED
    BY <1>8, <2>1
<1> QED
  BY <1>8, <1>9

\* Rows of n different keys.
Keyed(S, rows, n) ==
    /\ n \in Nat
    /\ DOMAIN rows = 1 .. n
    /\ \A i \in 1 .. n : rows[i][1] \in S
    /\ \A i, j \in 1 .. n : rows[i][1] = rows[j][1] => i = j

\* The rows of a set or dict, when their keys differ, are arranged in the order
\* of their keys.
LEMMA ArrangedAscends ==
    ASSUME NEW S, OrderOn(S), NEW kind, kind \notin Sequential, NEW rows, NEW n, Keyed(S, rows, n)
    PROVE  /\ Arranged(kind, rows) = [i \in 1 .. n |-> Arranged(kind, rows)[i]]
           /\ Ascending(Arranged(kind, rows), n)
           /\ Among(Arranged(kind, rows), rows, n)
           /\ Among(rows, Arranged(kind, rows), n)
<1> DEFINE sorts(p) == \A i, j \in 1 .. n : i < j => ~Before(rows[p[j]][1], rows[p[i]][1])
           order == CHOOSE p \in Bijection(1 .. n, 1 .. n) : sorts(p)
<1>0. /\ n \in Nat
      /\ DOMAIN rows = 1 .. n
      /\ \A i \in 1 .. n : rows[i][1] \in S
      /\ \A i, j \in 1 .. n : rows[i][1] = rows[j][1] => i = j
  BY DEF Keyed
<1>1. order \in Bijection(1 .. n, 1 .. n) /\ sorts(order)
  <2>1. \E p \in Bijection(1 .. n, 1 .. n) : sorts(p)
    BY <1>0, SortExists
  <2> HIDE DEF sorts
  <2> QED
    BY <2>1
<1>2. Arranged(kind, rows) = [i \in 1 .. n |-> rows[order[i]]]
  BY <1>0 DEF Arranged
<1> HIDE DEF order
<1>3. /\ \A i \in 1 .. n : order[i] \in 1 .. n
      /\ \A i, j \in 1 .. n : order[i] = order[j] => i = j
      /\ \A j \in 1 .. n : \E i \in 1 .. n : order[i] = j
  <2> DEFINE D == 1 .. n
  <2>1. order \in Bijection(D, D)
    BY <1>1
  <2> HIDE DEF D
  <2>2. /\ order \in [D -> D]
        /\ \A i, j \in D : order[i] = order[j] => i = j
        /\ \A j \in D : \E i \in D : order[i] = j
    BY <2>1, Fun_BijectionProperties
  <2> QED
    BY <2>2 DEF D
<1> DEFINE a == Arranged(kind, rows)
<1>4. a = [i \in 1 .. n |-> a[i]] /\ \A i \in 1 .. n : a[i] = rows[order[i]]
  BY <1>2
<1> HIDE DEF a
<1>5. ASSUME NEW i \in 1 .. n, NEW j \in 1 .. n, i < j
      PROVE  Before(a[i][1], a[j][1])
  <2>1. order[i] # order[j]
    BY <1>3, <1>5
  <2>2. /\ rows[order[i]][1] # rows[order[j]][1]
        /\ rows[order[i]][1] \in S
        /\ rows[order[j]][1] \in S
    BY <1>0, <1>3, <2>1
  <2>3. ~Before(rows[order[j]][1], rows[order[i]][1])
    BY <1>1, <1>5
  <2> QED
    BY <1>4, <2>2, <2>3 DEF OrderOn
<1>6. Ascending(a, n)
  BY <1>5 DEF Ascending
<1>7. /\ \A i \in 1 .. n : \E j \in 1 .. n : a[i] = rows[j]
      /\ \A j \in 1 .. n : \E i \in 1 .. n : rows[j] = a[i]
  BY <1>3, <1>4
<1>8. Among(a, rows, n) /\ Among(rows, a, n)
  BY <1>7 DEF Among
<1> QED
  BY <1>4, <1>6, <1>8 DEF a

\* There is one way to put rows in ascending order.
LEMMA AscendingUnique ==
    ASSUME NEW S, OrderOn(S), NEW n \in Nat, NEW a, NEW b,
           \A i \in 1 .. n : a[i][1] \in S /\ b[i][1] \in S,
           Ascending(a, n), Ascending(b, n), Among(a, b, n), Among(b, a, n)
    PROVE  \A i \in 1 .. n : a[i] = b[i]
<1> DEFINE wrong == {i \in 1 .. n : a[i] # b[i]}
<1> SUFFICES ASSUME wrong # {} PROVE FALSE
  OBVIOUS
<1>1. PICK i \in wrong : \A k \in wrong : i <= k
  <2>1. wrong \subseteq Nat
    OBVIOUS
  <2> HIDE DEF wrong
  <2> QED
    BY <2>1, LeastNumber
<1>2. \A k \in 1 .. n : k < i => a[k] = b[k]
  BY <1>1
<1>3. PICK j \in 1 .. n : a[i] = b[j]
  BY <1>1 DEF Among
<1>4. PICK l \in 1 .. n : b[i] = a[l]
  BY <1>1 DEF Among
<1>5. j # i /\ l # i /\ i \in 1 .. n
  BY <1>1, <1>3, <1>4
<1> HIDE DEF wrong
<1>6. ~(j < i)
  <2> SUFFICES ASSUME j < i PROVE FALSE
    OBVIOUS
  <2>1. a[i] = a[j]
    BY <1>2, <1>3
  <2>2. Before(a[j][1], a[i][1])
    BY <1>5 DEF Ascending
  <2> QED
    BY <1>5, <2>1, <2>2 DEF OrderOn
<1>7. ~(l < i)
  <2> SUFFICES ASSUME l < i PROVE FALSE
    OBVIOUS
  <2>1. b[i] = b[l]
    BY <1>2, <1>4
  <2>2. Before(b[l][1], b[i][1])
    BY <1>5 DEF Ascending
  <2> QED
    BY <1>5, <2>1, <2>2 DEF OrderOn
<1>8. Before(b[i][1], a[i][1]) /\ Before(a[i][1], b[i][1])
  <2>1. i < j /\ i < l
    BY <1>5, <1>6, <1>7
  <2>2. Before(b[i][1], b[j][1]) /\ Before(a[i][1], a[l][1])
    BY <1>5, <2>1 DEF Ascending
  <2> QED
    BY <1>3, <1>4, <2>2
<1> QED
  BY <1>5, <1>8 DEF OrderOn

\* A thing that has a form.
Formed(v) ==
    /\ v \in Things
    /\ v \in Atoms => v \notin Refusable
    /\ v \in DOMAIN heap => ~Unformed(v)

Depth(v) == IF v \in Atoms THEN 0 ELSE Cardinality(Below(v)) + 1

Form == Canon[{}]

\* Depths are natural numbers.
LEMMA DepthType ==
    ASSUME HeapOK, NEW v \in Things
    PROVE  Depth(v) \in Nat
<1>1. Below(v) \in SUBSET DOMAIN heap
  BY DEF Below
<1>2. Cardinality(Below(v)) \in Nat
  BY <1>1, FS_Subset, FS_CardinalityType DEF HeapOK
<1> QED
  BY <1>2 DEF Depth

\* The parts of what has a form have one, and are less deep.
LEMMA FormedParts ==
    ASSUME HeapOK, NEW v \in DOMAIN heap, Formed(v), NEW x \in Parts(v)
    PROVE  Formed(x) /\ Depth(x) < Depth(v)
<1>1. v \notin Atoms /\ x \in Things /\ ~Unformed(v)
  BY PartsInRows DEF Formed
<1>2. CASE x \in Atoms
  <2>1. Formed(x)
    BY <1>1, <1>2, FormedPart DEF Formed, HeapOK
  <2>2. Depth(x) = 0 /\ Depth(v) = Cardinality(Below(v)) + 1
    BY <1>1, <1>2 DEF Depth
  <2>3. Cardinality(Below(v)) \in Nat
    <3>1. Below(v) \in SUBSET DOMAIN heap
      BY DEF Below
    <3> QED
      BY <3>1, FS_Subset, FS_CardinalityType DEF HeapOK
  <2> QED
    BY <2>1, <2>2, <2>3
<1>3. CASE x \notin Atoms
  <2>1. x \in Inner(v) /\ x \in DOMAIN heap
    BY <1>1, <1>3 DEF Inner, Things
  <2>2. ~Unformed(x)
    BY <1>1, <2>1, FormedPart
  <2>3. Below(x) \in SUBSET Below(v) /\ x \in Below(v) /\ x \notin Below(x)
    BY <2>1, <2>2, BelowGrows, FormedPart
  <2>4. IsFiniteSet(Below(v))
    <3>1. Below(v) \in SUBSET DOMAIN heap
      BY DEF Below
    <3> QED
      BY <3>1, FS_Subset DEF HeapOK
  <2>5. /\ Cardinality(Below(x)) <= Cardinality(Below(v))
        /\ Cardinality(Below(x)) # Cardinality(Below(v))
        /\ IsFiniteSet(Below(x))
    BY <2>3, <2>4, FS_Subset
  <2>6. Cardinality(Below(x)) \in Nat /\ Cardinality(Below(v)) \in Nat
    BY <2>4, <2>5, FS_CardinalityType
  <2>7. Depth(x) < Depth(v)
    BY <1>1, <1>3, <2>5, <2>6 DEF Depth
  <2> QED
    BY <1>1, <1>3, <2>2, <2>7 DEF Formed
<1> QED
  BY <1>2, <1>3

\* The forms of rows are determined by those of the parts.
LEMMA SameRowForms ==
    ASSUME HeapOK, NEW v \in DOMAIN heap, NEW f, NEW g, \A x \in Parts(v) : f[x] = g[x]
    PROVE  RowForms(f, v) = RowForms(g, v)
<1>1. \A i \in DOMAIN RowsOf(v) : \A j \in DOMAIN RowsOf(v)[i] : f[RowsOf(v)[i][j]] = g[RowsOf(v)[i][j]]
  BY PartsInRows
<1>2. \A i \in DOMAIN RowsOf(v) : [j \in DOMAIN RowsOf(v)[i] |-> f[RowsOf(v)[i][j]]]
                                    = [j \in DOMAIN RowsOf(v)[i] |-> g[RowsOf(v)[i][j]]]
  BY <1>1
<1> QED
  BY <1>2 DEF RowForms

\* The form of what has one does not depend on what else is being written.
LEMMA StackIrrelevant ==
    ASSUME HeapOK, CanonicalAssumption
    PROVE  \A v \in Things, stack \in SUBSET DOMAIN heap :
               Formed(v) /\ ({v} \cup Below(v)) \cap stack = {} => Canon[stack][v] = Form[v]
<1> DEFINE good == {n \in Nat : \A v \in Things, stack \in SUBSET DOMAIN heap :
                      Depth(v) <= n /\ Formed(v) /\ ({v} \cup Below(v)) \cap stack = {}
                          => Canon[stack][v] = Form[v]}
<1>1. IsFiniteSet(DOMAIN heap) /\ {} \in SUBSET DOMAIN heap
  BY DEF HeapOK
<1>2. ASSUME NEW v \in Atoms, NEW stack \in SUBSET DOMAIN heap
      PROVE  Canon[stack][v] = AtomForm(v)
  BY <1>1, CanonSteps DEF Written, Things
<1>3. ASSUME NEW v \in DOMAIN heap, NEW stack \in SUBSET DOMAIN heap, v \notin stack
      PROVE  Canon[stack][v] = ContainerForm(heap[v].kind, RowForms(Canon[stack \cup {v}], v))
  <2>1. v \in Things /\ v \notin Atoms
    BY DEF HeapOK, Things
  <2> QED
    BY <1>1, <1>3, <2>1, CanonSteps DEF Written
<1>4. 0 \in good
  <2>1. ASSUME NEW v \in Things, Depth(v) <= 0
        PROVE  v \in Atoms
    <3> SUFFICES ASSUME v \notin Atoms PROVE FALSE
      OBVIOUS
    <3>1. Cardinality(Below(v)) \in Nat
      <4>1. Below(v) \in SUBSET DOMAIN heap
        BY DEF Below
      <4> QED
        BY <4>1, FS_Subset, FS_CardinalityType DEF HeapOK
    <3> QED
      BY <2>1, <3>1 DEF Depth
  <2> QED
    BY <1>1, <1>2, <2>1 DEF Form
<1>5. ASSUME NEW n \in Nat, n \in good
      PROVE  n + 1 \in good
  <2>1. ASSUME NEW v \in DOMAIN heap, NEW stack \in SUBSET DOMAIN heap, Depth(v) <= n + 1,
               Formed(v), ({v} \cup Below(v)) \cap stack = {}
        PROVE  Canon[stack][v] = Form[v]
    <3>1. ASSUME NEW s \in SUBSET DOMAIN heap, ({v} \cup Below(v)) \cap s = {}
          PROVE  \A x \in Parts(v) : Canon[s \cup {v}][x] = Form[x]
      <4>1. ASSUME NEW x \in Parts(v)
            PROVE  Canon[s \cup {v}][x] = Form[x]
        <5>1. Formed(x) /\ Depth(x) <= n /\ x \in Things
          BY <2>1, FormedParts, DepthType DEF Formed, Things
        <5>2. s \cup {v} \in SUBSET DOMAIN heap
          OBVIOUS
        <5>3. CASE x \in Atoms
          BY <1>1, <1>2, <5>2, <5>3 DEF Form
        <5>4. CASE x \notin Atoms
          <6>1. x \in Inner(v) /\ v \notin Below(v)
            BY <2>1, <5>1, <5>4, FormedPart DEF Inner, Things, Formed
          <6>2. {x} \cup Below(x) \subseteq Below(v)
            BY <6>1, BelowGrows
          <6>3. ({x} \cup Below(x)) \cap (s \cup {v}) = {}
            BY <3>1, <6>1, <6>2
          <6> QED
            BY <1>5, <5>1, <5>2, <6>3
        <5> QED
          BY <5>3, <5>4
      <4> QED
        BY <4>1
    <3>2. RowForms(Canon[stack \cup {v}], v) = RowForms(Form, v)
      BY <2>1, <3>1, SameRowForms
    <3>3. RowForms(Canon[{} \cup {v}], v) = RowForms(Form, v)
      BY <1>1, <2>1, <3>1, SameRowForms
    <3>4. Form[v] = ContainerForm(heap[v].kind, RowForms(Canon[{} \cup {v}], v))
      BY <1>1, <1>3 DEF Form
    <3> QED
      BY <1>3, <2>1, <3>2, <3>3, <3>4
  <2>2. ASSUME NEW v \in Atoms, NEW stack \in SUBSET DOMAIN heap
        PROVE  Canon[stack][v] = Form[v]
    BY <1>1, <1>2 DEF Form
  <2> QED
    BY <2>1, <2>2 DEF Things
<1>6. Nat \subseteq good
  <2> HIDE DEF good
  <2> QED
    BY <1>4, <1>5, SetInduction
<1>7. \A v \in Things : Depth(v) \in Nat
  BY DepthType
<1>8. \A v \in Things : Depth(v) \in good
  BY <1>6, <1>7
<1> QED
  BY <1>7, <1>8

\* The form of a container, in terms of those of its parts.
LEMMA FormSteps ==
    ASSUME HeapOK, CanonicalAssumption, NEW v \in Things, Formed(v)
    PROVE  /\ v \in Atoms => Form[v] = <<TypeOf[v], v>>
           /\ v \in DOMAIN heap => Form[v] = <<heap[v].kind, Arranged(heap[v].kind, RowForms(Form, v))>>
<1>1. IsFiniteSet(DOMAIN heap) /\ {} \in SUBSET DOMAIN heap
  BY DEF HeapOK
<1>2. v \in Atoms => Form[v] = <<TypeOf[v], v>>
  BY <1>1, CanonSteps DEF Form, Written, AtomForm, Formed
<1>3. ASSUME v \in DOMAIN heap
      PROVE  Form[v] = <<heap[v].kind, Arranged(heap[v].kind, RowForms(Form, v))>>
  <2>1. v \notin Atoms /\ v \notin Below(v) /\ ~Unformed(v)
    BY <1>3, FormedPart DEF HeapOK, Formed
  <2>2. {} \cup {v} \in SUBSET DOMAIN heap
    BY <1>3
  <2>3. Form[v] = ContainerForm(heap[v].kind, RowForms(Canon[{} \cup {v}], v))
    BY <1>1, <2>1, CanonSteps DEF Written, Form
  <2>4. ASSUME NEW x \in Parts(v)
        PROVE  Canon[{} \cup {v}][x] = Form[x]
    <3>1. Formed(x) /\ x \in Things
      BY <1>3, FormedParts DEF Formed
    <3>2. ({x} \cup Below(x)) \cap ({} \cup {v}) = {}
      <4>1. CASE x \in Atoms
        <5>1. Inner(x) = {}
          BY <4>1 DEF Inner, Parts
        <5>2. Below(x) = {}
          BY <5>1, BelowUnfolds
        <5> QED
          BY <2>1, <4>1, <5>2
      <4>2. CASE x \notin Atoms
        <5>1. x \in Inner(v)
          BY <3>1, <4>2 DEF Inner, Things
        <5>2. {x} \cup Below(x) \subseteq Below(v)
          BY <5>1, BelowGrows
        <5> QED
          BY <2>1, <5>2
      <4> QED
        BY <4>1, <4>2
    <3> QED
      BY <2>2, <3>1, <3>2, StackIrrelevant
  <2>5. RowForms(Canon[{} \cup {v}], v) = RowForms(Form, v)
    BY <1>3, <2>4, SameRowForms
  <2>6. Form[v] # Refused
    BY <1>1, <1>3, <2>1, RefusedExactly DEF Form
  <2> QED
    BY <2>3, <2>5, <2>6 DEF ContainerForm
<1> QED
  BY <1>2, <1>3

\* A monotone function on sets leaves one unchanged.
LEMMA FixedPoint ==
    ASSUME NEW X, NEW F \in [SUBSET X -> SUBSET X],
           \A S, T \in SUBSET X : S \subseteq T => F[S] \subseteq F[T]
    PROVE  \E S \in SUBSET X : F[S] = S
<1> DEFINE U == UNION {S \in SUBSET X : S \subseteq F[S]}
<1>1. U \in SUBSET X
  OBVIOUS
<1>2. \A S \in SUBSET X : S \subseteq F[S] => S \subseteq U
  OBVIOUS
<1>3. U \subseteq F[U]
  <2>1. ASSUME NEW S \in SUBSET X, S \subseteq F[S]
        PROVE  S \subseteq F[U]
    <3> HIDE DEF U
    <3> QED
      BY <1>1, <1>2, <2>1
  <2> QED
    BY <2>1
<1> HIDE DEF U
<1>4. F[U] \in SUBSET X /\ F[U] \subseteq F[F[U]]
  BY <1>1, <1>3
<1> QED
  BY <1>1, <1>2, <1>3, <1>4

\* Rows that are alike part by part, when alike compares things.
RowsAlike(alike, r, s) == \A j \in DOMAIN r : alike[r[j]][s[j]]

ContentAlike(alike, v, w) ==
    /\ heap[v].kind = heap[w].kind
    /\ Len(RowsOf(v)) = Len(RowsOf(w))
    /\ IF heap[v].kind \in Sequential
       THEN \A i \in DOMAIN RowsOf(v) : RowsAlike(alike, RowsOf(v)[i], RowsOf(w)[i])
       ELSE \A i \in DOMAIN RowsOf(v) : \E j \in DOMAIN RowsOf(w) :
                RowsAlike(alike, RowsOf(v)[i], RowsOf(w)[j])

\* Rows hold things, as many as the kind says.
LEMMA RowTypes ==
    ASSUME HeapOK, NEW v \in DOMAIN heap
    PROVE  /\ Len(RowsOf(v)) \in Nat
           /\ DOMAIN RowsOf(v) = 1 .. Len(RowsOf(v))
           /\ \A i \in DOMAIN RowsOf(v) :
                  /\ DOMAIN RowsOf(v)[i] = 1 .. Width(heap[v].kind)
                  /\ \A j \in 1 .. Width(heap[v].kind) : RowsOf(v)[i][j] \in Things /\ RowsOf(v)[i][j] \in Parts(v)
<1>1. RowsOf(v) \in Seq(Row(heap[v].kind, Things))
  BY DEF HeapOK, RowsOf
<1>2. ASSUME NEW i \in DOMAIN RowsOf(v)
      PROVE  /\ DOMAIN RowsOf(v)[i] = 1 .. Width(heap[v].kind)
             /\ \A j \in 1 .. Width(heap[v].kind) : RowsOf(v)[i][j] \in Things /\ RowsOf(v)[i][j] \in Parts(v)
  <2>1. RowsOf(v)[i] \in Row(heap[v].kind, Things)
    BY <1>1
  <2>2. RowsOf(v)[i] \in Seq(Things) /\ Len(RowsOf(v)[i]) = Width(heap[v].kind)
    BY <2>1 DEF Row
  <2>3. DOMAIN RowsOf(v)[i] = 1 .. Width(heap[v].kind)
    BY <2>2
  <2>4. \A j \in DOMAIN RowsOf(v)[i] : RowsOf(v)[i][j] \in Things
    BY <2>2
  <2> QED
    BY <2>3, <2>4, PartsInRows
<1> QED
  BY <1>1, <1>2

\* Comparing more things as alike, more contents are alike.
LEMMA ContentAlikeGrows ==
    ASSUME HeapOK, NEW v \in DOMAIN heap, NEW w \in DOMAIN heap, NEW f, NEW g,
           \A x \in Parts(v), y \in Parts(w) : f[x][y] => g[x][y], ContentAlike(f, v, w)
    PROVE  ContentAlike(g, v, w)
<1>1. heap[v].kind = heap[w].kind /\ Len(RowsOf(v)) = Len(RowsOf(w))
  BY DEF ContentAlike
<1>2. ASSUME NEW i \in DOMAIN RowsOf(v), NEW j \in DOMAIN RowsOf(w),
             RowsAlike(f, RowsOf(v)[i], RowsOf(w)[j])
      PROVE  RowsAlike(g, RowsOf(v)[i], RowsOf(w)[j])
  BY <1>1, <1>2, RowTypes DEF RowsAlike
<1>3. DOMAIN RowsOf(v) = DOMAIN RowsOf(w)
  BY <1>1, RowTypes
<1> QED
  BY <1>1, <1>2, <1>3 DEF ContentAlike

\* The comparison of contents has a meaning even in a circle.
LEMMA SameSteps ==
    ASSUME HeapOK, NEW v \in Things, NEW w \in Things
    PROVE  SameValue[v][w] <=> IF v \in Atoms \/ w \in Atoms THEN v = w
                                                             ELSE ContentAlike(SameValue, v, w)
<1> DEFINE F(f) == [x \in Things |-> [y \in Things |->
                IF x \in Atoms \/ y \in Atoms THEN x = y
                ELSE LET Alike(r, s) == \A j \in DOMAIN r : f[r[j]][s[j]]
                         r == RowsOf(x)
                         s == RowsOf(y)
                     IN  /\ heap[x].kind = heap[y].kind
                         /\ Len(r) = Len(s)
                         /\ IF heap[x].kind \in Sequential
                            THEN \A i \in DOMAIN r : Alike(r[i], s[i])
                            ELSE \A i \in DOMAIN r : \E j \in DOMAIN s : Alike(r[i], s[j])]]
           body(f, x, y) == IF x \in Atoms \/ y \in Atoms THEN x = y ELSE ContentAlike(f, x, y)
           IsSame(f) == f = F(f)
           same == CHOOSE f : IsSame(f)
<1>1. \A f : F(f) = [x \in Things |-> [y \in Things |-> body(f, x, y)]]
  BY DEF ContentAlike, RowsAlike
<1> HIDE DEF F
<1> DEFINE X == Things \X Things
           rel(S) == [x \in Things |-> [y \in Things |-> <<x, y>> \in S]]
           G == [S \in SUBSET X |-> {p \in X : body(rel(S), p[1], p[2])}]
<1>2. PICK S \in SUBSET X : G[S] = S
  <2>1. G \in [SUBSET X -> SUBSET X]
    OBVIOUS
  <2>2. ASSUME NEW S \in SUBSET X, NEW T \in SUBSET X, S \subseteq T
        PROVE  G[S] \subseteq G[T]
    <3>1. ASSUME NEW x \in Things, NEW y \in Things, body(rel(S), x, y)
          PROVE  body(rel(T), x, y)
      <4>1. CASE x \in Atoms \/ y \in Atoms
        BY <3>1, <4>1
      <4>2. CASE ~(x \in Atoms \/ y \in Atoms)
        <5>1. x \in DOMAIN heap /\ y \in DOMAIN heap /\ ContentAlike(rel(S), x, y)
          BY <3>1, <4>2 DEF Things
        <5>2. \A a \in Parts(x), b \in Parts(y) : rel(S)[a][b] => rel(T)[a][b]
          BY <2>2, <5>1, PartsInRows
        <5> HIDE DEF rel
        <5>3. ContentAlike(rel(T), x, y)
          BY <5>1, <5>2, ContentAlikeGrows
        <5> QED
          BY <4>2, <5>3
      <4> QED
        BY <4>1, <4>2
    <3> HIDE DEF body, rel
    <3> QED
      BY <3>1
  <2> HIDE DEF G, X
  <2> QED
    BY <2>1, <2>2, FixedPoint
<1>3. IsSame(rel(S))
  <2>1. ASSUME NEW x \in Things, NEW y \in Things
        PROVE  <<x, y>> \in S <=> body(rel(S), x, y)
    <3> HIDE DEF body, rel
    <3> QED
      BY <1>2
  <2>2. rel(S) = [x \in Things |-> [y \in Things |-> body(rel(S), x, y)]]
    <3> DEFINE f == rel(S)
    <3>1. \A x \in Things : [y \in Things |-> <<x, y>> \in S] = [y \in Things |-> body(f, x, y)]
      <4>1. \A x, y \in Things : <<x, y>> \in S <=> body(f, x, y)
        BY <2>1
      <4> HIDE DEF f
      <4>2. ASSUME NEW x \in Things, NEW y \in Things
            PROVE  (<<x, y>> \in S) = body(f, x, y)
        <5> DEFINE b == body(f, x, y)
        <5>1. b \in BOOLEAN
          BY Zenon DEF ContentAlike
        <5>2. <<x, y>> \in S <=> b
          BY <4>1
        <5> HIDE DEF b
        <5>3. (<<x, y>> \in S) = b
          BY <5>1, <5>2
        <5> QED
          BY <5>3 DEF b
      <4> HIDE DEF body
      <4> QED
        BY <4>2
    <3> HIDE DEF body, f
    <3> QED
      BY <3>1 DEF f
  <2> HIDE DEF rel, body
  <2> QED
    BY <1>1, <2>2
<1>4. same = F(same)
  <2>1. IsSame(same)
    <3> HIDE DEF IsSame
    <3> QED
      BY <1>3
  <2> QED
    BY <2>1
<1>5. same = SameValue
  BY DEF SameValue, F
<1> HIDE DEF same
<1>6. SameValue = F(SameValue)
  <2> HIDE DEF IsSame
  <2> QED
    BY <1>4, <1>5
<1>7. ASSUME NEW f, NEW g, g = F(f)
      PROVE  g[v][w] <=> body(f, v, w)
  <2>1. g = [x \in Things |-> [y \in Things |-> body(f, x, y)]]
    BY <1>1, <1>7
  <2> HIDE DEF body
  <2>2. g[v] = [y \in Things |-> body(f, v, y)]
    BY <2>1
  <2> QED
    BY <2>2
<1> QED
  BY <1>6, <1>7

ContentEqual(equal, v, w) ==
    /\ heap[v].kind = heap[w].kind
    /\ Len(RowsOf(v)) = Len(RowsOf(w))
    /\ IF heap[v].kind = "tuple"
       THEN \A i \in DOMAIN RowsOf(v) : equal[RowsOf(v)[i][1]][RowsOf(w)[i][1]]
       ELSE \A i \in DOMAIN RowsOf(v) : \E j \in DOMAIN RowsOf(w) :
                equal[RowsOf(v)[i][1]][RowsOf(w)[j][1]]

\* Elements and keys are parts.
LEMMA KeysInParts ==
    ASSUME HeapOK, NEW v \in DOMAIN heap, NEW i \in DOMAIN RowsOf(v)
    PROVE  RowsOf(v)[i][1] \in Parts(v) /\ RowsOf(v)[i][1] \in Things
<1>1. 1 \in 1 .. Width(heap[v].kind)
  BY DEF Width
<1> QED
  BY <1>1, RowTypes

\* With more things called equal, more contents are.
LEMMA ContentEqualGrows ==
    ASSUME HeapOK, NEW v \in DOMAIN heap, NEW w \in DOMAIN heap, NEW f, NEW g,
           \A x \in Parts(v), y \in Parts(w) : f[x][y] => g[x][y], ContentEqual(f, v, w)
    PROVE  ContentEqual(g, v, w)
<1>1. heap[v].kind = heap[w].kind /\ Len(RowsOf(v)) = Len(RowsOf(w))
  BY DEF ContentEqual
<1>2. ASSUME NEW i \in DOMAIN RowsOf(v), NEW j \in DOMAIN RowsOf(w),
             f[RowsOf(v)[i][1]][RowsOf(w)[j][1]]
      PROVE  g[RowsOf(v)[i][1]][RowsOf(w)[j][1]]
  BY <1>2, KeysInParts
<1>3. DOMAIN RowsOf(v) = DOMAIN RowsOf(w)
  BY <1>1, RowTypes
<1> QED
  BY <1>1, <1>2, <1>3 DEF ContentEqual

\* So has Python's.
LEMMA EqualSteps ==
    ASSUME HeapOK, NEW v \in Things, NEW w \in Things
    PROVE  PyEqual[v][w] <=> IF v \in Atoms \/ w \in Atoms
                             THEN v \in Atoms /\ w \in Atoms /\ ClassOf[v] = ClassOf[w]
                             ELSE ContentEqual(PyEqual, v, w)
<1> DEFINE F(f) == [x \in Things |-> [y \in Things |->
                IF x \in Atoms \/ y \in Atoms
                THEN x \in Atoms /\ y \in Atoms /\ ClassOf[x] = ClassOf[y]
                ELSE LET r == RowsOf(x)
                         s == RowsOf(y)
                     IN  /\ heap[x].kind = heap[y].kind
                         /\ Len(r) = Len(s)
                         /\ IF heap[x].kind = "tuple"
                            THEN \A i \in DOMAIN r : f[r[i][1]][s[i][1]]
                            ELSE \A i \in DOMAIN r : \E j \in DOMAIN s : f[r[i][1]][s[j][1]]]]
           body(f, x, y) == IF x \in Atoms \/ y \in Atoms
                            THEN x \in Atoms /\ y \in Atoms /\ ClassOf[x] = ClassOf[y]
                            ELSE ContentEqual(f, x, y)
           IsSame(f) == f = F(f)
           same == CHOOSE f : IsSame(f)
<1>1. \A f : F(f) = [x \in Things |-> [y \in Things |-> body(f, x, y)]]
  BY DEF ContentEqual
<1> HIDE DEF F
<1> DEFINE X == Things \X Things
           rel(S) == [x \in Things |-> [y \in Things |-> <<x, y>> \in S]]
           G == [S \in SUBSET X |-> {p \in X : body(rel(S), p[1], p[2])}]
<1>2. PICK S \in SUBSET X : G[S] = S
  <2>1. G \in [SUBSET X -> SUBSET X]
    OBVIOUS
  <2>2. ASSUME NEW S \in SUBSET X, NEW T \in SUBSET X, S \subseteq T
        PROVE  G[S] \subseteq G[T]
    <3>1. ASSUME NEW x \in Things, NEW y \in Things, body(rel(S), x, y)
          PROVE  body(rel(T), x, y)
      <4>1. CASE x \in Atoms \/ y \in Atoms
        BY <3>1, <4>1
      <4>2. CASE ~(x \in Atoms \/ y \in Atoms)
        <5>1. x \in DOMAIN heap /\ y \in DOMAIN heap /\ ContentEqual(rel(S), x, y)
          BY <3>1, <4>2 DEF Things
        <5>2. \A a \in Parts(x), b \in Parts(y) : rel(S)[a][b] => rel(T)[a][b]
          BY <2>2, <5>1, PartsInRows
        <5> HIDE DEF rel
        <5>3. ContentEqual(rel(T), x, y)
          BY <5>1, <5>2, ContentEqualGrows
        <5> QED
          BY <4>2, <5>3
      <4> QED
        BY <4>1, <4>2
    <3> HIDE DEF body, rel
    <3> QED
      BY <3>1
  <2> HIDE DEF G, X
  <2> QED
    BY <2>1, <2>2, FixedPoint
<1>3. IsSame(rel(S))
  <2>1. ASSUME NEW x \in Things, NEW y \in Things
        PROVE  <<x, y>> \in S <=> body(rel(S), x, y)
    <3> HIDE DEF body, rel
    <3> QED
      BY <1>2
  <2>2. rel(S) = [x \in Things |-> [y \in Things |-> body(rel(S), x, y)]]
    <3> DEFINE f == rel(S)
    <3>1. \A x \in Things : [y \in Things |-> <<x, y>> \in S] = [y \in Things |-> body(f, x, y)]
      <4>1. \A x, y \in Things : <<x, y>> \in S <=> body(f, x, y)
        BY <2>1
      <4> HIDE DEF f
      <4>2. ASSUME NEW x \in Things, NEW y \in Things
            PROVE  (<<x, y>> \in S) = body(f, x, y)
        <5> DEFINE b == body(f, x, y)
        <5>1. b \in BOOLEAN
          BY Zenon DEF ContentEqual
        <5>2. <<x, y>> \in S <=> b
          BY <4>1
        <5> HIDE DEF b
        <5>3. (<<x, y>> \in S) = b
          BY <5>1, <5>2
        <5> QED
          BY <5>3 DEF b
      <4> HIDE DEF body
      <4> QED
        BY <4>2
    <3> HIDE DEF body, f
    <3> QED
      BY <3>1 DEF f
  <2> HIDE DEF rel, body
  <2> QED
    BY <1>1, <2>2
<1>4. same = F(same)
  <2>1. IsSame(same)
    <3> HIDE DEF IsSame
    <3> QED
      BY <1>3
  <2> QED
    BY <2>1
<1>5. same = PyEqual
  BY DEF PyEqual, F
<1> HIDE DEF same
<1>6. PyEqual = F(PyEqual)
  <2> HIDE DEF IsSame
  <2> QED
    BY <1>4, <1>5
<1>7. ASSUME NEW f, NEW g, g = F(f)
      PROVE  g[v][w] <=> body(f, v, w)
  <2>1. g = [x \in Things |-> [y \in Things |-> body(f, x, y)]]
    BY <1>1, <1>7
  <2> HIDE DEF body
  <2>2. g[v] = [y \in Things |-> body(f, v, y)]
    BY <2>1
  <2> QED
    BY <2>2
<1> QED
  BY <1>6, <1>7

\* And so has hashability.
LEMMA HashSteps ==
    ASSUME HeapOK, NEW v \in Things
    PROVE  Hashable[v] <=> \/ v \in Atoms
                           \/ /\ heap[v].kind \in {"tuple", "frozenset"}
                              /\ \A i \in DOMAIN RowsOf(v) : Hashable[RowsOf(v)[i][1]]
<1> DEFINE F(f) == [x \in Things |->
                IF x \in Atoms THEN TRUE
                ELSE /\ heap[x].kind \in {"tuple", "frozenset"}
                     /\ \A i \in DOMAIN RowsOf(x) : f[RowsOf(x)[i][1]]]
           body(f, x) == IF x \in Atoms THEN TRUE
                         ELSE /\ heap[x].kind \in {"tuple", "frozenset"}
                              /\ \A i \in DOMAIN RowsOf(x) : f[RowsOf(x)[i][1]]
           IsHash(f) == f = F(f)
           hash == CHOOSE f : IsHash(f)
           rel(S) == [x \in Things |-> x \in S]
           G == [S \in SUBSET Things |-> {x \in Things : body(rel(S), x)}]
<1>1. PICK S \in SUBSET Things : G[S] = S
  <2>1. G \in [SUBSET Things -> SUBSET Things]
    OBVIOUS
  <2>2. ASSUME NEW S \in SUBSET Things, NEW T \in SUBSET Things, S \subseteq T
        PROVE  G[S] \subseteq G[T]
    <3>1. ASSUME NEW x \in Things, body(rel(S), x)
          PROVE  body(rel(T), x)
      <4>1. CASE x \in Atoms
        BY <4>1
      <4>2. CASE x \notin Atoms
        <5>1. x \in DOMAIN heap
          BY <4>2 DEF Things
        <5>2. \A i \in DOMAIN RowsOf(x) : RowsOf(x)[i][1] \in Things
          BY <5>1, KeysInParts
        <5> QED
          BY <2>2, <3>1, <4>2, <5>2
      <4> QED
        BY <4>1, <4>2
    <3> HIDE DEF body, rel
    <3> QED
      BY <3>1
  <2> HIDE DEF G
  <2> QED
    BY <2>1, <2>2, FixedPoint
<1>2. IsHash(rel(S))
  <2>1. ASSUME NEW x \in Things
        PROVE  (x \in S) = body(rel(S), x)
    <3> DEFINE b == body(rel(S), x)
    <3>1. x \in S <=> b
      <4> HIDE DEF body, rel
      <4> QED
        BY <1>1
    <3>2. b \in BOOLEAN
      <4> HIDE DEF rel
      <4> QED
        BY Zenon
    <3> HIDE DEF b
    <3>3. (x \in S) = b
      BY <3>1, <3>2
    <3> QED
      BY <3>3 DEF b
  <2>2. rel(S) = [x \in Things |-> body(rel(S), x)]
    <3> DEFINE f == rel(S)
    <3>1. \A x \in Things : (x \in S) = body(f, x)
      BY <2>1
    <3> HIDE DEF body, f
    <3>2. [x \in Things |-> x \in S] = [x \in Things |-> body(f, x)]
      BY <3>1
    <3> QED
      BY <3>2 DEF f
  <2>3. F(rel(S)) = [x \in Things |-> body(rel(S), x)]
    OBVIOUS
  <2> HIDE DEF rel, body, F
  <2> QED
    BY <2>2, <2>3
<1>3. hash = F(hash)
  <2>1. IsHash(hash)
    <3> HIDE DEF IsHash
    <3> QED
      BY <1>2
  <2> QED
    BY <2>1
<1>4. hash = Hashable
  BY DEF Hashable
<1> HIDE DEF hash
<1>5. Hashable = F(Hashable)
  <2> HIDE DEF IsHash, F
  <2> QED
    BY <1>3, <1>4
<1>6. ASSUME NEW f, NEW g, g = F(f)
      PROVE  g[v] <=> body(f, v)
  BY <1>6
<1> QED
  BY <1>5, <1>6

\* Things the same in content are equal for Python.
LEMMA SameIsEqual ==
    ASSUME HeapOK
    PROVE  \A v, w \in Things : Formed(v) /\ SameValue[v][w] => PyEqual[v][w]
<1> DEFINE good == {n \in Nat : \A v, w \in Things :
                      Depth(v) < n /\ Formed(v) /\ SameValue[v][w] => PyEqual[v][w]}
<1>1. 0 \in good
  BY DepthType
<1>2. ASSUME NEW n \in Nat, n \in good
      PROVE  n + 1 \in good
  <2>1. ASSUME NEW v \in Things, NEW w \in Things, Depth(v) < n + 1, Formed(v), SameValue[v][w]
        PROVE  PyEqual[v][w]
    <3>1. CASE v \in Atoms \/ w \in Atoms
      <4>1. v = w
        BY <2>1, <3>1, SameSteps
      <4> QED
        BY <3>1, <4>1, EqualSteps
    <3>2. CASE ~(v \in Atoms \/ w \in Atoms)
      <4>1. v \in DOMAIN heap /\ w \in DOMAIN heap /\ ContentAlike(SameValue, v, w)
        BY <2>1, <3>2, SameSteps DEF Things
      <4>2. ASSUME NEW i \in DOMAIN RowsOf(v), NEW j \in DOMAIN RowsOf(w),
                   RowsAlike(SameValue, RowsOf(v)[i], RowsOf(w)[j])
            PROVE  PyEqual[RowsOf(v)[i][1]][RowsOf(w)[j][1]]
        <5> DEFINE x == RowsOf(v)[i][1]
                   y == RowsOf(w)[j][1]
        <5>1. x \in Parts(v) /\ x \in Things /\ y \in Things
          BY <4>1, KeysInParts
        <5>2. SameValue[x][y]
          <6>1. 1 \in DOMAIN RowsOf(v)[i]
            BY <4>1, RowTypes DEF Width
          <6> QED
            BY <4>2, <6>1 DEF RowsAlike
        <5>3. Formed(x) /\ Depth(x) < Depth(v)
          BY <2>1, <4>1, <5>1, FormedParts
        <5>4. Depth(x) \in Nat /\ Depth(v) \in Nat
          BY <5>1, DepthType
        <5> HIDE DEF x, y
        <5>5. Depth(x) < n
          BY <2>1, <5>3, <5>4
        <5>6. PyEqual[x][y]
          BY <1>2, <5>1, <5>2, <5>3, <5>5
        <5> QED
          BY <5>6 DEF x, y
      <4>3. DOMAIN RowsOf(v) = DOMAIN RowsOf(w)
        BY <4>1, RowTypes DEF ContentAlike
      <4>4. ContentEqual(PyEqual, v, w)
        <5>1. CASE heap[v].kind \in Sequential
          <6>1. \A i \in DOMAIN RowsOf(v) : PyEqual[RowsOf(v)[i][1]][RowsOf(w)[i][1]]
            BY <4>1, <4>2, <4>3, <5>1 DEF ContentAlike
          <6> QED
            BY <4>1, <4>3, <6>1 DEF ContentAlike, ContentEqual
        <5>2. CASE heap[v].kind \notin Sequential
          <6>1. \A i \in DOMAIN RowsOf(v) : \E j \in DOMAIN RowsOf(w) :
                    PyEqual[RowsOf(v)[i][1]][RowsOf(w)[j][1]]
            BY <4>1, <4>2, <5>2 DEF ContentAlike
          <6> QED
            BY <4>1, <5>2, <6>1 DEF ContentAlike, ContentEqual, Sequential
        <5> QED
          BY <5>1, <5>2
      <4> QED
        BY <3>2, <4>4, EqualSteps
    <3> QED
      BY <3>1, <3>2
  <2> QED
    BY <2>1
<1>3. Nat \subseteq good
  <2> HIDE DEF good
  <2> QED
    BY <1>1, <1>2, SetInduction
<1>4. ASSUME NEW v \in Things
      PROVE  Depth(v) + 1 \in good /\ Depth(v) < Depth(v) + 1
  BY <1>3, DepthType
<1> QED
  BY <1>4

\* Two rows have the same forms exactly if they are alike.
LEMMA RowFormsTell ==
    ASSUME HeapOK, NEW v \in DOMAIN heap, NEW w \in DOMAIN heap, heap[v].kind = heap[w].kind,
           \A x \in Parts(v), y \in Parts(w) : Form[x] = Form[y] <=> SameValue[x][y],
           NEW i \in DOMAIN RowsOf(v), NEW j \in DOMAIN RowsOf(w)
    PROVE  RowForms(Form, v)[i] = RowForms(Form, w)[j]
               <=> RowsAlike(SameValue, RowsOf(v)[i], RowsOf(w)[j])
<1> DEFINE n == Width(heap[v].kind)
           r == RowsOf(v)[i]
           s == RowsOf(w)[j]
<1>1. /\ RowForms(Form, v)[i] = [k \in 1 .. n |-> Form[r[k]]]
      /\ RowForms(Form, w)[j] = [k \in 1 .. n |-> Form[s[k]]]
      /\ DOMAIN r = 1 .. n
      /\ \A k \in 1 .. n : r[k] \in Parts(v) /\ s[k] \in Parts(w)
  BY RowTypes DEF RowForms
<1> HIDE DEF n, r, s
<1>2. RowForms(Form, v)[i] = RowForms(Form, w)[j] <=> \A k \in 1 .. n : Form[r[k]] = Form[s[k]]
  BY <1>1
<1>3. RowsAlike(SameValue, r, s) <=> \A k \in 1 .. n : SameValue[r[k]][s[k]]
  BY <1>1 DEF RowsAlike
<1> QED
  BY <1>1, <1>2, <1>3 DEF r, s

\* No two elements of a set and no two keys of a dict are equal for Python.
KeysDiffer ==
    \A o \in DOMAIN heap : heap[o].kind \notin Sequential =>
        \A i, j \in DOMAIN RowsOf(o) : i # j =>
            ~(/\ PyEqual[RowsOf(o)[i][1]][RowsOf(o)[j][1]]
              /\ PyEqual[RowsOf(o)[j][1]][RowsOf(o)[i][1]])

\* The JSON texts that occur can be ordered.
TextsOrdered == OrderOn({StableDigest(v) : v \in Things} \ {Refused})

\* What has a form is not refused, and is digested in it.
LEMMA FormIsDigest ==
    ASSUME HeapOK, CanonicalAssumption, NEW v \in Things, Formed(v)
    PROVE  Form[v] = StableDigest(v) /\ Form[v] # Refused
<1>1. Form[v] # Refused
  <2>1. v \in Atoms => Form[v] # Refused
    BY FormSteps DEF Refused
  <2>2. v \in DOMAIN heap => Form[v] # Refused
    BY FormSteps DEF Refused
  <2> QED
    BY <2>1, <2>2 DEF Things
<1> QED
  BY <1>1 DEF Form, StableDigest

\* No two rows of a set or dict have the same key in the form of it.
LEMMA KeyFormsDiffer ==
    ASSUME HeapOK, KeysDiffer, NEW v \in DOMAIN heap, Formed(v), heap[v].kind \notin Sequential,
           \A x, y \in Parts(v) : Form[x] = Form[y] => SameValue[x][y]
    PROVE  /\ \A i \in DOMAIN RowsOf(v) : RowForms(Form, v)[i][1] \in {Form[u] : u \in {x \in Things : Formed(x)}}
           /\ \A i, j \in DOMAIN RowsOf(v) : RowForms(Form, v)[i][1] = RowForms(Form, v)[j][1] => i = j
<1> DEFINE key(i) == RowsOf(v)[i][1]
<1>1. ASSUME NEW i \in DOMAIN RowsOf(v)
      PROVE  /\ RowForms(Form, v)[i][1] = Form[key(i)]
             /\ key(i) \in Parts(v) /\ key(i) \in Things /\ Formed(key(i))
  <2>1. key(i) \in Parts(v) /\ key(i) \in Things
    BY KeysInParts
  <2>2. Formed(key(i))
    BY <2>1, FormedParts
  <2>3. 1 \in DOMAIN RowsOf(v)[i]
    BY RowTypes DEF Width
  <2>4. RowForms(Form, v)[i] = [j \in DOMAIN RowsOf(v)[i] |-> Form[RowsOf(v)[i][j]]]
    BY DEF RowForms
  <2> QED
    BY <2>1, <2>2, <2>3, <2>4
<1>2. ASSUME NEW i \in DOMAIN RowsOf(v), NEW j \in DOMAIN RowsOf(v), i # j,
             RowForms(Form, v)[i][1] = RowForms(Form, v)[j][1]
      PROVE  FALSE
  <2>1. SameValue[key(i)][key(j)] /\ SameValue[key(j)][key(i)]
    BY <1>1, <1>2
  <2>2. PyEqual[key(i)][key(j)] /\ PyEqual[key(j)][key(i)]
    BY <1>1, <2>1, SameIsEqual
  <2> QED
    BY <1>2, <2>2 DEF KeysDiffer
<1> HIDE DEF key
<1> QED
  BY <1>1, <1>2

\* Rows that differ from each other and all occur among as many others are all
\* of these.
LEMMA AllReached ==
    ASSUME NEW n \in Nat, NEW r, NEW s, Among(r, s, n),
           \A i, k \in 1 .. n : r[i] = r[k] => i = k
    PROVE  Among(s, r, n)
<1> DEFINE D == 1 .. n
           f == [i \in D |-> CHOOSE j \in D : r[i] = s[j]]
<1>1. IsFiniteSet(D) /\ \A i, k \in D : r[i] = r[k] => i = k
  BY FS_Interval
<1>2. f \in [D -> D] /\ \A i \in D : r[i] = s[f[i]]
  BY DEF Among
<1> HIDE DEF f, D
<1>3. \A i, k \in D : f[i] = f[k] => i = k
  BY <1>1, <1>2
<1>4. f \in Injection(D, D)
  BY <1>2, <1>3 DEF Injection, IsInjective
<1>5. f \in Surjection(D, D)
  BY <1>1, <1>4, FS_Injection
<1>6. \A j \in D : \E i \in D : f[i] = j
  BY <1>5 DEF Surjection
<1>7. \A j \in D : \E i \in D : s[j] = r[i]
  BY <1>2, <1>6
<1> QED
  BY <1>7 DEF D, Among

\* What is arranged from the rows of one set or dict is what is arranged from
\* those of another exactly if they have as many, each of which the other has.
LEMMA ArrangedTell ==
    ASSUME NEW S, OrderOn(S), NEW kind, kind \notin Sequential,
           NEW r, NEW n, Keyed(S, r, n), NEW s, NEW m, Keyed(S, s, m)
    PROVE  Arranged(kind, r) = Arranged(kind, s) <=> n = m /\ Among(r, s, n)
<1> DEFINE a == Arranged(kind, r)
           b == Arranged(kind, s)
<1>0. n \in Nat /\ m \in Nat
  BY DEF Keyed
<1>1. a = [i \in 1 .. n |-> a[i]] /\ Ascending(a, n) /\ Among(a, r, n) /\ Among(r, a, n)
  BY ArrangedAscends
<1>2. b = [i \in 1 .. m |-> b[i]] /\ Ascending(b, m) /\ Among(b, s, m) /\ Among(s, b, m)
  BY ArrangedAscends
<1> HIDE DEF a, b
<1>3. Among(a, r, n) /\ Among(r, a, n) /\ Among(b, s, m) /\ Among(s, b, m)
  BY <1>1, <1>2
<1>4. DOMAIN a = 1 .. n /\ DOMAIN b = 1 .. m
  BY <1>1, <1>2
<1>5. ASSUME a = b
      PROVE  n = m /\ Among(r, s, n)
  <2>1. n = m
    <3>1. 1 .. n = 1 .. m
      BY <1>4, <1>5
    <3>2. n \in 1 .. n <=> n \in 1 .. m
      BY <3>1
    <3>3. m \in 1 .. n <=> m \in 1 .. m
      BY <3>1
    <3> QED
      BY <1>0, <3>2, <3>3
  <2>2. Among(r, a, n) /\ Among(a, s, n)
    BY <1>3, <1>5, <2>1
  <2> QED
    BY <2>1, <2>2, AmongTransitive
<1>6. ASSUME n = m, Among(r, s, n)
      PROVE  a = b
  <2>1. \A i, j \in 1 .. n : r[i] = r[j] => i = j
    BY DEF Keyed
  <2>2. Among(s, r, n)
    BY <1>0, <1>6, <2>1, AllReached
  <2>3. Among(a, b, n)
    <3>1. Among(a, s, n) /\ Among(s, b, n)
      BY <1>3, <1>6, AmongTransitive
    <3> QED
      BY <3>1, AmongTransitive
  <2>4. Among(b, a, n)
    <3>1. Among(s, a, n) /\ Among(b, s, n)
      BY <1>3, <1>6, <2>2, AmongTransitive
    <3> QED
      BY <3>1, AmongTransitive
  <2>5. \A i \in 1 .. n : a[i][1] \in S /\ b[i][1] \in S
    <3>1. \A i \in 1 .. n : r[i][1] \in S /\ s[i][1] \in S
      BY <1>6 DEF Keyed
    <3>2. ASSUME NEW i \in 1 .. n
          PROVE  a[i][1] \in S /\ b[i][1] \in S
      <4>1. PICK j \in 1 .. n : a[i] = r[j]
        BY <1>3 DEF Among
      <4>2. Among(b, s, n)
        BY <1>3, <1>6
      <4>3. PICK k \in 1 .. n : b[i] = s[k]
        BY <4>2 DEF Among
      <4>4. r[j][1] \in S /\ s[k][1] \in S
        BY <3>1
      <4> QED
        BY <4>1, <4>3, <4>4
    <3> QED
      BY <3>2
  <2>6. Ascending(a, n) /\ Ascending(b, n)
    BY <1>1, <1>2, <1>6
  <2>7. \A i \in 1 .. n : a[i] = b[i]
    BY <1>0, <2>3, <2>4, <2>5, <2>6, AscendingUnique
  <2> QED
    BY <1>1, <1>2, <1>6, <2>7
<1> QED
  BY <1>5, <1>6 DEF a, b

\* The form of a container tells its content, if those of its parts do.
LEMMA ContainerTells ==
    ASSUME HeapOK, CanonicalAssumption, KeysDiffer, TextsOrdered,
           NEW v \in DOMAIN heap, NEW w \in DOMAIN heap, Formed(v), Formed(w),
           \A x, y \in Parts(v) \cup Parts(w) : Form[x] = Form[y] <=> SameValue[x][y]
    PROVE  Form[v] = Form[w] <=> ContentAlike(SameValue, v, w)
<1> DEFINE r == RowForms(Form, v)
           s == RowForms(Form, w)
           k == heap[v].kind
           A(rows) == Arranged(k, rows)
           n == Len(RowsOf(v))
           m == Len(RowsOf(w))
           S == {Form[u] : u \in {x \in Things : Formed(x)}}
<1>1. v \in Things /\ w \in Things
  BY DEF Things
<1>2. Form[v] = Form[w] <=> k = heap[w].kind /\ A(r) = A(s)
  <2>1. Form[v] = <<k, A(r)>> /\ Form[w] = <<heap[w].kind, Arranged(heap[w].kind, s)>>
    BY <1>1, FormSteps
  <2> HIDE DEF r, s
  <2> QED
    BY <2>1
<1>3. k # heap[w].kind => ~ContentAlike(SameValue, v, w)
  BY DEF ContentAlike
<1>4. /\ n \in Nat /\ DOMAIN r = 1 .. n /\ DOMAIN RowsOf(v) = 1 .. n /\ r = [i \in 1 .. n |-> r[i]]
      /\ m \in Nat /\ DOMAIN s = 1 .. m /\ DOMAIN RowsOf(w) = 1 .. m /\ s = [i \in 1 .. m |-> s[i]]
  BY RowTypes DEF RowForms
<1>5. ASSUME k = heap[w].kind
      PROVE  A(r) = A(s) <=> ContentAlike(SameValue, v, w)
  <2>1. \A i \in 1 .. n, j \in 1 .. m : r[i] = s[j] <=> RowsAlike(SameValue, RowsOf(v)[i], RowsOf(w)[j])
    <3>1. \A x \in Parts(v), y \in Parts(w) : Form[x] = Form[y] <=> SameValue[x][y]
      OBVIOUS
    <3> QED
      BY <1>4, <1>5, <3>1, RowFormsTell
  <2>2. CASE k \in Sequential
    <3>1. ContentAlike(SameValue, v, w) <=>
              n = m /\ \A i \in 1 .. n : RowsAlike(SameValue, RowsOf(v)[i], RowsOf(w)[i])
      BY <1>4, <1>5, <2>2 DEF ContentAlike
    <3>2. A(r) = r /\ A(s) = s
      BY <2>2 DEF Arranged
    <3> HIDE DEF r, s, n, m, k, A
    <3>3. r = s <=> n = m /\ \A i \in 1 .. n : r[i] = s[i]
      <4>1. r = s => 1 .. n = 1 .. m
        BY <1>4
      <4>2. 1 .. n = 1 .. m => n = m
        BY <1>4
      <4> QED
        BY <1>4, <4>1, <4>2
    <3> QED
      BY <2>1, <3>1, <3>2, <3>3
  <2>3. CASE k \notin Sequential
    <3>1. ContentAlike(SameValue, v, w) <=>
              n = m /\ \A i \in 1 .. n : \E j \in 1 .. m : RowsAlike(SameValue, RowsOf(v)[i], RowsOf(w)[j])
      BY <1>4, <1>5, <2>3 DEF ContentAlike
    <3>2. Keyed(S, r, n)
      BY <1>4, <2>3, KeyFormsDiffer DEF Keyed
    <3>3. Keyed(S, s, m)
      BY <1>4, <1>5, <2>3, KeyFormsDiffer DEF Keyed
    <3>4. OrderOn(S)
      <4>1. S \subseteq {StableDigest(x) : x \in Things} \ {Refused}
        BY FormIsDigest
      <4> HIDE DEF S
      <4> QED
        BY <4>1 DEF TextsOrdered, OrderOn
    <3> HIDE DEF r, s, n, m, k, S
    <3>5. A(r) = A(s) <=> n = m /\ Among(r, s, n)
      BY <2>3, <3>2, <3>3, <3>4, ArrangedTell
    <3> QED
      BY <2>1, <3>1, <3>5 DEF Among
  <2> QED
    BY <2>2, <2>3
<1> QED
  BY <1>2, <1>3, <1>5

\* Forms tell things apart exactly by their type and content.
LEMMA FormsTell ==
    ASSUME HeapOK, CanonicalAssumption, KeysDiffer, TextsOrdered
    PROVE  \A v, w \in Things :
               Formed(v) /\ Formed(w) => (Form[v] = Form[w] <=> SameValue[v][w])
<1> DEFINE told(v, w) == Form[v] = Form[w] <=> SameValue[v][w]
           good == {n \in Nat : \A v, w \in Things :
                      Formed(v) /\ Formed(w) /\ Depth(v) < n /\ Depth(w) < n => told(v, w)}
<1>1. 0 \in good
  BY DepthType
<1>2. ASSUME NEW n \in Nat, n \in good
      PROVE  n + 1 \in good
  <2>1. ASSUME NEW v \in Things, NEW w \in Things, Formed(v), Formed(w),
               Depth(v) < n + 1, Depth(w) < n + 1
        PROVE  told(v, w)
    <3>1. CASE v \in Atoms /\ w \in Atoms
      <4>1. Form[v] = <<TypeOf[v], v>> /\ Form[w] = <<TypeOf[w], w>>
        BY <2>1, <3>1, FormSteps
      <4>2. Form[v] = Form[w] <=> v = w
        BY <4>1
      <4> QED
        BY <3>1, <4>2, SameSteps
    <3>2. ASSUME NEW a \in Things, NEW o \in Things, a \in Atoms, o \notin Atoms, Formed(a), Formed(o)
          PROVE  Form[a] # Form[o] /\ a # o
      <4>1. o \in DOMAIN heap
        BY <3>2 DEF Things
      <4>2. Form[a] = <<TypeOf[a], a>>
        BY <3>2, FormSteps
      <4>3. Form[o] = <<heap[o].kind, Arranged(heap[o].kind, RowForms(Form, o))>>
        BY <3>2, <4>1, FormSteps
      <4>4. TypeOf[a] # heap[o].kind
        <5>1. heap[o].kind \in Kinds
          BY <4>1 DEF HeapOK
        <5> QED
          BY <3>2, <5>1 DEF CanonicalAssumption
      <4> QED
        BY <3>2, <4>2, <4>3, <4>4
    <3>3. CASE v \in Atoms <=> w \notin Atoms
      BY <2>1, <3>2, <3>3, SameSteps
    <3>4. CASE v \notin Atoms /\ w \notin Atoms
      <4>1. v \in DOMAIN heap /\ w \in DOMAIN heap
        BY <3>4 DEF Things
      <4>2. ASSUME NEW x \in Parts(v) \cup Parts(w)
            PROVE  x \in Things /\ Formed(x) /\ Depth(x) < n
        <5>1. x \in Things /\ Formed(x) /\ (Depth(x) < Depth(v) \/ Depth(x) < Depth(w))
          BY <2>1, <4>1, <4>2, FormedParts DEF Formed
        <5>2. Depth(x) \in Nat /\ Depth(v) \in Nat /\ Depth(w) \in Nat
          BY <5>1, DepthType
        <5> QED
          BY <2>1, <5>1, <5>2
      <4>3. \A x, y \in Parts(v) \cup Parts(w) : told(x, y)
        BY <1>2, <4>2
      <4>4. Form[v] = Form[w] <=> ContentAlike(SameValue, v, w)
        BY <2>1, <4>1, <4>3, ContainerTells
      <4> QED
        BY <3>4, <4>4, SameSteps
    <3> QED
      BY <3>1, <3>3, <3>4
  <2> HIDE DEF told
  <2> QED
    BY <2>1
<1>3. Nat \subseteq good
  <2> HIDE DEF good
  <2> QED
    BY <1>1, <1>2, SetInduction
<1>4. ASSUME NEW v \in Things, NEW w \in Things, Formed(v), Formed(w)
      PROVE  told(v, w)
  <2> DEFINE n == Depth(v) + Depth(w) + 1
  <2>1. Depth(v) \in Nat /\ Depth(w) \in Nat
    BY DepthType
  <2>2. n \in Nat /\ Depth(v) < n /\ Depth(w) < n
    BY <2>1
  <2> HIDE DEF told, n
  <2>3. n \in good
    BY <1>3, <2>2
  <2> QED
    BY <1>4, <2>2, <2>3
<1> QED
  BY <1>4

\* Hence identities tell type and content.
LEMMA IdentityTells ==
    ASSUME HeapOK, CanonicalAssumption, KeysDiffer, TextsOrdered
    PROVE  IdentityIsTypedContent
<1> SUFFICES ASSUME NEW v \in Things, NEW w \in Things,
                    TypedIdentity(v) # Refused, TypedIdentity(w) # Refused
             PROVE  TypedIdentity(v) = TypedIdentity(w) <=> SameValue[v][w]
  BY DEF IdentityIsTypedContent
<1>1. ASSUME NEW x \in Things, TypedIdentity(x) # Refused
      PROVE  Formed(x) /\ Form[x] # Refused
  <2>1. Form[x] # Refused
    BY <1>1 DEF TypedIdentity, StableDigest, Form
  <2>2. x \in Atoms => x \notin Refusable
    <3>1. {} \in SUBSET DOMAIN heap /\ IsFiniteSet(DOMAIN heap)
      BY DEF HeapOK
    <3> QED
      BY <2>1, <3>1, CanonSteps DEF Form, Written, AtomForm
  <2>3. x \in DOMAIN heap => ~Unformed(x)
    BY <2>1, RefusedExactly, CanonicalAssumption DEF Form, Unformed
  <2> QED
    BY <2>1, <2>2, <2>3 DEF Formed
<1>2. Form[v] = Form[w] <=> SameValue[v][w]
  BY <1>1, FormsTell
<1>3. TypedIdentity(v) = TypedIdentity(w) <=> Form[v] = Form[w]
  <2> DEFINE tell(f) == <<"list", << << <<"str", "radiald-identity-v1">> >>, <<f>> >> >>
  <2>1. TypedIdentity(v) = tell(Form[v]) /\ TypedIdentity(w) = tell(Form[w])
    BY <1>1 DEF TypedIdentity, StableDigest, Form
  <2>2. \A f, g : tell(f) = tell(g) => f = g
    OBVIOUS
  <2> HIDE DEF tell
  <2> QED
    BY <2>1, <2>2
<1> QED
  BY <1>2, <1>3

Immutable == {"tuple", "frozenset"}

\* An immutable container is younger than all that is in it.
Founded ==
    \E age \in [DOMAIN heap -> Nat], next \in Nat : \A o \in DOMAIN heap :
        /\ age[o] < next
        /\ heap[o].kind \in Immutable => \A p \in Inner(o) : age[p] < age[o]

\* What no step changes: the kind of an object, and an immutable one.
Kept ==
    /\ DOMAIN heap \subseteq DOMAIN heap'
    /\ \A o \in DOMAIN heap :
           /\ heap'[o].kind = heap[o].kind
           /\ heap[o].kind \in Immutable => heap'[o] = heap[o]

EqualUnfolds ==
    \A v, w \in Things : PyEqual[v][w] <=>
        IF v \in Atoms \/ w \in Atoms THEN v \in Atoms /\ w \in Atoms /\ ClassOf[v] = ClassOf[w]
                                      ELSE ContentEqual(PyEqual, v, w)

HashUnfolds ==
    \A v \in Things : Hashable[v] <=>
        \/ v \in Atoms
        \/ /\ heap[v].kind \in Immutable
           /\ \A i \in DOMAIN RowsOf(v) : Hashable[RowsOf(v)[i][1]]

\* The two comparisons at once, for this state
LEMMA Unfolds == HeapOK => EqualUnfolds /\ HashUnfolds
<1> SUFFICES ASSUME HeapOK PROVE EqualUnfolds /\ HashUnfolds
  OBVIOUS
<1>1. EqualUnfolds
  BY EqualSteps DEF EqualUnfolds
<1>2. HashUnfolds
  BY HashSteps DEF HashUnfolds, Immutable
<1> QED
  BY <1>1, <1>2

\* and for the next.
LEMMA UnfoldsNext == HeapOK' => EqualUnfolds' /\ HashUnfolds'
  BY Unfolds, PTL

\* Once hashable, always hashable.
LEMMA HashKept ==
    ASSUME HeapOK, HeapOK', Founded, Kept
    PROVE  \A v \in Things : Hashable[v] => Hashable'[v]
<1>1. PICK age \in [DOMAIN heap -> Nat] :
              \A o \in DOMAIN heap : heap[o].kind \in Immutable => \A p \in Inner(o) : age[p] < age[o]
  BY DEF Founded
<1>2. HashUnfolds /\ HashUnfolds'
  BY Unfolds, UnfoldsNext
<1>3. Things \subseteq Things'
  BY DEF Kept, Things
<1> DEFINE good == {n \in Nat : \A v \in Things :
                      (v \in DOMAIN heap => age[v] < n) /\ Hashable[v] => Hashable'[v]}
<1>4. ASSUME NEW v \in Atoms
      PROVE  Hashable'[v]
  BY <1>2, <1>3, <1>4 DEF HashUnfolds, Things
<1>5. 0 \in good
  <2>1. \A v \in Things : (v \in DOMAIN heap => age[v] < 0) => v \in Atoms
    BY <1>1 DEF Things
  <2> QED
    BY <1>4, <2>1
<1>6. ASSUME NEW n \in Nat, n \in good
      PROVE  n + 1 \in good
  <2>1. ASSUME NEW v \in DOMAIN heap, age[v] < n + 1, Hashable[v]
        PROVE  Hashable'[v]
    <3>1. v \in Things /\ v \notin Atoms
      BY DEF Things, HeapOK
    <3>2. /\ heap[v].kind \in Immutable
          /\ \A i \in DOMAIN RowsOf(v) : Hashable[RowsOf(v)[i][1]]
      BY <1>2, <2>1, <3>1 DEF HashUnfolds
    <3>3. heap'[v] = heap[v] /\ RowsOf(v)' = RowsOf(v)
      BY <3>2 DEF Kept, RowsOf
    <3>4. ASSUME NEW i \in DOMAIN RowsOf(v)
          PROVE  Hashable'[RowsOf(v)[i][1]]
      <4> DEFINE x == RowsOf(v)[i][1]
      <4>1. x \in Parts(v) /\ x \in Things
        BY KeysInParts
      <4>2. x \in DOMAIN heap => age[x] < age[v]
        BY <1>1, <3>2, <4>1 DEF Inner
      <4>3. x \in DOMAIN heap => age[x] < n
        BY <1>1, <2>1, <4>2
      <4>4. Hashable[x]
        BY <3>2
      <4> HIDE DEF x
      <4>5. Hashable'[x]
        BY <1>6, <4>1, <4>3, <4>4
      <4> QED
        BY <4>5 DEF x
    <3> QED
      BY <1>2, <1>3, <3>1, <3>2, <3>3, <3>4 DEF HashUnfolds
  <2>2. \A v \in Things : (v \in DOMAIN heap => age[v] < n + 1) /\ Hashable[v] => Hashable'[v]
    BY <1>4, <2>1 DEF Things
  <2> QED
    BY <2>2
<1>7. Nat \subseteq good
  <2> HIDE DEF good
  <2> QED
    BY <1>5, <1>6, SetInduction
<1>8. ASSUME NEW v \in Things, Hashable[v]
      PROVE  Hashable'[v]
  <2>1. CASE v \in Atoms
    BY <1>4, <2>1
  <2>2. CASE v \in DOMAIN heap
    <3>1. age[v] + 1 \in good /\ age[v] < age[v] + 1
      BY <1>1, <1>7, <2>2
    <3> QED
      BY <1>8, <3>1
  <2> QED
    BY <2>1, <2>2 DEF Things
<1> QED
  BY <1>8

\* Hashable things that differ for Python go on doing so.
LEMMA EqualKept ==
    ASSUME HeapOK, HeapOK', Founded, Kept
    PROVE  \A v, w \in Things : Hashable[v] /\ Hashable[w] /\ PyEqual'[v][w] => PyEqual[v][w]
<1>1. PICK age \in [DOMAIN heap -> Nat] :
              \A o \in DOMAIN heap : heap[o].kind \in Immutable => \A p \in Inner(o) : age[p] < age[o]
  BY DEF Founded
<1>2. HashUnfolds /\ EqualUnfolds /\ EqualUnfolds'
  BY Unfolds, UnfoldsNext
<1>3. Things \subseteq Things'
  BY DEF Kept, Things
<1> DEFINE kept(v, w) == Hashable[v] /\ Hashable[w] /\ PyEqual'[v][w] => PyEqual[v][w]
           good == {n \in Nat : \A v, w \in Things : (v \in DOMAIN heap => age[v] < n) => kept(v, w)}
<1>4. ASSUME NEW v \in Things, NEW w \in Things, v \in Atoms \/ w \in Atoms
      PROVE  kept(v, w)
  BY <1>2, <1>3, <1>4 DEF EqualUnfolds
<1>5. 0 \in good
  <2>1. \A v \in Things : (v \in DOMAIN heap => age[v] < 0) => v \in Atoms
    BY <1>1 DEF Things
  <2> HIDE DEF kept
  <2> QED
    BY <1>4, <2>1
<1>6. ASSUME NEW n \in Nat, n \in good
      PROVE  n + 1 \in good
  <2>1. ASSUME NEW v \in DOMAIN heap, NEW w \in DOMAIN heap, age[v] < n + 1,
               Hashable[v], Hashable[w], PyEqual'[v][w]
        PROVE  PyEqual[v][w]
    <3>1. v \in Things /\ w \in Things /\ v \notin Atoms /\ w \notin Atoms
      BY DEF Things, HeapOK
    <3>2. /\ heap[v].kind \in Immutable /\ \A i \in DOMAIN RowsOf(v) : Hashable[RowsOf(v)[i][1]]
          /\ heap[w].kind \in Immutable /\ \A i \in DOMAIN RowsOf(w) : Hashable[RowsOf(w)[i][1]]
      BY <1>2, <2>1, <3>1 DEF HashUnfolds
    <3>3. /\ heap'[v] = heap[v] /\ RowsOf(v)' = RowsOf(v)
          /\ heap'[w] = heap[w] /\ RowsOf(w)' = RowsOf(w)
      BY <3>2 DEF Kept, RowsOf
    <3>4. ContentEqual(PyEqual, v, w)'
      BY <1>2, <1>3, <2>1, <3>1 DEF EqualUnfolds
    <3>5. /\ heap[v].kind = heap[w].kind
          /\ Len(RowsOf(v)) = Len(RowsOf(w))
          /\ IF heap[v].kind = "tuple"
             THEN \A i \in DOMAIN RowsOf(v) : PyEqual'[RowsOf(v)[i][1]][RowsOf(w)[i][1]]
             ELSE \A i \in DOMAIN RowsOf(v) : \E j \in DOMAIN RowsOf(w) :
                      PyEqual'[RowsOf(v)[i][1]][RowsOf(w)[j][1]]
      BY <3>3, <3>4 DEF ContentEqual
    <3>6. ASSUME NEW i \in DOMAIN RowsOf(v), NEW j \in DOMAIN RowsOf(w),
                 PyEqual'[RowsOf(v)[i][1]][RowsOf(w)[j][1]]
          PROVE  PyEqual[RowsOf(v)[i][1]][RowsOf(w)[j][1]]
      <4> DEFINE x == RowsOf(v)[i][1]
                 y == RowsOf(w)[j][1]
      <4>1. x \in Parts(v) /\ x \in Things /\ y \in Things
        BY KeysInParts
      <4>2. x \in DOMAIN heap => age[x] < age[v]
        BY <1>1, <3>2, <4>1 DEF Inner
      <4>3. x \in DOMAIN heap => age[x] < n
        BY <1>1, <2>1, <4>2
      <4>4. Hashable[x] /\ Hashable[y] /\ PyEqual'[x][y]
        BY <3>2, <3>6
      <4> HIDE DEF x, y
      <4>5. PyEqual[x][y]
        BY <1>6, <4>1, <4>3, <4>4
      <4> QED
        BY <4>5 DEF x, y
    <3>7. DOMAIN RowsOf(v) = DOMAIN RowsOf(w)
      BY <3>5, RowTypes
    <3>8. ContentEqual(PyEqual, v, w)
      BY <3>5, <3>6, <3>7 DEF ContentEqual
    <3> QED
      BY <1>2, <3>1, <3>8 DEF EqualUnfolds
  <2>2. \A v, w \in Things : (v \in DOMAIN heap => age[v] < n + 1) => kept(v, w)
    <3>1. \A v, w \in DOMAIN heap : age[v] < n + 1 => kept(v, w)
      BY <2>1
    <3> HIDE DEF kept
    <3> QED
      BY <1>4, <3>1 DEF Things
  <2> HIDE DEF kept
  <2> QED
    BY <2>2
<1>7. Nat \subseteq good
  <2> HIDE DEF good
  <2> QED
    BY <1>5, <1>6, SetInduction
<1>8. ASSUME NEW v \in Things, NEW w \in Things
      PROVE  kept(v, w)
  <2> HIDE DEF kept
  <2>1. CASE v \in Atoms
    BY <1>4, <2>1
  <2>2. CASE v \in DOMAIN heap
    <3>1. age[v] + 1 \in good /\ age[v] < age[v] + 1
      BY <1>1, <1>7, <2>2
    <3> QED
      BY <3>1
  <2> QED
    BY <2>1, <2>2 DEF Things
<1> QED
  BY <1>8

\* Rows with hashable keys that differ for Python.
Distinct(hashable, equal, rows) ==
    /\ \A i \in DOMAIN rows : hashable[rows[i][1]]
    /\ \A i, j \in DOMAIN rows : i # j =>
           ~(equal[rows[i][1]][rows[j][1]] /\ equal[rows[j][1]][rows[i][1]])

\* The rows of a set or dict.
KeysOK ==
    \A o \in DOMAIN heap :
        heap[o].kind \notin Sequential => Distinct(Hashable, PyEqual, RowsOf(o))

\* Distinct keys stay distinct, although the heap grows around them.
LEMMA DistinctKept ==
    ASSUME HeapOK, HeapOK', Founded, Kept, NEW rows, \A i \in DOMAIN rows : rows[i][1] \in Things,
           Distinct(Hashable, PyEqual, rows)
    PROVE  Distinct(Hashable', PyEqual', rows)
<1>1. \A i \in DOMAIN rows : Hashable'[rows[i][1]]
  BY HashKept DEF Distinct
<1>2. \A i, j \in DOMAIN rows :
          PyEqual'[rows[i][1]][rows[j][1]] => PyEqual[rows[i][1]][rows[j][1]]
  BY EqualKept DEF Distinct
<1> QED
  BY <1>1, <1>2 DEF Distinct

\* A step may write new rows for sets and dicts if their keys are as required.
LEMMA KeysStep ==
    ASSUME HeapOK, HeapOK', Founded, Kept, KeysOK,
           \A o \in DOMAIN heap' :
               \/ o \in DOMAIN heap /\ heap'[o] = heap[o]
               \/ heap'[o].kind \in Sequential
               \/ /\ \A i \in DOMAIN heap'[o].rows : heap'[o].rows[i][1] \in Things
                  /\ Distinct(Hashable, PyEqual, heap'[o].rows)
    PROVE  KeysOK'
<1> SUFFICES ASSUME NEW o \in DOMAIN heap', heap'[o].kind \notin Sequential
             PROVE  Distinct(Hashable', PyEqual', heap'[o].rows)
  BY DEF KeysOK, RowsOf
<1>1. /\ \A i \in DOMAIN heap'[o].rows : heap'[o].rows[i][1] \in Things
      /\ Distinct(Hashable, PyEqual, heap'[o].rows)
  <2>1. CASE o \in DOMAIN heap /\ heap'[o] = heap[o]
    BY <2>1, KeysInParts DEF KeysOK, RowsOf
  <2> QED
    BY <2>1
<1> DEFINE rows == heap'[o].rows
<1> HIDE DEF rows
<1>2. Distinct(Hashable', PyEqual', rows)
  BY <1>1, DistinctKept DEF rows
<1> QED
  BY <1>2 DEF rows

\* Nothing is put into an immutable container after it was created.
LEMMA FoundedStep ==
    ASSUME HeapOK, HeapOK', Founded, Kept,
           \A o \in DOMAIN heap' \ DOMAIN heap : Parts(o)' \subseteq Things
    PROVE  Founded'
<1>1. PICK age \in [DOMAIN heap -> Nat], next \in Nat : \A o \in DOMAIN heap :
              /\ age[o] < next
              /\ heap[o].kind \in Immutable => \A p \in Inner(o) : age[p] < age[o]
  BY DEF Founded
<1> DEFINE older == [o \in DOMAIN heap' |-> IF o \in DOMAIN heap THEN age[o] ELSE next]
<1>2. older \in [DOMAIN heap' -> Nat] /\ next + 1 \in Nat
  BY <1>1
<1>3. ASSUME NEW o \in DOMAIN heap'
      PROVE  older[o] < next + 1
  BY <1>1
<1>4. ASSUME NEW o \in DOMAIN heap', heap'[o].kind \in Immutable, NEW p \in Inner(o)'
      PROVE  older[p] < older[o]
  <2>1. p \in Parts(o)' /\ p \in DOMAIN heap'
    BY DEF Inner
  <2>2. CASE o \in DOMAIN heap
    <3>1. heap[o].kind \in Immutable /\ heap'[o] = heap[o]
      BY <1>4, <2>2 DEF Kept
    <3>2. Parts(o)' = Parts(o)
      BY <3>1 DEF Parts, RowsOf
    <3>3. p \in Things /\ p \in DOMAIN heap
      <4>1. p \in Things
        BY <2>1, <2>2, <3>2, PartsInRows
      <4> QED
        BY <2>1, <4>1 DEF Things, HeapOK
    <3>4. p \in Inner(o)
      BY <2>1, <3>2, <3>3 DEF Inner
    <3> QED
      BY <1>1, <2>1, <2>2, <3>1, <3>3, <3>4
  <2>3. CASE o \notin DOMAIN heap
    <3>1. p \in Things
      BY <2>1, <2>3
    <3>2. p \in DOMAIN heap
      BY <2>1, <3>1 DEF Things, HeapOK
    <3> QED
      BY <1>1, <2>1, <2>3, <3>2
  <2> QED
    BY <2>2, <2>3
<1> HIDE DEF older
<1> QED
  BY <1>2, <1>3, <1>4 DEF Founded

\* new is s with x at place i.
Inserts(s, i, x, new) ==
    /\ DOMAIN new = 1 .. Len(s) + 1
    /\ \A j \in 1 .. Len(s) + 1 : new[j] = IF j < i THEN s[j] ELSE IF j = i THEN x ELSE s[j - 1]

\* InsertAt puts x at place i and moves the rest by one,
LEMMA InsertInserts ==
    ASSUME NEW S, NEW s \in Seq(S), NEW x \in S, NEW i \in 1 .. Len(s) + 1
    PROVE  Inserts(s, i, x, InsertAt(s, i, x))
<1> DEFINE a == SubSeq(s, 1, i - 1)
           b == SubSeq(s, i, Len(s))
           t == a \o <<x>>
<1>1. InsertAt(s, i, x) = t \o b
  BY DEF InsertAt
<1>2. /\ a \in Seq(S) /\ Len(a) = i - 1 /\ \A j \in 1 .. i - 1 : a[j] = s[j]
      /\ b \in Seq(S) /\ Len(b) = Len(s) - i + 1 /\ \A j \in 1 .. Len(s) - i + 1 : b[j] = s[j + i - 1]
      /\ Len(s) \in Nat
  OBVIOUS
<1> HIDE DEF a, b
<1>3. t \in Seq(S) /\ Len(t) = i /\ t[i] = x /\ \A j \in 1 .. i - 1 : t[j] = s[j]
  <2>1. t \in Seq(S) /\ Len(t) = Len(a) + 1 /\ Len(a) \in Nat /\ i = Len(a) + 1
    BY <1>2
  <2>2. t[Len(a) + 1] = x /\ \A j \in 1 .. Len(a) : t[j] = a[j]
    BY <1>2
  <2> QED
    BY <1>2, <2>1, <2>2
<1> HIDE DEF t
<1>4. Len(t \o b) = Len(s) + 1 /\ t \o b \in Seq(S)
  BY <1>2, <1>3
<1>5. ASSUME NEW j \in 1 .. Len(s) + 1
      PROVE  (t \o b)[j] = IF j < i THEN s[j] ELSE IF j = i THEN x ELSE s[j - 1]
  <2>1. CASE j <= i
    <3>1. (t \o b)[j] = t[j]
      BY <1>2, <1>3, <2>1
    <3> QED
      BY <1>3, <2>1, <3>1
  <2>2. CASE j > i
    <3>1. (t \o b)[j] = b[j - i]
      BY <1>2, <1>3, <2>2
    <3>2. j - i \in 1 .. Len(s) - i + 1 /\ (j - i) + i - 1 = j - 1
      BY <1>2, <2>2
    <3>3. b[j - i] = s[j - 1]
      BY <1>2, <3>2
    <3> QED
      BY <2>2, <3>1, <3>3
  <2>3. j <= i \/ j > i
    BY <1>2
  <2> QED
    BY <2>1, <2>2, <2>3
<1>6. DOMAIN (t \o b) = 1 .. Len(s) + 1
  BY <1>4
<1> QED
  BY <1>1, <1>5, <1>6 DEF Inserts

\* and appending is inserting at the end.
LEMMA AppendInserts ==
    ASSUME NEW S, NEW s \in Seq(S), NEW x \in S
    PROVE  Inserts(s, Len(s) + 1, x, s \o <<x>>)
<1>1. Len(s) \in Nat /\ s \o <<x>> \in Seq(S) /\ Len(s \o <<x>>) = Len(s) + 1
  OBVIOUS
<1>2. DOMAIN (s \o <<x>>) = 1 .. Len(s) + 1
  BY <1>1
<1>3. \A j \in 1 .. Len(s) + 1 : (s \o <<x>>)[j] = IF j < Len(s) + 1 THEN s[j] ELSE x
  BY <1>1
<1> QED
  BY <1>1, <1>2, <1>3 DEF Inserts

\* A key that equals none of those there can be inserted anywhere.
LEMMA DistinctInserted ==
    ASSUME NEW s, Len(s) \in Nat, DOMAIN s = 1 .. Len(s), NEW i \in 1 .. Len(s) + 1, NEW x, NEW new,
           Inserts(s, i, x, new), NEW hashable, NEW equal, Distinct(hashable, equal, s),
           hashable[x[1]], \A j \in DOMAIN s : ~equal[s[j][1]][x[1]]
    PROVE  Distinct(hashable, equal, new)
<1> DEFINE n == Len(s)
           old(j) == IF j < i THEN j ELSE j - 1
<1>1. ASSUME NEW j \in 1 .. n + 1
      PROVE  \/ j = i /\ new[j] = x
             \/ j # i /\ old(j) \in 1 .. n /\ new[j] = s[old(j)]
  BY DEF Inserts
<1>2. \A j, k \in 1 .. n + 1 : j # i /\ k # i /\ j # k => old(j) # old(k)
  OBVIOUS
<1> HIDE DEF old
<1>3. \A j \in 1 .. n + 1 : hashable[new[j][1]]
  BY <1>1 DEF Distinct
<1>4. ASSUME NEW j \in 1 .. n + 1, NEW k \in 1 .. n + 1, j # k
      PROVE  ~(equal[new[j][1]][new[k][1]] /\ equal[new[k][1]][new[j][1]])
  <2>1. CASE j = i
    BY <1>1, <1>4, <2>1
  <2>2. CASE k = i
    BY <1>1, <1>4, <2>2
  <2>3. CASE j # i /\ k # i
    BY <1>1, <1>2, <1>4, <2>3 DEF Distinct
  <2> QED
    BY <2>1, <2>2, <2>3
<1>5. DOMAIN new = 1 .. n + 1
  BY DEF Inserts
<1> QED
  BY <1>3, <1>4, <1>5 DEF Distinct

\* A new container respects keys and ages if its own keys are distinct,
LEMMA CreatedKeys ==
    ASSUME HeapOK, HeapOK', Founded, KeysOK, NEW kind, NEW rows, Create(kind, rows),
           \A i \in DOMAIN rows : \A j \in DOMAIN rows[i] : rows[i][j] \in Things,
           \A i \in DOMAIN rows : rows[i][1] \in Things,
           kind \notin Sequential => Distinct(Hashable, PyEqual, rows)
    PROVE  Founded' /\ KeysOK'
<1>1. /\ DOMAIN heap \subseteq DOMAIN heap'
      /\ \A o \in DOMAIN heap : heap'[o] = heap[o]
      /\ \A o \in DOMAIN heap' \ DOMAIN heap : heap'[o].kind = kind /\ heap'[o].rows = rows
  BY DEF Create
<1>2. Kept
  BY <1>1 DEF Kept
<1>3. ASSUME NEW o \in DOMAIN heap' \ DOMAIN heap
      PROVE  Parts(o)' \subseteq Things
  <2>1. Parts(o)' = UNION {Range(row) : row \in Range(rows)}
    BY <1>1, <1>3 DEF Parts, RowsOf, HeapOK
  <2> QED
    BY <2>1 DEF Range
<1>4. Founded'
  BY <1>2, <1>3, FoundedStep
<1>5. KeysOK'
  BY <1>1, <1>2, KeysStep
<1> QED
  BY <1>4, <1>5

\* and so does a mutable one given other rows.
LEMMA ExtendedKeys ==
    ASSUME HeapOK, HeapOK', Founded, KeysOK, NEW o \in DOMAIN heap, heap[o].kind \notin Immutable,
           NEW rows, heap' = [heap EXCEPT ![o].rows = rows],
           heap[o].kind \notin Sequential => /\ \A i \in DOMAIN rows : rows[i][1] \in Things
                                             /\ Distinct(Hashable, PyEqual, rows)
    PROVE  Founded' /\ KeysOK'
<1>1. /\ DOMAIN heap' = DOMAIN heap
      /\ \A u \in DOMAIN heap \ {o} : heap'[u] = heap[u]
      /\ heap'[o] = [heap[o] EXCEPT !.rows = rows]
  OBVIOUS
<1>2. heap'[o].rows = rows /\ heap'[o].kind = heap[o].kind
  <2>1. heap[o] \in [kind : Kinds, rows : Seq(Seq(Things))]
    BY DEF HeapOK
  <2> QED
    BY <1>1, <2>1
<1>3. Kept
  BY <1>1, <1>2 DEF Kept
<1>4. Founded'
  BY <1>1, <1>3, FoundedStep
<1>5. KeysOK'
  BY <1>1, <1>2, <1>3, KeysStep
<1> QED
  BY <1>4, <1>5

\* No step puts a mutable value or an equal one where keys are.
LEMMA KeysInductive ==
    ASSUME CanonicalAssumption, HeapOK, HeapOK', Founded, KeysOK, [CanonicalNext]_heap
    PROVE  Founded' /\ KeysOK'
<1>1. ASSUME NEW o \in DOMAIN heap
      PROVE  /\ RowsOf(o) \in Seq(Row(heap[o].kind, Things))
             /\ Len(RowsOf(o)) \in Nat
             /\ DOMAIN RowsOf(o) = 1 .. Len(RowsOf(o))
             /\ \A i \in DOMAIN RowsOf(o) : RowsOf(o)[i][1] \in Things
  BY KeysInParts, RowTypes DEF HeapOK, RowsOf
<1>2. ASSUME NEW o \in DOMAIN heap, NEW x \in Row(heap[o].kind, Things), x[1] \in Things,
             NEW i \in 1 .. Len(RowsOf(o)) + 1, NEW new, Inserts(RowsOf(o), i, x, new),
             heap[o].kind \notin Immutable, heap' = [heap EXCEPT ![o].rows = new],
             heap[o].kind \notin Sequential =>
                 Hashable[x[1]] /\ \A j \in DOMAIN RowsOf(o) : ~PyEqual[RowsOf(o)[j][1]][x[1]]
      PROVE  Founded' /\ KeysOK'
  <2>1. ASSUME heap[o].kind \notin Sequential
        PROVE  /\ \A j \in DOMAIN new : new[j][1] \in Things
               /\ Distinct(Hashable, PyEqual, new)
    <3> DEFINE s == RowsOf(o)
    <3>1. /\ Len(s) \in Nat /\ DOMAIN s = 1 .. Len(s) /\ \A j \in DOMAIN s : s[j][1] \in Things
          /\ Distinct(Hashable, PyEqual, s)
          /\ \A j \in DOMAIN s : ~PyEqual[s[j][1]][x[1]]
          /\ i \in 1 .. Len(s) + 1 /\ Inserts(s, i, x, new)
      BY <1>1, <1>2, <2>1 DEF KeysOK
    <3> HIDE DEF s
    <3>2. Distinct(Hashable, PyEqual, new)
      BY <1>2, <2>1, <3>1, DistinctInserted
    <3>3. ASSUME NEW j \in DOMAIN new
          PROVE  new[j][1] \in Things
      <4>1. new[j] = x \/ \E k \in DOMAIN s : new[j] = s[k]
        BY <3>1 DEF Inserts
      <4> QED
        BY <1>2, <3>1, <4>1
    <3> QED
      BY <3>2, <3>3
  <2> QED
    BY <1>2, <2>1, ExtendedKeys
<1>3. \A kind : kind # "dict" => \A v \in Things : <<v>> \in Row(kind, Things)
  BY DEF Row, Width
<1>4. ASSUME NEW kind \in {"list", "set", "dict"}, Create(kind, <<>>)
      PROVE  Founded' /\ KeysOK'
  <2>1. Distinct(Hashable, PyEqual, <<>>)
    BY DEF Distinct
  <2> QED
    BY <1>4, <2>1, CreatedKeys
<1>5. ASSUME NEW kind \in {"tuple", "frozenset"}, Frozen(kind)
      PROVE  Founded' /\ KeysOK'
  <2>1. PICK items \in BoundedSeq(Things, MaxRows) :
                 /\ kind = "frozenset" =>
                       /\ \A i \in DOMAIN items : Hashable[items[i]]
                       /\ \A i, j \in DOMAIN items : i # j => ~PyEqual[items[i]][items[j]]
                 /\ Create(kind, [i \in DOMAIN items |-> <<items[i]>>])
    BY <1>5 DEF Frozen
  <2>2. PICK m \in Nat : items \in [1 .. m -> Things]
    BY DEF BoundedSeq, SeqOf, CanonicalAssumption
  <2> DEFINE rows == [i \in DOMAIN items |-> <<items[i]>>]
  <2>3. /\ DOMAIN rows = DOMAIN items
        /\ \A i \in DOMAIN rows : rows[i][1] = items[i] /\ items[i] \in Things
        /\ \A i \in DOMAIN rows : DOMAIN rows[i] = {1}
    BY <2>2
  <2> HIDE DEF rows
  <2>4. kind \notin Sequential => Distinct(Hashable, PyEqual, rows)
    BY <2>1, <2>3 DEF Sequential, Distinct
  <2>5. /\ \A i \in DOMAIN rows : \A j \in DOMAIN rows[i] : rows[i][j] \in Things
        /\ \A i \in DOMAIN rows : rows[i][1] \in Things
    BY <2>3
  <2> QED
    BY <2>1, <2>4, <2>5, CreatedKeys DEF rows
<1>6. ASSUME NEW o \in DOMAIN heap, NEW v \in Things, Append1(o, v)
      PROVE  Founded' /\ KeysOK'
  <2> DEFINE x == <<v>>
             new == RowsOf(o) \o <<x>>
  <2>1. /\ heap' = [heap EXCEPT ![o].rows = new]
        /\ heap[o].kind = "list"
        /\ x \in Row(heap[o].kind, Things) /\ x[1] \in Things
    BY <1>3, <1>6 DEF Append1, Extend
  <2>2. heap[o].kind \in Sequential /\ heap[o].kind \notin Immutable
    BY <2>1 DEF Sequential, Immutable
  <2> HIDE DEF x
  <2>3. Inserts(RowsOf(o), Len(RowsOf(o)) + 1, x, new)
    BY <1>1, <2>1, AppendInserts
  <2>4. Len(RowsOf(o)) + 1 \in 1 .. Len(RowsOf(o)) + 1
    BY <1>1
  <2> HIDE DEF new
  <2> QED
    BY <1>2, <2>1, <2>2, <2>3, <2>4
<1>7. ASSUME NEW o \in DOMAIN heap, NEW v \in Things, Add(o, v)
      PROVE  Founded' /\ KeysOK'
  <2> DEFINE x == <<v>>
  <2>1. PICK i \in 1 .. Len(RowsOf(o)) + 1 :
                 heap' = [heap EXCEPT ![o].rows = InsertAt(RowsOf(o), i, x)]
    BY <1>7 DEF Add, Extend
  <2>2. /\ heap[o].kind = "set"
        /\ x \in Row(heap[o].kind, Things) /\ x[1] \in Things
        /\ Hashable[x[1]] /\ \A j \in DOMAIN RowsOf(o) : ~PyEqual[RowsOf(o)[j][1]][x[1]]
    BY <1>3, <1>7 DEF Add
  <2>3. heap[o].kind \notin Immutable
    BY <2>2 DEF Immutable
  <2> HIDE DEF x
  <2>4. Inserts(RowsOf(o), i, x, InsertAt(RowsOf(o), i, x))
    BY <1>1, <2>2, InsertInserts
  <2> QED
    BY <1>2, <2>1, <2>2, <2>3, <2>4
<1>8. ASSUME NEW o \in DOMAIN heap, NEW k \in Things, NEW v \in Things, Put(o, k, v)
      PROVE  Founded' /\ KeysOK'
  <2>1. heap[o].kind = "dict" /\ heap[o].kind \notin Immutable /\ heap[o].kind \notin Sequential
    BY <1>8 DEF Put, Immutable, Sequential
  <2>2. CASE \E i \in DOMAIN RowsOf(o) : PyEqual[RowsOf(o)[i][1]][k]
    <3> DEFINE r == RowsOf(o)
               rows == [i \in DOMAIN r |-> IF PyEqual[r[i][1]][k] THEN <<r[i][1], v>> ELSE r[i]]
    <3>1. heap' = [heap EXCEPT ![o].rows = rows]
      BY <1>8, <2>2 DEF Put, RowsOf
    <3>2. Distinct(Hashable, PyEqual, r) /\ \A i \in DOMAIN r : r[i][1] \in Things
      BY <1>1, <2>1 DEF KeysOK
    <3> HIDE DEF r
    <3>3. DOMAIN rows = DOMAIN r /\ \A i \in DOMAIN r : rows[i][1] = r[i][1]
      OBVIOUS
    <3> HIDE DEF rows
    <3>4. Distinct(Hashable, PyEqual, rows) /\ \A i \in DOMAIN rows : rows[i][1] \in Things
      BY <3>2, <3>3 DEF Distinct
    <3> QED
      BY <2>1, <3>1, <3>4, ExtendedKeys
  <2>3. CASE ~\E i \in DOMAIN RowsOf(o) : PyEqual[RowsOf(o)[i][1]][k]
    <3> DEFINE x == <<k, v>>
               new == RowsOf(o) \o <<x>>
    <3>1. /\ heap' = [heap EXCEPT ![o].rows = new]
          /\ Hashable[x[1]] /\ x[1] \in Things
          /\ \A j \in DOMAIN RowsOf(o) : ~PyEqual[RowsOf(o)[j][1]][x[1]]
      BY <1>8, <2>3 DEF Put, Extend
    <3>2. x \in Row(heap[o].kind, Things)
      BY <2>1 DEF Row, Width
    <3> HIDE DEF x
    <3>3. Inserts(RowsOf(o), Len(RowsOf(o)) + 1, x, new)
      BY <1>1, <3>2, AppendInserts
    <3>4. Len(RowsOf(o)) + 1 \in 1 .. Len(RowsOf(o)) + 1
      BY <1>1
    <3> HIDE DEF new
    <3> QED
      BY <1>2, <2>1, <3>1, <3>2, <3>3, <3>4
  <2> QED
    BY <2>2, <2>3
<1>9. CASE UNCHANGED heap
  <2>1. Kept
    BY <1>9 DEF Kept
  <2>2. Founded'
    BY <1>9, <2>1, FoundedStep
  <2>3. KeysOK'
    BY <1>9, <2>1, KeysStep
  <2> QED
    BY <2>2, <2>3
<1> QED
  BY <1>4, <1>5, <1>6, <1>7, <1>8, <1>9 DEF CanonicalNext

\* Two values that are identified have one identity exactly if they are the
\* same in type and content (gate G9), in every object graph a program can
\* build, as long as the JSON texts of what occurs in it can be ordered.
THEOREM IdentityIsTypedContentHolds ==
    CanonicalSpec /\ []TextsOrdered => []IdentityIsTypedContent
<1> DEFINE Values == Founded /\ KeysOK
<1>1. CanonicalInit => Values
  BY DEF CanonicalInit, Founded, KeysOK
<1>2. HeapOK /\ HeapOK' /\ Values /\ [CanonicalNext]_heap => Values'
  BY CanonicalAssumption, KeysInductive
<1>3. HeapOK /\ Values /\ TextsOrdered => IdentityIsTypedContent
  BY CanonicalAssumption, IdentityTells DEF KeysOK, KeysDiffer, Distinct
<1> HIDE DEF Values
<1> QED
  BY <1>1, <1>2, <1>3, HeapInvariant, PTL DEF CanonicalSpec
=============================================================================
