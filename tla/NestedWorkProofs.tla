--------------------------- MODULE NestedWorkProofs ---------------------------
(***************************************************************************)
(* Calls inside calls, for every set of calls, every nesting and every     *)
(* order of keys: identical work still executes once, and a caller that    *)
(* nests in ascending order of keys cannot deadlock.                       *)
(***************************************************************************)
EXTENDS NestedWork, RadialExecutorProofs, FiniteSetTheorems, WellFoundedInduction

\* Who a call is, as in RolesOK; the Future an interrupted owner leaves in the
\* table may still be joined, so the owner may have returned.
Settled(c) == pc[c] \in {"compute", "cleanup", "done"} /\ joined[c] = NoCall

NestTypes ==
    /\ pc \in [Calls -> Labels]
    /\ req \in [Calls -> Requests \cup {NoRequest}]
    /\ joined \in [Calls -> Calls \cup {NoCall}]

NestRoles ==
    \A c \in Calls :
        /\ pc[c] = "idle" => joined[c] = NoCall
        /\ Open(c) => joined[c] = NoCall
        /\ pc[c] \in JoinerLabels => joined[c] # NoCall
        /\ Open(c) \/ joined[c] # NoCall => req[c] \in Requests /\ Valid(req[c])
        /\ joined[c] # NoCall =>
              /\ pc[c] \in JoinerLabels \cup {"done"}
              /\ Settled(joined[c])
              /\ KeyOf(joined[c]) = KeyOf(c)

NestTable ==
    \A k \in DOMAIN inflight :
        inflight[k] \in Calls /\ Settled(inflight[k]) /\ KeyOf(inflight[k]) = k

\* A call inside another runs only while the other computes.
NestOK ==
    \A c \in Calls :
        Parent[c] # NoCall /\ pc[c] \notin {"idle", "done"} => pc[Parent[c]] = "compute"

NInv == NestTypes /\ NestRoles /\ NestTable /\ NestOK
---------------------------------------------------------------------------
LEMMA InitNInv == Init => NInv
BY NamesAssumption
DEF Init, NInv, NestTypes, NestRoles, NestTable, NestOK, Labels, Open, JoinerLabels

\* A step that moves only one call c, which has entered.
LEMMA MoveNInv ==
    ASSUME NInv, NEW c \in Calls, NEW l \in Labels \ {"idle"},
           pc' = [pc EXCEPT ![c] = l],
           UNCHANGED <<req, joined>>,
           \/ inflight' = inflight
           \/ \E k : inflight' = Without(k),
           \/ pc[c] = "idle" /\ l = "done"
           \/ pc[c] = "compute" /\ l \in {"cleanup", "done"} /\ Inside(c) = {}
           \/ pc[c] = "cleanup" /\ l = "done"
           \/ pc[c] \in JoinerLabels /\ l \in JoinerLabels \cup {"done"}
    PROVE  NInv'
<1>1. NestTypes'
  BY DEF NInv, NestTypes
<1>2. NestRoles'
  BY DEF NInv, NestTypes, NestRoles, Settled, KeyOf, Open, JoinerLabels
<1>3. NestTable'
  <2>1. ASSUME NEW k \in DOMAIN inflight'
        PROVE  k \in DOMAIN inflight /\ inflight'[k] = inflight[k]
    BY DEF Without
  <2>2. \A d \in Calls : Settled(d) => Settled(d)' /\ KeyOf(d)' = KeyOf(d)
    BY DEF NInv, NestTypes, NestRoles, Settled, KeyOf, JoinerLabels
  <2> QED
    BY <2>1, <2>2 DEF NInv, NestTable
<1>4. NestOK'
  <2>1. ASSUME NEW d \in Calls, Parent[d] # NoCall, pc'[d] \notin {"idle", "done"}
        PROVE  pc'[Parent[d]] = "compute"
    <3>1. pc[d] \notin {"idle", "done"}
      BY <2>1 DEF NInv, NestTypes, JoinerLabels
    <3>2. pc[Parent[d]] = "compute" /\ Parent[d] \in Calls
      BY <2>1, <3>1, NestedAssumption DEF NInv, NestOK
    <3>3. CASE Parent[d] = c
      BY <3>1, <3>2, <3>3 DEF Inside, JoinerLabels
    <3> QED
      BY <3>2, <3>3 DEF NInv, NestTypes
  <2> QED
    BY <2>1 DEF NestOK
<1> QED
  BY <1>1, <1>2, <1>3, <1>4 DEF NInv

\* Entering run(), in or out of another call.
LEMMA EnterNInv ==
    ASSUME NInv, NEW c \in Calls, NEW r \in Requests,
           Parent[c] # NoCall => pc[Parent[c]] = "compute",
           Join(c, r) \/ Own(c, r)
    PROVE  NInv'
<1>1. /\ pc[c] = "idle" /\ joined[c] = NoCall
      /\ Valid(r)
      /\ req' = [req EXCEPT ![c] = r]
  BY DEF Join, Own, NInv, NestRoles
<1>2. \A d \in Calls : joined[d] # c /\ (joined[d] # NoCall => d # c)
  BY <1>1, NamesAssumption DEF NInv, NestRoles, Settled
<1>3. \A k \in DOMAIN inflight : inflight[k] # c
  BY <1>1 DEF NInv, NestTable, Settled
<1>4. NestOK'
  <2>1. PICK l : l # "idle" /\ pc' = [pc EXCEPT ![c] = l]
    BY DEF Join, Own, Goto
  <2>2. ASSUME NEW d \in Calls, Parent[d] # NoCall, pc'[d] \notin {"idle", "done"}
        PROVE  pc'[Parent[d]] = "compute"
    <3>1. pc[Parent[d]] = "compute"
      BY <2>1, <2>2 DEF NInv, NestTypes, NestOK
    <3>2. Parent[d] \in Calls \ {c}
      BY <1>1, <2>2, <3>1, NestedAssumption
    <3> QED
      BY <2>1, <3>1, <3>2 DEF NInv, NestTypes
  <2> QED
    BY <2>2 DEF NestOK
<1>5. CASE Join(c, r)
  <2>1. /\ pc' = [pc EXCEPT ![c] = "wait"]
        /\ joined' = [joined EXCEPT ![c] = inflight[Key(r)]]
        /\ Key(r) \in DOMAIN inflight
        /\ inflight' = inflight
    BY <1>5 DEF Join, Goto, InFlight
  <2>2. /\ inflight[Key(r)] \in Calls
        /\ Settled(inflight[Key(r)])
        /\ KeyOf(inflight[Key(r)]) = Key(r)
        /\ inflight[Key(r)] # c
    BY <1>3, <2>1 DEF NInv, NestTable
  <2>3. NestTypes'
    BY <1>1, <2>1, <2>2 DEF NInv, NestTypes, Labels
  <2>6. \A d \in Calls \ {c} : /\ pc'[d] = pc[d]
                               /\ joined'[d] = joined[d]
                               /\ req'[d] = req[d]
    BY <1>1, <2>1 DEF NInv, NestTypes
  <2>7. /\ pc'[c] = "wait"
        /\ joined'[c] = inflight[Key(r)]
        /\ req'[c] = r
    BY <1>1, <2>1 DEF NInv, NestTypes
  <2>8. \A d \in Calls \ {c} : Settled(d) => Settled(d)' /\ KeyOf(d)' = KeyOf(d)
    BY <2>6 DEF Settled, KeyOf
  <2>9. KeyOf(c)' = Key(r)
    BY <2>7 DEF KeyOf, Key
  <2>4. NestRoles'
    <3>1. ASSUME NEW d \in Calls \ {c}, joined[d] # NoCall
          PROVE  /\ Settled(joined[d])'
                 /\ KeyOf(joined[d])' = KeyOf(d)'
      <4>1. joined[d] \in Calls \ {c}
        BY <1>2, <3>1 DEF NInv, NestTypes
      <4> QED
        BY <2>6, <2>8, <3>1, <4>1 DEF NInv, NestRoles, KeyOf
    <3>2. /\ Settled(inflight[Key(r)])'
          /\ KeyOf(inflight[Key(r)])' = Key(r)
      BY <2>1, <2>2, <2>8
    <3> QED
      BY <1>1, <2>2, <2>6, <2>7, <2>9, <3>1, <3>2, NamesAssumption
      DEF NInv, NestRoles, Open, JoinerLabels, Settled, KeyOf
  <2>5. NestTable'
    <3>1. \A d \in Calls \ {c} : Settled(d) => Settled(d)' /\ KeyOf(d)' = KeyOf(d)
      BY <1>1, <2>1 DEF NInv, NestTypes, Settled, KeyOf
    <3> QED
      BY <1>3, <2>1, <3>1 DEF NInv, NestTable
  <2> QED
    BY <1>4, <2>3, <2>4, <2>5 DEF NInv
<1>6. CASE Own(c, r)
  <2>1. /\ pc' = [pc EXCEPT ![c] = "compute"]
        /\ joined' = joined
        /\ inflight' = [k \in DOMAIN inflight \cup {Key(r)} |->
                           IF k = Key(r) THEN c ELSE inflight[k]]
    BY <1>6 DEF Own, Goto
  <2>2. NestTypes'
    BY <1>1, <2>1 DEF NInv, NestTypes, Labels
  <2>3. NestRoles'
    BY <1>1, <1>2, <2>1
    DEF NInv, NestTypes, NestRoles, Settled, KeyOf, Key, Open, JoinerLabels
  <2>4. NestTable'
    <3>1. \A k \in DOMAIN inflight' :
              \/ k = Key(r) /\ inflight'[k] = c
              \/ k \in DOMAIN inflight /\ inflight'[k] = inflight[k]
      BY <2>1
    <3>2. pc'[c] = "compute" /\ joined'[c] = NoCall /\ req'[c] = r
      BY <1>1, <2>1 DEF NInv, NestTypes
    <3> QED
      BY <1>1, <1>3, <2>1, <3>1, <3>2
      DEF NInv, NestTypes, NestTable, Settled, KeyOf, Key
  <2> QED
    BY <1>4, <2>2, <2>3, <2>4 DEF NInv
<1> QED
  BY <1>5, <1>6

LEMMA StepNInv ==
    NInv /\ [(\E c \in Calls : NestedStep(c)) \/ AllDone]_vars => NInv'
<1> SUFFICES ASSUME NInv, [(\E c \in Calls : NestedStep(c)) \/ AllDone]_vars
             PROVE  NInv'
  OBVIOUS
<1> USE DEF Goto, Return, Labels, JoinerLabels
<1>1. ASSUME NEW c \in Calls, NestedEnter(c)
      PROVE  NInv'
  <2>1. PICK r \in Requests : Refuse(c, r) \/ Join(c, r) \/ Own(c, r)
    BY <1>1 DEF NestedEnter, Enter
  <2>2. CASE Refuse(c, r)
    BY <2>2, MoveNInv DEF Refuse
  <2> QED
    BY <1>1, <2>1, <2>2, EnterNInv DEF NestedEnter
<1>2. ASSUME NEW c \in Calls, NestedCompute(c)
      PROVE  NInv'
  BY <1>2, MoveNInv DEF NestedCompute, Compute, ComputeReturns, ComputeRaises, Settle
<1>3. ASSUME NEW c \in Calls, Cleanup(c)
      PROVE  NInv'
  BY <1>3, MoveNInv DEF Cleanup
<1>4. ASSUME NEW c \in Calls, WaitExpires(c) \/ WaitRaises(c) \/ WaitReturns(c)
      PROVE  NInv'
  BY <1>4, MoveNInv DEF WaitExpires, WaitRaises, WaitReturns
<1>5. ASSUME NEW c \in Calls, RecordTimeout(c) \/ RecordRejected(c) \/ RecordShared(c)
      PROVE  NInv'
  BY <1>5, MoveNInv DEF RecordTimeout, RecordRejected, RecordShared
<1>6. ASSUME NEW c \in Calls, Interrupt(c)
      PROVE  NInv'
  <2>1. pc[c] = "compute" => Inside(c) = {}
    BY <1>6 DEF Interrupt, Inside
  <2> QED
    BY <1>6, <2>1, MoveNInv DEF Interrupt
<1>7. CASE UNCHANGED vars
  BY <1>7 DEF vars, NInv, NestTypes, NestRoles, NestTable, NestOK, Settled, KeyOf,
              Open, Inside
<1> QED
  BY <1>1, <1>2, <1>3, <1>4, <1>5, <1>6, <1>7 DEF NestedStep, Proceed, AllDone

\* With nested calls and interrupts the tables still agree with the threads.
THEOREM NestingInvariant == NestedSpec => []NInv
BY InitNInv, StepNInv, PTL DEF NestedSpec
---------------------------------------------------------------------------
\* The table leads from the key of every owner inside run() to that owner.
NestOwners ==
    \A c \in Calls : Open(c) =>
        KeyOf(c) \in DOMAIN inflight /\ inflight[KeyOf(c)] = c

LEMMA StepNestOwners ==
    ASSUME NestTypes, NestOwners,
           [(\E c \in Calls : NestedStep(c)) \/ AllDone]_vars
    PROVE  NestOwners'
<1> USE DEF Goto, Return
<1>1. ASSUME NEW c \in Calls, NEW r \in Requests, Refuse(c, r) \/ Join(c, r)
      PROVE  NestOwners'
  <2>1. \A d \in Calls : Open(d)' => Open(d) /\ KeyOf(d)' = KeyOf(d)
    BY <1>1 DEF NestTypes, Refuse, Join, Open, KeyOf
  <2>2. inflight' = inflight
    BY <1>1 DEF Refuse, Join
  <2> QED
    BY <2>1, <2>2 DEF NestOwners
<1>2. ASSUME NEW c \in Calls, NEW r \in Requests, Own(c, r)
      PROVE  NestOwners'
  <2>1. /\ Key(r) \notin DOMAIN inflight
        /\ inflight' = [k \in DOMAIN inflight \cup {Key(r)} |->
                           IF k = Key(r) THEN c ELSE inflight[k]]
    BY <1>2 DEF Own, InFlight
  <2>2. KeyOf(c)' = Key(r)
    BY <1>2 DEF NestTypes, Own, KeyOf, Key
  <2>3. \A d \in Calls \ {c} : Open(d)' => Open(d) /\ KeyOf(d)' = KeyOf(d)
    BY <1>2 DEF NestTypes, Own, Open, KeyOf
  <2> QED
    BY <2>1, <2>2, <2>3 DEF NestOwners
<1>3. ASSUME NEW c \in Calls, Cleanup(c)
      PROVE  NestOwners'
  <2>1. Open(c) /\ Key(req[c]) = KeyOf(c) /\ inflight' = Without(KeyOf(c))
    BY <1>3 DEF Cleanup, Open, KeyOf, Key
  <2>2. \A d \in Calls : Open(d)' => d # c /\ Open(d) /\ KeyOf(d)' = KeyOf(d)
    BY <1>3 DEF NestTypes, Cleanup, Open, KeyOf
  <2> QED
    BY <2>1, <2>2 DEF NestOwners, Without
<1>4. ASSUME NEW c \in Calls,
             \/ NestedCompute(c) \/ Interrupt(c)
             \/ Proceed(c) /\ ~Cleanup(c)
      PROVE  NestOwners'
  <2>1. inflight' = inflight /\ req' = req
    BY <1>4 DEF NestedCompute, Compute, ComputeReturns, ComputeRaises, Settle, Interrupt,
                Proceed, WaitExpires, WaitRaises, WaitReturns, RecordTimeout,
                RecordRejected, RecordShared
  <2>2. \A d \in Calls : Open(d)' => Open(d)
    BY <1>4
    DEF NestTypes, Open, NestedCompute, Compute, ComputeReturns, ComputeRaises, Settle,
        Interrupt, Proceed, WaitExpires, WaitRaises, WaitReturns, RecordTimeout,
        RecordRejected, RecordShared
  <2> QED
    BY <2>1, <2>2 DEF NestOwners, KeyOf
<1>5. CASE UNCHANGED vars
  BY <1>5 DEF vars, NestOwners, Open, KeyOf
<1> QED
  BY <1>1, <1>2, <1>3, <1>4, <1>5 DEF NestedStep, NestedEnter, Enter, AllDone

\* "Identical work executes once" (tests/test_core.py) survives calls inside
\* calls and a KeyboardInterrupt that strikes before the Future is settled or
\* before the key is removed: the key an interrupted owner leaves behind is
\* never free again (core.py:98-135).
THEOREM SingleFlightSurvives == NestedSpec => []SingleFlight
<1>1. Init => NestOwners
  BY DEF Init, NestOwners, Open
<1>2. NInv /\ NestOwners /\ [(\E c \in Calls : NestedStep(c)) \/ AllDone]_vars
         => NestOwners'
  BY StepNestOwners DEF NInv
<1>3. NestOwners => SingleFlight
  BY DEF NestOwners, SingleFlight, KeyOf
<1> QED
  BY <1>1, <1>2, <1>3, NestingInvariant, PTL DEF NestedSpec
---------------------------------------------------------------------------
\* How far a call is in the order of keys; an owner is further than the calls
\* that wait for it.
Height(c) == 2 * Rank[KeyOf(c)] + IF joined[c] = NoCall THEN 1 ELSE 0

Ascending ==
    \A c \in Calls : Parent[c] # NoCall /\ req[c] # NoRequest
        => Rank[KeyOf(c)] > Rank[KeyOf(Parent[c])]

LEMMA RankOfKey ==
    ASSUME NInv, NEW c \in Calls, Open(c) \/ joined[c] # NoCall
    PROVE  Rank[KeyOf(c)] \in Nat
<1>1. req[c] \in Requests /\ Valid(req[c])
  BY DEF NInv, NestRoles
<1> QED
  BY <1>1, ValidRequest, NestedAssumption DEF Key, KeyOf

\* Whatever a call waits for is further in the order than the call itself.
LEMMA WaitsClimb ==
    ASSUME NInv, Ascending, NEW c \in Calls, NEW d \in WaitsFor(c)
    PROVE  d \in Calls /\ Height(c) \in Nat /\ Height(d) \in Nat /\ Height(c) < Height(d)
<1>1. CASE pc[c] = "wait" /\ d = joined[c]
  <2>1. joined[c] # NoCall
    BY <1>1 DEF NInv, NestRoles, JoinerLabels
  <2>2. d \in Calls /\ joined[d] = NoCall /\ KeyOf(d) = KeyOf(c)
    BY <1>1, <2>1 DEF NInv, NestTypes, NestRoles, Settled
  <2>3. Rank[KeyOf(c)] \in Nat
    BY <2>1, RankOfKey
  <2> QED
    BY <2>1, <2>2, <2>3 DEF Height
<1>2. CASE d \in Inside(c)
  <2>1. d \in Calls /\ Parent[d] = c /\ pc[d] \notin {"idle", "done"}
    BY <1>2 DEF Inside
  <2>2. pc[c] = "compute" /\ Parent[d] # NoCall
    BY <2>1, NamesAssumption DEF NInv, NestOK
  <2>3. joined[c] = NoCall /\ Open(c)
    BY <2>2 DEF NInv, NestRoles, Open
  <2>4. Open(d) \/ joined[d] # NoCall
    BY <2>1 DEF NInv, NestTypes, NestRoles, Labels, Open, JoinerLabels
  <2>5. req[d] # NoRequest
    BY <2>1, <2>4, NoRequestAssumption DEF NInv, NestRoles
  <2>6. Rank[KeyOf(d)] > Rank[KeyOf(c)]
    BY <2>1, <2>2, <2>5 DEF Ascending
  <2>7. Rank[KeyOf(c)] \in Nat /\ Rank[KeyOf(d)] \in Nat
    BY <2>1, <2>3, <2>4, RankOfKey
  <2>8. Height(c) = 2 * Rank[KeyOf(c)] + 1
    BY <2>3 DEF Height
  <2>9. Height(d) \in {2 * Rank[KeyOf(d)], 2 * Rank[KeyOf(d)] + 1}
    BY <2>7 DEF Height
  <2> HIDE DEF Height
  <2> QED
    BY <2>1, <2>6, <2>7, <2>8, <2>9
<1> QED
  BY <1>1, <1>2 DEF WaitsFor

\* A finite set of numbered things has no number without a greater one.
LEMMA NoEndlessClimb ==
    ASSUME NEW S, IsFiniteSet(S), NEW h \in [S -> Nat],
           \A c \in S : \E d \in S : h[c] < h[d]
    PROVE  S = {}
<1> DEFINE above(c) == {d \in S : h[c] < h[d]}
           sizes    == {Cardinality(above(c)) : c \in S}
           less     == OpToRel(<, Nat)
<1> SUFFICES ASSUME S # {} PROVE FALSE
  OBVIOUS
<1>1. \A c \in S : IsFiniteSet(above(c)) /\ Cardinality(above(c)) \in Nat
  BY FS_Subset, FS_CardinalityType
<1>2. ASSUME NEW c \in S
      PROVE  \E d \in S : Cardinality(above(d)) < Cardinality(above(c))
  <2>1. PICK d \in S : h[c] < h[d]
    OBVIOUS
  <2>2. above(d) \subseteq above(c) /\ d \in above(c) /\ d \notin above(d)
    BY <2>1
  <2>3. above(d) \in SUBSET above(c) /\ above(d) # above(c)
    BY <2>2
  <2> HIDE DEF above
  <2>4. /\ Cardinality(above(d)) <= Cardinality(above(c))
        /\ Cardinality(above(d)) # Cardinality(above(c))
    BY <1>1, <2>3, FS_Subset
  <2> QED
    BY <1>1, <2>4
<1> HIDE DEF above
<1>3. sizes \subseteq Nat /\ sizes # {}
  BY <1>1
<1>4. PICK m \in sizes : \A n \in sizes : <<n, m>> \notin less
  <2>1. IsWellFoundedOn(less, Nat)
    BY NatLessThanWellFounded
  <2> HIDE DEF less, sizes
  <2> QED
    BY <1>3, <2>1, WFMin
<1>5. PICK c \in S : m = Cardinality(above(c))
  OBVIOUS
<1>6. PICK d \in S : Cardinality(above(d)) < Cardinality(above(c))
  BY <1>2
<1>7. <<Cardinality(above(d)), Cardinality(above(c))>> \in less
  BY <1>1, <1>6 DEF OpToRel
<1> QED
  BY <1>4, <1>5, <1>7

LEMMA ClimbingFrees ==
    ASSUME IsFiniteSet(Calls), NInv, Ascending, NEW c \in Calls,
           \A d \in Calls : ~Orphaned(d)
    PROVE  ~Stuck(c)
<1> SUFFICES ASSUME NEW S \in SUBSET Calls, c \in S,
                    \A d \in S : WaitsFor(d) # {} /\ WaitsFor(d) \subseteq S
             PROVE  FALSE
  BY DEF Stuck
<1> DEFINE h == [d \in S |-> Height(d)]
<1>1. ASSUME NEW d \in S
      PROVE  Height(d) \in Nat /\ \E e \in S : Height(d) < Height(e)
  <2>1. PICK e \in WaitsFor(d) : e \in S
    OBVIOUS
  <2> QED
    BY <2>1, WaitsClimb
<1>2. h \in [S -> Nat] /\ \A d \in S : \E e \in S : h[d] < h[e]
  BY <1>1
<1>3. IsFiniteSet(S)
  BY FS_Subset
<1> HIDE DEF h
<1> QED
  BY <1>2, <1>3, NoEndlessClimb

\* A caller that nests its calls in ascending order of keys deadlocks with
\* nobody, whatever the order in which calls enter, join, fail and leave: run()
\* holds no lock while it computes or waits (core.py:84-135).
THEOREM AscendingNeverStuckHolds ==
    ASSUME IsFiniteSet(Calls) PROVE NestedSpec => []AscendingNeverStuck
<1>1. ASSUME NInv
      PROVE  AscendingNeverStuck
  <2> SUFFICES ASSUME \A c \in Calls :
                          /\ outcome[c] # Raised("KeyboardInterrupt")
                          /\ Parent[c] # NoCall /\ req[c] # NoRequest
                                 => Rank[KeyOf(c)] > Rank[KeyOf(Parent[c])],
                      NEW c \in Calls
               PROVE  ~Stuck(c)
    BY DEF AscendingNeverStuck
  <2>1. Ascending /\ \A d \in Calls : ~Orphaned(d)
    BY DEF Ascending, Orphaned
  <2> QED
    BY <1>1, <2>1, ClimbingFrees
<1> QED
  BY <1>1, NestingInvariant, PTL
=============================================================================
