-------------------------- MODULE RadialGraphProofs --------------------------
(***************************************************************************)
(* What pipelines share and what they compute, for every set of pipelines, *)
(* jobs and stages.  A lineage is its predecessor, a stage key and a       *)
(* digest, so two equal lineages have equal predecessors: one history,     *)
(* whatever the digests.  One history gives one content: what the stages   *)
(* compute alone, when no transform changes its input.                     *)
(***************************************************************************)
EXTENDS RadialGraph, Induction, SequenceTheorems

\* Equal lineages have one predecessor and one stage, and no lineage of a
\* stage is that of an initial value.
LEMMA LineagesDiffer ==
    ASSUME NEW l, NEW k, NEW d, NEW m, NEW j, NEW e
    PROVE  /\ NextLineage(l, k, d) = NextLineage(m, j, e) => l = m /\ k = j
           /\ NextLineage(l, k, d) # Root(e)
<1>1. NextLineage(l, k, d) = NextLineage(m, j, e) => l = m /\ k = j
  BY DEF NextLineage
<1>2. Len(NextLineage(l, k, d)) = 3 /\ Len(Root(e)) = 1
  BY DEF NextLineage, Root
<1> QED
  BY <1>1, <1>2

LEMMA NodeKeysDiffer ==
    ASSUME NEW l, NEW k, NEW m, NEW j, NodeKey(l, k) = NodeKey(m, j)
    PROVE  l = m /\ k = j
BY DEF NodeKey

\* What Append does to a trace, whose entries have no other type.
IsTrace(t) == \E S : t \in Seq(S)

LEMMA Appended ==
    ASSUME NEW t, IsTrace(t), NEW x
    PROVE  /\ IsTrace(Append(t, x))
           /\ Len(t) \in Nat
           /\ Len(Append(t, x)) = Len(t) + 1
           /\ \A i \in 1 .. Len(t) : Append(t, x)[i] = t[i]
           /\ Append(t, x)[Len(t) + 1] = x
<1>1. PICK S : t \in Seq(S)
  BY DEF IsTrace
<1>2. t \in Seq(S \cup {x})
  BY <1>1, SeqMonotonic
<1> QED
  BY <1>2, AppendProperties, LenProperties DEF IsTrace

\* Pipelines with the same first n stages have the same StagesOf.
LEMMA SameStages ==
    ASSUME NEW p, NEW q, NEW n \in Nat,
           \A i \in 1 .. n : job[p].stages[i] = job[q].stages[i]
    PROVE  StagesOf(p, n) = StagesOf(q, n)
<1> DEFINE s == job[p].stages
           t == job[q].stages
           S == {s[i] : i \in 1 .. n}
<1>1. /\ SubSeq(s, 1, n) \in Seq(S)
      /\ Len(SubSeq(s, 1, n)) = n
      /\ \A i \in 1 .. n : SubSeq(s, 1, n)[i] = s[i]
  <2>1. \A i \in 1 .. n : s[i] \in S
    OBVIOUS
  <2> HIDE DEF S, s
  <2> QED
    BY <2>1, SubSeqProperties
<1>2. /\ SubSeq(t, 1, n) \in Seq(S)
      /\ Len(SubSeq(t, 1, n)) = n
      /\ \A i \in 1 .. n : SubSeq(t, 1, n)[i] = t[i]
  <2>1. \A i \in 1 .. n : t[i] \in S
    OBVIOUS
  <2> HIDE DEF S, t
  <2> QED
    BY <2>1, SubSeqProperties
<1>3. \A i \in 1 .. n : s[i] = t[i]
  OBVIOUS
<1> HIDE DEF s, t, S
<1>4. SubSeq(s, 1, n) = SubSeq(t, 1, n)
  BY <1>1, <1>2, <1>3, SeqEqual
<1> QED
  BY <1>4 DEF StagesOf, s, t
---------------------------------------------------------------------------
\* The lineage after i stages of p.
Lin(p, i) == IF i = 0 THEN Root(<<job[p].initial>>) ELSE trace[p][i].lineage

GraphTypes ==
    /\ job \in [Pipelines -> Jobs]
    /\ trace = [p \in Pipelines |-> trace[p]]
    /\ \A p \in Pipelines : IsTrace(trace[p])
    /\ lineage = [p \in Pipelines |-> lineage[p]]

\* The trace leads from the initial value to the lineage run() holds.
LineageOK ==
    \A p \in Pipelines :
        /\ lineage[p] = Lin(p, Completed(p))
        /\ \A i \in 1 .. Completed(p) : \E d :
              Lin(p, i) = NextLineage(Lin(p, i - 1), job[p].stages[i], d)

\* Any two lineages ever held that are equal have one history.
HistoryOK ==
    \A p, q \in Pipelines :
        \A i \in 0 .. Completed(p), j \in 0 .. Completed(q) :
            Lin(p, i) = Lin(q, j) =>
                /\ i = j
                /\ job[p].initial = job[q].initial
                /\ \A n \in 1 .. i : job[p].stages[n] = job[q].stages[n]

HInv == GraphTypes /\ LineageOK /\ HistoryOK

\* What a step does to lineages: nothing, or pipeline p ends a stage.
Ends(p) == \E v, d, shared : Advance(p, v, d, shared)
LineageStep == \/ UNCHANGED <<lineage, trace>>
               \/ \E p \in Pipelines : Ends(p)

LEMMA AnsweredCases ==
    ASSUME NEW p, Answered(p)
    PROVE  \/ UNCHANGED <<lineage, trace>>
           \/ outcome'[CallOf(p)].kind # "none" /\ Ends(p)
<1>1. CASE outcome'[CallOf(p)].kind = "none"
  BY <1>1 DEF Answered, locals
<1>2. CASE outcome'[CallOf(p)].kind = "raised"
  BY <1>2 DEF Answered
<1>3. CASE outcome'[CallOf(p)].kind \notin {"none", "raised"}
  BY <1>3 DEF Answered, Ends
<1> QED
  BY <1>1, <1>2, <1>3

LEMMA StepCases ==
    ASSUME [GraphNext]_graphVars
    PROVE  job' = job /\ LineageStep
<1>1. ASSUME NEW p \in Pipelines, Step(p)
      PROVE  job' = job /\ (UNCHANGED <<lineage, trace>> \/ Ends(p))
  BY <1>1, AnsweredCases
  DEF Step, FailUnidentified, EnterStage, TransformReturns, TransformRaises,
      StageProceeds, FinishEmpty, locals
<1> QED
  BY <1>1 DEF GraphNext, AllEnded, graphVars, locals, LineageStep
---------------------------------------------------------------------------
LEMMA InitHInv == GraphInit => HInv
<1> SUFFICES ASSUME GraphInit PROVE HInv
  OBVIOUS
<1>1. GraphTypes
  <2>1. << >> \in Seq({})
    BY EmptySeq
  <2> QED
    BY <2>1, GraphAssumption DEF GraphInit, GraphTypes, IsTrace
<1>2. \A p \in Pipelines : Completed(p) = 0 /\ lineage[p] = Lin(p, 0)
  BY EmptySeq DEF GraphInit, Completed, Lin
<1>3. \A p, q \in Pipelines : Lin(p, 0) = Lin(q, 0) => job[p].initial = job[q].initial
  BY DEF Lin, Root
<1> QED
  BY <1>1, <1>2, <1>3 DEF HInv, LineageOK, HistoryOK

\* Pipeline p ends a stage: its lineages so far stay, and one is added.
LEMMA EndsShape ==
    ASSUME HInv, job' = job, NEW p \in Pipelines, Ends(p),
           NEW n, n = Completed(p) + 1
    PROVE  /\ GraphTypes'
           /\ Completed(p) \in Nat
           /\ Completed(p)' = n
           /\ lineage'[p] = Lin(p, n)'
           /\ \E d : Lin(p, n)' = NextLineage(Lin(p, n - 1), job[p].stages[n], d)
           /\ \A i \in 0 .. Completed(p) : Lin(p, i)' = Lin(p, i)
           /\ \A q \in Pipelines \ {p} :
                 /\ Completed(q)' = Completed(q)
                 /\ lineage'[q] = lineage[q]
                 /\ \A i \in 0 .. Completed(q) : Lin(q, i)' = Lin(q, i)
<1>1. PICK v, d, shared : Advance(p, v, d, shared)
  BY DEF Ends
<1> DEFINE l == NextLineage(lineage[p], job[p].stages[n], d)
           e == [stage_key |-> job[p].stages[n], input |-> digest[p],
                 output |-> d, lineage |-> l, shared |-> shared]
<1>2. /\ lineage' = [lineage EXCEPT ![p] = l]
      /\ trace' = [trace EXCEPT ![p] = Append(@, e)]
  BY <1>1 DEF Advance, StageKey, Position, Completed
<1>3. e.lineage = l
  OBVIOUS
<1>4. lineage[p] = Lin(p, n - 1)
  <2>1. Completed(p) \in Nat
    BY Appended DEF HInv, GraphTypes, Completed
  <2> QED
    BY <2>1 DEF HInv, LineageOK
<1> HIDE DEF e
<1>5. trace'[p] = Append(trace[p], e) /\ \A q \in Pipelines \ {p} : trace'[q] = trace[q]
  BY <1>2 DEF HInv, GraphTypes
<1>6. /\ IsTrace(trace'[p])
      /\ Len(trace[p]) \in Nat
      /\ Len(trace'[p]) = Len(trace[p]) + 1
      /\ \A i \in 1 .. Len(trace[p]) : trace'[p][i] = trace[p][i]
      /\ trace'[p][Len(trace[p]) + 1] = e
  BY <1>5, Appended DEF HInv, GraphTypes
<1>7. GraphTypes'
  <2>1. lineage' = [q \in Pipelines |-> lineage'[q]]
    BY <1>2 DEF HInv, GraphTypes
  <2>2. trace' = [q \in Pipelines |-> trace'[q]]
    BY <1>2 DEF HInv, GraphTypes
  <2> QED
    BY <1>5, <1>6, <2>1, <2>2 DEF HInv, GraphTypes
<1>8. lineage'[p] = l /\ \A q \in Pipelines \ {p} : lineage'[q] = lineage[q]
  BY <1>2 DEF HInv, GraphTypes
<1>9. n \in Nat /\ Completed(p) \in Nat /\ Completed(p)' = n
  BY <1>6 DEF Completed
<1>10. Lin(p, n)' = l
  BY <1>3, <1>6, <1>9 DEF Lin, Completed
<1>11. \A i \in 0 .. Completed(p) : Lin(p, i)' = Lin(p, i)
  BY <1>6 DEF Lin, Completed
<1>12. \A q \in Pipelines \ {p} :
          /\ Completed(q)' = Completed(q)
          /\ \A i \in 0 .. Completed(q) : Lin(q, i)' = Lin(q, i)
  BY <1>5 DEF Lin, Completed
<1> QED
  BY <1>4, <1>7, <1>8, <1>9, <1>10, <1>11, <1>12

LEMMA EndsKeepsHInv ==
    ASSUME HInv, job' = job, NEW p \in Pipelines, Ends(p)
    PROVE  HInv'
<1>0. PICK n : n = Completed(p) + 1
  OBVIOUS
<1>1. /\ GraphTypes'
      /\ n \in Nat /\ n - 1 = Completed(p)
      /\ Completed(p)' = n
      /\ lineage'[p] = Lin(p, n)'
      /\ \A q \in Pipelines \ {p} : /\ Completed(q)' = Completed(q)
                                    /\ lineage'[q] = lineage[q]
  BY <1>0, EndsShape
<1>2. PICK d : Lin(p, n)' = NextLineage(Lin(p, n - 1), job[p].stages[n], d)
  BY <1>0, EndsShape
<1>3. \A q \in Pipelines : /\ Completed(q) \in Nat
                           /\ \A i \in 0 .. Completed(q) : Lin(q, i)' = Lin(q, i)
  BY <1>0, EndsShape, Appended DEF HInv, GraphTypes, Completed
<1>4. LineageOK'
  <2>1. ASSUME NEW q \in Pipelines, NEW i \in 1 .. Completed(q)
        PROVE  \E x : Lin(q, i)' = NextLineage(Lin(q, i - 1)', job[q].stages[i], x)
    <3>1. i - 1 \in 0 .. Completed(q) /\ i \in 0 .. Completed(q)
      BY <1>3
    <3> QED
      BY <1>3, <3>1 DEF HInv, LineageOK
  <2>2. n - 1 \in 0 .. Completed(p)
    BY <1>1, <1>3
  <2>3. Lin(p, n)' = NextLineage(Lin(p, n - 1)', job[p].stages[n], d)
    BY <1>2, <1>3, <2>2
  <2>4. ASSUME NEW q \in Pipelines, NEW i \in 1 .. Completed(q)'
        PROVE  i \in 1 .. Completed(q) \/ (q = p /\ i = n)
    BY <1>1, <1>3
  <2>5. ASSUME NEW q \in Pipelines
        PROVE  lineage'[q] = Lin(q, Completed(q))'
    <3>1. CASE q = p
      BY <1>1, <3>1
    <3>2. CASE q # p
      <4>1. Completed(q) \in 0 .. Completed(q)
        BY <1>3
      <4> QED
        BY <1>1, <1>3, <3>2, <4>1 DEF HInv, LineageOK
    <3> QED
      BY <3>1, <3>2
  <2> QED
    BY <2>1, <2>3, <2>4, <2>5 DEF LineageOK
<1>5. HistoryOK'
  \* The new lineage against one that was there.
  <2>1. ASSUME NEW q \in Pipelines, NEW j \in 0 .. Completed(q),
               Lin(p, n)' = Lin(q, j)
        PROVE  /\ n = j
               /\ job[p].initial = job[q].initial
               /\ \A m \in 1 .. n : job[p].stages[m] = job[q].stages[m]
    <3>1. j # 0
      BY <1>2, <2>1, LineagesDiffer DEF Lin
    <3>2. j \in 1 .. Completed(q) /\ j - 1 \in 0 .. Completed(q)
      BY <1>3, <3>1
    <3>3. PICK x : Lin(q, j) = NextLineage(Lin(q, j - 1), job[q].stages[j], x)
      BY <3>2 DEF HInv, LineageOK
    <3>4. Lin(p, n - 1) = Lin(q, j - 1) /\ job[p].stages[n] = job[q].stages[j]
      BY <1>2, <2>1, <3>3, LineagesDiffer
    <3>5. n - 1 \in 0 .. Completed(p)
      BY <1>1, <1>3
    <3>6. /\ n - 1 = j - 1
          /\ job[p].initial = job[q].initial
          /\ \A m \in 1 .. n - 1 : job[p].stages[m] = job[q].stages[m]
      BY <3>2, <3>4, <3>5 DEF HInv, HistoryOK
    <3>7. n = j
      BY <1>1, <3>6
    <3> QED
      BY <1>1, <3>4, <3>6, <3>7
  <2>2. ASSUME NEW q \in Pipelines, NEW i \in 0 .. Completed(q)'
        PROVE  i \in 0 .. Completed(q) \/ (q = p /\ i = n)
    BY <1>1, <1>3
  <2>3. ASSUME NEW q \in Pipelines, NEW r \in Pipelines,
               NEW i \in 0 .. Completed(q)', NEW j \in 0 .. Completed(r)',
               Lin(q, i)' = Lin(r, j)'
        PROVE  /\ i = j
               /\ job[q].initial = job[r].initial
               /\ \A m \in 1 .. i : job[q].stages[m] = job[r].stages[m]
    <3>1. CASE i \in 0 .. Completed(q) /\ j \in 0 .. Completed(r)
      BY <1>3, <2>3, <3>1 DEF HInv, HistoryOK
    <3>2. CASE q = p /\ i = n /\ j \in 0 .. Completed(r)
      BY <1>3, <2>1, <2>3, <3>2
    <3>3. CASE r = p /\ j = n /\ i \in 0 .. Completed(q)
      <4>1. Lin(p, n)' = Lin(q, i)
        BY <1>3, <2>3, <3>3
      <4> QED
        BY <2>1, <3>3, <4>1
    <3>4. CASE q = p /\ r = p /\ i = n /\ j = n
      BY <3>4
    <3> QED
      BY <2>2, <2>3, <3>1, <3>2, <3>3, <3>4
  <2> QED
    BY <2>3 DEF HistoryOK
<1> QED
  BY <1>1, <1>4, <1>5 DEF HInv

LEMMA StepHInv == HInv /\ [GraphNext]_graphVars => HInv'
<1> SUFFICES ASSUME HInv, [GraphNext]_graphVars PROVE HInv'
  OBVIOUS
<1>1. job' = job
  BY StepCases
<1>2. CASE UNCHANGED <<lineage, trace>>
  BY <1>1, <1>2 DEF HInv, GraphTypes, LineageOK, HistoryOK, Lin, Completed
<1>3. ASSUME NEW p \in Pipelines, Ends(p)
      PROVE  HInv'
  BY <1>1, <1>3, EndsKeepsHInv
<1> QED
  BY <1>2, <1>3, StepCases DEF LineageStep

\* Equal lineages, met at any time by any pipelines, have equal pasts.
THEOREM HistoryInvariant == GraphSpec => []HInv
BY InitHInv, StepHInv, PTL DEF GraphSpec

\* Gate G4, sticky fracture: pipelines that diverged never have equal lineages
\* again, whatever values they come to and whoever computed them.
THEOREM LineageTellsHistoryHolds == GraphSpec => []LineageTellsHistory
<1>1. ASSUME HInv, NEW p \in Pipelines, NEW q \in Pipelines, lineage[p] = lineage[q]
      PROVE  /\ job[p].initial = job[q].initial
             /\ StagesOf(p, Completed(p)) = StagesOf(q, Completed(q))
  <2>1. /\ lineage[p] = Lin(p, Completed(p))
        /\ lineage[q] = Lin(q, Completed(q))
        /\ Completed(p) \in 0 .. Completed(p) /\ Completed(q) \in 0 .. Completed(q)
        /\ Completed(p) \in Nat
    BY <1>1, Appended DEF HInv, LineageOK, GraphTypes, Completed
  <2>2. PICK i \in 0 .. Completed(p), j \in 0 .. Completed(q) :
            i = Completed(p) /\ j = Completed(q)
    BY <2>1
  <2>3. Lin(p, i) = Lin(q, j)
    BY <1>1, <2>1, <2>2
  <2>4. /\ i = j
        /\ job[p].initial = job[q].initial
        /\ \A n \in 1 .. i : job[p].stages[n] = job[q].stages[n]
    BY <1>1, <2>3 DEF HInv, HistoryOK
  <2> QED
    BY <2>1, <2>2, <2>4, SameStages
<1>2. HInv => LineageTellsHistory
  BY <1>1 DEF LineageTellsHistory
<1> QED
  BY <1>2, HistoryInvariant, PTL
---------------------------------------------------------------------------
\* A call inside run() is that of the stage its pipeline has reached, and the
\* table maps the keys of open calls to those calls.
CallTypes ==
    /\ pc \in [Calls -> Labels]
    /\ req = [c \in Calls |-> req[c]]
    /\ joined \in [Calls -> Calls \cup {NoCall}]
    /\ outcome = [c \in Calls |-> outcome[c]]

Inside(c) == pc[c] \notin {"idle", "done"}

CallsOK ==
    \A p \in Pipelines, i \in 1 .. MaxStages :
        Inside(<<p, i>>) => i = Position(p) /\ req[<<p, i>>] = NodeRequest(p)

\* run() of the executor has an answer only when it is left.
AnswersLast == \A c \in Calls : pc[c] # "done" => outcome[c] = NotYet

TableOK ==
    \A k \in DOMAIN inflight :
        inflight[k] \in Calls /\ Open(inflight[k]) /\ Key(req[inflight[k]]) = k

SInv == HInv /\ CallTypes /\ CallsOK /\ AnswersLast /\ TableOK /\ PrefixOnlySharing

LEMMA InitSInv == GraphInit => SInv
<1> SUFFICES ASSUME GraphInit PROVE SInv
  OBVIOUS
<1>1. CallTypes /\ CallsOK /\ AnswersLast /\ TableOK
  BY GraphAssumption
  DEF GraphInit, Init, CallTypes, CallsOK, Inside, AnswersLast, TableOK, Labels
<1>2. PrefixOnlySharing
  BY DEF GraphInit, Init, PrefixOnlySharing
<1> QED
  BY <1>1, <1>2, InitHInv DEF SInv

LEMMA ReachedCall ==
    ASSUME HInv, NEW p \in Pipelines, InStage(p)
    PROVE  CallOf(p) \in Calls /\ Position(p) \in 1 .. MaxStages
<1>1. Position(p) \in Nat \ {0}
  BY Appended DEF HInv, GraphTypes, Position
<1>2. Position(p) <= Len(job[p].stages) /\ Len(job[p].stages) <= MaxStages
  BY GraphAssumption DEF HInv, GraphTypes, InStage
<1>3. Len(job[p].stages) \in Nat
  BY GraphAssumption, LenProperties DEF HInv, GraphTypes
<1> QED
  BY <1>1, <1>2, <1>3, GraphAssumption DEF CallOf

\* A step of the call c that p has reached, and what p does with its answer.
CallStep(p, c) ==
    /\ c = CallOf(p)
    /\ \E l, o : /\ l \in Labels \ {"idle"}
                 /\ pc' = [pc EXCEPT ![c] = l]
                 /\ outcome' = [outcome EXCEPT ![c] = o]
                 /\ l # "done" => o = NotYet
    /\ \/ UNCHANGED <<lineage, trace>>
       \/ outcome'[c].kind # "none" /\ Ends(p)

\* What such a step keeps, given what it does to the other tables.
LEMMA CallStepKeeps ==
    ASSUME SInv, HInv', job' = job, NEW p \in Pipelines, NEW c \in Calls, CallStep(p, c),
           \/ req' = req /\ Inside(c)
           \/ pc'[c] = "done" /\ req' = req
           \/ req' = [req EXCEPT ![c] = NodeRequest(p)],
           joined' \in [Calls -> Calls \cup {NoCall}]
    PROVE  CallTypes' /\ CallsOK' /\ AnswersLast'
<1>1. PICK l, o :
          /\ l \in Labels \ {"idle"}
          /\ pc' = [pc EXCEPT ![c] = l]
          /\ outcome' = [outcome EXCEPT ![c] = o]
          /\ l # "done" => o = NotYet
  BY DEF CallStep
<1>2. CallTypes'
  BY <1>1 DEF SInv, CallTypes
<1>3. AnswersLast'
  BY <1>1 DEF SInv, CallTypes, AnswersLast
<1>4. ASSUME NEW q \in Pipelines, NEW i \in 1 .. MaxStages, Inside(<<q, i>>)',
             <<q, i>> # c
      PROVE  i = Position(q)' /\ req'[<<q, i>>] = NodeRequest(q)'
  <2>1. <<q, i>> \in Calls
    BY GraphAssumption
  <2>2. Inside(<<q, i>>) /\ req'[<<q, i>>] = req[<<q, i>>]
    BY <1>1, <1>4, <2>1 DEF SInv, CallTypes, Inside
  <2>3. i = Position(q) /\ req[<<q, i>>] = NodeRequest(q)
    BY <2>2 DEF SInv, CallsOK
  <2>4. q # p
    BY <1>4, <2>3 DEF CallStep, CallOf
  <2>5. trace'[q] = trace[q] /\ lineage'[q] = lineage[q]
    BY <2>4 DEF CallStep, Ends, Advance, SInv, HInv, GraphTypes
  <2> QED
    BY <2>2, <2>3, <2>5 DEF NodeRequest, Position, StageKey
<1>5. ASSUME Inside(c)'
      PROVE  UNCHANGED <<lineage, trace>>
  <2>1. outcome'[c] = NotYet
    BY <1>1, <1>5 DEF SInv, CallTypes, Inside
  <2> QED
    BY <2>1 DEF CallStep, NotYet
<1>6. ASSUME Inside(c)'
      PROVE  c = <<p, Position(p)'>> /\ req'[c] = NodeRequest(p)'
  <2>1. NodeRequest(p)' = NodeRequest(p) /\ Position(p)' = Position(p)
    BY <1>5, <1>6 DEF NodeRequest, Position, StageKey
  <2>2. c = <<p, Position(p)>>
    BY DEF CallStep, CallOf
  <2>3. req'[c] = NodeRequest(p)
    <3>1. CASE req' = [req EXCEPT ![c] = NodeRequest(p)]
      BY <3>1 DEF SInv, CallTypes
    <3>2. CASE req' = req /\ Inside(c)
      <4>1. PICK i \in 1 .. MaxStages : c = <<p, i>>
        BY <2>2, GraphAssumption
      <4> QED
        BY <3>2, <4>1 DEF SInv, CallsOK
    <3>3. CASE pc'[c] = "done"
      BY <1>6, <3>3 DEF Inside
    <3> QED
      BY <3>1, <3>2, <3>3
  <2> QED
    BY <2>1, <2>2, <2>3
<1>7. CallsOK'
  <2>1. ASSUME NEW q \in Pipelines, NEW i \in 1 .. MaxStages, Inside(<<q, i>>)',
               <<q, i>> = c
        PROVE  i = Position(q)' /\ req'[<<q, i>>] = NodeRequest(q)'
    BY <1>6, <2>1
  <2> QED
    BY <1>4, <2>1 DEF CallsOK
<1> QED
  BY <1>2, <1>3, <1>7

\* The table when no open call leaves run().
LEMMA QuietTable ==
    ASSUME SInv, NEW c \in Calls, NEW l, pc' = [pc EXCEPT ![c] = l],
           inflight' = inflight,
           Open(c) => l \in {"compute", "cleanup"} /\ req' = req,
           req' = req \/ \E r : req' = [req EXCEPT ![c] = r]
    PROVE  TableOK'
<1>1. ASSUME NEW d \in Calls, Open(d)
      PROVE  Open(d)' /\ req'[d] = req[d]
  BY <1>1 DEF SInv, CallTypes, Open
<1> QED
  BY <1>1 DEF SInv, TableOK

LEMMA OwnTable ==
    ASSUME SInv, NEW c \in Calls, NEW r, Own(c, r)
    PROVE  TableOK'
<1>1. /\ pc[c] = "idle"
      /\ pc' = [pc EXCEPT ![c] = "compute"]
      /\ req' = [req EXCEPT ![c] = r]
      /\ inflight' = [k \in DOMAIN inflight \cup {Key(r)} |->
                         IF k = Key(r) THEN c ELSE inflight[k]]
  BY DEF Own, Goto
<1>2. ASSUME NEW d \in Calls, Open(d)
      PROVE  Open(d)' /\ req'[d] = req[d]
  BY <1>1, <1>2 DEF SInv, CallTypes, Open
<1>3. Open(c)' /\ req'[c] = r
  BY <1>1 DEF SInv, CallTypes, Open
<1>4. ASSUME NEW k \in DOMAIN inflight'
      PROVE  \/ k = Key(r) /\ inflight'[k] = c
             \/ k \in DOMAIN inflight /\ inflight'[k] = inflight[k]
  BY <1>1
<1> QED
  BY <1>2, <1>3, <1>4 DEF SInv, TableOK, Key

LEMMA CleanupTable ==
    ASSUME SInv, NEW c \in Calls, Cleanup(c)
    PROVE  TableOK'
<1>1. /\ pc' = [pc EXCEPT ![c] = "done"]
      /\ inflight' = Without(Key(req[c]))
      /\ req' = req
  BY DEF Cleanup, Return
<1>2. ASSUME NEW d \in Calls \ {c}, Open(d)
      PROVE  Open(d)'
  BY <1>1, <1>2 DEF SInv, CallTypes, Open
<1>3. ASSUME NEW k \in DOMAIN inflight'
      PROVE  k \in DOMAIN inflight /\ inflight'[k] = inflight[k] /\ inflight[k] # c
  BY <1>1 DEF Without, SInv, TableOK
<1> QED
  BY <1>1, <1>2, <1>3 DEF SInv, TableOK

\* A joiner has the history of its owner.
LEMMA JoinShares ==
    ASSUME SInv, job' = job, NEW p \in Pipelines, InStage(p),
           Join(CallOf(p), NodeRequest(p))
    PROVE  PrefixOnlySharing'
<1> DEFINE c == CallOf(p)
           r == NodeRequest(p)
           o == inflight[Key(r)]
<1>1. joined' = [joined EXCEPT ![c] = o] /\ Key(r) \in DOMAIN inflight
  BY DEF Join, InFlight
<1>2. o \in Calls /\ Open(o) /\ Key(req[o]) = Key(r)
  BY <1>1 DEF SInv, TableOK
<1>3. PICK q \in Pipelines, i \in 1 .. MaxStages : o = <<q, i>>
  BY <1>2, GraphAssumption
<1>4. i = Position(q) /\ req[o] = NodeRequest(q)
  BY <1>2, <1>3 DEF SInv, CallsOK, Inside, Open
<1>5. /\ job[p].authority = job[q].authority
      /\ NodeKey(lineage[p], StageKey(p)) = NodeKey(lineage[q], StageKey(q))
  <2>1. <<NodeRequest(q).authority, NodeRequest(q).work>>
           = <<NodeRequest(p).authority, NodeRequest(p).work>>
    BY <1>2, <1>4 DEF Key
  <2> QED
    BY <2>1 DEF NodeRequest
<1>6. lineage[p] = lineage[q] /\ StageKey(p) = StageKey(q)
  BY <1>5, NodeKeysDiffer
<1>7. PICK m \in 0 .. Completed(p), n \in 0 .. Completed(q) :
          m = Completed(p) /\ n = Completed(q)
  BY Appended DEF SInv, HInv, GraphTypes, Completed
<1>8. Lin(p, m) = Lin(q, n)
  BY <1>6, <1>7 DEF SInv, HInv, LineageOK
<1>9. /\ m = n
      /\ job[p].initial = job[q].initial
      /\ \A x \in 1 .. m : job[p].stages[x] = job[q].stages[x]
  BY <1>8 DEF SInv, HInv, HistoryOK
<1>10. Position(p) = m + 1 /\ Position(q) = m + 1 /\ m \in Nat
  BY <1>7, <1>9, Appended DEF SInv, HInv, GraphTypes, Completed, Position
<1>11. job[p].stages[m + 1] = job[q].stages[m + 1]
  BY <1>6, <1>10 DEF StageKey
<1>12. StagesOf(p, m + 1) = StagesOf(q, m + 1)
  <2>1. \A x \in 1 .. m + 1 : job[p].stages[x] = job[q].stages[x]
    BY <1>9, <1>10, <1>11
  <2> QED
    BY <1>10, <2>1, SameStages
<1>13. c \in Calls /\ c = <<p, m + 1>> /\ o = <<q, m + 1>>
  BY <1>3, <1>4, <1>10, ReachedCall DEF SInv, CallOf
<1>14. c[1] = p /\ c[2] = m + 1 /\ o[1] = q /\ o[2] = m + 1
  BY <1>13
<1> HIDE DEF c, o, r
<1>15. joined'[c] = o /\ \A d \in Calls \ {c} : joined'[d] = joined[d]
  BY <1>1, <1>13 DEF SInv, CallTypes
<1>16. /\ joined'[c][2] = c[2]
       /\ job[c[1]].authority = job[joined'[c][1]].authority
       /\ job[c[1]].initial = job[joined'[c][1]].initial
       /\ StagesOf(c[1], c[2]) = StagesOf(joined'[c][1], c[2])
  BY <1>5, <1>9, <1>12, <1>14, <1>15
<1>17. \A a, n1 : StagesOf(a, n1)' = StagesOf(a, n1)
  BY DEF StagesOf
<1>18. ASSUME NEW d \in Calls, joined'[d] # NoCall
       PROVE  /\ joined'[d][2] = d[2]
              /\ job'[d[1]].authority = job'[joined'[d][1]].authority
              /\ job'[d[1]].initial = job'[joined'[d][1]].initial
              /\ StagesOf(d[1], d[2]) = StagesOf(joined'[d][1], d[2])
  <2>1. CASE d = c
    BY <1>16, <2>1
  <2>2. CASE d # c
    BY <1>15, <1>18, <2>2 DEF SInv, PrefixOnlySharing
  <2> QED
    BY <2>1, <2>2
<1> QED
  BY <1>17, <1>18 DEF PrefixOnlySharing

LEMMA SharingStays ==
    ASSUME SInv, job' = job, joined' = joined
    PROVE  PrefixOnlySharing'
BY DEF SInv, PrefixOnlySharing, StagesOf
---------------------------------------------------------------------------
LEMMA EnterSInv ==
    ASSUME SInv, HInv', job' = job, NEW p \in Pipelines, EnterStage(p)
    PROVE  SInv'
<1> DEFINE c == CallOf(p)
           r == NodeRequest(p)
<1>1. InStage(p) /\ c \in Calls
  BY ReachedCall DEF EnterStage, SInv
<1>2. \/ UNCHANGED <<lineage, trace>>
      \/ outcome'[c].kind # "none" /\ Ends(p)
  BY AnsweredCases DEF EnterStage
<1>3. CASE Refuse(c, r)
  <2>1. /\ pc[c] = "idle"
        /\ pc' = [pc EXCEPT ![c] = "done"]
        /\ outcome' = [outcome EXCEPT ![c] = Raised("InvalidRequest")]
        /\ UNCHANGED <<req, joined, inflight>>
    BY <1>3 DEF Refuse, Return
  <2> HIDE DEF r
  <2>2. CallStep(p, c)
    BY <1>2, <2>1 DEF CallStep, Labels
  <2>3. pc'[c] = "done"
    BY <1>1, <2>1 DEF SInv, CallTypes
  <2>4. CallTypes' /\ CallsOK' /\ AnswersLast'
    BY <1>1, <2>1, <2>2, <2>3, CallStepKeeps DEF SInv, CallTypes
  <2>5. TableOK'
    BY <1>1, <2>1, QuietTable DEF Open
  <2> QED
    BY <2>1, <2>4, <2>5, SharingStays DEF SInv
<1>4. CASE Join(c, r)
  <2>1. /\ pc[c] = "idle"
        /\ pc' = [pc EXCEPT ![c] = "wait"]
        /\ outcome' = outcome
        /\ req' = [req EXCEPT ![c] = r]
        /\ joined' = [joined EXCEPT ![c] = inflight[Key(r)]]
        /\ inflight[Key(r)] \in Calls
        /\ inflight' = inflight
    BY <1>4 DEF Join, Goto, InFlight, SInv, TableOK
  <2>2. PrefixOnlySharing'
    BY <1>1, <1>4, JoinShares
  <2>3. outcome' = [outcome EXCEPT ![c] = NotYet]
    BY <1>1, <2>1 DEF SInv, CallTypes, AnswersLast
  <2>4. CallStep(p, c)
    BY <1>2, <2>1, <2>3 DEF CallStep, Labels
  <2>5. joined' \in [Calls -> Calls \cup {NoCall}]
    BY <1>1, <2>1 DEF SInv, CallTypes
  <2>6. CallTypes' /\ CallsOK' /\ AnswersLast'
    BY <1>1, <2>1, <2>4, <2>5, CallStepKeeps
  <2>7. TableOK'
    BY <1>1, <2>1, QuietTable DEF Open
  <2> QED
    BY <2>2, <2>6, <2>7 DEF SInv
<1>5. CASE Own(c, r)
  <2>1. /\ pc[c] = "idle"
        /\ pc' = [pc EXCEPT ![c] = "compute"]
        /\ outcome' = outcome
        /\ req' = [req EXCEPT ![c] = r]
        /\ joined' = joined
    BY <1>5 DEF Own, Goto
  <2>2. TableOK'
    BY <1>1, <1>5, OwnTable
  <2>3. outcome' = [outcome EXCEPT ![c] = NotYet]
    BY <1>1, <2>1 DEF SInv, CallTypes, AnswersLast
  <2>4. CallStep(p, c)
    BY <1>2, <2>1, <2>3 DEF CallStep, Labels
  <2>5. CallTypes' /\ CallsOK' /\ AnswersLast'
    BY <1>1, <2>1, <2>4, CallStepKeeps DEF SInv, CallTypes
  <2> QED
    BY <2>1, <2>2, <2>5, SharingStays DEF SInv
<1> QED
  BY <1>3, <1>4, <1>5 DEF EnterStage

\* A step of a call that has entered, and that leaves the table alone unless it
\* is the owner's finally block.
LEMMA InsideSInv ==
    ASSUME SInv, HInv', job' = job, NEW p \in Pipelines, NEW c \in Calls,
           CallStep(p, c), Inside(c),
           UNCHANGED <<req, joined>>,
           TableOK'
    PROVE  SInv'
<1>1. CallTypes' /\ CallsOK' /\ AnswersLast'
  BY CallStepKeeps DEF SInv, CallTypes
<1> QED
  BY <1>1, SharingStays DEF SInv

LEMMA SettleSInv ==
    ASSUME SInv, HInv', job' = job, NEW p \in Pipelines, InStage(p), NEW f,
           Settle(CallOf(p), f), UNCHANGED <<lineage, trace>>
    PROVE  SInv'
<1> DEFINE c == CallOf(p)
<1>1. c \in Calls
  BY ReachedCall DEF SInv
<1>2. /\ pc[c] = "compute"
      /\ pc' = [pc EXCEPT ![c] = "cleanup"]
      /\ outcome' = outcome
      /\ UNCHANGED <<req, joined, inflight>>
  BY DEF Settle, Goto
<1>3. outcome' = [outcome EXCEPT ![c] = NotYet]
  BY <1>1, <1>2 DEF SInv, CallTypes, AnswersLast
<1>4. CallStep(p, c)
  BY <1>2, <1>3 DEF CallStep, Labels
<1>5. TableOK'
  BY <1>1, <1>2, QuietTable
<1> QED
  BY <1>1, <1>2, <1>4, <1>5, InsideSInv DEF Inside

\* A joiner goes on or answers.
LEMMA JoinerStep ==
    ASSUME SInv, NEW c \in Calls,
           \/ WaitExpires(c) \/ WaitRaises(c) \/ WaitReturns(c)
           \/ RecordTimeout(c) \/ RecordRejected(c) \/ RecordShared(c)
    PROVE  /\ Inside(c) /\ ~Open(c)
           /\ UNCHANGED <<req, joined, inflight>>
           /\ \E l, o : /\ l \in Labels \ {"idle"}
                        /\ pc' = [pc EXCEPT ![c] = l]
                        /\ outcome' = [outcome EXCEPT ![c] = o]
                        /\ l # "done" => o = NotYet
<1>1. /\ pc[c] \in {"wait", "timedOut", "rejected", "accepted"}
      /\ UNCHANGED <<req, joined, inflight>>
  BY DEF WaitExpires, WaitRaises, WaitReturns, RecordTimeout, RecordRejected,
         RecordShared
<1>2. ASSUME NEW l \in Labels \ {"idle"}, Goto(c, l)
      PROVE  \E o : /\ pc' = [pc EXCEPT ![c] = l]
                    /\ outcome' = [outcome EXCEPT ![c] = o]
                    /\ l # "done" => o = NotYet
  <2>1. outcome' = [outcome EXCEPT ![c] = NotYet]
    BY <1>1, <1>2 DEF Goto, SInv, CallTypes, AnswersLast
  <2> QED
    BY <1>2, <2>1 DEF Goto
<1>3. \/ \E l \in Labels \ {"idle"} : Goto(c, l)
      \/ \E o : Return(c, o)
  BY DEF WaitExpires, WaitRaises, WaitReturns, RecordTimeout, RecordRejected,
         RecordShared, Labels
<1>4. "done" \in Labels \ {"idle"}
  BY DEF Labels
<1> QED
  BY <1>1, <1>2, <1>3, <1>4 DEF Inside, Open, Return

LEMMA ProceedSInv ==
    ASSUME SInv, HInv', job' = job, NEW p \in Pipelines, StageProceeds(p)
    PROVE  SInv'
<1> DEFINE c == CallOf(p)
<1>1. InStage(p) /\ c \in Calls /\ Proceed(c)
  BY ReachedCall DEF StageProceeds, SInv
<1>2. \/ UNCHANGED <<lineage, trace>>
      \/ outcome'[c].kind # "none" /\ Ends(p)
  BY AnsweredCases DEF StageProceeds
<1>3. CASE Cleanup(c)
  <2>1. /\ pc[c] = "cleanup"
        /\ pc' = [pc EXCEPT ![c] = "done"]
        /\ \E o : outcome' = [outcome EXCEPT ![c] = o]
        /\ UNCHANGED <<req, joined>>
    BY <1>3 DEF Cleanup, Return
  <2>2. TableOK'
    BY <1>1, <1>3, CleanupTable
  <2>3. CallStep(p, c)
    BY <1>2, <2>1 DEF CallStep, Labels
  <2> QED
    BY <1>1, <2>1, <2>2, <2>3, InsideSInv DEF Inside
<1>4. CASE ~Cleanup(c)
  <2>1. \/ WaitExpires(c) \/ WaitRaises(c) \/ WaitReturns(c)
        \/ RecordTimeout(c) \/ RecordRejected(c) \/ RecordShared(c)
    BY <1>1, <1>4 DEF Proceed
  <2> HIDE DEF c
  <2>2. /\ Inside(c) /\ ~Open(c)
        /\ UNCHANGED <<req, joined, inflight>>
        /\ \E l, o : /\ l \in Labels \ {"idle"}
                     /\ pc' = [pc EXCEPT ![c] = l]
                     /\ outcome' = [outcome EXCEPT ![c] = o]
                     /\ l # "done" => o = NotYet
    BY <1>1, <2>1, JoinerStep
  <2>3. CallStep(p, c)
    BY <1>2, <2>2 DEF CallStep, c
  <2>4. TableOK'
    BY <1>1, <2>2, QuietTable
  <2> QED
    BY <1>1, <2>2, <2>3, <2>4, InsideSInv
<1> QED
  BY <1>3, <1>4

LEMMA StepSInv == SInv /\ [GraphNext]_graphVars => SInv'
<1> SUFFICES ASSUME SInv, [GraphNext]_graphVars PROVE SInv'
  OBVIOUS
<1>1. job' = job /\ HInv'
  BY StepCases, StepHInv DEF SInv
<1>2. ASSUME UNCHANGED <<vars, lineage, trace>>
      PROVE  SInv'
  <2>1. UNCHANGED <<pc, req, joined, outcome, inflight, job, lineage, trace>>
    BY <1>1, <1>2 DEF vars
  <2>2. CallTypes' /\ AnswersLast' /\ TableOK'
    BY <2>1 DEF SInv, CallTypes, AnswersLast, TableOK, Open
  <2>3. \A p \in Pipelines : Position(p)' = Position(p) /\ NodeRequest(p)' = NodeRequest(p)
    BY <2>1 DEF NodeRequest, Position, StageKey
  <2>4. CallsOK'
    BY <2>1, <2>3 DEF SInv, CallsOK, Inside
  <2> QED
    BY <1>1, <2>1, <2>2, <2>4, SharingStays DEF SInv
<1>3. ASSUME NEW p \in Pipelines, TransformReturns(p) \/ TransformRaises(p)
      PROVE  SInv'
  <2>1. /\ InStage(p)
        /\ UNCHANGED <<lineage, trace>>
        /\ \E f : Settle(CallOf(p), f)
    BY <1>3 DEF TransformReturns, TransformRaises, ComputeReturns, ComputeRaises, locals
  <2> QED
    BY <1>1, <2>1, SettleSInv
<1>4. ASSUME NEW p \in Pipelines, Step(p)
      PROVE  SInv'
  <2>1. CASE FailUnidentified(p) \/ FinishEmpty(p)
    BY <1>2, <2>1 DEF FailUnidentified, FinishEmpty
  <2> QED
    BY <1>1, <1>3, <1>4, <2>1, EnterSInv, ProceedSInv DEF Step
<1> QED
  BY <1>2, <1>4 DEF GraphNext, AllEnded, graphVars, locals

\* The key of each call tells the lineage of its pipeline at that stage.
THEOREM SharingInvariant == GraphSpec => []SInv
BY InitSInv, StepSInv, PTL DEF GraphSpec

\* Gates G3 and G4: whatever pipelines are run together, a stage joins only the
\* same stage of a pipeline with the same authority, initial value and prefix.
THEOREM PrefixOnlySharingHolds == GraphSpec => []PrefixOnlySharing
BY SharingInvariant, PTL DEF SInv
---------------------------------------------------------------------------
\* The content a pipeline's stages give, stage by stage.
LEMMA ContentSteps ==
    ASSUME NEW x, NEW s
    PROVE  /\ ContentAfter(0, x, s) = <<x>>
           /\ \A i \in Nat : ContentAfter(i + 1, x, s) = Apply(s[i + 1], ContentAfter(i, x, s))
<1> DEFINE K == {x, "constant"} \cup {s[i] : i \in Nat}
           F == [a \in Nat \X Seq(K) |-> Apply(s[a[1] + 1], a[2])]
           IsContent(f) == f = [i \in Nat |-> IF i = 0 THEN <<x>> ELSE Apply(s[i], f[i - 1])]
           content == CHOOSE f : IsContent(f)
<1>1. <<x>> \in Seq(K)
  BY SMT
<1>2. F \in [Nat \X Seq(K) -> Seq(K)]
  <2>1. ASSUME NEW i \in Nat, NEW t \in Seq(K)
        PROVE  Apply(s[i + 1], t) \in Seq(K)
    <3>1. s[i + 1] \in K /\ "constant" \in K
      OBVIOUS
    <3> HIDE DEF K
    <3>2. Append(t, s[i + 1]) \in Seq(K) /\ <<"constant">> \in Seq(K)
      BY <3>1
    <3> QED
      BY <3>2 DEF Apply
  <2> HIDE DEF K
  <2> QED
    BY <2>1
<1>3. PICK f \in [Nat -> Seq(K)] : Runs(f, <<x>>, F)
  <2> HIDE DEF K, F
  <2> QED
    BY <1>1, <1>2, Recursion
<1>4. IsContent(f)
  <2>1. \A i \in Nat : f[i + 1] = Apply(s[i + 1], f[i])
    <3>1. \A i \in Nat : f[i] \in Seq(K) /\ f[i + 1] = F[<<i, f[i]>>]
      BY <1>3 DEF Runs
    <3> HIDE DEF K
    <3> QED
      BY <3>1
  <2>2. ASSUME NEW i \in Nat
        PROVE  f[i] = IF i = 0 THEN <<x>> ELSE Apply(s[i], f[i - 1])
    <3>1. CASE i = 0
      BY <1>3, <3>1 DEF Runs
    <3>2. CASE i # 0
      <4>1. i - 1 \in Nat /\ (i - 1) + 1 = i
        BY <3>2
      <4> QED
        BY <2>1, <3>2, <4>1
    <3> QED
      BY <3>1, <3>2
  <2> HIDE DEF K, F
  <2> QED
    BY <1>3, <2>2
<1>5. IsContent(content)
  <2> HIDE DEF IsContent
  <2> QED
    BY <1>4
<1>6. \A n : ContentAfter(n, x, s) = content[n]
  BY DEF ContentAfter
<1> HIDE DEF content
<1>7. content[0] = <<x>> /\ \A i \in Nat : content[i + 1] = Apply(s[i + 1], content[i])
  BY <1>5
<1> QED
  BY <1>6, <1>7

\* Stages that agree give one content.
LEMMA SameContent ==
    ASSUME NEW x, NEW s, NEW t, NEW n \in Nat, \A i \in 1 .. n : s[i] = t[i]
    PROVE  ContentAfter(n, x, s) = ContentAfter(n, x, t)
<1> DEFINE same == {i \in Nat : i <= n => ContentAfter(i, x, s) = ContentAfter(i, x, t)}
<1>1. 0 \in same
  BY ContentSteps
<1>2. ASSUME NEW i \in Nat, i \in same
      PROVE  i + 1 \in same
  <2>1. CASE i + 1 <= n
    <3>1. i <= n /\ i + 1 \in 1 .. n
      BY <2>1
    <3>2. ContentAfter(i, x, s) = ContentAfter(i, x, t) /\ s[i + 1] = t[i + 1]
      BY <1>2, <3>1
    <3>3. ContentAfter(i + 1, x, s) = Apply(s[i + 1], ContentAfter(i, x, s))
      BY ContentSteps
    <3>4. ContentAfter(i + 1, x, t) = Apply(t[i + 1], ContentAfter(i, x, t))
      BY ContentSteps
    <3> QED
      BY <3>2, <3>3, <3>4
  <2> QED
    BY <2>1
<1>3. Nat \subseteq same
  <2> HIDE DEF same
  <2> QED
    BY <1>1, <1>2, SetInduction
<1> QED
  BY <1>3
---------------------------------------------------------------------------
\* What the Future of a call is, by where the call is.
RolesOK ==
    /\ future = [c \in Calls |-> future[c]]
    /\ \A c \in Calls :
          /\ pc[c] \in {"idle", "compute"} => future[c].state = "pending"
          /\ pc[c] = "idle" \/ Open(c) => joined[c] = NoCall
          /\ pc[c] \notin {"idle", "done"} /\ ~Open(c) => joined[c] # NoCall
          /\ pc[c] = "accepted" => future[joined[c]].state = "result"
          /\ future[c].state = "result" => future[c].payload \in Values

TInv == SInv /\ RolesOK /\ GraphTypeOK

\* A Future settled with a result is never settled again.
ResultsStay == \A c \in Calls : future[c].state = "result" => future'[c] = future[c]

LEMMA EnterRoles ==
    ASSUME SInv, RolesOK, NEW p \in Pipelines, EnterStage(p)
    PROVE  RolesOK' /\ ResultsStay
<1> DEFINE c == CallOf(p)
           r == NodeRequest(p)
<1>1. c \in Calls
  BY ReachedCall DEF EnterStage, SInv
<1> HIDE DEF r
<1>2. CASE Refuse(c, r)
  <2>1. /\ pc[c] = "idle"
        /\ pc' = [pc EXCEPT ![c] = "done"]
        /\ UNCHANGED <<joined, future>>
    BY <1>2 DEF Refuse, Return
  <2> HIDE DEF c
  <2> QED
    BY <1>1, <2>1 DEF SInv, CallTypes, RolesOK, ResultsStay, Open
<1>3. CASE Join(c, r)
  <2>1. /\ pc[c] = "idle"
        /\ pc' = [pc EXCEPT ![c] = "wait"]
        /\ joined' = [joined EXCEPT ![c] = inflight[Key(r)]]
        /\ inflight[Key(r)] \in Calls
        /\ future' = future
    BY <1>3 DEF Join, Goto, InFlight, SInv, TableOK
  <2> HIDE DEF c
  <2>2. pc'[c] = "wait" /\ joined'[c] # NoCall
    BY <1>1, <2>1, NamesAssumption DEF SInv, CallTypes
  <2>3. \A d \in Calls \ {c} : pc'[d] = pc[d] /\ joined'[d] = joined[d]
    BY <2>1 DEF SInv, CallTypes
  <2> QED
    BY <1>1, <2>1, <2>2, <2>3 DEF RolesOK, ResultsStay, Open
<1>4. CASE Own(c, r)
  <2>1. /\ pc[c] = "idle"
        /\ pc' = [pc EXCEPT ![c] = "compute"]
        /\ joined' = joined
        /\ future' = [future EXCEPT ![c] = Pending]
    BY <1>4 DEF Own, Goto
  <2> HIDE DEF c
  <2>2. /\ pc'[c] = "compute" /\ joined[c] = NoCall
        /\ future[c].state = "pending" /\ future'[c].state = "pending"
    BY <1>1, <2>1 DEF SInv, CallTypes, RolesOK, Pending
  <2>3. \A d \in Calls \ {c} : pc'[d] = pc[d] /\ future'[d] = future[d]
    BY <2>1 DEF SInv, CallTypes, RolesOK
  <2>4. future' = [d \in Calls |-> future'[d]]
    BY <2>1 DEF RolesOK
  <2>5. ASSUME NEW d \in Calls, pc'[d] = "accepted"
        PROVE  future'[joined[d]].state = "result"
    <3>1. future[joined[d]].state = "result" /\ joined[d] \in Calls
      BY <2>2, <2>3, <2>5 DEF RolesOK, SInv, CallTypes, Open
    <3> QED
      BY <2>2, <2>3, <3>1
  <2> QED
    BY <1>1, <2>1, <2>2, <2>3, <2>4, <2>5 DEF RolesOK, ResultsStay, Open
<1> QED
  BY <1>2, <1>3, <1>4 DEF EnterStage, r

LEMMA SettleRoles ==
    ASSUME SInv, RolesOK, NEW c \in Calls, NEW f, Settle(c, f),
           f.state = "result" => f.payload \in Values
    PROVE  RolesOK' /\ ResultsStay
<1>1. /\ pc[c] = "compute"
      /\ pc' = [pc EXCEPT ![c] = "cleanup"]
      /\ joined' = joined
      /\ future' = [future EXCEPT ![c] = f]
  BY DEF Settle, Goto
<1>2. /\ pc'[c] = "cleanup" /\ joined[c] = NoCall
      /\ future[c].state = "pending" /\ future'[c] = f
  <2>1. pc = [d \in Calls |-> pc[d]]
    BY DEF SInv, CallTypes
  <2>2. future = [d \in Calls |-> future[d]]
    BY DEF RolesOK
  <2>3. pc'[c] = "cleanup"
    BY <1>1, <2>1
  <2>4. future'[c] = f
    BY <1>1, <2>2
  <2>5. future[c].state = "pending" /\ joined[c] = NoCall
    BY <1>1 DEF RolesOK, Open
  <2> QED
    BY <2>3, <2>4, <2>5
<1>3. \A d \in Calls \ {c} : pc'[d] = pc[d] /\ future'[d] = future[d]
  BY <1>1 DEF SInv, CallTypes, RolesOK
<1>4. future' = [d \in Calls |-> future'[d]]
  BY <1>1 DEF RolesOK
<1>5. ASSUME NEW d \in Calls, pc'[d] = "accepted"
      PROVE  future'[joined[d]].state = "result"
  <2>1. future[joined[d]].state = "result" /\ joined[d] \in Calls
    BY <1>2, <1>3, <1>5 DEF RolesOK, SInv, CallTypes, Open
  <2> QED
    BY <1>2, <1>3, <2>1
<1> QED
  BY <1>1, <1>2, <1>3, <1>4, <1>5 DEF RolesOK, ResultsStay, Open

\* Once inside, only the owner's compute changes a Future.
LEMMA ProceedRoles ==
    ASSUME SInv, RolesOK, NEW c \in Calls, Proceed(c)
    PROVE  RolesOK' /\ UNCHANGED <<joined, future>>
<1>1. UNCHANGED <<joined, future>>
  BY DEF Proceed, Cleanup, WaitExpires, WaitRaises, WaitReturns, RecordTimeout,
         RecordRejected, RecordShared
<1>2. PICK l : /\ pc' = [pc EXCEPT ![c] = l]
               /\ Inside(c)
               /\ \/ l = "done"
                  \/ l \in {"timedOut", "rejected", "accepted"} /\ ~Open(c)
               /\ l = "accepted" => future[joined[c]].state = "result"
  BY DEF Proceed, Cleanup, WaitExpires, WaitRaises, WaitReturns, RecordTimeout,
         RecordRejected, RecordShared, Return, Goto, Inside, Open
<1>3. pc'[c] = l /\ \A d \in Calls \ {c} : pc'[d] = pc[d]
  BY <1>2 DEF SInv, CallTypes
<1> QED
  BY <1>1, <1>2, <1>3 DEF RolesOK, Open, Inside
---------------------------------------------------------------------------
\* The call that computed, or computes, what call c waits for.
OwnerOf(c) == IF joined[c] = NoCall THEN c ELSE joined[c]

\* What run() of pipeline p does when the executor has answered: nothing but
\* perhaps fail, or the end of the stage with the result of an owner's Future.
Stays(p) ==
    /\ UNCHANGED <<value, digest, lineage, trace>>
    /\ status' = status \/ status' = [status EXCEPT ![p] = "failed"]

Gives(p, c) ==
    /\ c = CallOf(p)
    /\ future[OwnerOf(c)].state = "result"
    /\ \E shared : /\ shared = TRUE <=> joined[c] # NoCall
                   /\ Advance(p, future[OwnerOf(c)].payload,
                              resultDigest[OwnerOf(c)], shared)

LEMMA EnterStays ==
    ASSUME SInv, NEW p \in Pipelines, EnterStage(p)
    PROVE  Stays(p)
<1> DEFINE c == CallOf(p)
<1>1. c \in Calls
  BY ReachedCall DEF EnterStage, SInv
<1>2. outcome'[c].kind \in {"none", "raised"}
  <2>1. CASE Refuse(c, NodeRequest(p))
    BY <1>1, <2>1 DEF Refuse, Return, Raised, SInv, CallTypes
  <2>2. CASE Join(c, NodeRequest(p)) \/ Own(c, NodeRequest(p))
    BY <1>1, <2>2 DEF Join, Own, Goto, NotYet, SInv, AnswersLast
  <2> QED
    BY <2>1, <2>2 DEF EnterStage
<1> QED
  BY <1>2 DEF EnterStage, Answered, Stays, locals

LEMMA ProceedAnswers ==
    ASSUME SInv, RolesOK, NEW p \in Pipelines, StageProceeds(p)
    PROVE  Stays(p) \/ Gives(p, CallOf(p))
<1> DEFINE c == CallOf(p)
           o == outcome'[c]
<1>1. c \in Calls /\ Proceed(c) /\ Answered(p)
  BY ReachedCall DEF StageProceeds, SInv
<1>2. CASE o.kind \in {"none", "raised"}
  BY <1>1, <1>2 DEF Answered, Stays, locals
<1>3. CASE o.kind \notin {"none", "raised"}
  <2>1. Advance(p, o.payload, DigestOf(c), o.kind = "shared")
    BY <1>1, <1>3 DEF Answered
  <2>2. DigestOf(c) = resultDigest[OwnerOf(c)]
    BY DEF DigestOf, OwnerOf
  <2>3. CASE Cleanup(c)
    <3>1. o = OwnerOutcome(future[c]) /\ joined[c] = NoCall
      BY <1>1, <2>3 DEF Cleanup, Return, SInv, CallTypes, RolesOK, Open
    <3>2. /\ future[c].state = "result"
          /\ o.kind = "computed" /\ o.payload = future[c].payload
      BY <1>3, <3>1 DEF OwnerOutcome, Computed, Raised
    <3>3. (o.kind = "shared") = FALSE
      BY <3>2
    <3> QED
      BY <2>1, <2>2, <3>1, <3>2, <3>3 DEF Gives, OwnerOf
  <2>4. CASE RecordShared(c)
    <3>1. /\ o = Shared(future[joined[c]].payload)
          /\ joined[c] # NoCall
          /\ future[joined[c]].state = "result"
      BY <1>1, <2>4 DEF RecordShared, Return, SInv, CallTypes, RolesOK, Open
    <3>2. o.kind = "shared" /\ o.payload = future[joined[c]].payload
      BY <3>1 DEF Shared
    <3> QED
      BY <2>1, <2>2, <3>1, <3>2 DEF Gives, OwnerOf
  <2>5. CASE \/ WaitExpires(c) \/ WaitRaises(c) \/ WaitReturns(c)
             \/ RecordTimeout(c) \/ RecordRejected(c)
    <3>1. Inside(c) /\ c \in Calls
      BY <1>1, <2>5, JoinerStep
    <3>2. \/ outcome' = outcome
          \/ \E x : outcome' = [outcome EXCEPT ![c] = Raised(x)]
      BY <2>5 DEF WaitExpires, WaitRaises, WaitReturns, RecordTimeout,
                  RecordRejected, Goto, Return
    <3>3. outcome = [d \in Calls |-> outcome[d]] /\ outcome[c] = NotYet
      BY <3>1 DEF SInv, CallTypes, AnswersLast, Inside
    <3> HIDE DEF c
    <3>4. o.kind \in {"none", "raised"}
      BY <3>1, <3>2, <3>3 DEF Raised, NotYet
    <3> QED
      BY <1>3, <3>4
  <2> QED
    BY <1>1, <2>3, <2>4, <2>5 DEF Proceed
<1> QED
  BY <1>2, <1>3

\* The owner of a Future that holds a result is a call.
LEMMA GivesOwner ==
    ASSUME SInv, RolesOK, NEW c \in Calls
    PROVE  OwnerOf(c) \in Calls
BY DEF SInv, CallTypes, OwnerOf
---------------------------------------------------------------------------
LEMMA InitTInv == GraphInit => TInv
<1> SUFFICES ASSUME GraphInit PROVE TInv
  OBVIOUS
<1>1. RolesOK
  BY DEF GraphInit, Init, RolesOK, Open, Pending
<1>2. GraphTypeOK
  <2>1. ASSUME NEW p \in Pipelines
        PROVE  Completed(p) = 0 /\ Len(job[p].stages) \in Nat /\ <<p, 0>> \in Values
    <3>1. job[p] \in Jobs
      BY GraphAssumption DEF GraphInit
    <3> QED
      BY <3>1, GraphAssumption, EmptySeq, LenProperties DEF GraphInit, Completed
  <2> QED
    BY <2>1 DEF GraphInit, GraphTypeOK
<1> QED
  BY <1>1, <1>2, InitSInv DEF TInv

\* The locals of run() after an answer.
LEMMA StaysTypes ==
    ASSUME TInv, job' = job, NEW p \in Pipelines, Stays(p),
           DOMAIN heap' = Values, DOMAIN resultDigest' = Calls
    PROVE  GraphTypeOK'
BY DEF TInv, GraphTypeOK, Stays, Completed

LEMMA GivesTypes ==
    ASSUME TInv, HInv', job' = job, NEW p \in Pipelines, InStage(p), NEW c \in Calls,
           Gives(p, c), UNCHANGED <<heap, resultDigest>>
    PROVE  GraphTypeOK'
<1>1. PICK shared : Advance(p, future[OwnerOf(c)].payload,
                            resultDigest[OwnerOf(c)], shared)
  BY DEF Gives
<1>2. future[OwnerOf(c)].payload \in Values
  BY GivesOwner DEF Gives, TInv, RolesOK
<1>3. Ends(p)
  BY <1>1 DEF Ends
<1>4. /\ Completed(p)' = Completed(p) + 1
      /\ Completed(p) \in Nat
      /\ \A q \in Pipelines \ {p} : Completed(q)' = Completed(q)
  <2>1. PICK n : n = Completed(p) + 1
    OBVIOUS
  <2> QED
    BY <1>3, <2>1, EndsShape DEF TInv, SInv
<1>5. Position(p) = Completed(p) + 1 /\ Position(p) <= Len(job[p].stages)
  BY DEF InStage, Position, Completed
<1>6. /\ status' = [status EXCEPT ![p] = StatusAfter(p)]
      /\ value' = [value EXCEPT ![p] = future[OwnerOf(c)].payload]
  BY <1>1 DEF Advance
<1>7. /\ StatusAfter(p) \in {"running", "finished"}
      /\ StatusAfter(p) = "finished" => Position(p) = Len(job[p].stages)
  BY DEF StatusAfter
<1> QED
  BY <1>2, <1>4, <1>5, <1>6, <1>7 DEF TInv, GraphTypeOK
---------------------------------------------------------------------------
\* The stage a pipeline has reached.
LEMMA ReachedStage ==
    ASSUME HInv, NEW p \in Pipelines, InStage(p)
    PROVE  /\ StageKey(p) \in StageKeys
           /\ Completed(p) \in Nat
           /\ Position(p) = Completed(p) + 1
           /\ CallOf(p) = <<p, Completed(p) + 1>>
<1>1. job[p].stages \in Seq(StageKeys) /\ Len(job[p].stages) \in Nat
  BY GraphAssumption, LenProperties DEF HInv, GraphTypes
<1>2. Completed(p) \in Nat
  BY Appended DEF HInv, GraphTypes, Completed
<1>3. Position(p) \in 1 .. Len(job[p].stages)
  BY <1>1, <1>2 DEF InStage, Position, Completed
<1> QED
  BY <1>1, <1>2, <1>3, ElementOfSeq DEF StageKey, Position, Completed, CallOf

\* Of a step that settles the owner's Future.
LEMMA SettleTypes ==
    ASSUME TInv, NEW p \in Pipelines, TransformReturns(p) \/ TransformRaises(p)
    PROVE  RolesOK' /\ ResultsStay /\ GraphTypeOK'
<1> DEFINE c == CallOf(p)
<1>1. c \in Calls /\ c \in Values
  <2>1. InStage(p)
    BY DEF TransformReturns, TransformRaises
  <2>2. PICK i \in 1 .. MaxStages : c = <<p, i>>
    BY <2>1, ReachedCall DEF TInv, SInv, CallOf
  <2> QED
    BY <2>2, GraphAssumption
<1>2. CASE TransformReturns(p)
  <2>1. value[p] \in Values
    BY DEF TInv, GraphTypeOK
  <2>2. PICK out \in Values : /\ ComputeReturns(c, out)
                              /\ \E s : heap' = [heap EXCEPT ![out] = s]
                              /\ \E s : resultDigest' = [resultDigest EXCEPT ![c] = s]
    BY <1>1, <1>2, <2>1 DEF TransformReturns
  <2>3. OwnerResult(req[c], out).state = "result" =>
            OwnerResult(req[c], out).payload \in Values
    BY <2>2 DEF OwnerResult, Exception, Result
  <2>4. RolesOK' /\ ResultsStay
    BY <1>1, <2>2, <2>3, SettleRoles DEF ComputeReturns, TInv
  <2>5. UNCHANGED <<job, status, value, trace>>
    BY <1>2 DEF TransformReturns, locals
  <2>6. GraphTypeOK'
    BY <2>2, <2>5 DEF TInv, GraphTypeOK, Completed
  <2> QED
    BY <2>4, <2>6
<1>3. CASE TransformRaises(p)
  <2>1. PICK f : Settle(c, f) /\ (f.state = "result" => f.payload \in Values)
    <3>1. \A e : Exception(e).state # "result"
      BY DEF Exception
    <3>2. CASE \E e \in Errors : ComputeRaises(c, e)
      BY <3>1, <3>2 DEF ComputeRaises
    <3>3. CASE Settle(c, OwnerUnformed(p))
      <4>1. OwnerUnformed(p).state = "result" => OwnerUnformed(p).payload \in Values
        BY <1>1, <3>1 DEF OwnerUnformed, OwnerResult, Result
      <4> QED
        BY <3>3, <4>1
    <3> QED
      BY <1>3, <3>2, <3>3 DEF TransformRaises
  <2>2. RolesOK' /\ ResultsStay
    BY <1>1, <2>1, SettleRoles DEF TInv
  <2>3. UNCHANGED <<job, status, value, trace, heap, resultDigest>>
    BY <1>3 DEF TransformRaises, locals
  <2>4. GraphTypeOK'
    BY <2>3 DEF TInv, GraphTypeOK, Completed
  <2> QED
    BY <2>2, <2>4
<1> QED
  BY <1>2, <1>3

LEMMA StepTInv == TInv /\ [GraphNext]_graphVars => TInv'
<1> SUFFICES ASSUME TInv, [GraphNext]_graphVars PROVE TInv'
  OBVIOUS
<1>1. SInv' /\ HInv' /\ job' = job
  BY StepSInv, StepCases DEF TInv, SInv
<1>2. CASE UNCHANGED graphVars
  <2>1. UNCHANGED <<pc, joined, future, job, status, value, trace, heap, resultDigest>>
    BY <1>2 DEF graphVars, vars, locals
  <2> QED
    BY <1>1, <2>1 DEF TInv, RolesOK, GraphTypeOK, Completed, Open
<1>3. ASSUME NEW p \in Pipelines, FailUnidentified(p) \/ FinishEmpty(p)
      PROVE  TInv'
  <2>1. UNCHANGED <<pc, joined, future, job, value, trace, heap, resultDigest>>
    BY <1>3 DEF FailUnidentified, FinishEmpty, vars
  <2>2. RolesOK'
    BY <2>1 DEF TInv, RolesOK, Open
  <2>3. FailUnidentified(p) => GraphTypeOK'
    BY <2>1 DEF FailUnidentified, TInv, GraphTypeOK, Completed
  <2>4. ASSUME FinishEmpty(p) PROVE GraphTypeOK'
    <3>1. Completed(p) \in Nat /\ Completed(p) <= Len(job[p].stages) /\ Len(job[p].stages) = 0
      BY <2>4, Appended, EmptySeq DEF FinishEmpty, TInv, SInv, HInv, GraphTypes,
         GraphTypeOK, Completed
    <3>2. Completed(p) = Len(job[p].stages)
      BY <3>1
    <3> QED
      BY <2>1, <2>4, <3>2 DEF FinishEmpty, TInv, GraphTypeOK, Completed
  <2> QED
    BY <1>1, <1>3, <2>2, <2>3, <2>4 DEF TInv
<1>4. ASSUME NEW p \in Pipelines, TransformReturns(p) \/ TransformRaises(p)
      PROVE  TInv'
  BY <1>1, <1>4, SettleTypes DEF TInv
<1>5. ASSUME NEW p \in Pipelines, EnterStage(p)
      PROVE  TInv'
  <2>1. RolesOK' /\ Stays(p) /\ UNCHANGED <<heap, resultDigest>>
    BY <1>5, EnterRoles, EnterStays DEF TInv, EnterStage
  <2>2. GraphTypeOK'
    BY <1>1, <2>1, StaysTypes DEF TInv, GraphTypeOK
  <2> QED
    BY <1>1, <2>1, <2>2 DEF TInv
<1>6. ASSUME NEW p \in Pipelines, StageProceeds(p)
      PROVE  TInv'
  <2>1. CallOf(p) \in Calls /\ InStage(p)
    BY <1>6, ReachedCall DEF StageProceeds, TInv, SInv
  <2>2. RolesOK' /\ UNCHANGED <<heap, resultDigest>>
    BY <1>6, <2>1, ProceedRoles DEF TInv, StageProceeds
  <2>3. Stays(p) \/ Gives(p, CallOf(p))
    BY <1>6, ProceedAnswers DEF TInv
  <2>4. GraphTypeOK'
    BY <1>1, <2>1, <2>2, <2>3, StaysTypes, GivesTypes DEF TInv, GraphTypeOK
  <2> QED
    BY <1>1, <2>2, <2>4 DEF TInv
<1> QED
  BY <1>2, <1>3, <1>4, <1>5, <1>6 DEF GraphNext, Step, AllEnded

\* The locals of run() and of the calls it makes have their types.
THEOREM GraphTypesInvariant == GraphSpec => []TInv
BY InitTInv, StepTInv, PTL DEF GraphSpec

\* Whatever the transforms do, the locals of run() have their types, and a
\* pipeline returns only when every stage of it has ended.
THEOREM GraphTypeOKHolds == GraphSpec => []GraphTypeOK
BY GraphTypesInvariant, PTL DEF TInv
---------------------------------------------------------------------------
\* No transform changes the value it is given.
Pure == \A k \in StageKeys : Transform[k] # "inPlace"

\* An object, once its digest was taken, keeps its content: only a new object
\* of a running owner is written.  Who holds an object holds such a one.
HeapOK ==
    /\ \A p \in Pipelines : heap[<<p, 0>>] = <<job[p].initial>>
    /\ \A c \in Calls : future[c].state = "result" =>
          /\ future[c].payload = c
          /\ heap[c] = Isolated(c[1], c[2])
          /\ resultDigest[c] = heap[c]

LocalsOK ==
    /\ digest = [p \in Pipelines |-> digest[p]]
    /\ \A p \in Pipelines :
          /\ \/ value[p] = <<p, 0>>
             \/ value[p] \in Calls /\ future[value[p]].state = "result"
          /\ heap[value[p]] = Isolated(p, Completed(p))
          /\ digest[p] = Isolated(p, Completed(p))

EInv == TInv /\ HeapOK /\ LocalsOK /\ TraceIsEvidence

LEMMA IsolatedSteps ==
    ASSUME NEW p
    PROVE  /\ Isolated(p, 0) = <<job[p].initial>>
           /\ \A i \in Nat : Isolated(p, i + 1) = Apply(job[p].stages[i + 1], Isolated(p, i))
BY ContentSteps DEF Isolated

\* Stages that were shared have the same isolated content.
LEMMA SharedContent ==
    ASSUME NEW p, NEW q, NEW n \in Nat, job[p].initial = job[q].initial,
           StagesOf(p, n) = StagesOf(q, n)
    PROVE  Isolated(p, n) = Isolated(q, n)
<1>1. \A s : \A i \in 1 .. n : SubSeq(s, 1, n)[i] = s[i]
  BY SMT
<1>2. \A i \in 1 .. n : job[p].stages[i] = job[q].stages[i]
  BY <1>1 DEF StagesOf
<1> QED
  BY <1>2, SameContent DEF Isolated

LEMMA InitEInv == GraphInit => EInv
<1> SUFFICES ASSUME GraphInit PROVE EInv
  OBVIOUS
<1>1. \A p \in Pipelines : <<p, 0>> \in Values
  BY GraphAssumption
<1>2. HeapOK
  BY <1>1 DEF GraphInit, Init, HeapOK, Pending
<1>3. \A p \in Pipelines : Completed(p) = 0
  BY EmptySeq DEF GraphInit, Completed
<1>4. LocalsOK
  BY <1>1, <1>3, IsolatedSteps DEF GraphInit, LocalsOK
<1>5. TraceIsEvidence
  BY <1>3 DEF TraceIsEvidence
<1> QED
  BY <1>2, <1>4, <1>5, InitTInv DEF EInv

\* Of a step that settles no Future and writes no object.
LEMMA HeapStays ==
    ASSUME EInv, job' = job, UNCHANGED <<heap, resultDigest>>, ResultsStay,
           \A c \in Calls : future[c].state # "result" => future'[c].state # "result"
    PROVE  HeapOK'
BY DEF EInv, HeapOK, Isolated, ResultsStay

LEMMA LocalsStay ==
    ASSUME EInv, job' = job, UNCHANGED <<value, digest, trace>>, ResultsStay,
           \A c \in Calls : future[c].state = "result" => heap'[c] = heap[c],
           \A p \in Pipelines : heap'[<<p, 0>>] = heap[<<p, 0>>]
    PROVE  LocalsOK'
<1>1. \A q : Completed(q)' = Completed(q) /\ \A n : Isolated(q, n)' = Isolated(q, n)
  BY DEF Completed, Isolated
<1>2. ASSUME NEW q \in Pipelines
      PROVE  /\ heap'[value[q]] = heap[value[q]]
             /\ \/ value[q] = <<q, 0>>
                \/ value[q] \in Calls /\ future'[value[q]].state = "result"
  <2>1. CASE value[q] = <<q, 0>>
    BY <2>1
  <2>2. CASE value[q] # <<q, 0>>
    <3>1. value[q] \in Calls /\ future[value[q]].state = "result"
      BY <2>2 DEF EInv, LocalsOK
    <3>2. future'[value[q]] = future[value[q]] /\ heap'[value[q]] = heap[value[q]]
      BY <3>1 DEF ResultsStay
    <3> QED
      BY <3>1, <3>2
  <2> QED
    BY <2>1, <2>2
<1> QED
  BY <1>1, <1>2 DEF EInv, LocalsOK

\* A stage that has ended is a call.
LEMMA PastCalls ==
    ASSUME TInv, NEW p \in Pipelines, NEW i \in 1 .. Completed(p)
    PROVE  <<p, i>> \in Calls /\ i \in Nat /\ i - 1 \in Nat
<1>1. Completed(p) \in Nat /\ Completed(p) <= Len(job[p].stages)
  BY Appended DEF TInv, SInv, HInv, GraphTypes, Completed, GraphTypeOK
<1>2. Len(job[p].stages) \in Nat /\ Len(job[p].stages) <= MaxStages
  BY GraphAssumption, LenProperties DEF TInv, SInv, HInv, GraphTypes
<1>3. i \in 1 .. MaxStages
  BY <1>1, <1>2, GraphAssumption
<1> QED
  BY <1>3, GraphAssumption

\* A call joins before its stage ends.
LEMMA TraceStays ==
    ASSUME EInv, job' = job, trace' = trace,
           NEW c, UNCHANGED joined \/ \E o : joined' = [joined EXCEPT ![c] = o],
           \A p \in Pipelines : \A i \in 1 .. Completed(p) : c # <<p, i>>
    PROVE  TraceIsEvidence'
<1>1. ASSUME NEW p \in Pipelines, NEW i \in 1 .. Completed(p)
      PROVE  joined'[<<p, i>>] = joined[<<p, i>>]
  <2>1. c # <<p, i>> /\ <<p, i>> \in Calls
    BY <1>1, PastCalls DEF EInv
  <2> QED
    BY <2>1 DEF EInv, TInv, SInv, CallTypes
<1>2. \A p : Completed(p)' = Completed(p) /\ \A n : Isolated(p, n)' = Isolated(p, n)
  BY DEF Completed, Isolated
<1>3. ASSUME NEW p \in Pipelines, NEW i \in 1 .. Completed(p)
      PROVE  /\ trace'[p][i].input  = Isolated(p, i - 1)
             /\ trace'[p][i].output = Isolated(p, i)
             /\ trace'[p][i].shared <=> joined'[<<p, i>>] # NoCall
  BY <1>1 DEF EInv, TraceIsEvidence
<1> QED
  BY <1>2, <1>3 DEF TraceIsEvidence

\* The call a pipeline has reached is none of a stage that has ended.
LEMMA NotPast ==
    ASSUME HInv, NEW p \in Pipelines, InStage(p),
           NEW q \in Pipelines, NEW i \in 1 .. Completed(q)
    PROVE  CallOf(p) # <<q, i>>
<1>1. Completed(p) \in Nat /\ CallOf(p) = <<p, Completed(p) + 1>>
  BY ReachedStage
<1>2. Completed(q) \in Nat
  BY Appended DEF HInv, GraphTypes, Completed
<1> QED
  BY <1>1, <1>2

\* The owner writes a new object with the content of the stage it runs.
LEMMA TransformEvidence ==
    ASSUME Pure, EInv, TInv', NEW p \in Pipelines, TransformReturns(p)
    PROVE  EInv'
<1> DEFINE c == CallOf(p)
           s == Apply(StageKey(p), heap[value[p]])
<1>1. /\ c \in Calls /\ c \in Values
      /\ StageKey(p) \in StageKeys
      /\ Completed(p) \in Nat
      /\ c = <<p, Completed(p) + 1>>
      /\ StageKey(p) = job[p].stages[Completed(p) + 1]
  <2>1. InStage(p)
    BY DEF TransformReturns
  <2>2. /\ c \in Calls /\ StageKey(p) \in StageKeys
        /\ Completed(p) \in Nat /\ c = <<p, Completed(p) + 1>>
        /\ Position(p) = Completed(p) + 1 /\ Position(p) \in 1 .. MaxStages
    BY <2>1, ReachedCall, ReachedStage DEF EInv, TInv, SInv
  <2>3. c \in Values
    BY <2>2, GraphAssumption
  <2> QED
    BY <2>2, <2>3 DEF StageKey
<1>2. /\ ComputeReturns(c, c)
      /\ heap' = [heap EXCEPT ![c] = s]
      /\ resultDigest' = [resultDigest EXCEPT ![c] = s]
      /\ UNCHANGED <<job, value, digest, trace>>
  BY <1>1 DEF TransformReturns, Pure, locals
<1>3. s = Isolated(p, Completed(p) + 1)
  BY <1>1, IsolatedSteps DEF EInv, LocalsOK
<1> HIDE DEF s
<1>4. /\ pc[c] = "compute"
      /\ joined' = joined
      /\ future' = [future EXCEPT ![c] = OwnerResult(req[c], c)]
  BY <1>2 DEF ComputeReturns, Settle
<1>5. future[c].state = "pending" /\ ResultsStay
  BY <1>1, <1>4, SettleTypes DEF EInv, TInv, RolesOK
<1>6. OwnerResult(req[c], c).state = "result" => OwnerResult(req[c], c).payload = c
  BY DEF OwnerResult, Exception, Result
<1>7. /\ heap'[c] = s /\ resultDigest'[c] = s
      /\ future'[c] = OwnerResult(req[c], c)
      /\ \A d \in Calls \ {c} : /\ future'[d] = future[d]
                                /\ resultDigest'[d] = resultDigest[d]
      /\ \A o \in Values \ {c} : heap'[o] = heap[o]
  BY <1>1, <1>2, <1>4 DEF EInv, TInv, RolesOK, GraphTypeOK
<1>8. \A d \in Calls : d \in Values
  BY GraphAssumption
<1>9. \A q \in Pipelines : <<q, 0>> # c /\ <<q, 0>> \in Values
  BY <1>1, GraphAssumption
<1>10. \A q, n : Isolated(q, n)' = Isolated(q, n)
  BY <1>2 DEF Isolated
<1>11. HeapOK'
  <2>1. ASSUME NEW d \in Calls, future'[d].state = "result"
        PROVE  /\ future'[d].payload = d
               /\ heap'[d] = Isolated(d[1], d[2])
               /\ resultDigest'[d] = heap'[d]
    <3>1. CASE d = c
      BY <1>1, <1>3, <1>6, <1>7, <2>1, <3>1
    <3>2. CASE d # c
      BY <1>7, <1>8, <2>1, <3>2 DEF EInv, HeapOK
    <3> QED
      BY <3>1, <3>2
  <2>2. \A q \in Pipelines : heap'[<<q, 0>>] = <<job'[q].initial>>
    BY <1>2, <1>7, <1>9 DEF EInv, HeapOK
  <2> QED
    BY <1>10, <2>1, <2>2 DEF HeapOK
<1>12. LocalsOK'
  <2>1. \A d \in Calls : future[d].state = "result" => heap'[d] = heap[d]
    BY <1>5, <1>7, <1>8
  <2>2. \A q \in Pipelines : heap'[<<q, 0>>] = heap[<<q, 0>>]
    BY <1>7, <1>9
  <2> QED
    BY <1>2, <1>5, <2>1, <2>2, LocalsStay
<1>13. TraceIsEvidence'
  BY <1>2, <1>4, <1>10 DEF EInv, TraceIsEvidence, Completed
<1> QED
  BY <1>11, <1>12, <1>13 DEF EInv

\* The owner's result has the content of the stage that asked for it.
LEMMA OwnerContent ==
    ASSUME EInv, NEW p \in Pipelines, NEW c \in Calls, NEW n \in Nat, c = <<p, n>>,
           future[OwnerOf(c)].state = "result", NEW o, o = OwnerOf(c)
    PROVE  /\ o \in Calls
           /\ future[o].payload = o
           /\ heap[o] = Isolated(p, n)
           /\ resultDigest[o] = Isolated(p, n)
<1>1. o \in Calls
  BY GivesOwner DEF EInv, TInv
<1>2. /\ future[o].payload = o
      /\ heap[o] = Isolated(o[1], o[2])
      /\ resultDigest[o] = heap[o]
  BY <1>1 DEF EInv, HeapOK
<1>3. CASE joined[c] = NoCall
  BY <1>1, <1>2, <1>3 DEF OwnerOf
<1>4. CASE joined[c] # NoCall
  <2>1. c[1] = p /\ c[2] = n /\ o = joined[c]
    BY <1>4 DEF OwnerOf
  <2>2. /\ o[2] = n
        /\ job[p].initial = job[o[1]].initial
        /\ StagesOf(p, n) = StagesOf(o[1], n)
    BY <1>4, <2>1 DEF EInv, TInv, SInv, PrefixOnlySharing
  <2>3. Isolated(p, n) = Isolated(o[1], n)
    BY <2>2, SharedContent
  <2> QED
    BY <1>1, <1>2, <2>2, <2>3
<1> QED
  BY <1>3, <1>4

\* A stage that ends leaves the digests of isolated execution in the trace.
LEMMA GivesEvidence ==
    ASSUME EInv, TInv', job' = job, NEW p \in Pipelines, InStage(p), NEW c \in Calls,
           Gives(p, c), UNCHANGED <<joined, future, heap, resultDigest>>
    PROVE  EInv'
<1> DEFINE o == OwnerOf(c)
           n == Completed(p) + 1
<1>1. PICK shared : /\ shared = TRUE <=> joined[c] # NoCall
                    /\ Advance(p, future[o].payload, resultDigest[o], shared)
  BY DEF Gives
<1>2. Completed(p) \in Nat /\ c = <<p, n>>
  BY ReachedStage DEF EInv, TInv, SInv, Gives
<1>3. /\ o \in Calls
      /\ future[o].state = "result"
      /\ future[o].payload = o
      /\ heap[o] = Isolated(p, n)
      /\ resultDigest[o] = Isolated(p, n)
  BY <1>2, OwnerContent DEF Gives
<1> HIDE DEF o
<1> DEFINE e == [stage_key |-> StageKey(p), input |-> digest[p],
                 output |-> resultDigest[o],
                 lineage |-> NextLineage(lineage[p], StageKey(p), resultDigest[o]),
                 shared |-> shared]
<1>4. /\ value' = [value EXCEPT ![p] = o]
      /\ digest' = [digest EXCEPT ![p] = resultDigest[o]]
      /\ trace' = [trace EXCEPT ![p] = Append(@, e)]
  BY <1>1, <1>3 DEF Advance
<1>5. /\ e.input = Isolated(p, Completed(p))
      /\ e.output = Isolated(p, n)
      /\ e.shared = shared
  BY <1>3 DEF EInv, LocalsOK
<1> HIDE DEF e
<1>6. trace'[p] = Append(trace[p], e) /\ \A q \in Pipelines \ {p} : trace'[q] = trace[q]
  BY <1>4 DEF EInv, TInv, SInv, HInv, GraphTypes
<1>7. /\ Completed(p)' = n
      /\ trace'[p][n] = e
      /\ \A i \in 1 .. Completed(p) : trace'[p][i] = trace[p][i]
      /\ \A q \in Pipelines \ {p} : Completed(q)' = Completed(q)
  BY <1>6, Appended DEF EInv, TInv, SInv, HInv, GraphTypes, Completed
<1>8. \A q, m : Isolated(q, m)' = Isolated(q, m)
  BY DEF Isolated
<1>9. HeapOK'
  BY <1>8 DEF EInv, HeapOK
<1>10. LocalsOK'
  <2>1. /\ value'[p] = o /\ \A q \in Pipelines \ {p} : value'[q] = value[q]
    BY <1>4 DEF EInv, TInv, GraphTypeOK
  <2>2. digest'[p] = Isolated(p, n) /\ \A q \in Pipelines \ {p} : digest'[q] = digest[q]
    BY <1>3, <1>4 DEF EInv, LocalsOK
  <2>3. ASSUME NEW q \in Pipelines
        PROVE  /\ \/ value'[q] = <<q, 0>>
                  \/ value'[q] \in Calls /\ future[value'[q]].state = "result"
               /\ heap[value'[q]] = Isolated(q, Completed(q)')
               /\ digest'[q] = Isolated(q, Completed(q)')
    <3>1. CASE q = p
      BY <1>3, <1>7, <2>1, <2>2, <3>1
    <3>2. CASE q # p
      BY <1>7, <2>1, <2>2, <3>2 DEF EInv, LocalsOK
    <3> QED
      BY <3>1, <3>2
  <2>4. digest' = [q \in Pipelines |-> digest'[q]]
    BY <1>4 DEF EInv, LocalsOK
  <2> QED
    BY <1>8, <2>3, <2>4 DEF LocalsOK
<1>11. TraceIsEvidence'
  <2>1. ASSUME NEW q \in Pipelines, NEW i \in 1 .. Completed(q)'
        PROVE  /\ trace'[q][i].input  = Isolated(q, i - 1)
               /\ trace'[q][i].output = Isolated(q, i)
               /\ trace'[q][i].shared <=> joined[<<q, i>>] # NoCall
    <3>1. CASE q = p /\ i = n
      <4>1. i - 1 = Completed(p)
        BY <1>2, <3>1
      <4>2. trace'[q][i] = e /\ c = <<q, i>>
        BY <1>2, <1>7, <3>1
      <4>3. e.shared <=> joined[c] # NoCall
        BY <1>1, <1>5
      <4>4. e.input = Isolated(q, i - 1) /\ e.output = Isolated(q, i)
        BY <1>5, <3>1, <4>1
      <4> QED
        BY <4>2, <4>3, <4>4
    <3>2. CASE ~(q = p /\ i = n)
      <4>1. i \in 1 .. Completed(q) /\ trace'[q][i] = trace[q][i]
        <5>1. CASE q = p
          <6>1. i \in 1 .. n /\ i # n
            BY <1>7, <3>2, <5>1
          <6>2. i \in 1 .. Completed(p)
            BY <1>2, <6>1
          <6> QED
            BY <1>7, <5>1, <6>2
        <5>2. CASE q # p
          BY <1>6, <1>7, <5>2
        <5> QED
          BY <5>1, <5>2
      <4> QED
        BY <4>1 DEF EInv, TraceIsEvidence
    <3> QED
      BY <3>1, <3>2
  <2> QED
    BY <1>8, <2>1 DEF TraceIsEvidence
<1> QED
  BY <1>9, <1>10, <1>11 DEF EInv

\* A step that settles no Future and ends no stage.
LEMMA QuietEvidence ==
    ASSUME EInv, TInv', job' = job, UNCHANGED <<value, digest, trace, heap, resultDigest>>,
           ResultsStay,
           \A d \in Calls : future[d].state # "result" => future'[d].state # "result",
           NEW c, UNCHANGED joined \/ \E o : joined' = [joined EXCEPT ![c] = o],
           \A p \in Pipelines : \A i \in 1 .. Completed(p) : c # <<p, i>>
    PROVE  EInv'
BY HeapStays, LocalsStay, TraceStays DEF EInv

LEMMA EnterEvidence ==
    ASSUME EInv, TInv', job' = job, NEW p \in Pipelines, EnterStage(p)
    PROVE  EInv'
<1> DEFINE c == CallOf(p)
<1>1. c \in Calls /\ InStage(p)
  BY ReachedCall DEF EnterStage, EInv, TInv, SInv
<1>2. UNCHANGED <<value, digest, trace, heap, resultDigest>>
  BY EnterStays DEF EnterStage, Stays, EInv, TInv
<1>3. ResultsStay
  BY EnterRoles DEF EInv, TInv
<1>4. /\ future' = future \/ future' = [future EXCEPT ![c] = Pending]
      /\ UNCHANGED joined \/ \E o : joined' = [joined EXCEPT ![c] = o]
  BY DEF EnterStage, Refuse, Join, Own
<1>5. \A q \in Pipelines : \A i \in 1 .. Completed(q) : c # <<q, i>>
  BY <1>1, NotPast DEF EInv, TInv, SInv
<1> HIDE DEF c
<1>6. \A d \in Calls : future[d].state # "result" => future'[d].state # "result"
  BY <1>1, <1>4 DEF EInv, TInv, RolesOK, Pending
<1> QED
  BY <1>2, <1>3, <1>4, <1>5, <1>6, QuietEvidence

\* A result without a canonical form settles no Future: the verifier refuses
\* it, or the digest does.
LEMMA UnformedRaises ==
    ASSUME TInv, NEW p \in Pipelines, InStage(p)
    PROVE  OwnerUnformed(p).state # "result"
<1>1. StageKey(p) \in StageKeys /\ CallOf(p) \in Calls /\ Position(p) \in 1 .. MaxStages
  BY ReachedStage, ReachedCall DEF TInv, SInv
<1>2. CallOf(p) \in Values
  BY <1>1, GraphAssumption DEF CallOf
<1>3. NodeRequest(p).verifier[CallOf(p)] = StageVerdict[StageKey(p)]
  BY <1>2 DEF NodeRequest
<1>4. StageVerdict[StageKey(p)] \in {"accept", "reject"} \cup Errors
  BY <1>1, GraphAssumption DEF Verdicts
<1> QED
  BY <1>3, <1>4 DEF OwnerUnformed, OwnerResult, Exception

\* No result comes from compute: it raised, or its value has no digest.
LEMMA RaisesEvidence ==
    ASSUME EInv, TInv', NEW p \in Pipelines, TransformRaises(p)
    PROVE  EInv'
<1> DEFINE c == CallOf(p)
<1>1. c \in Calls /\ InStage(p)
  BY ReachedCall DEF TransformRaises, EInv, TInv, SInv
<1>2. UNCHANGED <<job, value, digest, trace, heap, resultDigest>>
  BY DEF TransformRaises, locals
<1>3. ResultsStay
  BY SettleTypes DEF EInv
<1>4. PICK f : Settle(c, f) /\ f.state # "result"
  <2>1. \A e : Exception(e).state # "result"
    BY DEF Exception
  <2>2. OwnerUnformed(p).state # "result"
    BY <1>1, UnformedRaises DEF EInv
  <2>3. \/ \E e \in Errors : Settle(c, Exception(e))
        \/ Settle(c, OwnerUnformed(p))
    BY DEF TransformRaises, ComputeRaises
  <2> QED
    BY <2>1, <2>2, <2>3
<1>5. \A q \in Pipelines : \A i \in 1 .. Completed(q) : c # <<q, i>>
  BY <1>1, NotPast DEF EInv, TInv, SInv
<1>6. joined' = joined /\ future' = [future EXCEPT ![c] = f]
  BY <1>4 DEF Settle
<1> HIDE DEF c
<1>7. \A d \in Calls : future[d].state # "result" => future'[d].state # "result"
  BY <1>1, <1>4, <1>6 DEF EInv, TInv, RolesOK
<1> QED
  BY <1>2, <1>3, <1>5, <1>6, <1>7, QuietEvidence

LEMMA ProceedEvidence ==
    ASSUME EInv, TInv', job' = job, NEW p \in Pipelines, StageProceeds(p)
    PROVE  EInv'
<1> DEFINE c == CallOf(p)
<1>1. c \in Calls /\ InStage(p) /\ Proceed(c)
  BY ReachedCall DEF StageProceeds, EInv, TInv, SInv
<1>2. UNCHANGED <<joined, future, heap, resultDigest>>
  BY <1>1, ProceedRoles DEF StageProceeds, EInv, TInv
<1>3. \A q \in Pipelines : \A i \in 1 .. Completed(q) : c # <<q, i>>
  BY <1>1, NotPast DEF EInv, TInv, SInv
<1>4. CASE Stays(p)
  BY <1>2, <1>3, <1>4, QuietEvidence DEF Stays, ResultsStay
<1>5. CASE Gives(p, c)
  BY <1>1, <1>2, <1>5, GivesEvidence
<1> QED
  BY <1>4, <1>5, ProceedAnswers DEF EInv, TInv

LEMMA StepEInv ==
    ASSUME Pure
    PROVE  EInv /\ [GraphNext]_graphVars => EInv'
<1> SUFFICES ASSUME EInv, [GraphNext]_graphVars PROVE EInv'
  OBVIOUS
<1>1. TInv' /\ job' = job
  BY StepTInv, StepCases DEF EInv
<1>2. ASSUME UNCHANGED <<value, digest, trace, heap, resultDigest, joined, future>>
      PROVE  EInv'
  <2>1. HeapOK' /\ LocalsOK'
    BY <1>1, <1>2, HeapStays, LocalsStay DEF ResultsStay
  <2>2. TraceIsEvidence'
    BY <1>1, <1>2 DEF EInv, TraceIsEvidence, Completed, Isolated
  <2> QED
    BY <1>1, <2>1, <2>2 DEF EInv
<1>3. ASSUME NEW p \in Pipelines, Step(p)
      PROVE  EInv'
  <2>1. CASE FailUnidentified(p) \/ FinishEmpty(p)
    BY <1>2, <2>1 DEF FailUnidentified, FinishEmpty, vars
  <2>2. CASE TransformRaises(p)
    BY <1>1, <2>2, RaisesEvidence
  <2> QED
    BY <1>1, <1>3, <2>1, <2>2, EnterEvidence, TransformEvidence, ProceedEvidence DEF Step
<1> QED
  BY <1>2, <1>3 DEF GraphNext, AllEnded, graphVars, vars, locals

\* With transforms that do not change their input, objects, locals and traces
\* hold what isolated execution gives.
THEOREM EvidenceInvariant ==
    ASSUME Pure
    PROVE  GraphSpec => []EInv
<1>1. EInv /\ [GraphNext]_graphVars => EInv'
  BY StepEInv
<1> QED
  BY <1>1, InitEInv, PTL DEF GraphSpec

\* Gate G1: with transforms that do not change their input, what a pipeline
\* returns is what its stages alone give, and stays so while other pipelines
\* that hold the same objects go on.
THEOREM IsolatedResultHolds ==
    ASSUME Pure
    PROVE  GraphSpec => []IsolatedResult
<1>1. EInv => IsolatedResult
  BY DEF EInv, LocalsOK, IsolatedResult, TInv, GraphTypeOK
<1> QED
  BY <1>1, EvidenceInvariant, PTL

\* Gates G1 and G8: with such transforms, the digests of every trace are those
\* of isolated execution, and "shared" tells whether the stage was joined.
THEOREM TraceIsEvidenceHolds ==
    ASSUME Pure
    PROVE  GraphSpec => []TraceIsEvidence
BY EvidenceInvariant, PTL DEF EInv
=============================================================================
