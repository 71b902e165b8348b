---------------------------- MODULE FabricProofs ----------------------------
(***************************************************************************)
(* What Fabric promises about the ceiling of autonomy holds for any        *)
(* policies, thresholds, envelopes and signals, and without the bounds on  *)
(* how many there are.  The invariant Derived says that the last result is *)
(* the report on what it records; the promises then follow from two facts  *)
(* about the analyzer: an unresolved condition of the policy leaves all to *)
(* a human, and more links never raise the ceiling.                        *)
(***************************************************************************)
EXTENDS Fabric, FiniteSetTheorems, TLAPS

Typed ==
    /\ policy \in Policies
    /\ thresholds \in Thresholds
    /\ produced \subseteq Producible
    /\ now \in 0 .. MaxTime

Derived ==
    result # NoAnalysis =>
        /\ result = Report(result.items, result.trusted, result.exceeded,
                           result.produced, result.at)
        /\ result.items \subseteq Envelopes
        /\ Cardinality(result.items) <= policy.max_envelopes
        /\ result.trusted \subseteq Trustable(result.items)
        /\ result.exceeded \in BOOLEAN
        /\ result.produced \subseteq produced
        /\ result.at \in 0 .. now

IInv == Typed /\ submitted \in Seq(Envelopes) /\ Derived

PolicyLinks == PolicySignals(policy, result.items, result.trusted,
                             result.exceeded, result.at)
---------------------------------------------------------------------------
\* The fields of a report are what it was made of.
LEMMA ReportFields ==
    ASSUME NEW items, NEW trusted, NEW exceeded, NEW signals, NEW t
    PROVE  LET r == Report(items, trusted, exceeded, signals, t)
           IN  /\ r.items = items
               /\ r.trusted = trusted
               /\ r.exceeded = exceeded
               /\ r.produced = signals
               /\ r.at = t
               /\ r.links = AllLinks(signals \cup
                                PolicySignals(policy, items, trusted, exceeded, t))
               /\ r.autonomy = Autonomy(r.links, thresholds)
BY DEF Report

\* An open condition has the highest residual risk there is, which reaches
\* every threshold.
LEMMA OpenConditionBlocks ==
    ASSUME NEW p \in LinkPolicies, NEW links, NEW name,
           Signal(name, FALSE) \in links
    PROVE  Autonomy(links, p) = 1
<1>1. PICK s \in links : s.severity = 100 /\ s.confidence = 100 /\ s.status = "UNRESOLVED"
  BY DEF Signal
<1>2. ResidualRisk(s) = 100 * 100 * 100
  BY <1>1, SMT DEF ResidualRisk, Multiplier
<1>3. \A h \in Int : h <= 100 => 100 * 100 * 100 >= h * 10000
  BY SMT
<1>4. p.human_required_at \in Int /\ p.human_required_at <= 100
  BY DEF LinkPolicies, Hundredths
<1>5. ResidualRisk(s) >= p.human_required_at * 10000
  BY <1>2, <1>3, <1>4
<1>6. RiskReaches(links, p.human_required_at)
  BY <1>1, <1>5, SMT DEF RiskReaches
<1>. QED  BY <1>6, SMT DEF Autonomy

\* More links never raise the ceiling.
LEMMA CeilingIsMonotone ==
    ASSUME NEW p \in LinkPolicies, NEW links, NEW more, links \subseteq more
    PROVE  Autonomy(more, p) <= Autonomy(links, p)
<1>1. ASSUME NEW t, RiskReaches(links, t)  PROVE RiskReaches(more, t)
  BY <1>1 DEF RiskReaches
<1>. QED  BY <1>1 DEF Autonomy

\* Neither do more signals, for they only add contradictions.
LEMMA LinksAreMonotone ==
    ASSUME NEW signals, NEW more, signals \subseteq more
    PROVE  AllLinks(signals) \subseteq AllLinks(more)
<1>1. Contradictions(signals) \subseteq Contradictions(more)
  BY DEF Contradictions
<1>. QED  BY <1>1 DEF AllLinks

LEMMA SignalIsClosed ==
    ASSUME NEW name, NEW closed \in BOOLEAN
    PROVE  /\ closed  => Signal(name, closed).status = "CLOSED"
           /\ ~closed => Signal(name, closed) = Signal(name, FALSE)
BY DEF Signal
---------------------------------------------------------------------------
LEMMA Initially == Init => IInv
<1>. SUFFICES ASSUME Init PROVE IInv
  OBVIOUS
<1>1. 0 \in 0 .. MaxTime
  BY FabricAssumption
<1>. QED  BY <1>1 DEF Init, IInv, Typed, Derived

LEMMA SampleIsSubmitted ==
    ASSUME NEW envelopes \in Seq(Envelopes), NEW limit
    PROVE  Sample(envelopes, limit) \subseteq Envelopes
BY DEF Sample

LEMMA LimitIsNatural ==
    ASSUME NEW p \in Policies
    PROVE  p.max_envelopes \in Nat
<1>1. p.max_envelopes \in 1 .. 1024
  BY FabricAssumption DEF IsPolicy
<1>. QED  BY <1>1

\* A sample is no larger than its limit.
LEMMA SampleIsBounded ==
    ASSUME NEW envelopes \in Seq(Envelopes), NEW limit \in Nat
    PROVE  Cardinality(Sample(envelopes, limit)) <= limit
<1>. DEFINE read == {j \in DOMAIN envelopes : j <= limit}
            at   == [i \in read |-> envelopes[i]]
<1>1. read \in SUBSET (1 .. limit)
  OBVIOUS
<1>2. IsFiniteSet(1 .. limit) /\ Cardinality(1 .. limit) = limit
  BY FS_Interval
<1>3. IsFiniteSet(read) /\ Cardinality(read) <= limit
  BY <1>1, <1>2, FS_Subset
<1>4. at \in Surjection(read, Sample(envelopes, limit))
  BY DEF Surjection, Sample
<1>5. /\ IsFiniteSet(Sample(envelopes, limit))
      /\ Cardinality(Sample(envelopes, limit)) <= Cardinality(read)
  BY <1>3, <1>4, FS_Surjection
<1>6. Cardinality(Sample(envelopes, limit)) \in Nat /\ Cardinality(read) \in Nat
  BY <1>3, <1>5, FS_CardinalityType
<1>. QED  BY <1>3, <1>5, <1>6

\* Steps that leave the result alone.
LEMMA SameResult ==
    ASSUME Derived, Typed, Typed', result' = result, policy' = policy,
           thresholds' = thresholds, produced \subseteq produced', now <= now'
    PROVE  Derived'
<1>. SUFFICES ASSUME result # NoAnalysis PROVE Derived'
  BY DEF Derived
<1>1. Report(result.items, result.trusted, result.exceeded, result.produced, result.at)'
        = Report(result.items, result.trusted, result.exceeded, result.produced, result.at)
  BY DEF Report
<1>2. now \in Int /\ now' \in Int
  BY FabricAssumption DEF Typed
<1>. QED  BY <1>1, <1>2 DEF Derived

LEMMA Inductive == IInv /\ [Next]_vars => IInv'
<1>. SUFFICES ASSUME IInv, [Next]_vars PROVE IInv'
  OBVIOUS
<1>. USE FabricAssumption DEF IInv
<1>1. ASSUME NEW e \in Envelopes, Submit(e) PROVE IInv'
  <2>1. Typed' /\ submitted' \in Seq(Envelopes)
    BY <1>1 DEF Submit, Typed
  <2>2. now <= now'
    BY <1>1 DEF Submit, Typed
  <2>3. Derived'
    BY <1>1, <2>1, <2>2, SameResult DEF Submit
  <2>. QED  BY <2>1, <2>3
<1>2. ASSUME NEW s \in Producible, Produce(s) PROVE IInv'
  <2>1. Typed' /\ submitted' \in Seq(Envelopes)
    BY <1>2 DEF Produce, Typed
  <2>2. now <= now'
    BY <1>2 DEF Produce, Typed
  <2>3. Derived'
    BY <1>2, <2>1, <2>2, SameResult DEF Produce
  <2>. QED  BY <2>1, <2>3
<1>3. ASSUME Tick PROVE IInv'
  <2>1. Typed' /\ submitted' \in Seq(Envelopes)
    BY <1>3 DEF Tick, Typed
  <2>2. now <= now'
    BY <1>3 DEF Tick, Typed
  <2>3. Derived'
    BY <1>3, <2>1, <2>2, SameResult DEF Tick
  <2>. QED  BY <2>1, <2>3
<1>4. ASSUME Analyze PROVE IInv'
  <2>. DEFINE items == Sample(submitted, policy.max_envelopes)
              over  == BudgetExceeded(submitted, policy.max_envelopes)
  <2>1. PICK trusted \in SUBSET Trustable(items) :
            result' = Report(items, trusted, over, produced, now)
    BY <1>4 DEF Analyze
  <2>2. UNCHANGED <<policy, thresholds, submitted, produced, now>>
    BY <1>4 DEF Analyze
  <2>3. /\ result'.items = items
        /\ result'.trusted = trusted
        /\ result'.exceeded = over
        /\ result'.produced = produced
        /\ result'.at = now
    BY <2>1 DEF Report
  <2>4. items \subseteq Envelopes /\ Cardinality(items) <= policy.max_envelopes
    <3>1. policy.max_envelopes \in Nat
      BY LimitIsNatural DEF Typed
    <3>. QED  BY <3>1, SampleIsSubmitted, SampleIsBounded
  <2>5. Report(result.items, result.trusted, result.exceeded, result.produced, result.at)'
          = Report(items, trusted, over, produced, now)
    BY <2>2, <2>3 DEF Report
  <2>6. over \in BOOLEAN
    BY DEF BudgetExceeded
  <2>7. now \in 0 .. now
    BY DEF Typed
  <2>8. Derived'
    BY <2>1, <2>2, <2>3, <2>4, <2>5, <2>6, <2>7 DEF Derived
  <2>. QED  BY <2>2, <2>8 DEF Typed
<1>5. CASE UNCHANGED vars
  <2>1. Typed' /\ submitted' \in Seq(Envelopes)
    BY <1>5 DEF vars, Typed
  <2>2. now <= now'
    BY <1>5 DEF vars, Typed
  <2>3. Derived'
    BY <1>5, <2>1, <2>2, SameResult DEF vars
  <2>. QED  BY <2>1, <2>3
<1>. QED  BY <1>1, <1>2, <1>3, <1>4, <1>5 DEF Next

\* Every result is the report on what it records.
THEOREM ResultsAreDerived == Spec => []IInv
BY Initially, Inductive, PTL DEF Spec
---------------------------------------------------------------------------
\* Where the machine may act, no condition of the policy is open.
LEMMA NothingIsOpen ==
    ASSUME IInv, LetsAct, NEW name
    PROVE  Signal(name, FALSE) \notin result.links
<1>1. thresholds \in LinkPolicies
  BY FabricAssumption DEF IInv, Typed
<1>2. result.autonomy = Autonomy(result.links, thresholds)
  <2>1. result = Report(result.items, result.trusted, result.exceeded,
                        result.produced, result.at)
    BY DEF IInv, Derived, LetsAct
  <2>2. Report(result.items, result.trusted, result.exceeded, result.produced,
               result.at).autonomy
          = Autonomy(Report(result.items, result.trusted, result.exceeded,
                            result.produced, result.at).links, thresholds)
    BY DEF Report
  <2>. QED  BY <2>1, <2>2
<1>3. SUFFICES ASSUME Signal(name, FALSE) \in result.links PROVE FALSE
  OBVIOUS
<1>4. Autonomy(result.links, thresholds) = 1
  BY <1>1, <1>3, OpenConditionBlocks
<1>. QED  BY <1>2, <1>4 DEF LetsAct

LEMMA LinksOfResult ==
    ASSUME IInv, result # NoAnalysis
    PROVE  result.links = AllLinks(result.produced \cup PolicyLinks)
BY ReportFields DEF IInv, Derived, PolicyLinks

\* So every condition the policy sets is met.
LEMMA ConditionsAreMet ==
    ASSUME IInv, LetsAct, NEW name, NEW closed \in BOOLEAN,
           Signal(name, closed) \in PolicyLinks
    PROVE  closed
<1>1. Signal(name, closed) \in result.links
  BY LinksOfResult DEF AllLinks, LetsAct
<1>. QED  BY <1>1, NothingIsOpen, SignalIsClosed

\* The types, and the bound on what an analysis looks at.
LEMMA DerivedTypes == IInv => FabricTypeOK
<1>. SUFFICES ASSUME IInv PROVE FabricTypeOK
  OBVIOUS
<1>1. ASSUME result # NoAnalysis
      PROVE  /\ result.items \subseteq Envelopes
             /\ Cardinality(result.items) <= policy.max_envelopes
             /\ result.trusted \subseteq result.items
             /\ result.produced \subseteq Producible
             /\ result.at \in 0 .. now
             /\ \A s \in result.links : IsSignal(s)
             /\ result.autonomy \in DOMAIN Levels
  <2>1. \A name : \A closed \in BOOLEAN : IsSignal(Signal(name, closed))
    BY DEF IsSignal, Signal, Hundredths, Statuses
  <2>2. \A s \in PolicyLinks : IsSignal(s)
    BY <2>1 DEF PolicyLinks, PolicySignals, BudgetSignals, RequiredSignals,
                FreshnessSignals, Fresh, Consistent
  <2>3. result.produced \subseteq Producible
    BY <1>1 DEF IInv, Typed, Derived
  <2>4. \A s \in result.produced : IsSignal(s)
    BY <2>3, FabricAssumption
  <2>5. \A s \in result.links : IsSignal(s)
    <3>. DEFINE given == result.produced \cup PolicyLinks
    <3>1. result.links = given \cup Contradictions(given)
      BY <1>1, LinksOfResult DEF AllLinks
    <3>2. \A s \in Contradictions(given) : \E name : s = Signal(name, FALSE)
      BY DEF Contradictions
    <3>3. \A s \in Contradictions(given) : IsSignal(s)
      BY <2>1, <3>2
    <3>. QED  BY <2>2, <2>4, <3>1, <3>3
  <2>6. result.autonomy \in 1 .. 4
    <3>1. result = Report(result.items, result.trusted, result.exceeded,
                          result.produced, result.at)
      BY <1>1 DEF IInv, Derived
    <3>2. Report(result.items, result.trusted, result.exceeded, result.produced,
                 result.at).autonomy \in 1 .. 4
      BY DEF Report, Autonomy
    <3>. QED  BY <3>1, <3>2
  <2>7. DOMAIN Levels = 1 .. 4
    BY DEF Levels
  <2>. QED  BY <1>1, <2>3, <2>5, <2>6, <2>7 DEF IInv, Derived, Trustable
<1>. QED  BY <1>1 DEF FabricTypeOK, IInv, Typed

\* Inputs and results have their types, and an analysis looks at no more
\* envelopes than the policy allows (fabric.py:219).
THEOREM FabricTypeCorrect == Spec => []FabricTypeOK
BY ResultsAreDerived, DerivedTypes, PTL

\* The machine may act only on complete, intact and trusted evidence
\* (fabric.py:223-242, 327-342, 382-399).
LEMMA DerivedFailsClosed == IInv => FailsClosed
<1>. SUFFICES ASSUME IInv, LetsAct
              PROVE  /\ ~result.exceeded
                     /\ \A s \in policy.required_sources : \E e \in result.trusted :
                            e.source = s /\ e.disposition = "VERIFIED" /\ e.intact
                     /\ \A g \in policy.required_fields : \E e \in result.trusted :
                            g \in DOMAIN e.bindings
  BY DEF FailsClosed
<1>1. result.trusted \subseteq Trustable(result.items) /\ result.exceeded \in BOOLEAN
  BY DEF IInv, Derived, LetsAct
<1>2. ASSUME result.exceeded PROVE FALSE
  <2>1. Signal(BudgetName, FALSE) \in PolicyLinks
    BY <1>2 DEF PolicyLinks, PolicySignals, BudgetSignals
  <2>. QED  BY <2>1, ConditionsAreMet
<1>3. ASSUME NEW s \in policy.required_sources
      PROVE  \E e \in result.trusted :
                 e.source = s /\ e.disposition = "VERIFIED" /\ e.intact
  <2>1. Signal(RequiredName(s), From(result.items, result.trusted, s) # {}) \in PolicyLinks
    BY DEF PolicyLinks, PolicySignals, RequiredSignals
  <2>2. From(result.items, result.trusted, s) # {}
    BY <2>1, ConditionsAreMet
  <2>. QED  BY <1>1, <2>2 DEF From, Trustable
<1>4. Consistent(policy, result.items, result.trusted, result.exceeded)
  <2>1. Signal(BindingName, Consistent(policy, result.items, result.trusted,
                                       result.exceeded)) \in PolicyLinks
    BY DEF PolicyLinks, PolicySignals
  <2>. QED  BY <2>1, ConditionsAreMet DEF Consistent
<1>5. ASSUME NEW g \in policy.required_fields
      PROVE  \E e \in result.trusted : g \in DOMAIN e.bindings
  <2>1. Bound(result.items, result.trusted, g) # {}
    BY <1>4 DEF Consistent, Missing
  <2>. QED  BY <2>1 DEF Bound
<1>. QED  BY <1>2, <1>3, <1>5

\* The machine may act only with all envelopes read, trusted evidence of every
\* required source, and every required field bound by some.
THEOREM FailsClosedHolds == Spec => []FailsClosed
BY ResultsAreDerived, DerivedFailsClosed, PTL

\* The machine may act only if every source that owes preflight evidence has
\* its own, young enough and not from the future (fabric.py:344-380).
LEMMA DerivedFreshPerSource == IInv => FreshPerSource
<1>. SUFFICES ASSUME IInv, LetsAct, NEW s \in policy.required_sources,
                     \/ s \in policy.preflight_sources
                     \/ policy.require_preflight /\ policy.preflight_sources = {}
              PROVE  /\ \E e \in result.trusted :
                            /\ e.source = s /\ e.scope = "preflight"
                            /\ e.verified_at >= result.at - policy.max_age
                     /\ \A e \in result.trusted :
                            e.source = s /\ e.scope = "preflight"
                                => e.verified_at <= result.at
  BY DEF FreshPerSource
<1>. DEFINE mine == Candidates(result.items, result.trusted, s)
<1>1. /\ result.items \subseteq Envelopes
      /\ result.trusted \subseteq result.items
      /\ result.at \in Int
  BY FabricAssumption DEF IInv, Typed, Derived, LetsAct, Trustable
<1>2. policy.max_age \in Int /\ \A e \in Envelopes : e.verified_at \in Int
  BY FabricAssumption DEF IInv, Typed, IsPolicy, IsEnvelope
<1>3. s \in FreshSources(policy)
  BY DEF FreshSources
<1>4. Signal(FreshnessName(s), Fresh(policy, mine, result.at)) \in PolicyLinks
  BY <1>3 DEF PolicyLinks, PolicySignals, FreshnessSignals
<1>5. Fresh(policy, mine, result.at)
  BY <1>4, ConditionsAreMet DEF Fresh
<1>6. \A e \in result.trusted : e \in mine <=> e.source = s /\ e.scope = "preflight"
  BY <1>1 DEF Candidates, From
<1>7. PICK e \in mine : result.at - e.verified_at <= policy.max_age
  BY <1>5 DEF Fresh
<1>8. e \in result.trusted /\ e.source = s /\ e.scope = "preflight"
  BY DEF Candidates, From
<1>9. e.verified_at >= result.at - policy.max_age
  BY <1>1, <1>2, <1>7, <1>8
<1>. QED  BY <1>5, <1>6, <1>8, <1>9 DEF Fresh

\* The machine may act only if each source that owes preflight evidence has
\* fresh evidence of its own, and none from the future.
THEOREM FreshPerSourceHolds == Spec => []FreshPerSource
BY ResultsAreDerived, DerivedFreshPerSource, PTL

\* All trusted envelopes of an acting machine are about one action
\* (fabric.py:246-276).
LEMMA DerivedOneAction == IInv => OneAction
<1>. SUFFICES ASSUME IInv, LetsAct, NEW g \in policy.required_fields,
                     NEW d \in result.trusted, NEW e \in result.trusted,
                     g \in DOMAIN d.bindings, g \in DOMAIN e.bindings
              PROVE  d.bindings[g] = e.bindings[g]
  BY DEF OneAction
<1>1. result.trusted \subseteq result.items
  BY DEF IInv, Derived, LetsAct, Trustable
<1>2. Signal(BindingName, Consistent(policy, result.items, result.trusted,
                                     result.exceeded)) \in PolicyLinks
  BY DEF PolicyLinks, PolicySignals
<1>3. Consistent(policy, result.items, result.trusted, result.exceeded)
  BY <1>2, ConditionsAreMet DEF Consistent
<1>4. {d.bindings[g], e.bindings[g]} \subseteq Bound(result.items, result.trusted, g)
  BY <1>1 DEF Bound
<1>. QED  BY <1>3, <1>4 DEF Consistent, Conflicts

\* The machine may act only if all trusted evidence agrees on required fields.
THEOREM OneActionHolds == Spec => []OneAction
BY ResultsAreDerived, DerivedOneAction, PTL
---------------------------------------------------------------------------
\* While anybody says that a link is not closed, nobody's word that it is
\* lets the machine act (fabric.py:432-455).
LEMMA DerivedContradictionsBlock == IInv => ContradictionsBlock
<1>. DEFINE given == result.produced \cup PolicyLinks
<1>1. ASSUME IInv, LetsAct, NEW x \in result.links, NEW y \in result.links,
             x.name = y.name, x.status = "CLOSED", y.status # "CLOSED"
      PROVE  FALSE
  <2>1. result.links = given \cup Contradictions(given)
    BY <1>1, LinksOfResult DEF AllLinks, LetsAct
  <2>2. \A z \in Contradictions(given) : \E n : z = Signal(n, FALSE)
    BY DEF Contradictions
  <2>3. x \in given /\ y \in given
    <3>1. \A z \in Contradictions(given) : z \notin result.links
      BY <1>1, <2>2, NothingIsOpen
    <3>. QED  BY <1>1, <2>1, <3>1
  <2>4. Signal(ContradictionName(x.name), FALSE) \in Contradictions(given)
    BY <1>1, <2>3 DEF Contradictions
  <2>. QED  BY <1>1, <2>1, <2>4, NothingIsOpen
<1>. QED  BY <1>1 DEF ContradictionsBlock

\* The machine may act on no condition that one says is closed and another not.
THEOREM ContradictionsBlockHolds == Spec => []ContradictionsBlock
BY ResultsAreDerived, DerivedContradictionsBlock, PTL

\* No further signal, whatever it says, would raise the ceiling
\* (fabric.py:477-480, weaklink.py:95-105).
LEMMA DerivedSignalsNeverHelp == IInv => SignalsNeverHelp
<1>. SUFFICES ASSUME IInv, result # NoAnalysis, NEW s \in Producible
              PROVE  Report(result.items, result.trusted, result.exceeded,
                            result.produced \cup {s}, result.at).autonomy
                       <= result.autonomy
  BY DEF SignalsNeverHelp
<1>. DEFINE one  == AllLinks(result.produced \cup PolicyLinks)
            more == AllLinks((result.produced \cup {s}) \cup PolicyLinks)
<1>1. thresholds \in LinkPolicies
  BY FabricAssumption DEF IInv, Typed
<1>2. one \subseteq more
  BY LinksAreMonotone
<1>3. Autonomy(more, thresholds) <= Autonomy(one, thresholds)
  BY <1>1, <1>2, CeilingIsMonotone
<1>4. Report(result.items, result.trusted, result.exceeded,
             result.produced \cup {s}, result.at).autonomy = Autonomy(more, thresholds)
  BY DEF Report, PolicyLinks
<1>5. result.autonomy = Autonomy(one, thresholds)
  <2>1. result = Report(result.items, result.trusted, result.exceeded,
                        result.produced, result.at)
    BY DEF IInv, Derived
  <2>2. Report(result.items, result.trusted, result.exceeded, result.produced,
               result.at).autonomy = Autonomy(one, thresholds)
    BY DEF Report, PolicyLinks
  <2>. QED  BY <2>1, <2>2
<1>. QED  BY <1>3, <1>4, <1>5

\* No further signal, whatever it claims, would raise the ceiling.
THEOREM SignalsNeverHelpHolds == Spec => []SignalsNeverHelp
BY ResultsAreDerived, DerivedSignalsNeverHelp, PTL

\* Envelopes that are not trusted change nothing but the count
\* (fabric.py:242, 258-262, 327-353).
LEMMA DerivedUntrustedIsInert == IInv => UntrustedIsInert
<1>. SUFFICES ASSUME IInv, result # NoAnalysis
              PROVE  result.links = Report(result.trusted, result.trusted, result.exceeded,
                                           result.produced, result.at).links
  BY DEF UntrustedIsInert
<1>. DEFINE items   == result.items
            trusted == result.trusted
<1>1. trusted \subseteq items
  BY DEF IInv, Derived, Trustable
<1>2. \A s : From(items, trusted, s) = From(trusted, trusted, s)
  BY <1>1 DEF From
<1>3. \A s : Candidates(items, trusted, s) = Candidates(trusted, trusted, s)
  BY <1>2 DEF Candidates
<1>4. \A g : Bound(items, trusted, g) = Bound(trusted, trusted, g)
  BY <1>1 DEF Bound
<1>5. RequiredSignals(policy, items, trusted) = RequiredSignals(policy, trusted, trusted)
  BY <1>2 DEF RequiredSignals
<1>6. FreshnessSignals(policy, items, trusted, result.at)
        = FreshnessSignals(policy, trusted, trusted, result.at)
  BY <1>3 DEF FreshnessSignals
<1>7. Consistent(policy, items, trusted, result.exceeded)
        = Consistent(policy, trusted, trusted, result.exceeded)
  BY <1>4 DEF Consistent, Missing, Conflicts
<1>8. PolicyLinks = PolicySignals(policy, trusted, trusted, result.exceeded, result.at)
  BY <1>5, <1>6, <1>7 DEF PolicyLinks, PolicySignals
<1>. QED  BY <1>8, LinksOfResult DEF Report

\* Envelopes that are not trusted change nothing but the count of those read.
THEOREM UntrustedIsInertHolds == Spec => []UntrustedIsInert
BY ResultsAreDerived, DerivedUntrustedIsInert, PTL
---------------------------------------------------------------------------
\* Evidence that is fresh now and was not from the future before, was fresh
\* before.
LEMMA FreshBefore ==
    ASSUME NEW p, p.max_age \in Int, NEW candidates,
           \A e \in candidates : e.verified_at \in Int,
           NEW t \in Int, NEW u \in Int, t <= u,
           \A e \in candidates : e.verified_at <= t,
           Fresh(p, candidates, u)
    PROVE  Fresh(p, candidates, t)
<1>1. PICK e \in candidates : u - e.verified_at <= p.max_age
  BY DEF Fresh
<1>2. t - e.verified_at <= p.max_age
  BY <1>1
<1>. QED  BY <1>2 DEF Fresh

LEMMA AutonomyIsLevel ==
    ASSUME NEW links, NEW p
    PROVE  Autonomy(links, p) \in 1 .. 4
BY DEF Autonomy

\* Between two analyses of the same evidence, time alone never raises the
\* ceiling (fabric.py:358-370).
LEMMA StepWaitingNeverHelps ==
    IInv /\ [Next]_vars =>
        [(/\ result # NoAnalysis
          /\ result'.items = result.items
          /\ result'.trusted = result.trusted
          /\ result'.exceeded = result.exceeded
          /\ \A e \in result.trusted : e.verified_at <= result.at)
         => result'.autonomy <= result.autonomy]_result
<1>. SUFFICES ASSUME IInv, Analyze, result # NoAnalysis,
                     result'.items = result.items,
                     result'.trusted = result.trusted,
                     result'.exceeded = result.exceeded,
                     \A e \in result.trusted : e.verified_at <= result.at
              PROVE  result'.autonomy <= result.autonomy
  BY DEF Next, Submit, Produce, Tick, vars
<1>. DEFINE items    == result.items
            trusted  == result.trusted
            over     == result.exceeded
            before   == PolicySignals(policy, items, trusted, over, result.at)
            after    == PolicySignals(policy, items, trusted, over, now)
            links    == AllLinks(result.produced \cup before)
            newLinks == AllLinks(produced \cup after)
<1>1. /\ result = Report(items, trusted, over, result.produced, result.at)
      /\ result.produced \subseteq produced
      /\ result.at \in Int /\ now \in Int /\ result.at <= now
      /\ items \subseteq Envelopes
  BY FabricAssumption DEF IInv, Typed, Derived
<1>2. result' = Report(items, trusted, over, produced, now)
  <2>1. PICK i, t, o : result' = Report(i, t, o, produced, now)
    BY DEF Analyze
  <2>2. result'.items = i /\ result'.trusted = t /\ result'.exceeded = o
    BY <2>1 DEF Report
  <2>. QED  BY <2>1, <2>2
<1>3. result.autonomy = Autonomy(links, thresholds)
  <2>1. Report(items, trusted, over, result.produced, result.at).autonomy
          = Autonomy(links, thresholds)
    BY DEF Report
  <2>. QED  BY <1>1, <2>1
<1>4. result'.autonomy = Autonomy(newLinks, thresholds)
  BY <1>2 DEF Report
<1>5. thresholds \in LinkPolicies
  BY FabricAssumption DEF IInv, Typed
<1>6. CASE \E name : Signal(name, FALSE) \in newLinks
  <2>1. result'.autonomy = 1
    BY <1>4, <1>5, <1>6, OpenConditionBlocks
  <2>2. result.autonomy \in 1 .. 4
    BY <1>3, AutonomyIsLevel
  <2>. QED  BY <2>1, <2>2
<1>7. CASE \A name : Signal(name, FALSE) \notin newLinks
  <2>1. ASSUME NEW s \in FreshSources(policy)
        PROVE  LET mine == Candidates(items, trusted, s)
               IN  Fresh(policy, mine, now) /\ Fresh(policy, mine, result.at)
    <3>. DEFINE mine == Candidates(items, trusted, s)
    <3>1. Signal(FreshnessName(s), Fresh(policy, mine, now)) \in newLinks
      BY DEF AllLinks, PolicySignals, FreshnessSignals
    <3>2. Fresh(policy, mine, now)
      <4>1. Fresh(policy, mine, now) \in BOOLEAN
        BY DEF Fresh
      <4>. QED  BY <1>7, <3>1, <4>1, SignalIsClosed
    <3>3. \A e \in mine : e.verified_at <= result.at
      BY DEF Candidates, From
    <3>4. \A e \in mine : e.verified_at \in Int
      BY <1>1, FabricAssumption DEF Candidates, From, IsEnvelope
    <3>5. policy.max_age \in Int
      BY FabricAssumption DEF IInv, Typed, IsPolicy
    <3>6. Fresh(policy, mine, result.at)
      BY <1>1, <3>2, <3>3, <3>4, <3>5, FreshBefore
    <3>. QED  BY <3>2, <3>6
  <2>2. FreshnessSignals(policy, items, trusted, now)
          = FreshnessSignals(policy, items, trusted, result.at)
    <3>1. \A s \in FreshSources(policy) :
              Signal(FreshnessName(s), Fresh(policy, Candidates(items, trusted, s), now))
                = Signal(FreshnessName(s),
                         Fresh(policy, Candidates(items, trusted, s), result.at))
      BY <2>1 DEF Signal
    <3>. QED  BY <3>1 DEF FreshnessSignals
  <2>3. before = after
    BY <2>2 DEF PolicySignals
  <2>4. links \subseteq newLinks
    <3>1. result.produced \cup before \subseteq produced \cup after
      BY <1>1, <2>3
    <3>. QED  BY <3>1, LinksAreMonotone
  <2>. QED  BY <1>3, <1>4, <1>5, <2>4, CeilingIsMonotone
<1>. QED  BY <1>6, <1>7

\* With the same evidence, none of it from the future, a later analysis does
\* not raise the ceiling.
THEOREM WaitingNeverHelpsHolds == Spec => WaitingNeverHelps
BY ResultsAreDerived, StepWaitingNeverHelps, PTL DEF Spec, WaitingNeverHelps
=============================================================================
