------------------------------- MODULE Fabric -------------------------------
(***************************************************************************)
(* analyze_assurance_fabric of radiald/fabric.py: evidence envelopes and   *)
(* the signals of producers become one ceiling of autonomy.  Envelopes and *)
(* signals arrive and time passes between two analyses; the external       *)
(* verifier may answer anything, or raise.                                 *)
(***************************************************************************)
EXTENDS WeakLink, Sequences, FiniteSets

CONSTANTS
    Sources,       \* names of evidence producers
    Fields,        \* names of binding fields
    Envelopes,     \* the envelopes that may be submitted
    Producible,    \* the signals producers may report
    Policies,      \* evidence policies
    Thresholds,    \* weak-link policies
    MaxSubmitted,  \* bound on the envelopes given to an analysis
    MaxProduced,   \* bound on the signals of producers
    MaxTime,       \* bound on the clock
    NoAnalysis     \* the result before the first analysis

\* Names of signals, as sequences of parts.
RequiredName(s)  == <<"required_evidence", s>>
FreshnessName(s) == <<"evidence_freshness", s>>
BindingName      == <<"cross_evidence_binding">>
BudgetName       == <<"evidence_budget">>
ContradictionName(n) == <<"evidence_contradiction", n>>

\* An envelope's bindings are a function from some fields to values; it is
\* intact when its attestation digest is that of its own fields.
IsEnvelope(e) ==
    /\ e.source \in Sources
    /\ e.scope \in {"historical", "preflight"}
    /\ e.disposition \in {"VERIFIED", "FAILED", "INDETERMINATE"}
    /\ e.verified_at \in Int
    /\ e.intact \in BOOLEAN
    /\ DOMAIN e.bindings \subseteq Fields

IsPolicy(p) ==
    /\ p.required_sources \subseteq Sources
    /\ p.required_fields \subseteq Fields
    /\ p.preflight_sources \subseteq p.required_sources
    /\ p.require_preflight \in BOOLEAN
    /\ p.require_preflight => p.required_sources # {}
    /\ p.max_age \in Nat
    /\ p.max_envelopes \in 1 .. 1024

IsSignal(s) ==
    /\ s.severity \in Hundredths
    /\ s.confidence \in Hundredths
    /\ s.status \in Statuses

ASSUME FabricAssumption ==
    /\ \A e \in Envelopes : IsEnvelope(e)
    /\ \A p \in Policies : IsPolicy(p)
    /\ \A s \in Producible : IsSignal(s)
    /\ Thresholds \subseteq LinkPolicies
    /\ {MaxSubmitted, MaxProduced, MaxTime} \subseteq Nat
    /\ IsFiniteSet(Producible)

VARIABLES policy, thresholds, submitted, produced, now, result

vars == <<policy, thresholds, submitted, produced, now, result>>
---------------------------------------------------------------------------
\* What an analysis looks at: the first max_envelopes envelopes, and whether
\* there were more.
\* Bug: the one envelope more that tells whether the limit is exceeded is kept.
SampleOneMore(envelopes, limit) ==
    {envelopes[i] : i \in {j \in DOMAIN envelopes : j <= limit + 1}}
Sample(envelopes, limit) == {envelopes[i] : i \in {j \in DOMAIN envelopes : j <= limit}}
BudgetExceeded(envelopes, limit) == Len(envelopes) > limit

\* The envelopes that reach the external verifier; only these can be trusted,
\* and each distinct one has one verdict per analysis.
\* (Definitions marked Bug are not part of the specification: they are what the
\* next one would be with a plausible mistake.)
\* Bug: the attestation digest is not compared.
TrustableUnchecked(items) == {e \in items : e.disposition = "VERIFIED"}
Trustable(items) == {e \in items : e.disposition = "VERIFIED" /\ e.intact}

\* The propagation depth of each condition of the policy.
PolicyDepth == [required_evidence      |-> 1, evidence_freshness |-> 3,
                cross_evidence_binding |-> 4, evidence_budget    |-> 4,
                evidence_contradiction |-> 4]

Signal(name, closed) ==
    [name |-> name, severity |-> 100, confidence |-> 100,
     status |-> IF closed THEN "CLOSED" ELSE "UNRESOLVED",
     depth |-> PolicyDepth[name[1]], reversible |-> FALSE]

BudgetSignals(exceeded) == IF exceeded THEN {Signal(BudgetName, FALSE)} ELSE {}

From(items, trusted, s) == {e \in items : e.source = s /\ e \in trusted}

RequiredSignals(p, items, trusted) ==
    {Signal(RequiredName(s), From(items, trusted, s) # {}) : s \in p.required_sources}

FreshSources(p) ==
    IF p.require_preflight /\ p.preflight_sources = {} THEN p.required_sources
                                                       ELSE p.preflight_sources

\* The trusted preflight evidence of a source.
\* Bug: the fresh evidence of one source stands for that of another.
CandidatesOfAny(items, trusted, s) == {e \in items \cap trusted : e.scope = "preflight"}
Candidates(items, trusted, s) == {e \in From(items, trusted, s) : e.scope = "preflight"}

\* None is from the future and the youngest is young enough.
\* Bug: the age is compared the wrong way round.
FreshWhenOld(p, candidates, t) ==
    /\ \A e \in candidates : e.verified_at <= t
    /\ \E e \in candidates : t - e.verified_at >= p.max_age
Fresh(p, candidates, t) ==
    /\ \A e \in candidates : e.verified_at <= t
    /\ \E e \in candidates : t - e.verified_at <= p.max_age

FreshnessSignals(p, items, trusted, t) ==
    {Signal(FreshnessName(s), Fresh(p, Candidates(items, trusted, s), t)) :
        s \in FreshSources(p)}

\* The values trusted evidence gives to a field.
\* Bug: the values of envelopes that nobody trusts count too.
BoundByAny(items, trusted, f) ==
    {e.bindings[f] : e \in {x \in items : f \in DOMAIN x.bindings}}
Bound(items, trusted, f) ==
    {e.bindings[f] : e \in {x \in items : x \in trusted /\ f \in DOMAIN x.bindings}}

Missing(p, items, trusted) ==
    {f \in p.required_fields : Bound(items, trusted, f) = {}}
Conflicts(p, items, trusted) ==
    {f \in p.required_fields : \E v, w \in Bound(items, trusted, f) : v # w}

\* Bug: a field with two values is as good as one with one.
ConsistentIfComplete(p, items, trusted, exceeded) ==
    /\ ~exceeded
    /\ Missing(p, items, trusted) = {}
Consistent(p, items, trusted, exceeded) ==
    /\ ~exceeded
    /\ Missing(p, items, trusted) = {}
    /\ Conflicts(p, items, trusted) = {}

PolicySignals(p, items, trusted, exceeded, t) ==
    BudgetSignals(exceeded)
    \cup RequiredSignals(p, items, trusted)
    \cup FreshnessSignals(p, items, trusted, t)
    \cup {Signal(BindingName, Consistent(p, items, trusted, exceeded))}

\* One more link for every name that is both closed and not.
\* Bug: only an unresolved signal contradicts a closed one.
ContradictionsUnresolved(links) ==
    {Signal(ContradictionName(s.name), FALSE) : s \in
        {x \in links : /\ x.status = "CLOSED"
                       /\ \E y \in links : y.name = x.name /\ y.status = "UNRESOLVED"}}
Contradictions(links) ==
    {Signal(ContradictionName(s.name), FALSE) : s \in
        {x \in links : /\ x.status = "CLOSED"
                       /\ \E y \in links : y.name = x.name /\ y.status # "CLOSED"}}

\* Bug: a signal that is closed somewhere is closed.
AllLinksClosing(links) ==
    {s \in links : s.status # "CLOSED" =>
                       ~ \E t \in links : t.name = s.name /\ t.status = "CLOSED"}
AllLinks(links) == links \cup Contradictions(links)

\* What analyze_assurance_fabric reports, with what it looked at.
Report(items, trusted, exceeded, signals, t) ==
    LET links == AllLinks(signals \cup PolicySignals(policy, items, trusted, exceeded, t))
    IN  [items      |-> items,
         trusted    |-> trusted,
         exceeded   |-> exceeded,
         produced   |-> signals,
         at         |-> t,
         links      |-> links,
         consistent |-> Consistent(policy, items, trusted, exceeded),
         autonomy   |-> Autonomy(links, thresholds)]
---------------------------------------------------------------------------
Init ==
    /\ policy \in Policies
    /\ thresholds \in Thresholds
    /\ submitted = <<>>
    /\ produced = {}
    /\ now = 0
    /\ result = NoAnalysis

\* An envelope is given to the next analysis, after those already there.
Submit(e) ==
    /\ Len(submitted) < MaxSubmitted
    /\ submitted' = Append(submitted, e)
    /\ UNCHANGED <<policy, thresholds, produced, now, result>>

\* A producer reports a signal.
Produce(s) ==
    /\ Cardinality(produced \cup {s}) <= MaxProduced
    /\ produced' = produced \cup {s}
    /\ UNCHANGED <<policy, thresholds, submitted, now, result>>

Tick ==
    /\ now < MaxTime
    /\ now' = now + 1
    /\ UNCHANGED <<policy, thresholds, submitted, produced, result>>

\* The external verifier accepts the envelopes of trusted and no other.
Analyze ==
    LET items == Sample(submitted, policy.max_envelopes)
    IN  \E trusted \in SUBSET Trustable(items) :
            /\ result' = Report(items, trusted,
                                BudgetExceeded(submitted, policy.max_envelopes),
                                produced, now)
            /\ UNCHANGED <<policy, thresholds, submitted, produced, now>>

Next ==
    \/ \E e \in Envelopes : Submit(e)
    \/ \E s \in Producible : Produce(s)
    \/ Tick
    \/ Analyze

Spec == Init /\ [][Next]_vars
---------------------------------------------------------------------------
\* The types; an analysis never looks at more envelopes than the policy allows
\* (fabric.py:219).
FabricTypeOK ==
    /\ policy \in Policies
    /\ thresholds \in Thresholds
    /\ submitted \in Seq(Envelopes)
    /\ produced \subseteq Producible
    /\ now \in 0 .. MaxTime
    /\ result # NoAnalysis =>
           /\ result.items \subseteq Envelopes
           /\ Cardinality(result.items) <= policy.max_envelopes
           /\ result.trusted \subseteq result.items
           /\ result.produced \subseteq Producible
           /\ result.at \in 0 .. now
           /\ \A s \in result.links : IsSignal(s)
           /\ result.autonomy \in DOMAIN Levels

\* The analysis leaves more than nothing to the machine.
LetsAct == result # NoAnalysis /\ result.autonomy > 1

\* The machine may act only if no envelope was left unread, every required
\* source has an intact envelope that its verifier accepted, and every
\* required field is bound by one (fabric.py:223-242, 327-342, 382-399).
FailsClosed ==
    LetsAct =>
        /\ ~result.exceeded
        /\ \A s \in policy.required_sources : \E e \in result.trusted :
               e.source = s /\ e.disposition = "VERIFIED" /\ e.intact
        /\ \A f \in policy.required_fields : \E e \in result.trusted :
               f \in DOMAIN e.bindings

\* The machine may act only if every source that owes preflight evidence has
\* trusted evidence of its own within the age limit, and none from the
\* future; another source's does not help (fabric.py:344-380).
FreshPerSource ==
    LetsAct =>
        \A s \in policy.required_sources :
            (s \in policy.preflight_sources
                \/ (policy.require_preflight /\ policy.preflight_sources = {})) =>
                /\ \E e \in result.trusted :
                       /\ e.source = s /\ e.scope = "preflight"
                       /\ e.verified_at >= result.at - policy.max_age
                /\ \A e \in result.trusted :
                       e.source = s /\ e.scope = "preflight"
                           => e.verified_at <= result.at

\* The machine may act only if all trusted envelopes are about one action:
\* none disagrees with another on a required field (fabric.py:246-276).
OneAction ==
    LetsAct =>
        \A f \in policy.required_fields : \A d, e \in result.trusted :
            (f \in DOMAIN d.bindings /\ f \in DOMAIN e.bindings)
                => d.bindings[f] = e.bindings[f]

\* Envelopes that are not trusted change nothing but the count: the links are
\* those of the trusted envelopes alone (fabric.py:242, 258-262, 327-353).
UntrustedIsInert ==
    result # NoAnalysis =>
        result.links = Report(result.trusted, result.trusted, result.exceeded,
                              result.produced, result.at).links

\* Whoever says that a link is closed, the machine may not act while anybody
\* says that it is not, however mild (fabric.py:432-455).
ContradictionsBlock ==
    LetsAct => \A x, y \in result.links :
                   x.name = y.name => (x.status = "CLOSED" <=> y.status = "CLOSED")

\* No further signal, not even one that declares a condition of the policy
\* closed, would raise the ceiling (fabric.py:477-480, weaklink.py:95-105).
SignalsNeverHelp ==
    result # NoAnalysis =>
        \A s \in Producible :
            Report(result.items, result.trusted, result.exceeded,
                   result.produced \cup {s}, result.at).autonomy <= result.autonomy

\* Between two analyses of the same evidence, time alone never raises the
\* ceiling, unless some evidence was dated in the future (fabric.py:358-370).
WaitingNeverHelps ==
    [][(/\ result # NoAnalysis
        /\ result'.items = result.items
        /\ result'.trusted = result.trusted
        /\ result'.exceeded = result.exceeded
        /\ \A e \in result.trusted : e.verified_at <= result.at)
       => result'.autonomy <= result.autonomy]_result

\* Future-dated evidence remains unresolved: evidence all of which is from the
\* future closes no requirement (DDC_GATES.md:95-97).
FutureEvidenceUnresolved ==
    result # NoAnalysis =>
        \A s \in policy.required_sources :
            Signal(RequiredName(s), TRUE) \in result.links \ result.produced =>
                \E e \in result.trusted : e.source = s /\ e.verified_at <= result.at
=============================================================================
