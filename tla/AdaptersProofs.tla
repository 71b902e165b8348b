---------------------------- MODULE AdaptersProofs ----------------------------
(***************************************************************************)
(* What a bundle of reports of all five producers must say for the machine *)
(* to act, for any dimensions and findings.  Under the default thresholds  *)
(* every condition that is not closed weighs enough to lower the ceiling,  *)
(* and every doubt about a report enough to leave everything to a human.   *)
(***************************************************************************)
EXTENDS Adapters, Induction

\* Any condition of adapters.py lowers the ceiling unless it is closed.
Weighs(s) ==
    /\ ResidualRisk(s) \in Int
    /\ s.status = "CLOSED" <=> ResidualRisk(s) < 200000

\* Left to a human.
Heavy(s) == ResidualRisk(s) >= 800000

\* The severities and confidences of adapters.py.
LEMMA LinkWeighs ==
    ASSUME NEW s, s.severity \in 60 .. 100, s.confidence \in 90 .. 100,
           \/ s.status \in {"CLOSED", "UNRESOLVED"}
           \/ s.status = "CONTAINED" /\ s.severity >= 80 /\ s.confidence >= 95
    PROVE  /\ Weighs(s)
           /\ s.status = "UNRESOLVED" /\ s.severity >= 95 /\ s.confidence = 100 => Heavy(s)
<1>1. PICK n \in Int : n = s.severity * s.confidence
  BY SMT
<1>2. /\ n >= 60 * 90
      /\ s.severity >= 80 /\ s.confidence >= 95 => n >= 80 * 95
      /\ s.severity >= 95 /\ s.confidence = 100 => n >= 95 * 100
  BY <1>1, SMT
<1>3. ResidualRisk(s) = n * Multiplier(s.status)
  BY <1>1 DEF ResidualRisk
<1>4. CASE s.status = "CLOSED"
  <2>1. ResidualRisk(s) = 0
    BY <1>3, <1>4 DEF Multiplier
  <2> QED  BY <1>4, <2>1 DEF Weighs
<1>5. CASE s.status = "UNRESOLVED"
  <2>1. ResidualRisk(s) = n * 100
    BY <1>3, <1>5 DEF Multiplier
  <2> QED  BY <1>2, <1>5, <2>1 DEF Weighs, Heavy
<1>6. CASE s.status = "CONTAINED" /\ s.severity >= 80 /\ s.confidence >= 95
  <2>1. ResidualRisk(s) = n * 35
    BY <1>3, <1>6 DEF Multiplier
  <2> QED  BY <1>2, <1>6, <2>1 DEF Weighs
<1> QED
  BY <1>4, <1>5, <1>6
---------------------------------------------------------------------------
\* What is known of the links a report gives: they are all closed exactly if
\* the report is verified and affirms the action, and a doubt weighs heavily.
InForce(p, x) == Verified(p, x) /\ (p = "action" => x.mode = "preflight")

Told(p, x) ==
    /\ \A s \in Signals(p, x) : Weighs(s)
    /\ (\A s \in Signals(p, x) : s.status = "CLOSED") <=> Verified(p, x) /\ Affirms(p, x)
    /\ ~InForce(p, x) => \E s \in Signals(p, x) : Heavy(s)

LEMMA DsrTold ==
    ASSUME NEW x \in Reports["dsr"], x # NotSupplied, x # Malformed
    PROVE  Told("dsr", x)
<1>1. PICK a, b : /\ a = Link(<<"dsr_result_trust">>, 100, 100, Closing(x.verified), 0, FALSE)
                  /\ b = Link(<<"remote_execution_outcome">>, 90, 100,
                              Closing(x.verified /\ x.passed /\ x.exitZero), 1, FALSE)
  OBVIOUS
<1>2. Signals("dsr", x) = {a, b}
  BY <1>1 DEF Signals, dsr_result_signals
<1>3. /\ a.severity = 100 /\ a.confidence = 100
      /\ a.status = IF x.verified THEN "CLOSED" ELSE "UNRESOLVED"
  BY <1>1 DEF Link, Closing
<1>4. /\ b.severity = 90 /\ b.confidence = 100
      /\ b.status = IF x.verified /\ x.passed /\ x.exitZero THEN "CLOSED" ELSE "UNRESOLVED"
  BY <1>1 DEF Link, Closing
<1>5. Weighs(a) /\ (a.status = "UNRESOLVED" => Heavy(a))
  BY <1>3, LinkWeighs
<1>6. Weighs(b)
  BY <1>4, LinkWeighs
<1>7. /\ Verified("dsr", x) <=> x.verified
      /\ Affirms("dsr", x) <=> x.passed /\ x.exitZero
  BY DEF Verified, Affirms
<1> QED
  BY <1>2, <1>3, <1>4, <1>5, <1>6, <1>7 DEF Told, InForce

LEMMA TransitionTold ==
    ASSUME NEW x \in Reports["transition"], x # NotSupplied, x # Malformed
    PROVE  Told("transition", x)
<1>1. PICK a : a = Link(<<"authorization_transition_closure">>,
                        IF x.disposition \in {"CLOSED", "FAILED"} THEN 100 ELSE 85, 100,
                        Closing(x.disposition = "CLOSED"), 3, FALSE)
  OBVIOUS
<1>2. Signals("transition", x) = {a}
  BY <1>1 DEF Signals, transition_closure_signals
<1>3. /\ a.severity \in 85 .. 100 /\ a.confidence = 100
      /\ a.status = IF x.disposition = "CLOSED" THEN "CLOSED" ELSE "UNRESOLVED"
  BY <1>1 DEF Link, Closing
<1>4. Weighs(a)
  BY <1>3, LinkWeighs
<1>5. /\ Verified("transition", x)
      /\ Affirms("transition", x) <=> x.disposition = "CLOSED"
  BY DEF Verified, Affirms
<1> QED
  BY <1>2, <1>3, <1>4, <1>5 DEF Told, InForce

LEMMA RenderdiffTold ==
    ASSUME NEW x \in Reports["renderdiff"], x # NotSupplied, x # Malformed
    PROVE  Told("renderdiff", x)
<1>1. PICK a, b, c :
         /\ a = Link(<<"renderdiff_receipt_trust">>, 95, 100, Closing(x.verified), 0, FALSE)
         /\ b = Link(<<"representation_divergence">>, 95, 100,
                     Closing(x.verified /\ NotMaterial(x)), 2, TRUE)
         /\ c = Link(<<"representation_observer_coverage">>, 60, 90,
                     Closing(x.verified /\ x.complete), 1, TRUE)
  OBVIOUS
<1>2. Signals("renderdiff", x) = {a, b, c}
  BY <1>1 DEF Signals, renderdiff_signals
<1>3. /\ a.severity = 95 /\ a.confidence = 100
      /\ a.status = IF x.verified THEN "CLOSED" ELSE "UNRESOLVED"
  BY <1>1 DEF Link, Closing
<1>4. /\ b.severity = 95 /\ b.confidence = 100
      /\ b.status = IF x.verified /\ NotMaterial(x) THEN "CLOSED" ELSE "UNRESOLVED"
  BY <1>1 DEF Link, Closing
<1>5. /\ c.severity = 60 /\ c.confidence = 90
      /\ c.status = IF x.verified /\ x.complete THEN "CLOSED" ELSE "UNRESOLVED"
  BY <1>1 DEF Link, Closing
<1>6. Weighs(a) /\ (a.status = "UNRESOLVED" => Heavy(a))
  BY <1>3, LinkWeighs
<1>7. Weighs(b) /\ Weighs(c)
  BY <1>4, <1>5, LinkWeighs
<1>8. Verified("renderdiff", x) <=> x.verified
  BY DEF Verified
<1>9. Affirms("renderdiff", x) <=> x.complete /\ NotMaterial(x)
  <2>1. x.assessment \in Divergences /\ x.summary \in Divergences
    BY DEF Reports
  <2>2. {x.assessment, x.summary} = {"missing"}
            <=> x.assessment = "missing" /\ x.summary = "missing"
    OBVIOUS
  <2> QED  BY <2>1, <2>2 DEF Affirms, NotMaterial, Divergences
<1> QED
  BY <1>2, <1>3, <1>4, <1>5, <1>6, <1>7, <1>8, <1>9 DEF Told, InForce

LEMMA PhysicalTold ==
    ASSUME NEW x \in Reports["physical"], x # NotSupplied, x # Malformed
    PROVE  Told("physical", x)
<1>1. PICK a, b, c :
         /\ a = Link(<<"physical_gate_trust">>, 100, 100, Closing(x.verified), 0, FALSE)
         /\ b = Link(<<"physical_action_gate">>, 100, 100,
                     Verdict(x.verified /\ x.disposition = "ALLOW",
                             x.verified /\ x.disposition = "BLOCK"), 1, FALSE)
         /\ c = Link(<<"physical_state_lineage">>, 95, 100,
                     Closing(x.lineage = "ok" /\ x.verified), 2, FALSE)
  OBVIOUS
<1>. DEFINE Read == {j \in DOMAIN x.findings : j <= FindingLimit}
            F(i) == Link(<<"physical_finding", x.findings[i].code>>, 90, 95,
                         FindingStatus(x, x.findings[i]), 2, TRUE)
<1>2. Signals("physical", x) = {a, b, c} \cup {F(i) : i \in Read}
  BY <1>1 DEF Signals, physical_gate_signals
<1>3. /\ a.severity = 100 /\ a.confidence = 100
      /\ a.status = IF x.verified THEN "CLOSED" ELSE "UNRESOLVED"
  BY <1>1 DEF Link, Closing
<1>4. /\ b.severity = 100 /\ b.confidence = 100
      /\ b.status \in {"CLOSED", "CONTAINED", "UNRESOLVED"}
      /\ b.status = "CLOSED" <=> x.verified /\ x.disposition = "ALLOW"
  BY <1>1 DEF Link, Verdict
<1>5. /\ c.severity = 95 /\ c.confidence = 100
      /\ c.status = IF x.lineage = "ok" /\ x.verified THEN "CLOSED" ELSE "UNRESOLVED"
  BY <1>1 DEF Link, Closing
<1>6. Weighs(a) /\ (a.status = "UNRESOLVED" => Heavy(a))
  BY <1>3, LinkWeighs
<1>7. Weighs(b) /\ Weighs(c)
  BY <1>4, <1>5, LinkWeighs
<1>8. ASSUME NEW i \in Read  PROVE Weighs(F(i)) /\ F(i).status # "CLOSED"
  <2>1. PICK f : f = F(i)
    OBVIOUS
  <2>2. /\ f.severity = 90 /\ f.confidence = 95
        /\ f.status \in {"CONTAINED", "UNRESOLVED"}
    BY <2>1 DEF Link, FindingStatus, Verdict
  <2>3. Weighs(f)
    BY <2>2, LinkWeighs
  <2> QED  BY <2>1, <2>2, <2>3
<1>9. Read = {} <=> x.findings = <<>>
  <2>1. x.findings \in Seq([code : STRING, disposition : Decisions \cup {"inherited"}])
    BY AdaptersAssumption DEF Reports
  <2>2. x.findings # <<>> => 1 \in Read
    BY <2>1, AdaptersAssumption
  <2> QED  BY <2>2
<1>10. /\ Verified("physical", x) <=> x.verified
       /\ Affirms("physical", x) <=>
             x.disposition = "ALLOW" /\ x.findings = <<>> /\ x.lineage = "ok"
  BY DEF Verified, Affirms
<1>. HIDE DEF Read, F
<1>11. \A s \in Signals("physical", x) : Weighs(s)
  BY <1>2, <1>6, <1>7, <1>8
<1>12. (\A s \in Signals("physical", x) : s.status = "CLOSED")
           <=> x.verified /\ x.disposition = "ALLOW" /\ x.lineage = "ok" /\ Read = {}
  BY <1>2, <1>3, <1>4, <1>5, <1>8
<1> QED
  BY <1>2, <1>3, <1>6, <1>9, <1>10, <1>11, <1>12 DEF Told, InForce

LEMMA ActionTold ==
    ASSUME NEW x \in Reports["action"], x # NotSupplied, x # Malformed
    PROVE  Told("action", x)
<1>. DEFINE allowed == TrustClosed(x) /\ x.decision = "ALLOW"
            blocked == TrustClosed(x) /\ x.decision = "BLOCK"
            F(d) == Link(<<"receipt", d>>, 80, 95,
                         Verdict(TrustClosed(x) /\ d \in x.passed, blocked), 0, TRUE)
<1>0. PICK a, b :
         /\ a = Link(<<"action_receipt_trust">>, 100, 100, Closing(TrustClosed(x)), 0, FALSE)
         /\ b = Link(<<"action_authorization">>, 95, 100, Verdict(allowed, blocked), 1, FALSE)
  OBVIOUS
<1>1. PICK c, e :
         /\ c = Link(<<"authorization_freshness">>, 95, 100, Closing(Current(x)), 2, FALSE)
         /\ e = Link(<<"action_execution_binding">>, 90, 100,
                     Verdict(allowed /\ x.executed, blocked /\ ~x.executed), 1, FALSE)
  OBVIOUS
<1>2. Signals("action", x) = {a, b, c, e} \cup {F(d) : d \in Dimensions}
  BY <1>0, <1>1 DEF Signals, action_receipt_signals
<1>3. /\ a.severity = 100 /\ a.confidence = 100
      /\ a.status = IF TrustClosed(x) THEN "CLOSED" ELSE "UNRESOLVED"
  BY <1>0 DEF Link, Closing
<1>4. /\ b.severity = 95 /\ b.confidence = 100
      /\ b.status \in {"CLOSED", "CONTAINED", "UNRESOLVED"}
      /\ b.status = "CLOSED" <=> allowed
  BY <1>0 DEF Link, Verdict
<1>5. /\ c.severity = 95 /\ c.confidence = 100
      /\ c.status = IF Current(x) THEN "CLOSED" ELSE "UNRESOLVED"
  BY <1>1 DEF Link, Closing
<1>6. /\ e.severity = 90 /\ e.confidence = 100
      /\ e.status \in {"CLOSED", "CONTAINED", "UNRESOLVED"}
      /\ e.status = "CLOSED" <=> allowed /\ x.executed
  BY <1>1 DEF Link, Verdict
<1>7. Weighs(a) /\ Weighs(b) /\ Weighs(c) /\ Weighs(e)
  BY <1>3, <1>4, <1>5, <1>6, LinkWeighs
<1>8. /\ a.status = "UNRESOLVED" => Heavy(a)
      /\ c.status = "UNRESOLVED" => Heavy(c)
  BY <1>3, <1>5, LinkWeighs
<1>9. ASSUME NEW d \in Dimensions
      PROVE  Weighs(F(d)) /\ (F(d).status = "CLOSED" <=> TrustClosed(x) /\ d \in x.passed)
  <2>1. PICK f : f = F(d)
    OBVIOUS
  <2>2. /\ f.severity = 80 /\ f.confidence = 95
        /\ f.status \in {"CLOSED", "CONTAINED", "UNRESOLVED"}
        /\ f.status = "CLOSED" <=> TrustClosed(x) /\ d \in x.passed
    BY <2>1 DEF Link, Verdict
  <2>3. Weighs(f)
    BY <2>2, LinkWeighs
  <2> QED  BY <2>1, <2>2, <2>3
<1>10. /\ Verified("action", x) <=> TrustClosed(x)
       /\ Current(x) <=> TrustClosed(x) /\ x.mode = "preflight"
       /\ Affirms("action", x) <=> /\ x.decision = "ALLOW" /\ x.passed = Dimensions
                                   /\ x.executed /\ x.mode = "preflight"
  BY DEF Verified, Affirms, TrustClosed, Current
<1>11. (\A d \in Dimensions : d \in x.passed) <=> x.passed = Dimensions
  BY DEF Reports
<1>. HIDE DEF F
<1>12. \A s \in Signals("action", x) : Weighs(s)
  BY <1>2, <1>7, <1>9
<1>13. (\A s \in Signals("action", x) : s.status = "CLOSED")
           <=> allowed /\ Current(x) /\ x.executed /\ \A d \in Dimensions : d \in x.passed
  BY <1>2, <1>3, <1>4, <1>5, <1>6, <1>9
<1> QED
  BY <1>2, <1>3, <1>5, <1>8, <1>10, <1>11, <1>12, <1>13 DEF Told, InForce
---------------------------------------------------------------------------
\* Reports are of their producers, and a result is that of the present bundle.
AInv ==
    /\ supplied = [p \in Producers |-> supplied[p]]
    /\ \A p \in Producers : supplied[p] \in Reports[p] \cup {NotSupplied, Malformed}
    /\ report # NoReport => report.autonomy = Ceiling(supplied)

LEMMA ProducersAre == Producers = {"action", "physical", "dsr", "renderdiff", "transition"}
BY DEF Producers, Reports

LEMMA AllTold ==
    ASSUME NEW p \in Producers, NEW x \in Reports[p], x # NotSupplied, x # Malformed
    PROVE  Told(p, x)
BY ProducersAre, ActionTold, PhysicalTold, DsrTold, RenderdiffTold, TransitionTold

LEMMA MalformedTold ==
    ASSUME NEW p, Malformed # NotSupplied
    PROVE  Told(p, Malformed)
<1>1. PICK a : a = Link(<<p>>, 100, 100, "UNRESOLVED", 0, FALSE)
  OBVIOUS
<1>2. Signals(p, Malformed) = {a}
  BY <1>1 DEF Signals, Format
<1>3. a.severity = 100 /\ a.confidence = 100 /\ a.status = "UNRESOLVED"
  BY <1>1 DEF Link
<1>4. Weighs(a) /\ Heavy(a)
  BY <1>3, LinkWeighs
<1> QED
  BY <1>2, <1>3, <1>4 DEF Told, Verified

\* Reports are records: any field of one may be that of another.
LEMMA FieldsAreIndependent ==
    ASSUME NEW p \in Producers, NEW x \in Reports[p], NEW y \in Reports[p],
           NEW f \in DOMAIN x
    PROVE  [x EXCEPT ![f] = y[f]] \in Reports[p]
<1>1. CASE p = "action"
  BY <1>1 DEF Reports
<1>2. CASE p = "physical"
  BY <1>2 DEF Reports
<1>3. CASE p = "dsr"
  BY <1>3 DEF Reports
<1>4. CASE p = "renderdiff"
  BY <1>4 DEF Reports
<1>5. CASE p = "transition"
  BY <1>5 DEF Reports
<1> QED
  BY <1>1, <1>2, <1>3, <1>4, <1>5, ProducersAre

LEMMA SameFields ==
    ASSUME NEW p \in Producers, NEW x \in Reports[p], NEW y \in Reports[p]
    PROVE  DOMAIN x = DOMAIN y
<1>1. CASE p = "action"
  BY <1>1 DEF Reports
<1>2. CASE p = "physical"
  BY <1>2 DEF Reports
<1>3. CASE p = "dsr"
  BY <1>3 DEF Reports
<1>4. CASE p = "renderdiff"
  BY <1>4 DEF Reports
<1>5. CASE p = "transition"
  BY <1>5 DEF Reports
<1> QED
  BY <1>1, <1>2, <1>3, <1>4, <1>5, ProducersAre

LEMMA Revised ==
    ASSUME NEW p \in Producers, NEW x \in Reports[p], NEW f \in DOMAIN x,
           NEW v \in Alternatives[p][f]
    PROVE  [x EXCEPT ![f] = v] \in Reports[p]
<1>1. PICK first \in Reports[p] : first = CHOOSE z \in Reports[p] : TRUE
  OBVIOUS
<1>2. f \in DOMAIN first
  BY SameFields
<1>3. Alternatives[p][f] = {z[f] : z \in Reports[p]}
  BY <1>1, <1>2 DEF Alternatives
<1>4. PICK y \in Reports[p] : v = y[f]
  BY <1>3
<1> QED
  BY <1>4, FieldsAreIndependent

\* Reports have their types, and the last ceiling is that of the bundle.
THEOREM BundleInvariant == Spec => []AInv
<1>1. Init => AInv
  BY DEF Init, AInv
<1>2. AInv /\ [Next]_vars => AInv'
  <2> SUFFICES ASSUME AInv, [Next]_vars PROVE AInv'
    OBVIOUS
  <2>1. ASSUME NEW p \in Producers, Supply(p) PROVE AInv'
    <3>1. PICK x \in Reports[p] \cup {Malformed} : supplied' = [supplied EXCEPT ![p] = x]
      BY <2>1 DEF Supply
    <3>2. supplied' = [q \in Producers |-> IF q = p THEN x ELSE supplied[q]]
      BY <3>1 DEF AInv
    <3> QED  BY <2>1, <3>2 DEF AInv, Supply
  <2>2. ASSUME NEW p \in Producers, Revise(p) PROVE AInv'
    <3>1. supplied[p] \in Reports[p]
      BY <2>2 DEF AInv, Revise
    <3>2. PICK f \in DOMAIN supplied[p] : \E v \in Alternatives[p][f] :
             supplied' = [supplied EXCEPT ![p] = [@ EXCEPT ![f] = v]]
      BY <2>2 DEF Revise
    <3>3. PICK v \in Alternatives[p][f] :
             supplied' = [supplied EXCEPT ![p] = [@ EXCEPT ![f] = v]]
      BY <3>2
    <3>4. PICK x \in Reports[p] : x = [supplied[p] EXCEPT ![f] = v]
      BY <3>1, Revised
    <3>5. supplied' = [q \in Producers |-> IF q = p THEN x ELSE supplied[q]]
      BY <3>3, <3>4 DEF AInv
    <3> QED  BY <2>2, <3>5 DEF AInv, Revise
  <2>3. ASSUME analyze_evidence_bundle PROVE AInv'
    BY <2>3 DEF AInv, analyze_evidence_bundle, Ceiling
  <2>4. CASE UNCHANGED vars
    BY <2>4 DEF AInv, vars, Ceiling
  <2> QED  BY <2>1, <2>2, <2>3, <2>4 DEF Next
<1> QED
  BY <1>1, <1>2, PTL DEF Spec

\* A report claims nothing before it is verified (ClaimsNeedVerification of
\* Adapters).
THEOREM ClaimsNeedVerificationHolds == Spec => []ClaimsNeedVerification
<1>1. ClaimsNeedVerification
  <2> SUFFICES ASSUME NEW p \in Given(supplied), ~Verified(p, supplied[p]),
                      NEW s \in Signals(p, supplied[p])
               PROVE  s.status = "UNRESOLVED"
    BY DEF ClaimsNeedVerification
  <2>. DEFINE x == supplied[p]
  <2>1. p \in Producers /\ x # NotSupplied
    BY DEF Given
  <2>2. CASE x = Malformed
    BY <2>1, <2>2 DEF Signals, Format, Link
  <2>3. CASE x # Malformed /\ p = "action"
    <3>1. ~TrustClosed(x)
      BY <2>3 DEF Verified, TrustClosed
    <3>2. s \in action_receipt_signals(x)
      BY <2>1, <2>3 DEF Signals
    <3> QED  BY <3>1, <3>2 DEF action_receipt_signals, Link, Closing, Verdict, Current
  <2>4. CASE x # Malformed /\ p = "physical"
    <3>1. ~x.verified
      BY <2>4 DEF Verified
    <3>2. s \in physical_gate_signals(x)
      BY <2>1, <2>4 DEF Signals
    <3> QED  BY <3>1, <3>2 DEF physical_gate_signals, Link, Closing, Verdict, FindingStatus
  <2>5. CASE x # Malformed /\ p = "dsr"
    <3>1. ~x.verified
      BY <2>5 DEF Verified
    <3>2. s \in dsr_result_signals(x)
      BY <2>1, <2>5 DEF Signals
    <3> QED  BY <3>1, <3>2 DEF dsr_result_signals, Link, Closing
  <2>6. CASE x # Malformed /\ p = "renderdiff"
    <3>1. ~x.verified
      BY <2>6 DEF Verified
    <3>2. s \in renderdiff_signals(x)
      BY <2>1, <2>6 DEF Signals
    <3> QED  BY <3>1, <3>2 DEF renderdiff_signals, Link, Closing
  <2>7. CASE x # Malformed /\ p = "transition"
    BY <2>7 DEF Verified
  <2> QED  BY <2>1, <2>2, <2>3, <2>4, <2>5, <2>6, <2>7, ProducersAre
<1> QED
  BY <1>1, PTL DEF Spec

\* What the ceiling under the default thresholds says about links.
LEMMA CeilingTells ==
    ASSUME NEW links, \A s \in links : Weighs(s)
    PROVE  /\ Autonomy(links, Default) = 4 <=> \A s \in links : s.status = "CLOSED"
           /\ Autonomy(links, Default) > 1 => \A s \in links : ~Heavy(s)
<1>1. /\ RiskReaches(links, 80) <=> \E s \in links : ResidualRisk(s) >= 800000
      /\ RiskReaches(links, 50) <=> \E s \in links : ResidualRisk(s) >= 500000
      /\ RiskReaches(links, 20) <=> \E s \in links : ResidualRisk(s) >= 200000
  BY DEF RiskReaches
<1>2. /\ RiskReaches(links, 80) => Autonomy(links, Default) = 1
      /\ ~RiskReaches(links, 80) /\ RiskReaches(links, 50) => Autonomy(links, Default) = 2
      /\ /\ ~RiskReaches(links, 80) /\ ~RiskReaches(links, 50)
         /\ RiskReaches(links, 20)
         => Autonomy(links, Default) = 3
      /\ /\ ~RiskReaches(links, 80) /\ ~RiskReaches(links, 50)
         /\ ~RiskReaches(links, 20)
         => Autonomy(links, Default) = 4
  BY DEF Autonomy, Default
<1>3. \A s \in links : /\ ResidualRisk(s) \in Int
                       /\ s.status = "CLOSED" <=> ResidualRisk(s) < 200000
  BY DEF Weighs
<1>4. RiskReaches(links, 80) \/ RiskReaches(links, 50) \/ RiskReaches(links, 20)
          <=> ~\A s \in links : s.status = "CLOSED"
  BY <1>1, <1>3
<1>5. Autonomy(links, Default) = 4 <=> \A s \in links : s.status = "CLOSED"
  BY <1>2, <1>4
<1>6. Autonomy(links, Default) > 1 => ~RiskReaches(links, 80)
  BY <1>2
<1> QED
  BY <1>1, <1>5, <1>6 DEF Heavy

\* The machine acts on its own exactly on a bundle in which every report is
\* verified and affirms the action (AutonomyNeedsProof of Adapters).
THEOREM AutonomyNeedsProofHolds == Spec => []AutonomyNeedsProof
<1>1. AInv => AutonomyNeedsProof
  <2> SUFFICES ASSUME AInv, report # NoReport PROVE AutonomyNeedsProof
    BY DEF AutonomyNeedsProof
  <2>1. ASSUME NEW p \in Given(supplied)
        PROVE  Told(p, supplied[p]) /\ p \in Producers
    BY AllTold, MalformedTold DEF AInv, Given
  <2>2. ASSUME NEW p \in Producers, p \notin Given(supplied)
        PROVE  Signals(p, supplied[p]) = {}
    BY <2>2 DEF Given, Signals
  <2>3. \A s \in Bundled(supplied) : Weighs(s)
    BY <2>1, <2>2 DEF Bundled, Told
  <2>4. (\A s \in Bundled(supplied) : s.status = "CLOSED")
            <=> \A p \in Given(supplied) :
                    Verified(p, supplied[p]) /\ Affirms(p, supplied[p])
    BY <2>1, <2>2 DEF Bundled, Told
  <2>5. (\A s \in Bundled(supplied) : ~Heavy(s))
            => \A p \in Given(supplied) : InForce(p, supplied[p])
    BY <2>1 DEF Bundled, Told
  <2>6. report.autonomy = Autonomy(Bundled(supplied), Default)
    BY DEF AInv, Ceiling
  <2> QED  BY <2>3, <2>4, <2>5, <2>6, CeilingTells DEF AutonomyNeedsProof, InForce
<1> QED
  BY <1>1, BundleInvariant, PTL
---------------------------------------------------------------------------
\* For every link of y there is one of x that is no milder.
Milder(y, x) == \A t \in y : \E s \in x : ResidualRisk(t) <= ResidualRisk(s)

LEMMA MilderLink ==
    ASSUME NEW s, NEW t, s.severity \in 60 .. 100, s.confidence \in 90 .. 100,
           t.severity = s.severity, t.confidence = s.confidence,
           \/ t.status = "CLOSED" /\ s.status \in {"CLOSED", "CONTAINED", "UNRESOLVED"}
           \/ t.status = "CONTAINED" /\ s.status \in {"CONTAINED", "UNRESOLVED"}
           \/ t.status = "UNRESOLVED" /\ s.status = "UNRESOLVED"
    PROVE  ResidualRisk(t) <= ResidualRisk(s)
<1>1. PICK n \in Int : n = s.severity * s.confidence
  BY SMT
<1>2. n >= 60 * 90
  BY <1>1, SMT
<1>3. /\ ResidualRisk(s) = n * Multiplier(s.status)
      /\ ResidualRisk(t) = n * Multiplier(t.status)
  BY <1>1 DEF ResidualRisk
<1>4. /\ Multiplier("CLOSED") = 0
      /\ Multiplier("CONTAINED") = 35
      /\ Multiplier("UNRESOLVED") = 100
  BY DEF Multiplier
<1>5. n * 0 <= n * 35 /\ n * 35 <= n * 100 /\ n * 0 <= n * 100
      /\ n * 0 <= n * 0 /\ n * 35 <= n * 35 /\ n * 100 <= n * 100
  BY <1>2, SMT
<1> QED
  BY <1>3, <1>4, <1>5

LEMMA DsrMilder ==
    ASSUME NEW x \in Reports["dsr"], NEW y \in Reports["dsr"], AtLeast("dsr", x, y)
    PROVE  Milder(dsr_result_signals(y), dsr_result_signals(x))
<1>1. PICK a, b : /\ a = Link(<<"dsr_result_trust">>, 100, 100, Closing(x.verified), 0, FALSE)
                  /\ b = Link(<<"remote_execution_outcome">>, 90, 100,
                              Closing(x.verified /\ x.passed /\ x.exitZero), 1, FALSE)
  OBVIOUS
<1>2. PICK c, d : /\ c = Link(<<"dsr_result_trust">>, 100, 100, Closing(y.verified), 0, FALSE)
                  /\ d = Link(<<"remote_execution_outcome">>, 90, 100,
                              Closing(y.verified /\ y.passed /\ y.exitZero), 1, FALSE)
  OBVIOUS
<1>3. /\ x.verified => y.verified
      /\ x.passed => y.passed
      /\ x.exitZero => y.exitZero
  BY DEF AtLeast
<1>4. /\ a.severity = 100 /\ a.confidence = 100
      /\ b.severity = 90 /\ b.confidence = 100
      /\ a.status = IF x.verified THEN "CLOSED" ELSE "UNRESOLVED"
      /\ b.status = IF x.verified /\ x.passed /\ x.exitZero THEN "CLOSED" ELSE "UNRESOLVED"
  BY <1>1 DEF Link, Closing
<1>5. /\ c.severity = 100 /\ c.confidence = 100
      /\ d.severity = 90 /\ d.confidence = 100
      /\ c.status = IF y.verified THEN "CLOSED" ELSE "UNRESOLVED"
      /\ d.status = IF y.verified /\ y.passed /\ y.exitZero THEN "CLOSED" ELSE "UNRESOLVED"
  BY <1>2 DEF Link, Closing
<1>6. ResidualRisk(c) <= ResidualRisk(a)
  BY <1>3, <1>4, <1>5, MilderLink
<1>7. ResidualRisk(d) <= ResidualRisk(b)
  BY <1>3, <1>4, <1>5, MilderLink
<1>8. dsr_result_signals(x) = {a, b} /\ dsr_result_signals(y) = {c, d}
  BY <1>1, <1>2 DEF dsr_result_signals
<1> QED
  BY <1>6, <1>7, <1>8 DEF Milder

LEMMA TransitionMilder ==
    ASSUME NEW x \in Reports["transition"], NEW y \in Reports["transition"],
           AtLeast("transition", x, y)
    PROVE  Milder(transition_closure_signals(y), transition_closure_signals(x))
<1>1. PICK a : a = Link(<<"authorization_transition_closure">>,
                        IF x.disposition \in {"CLOSED", "FAILED"} THEN 100 ELSE 85, 100,
                        Closing(x.disposition = "CLOSED"), 3, FALSE)
  OBVIOUS
<1>2. PICK b : b = Link(<<"authorization_transition_closure">>,
                        IF y.disposition \in {"CLOSED", "FAILED"} THEN 100 ELSE 85, 100,
                        Closing(y.disposition = "CLOSED"), 3, FALSE)
  OBVIOUS
<1>3. /\ transition_closure_signals(x) = {a}
      /\ transition_closure_signals(y) = {b}
  BY <1>1, <1>2 DEF transition_closure_signals
<1>4. ResidualRisk(b) <= ResidualRisk(a)
  <2>1. CASE y.disposition = "CLOSED"
    <3>1. /\ b.severity = 100 /\ b.confidence = 100 /\ b.status = "CLOSED"
          /\ a.severity \in 85 .. 100 /\ a.confidence = 100
          /\ a.status \in {"CLOSED", "UNRESOLVED"}
      BY <1>1, <1>2, <2>1 DEF Link, Closing
    <3>2. ResidualRisk(b) = 0
      BY <3>1 DEF ResidualRisk, Multiplier
    <3>3. a.status = "CLOSED" => ResidualRisk(a) = a.severity * 100 * 0
      BY <3>1 DEF ResidualRisk, Multiplier
    <3>4. a.status = "UNRESOLVED" => ResidualRisk(a) = a.severity * 100 * 100
      BY <3>1 DEF ResidualRisk, Multiplier
    <3> QED  BY <3>1, <3>2, <3>3, <3>4
  <2>2. CASE y.disposition # "CLOSED"
    <3>1. y.disposition = x.disposition
      BY <2>2 DEF AtLeast
    <3>2. /\ a.severity \in 85 .. 100 /\ a.confidence = 100
          /\ a.status \in {"CLOSED", "UNRESOLVED"}
      BY <1>1 DEF Link, Closing
    <3>3. b.severity = a.severity /\ b.confidence = a.confidence /\ b.status = a.status
      BY <1>1, <1>2, <3>1 DEF Link
    <3> QED  BY <3>2, <3>3, MilderLink
  <2> QED  BY <2>1, <2>2
<1> QED
  BY <1>3, <1>4 DEF Milder

LEMMA RenderdiffMilder ==
    ASSUME NEW x \in Reports["renderdiff"], NEW y \in Reports["renderdiff"],
           AtLeast("renderdiff", x, y)
    PROVE  Milder(renderdiff_signals(y), renderdiff_signals(x))
<1>1. PICK a, b, c :
         /\ a = Link(<<"renderdiff_receipt_trust">>, 95, 100, Closing(x.verified), 0, FALSE)
         /\ b = Link(<<"representation_divergence">>, 95, 100,
                     Closing(x.verified /\ NotMaterial(x)), 2, TRUE)
         /\ c = Link(<<"representation_observer_coverage">>, 60, 90,
                     Closing(x.verified /\ x.complete), 1, TRUE)
  OBVIOUS
<1>2. PICK d, e, f :
         /\ d = Link(<<"renderdiff_receipt_trust">>, 95, 100, Closing(y.verified), 0, FALSE)
         /\ e = Link(<<"representation_divergence">>, 95, 100,
                     Closing(y.verified /\ NotMaterial(y)), 2, TRUE)
         /\ f = Link(<<"representation_observer_coverage">>, 60, 90,
                     Closing(y.verified /\ y.complete), 1, TRUE)
  OBVIOUS
<1>3. /\ x.verified => y.verified
      /\ x.complete => y.complete
      /\ y.assessment \in {x.assessment, "false"}
      /\ y.summary \in {x.summary, "false"}
  BY DEF AtLeast
<1>4. NotMaterial(x) => NotMaterial(y)
  BY <1>3 DEF NotMaterial
<1>5. /\ a.severity = 95 /\ a.confidence = 100
      /\ b.severity = 95 /\ b.confidence = 100
      /\ c.severity = 60 /\ c.confidence = 90
      /\ a.status = IF x.verified THEN "CLOSED" ELSE "UNRESOLVED"
      /\ b.status = IF x.verified /\ NotMaterial(x) THEN "CLOSED" ELSE "UNRESOLVED"
      /\ c.status = IF x.verified /\ x.complete THEN "CLOSED" ELSE "UNRESOLVED"
  BY <1>1 DEF Link, Closing
<1>6. /\ d.severity = 95 /\ d.confidence = 100
      /\ e.severity = 95 /\ e.confidence = 100
      /\ f.severity = 60 /\ f.confidence = 90
      /\ d.status = IF y.verified THEN "CLOSED" ELSE "UNRESOLVED"
      /\ e.status = IF y.verified /\ NotMaterial(y) THEN "CLOSED" ELSE "UNRESOLVED"
      /\ f.status = IF y.verified /\ y.complete THEN "CLOSED" ELSE "UNRESOLVED"
  BY <1>2 DEF Link, Closing
<1>7. ResidualRisk(d) <= ResidualRisk(a)
  BY <1>3, <1>5, <1>6, MilderLink
<1>8. ResidualRisk(e) <= ResidualRisk(b)
  BY <1>3, <1>4, <1>5, <1>6, MilderLink
<1>9. ResidualRisk(f) <= ResidualRisk(c)
  BY <1>3, <1>5, <1>6, MilderLink
<1>10. renderdiff_signals(x) = {a, b, c} /\ renderdiff_signals(y) = {d, e, f}
  BY <1>1, <1>2 DEF renderdiff_signals
<1> QED
  BY <1>7, <1>8, <1>9, <1>10 DEF Milder

LEMMA PhysicalMilder ==
    ASSUME NEW x \in Reports["physical"], NEW y \in Reports["physical"],
           AtLeast("physical", x, y)
    PROVE  Milder(physical_gate_signals(y), physical_gate_signals(x))
<1>. DEFINE Read(r) == {j \in DOMAIN r.findings : j <= FindingLimit}
            F(r, i) == Link(<<"physical_finding", r.findings[i].code>>, 90, 95,
                            FindingStatus(r, r.findings[i]), 2, TRUE)
<1>1. PICK a, b, c :
         /\ a = Link(<<"physical_gate_trust">>, 100, 100, Closing(x.verified), 0, FALSE)
         /\ b = Link(<<"physical_action_gate">>, 100, 100,
                     Verdict(x.verified /\ x.disposition = "ALLOW",
                             x.verified /\ x.disposition = "BLOCK"), 1, FALSE)
         /\ c = Link(<<"physical_state_lineage">>, 95, 100,
                     Closing(x.lineage = "ok" /\ x.verified), 2, FALSE)
  OBVIOUS
<1>2. PICK d, e, f :
         /\ d = Link(<<"physical_gate_trust">>, 100, 100, Closing(y.verified), 0, FALSE)
         /\ e = Link(<<"physical_action_gate">>, 100, 100,
                     Verdict(y.verified /\ y.disposition = "ALLOW",
                             y.verified /\ y.disposition = "BLOCK"), 1, FALSE)
         /\ f = Link(<<"physical_state_lineage">>, 95, 100,
                     Closing(y.lineage = "ok" /\ y.verified), 2, FALSE)
  OBVIOUS
<1>3. /\ y.disposition = x.disposition
      /\ y.findings = x.findings \/ y.findings = <<>>
      /\ x.verified => y.verified
      /\ x.lineage = "ok" => y.lineage = "ok"
  BY DEF AtLeast
<1>4. /\ a.severity = 100 /\ a.confidence = 100
      /\ c.severity = 95 /\ c.confidence = 100
      /\ a.status = IF x.verified THEN "CLOSED" ELSE "UNRESOLVED"
      /\ c.status = IF x.lineage = "ok" /\ x.verified THEN "CLOSED" ELSE "UNRESOLVED"
  BY <1>1 DEF Link, Closing
<1>5. /\ d.severity = 100 /\ d.confidence = 100
      /\ f.severity = 95 /\ f.confidence = 100
      /\ d.status = IF y.verified THEN "CLOSED" ELSE "UNRESOLVED"
      /\ f.status = IF y.lineage = "ok" /\ y.verified THEN "CLOSED" ELSE "UNRESOLVED"
  BY <1>2 DEF Link, Closing
<1>6. /\ b.severity = 100 /\ b.confidence = 100
      /\ b.status = IF x.verified /\ x.disposition = "ALLOW" THEN "CLOSED"
                    ELSE IF x.verified /\ x.disposition = "BLOCK" THEN "CONTAINED"
                    ELSE "UNRESOLVED"
  BY <1>1 DEF Link, Verdict
<1>7. /\ e.severity = 100 /\ e.confidence = 100
      /\ e.status = IF y.verified /\ y.disposition = "ALLOW" THEN "CLOSED"
                    ELSE IF y.verified /\ y.disposition = "BLOCK" THEN "CONTAINED"
                    ELSE "UNRESOLVED"
  BY <1>2 DEF Link, Verdict
<1>8. ResidualRisk(d) <= ResidualRisk(a)
  BY <1>3, <1>4, <1>5, MilderLink
<1>9. ResidualRisk(e) <= ResidualRisk(b)
  <2>1. CASE x.verified
    <3>1. e.status = b.status
      BY <1>3, <1>6, <1>7, <2>1
    <3> QED  BY <1>6, <1>7, <3>1, MilderLink
  <2>2. CASE ~x.verified
    <3>1. b.status = "UNRESOLVED" /\ e.status \in {"CLOSED", "CONTAINED", "UNRESOLVED"}
      BY <1>6, <1>7, <2>2
    <3> QED  BY <1>6, <1>7, <3>1, MilderLink
  <2> QED  BY <2>1, <2>2
<1>10. ResidualRisk(f) <= ResidualRisk(c)
  BY <1>3, <1>4, <1>5, MilderLink
<1>11. ASSUME NEW i \in Read(y)
       PROVE  i \in Read(x) /\ ResidualRisk(F(y, i)) <= ResidualRisk(F(x, i))
  <2>1. y.findings = x.findings
    BY <1>3
  <2>2. PICK g : g = F(x, i)
    OBVIOUS
  <2>3. PICK h : h = F(y, i)
    OBVIOUS
  <2>4. /\ g.severity = 90 /\ g.confidence = 95
        /\ h.severity = 90 /\ h.confidence = 95
    BY <2>2, <2>3 DEF Link
  <2>5. /\ g.status \in {"CONTAINED", "UNRESOLVED"}
        /\ h.status \in {"CONTAINED", "UNRESOLVED"}
        /\ g.status = "CONTAINED" => h.status = "CONTAINED"
    BY <1>3, <2>1, <2>2, <2>3 DEF Link, FindingStatus, Verdict
  <2>6. ResidualRisk(h) <= ResidualRisk(g)
    BY <2>4, <2>5, MilderLink
  <2> QED  BY <2>1, <2>2, <2>3, <2>6
<1>12. /\ physical_gate_signals(x) = {a, b, c} \cup {F(x, i) : i \in Read(x)}
       /\ physical_gate_signals(y) = {d, e, f} \cup {F(y, i) : i \in Read(y)}
  BY <1>1, <1>2 DEF physical_gate_signals
<1>. HIDE DEF Read, F
<1> QED
  BY <1>8, <1>9, <1>10, <1>11, <1>12 DEF Milder

LEMMA ActionMilder ==
    ASSUME NEW x \in Reports["action"], NEW y \in Reports["action"],
           AtLeast("action", x, y)
    PROVE  Milder(action_receipt_signals(y), action_receipt_signals(x))
<1>. DEFINE allowed(r) == TrustClosed(r) /\ r.decision = "ALLOW"
            blocked(r) == TrustClosed(r) /\ r.decision = "BLOCK"
            A(r) == Link(<<"action_receipt_trust">>, 100, 100, Closing(TrustClosed(r)), 0, FALSE)
            B(r) == Link(<<"action_authorization">>, 95, 100,
                         Verdict(allowed(r), blocked(r)), 1, FALSE)
            C(r) == Link(<<"authorization_freshness">>, 95, 100, Closing(Current(r)), 2, FALSE)
            E(r) == Link(<<"action_execution_binding">>, 90, 100,
                         Verdict(allowed(r) /\ r.executed, blocked(r) /\ ~r.executed), 1, FALSE)
            F(r, d) == Link(<<"receipt", d>>, 80, 95,
                            Verdict(TrustClosed(r) /\ d \in r.passed, blocked(r)), 0, TRUE)
<1>1. /\ y.decision = x.decision
      /\ x.passed \subseteq y.passed
      /\ TrustClosed(x) => TrustClosed(y)
      /\ Current(x) => Current(y)
      /\ x.executed = y.executed \/ (y.executed <=> x.decision = "ALLOW")
  BY DEF AtLeast, TrustClosed, Current
<1>2. ResidualRisk(A(y)) <= ResidualRisk(A(x))
  <2>1. PICK s : s = A(x)
    OBVIOUS
  <2>2. PICK t : t = A(y)
    OBVIOUS
  <2>3. /\ s.severity = 100 /\ s.confidence = 100
        /\ t.severity = 100 /\ t.confidence = 100
        /\ s.status = IF TrustClosed(x) THEN "CLOSED" ELSE "UNRESOLVED"
        /\ t.status = IF TrustClosed(y) THEN "CLOSED" ELSE "UNRESOLVED"
    BY <2>1, <2>2 DEF Link, Closing
  <2>4. ResidualRisk(t) <= ResidualRisk(s)
    BY <1>1, <2>3, MilderLink
  <2> QED  BY <2>1, <2>2, <2>4
<1>3. ResidualRisk(B(y)) <= ResidualRisk(B(x))
  <2>1. PICK s : s = B(x)
    OBVIOUS
  <2>2. PICK t : t = B(y)
    OBVIOUS
  <2>3. /\ s.severity = 95 /\ s.confidence = 100
        /\ t.severity = 95 /\ t.confidence = 100
    BY <2>1, <2>2 DEF Link
  <2>4. /\ s.status = IF allowed(x) THEN "CLOSED"
                      ELSE IF blocked(x) THEN "CONTAINED" ELSE "UNRESOLVED"
        /\ t.status = IF allowed(y) THEN "CLOSED"
                      ELSE IF blocked(y) THEN "CONTAINED" ELSE "UNRESOLVED"
    BY <2>1, <2>2 DEF Link, Verdict
  <2>5. ResidualRisk(t) <= ResidualRisk(s)
    BY <1>1, <2>3, <2>4, MilderLink
  <2> QED  BY <2>1, <2>2, <2>5
<1>4. ResidualRisk(C(y)) <= ResidualRisk(C(x))
  <2>1. PICK s : s = C(x)
    OBVIOUS
  <2>2. PICK t : t = C(y)
    OBVIOUS
  <2>3. /\ s.severity = 95 /\ s.confidence = 100
        /\ t.severity = 95 /\ t.confidence = 100
        /\ s.status = IF Current(x) THEN "CLOSED" ELSE "UNRESOLVED"
        /\ t.status = IF Current(y) THEN "CLOSED" ELSE "UNRESOLVED"
    BY <2>1, <2>2 DEF Link, Closing
  <2>4. ResidualRisk(t) <= ResidualRisk(s)
    BY <1>1, <2>3, MilderLink
  <2> QED  BY <2>1, <2>2, <2>4
<1>5. ResidualRisk(E(y)) <= ResidualRisk(E(x))
  <2>1. PICK s : s = E(x)
    OBVIOUS
  <2>2. PICK t : t = E(y)
    OBVIOUS
  <2>3. /\ s.severity = 90 /\ s.confidence = 100
        /\ t.severity = 90 /\ t.confidence = 100
    BY <2>1, <2>2 DEF Link
  <2>4. /\ s.status = IF allowed(x) /\ x.executed THEN "CLOSED"
                      ELSE IF blocked(x) /\ ~x.executed THEN "CONTAINED" ELSE "UNRESOLVED"
        /\ t.status = IF allowed(y) /\ y.executed THEN "CLOSED"
                      ELSE IF blocked(y) /\ ~y.executed THEN "CONTAINED" ELSE "UNRESOLVED"
    BY <2>1, <2>2 DEF Link, Verdict
  <2>5. ResidualRisk(t) <= ResidualRisk(s)
    BY <1>1, <2>3, <2>4, MilderLink
  <2> QED  BY <2>1, <2>2, <2>5
<1>6. ASSUME NEW d \in Dimensions  PROVE ResidualRisk(F(y, d)) <= ResidualRisk(F(x, d))
  <2>1. PICK s : s = F(x, d)
    OBVIOUS
  <2>2. PICK t : t = F(y, d)
    OBVIOUS
  <2>3. /\ s.severity = 80 /\ s.confidence = 95
        /\ t.severity = 80 /\ t.confidence = 95
    BY <2>1, <2>2 DEF Link
  <2>4. /\ s.status = IF TrustClosed(x) /\ d \in x.passed THEN "CLOSED"
                      ELSE IF blocked(x) THEN "CONTAINED" ELSE "UNRESOLVED"
        /\ t.status = IF TrustClosed(y) /\ d \in y.passed THEN "CLOSED"
                      ELSE IF blocked(y) THEN "CONTAINED" ELSE "UNRESOLVED"
    BY <2>1, <2>2 DEF Link, Verdict
  <2>5. ResidualRisk(t) <= ResidualRisk(s)
    BY <1>1, <2>3, <2>4, MilderLink
  <2> QED  BY <2>1, <2>2, <2>5
<1>7. ASSUME NEW r
      PROVE  action_receipt_signals(r) = {A(r), B(r), C(r), E(r)} \cup {F(r, d) : d \in Dimensions}
  BY DEF action_receipt_signals
<1>. HIDE DEF A, B, C, E, F
<1> QED
  BY <1>2, <1>3, <1>4, <1>5, <1>6, <1>7 DEF Milder

LEMMA SignalsMilder ==
    ASSUME NEW p \in Producers, NEW x \in Reports[p], NEW y \in Reports[p], AtLeast(p, x, y)
    PROVE  Milder(Signals(p, y), Signals(p, x))
<1>1. x \notin {NotSupplied, Malformed} /\ y \notin {NotSupplied, Malformed}
  BY AdaptersAssumption
<1>2. CASE p = "action"
  BY <1>1, <1>2, ActionMilder DEF Signals
<1>3. CASE p = "physical"
  BY <1>1, <1>3, PhysicalMilder DEF Signals
<1>4. CASE p = "dsr"
  BY <1>1, <1>4, DsrMilder DEF Signals
<1>5. CASE p = "renderdiff"
  BY <1>1, <1>5, RenderdiffMilder DEF Signals
<1>6. CASE p = "transition"
  BY <1>1, <1>6, TransitionMilder DEF Signals
<1> QED
  BY <1>2, <1>3, <1>4, <1>5, <1>6, ProducersAre

LEMMA MilderCeiling ==
    ASSUME NEW x, NEW y, Milder(y, x),
           \A s \in x : ResidualRisk(s) \in Int,
           \A t \in y : ResidualRisk(t) \in Int
    PROVE  Autonomy(y, Default) >= Autonomy(x, Default)
<1>1. ASSUME NEW n \in Int, RiskReaches(y, n)  PROVE RiskReaches(x, n)
  <2>1. CASE n = 0
    BY <2>1 DEF RiskReaches
  <2>2. CASE n # 0
    <3>1. PICK t \in y : ResidualRisk(t) >= n * 10000
      BY <1>1, <2>2 DEF RiskReaches
    <3>2. PICK s \in x : ResidualRisk(t) <= ResidualRisk(s)
      BY DEF Milder
    <3>3. ResidualRisk(s) >= n * 10000
      BY <3>1, <3>2
    <3> QED  BY <3>3 DEF RiskReaches
  <2> QED  BY <2>1, <2>2
<1>2. /\ RiskReaches(y, Default.human_required_at) => RiskReaches(x, Default.human_required_at)
      /\ RiskReaches(y, Default.conditional_at) => RiskReaches(x, Default.conditional_at)
      /\ RiskReaches(y, Default.bounded_at) => RiskReaches(x, Default.bounded_at)
  BY <1>1 DEF Default
<1> QED
  BY <1>2 DEF Autonomy

LEMMA StaysReport ==
    ASSUME AInv, [Next]_vars, NEW p \in Producers, supplied[p] \in Reports[p]
    PROVE  supplied'[p] \in Reports[p]
<1>1. supplied[p] \notin {NotSupplied, Malformed}
  BY AdaptersAssumption
<1>2. ASSUME NEW q \in Producers, Supply(q)  PROVE supplied'[p] \in Reports[p]
  BY <1>1, <1>2 DEF Supply, AInv
<1>3. ASSUME NEW q \in Producers, Revise(q)  PROVE supplied'[p] \in Reports[p]
  <2>1. supplied[q] \in Reports[q]
    BY <1>3 DEF AInv, Revise
  <2>2. PICK f \in DOMAIN supplied[q] : \E v \in Alternatives[q][f] :
           supplied' = [supplied EXCEPT ![q] = [@ EXCEPT ![f] = v]]
    BY <1>3 DEF Revise
  <2>3. PICK v \in Alternatives[q][f] :
           supplied' = [supplied EXCEPT ![q] = [@ EXCEPT ![f] = v]]
    BY <2>2
  <2>4. PICK x \in Reports[q] : x = [supplied[q] EXCEPT ![f] = v]
    BY <2>1, Revised
  <2>5. supplied' = [r \in Producers |-> IF r = q THEN x ELSE supplied[r]]
    BY <2>3, <2>4 DEF AInv
  <2> QED  BY <2>5
<1>4. CASE analyze_evidence_bundle \/ UNCHANGED vars
  BY <1>4 DEF analyze_evidence_bundle, vars
<1> QED
  BY <1>2, <1>3, <1>4 DEF Next

\* A report that says no less never lowers the ceiling (BetterReportNeverHurts
\* of Adapters).
THEOREM BetterReportNeverHurtsHolds == Spec => BetterReportNeverHurts
<1>1. ASSUME AInv, AInv', [Next]_vars, NEW p \in Producers,
             supplied[p] \notin {NotSupplied, Malformed},
             \A q \in Producers \ {p} : supplied'[q] = supplied[q],
             AtLeast(p, supplied[p], supplied'[p])
      PROVE  Ceiling(supplied') >= Ceiling(supplied)
  <2>1. supplied[p] \in Reports[p]
    BY <1>1 DEF AInv
  <2>2. supplied'[p] \in Reports[p]
    BY <1>1, <2>1, StaysReport
  <2>3. Milder(Signals(p, supplied'[p]), Signals(p, supplied[p]))
    BY <1>1, <2>1, <2>2, SignalsMilder
  <2>4. ASSUME NEW q \in Producers, q # p
        PROVE  Signals(q, supplied'[q]) = Signals(q, supplied[q])
    BY <1>1, <2>4
  <2>5. ASSUME NEW q \in Producers
        PROVE  /\ \A s \in Signals(q, supplied[q]) : ResidualRisk(s) \in Int
               /\ \A s \in Signals(q, supplied'[q]) : ResidualRisk(s) \in Int
    <3>1. \A x \in Reports[q] \cup {NotSupplied, Malformed} :
              \A s \in Signals(q, x) : ResidualRisk(s) \in Int
      <4> SUFFICES ASSUME NEW x \in Reports[q] \cup {NotSupplied, Malformed},
                          NEW s \in Signals(q, x)
                   PROVE  ResidualRisk(s) \in Int
        OBVIOUS
      <4>1. CASE x = NotSupplied
        BY <4>1 DEF Signals
      <4>2. CASE x # NotSupplied
        <5>1. Told(q, x)
          BY <4>2, AllTold, MalformedTold
        <5> QED  BY <5>1 DEF Told, Weighs
      <4> QED  BY <4>1, <4>2
    <3> QED  BY <1>1, <3>1 DEF AInv
  <2>6. /\ \A s \in Bundled(supplied) : ResidualRisk(s) \in Int
        /\ \A s \in Bundled(supplied') : ResidualRisk(s) \in Int
    BY <2>5 DEF Bundled
  <2>7. Milder(Bundled(supplied'), Bundled(supplied))
    <3> SUFFICES ASSUME NEW t \in Bundled(supplied')
                 PROVE  \E s \in Bundled(supplied) : ResidualRisk(t) <= ResidualRisk(s)
      BY DEF Milder
    <3>1. PICK q \in Producers : t \in Signals(q, supplied'[q])
      BY DEF Bundled
    <3>2. CASE q = p
      <4>1. PICK s \in Signals(p, supplied[p]) : ResidualRisk(t) <= ResidualRisk(s)
        BY <2>3, <3>1, <3>2 DEF Milder
      <4> QED  BY <4>1 DEF Bundled
    <3>3. CASE q # p
      <4>1. t \in Bundled(supplied)
        BY <2>4, <3>1, <3>3 DEF Bundled
      <4>2. ResidualRisk(t) <= ResidualRisk(t)
        BY <2>6
      <4> QED  BY <4>1, <4>2
    <3> QED  BY <3>2, <3>3
  <2> QED  BY <2>6, <2>7, MilderCeiling DEF Ceiling
<1>2. AInv /\ AInv' /\ [Next]_vars =>
          [\A p \in Producers :
              /\ supplied[p] \notin {NotSupplied, Malformed}
              /\ \A q \in Producers \ {p} : supplied'[q] = supplied[q]
              /\ AtLeast(p, supplied[p], supplied'[p])
              => Ceiling(supplied') >= Ceiling(supplied)]_supplied
  BY <1>1
<1> QED
  BY <1>2, BundleInvariant, PTL DEF Spec, BetterReportNeverHurts
---------------------------------------------------------------------------
\* The links of adapters.py can be ranked: risks and depths are bounded.
HighestRisk == 100 * 100 * 100

Rankable(s) ==
    /\ ResidualRisk(s) \in Nat /\ ResidualRisk(s) <= HighestRisk
    /\ s.status = "CLOSED" <=> ResidualRisk(s) = 0
    /\ s.depth \in 0 .. 3

\* The fields of a link of adapters.py.
Fields(s) ==
    /\ s.severity \in 60 .. 100
    /\ s.confidence \in 90 .. 100
    /\ s.status \in {"CLOSED", "CONTAINED", "UNRESOLVED"}
    /\ s.depth \in 0 .. 3

LEMMA LinkRankable ==
    ASSUME NEW s, Fields(s)
    PROVE  Rankable(s)
<1>1. PICK v \in 60 .. 100, f \in 90 .. 100 : v = s.severity /\ f = s.confidence
  BY DEF Fields
<1>2. s.depth \in 0 .. 3
  BY DEF Fields
<1>3. PICK n \in Int : n = v * f
  BY SMT
<1>4. n >= 60 * 90 /\ n <= 100 * 100
  BY <1>3, SMT
<1>5. ResidualRisk(s) = n * Multiplier(s.status)
  BY <1>1, <1>3 DEF ResidualRisk
<1>6. CASE s.status = "CLOSED"
  <2>1. ResidualRisk(s) = 0
    BY <1>5, <1>6 DEF Multiplier
  <2> QED  BY <1>2, <1>6, <2>1 DEF Rankable, HighestRisk
<1>7. CASE s.status = "CONTAINED"
  <2>1. ResidualRisk(s) = n * 35
    BY <1>5, <1>7 DEF Multiplier
  <2> QED  BY <1>2, <1>4, <1>7, <2>1 DEF Rankable, HighestRisk
<1>8. CASE s.status = "UNRESOLVED"
  <2>1. ResidualRisk(s) = n * 100
    BY <1>5, <1>8 DEF Multiplier
  <2> QED  BY <1>2, <1>4, <1>8, <2>1 DEF Rankable, HighestRisk
<1> QED
  BY <1>6, <1>7, <1>8 DEF Fields

LEMMA SignalsRankable ==
    ASSUME NEW p, NEW x
    PROVE  \A s \in Signals(p, x) : Rankable(s)
<1> SUFFICES ASSUME NEW s \in Signals(p, x) PROVE Fields(s)
  BY LinkRankable
<1> USE DEF Fields, Link
<1>1. CASE s \in Format(p)
  BY <1>1 DEF Format
<1>2. CASE s \in action_receipt_signals(x)
  BY <1>2 DEF action_receipt_signals, Closing, Verdict
<1>3. CASE s \in physical_gate_signals(x)
  BY <1>3 DEF physical_gate_signals, FindingStatus, Closing, Verdict
<1>4. CASE s \in dsr_result_signals(x)
  BY <1>4 DEF dsr_result_signals, Closing
<1>5. CASE s \in renderdiff_signals(x)
  BY <1>5 DEF renderdiff_signals, Closing
<1>6. CASE s \in transition_closure_signals(x)
  BY <1>6 DEF transition_closure_signals, Closing
<1> QED
  BY <1>1, <1>2, <1>3, <1>4, <1>5, <1>6 DEF Signals

\* As soon as anything is at risk there is a bounding link, and no link has a
\* higher risk.
LEMMA BoundingExists ==
    ASSUME NEW links, \A s \in links : Rankable(s),
           NEW risky \in links, ResidualRisk(risky) > 0
    PROVE  BoundingLinks(links) # {}
<1> DEFINE risks == {ResidualRisk(s) : s \in links}
<1>1. PICK m \in risks : \A n \in risks : n <= m
  <2>1. risks \subseteq Nat /\ risks # {} /\ \A n \in risks : n <= HighestRisk
    BY DEF Rankable
  <2>2. HighestRisk \in Nat
    BY DEF HighestRisk
  <2> HIDE DEF risks
  <2> QED  BY <2>1, <2>2, GreatestNumber
<1> DEFINE top    == {s \in links : ResidualRisk(s) = m}
           final  == {s \in top : ~s.reversible}
           best   == IF final = {} THEN top ELSE final
           depths == {s.depth : s \in best}
<1>2. best # {} /\ best \subseteq top
  OBVIOUS
<1>3. PICK d \in depths : \A e \in depths : e <= d
  <2>1. depths \subseteq Nat /\ depths # {} /\ \A e \in depths : e <= 3
    BY <1>2 DEF Rankable
  <2> HIDE DEF depths
  <2> QED  BY <2>1, GreatestNumber
<1>4. PICK s \in best : s.depth = d
  BY <1>3
<1>5. s \in links /\ ResidualRisk(s) = m /\ (s.reversible => final = {})
  BY <1>2, <1>4
<1>6. ResidualRisk(s) > 0 /\ ResidualRisk(s) \in Int
  BY <1>1, <1>5 DEF Rankable
<1>7. ASSUME NEW t \in links, Outranks(t, s)
      PROVE  FALSE
  <2>1. /\ ResidualRisk(t) \in Int /\ ResidualRisk(t) <= m
        /\ t.depth \in Int /\ s.depth \in Int
    BY <1>1, <1>5 DEF Rankable
  <2>2. /\ t \in top
        /\ \/ ~t.reversible /\ s.reversible
           \/ t.reversible = s.reversible /\ t.depth > s.depth
    BY <1>5, <1>6, <1>7, <2>1 DEF Outranks
  <2>3. t \in best
    BY <1>4, <1>5, <2>1, <2>2
  <2> QED
    BY <1>3, <1>4, <1>5, <2>1, <2>2, <2>3
<1> QED
  BY <1>5, <1>6, <1>7 DEF BoundingLinks

\* A bounding link alone reaches what all links together do.
LEMMA BoundingReaches ==
    ASSUME NEW links, \A s \in links : Rankable(s), NEW s \in BoundingLinks(links)
    PROVE  Autonomy({s}, Default) = Autonomy(links, Default)
<1>1. s \in links /\ \A t \in links : ResidualRisk(t) <= ResidualRisk(s)
  BY DEF BoundingLinks, Outranks, Rankable
<1>2. \A t \in links : ResidualRisk(t) \in Int
  BY DEF Rankable
<1>3. ASSUME NEW n \in Int
      PROVE  RiskReaches({s}, n) <=> RiskReaches(links, n)
  BY <1>1, <1>2 DEF RiskReaches
<1> QED
  BY <1>3 DEF Autonomy, Default

\* What the analysis reports.
Explained ==
    report # NoReport =>
        /\ report.links = Bundled(supplied)
        /\ report.autonomy = Ceiling(supplied)
        /\ \/ BoundingLinks(Bundled(supplied)) = {} /\ report.bounding = {}
           \/ \E s \in BoundingLinks(Bundled(supplied)) : report.bounding = {s}

\* Gate G11: the bounding link an analysis names explains its ceiling, and one
\* is named unless every condition is closed (BoundExplainsCeiling of Adapters).
THEOREM BoundExplainsCeilingHolds == Spec => []BoundExplainsCeiling
<1>1. Init => Explained
  BY DEF Init, Explained
<1>2. Explained /\ [Next]_vars => Explained'
  <2> SUFFICES ASSUME Explained, [Next]_vars PROVE Explained'
    OBVIOUS
  <2>1. ASSUME NEW p \in Producers, Supply(p) \/ Revise(p)
        PROVE  Explained'
    BY <2>1 DEF Supply, Revise, Explained
  <2>2. ASSUME analyze_evidence_bundle PROVE Explained'
    BY <2>2 DEF analyze_evidence_bundle, Explained
  <2>3. CASE UNCHANGED vars
    BY <2>3 DEF vars, Explained, Ceiling
  <2> QED  BY <2>1, <2>2, <2>3 DEF Next
<1>3. Explained => BoundExplainsCeiling
  <2> SUFFICES ASSUME Explained, report # NoReport
               PROVE  /\ Autonomy(report.bounding, Default) = report.autonomy
                      /\ report.bounding = {} <=> \A s \in report.links : s.status = "CLOSED"
    BY DEF BoundExplainsCeiling
  <2> DEFINE links == Bundled(supplied)
  <2>1. \A s \in links : Rankable(s)
    BY SignalsRankable DEF Bundled
  <2>2. /\ report.links = links
        /\ report.autonomy = Autonomy(links, Default)
        /\ \/ BoundingLinks(links) = {} /\ report.bounding = {}
           \/ \E s \in BoundingLinks(links) : report.bounding = {s}
    BY DEF Explained, Ceiling
  <2> HIDE DEF links
  <2>3. CASE BoundingLinks(links) = {} /\ report.bounding = {}
    <3>1. \A s \in links : ResidualRisk(s) = 0 /\ s.status = "CLOSED"
      BY <2>1, <2>3, BoundingExists DEF Rankable
    <3>2. \A n \in {80, 50, 20} : ~RiskReaches(links, n) /\ ~RiskReaches({}, n)
      BY <3>1 DEF RiskReaches
    <3>3. Autonomy(links, Default) = 4 /\ Autonomy({}, Default) = 4
      BY <3>2 DEF Autonomy, Default
    <3> QED  BY <2>2, <2>3, <3>1, <3>3
  <2>4. ASSUME NEW s \in BoundingLinks(links), report.bounding = {s}
        PROVE  /\ Autonomy(report.bounding, Default) = report.autonomy
               /\ ~\A t \in report.links : t.status = "CLOSED"
    <3>1. s \in links /\ ResidualRisk(s) > 0
      BY DEF BoundingLinks
    <3>2. s.status # "CLOSED"
      BY <2>1, <3>1 DEF Rankable
    <3> QED  BY <2>1, <2>2, <2>4, <3>1, <3>2, BoundingReaches
  <2> QED  BY <2>2, <2>3, <2>4
<1> QED
  BY <1>1, <1>2, <1>3, PTL DEF Spec
=============================================================================
