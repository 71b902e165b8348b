---------------------------- MODULE ReceiptProofs ----------------------------
(***************************************************************************)
(* What a receipt and a seal vouch for, whatever happens to them on their  *)
(* way, for any keys, policies, envelopes and signals and any number of    *)
(* receipts.  The argument is about forms: JsonStable forgets only how a   *)
(* body is written, so a digest determines what a body that verifies under *)
(* it says.                                                                *)
(***************************************************************************)
EXTENDS Receipt, FabricProofs

\* A body has the fields make_assurance_receipt writes.
BodyShape(b) == b = Written(b, b.assurance.type, b.evidence.kind)

\* A digest is that of a body that says s.
DigestSays(digest, s) == BodyShape(digest) /\ Content(digest) = s

InHandOK ==
    receipt # NoReceipt =>
        /\ receipt = [body |-> receipt.body, digest |-> receipt.digest,
                      seal |-> receipt.seal]
        /\ BodyShape(receipt.body)

IssuedOK == \A i \in issued : /\ BodyShape(i.body)
                              /\ i.digest = JsonStable(i.body) \/ i.digest = i.body

\* A seal in hand is one that was made, but for the names on it.
SealOK ==
    receipt # NoReceipt /\ receipt.seal # NoSeal =>
        \E s \in sealings :
            /\ receipt.seal.signed_payload_digest = s.seal.signed_payload_digest
            /\ receipt.seal.signature = s.seal.signature

SealingsOK ==
    \A s \in sealings :
        /\ DigestSays(s.digest, s.said)
        /\ s.seal.signed_payload_digest =
              Payload(s.digest, s.seal.algorithm, s.seal.key_id)
        /\ s.seal.signature =
              Signature(s.seal.signed_payload_digest, s.seal.algorithm, s.seal.key_id)

RInv == InHandOK /\ IssuedOK /\ SealOK /\ SealingsOK
---------------------------------------------------------------------------
\* Writing a body in another way keeps what it says.
LEMMA FormSays ==
    ASSUME NEW b, NEW type, NEW kind
    PROVE  /\ BodyShape(Written(b, type, kind))
           /\ Content(Written(b, type, kind)) = Content(b)
           /\ Written(b, type, kind).assurance = Number(type, b.assurance.n)
           /\ Written(b, type, kind).evidence = Listed(kind, b.evidence.items)
BY DEF BodyShape, Written, Content, Number, Listed

\* JsonStable keeps what a body says, and does nothing the second time.
LEMMA StableSays ==
    ASSUME NEW b
    PROVE  /\ DigestSays(JsonStable(b), Content(b))
           /\ JsonStable(JsonStable(b)) = JsonStable(b)
<1> DEFINE type == IF Integral(b.assurance) THEN "int" ELSE b.assurance.type
           c == Written(b, type, "list")
<1>1. JsonStable(b) = c
  BY DEF JsonStable
<1>2. BodyShape(c) /\ Content(c) = Content(b)
  BY FormSays
<1>3. c.assurance = [type |-> type, n |-> b.assurance.n]
  BY FormSays DEF Number
<1>4. c.assurance.type = type /\ (Integral(c.assurance) <=> Integral(b.assurance))
  BY <1>3 DEF Integral
<1>5. (IF Integral(c.assurance) THEN "int" ELSE c.assurance.type) = c.assurance.type
  BY <1>4
<1>6. c.evidence = [kind |-> "list", items |-> b.evidence.items]
  BY FormSays DEF Listed
<1>9. c.evidence.kind = "list"
  BY <1>6
<1> HIDE DEF c
<1>7. JsonStable(c) = Written(c, c.assurance.type, c.evidence.kind)
  BY <1>5, <1>9 DEF JsonStable
<1>8. JsonStable(c) = c
  BY <1>2, <1>7 DEF BodyShape
<1> QED
  BY <1>1, <1>2, <1>8 DEF DigestSays

\* What a receipt that verifies says is what its digest was made of.
LEMMA VerifiedDigest ==
    ASSUME NEW r, BodyShape(r.body), Verifies(r)
    PROVE  DigestSays(r.digest, Content(r.body))
BY StableSays DEF Verifies, DigestSays
---------------------------------------------------------------------------
LEMMA ReceiptInitially == ReceiptInit => RInv
BY DEF ReceiptInit, RInv, InHandOK, IssuedOK, SealOK, SealingsOK

LEMMA BodyIsShaped ==
    ASSUME NEW r, NEW b, NEW t
    PROVE  BodyShape(Body(r, b, t))
BY DEF BodyShape, Body, Written, Listed, Number

LEMMA MakeKeepsRInv == RInv /\ Make => RInv'
<1> SUFFICES ASSUME RInv, Make PROVE RInv'
  OBVIOUS
<1>1. PICK b, digest : /\ digest = JsonStable(Body(result, b, now)) \/ digest = Body(result, b, now)
                       /\ Issue(digest, b)
  BY DEF Make
<1> DEFINE body == Body(result, b, now)
           entry == [of |-> result, body |-> body, digest |-> digest]
<1>2. BodyShape(body)
  BY BodyIsShaped
<1>3. /\ issued' = issued \cup {entry}
      /\ receipt' = [body |-> body, digest |-> digest, seal |-> NoSeal]
      /\ sealings' = sealings
  BY <1>1 DEF Issue
<1>4. entry.body = body /\ entry.digest = digest
  OBVIOUS
<1>5. digest = JsonStable(body) \/ digest = body
  BY <1>1
<1> HIDE DEF body, entry
<1>6. InHandOK'
  BY <1>2, <1>3 DEF InHandOK
<1>7. IssuedOK'
  BY <1>2, <1>3, <1>4, <1>5 DEF RInv, IssuedOK
<1>8. SealOK' /\ SealingsOK'
  BY <1>3 DEF RInv, SealOK, SealingsOK
<1> QED
  BY <1>6, <1>7, <1>8 DEF RInv

\* Changing one part of the receipt in hand leaves the others.
LEMMA OnePart ==
    ASSUME InHandOK, receipt # NoReceipt, NEW v
    PROVE  /\ [receipt EXCEPT !.body = v] =
                  [body |-> v, digest |-> receipt.digest, seal |-> receipt.seal]
           /\ [receipt EXCEPT !.digest = v] =
                  [body |-> receipt.body, digest |-> v, seal |-> receipt.seal]
           /\ [receipt EXCEPT !.seal = v] =
                  [body |-> receipt.body, digest |-> receipt.digest, seal |-> v]
<1> DEFINE b == receipt.body
           d == receipt.digest
           s == receipt.seal
<1>1. receipt = [body |-> b, digest |-> d, seal |-> s]
  BY DEF InHandOK
<1> HIDE DEF b, d, s
<1>2. /\ [receipt EXCEPT !.body = v] = [body |-> v, digest |-> d, seal |-> s]
      /\ [receipt EXCEPT !.digest = v] = [body |-> b, digest |-> v, seal |-> s]
      /\ [receipt EXCEPT !.seal = v] = [body |-> b, digest |-> d, seal |-> v]
  BY <1>1
<1> QED
  BY <1>2 DEF b, d, s

\* A step that issues and seals nothing, and leaves in hand a body with the
\* fields of one and a seal that was made, or none.
LEMMA JourneyKeepsRInv ==
    ASSUME RInv, NEW b, NEW d, NEW s, BodyShape(b),
           receipt' = [body |-> b, digest |-> d, seal |-> s],
           UNCHANGED <<issued, sealings>>,
           s # NoSeal => \E x \in sealings :
               /\ s.signed_payload_digest = x.seal.signed_payload_digest
               /\ s.signature = x.seal.signature
    PROVE  RInv'
<1>1. receipt'.body = b /\ receipt'.digest = d /\ receipt'.seal = s
  OBVIOUS
<1>2. InHandOK'
  BY <1>1 DEF InHandOK, BodyShape
<1>3. SealOK'
  BY <1>1 DEF SealOK
<1>4. IssuedOK' /\ SealingsOK'
  BY DEF RInv, IssuedOK, SealingsOK
<1> QED
  BY <1>2, <1>3, <1>4 DEF RInv

LEMMA CarryKeepsRInv == RInv /\ Carry => RInv'
<1> SUFFICES ASSUME RInv, Carry PROVE RInv'
  OBVIOUS
<1>1. PICK b \in Forms(receipt.body) : receipt' = [receipt EXCEPT !.body = b]
  BY DEF Carry
<1>2. receipt # NoReceipt /\ UNCHANGED <<issued, sealings>>
  BY DEF Carry
<1>3. receipt' = [body |-> b, digest |-> receipt.digest, seal |-> receipt.seal]
  BY <1>1, <1>2, OnePart DEF RInv
<1>4. BodyShape(b)
  BY <1>1, FormSays DEF Forms
<1> QED
  BY <1>2, <1>3, <1>4, JourneyKeepsRInv DEF RInv, SealOK

\* A body with one field changed is still one.
LEMMA EditedShape ==
    ASSUME NEW b, BodyShape(b), NEW level, NEW type, NEW n
    PROVE  /\ BodyShape([b EXCEPT !.autonomy = level])
           /\ BodyShape([b EXCEPT !.assurance = Number(type, n)])
<1> DEFINE auto == b.autonomy
           num  == b.assurance
           ev   == b.evidence
           rest == b.others
<1>1. /\ b = [autonomy |-> auto, assurance |-> num, evidence |-> ev, others |-> rest]
      /\ num = Number(num.type, num.n)
      /\ ev = Listed(ev.kind, ev.items)
  <2>1. /\ b.assurance = Number(num.type, num.n)
        /\ b.evidence = Listed(ev.kind, ev.items)
    BY FormSays DEF BodyShape
  <2> QED
    BY <2>1 DEF BodyShape, Written
<1> HIDE DEF auto, num, ev, rest
<1>2. /\ [b EXCEPT !.autonomy = level] =
            [autonomy |-> level, assurance |-> num, evidence |-> ev, others |-> rest]
      /\ [b EXCEPT !.assurance = Number(type, n)] =
            [autonomy |-> auto, assurance |-> Number(type, n), evidence |-> ev,
             others |-> rest]
  BY <1>1
<1>3. Number(type, n) = Number(Number(type, n).type, Number(type, n).n)
  BY DEF Number
<1>4. ASSUME NEW c, NEW l, NEW m, m = Number(m.type, m.n),
             c = [autonomy |-> l, assurance |-> m, evidence |-> ev, others |-> rest]
      PROVE  BodyShape(c)
  <2>1. c.autonomy = l /\ c.assurance = m /\ c.evidence = ev /\ c.others = rest
    BY <1>4
  <2>2. Written(c, m.type, ev.kind) = c
    BY <1>1, <1>4, <2>1 DEF Written
  <2> QED
    BY <2>1, <2>2 DEF BodyShape
<1> QED
  BY <1>1, <1>2, <1>3, <1>4

LEMMA EditKeepsRInv == RInv /\ Edit => RInv'
<1> SUFFICES ASSUME RInv, Edit PROVE RInv'
  OBVIOUS
<1>1. PICK b : receipt' = [receipt EXCEPT !.body = b] /\ BodyShape(b)
  BY EditedShape DEF Edit, RInv, InHandOK
<1>2. receipt # NoReceipt /\ UNCHANGED <<issued, sealings>>
  BY DEF Edit
<1>3. receipt' = [body |-> b, digest |-> receipt.digest, seal |-> receipt.seal]
  BY <1>1, <1>2, OnePart DEF RInv
<1> QED
  BY <1>1, <1>2, <1>3, JourneyKeepsRInv DEF RInv, SealOK

LEMMA MixKeepsRInv == RInv /\ Mix => RInv'
<1> SUFFICES ASSUME RInv, Mix PROVE RInv'
  OBVIOUS
<1>1. receipt # NoReceipt /\ UNCHANGED <<issued, sealings>> /\ BodyShape(receipt.body)
  BY DEF Mix, RInv, InHandOK
<1>2. CASE \E i \in issued : receipt' = [receipt EXCEPT !.digest = i.digest]
  <2>1. PICK i \in issued : receipt' = [receipt EXCEPT !.digest = i.digest]
    BY <1>2
  <2>2. receipt' = [body |-> receipt.body, digest |-> i.digest, seal |-> receipt.seal]
    BY <1>1, <2>1, OnePart DEF RInv
  <2> QED
    BY <1>1, <2>2, JourneyKeepsRInv DEF RInv, SealOK
<1>3. CASE \E s \in sealings : receipt' = [receipt EXCEPT !.seal = s.seal]
  <2>1. PICK s \in sealings : receipt' = [receipt EXCEPT !.seal = s.seal]
    BY <1>3
  <2>2. receipt' = [body |-> receipt.body, digest |-> receipt.digest, seal |-> s.seal]
    BY <1>1, <2>1, OnePart DEF RInv
  <2> QED
    BY <1>1, <2>2, JourneyKeepsRInv
<1>4. CASE \E k \in Keys, a \in Algorithms :
              /\ receipt.seal # NoSeal
              /\ receipt' = [receipt EXCEPT !.seal = Renamed(receipt.seal, k, a)]
  <2>1. PICK k \in Keys, a \in Algorithms :
              /\ receipt.seal # NoSeal
              /\ receipt' = [receipt EXCEPT !.seal = Renamed(receipt.seal, k, a)]
    BY <1>4
  <2> DEFINE new == Renamed(receipt.seal, k, a)
  <2>2. receipt' = [body |-> receipt.body, digest |-> receipt.digest, seal |-> new]
    BY <1>1, <2>1, OnePart DEF RInv
  <2>3. /\ new.signed_payload_digest = receipt.seal.signed_payload_digest
        /\ new.signature = receipt.seal.signature
    BY DEF Renamed
  <2>4. \E x \in sealings :
            /\ receipt.seal.signed_payload_digest = x.seal.signed_payload_digest
            /\ receipt.seal.signature = x.seal.signature
    BY <1>1, <2>1 DEF RInv, SealOK
  <2> HIDE DEF new
  <2> QED
    BY <1>1, <2>2, <2>3, <2>4, JourneyKeepsRInv
<1>5. CASE \E i \in issued :
              receipt' = [body |-> i.body, digest |-> i.digest, seal |-> NoSeal]
  <2>1. PICK i \in issued :
              receipt' = [body |-> i.body, digest |-> i.digest, seal |-> NoSeal]
    BY <1>5
  <2>2. BodyShape(i.body)
    BY DEF RInv, IssuedOK
  <2> QED
    BY <1>1, <2>1, <2>2, JourneyKeepsRInv
<1> QED
  BY <1>2, <1>3, <1>4, <1>5 DEF Mix

\* The parts of a new seal.
LEMMA SealParts ==
    ASSUME NEW r, NEW k, NEW a
    PROVE  LET s == SealOf(r, a, k)
           IN  /\ s.algorithm = a
               /\ s.key_id = k
               /\ s.signed_payload_digest = Payload(r.digest, a, k)
               /\ s.signature = Signature(s.signed_payload_digest, a, k)
BY DEF SealOf

LEMMA SealKeepsRInv ==
    ASSUME RInv, NEW k \in Keys, NEW a \in Algorithms, Seal(k, a)
    PROVE  RInv'
<1> DEFINE new == SealOf(receipt, a, k)
           entry == [said |-> Content(receipt.body), digest |-> receipt.digest, seal |-> new]
<1>1. /\ receipt # NoReceipt
      /\ Verifies(receipt)
      /\ BodyShape(receipt.body)
      /\ issued' = issued
  BY DEF Seal, RInv, InHandOK
<1>2. receipt' = [body |-> receipt.body, digest |-> receipt.digest, seal |-> new]
  BY <1>1, OnePart DEF Seal, RInv
<1>3. receipt'.body = receipt.body /\ receipt'.seal = new
  BY <1>2
<1>4. sealings' = sealings \cup {entry}
  BY <1>3 DEF Seal
<1>5. /\ new.algorithm = a
      /\ new.key_id = k
      /\ new.signed_payload_digest = Payload(receipt.digest, a, k)
      /\ new.signature = Signature(new.signed_payload_digest, a, k)
  BY SealParts
<1>6. DigestSays(receipt.digest, Content(receipt.body))
  BY <1>1, VerifiedDigest
<1> HIDE DEF new
<1>7. /\ entry.said = Content(receipt.body)
      /\ entry.digest = receipt.digest
      /\ entry.seal = new
  OBVIOUS
<1> HIDE DEF entry
<1>8. InHandOK'
  <2>1. receipt' = [body |-> receipt'.body, digest |-> receipt'.digest,
                    seal |-> receipt'.seal]
    BY <1>2
  <2> QED
    BY <1>1, <1>3, <2>1 DEF InHandOK, BodyShape
<1>9. SealOK'
  BY <1>3, <1>4, <1>7 DEF SealOK
<1>10. SealingsOK'
  BY <1>4, <1>5, <1>6, <1>7 DEF RInv, SealingsOK
<1>11. IssuedOK'
  BY <1>1 DEF RInv, IssuedOK
<1> QED
  BY <1>8, <1>9, <1>10, <1>11 DEF RInv

LEMMA ReceiptInductive == RInv /\ [ReceiptNext]_receiptVars => RInv'
<1> SUFFICES ASSUME RInv, [ReceiptNext]_receiptVars PROVE RInv'
  OBVIOUS
<1>1. CASE Assess
  BY <1>1 DEF Assess, circulation, RInv, InHandOK, IssuedOK, SealOK, SealingsOK
<1>2. CASE Make
  BY <1>2, MakeKeepsRInv
<1>3. CASE Carry
  BY <1>3, CarryKeepsRInv
<1>4. CASE Edit
  BY <1>4, EditKeepsRInv
<1>5. CASE Mix
  BY <1>5, MixKeepsRInv
<1>6. ASSUME NEW k \in Keys, NEW a \in Algorithms, Seal(k, a)
      PROVE  RInv'
  BY <1>6, SealKeepsRInv
<1>7. CASE UNCHANGED receiptVars
  BY <1>7 DEF receiptVars, circulation, RInv, InHandOK, IssuedOK, SealOK, SealingsOK
<1> QED
  BY <1>1, <1>2, <1>3, <1>4, <1>5, <1>6, <1>7 DEF ReceiptNext

\* Bodies have their form, and digests and seals are of what is on record.
THEOREM ReceiptsKeepForm == ReceiptSpec => []RInv
<1> QED
  BY ReceiptInitially, ReceiptInductive, PTL DEF ReceiptSpec
---------------------------------------------------------------------------
\* A receipt that verifies under an issued digest says what was issued.
LEMMA RInvTells == RInv => ReceiptTellsItsAnalysis
<1> SUFFICES ASSUME RInv, InHand, Verifies(receipt), NEW i \in issued,
                    receipt.digest = i.digest
             PROVE  /\ Content(receipt.body) = Content(i.body)
                    /\ i.digest # JsonStable(i.body) => receipt.body = i.body
  BY DEF ReceiptTellsItsAnalysis
<1>1. Content(i.digest) = Content(i.body)
  BY StableSays DEF RInv, IssuedOK, DigestSays
<1>2. Content(receipt.digest) = Content(receipt.body)
  BY VerifiedDigest DEF RInv, InHandOK, InHand, DigestSays
<1>3. ASSUME i.digest # JsonStable(i.body)
      PROVE  receipt.body = i.body
  <2>1. i.digest = i.body
    BY <1>3 DEF RInv, IssuedOK
  <2>2. CASE receipt.digest = JsonStable(receipt.body)
    BY <1>3, <2>1, <2>2, StableSays
  <2> QED
    BY <2>1, <2>2 DEF Verifies
<1> QED
  BY <1>1, <1>2, <1>3

\* Gate G17, for any number of receipts: what verifies under a digest once issued
\* says what was issued (receipt.py:71-84).
THEOREM ReceiptTellsItsAnalysisHolds == ReceiptSpec => []ReceiptTellsItsAnalysis
<1> QED
  BY ReceiptsKeepForm, RInvTells, PTL

LEMMA RInvVouches == RInv => SealVouchesForReceipt
<1> SUFFICES ASSUME RInv, InHand, VerifiesSeal(receipt)
             PROVE  \E s \in sealings :
                        /\ s.seal.key_id = receipt.seal.key_id
                        /\ s.seal.algorithm = receipt.seal.algorithm
                        /\ s.digest = receipt.digest
                        /\ s.said = Content(receipt.body)
  BY DEF SealVouchesForReceipt
<1>1. PICK s \in sealings :
          /\ receipt.seal.signed_payload_digest = s.seal.signed_payload_digest
          /\ receipt.seal.signature = s.seal.signature
  BY DEF RInv, SealOK, InHand, VerifiesSeal
<1>2. /\ DigestSays(s.digest, s.said)
      /\ s.seal.signed_payload_digest =
            Payload(s.digest, s.seal.algorithm, s.seal.key_id)
  BY DEF RInv, SealingsOK
<1>3. receipt.seal.signed_payload_digest =
          Payload(receipt.digest, receipt.seal.algorithm, receipt.seal.key_id)
  BY DEF VerifiesSeal, PayloadMatches
<1>4. /\ s.digest = receipt.digest
      /\ s.seal.algorithm = receipt.seal.algorithm
      /\ s.seal.key_id = receipt.seal.key_id
  BY <1>1, <1>2, <1>3 DEF Payload
<1>5. DigestSays(receipt.digest, Content(receipt.body))
  BY VerifiedDigest DEF RInv, InHandOK, InHand, VerifiesSeal
<1> QED
  BY <1>2, <1>4, <1>5 DEF DigestSays

\* A seal that verifies was made by the key it names for a receipt that says the
\* same (seal.py:10-52), for any number of receipts, keys and seals.
THEOREM SealVouchesForReceiptHolds == ReceiptSpec => []SealVouchesForReceipt
<1> QED
  BY ReceiptsKeepForm, RInvVouches, PTL
---------------------------------------------------------------------------
\* A number is an int only if it is whole, and those in issued bodies are floats.
NumberOK(x) == x.type = "float" \/ (x.type = "int" /\ Integral(x))
NumbersOK == /\ receipt # NoReceipt => NumberOK(receipt.body.assurance)
             /\ \A i \in issued : i.body.assurance.type = "float"

LEMMA FormNumber ==
    ASSUME NEW b, NEW c \in Forms(b)
    PROVE  NumberOK(c.assurance)
<1>1. PICK type, kind : /\ c = Written(b, type, kind)
                        /\ type = "float" \/ (type = "int" /\ Integral(b.assurance))
  BY DEF Forms
<1>2. c.assurance = [type |-> type, n |-> b.assurance.n]
  BY <1>1, FormSays DEF Number
<1>3. c.assurance.type = type /\ (Integral(c.assurance) <=> Integral(b.assurance))
  BY <1>2 DEF Integral
<1> QED
  BY <1>1, <1>3 DEF NumberOK

\* All the forms of a body have one stable form.
LEMMA FormsAgree ==
    ASSUME NEW b, NumberOK(b.assurance), NEW c \in Forms(b)
    PROVE  JsonStable(c) = JsonStable(b)
<1>1. PICK type, kind : /\ c = Written(b, type, kind)
                        /\ type = "float" \/ (type = "int" /\ Integral(b.assurance))
  BY DEF Forms
<1>2. /\ c.assurance = [type |-> type, n |-> b.assurance.n]
      /\ c.evidence = [kind |-> kind, items |-> b.evidence.items]
      /\ c.autonomy = b.autonomy
      /\ c.others = b.others
  BY <1>1 DEF Written, Number, Listed
<1>3. /\ c.assurance.type = type
      /\ c.assurance.n = b.assurance.n
      /\ c.evidence.items = b.evidence.items
      /\ Integral(c.assurance) <=> Integral(b.assurance)
  BY <1>2 DEF Integral
<1>4. (IF Integral(c.assurance) THEN "int" ELSE c.assurance.type)
        = (IF Integral(b.assurance) THEN "int" ELSE b.assurance.type)
  BY <1>1, <1>3 DEF NumberOK
<1> QED
  BY <1>2, <1>3, <1>4 DEF JsonStable, Written

LEMMA NumbersInductive ==
    RInv /\ NumbersOK /\ [ReceiptNext]_receiptVars => NumbersOK'
<1> SUFFICES ASSUME RInv, NumbersOK, [ReceiptNext]_receiptVars PROVE NumbersOK'
  OBVIOUS
<1>1. ASSUME UNCHANGED issued, receipt'.body = receipt.body, receipt # NoReceipt
      PROVE  NumbersOK'
  BY <1>1 DEF NumbersOK
<1>2. CASE Assess
  BY <1>2 DEF Assess, circulation, NumbersOK
<1>3. CASE Make
  <2>1. PICK b, digest : Issue(digest, b)
    BY <1>3 DEF Make
  <2> DEFINE body == Body(result, b, now)
             entry == [of |-> result, body |-> body, digest |-> digest]
  <2>2. /\ issued' = issued \cup {entry}
        /\ receipt' = [body |-> body, digest |-> digest, seal |-> NoSeal]
    BY <2>1 DEF Issue
  <2>3. body.assurance.type = "float"
    BY DEF Body, Number
  <2>4. entry.body = body
    OBVIOUS
  <2> HIDE DEF body, entry
  <2> QED
    BY <2>2, <2>3, <2>4 DEF NumbersOK, NumberOK
<1>4. CASE Carry
  <2>1. PICK b \in Forms(receipt.body) : receipt' = [receipt EXCEPT !.body = b]
    BY <1>4 DEF Carry
  <2>2. receipt'.body = b
    BY <1>4, <2>1, OnePart DEF RInv, Carry
  <2>3. NumberOK(b.assurance)
    BY FormNumber
  <2> QED
    BY <1>4, <2>2, <2>3 DEF Carry, NumbersOK
<1>5. CASE Edit
  <2>1. receipt # NoReceipt /\ BodyShape(receipt.body) /\ issued' = issued
    BY <1>5 DEF Edit, RInv, InHandOK
  <2> DEFINE old == receipt.body
             zero == Number("float", 0)
  <2>2. \/ receipt'.body = [old EXCEPT !.autonomy = Len(Levels)]
        \/ receipt'.body = [old EXCEPT !.assurance = zero]
    BY <1>5, <2>1, OnePart DEF Edit, RInv
  <2>3. /\ [old EXCEPT !.autonomy = Len(Levels)].assurance = old.assurance
        /\ [old EXCEPT !.assurance = zero].assurance = zero
    BY <2>1 DEF BodyShape, Written
  <2>4. zero.type = "float"
    BY DEF Number
  <2> QED
    BY <2>1, <2>2, <2>3, <2>4 DEF NumbersOK, NumberOK
<1>6. CASE Mix
  <2>1. receipt # NoReceipt /\ issued' = issued
    BY <1>6 DEF Mix
  <2>2. receipt'.body = receipt.body \/ \E i \in issued : receipt'.body = i.body
    <3>1. ASSUME NEW v, receipt' = [receipt EXCEPT !.digest = v]
          PROVE  receipt'.body = receipt.body
      BY <2>1, <3>1, OnePart DEF RInv
    <3>2. ASSUME NEW v, receipt' = [receipt EXCEPT !.seal = v]
          PROVE  receipt'.body = receipt.body
      BY <2>1, <3>2, OnePart DEF RInv
    <3>3. ASSUME NEW i \in issued,
                 receipt' = [body |-> i.body, digest |-> i.digest, seal |-> NoSeal]
          PROVE  receipt'.body = i.body
      BY <3>3
    <3> QED
      BY <1>6, <3>1, <3>2, <3>3 DEF Mix
  <2> QED
    BY <2>1, <2>2 DEF NumbersOK, NumberOK
<1>7. ASSUME NEW k \in Keys, NEW a \in Algorithms, Seal(k, a)
      PROVE  NumbersOK'
  <2>1. receipt # NoReceipt /\ issued' = issued
    BY <1>7 DEF Seal
  <2>2. receipt'.body = receipt.body
    BY <1>7, <2>1, OnePart DEF Seal, RInv
  <2> QED
    BY <1>1, <2>1, <2>2
<1>8. CASE UNCHANGED receiptVars
  BY <1>8 DEF receiptVars, circulation, NumbersOK
<1> QED
  BY <1>2, <1>3, <1>4, <1>5, <1>6, <1>7, <1>8 DEF ReceiptNext

Journey ==
    (/\ InHand /\ InHand'
     /\ receipt'.body \in Forms(receipt.body)
     /\ receipt'.digest = receipt.digest
     /\ receipt'.seal = receipt.seal
     /\ JsonStable(receipt.digest) = receipt.digest)
    => /\ Verifies(receipt') = Verifies(receipt)
       /\ VerifiesSeal(receipt') = VerifiesSeal(receipt)

LEMMA JourneyStep == RInv /\ NumbersOK => Journey
<1> SUFFICES ASSUME RInv, NumbersOK, InHand, InHand',
                    receipt'.body \in Forms(receipt.body),
                    receipt'.digest = receipt.digest,
                    receipt'.seal = receipt.seal,
                    JsonStable(receipt.digest) = receipt.digest
             PROVE  /\ Verifies(receipt') = Verifies(receipt)
                    /\ VerifiesSeal(receipt') = VerifiesSeal(receipt)
  BY DEF Journey
<1>1. JsonStable(receipt'.body) = JsonStable(receipt.body)
  BY FormsAgree DEF NumbersOK, InHand
<1>2. ASSUME NEW r, r.digest = receipt.digest
      PROVE  Verifies(r) <=> r.digest = JsonStable(r.body)
  BY <1>2 DEF Verifies
<1>3. Verifies(receipt') <=> Verifies(receipt)
  BY <1>1, <1>2
<1>4. PayloadMatches(receipt') <=> PayloadMatches(receipt)
  BY DEF PayloadMatches
<1>5. VerifiesSeal(receipt') <=> VerifiesSeal(receipt)
  BY <1>3, <1>4 DEF VerifiesSeal
<1>6. /\ Verifies(receipt') \in BOOLEAN /\ Verifies(receipt) \in BOOLEAN
      /\ VerifiesSeal(receipt') \in BOOLEAN /\ VerifiesSeal(receipt) \in BOOLEAN
  BY DEF Verifies, VerifiesSeal, PayloadMatches
<1> QED
  BY <1>3, <1>5, <1>6

\* "The form it has after any JSON round-trip" (receipt.py:13): a receipt of this
\* release verifies, with its seal, in every form of its body or in none.
THEOREM JourneyKeepsVerdictsHolds == ReceiptSpec => JourneyKeepsVerdicts
<1>1. ReceiptInit => NumbersOK
  BY DEF ReceiptInit, NumbersOK
<1>2. ReceiptSpec => []NumbersOK
  BY <1>1, NumbersInductive, ReceiptsKeepForm, PTL DEF ReceiptSpec
<1>3. RInv /\ NumbersOK => [Journey]_receipt
  BY JourneyStep
<1>4. ReceiptSpec => [][Journey]_receipt
  BY <1>2, <1>3, ReceiptsKeepForm, PTL
<1> QED
  BY <1>4 DEF JourneyKeepsVerdicts, Journey
---------------------------------------------------------------------------
\* What a result that lets the machine act went by.
Earned(r) ==
    /\ ~r.exceeded
    /\ \A s \in policy.required_sources : \E e \in r.trusted :
           e.source = s /\ e.disposition = "VERIFIED" /\ e.intact
    /\ \A f \in policy.required_fields : \E e \in r.trusted : f \in DOMAIN e.bindings

EarnedOK == \A i \in issued : /\ i.body.autonomy = i.of.autonomy
                              /\ i.of.autonomy > 1 => Earned(i.of)

\* The fabric does not notice receipts.
LEMMA FabricStep == [ReceiptNext]_receiptVars => [Next]_vars
<1> SUFFICES ASSUME [ReceiptNext]_receiptVars PROVE [Next]_vars
  OBVIOUS
<1>1. CASE Make
  <2>1. PICK b, digest : Issue(digest, b)
    BY <1>1 DEF Make
  <2> QED
    BY <2>1 DEF Issue
<1>2. ASSUME NEW k \in Keys, NEW a \in Algorithms, Seal(k, a)
      PROVE  UNCHANGED vars
  BY <1>2 DEF Seal
<1>3. CASE Assess \/ Carry \/ Edit \/ Mix \/ UNCHANGED receiptVars
  BY <1>3 DEF Assess, Carry, Edit, Mix, receiptVars
<1> QED
  BY <1>1, <1>2, <1>3 DEF ReceiptNext

LEMMA PolicyStays == [ReceiptNext]_receiptVars => policy' = policy
<1> SUFFICES ASSUME [Next]_vars PROVE policy' = policy
  BY FabricStep
<1> QED
  BY DEF Next, vars, Submit, Produce, Tick, Analyze

LEMMA EarnedInductive ==
    FailsClosed /\ EarnedOK /\ [ReceiptNext]_receiptVars => EarnedOK'
<1> SUFFICES ASSUME FailsClosed, EarnedOK, [ReceiptNext]_receiptVars
             PROVE  EarnedOK'
  OBVIOUS
<1>1. policy' = policy
  BY PolicyStays
<1>2. \A r : Earned(r) => Earned(r)'
  BY <1>1 DEF Earned
<1>3. CASE issued' = issued
  BY <1>1, <1>3 DEF EarnedOK, Earned
<1>4. CASE Make
  <2>1. PICK b, digest : Issue(digest, b)
    BY <1>4 DEF Make
  <2> DEFINE body == Body(result, b, now)
             entry == [of |-> result, body |-> body, digest |-> digest]
  <2>2. issued' = issued \cup {entry}
    BY <2>1 DEF Issue
  <2>3. body.autonomy = result.autonomy
    BY DEF Body
  <2>4. result.autonomy > 1 => Earned(result)
    BY <1>4 DEF Make, FailsClosed, LetsAct, Earned
  <2>5. entry.of = result /\ entry.body = body
    OBVIOUS
  <2> HIDE DEF body, entry
  <2> QED
    BY <1>1, <2>2, <2>3, <2>4, <2>5 DEF EarnedOK, Earned
<1>5. ASSUME NEW k \in Keys, NEW a \in Algorithms, Seal(k, a)
      PROVE  issued' = issued
  BY <1>5 DEF Seal
<1> QED
  BY <1>3, <1>4, <1>5 DEF ReceiptNext, Assess, Carry, Edit, Mix, receiptVars, circulation

LEMMA TellsAndEarned ==
    ReceiptTellsItsAnalysis /\ EarnedOK => ReceiptedAutonomyWasEarned
<1> SUFFICES ASSUME ReceiptTellsItsAnalysis, EarnedOK, InHand, Verifies(receipt),
                    receipt.body.autonomy > 1, NEW i \in issued,
                    receipt.digest = i.digest
             PROVE  Earned(i.of)
  BY DEF ReceiptedAutonomyWasEarned, Earned
<1>1. Content(receipt.body) = Content(i.body)
  BY DEF ReceiptTellsItsAnalysis
<1>2. receipt.body.autonomy = i.body.autonomy
  BY <1>1 DEF Content
<1> QED
  BY <1>2 DEF EarnedOK

\* From the envelopes to a receipt that was carried about: one that verifies and
\* lets the machine act goes back to an analysis in which no envelope was left
\* unread, every required source had an intact, trusted envelope and every
\* required field a value (fabric.py:223-342, receipt.py:32-84).
THEOREM ReceiptedAutonomyWasEarnedHolds == ReceiptSpec => []ReceiptedAutonomyWasEarned
<1>1. ReceiptInit => Init /\ EarnedOK
  BY DEF ReceiptInit, EarnedOK
<1>2. ReceiptSpec => Spec
  BY <1>1, FabricStep, PTL DEF ReceiptSpec, Spec
<1>3. ReceiptSpec => []EarnedOK
  BY <1>1, <1>2, FailsClosedHolds, EarnedInductive, PTL DEF ReceiptSpec
<1> QED
  BY <1>3, ReceiptTellsItsAnalysisHolds, TellsAndEarned, PTL
---------------------------------------------------------------------------
SealStep ==
    sealings' # sealings =>
        /\ VerifiesSeal(receipt')
        /\ receipt'.body = receipt.body
        /\ receipt'.digest = receipt.digest

LEMMA SealIsSome ==
    ASSUME NEW r, NEW k, NEW a
    PROVE  SealOf(r, a, k) # NoSeal
<1>1. "algorithm" \in DOMAIN SealOf(r, a, k) /\ DOMAIN NoSeal = {}
  BY DEF SealOf, NoSeal
<1> QED
  BY <1>1

LEMMA SealsVerifyStep == RInv /\ [ReceiptNext]_receiptVars => SealStep
<1> SUFFICES ASSUME RInv, [ReceiptNext]_receiptVars, sealings' # sealings
             PROVE  /\ VerifiesSeal(receipt')
                    /\ receipt'.body = receipt.body
                    /\ receipt'.digest = receipt.digest
  BY DEF SealStep
<1>1. PICK k \in Keys, a \in Algorithms : Seal(k, a)
  BY DEF ReceiptNext, receiptVars, circulation, Assess, Make, Issue, Carry, Edit, Mix
<1>2. receipt # NoReceipt /\ Verifies(receipt)
  BY <1>1 DEF Seal
<1> DEFINE new == SealOf(receipt, a, k)
<1>3. receipt' = [body |-> receipt.body, digest |-> receipt.digest, seal |-> new]
  BY <1>1, <1>2, OnePart DEF Seal, RInv
<1>4. /\ new.algorithm = a
      /\ new.key_id = k
      /\ new.signed_payload_digest = Payload(receipt.digest, a, k)
      /\ new.signature = Signature(new.signed_payload_digest, a, k)
      /\ new # NoSeal
  BY SealParts, SealIsSome
<1> HIDE DEF new
<1>5. /\ receipt'.body = receipt.body
      /\ receipt'.digest = receipt.digest
      /\ receipt'.seal = new
  BY <1>3
<1>6. Verifies(receipt')
  BY <1>2, <1>5 DEF Verifies
<1>7. PayloadMatches(receipt')
  BY <1>4, <1>5 DEF PayloadMatches
<1> QED
  BY <1>4, <1>5, <1>6, <1>7 DEF VerifiesSeal

\* A receipt that verifies can be sealed by any key, whatever its history: the
\* seal then verifies, and body and digest stay (receipt.py:87-116, seal.py:10-52).
THEOREM SealsVerifyHolds == ReceiptSpec => SealsVerify
<1>1. RInv /\ [ReceiptNext]_receiptVars => [SealStep]_receiptVars
  BY SealsVerifyStep
<1>2. ReceiptSpec => [][SealStep]_receiptVars
  BY <1>1, ReceiptsKeepForm, PTL DEF ReceiptSpec
<1> QED
  BY <1>2 DEF SealsVerify, SealStep
=============================================================================
