------------------------------ MODULE Receipt ------------------------------
(***************************************************************************)
(* radiald/receipt.py and radiald/seal.py on top of the fabric: a result   *)
(* is put into a receipt, the receipt is carried through JSON and other    *)
(* forms, changed by mistake, mixed up with others, sealed and verified.   *)
(*                                                                         *)
(* SHA-256 over the canonical form is taken to be injective, so a digest   *)
(* is modelled by what was digested, and a signature by what was signed    *)
(* with which key.  One receipt is in hand at a time; whatever was issued  *)
(* or sealed before may be taken up again, whole or in part.               *)
(***************************************************************************)
EXTENDS Fabric

CONSTANTS
    Keys,        \* key ids
    Algorithms,  \* names of signature algorithms
    MaxIssued,   \* bound on the receipts issued
    MaxSealed,   \* bound on the seals made
    NoReceipt,   \* in hand before the first receipt
    NoLink       \* the bounding_link of a report that has none

\* The seal of a receipt without one.
NoSeal == <<>>

VARIABLES
    receipt,   \* the receipt in hand
    issued,    \* what was issued: body, digest and the analysis it is of
    sealings   \* what was sealed: what the receipt said, its digest and the seal

circulation == <<receipt, issued, sealings>>
receiptVars == <<vars, circulation>>
---------------------------------------------------------------------------
\* The body of a receipt: all of it but receipt_digest and seal.  assurance
\* stands for its numbers, in millionths, each a float or an int; evidence for
\* its sequences, each a list or a tuple; others for the fields that are written
\* in one way only.
One == 100 * 100 * 100
Number(type, n)    == [type |-> type, n |-> n]
Listed(kind, items) == [kind |-> kind, items |-> items]

Bounding(links) == IF BoundingLinks(links) = {} THEN {NoLink} ELSE BoundingLinks(links)
Risk(link)      == IF link = NoLink THEN 0 ELSE ResidualRisk(link)

\* The value of each field that has exactly one.
Resolved(p, items, trusted) ==
    [f \in p.required_fields \ (Missing(p, items, trusted) \cup Conflicts(p, items, trusted))
        |-> Bound(items, trusted, f)]

\* What make_assurance_receipt writes of result r, whose bounding link is b.
Body(r, b, t) ==
    [autonomy  |-> r.autonomy,
     assurance |-> Number("float", One - Risk(b)),
     evidence  |-> Listed("list", r.items),
     others    |-> [issued_at  |-> t,
                    policy     |-> policy,
                    consistent |-> r.consistent,
                    resolved   |-> Resolved(policy, r.items, r.trusted),
                    conflicts  |-> Conflicts(policy, r.items, r.trusted),
                    missing    |-> Missing(policy, r.items, r.trusted),
                    bounding   |-> b,
                    count      |-> Cardinality(r.links)]]

Integral(x) == x.n % One = 0

\* What a body says, however it is written.
Content(b) == [autonomy |-> b.autonomy, assurance |-> b.assurance.n,
               evidence |-> b.evidence.items, others |-> b.others]

\* Body b with its numbers and sequences written in other ways.
Written(b, type, kind) ==
    [autonomy |-> b.autonomy, assurance |-> Number(type, b.assurance.n),
     evidence |-> Listed(kind, b.evidence.items), others |-> b.others]

\* Bugs: every float is cut to an int; tuples are left as they are.
StableCut(b) == [b EXCEPT !.assurance = Number("int", @.n - (@.n % One)),
                          !.evidence  = Listed("list", @.items)]
StableTuples(b) == Written(b, IF Integral(b.assurance) THEN "int" ELSE b.assurance.type,
                           b.evidence.kind)
\* _json_stable: integral floats become ints, tuples lists.
JsonStable(b) == Written(b, IF Integral(b.assurance) THEN "int" ELSE b.assurance.type,
                         "list")

\* verify_assurance_receipt: the digest is that of the JSON-stable body, or of
\* the body as it is, as releases up to 0.4 made it.
Verifies(r) == r.digest = JsonStable(r.body) \/ r.digest = r.body

Payload(digest, algorithm, key_id) ==
    [receipt_digest |-> digest, algorithm |-> algorithm, key_id |-> key_id]

\* What a signer returns for a payload.
Signature(payload, algorithm, key_id) ==
    [over |-> payload, algorithm |-> algorithm, by |-> key_id]

\* Bug: the digest is taken anew.
SealAnew(r, algorithm, key_id) ==
    LET payload == Payload(JsonStable(r.body), algorithm, key_id)
    IN  [algorithm |-> algorithm, key_id |-> key_id, signed_payload_digest |-> payload,
         signature |-> Signature(payload, algorithm, key_id)]
SealOf(r, algorithm, key_id) ==
    LET payload == Payload(r.digest, algorithm, key_id)
    IN  [algorithm |-> algorithm, key_id |-> key_id, signed_payload_digest |-> payload,
         signature |-> Signature(payload, algorithm, key_id)]

\* Bug: the signed payload is not compared with the receipt.
PayloadAnyReceipt(r) == TRUE
PayloadMatches(r) ==
    r.seal.signed_payload_digest = Payload(r.digest, r.seal.algorithm, r.seal.key_id)

\* verify_assurance_seal: the external verifier accepts what the named key
\* signed with the named algorithm.
VerifiesSeal(r) ==
    /\ Verifies(r)
    /\ r.seal # NoSeal
    /\ PayloadMatches(r)
    /\ r.seal.signature = Signature(r.seal.signed_payload_digest,
                                    r.seal.algorithm, r.seal.key_id)
---------------------------------------------------------------------------
ReceiptInit ==
    /\ Init
    /\ receipt = NoReceipt
    /\ issued = {}
    /\ sealings = {}

\* The fabric goes on.
Assess == Next /\ UNCHANGED circulation

Issue(digest, b) ==
    LET body == Body(result, b, now)
    IN  /\ issued' = issued \cup {[of |-> result, body |-> body, digest |-> digest]}
        /\ Cardinality(issued') <= MaxIssued
        /\ receipt' = [body |-> body, digest |-> digest, seal |-> NoSeal]
        /\ UNCHANGED <<vars, sealings>>

\* make_assurance_receipt, now and in releases up to 0.4.
Make == /\ result # NoAnalysis
        /\ \E b \in Bounding(result.links) :
              \/ Issue(JsonStable(Body(result, b, now)), b)
              \/ Issue(Body(result, b, now), b)

\* All the ways in which Python, JSON and other languages write one body.
Forms(b) ==
    {Written(b, type, kind) :
        type \in {"float"} \cup (IF Integral(b.assurance) THEN {"int"} ELSE {}),
        kind \in {"list", "tuple"}}

Carry == /\ receipt # NoReceipt
         /\ \E b \in Forms(receipt.body) : receipt' = [receipt EXCEPT !.body = b]
         /\ UNCHANGED <<vars, issued, sealings>>

\* A change to the body: the ceiling is raised, or a number becomes 0.0.
Edit == /\ receipt # NoReceipt
        /\ \/ receipt' = [receipt EXCEPT !.body = [@ EXCEPT !.autonomy = Len(Levels)]]
           \/ receipt' = [receipt EXCEPT !.body =
                             [@ EXCEPT !.assurance = Number("float", 0)]]
        /\ UNCHANGED <<vars, issued, sealings>>

\* A seal with other names on it.
Renamed(seal, k, a) ==
    [algorithm |-> a, key_id |-> k, signature |-> seal.signature,
     signed_payload_digest |-> seal.signed_payload_digest]

\* The digest of another receipt gets into the one in hand, or its seal, or a
\* seal under another name; or another receipt is taken up as it was issued.
Mix == /\ receipt # NoReceipt
       /\ \/ \E i \in issued : receipt' = [receipt EXCEPT !.digest = i.digest]
          \/ \E s \in sealings : receipt' = [receipt EXCEPT !.seal = s.seal]
          \/ \E k \in Keys, a \in Algorithms :
                /\ receipt.seal # NoSeal
                /\ receipt' = [receipt EXCEPT !.seal = Renamed(receipt.seal, k, a)]
          \/ \E i \in issued :
                receipt' = [body |-> i.body, digest |-> i.digest, seal |-> NoSeal]
       /\ UNCHANGED <<vars, issued, sealings>>

\* seal_assurance_receipt; an earlier seal is replaced.
Seal(k, a) ==
    /\ receipt # NoReceipt
    /\ Verifies(receipt)
    /\ receipt' = [receipt EXCEPT !.seal = SealOf(receipt, a, k)]
    /\ sealings' = sealings \cup
           {[said |-> Content(receipt.body), digest |-> receipt.digest,
             seal |-> receipt'.seal]}
    /\ Cardinality(sealings') <= MaxSealed
    /\ UNCHANGED <<vars, issued>>

ReceiptNext == \/ Assess \/ Make \/ Carry \/ Edit \/ Mix
               \/ \E k \in Keys, a \in Algorithms : Seal(k, a)

ReceiptSpec == ReceiptInit /\ [][ReceiptNext]_receiptVars
---------------------------------------------------------------------------
InHand == receipt # NoReceipt

\* Gate G17: a receipt that verifies under a digest once issued says what was
\* issued, in whatever form it was carried, and one issued by an old release
\* was carried unchanged (receipt.py:71-84).
ReceiptTellsItsAnalysis ==
    InHand /\ Verifies(receipt) =>
        \A i \in issued : receipt.digest = i.digest =>
            /\ Content(receipt.body) = Content(i.body)
            /\ i.digest # JsonStable(i.body) => receipt.body = i.body

\* A seal that verifies was made with the key and algorithm it names, for a
\* receipt that says the same (seal.py:10-52, tests/test_seal_binding.py).
SealVouchesForReceipt ==
    InHand /\ VerifiesSeal(receipt) =>
        \E s \in sealings :
            /\ s.seal.key_id = receipt.seal.key_id
            /\ s.seal.algorithm = receipt.seal.algorithm
            /\ s.digest = receipt.digest
            /\ s.said = Content(receipt.body)

\* A receipt that lets the machine act goes back to an analysis in which no
\* envelope was left unread, every required source had an intact, trusted
\* envelope and every required field a value: nothing that happens to a
\* receipt on its way raises its ceiling (receipt.py:32-84, fabric.py:223-342).
ReceiptedAutonomyWasEarned ==
    InHand /\ Verifies(receipt) /\ receipt.body.autonomy > 1 =>
        \A i \in issued : receipt.digest = i.digest =>
            /\ ~i.of.exceeded
            /\ \A s \in policy.required_sources : \E e \in i.of.trusted :
                   e.source = s /\ e.disposition = "VERIFIED" /\ e.intact
            /\ \A f \in policy.required_fields : \E e \in i.of.trusted :
                   f \in DOMAIN e.bindings

\* "the form it has after any JSON round-trip" (receipt.py:13): a receipt of
\* this release verifies, with its seal, in every form it may be carried in or
\* in none.
JourneyKeepsVerdicts ==
    [][(/\ InHand /\ InHand'
        /\ receipt'.body \in Forms(receipt.body)
        /\ receipt'.digest = receipt.digest
        /\ receipt'.seal = receipt.seal
        /\ JsonStable(receipt.digest) = receipt.digest)
       => /\ Verifies(receipt') = Verifies(receipt)
          /\ VerifiesSeal(receipt') = VerifiesSeal(receipt)]_receipt

\* Whatever happened to a receipt that can still be sealed, its seal then
\* verifies, and sealing changes nothing but the seal (receipt.py:87-116).
SealsVerify ==
    [][sealings' # sealings =>
          /\ VerifiesSeal(receipt')
          /\ receipt'.body = receipt.body
          /\ receipt'.digest = receipt.digest]_receiptVars
=============================================================================
