# A specification of RadialD

RadialD shares work that is already running between callers of one authority,
builds pipelines on that sharing, and derives from explicit evidence how far a
machine may act alone. This directory holds TLA+ modules of its core, TLC
configurations that check them on small instances, and proofs checked by TLAPS.
Everything refers to RadialD 0.4.1; file names below are those of `radiald/`.

    tlc -workers 2 -config executor.cfg MCRadialExecutor
    tlapm RadialExecutorProofs.tla

## 1. The system

| Component | State | Operations | Meets |
|---|---|---|---|
| `core.py` RadialExecutor | `_inflight` (key to Future), `_active_key_authorities` (work id to authorities), seven counters, one lock; a Future per owner | `run`, `stats` | called by threads and by the graph; calls back `compute` and `verifier` |
| `graph.py` RadialGraphExecutor | locals of `run`: value, digest, lineage, trace; one RadialExecutor | `run`, `stats` | calls `RadialExecutor.run` once per stage |
| `weaklink.py` WeakLinkAnalyzer | none (a policy) | `analyze` | called by the fabric and by adapters |
| `fabric.py` assurance fabric | none (an analysis is one function call) | `analyze_assurance_fabric`, `bind_evidence`, `policy_signals`, `contradiction_signals` | calls the external verifier back; calls the analyzer |
| `receipt.py`, `seal.py` | none (receipts are dicts the caller carries) | make, verify, seal, verify seal | use results of the fabric; call signer and verifier back |
| `adapters.py` | none | five translations of reports into signals, one bundle | calls the analyzer |
| `canonical.py` | none | `canonical_bytes`, `stable_digest`, `typed_identity` | used by all others |
| `cli.py`, `examples/`, `.github/scripts` | none | demonstrations; a scan of the repository | not part of the core |

What is hard in each, and what makes it correct:

* **RadialExecutor** is the only concurrent object. Any number of threads enter
  `run`; each takes the lock two or three times and does the slow work
  (compute, verifier, digest, waiting) outside. Owners fail in four ways,
  joiners time out, verifiers differ between owner and joiner, several
  authorities run the same work. It is correct if identical work of one
  authority never runs twice at once, authorities never meet, both tables say
  exactly who is inside, failures reach everybody who waits, counters add up,
  and nobody waits for ever.
* **RadialGraphExecutor** multiplies these interleavings: a pipeline owns some
  stages and joins others. It is correct if each pipeline ends with what its
  stages alone would give, if only equal histories share, and if a trace is the
  evidence of what happened.
* **The fabric and the analyzer** are sequential, but their input is
  adversarially varied: envelopes that are stale, from the future, tampered
  with, about another action, too many; verifiers that raise; producers who
  contradict each other or speak in the policy's name; time passing between two
  analyses. They are correct if the machine may act only on complete, trusted,
  fresh and coherent evidence, and nothing but better evidence raises the
  ceiling.
* **Receipts and seals** are carried by others, written in JSON's forms, edited,
  mixed up and sealed again, and receipts of old releases are among them. They
  are correct if what verifies says what was issued and a seal vouches for what
  its signer saw.
* **Adapters** combine what five producers report with whether the caller could
  verify it, in thousands of mixes. They are correct if no claim counts before
  verification, the machine acts alone only if every report affirms the action,
  and a better report never lowers the ceiling.
* **Canonical values** are correct if exactly the unsupported and the circular
  are refused, and two values have one identity exactly if they are the same in
  type and content.

## 2. Modules

    WorkData            arguments, Futures and outcomes of run()
    RadialExecutor      extends WorkData        core.py
    SharedWork          extends WorkData        what run() promises
    NestedWork          extends RadialExecutor  run() inside compute, interrupts
    RadialGraph         extends RadialExecutor  graph.py
    WeakLink                                    weaklink.py
    Fabric              extends WeakLink        fabric.py
    Receipt             extends Fabric          receipt.py, seal.py
    Adapters            extends WeakLink        adapters.py
    Canonical                                   canonical.py

    MCRadialExecutor, MCNestedWork, MCRadialGraph, MCFabric, MCReceipt,
    MCAdapters, MCCanonical                     instances for TLC
    Induction                                   numbers and recursion, for proofs
    RadialExecutorProofs, NestedWorkProofs, RadialGraphProofs, FabricProofs,
    ReceiptProofs, AdaptersProofs, CanonicalProofs

Definitions whose comment starts with `Bug:` are not part of a specification.
Each is what the definition after it would be with a plausible mistake, and
shows, put in its place, that a property would notice.

### RadialExecutor

A member of `Calls` is one invocation of `run`. `pc[c]` says where it is:

| `pc` | place in core.py | left by |
|---|---|---|
| `idle` | not called yet | `Refuse` (76-80), `Join` (84-89), `Own` (84-98) |
| `compute` | 116-127, no lock held | `ComputeReturns`, `ComputeRaises` |
| `cleanup` | 128-135 | `Cleanup` |
| `wait` | 102, waiting on the owner's Future | `WaitExpires`, `WaitRaises`, `WaitReturns` |
| `timedOut`, `rejected`, `accepted` | before the lock section that counts the ending (104, 109, 112) | `RecordTimeout`, `RecordRejected`, `RecordShared` |
| `done` | returned or raised; the answer is `outcome[c]` | |

Each block under `self._lock` is one step. Between two such blocks a call
touches its own Future or its own locals, so that is one step as well, ending
where the Future is settled. `inflight` maps keys to the owner whose Future is
stored, and `future[c]` is the Future of owner `c`: two executions of one key at
different times have different Futures, and a joiner keeps the one it found.
`Settle` asks the verifier, then takes the digest; either may raise. A verifier
is a function from values to `accept`, `reject` or an exception. A call with
`join_timeout` `"bounded"` may find its wait expired at any moment at which the
Future is pending; `"negative"` and identities without a canonical form
(`NoIdentity`) are refused before the lock. `TimeoutErrors` are the exceptions
of callables which `except FutureTimeoutError` in line 103 matches: from Python
3.11 on that name is the builtin `TimeoutError`.

`SharedWork` is the abstract service. It has no tables and no lock: a call leads
a flight or rides in one, at most one flight per authority and work key is open,
a rider boards only an open one and alights with what it landed with, its own
verifier's opinion, or an expired wait. `KeepsPromise` says that RadialExecutor
implements it, under the mapping at the end of `RadialExecutor`.

### NestedWork

A `compute` may call `run` again in its thread. `Parent` says which call makes
which, a call inside another enters while the other is in `compute`, and
`compute` cannot end before it returned; everything else is `RadialExecutor`'s.
`Interrupt` is a `KeyboardInterrupt` in the main thread at a place where `run`
catches nothing: after the first lock section and before the `try`, or in the
`finally` clause before its lock is taken. The thread leaves; both tables keep
its entry, and in the first case its Future stays pending. `Stuck` says that a
call is in a circle of unbounded waits or behind such a Future, and
`OnlyCirclesBlock` that this is the whole price. `Rank` orders the keys:
`AscendingNeverStuck` says that callers who nest in ascending order, as one
takes locks, are safe whoever owns and whoever joins.

### RadialGraph

The call that runs stage `i` of pipeline `p` is `<<p, i>>`, so `RadialExecutor`'s
variables and actions are used as they are, and `RadialGraph` adds the locals of
`run`. Python passes values by reference, so do the modules: a value is an
object, named by the call whose transform made it, and `heap` is its present
content. Digests stand for the content they were taken of, lineages for the
nested tuple that was digested. A transform builds a new object, returns a
constant, or changes its input in place. `TransformReturns` is compute, verifier
and digest of the owner; `StageProceeds` is everything else the executor does
for the stage together with the end of the loop body in graph.py:93-113.
`Formless` are initial values and stage keys without a canonical form: a
pipeline that meets one fails before the stage (`FailUnidentified`), and a
transform of kind `"formless"` makes a value whose digest raises in the owner
(`OwnerUnformed`).

### WeakLink and Fabric

Severities, confidences, multipliers and thresholds are hundredths, so a
residual risk is an integer up to one million and thresholds compare exactly.
An analysis is one atomic step, `Analyze`: the verifier's verdicts are any
subset of the envelopes that reach it (`Trustable`), one verdict per distinct
envelope, which is what the cache by fingerprint in fabric.py:227-231 gives; a
verifier that raises is one that refuses. Between analyses `Submit` adds an
envelope, `Produce` a signal of a producer, and `Tick` lets time pass: these
three are the caller's, not the code's. An envelope is `intact` when its
attestation digest is that of its own fields.

Envelopes are kept in the order given, since the limit cuts the sequence;
signals are a set, since a signal given twice changes neither the highest risk
nor the contradictions. `bind_evidence` and `policy_signals` are parts of
`Report` with nothing of their own.

### Receipt

`Receipt` goes on where `Fabric` ends. `Make` puts the last result into a
receipt, under the digest of this release (`JsonStable`) or that of releases up
to 0.4. The receipt in hand is then carried (`Carry`: its numbers become ints,
its sequences tuples, or back), changed (`Edit`), mixed with parts of others
(`Mix`) and sealed (`Seal`); these but `Make` and `Seal` are the world's doing.
A digest is what was digested, a signature what was signed with which key, and
the external verifier accepts just that. The body keeps one number, one sequence
and one record of all fields that have only one form; the number is in
millionths, so a system assurance may be 0, 1 or in between.

### Adapters

A bundle has at most one report of each of five producers. `Reports` holds, per
producer, the fields the code reads and the results of verification the caller
passes along. `Supply` adds a report, `Revise` changes one field of one, as
verifications end and observers report; `analyze_evidence_bundle` is the code.
Each `*_signals` operator is the function of that name. `Malformed` stands for
what is not a mapping. `material_divergence` may be missing, null, false or true
in two places, since the code looks in both and treats these differently.

### Canonical

A Python program builds object graphs: it creates containers, appends, adds and
assigns, so that containers are nested, shared, and circular. `Hashable` and
`PyEqual` are Python's and decide what a set or dict accepts. `Canon` is
`_canonical`: the stack of containers being visited, the sorting of sets and
dicts by the text of their elements, the refusal of circles and of unsupported
atoms. A form is a tag and what it is of. Of its JSON text only the place in the
order of texts matters, which is the constant `Before`; the instance spells
texts out and compares them token by token. Functions are recursive on things of
the heap, so `PyEqual` and `SameValue`, the reference (equal in type and content
all the way down), take one argument after the other.

## 3. What the runs check

Bounds are chosen so that every action fires and every outcome occurs; each
property was also seen to fail when the definition it depends on is replaced by
its `Bug:` variant.

| Run | Instance | Shows |
|---|---|---|
| `executor` | 3 calls, 2 authorities, 2 works, a good and an undigestible value, an ordinary and a timeout error, all verifiers | `TypeOK`, `SingleFlight`, `TablesAgree`, `SharedValueIsVouchedFor`, `Accounting`, `JoinsOnlyRunningWork`, `RefusalsCountForeignWork` |
| `promise` | 3 calls, 1 authority, 1 work, no `TimeoutErrors` | `KeepsPromise`, `FailureReachesJoiners`, and under `ScheduledSpec` `BoundedJoinReturns`, `EveryCallReturns` |
| `nested` | 2 threads, each with a call inside a call, 2 authorities, 1 work, one thread interruptible | `SingleFlight`, `AscendingNeverStuck`, `OnlyCirclesBlock`, `BoundedJoinReturns` |
| `graph` | 3 pipelines of up to 2 stages, 10 kinds of job, transforms that do not change their input | `GraphTypeOK`, `IsolatedResult`, `TraceIsEvidence`, `PrefixOnlySharing`, `LineageTellsHistory`, `PipelinesEnd` |
| `fabric` | 4 policies, 2 sets of thresholds, 2 of 6 envelopes, 2 of 5 signals, clock 0 to 2 | `FabricTypeOK`, `FailsClosed`, `FreshPerSource`, `OneAction`, `UntrustedIsInert`, `ContradictionsBlock`, `SignalsNeverHelp`, `WaitingNeverHelps` |
| `receipt` | 1 envelope, intact or not, 1 signal of small risk, 2 receipts issued, 2 keys, 2 seals | `ReceiptTellsItsAnalysis`, `SealVouchesForReceipt`, `ReceiptedAutonomyWasEarned`, `JourneyKeepsVerdicts`, `SealsVerify` |
| `adapters` | every pair of reports, 2 dimensions, lists of 0, 1 and 3 findings with a limit of 2 | `ClaimsNeedVerification`, `AutonomyNeedsProof`, `BoundExplainsCeiling`, `BetterReportNeverHurts` |
| `canonical` | 2 containers of 5 kinds with up to 2 rows, 4 atoms | `FailsClosedExactly`, `IdentityIsTypedContent` |
| `lost_error` | as `promise`, with a timeout error | a violation, see 6 |
| `shared_mutation` | 2 pipelines, two transforms that change their input | a violation, see 6 |
| `future_evidence` | a requirement without preflight | a violation, see 6 |
| `null_divergence` | as `adapters` | a violation, see 6 |

Why these bounds: with three calls one can own, one join and one be of another
authority or arrive in the window between `set_result` and the `finally` block;
a second work makes removal of one key while another stays visible. Two threads
that each nest once are the least that can wait for each other, and one alone
can wait for itself. Two stages are enough to diverge and come back to an equal
value, and three pipelines let two share while the third does not. Two envelopes
are one more than the smallest budget, the least that can disagree, and enough
to cover two required sources; three moments make evidence fresh, stale and
early; two signals can contradict each other. Two receipts can be mixed up, and
one of them can be of the old form; two keys can be exchanged, and two seals
made. Reports of different producers only meet in one union of links, so two
show what any number does (and `AdaptersProofs` does not need the bound). Two
containers can hold, share and enclose each other, and among the atoms are two
that Python calls equal (`True` and 1) and one that is refused.

Symmetry is used in `executor`, over calls, authorities and works, and in
`receipt`, over keys; neither run has a liveness property.
`nested` and `canonical` do not check deadlock: there a circle of waits, or a
heap that can grow no more, is a state in which the system really stops.

### Fairness

`ScheduledSpec` says that a thread which can go on does: every step of a call is
weakly fair except entering `run` and the end of `compute`, and a bounded wait
does expire. That is the scheduling of Python threads and the contract of
`Future.result(timeout)`. That `compute` ends is an assumption on the caller's
function; where it is needed it is the premise of the property
(`EveryCallReturns`), and `BoundedJoinReturns` holds without it. It does assume
that the joiner's own verifier ends: `WaitReturns` and what follows it is fair. `GraphFairSpec`
makes every step of a running pipeline fair, so it assumes that transforms end;
`NestedFairSpec` assumes that a `compute` ends once the call inside it has
returned, which is what makes `OnlyCirclesBlock` about circles and nothing else.
The lock needs no assumption: a lock section is one step. The other parts have
no liveness property: they are function calls.

## 4. What is proved

For all values of the constants, under the named assumptions of the modules:

* `RadialExecutorProofs`: `TypeCorrect`, `SingleFlightHolds`,
  `TablesAgreeHolds`, `SharedValueIsVouchedForHolds`,
  `JoinsOnlyRunningWorkHolds` and `RefusalsCountForeignWorkHolds`. None of these
  is inductive alone. The invariant `IInv` joins them to who a call is
  (`RolesOK`: an owner never joined, a joiner holds the Future of an owner with
  its key), to what the tables hold (`TablesOK`: an entry for exactly the owners
  inside; the second table is the first seen by work), and to what a settled
  Future and a decided joiner say of values and verifiers. Single flight, for
  instance, needs that an owner whose Future is settled still has its entry
  until its own cleanup removes it. `FailureReachesJoinersHolds` adds that a
  Future once settled stays (`FailuresOK`), and assumes `TimeoutErrors = {}`,
  without which the property is false. `AccountingHolds` is true even if the set
  of calls is infinite. `CInv` adds to `IInv` that at any time finitely many
  calls have entered, so that a step which adds one to a set adds one to its
  cardinality, and that no Future holds `JoinTimeout` or `JoinerRejected`: only
  then does a joiner that re-raises its owner's exception not look like one that
  counted an ending of its own. `KeepsPromiseHolds` says that every behaviour of
  RadialExecutor is one of SharedWork, provided `TimeoutErrors = {}`. Initial
  states map to initial states and, given `IInv`, each action maps to the action
  of SharedWork it stands for; the three `Record` actions stutter, since a
  joiner's answer is decided before it is counted.
* `NestedWorkProofs`: `SingleFlightSurvives` says that identical work executes
  once however calls nest and wherever interrupts strike. The tables no longer
  hold exactly the owners inside, as in `TablesOK`, since an interrupted owner
  leaves its key; but the key of every owner inside still leads to that owner
  (`NestOwners`), and nobody else can remove it. `AscendingNeverStuckHolds`, for finitely many calls: a wait for a nested
  call leads to a larger key, a wait for an owner to the same key and to a call
  that waits for no owner itself, so along the waits a height climbs that cannot
  climb for ever (`NoEndlessClimb`). With interrupts the invariant `NInv` has to
  allow that an entry in the table belongs to an owner that has left.
* `RadialGraphProofs`: `LineageTellsHistoryHolds` and `PrefixOnlySharingHolds`
  for any pipelines, stages and transforms. Neither follows from the present
  lineages: a lineage may be met again by a pipeline that is behind. `HInv`
  therefore speaks of all lineages a pipeline ever had, which its trace records,
  and says that equal ones have equal predecessors back to the initial value;
  `SInv` adds that the key of every call, in flight or over, is made of the
  lineage its pipeline had at that stage. `GraphTypeOKHolds` has no premise;
  `IsolatedResultHolds` and `TraceIsEvidenceHolds` assume that transforms do not
  change their input (`Pure`); without that they are false, see
  `shared_mutation` in 6. `EInv` says that an object whose digest was taken
  still has the content it had then, so what a stage appends to the trace goes
  on telling the heap; what a pipeline gives alone is `ContentAfter`, a
  recursive function of the stage.
* `FabricProofs`: every property of the `fabric` run. The invariant `Derived`
  says that the last result is the report on what it records. The rest follows
  from two facts: an open condition of the policy has residual risk 1, which
  reaches every admissible `human_required_at` (`OpenConditionBlocks`), and more
  links never raise the ceiling (`CeilingIsMonotone`). `WaitingNeverHelps` also
  needs that freshness, once the clock has passed all dates, is only lost
  (`FreshBefore`). The bounds on envelopes and signals play no part.
* `ReceiptProofs`: every property of the `receipt` run. `RInv` says what form
  bodies have and that issued digests and seals are of what is on record;
  `JsonStable` keeps what a body says and does nothing the second time, hence
  two digests are equal only if the bodies say the same.
  `ReceiptedAutonomyWasEarnedHolds` rests on `FailsClosedHolds` of the fabric.
* `AdaptersProofs`: every property of the `adapters` run, for any dimensions,
  findings and number of reports. With the severities and confidences of
  adapters.py and the default thresholds, an open or contained condition has a
  residual risk of at least 0.2 and so costs full autonomy, and a doubt about a
  report one of at least 0.8, which leaves all to a human (`LinkWeighs`); each
  producer's translation is then a lemma of its own. A better report has for
  each of its links one that was no milder (`SignalsMilder`). For
  `BoundExplainsCeilingHolds` there has to be a bounding link: residual risks
  and depths are bounded, so some link is outranked by none (`BoundingExists`).
* `CanonicalProofs`: both properties of the `canonical` run, for heaps of any
  size. Recursion ends although heaps have circles: each container met is pushed
  on the stack, so fewer remain (`CanonSteps`, by induction on those off the
  stack). `HeapOK` says that containers have the rows of their kind.
  `FailsClosedExactlyHolds`: a value is refused exactly if it is `Unformed`, and
  of two containers in a circle each is below the other. A value with a form has
  the same on every stack (`StackIrrelevant`) and is deeper than its parts
  (`FormedParts`), which is what the rest is by induction on.
  `IdentityIsTypedContentHolds` compares rows: sorted by keys that differ they
  can be put in one order only (`AscendingUnique`). That the keys of a set or
  dict do differ is `KeysOK`, an invariant that needs `Founded`: immutable
  containers are younger than their parts and never change, so what is hashable
  stays so, and what differs for Python keeps differing (`EqualKept`). The
  comparisons have circles to meet too; that their definitions have a solution
  at all is `FixedPoint`, the theorem of Knaster and Tarski on sets. The theorem
  assumes `TextsOrdered`: on the forms of what is in the heap, `Before` is a
  strict order that tells any two of them apart, as the order of their JSON
  texts does. (TLC evaluates the same of some forms, `MCTextsOrdered`.)
* `Induction` has what these need of numbers: induction for sets, least and
  greatest members, and that a step function has a run from every start. The
  library states these with operators as parameters, which the provers do not
  take.

Only model-checked: all liveness (`BoundedJoinReturns`, `EveryCallReturns`,
`PipelinesEnd`, `OnlyCirclesBlock`), for which the prover has no rules.

The proofs about the fabric use `FabricAssumption`: envelopes, policies, signals
and thresholds are ones their constructors accept. Those about the executor use
that the exceptions of callables are not the ones `run` raises itself, and that
model values such as `NoCall` are not calls. Those about adapters use
`AdaptersAssumption`: findings are sequences, at least one is read (the code
reads 64), and `Malformed` and `NotSupplied` are no reports.
`CanonicalAssumption` says that `id()` gives different objects different names,
and that no atom has the type of a container.

## 5. What is abstracted

* SHA-256 is taken to be injective, and outside `Canonical` so is the canonical
  form: an identity is the value itself. That the form keeps values apart is
  what `IdentityIsTypedContent` checks. Values without a form are kept as such
  (`NoIdentity`, `Undigestible`, `Formless`).
* Floating point: products of severity, confidence and multiplier are exact in
  the model and rounded in the code; only a product within one rounding of a
  threshold can differ. Signals of the policy are 1.0 throughout and exact.
* Names as the last tie break among links of equal risk, reversibility and
  depth: any of them may be the bounding link. The texts of signals and
  exceptions, the names a signal affects, the size limits of names and bindings.
* An interrupt may strike where `NestedWork` has it. Inside the `try` it is an
  exception of `compute`, which `ComputeRaises` covers; two more places are
  named in section 6.
* `bind_evidence` and `policy_signals` called on their own are not further
  actions; a verifier that ends the process is outside the model.
* `Receipt`: the checks of the lengths of names, the schema field, base64.
* `Adapters`: findings that are no list or no mapping (they give no signal);
  an analyzer with thresholds of its own.
* `Canonical`: the spelling of numbers and of escapes in strings (`json.dumps`
  and `float.hex` are taken to keep atoms of one type apart, and JSON texts to be
  different where forms are).

## 6. Where the code and its documents disagree

* **A lost error** (`lost_error`, core.py:103). `future.result(timeout)` raises
  the owner's exception again. If that is a `TimeoutError`, the joiner takes it
  for its own expired wait, even when it set none: it raises "timed out waiting
  for shared RadialD work" and counts a timed-out join. DDC_GATES.md:29 promises
  that computation errors propagate to every joined caller. Without such
  exceptions the promise holds, which is `KeepsPromiseHolds`.
* **Shared objects** (`shared_mutation`, graph.py:93). Owner and joiners of a
  stage continue with one object. If their next transforms change their input in
  place, each pipeline sees the other's changes and the digests already in the
  trace are stale. Each transform is deterministic, which is all that
  DDC_GATES.md:9 asks; that transforms must not change their input is written
  nowhere.
* **Evidence from the future** (`future_evidence`, fabric.py:329). The date of
  an envelope is compared with the clock only for sources that owe preflight
  evidence. Another required source is satisfied, and its bindings are taken,
  from an envelope dated in the future: in the trace requirement and binding are
  CLOSED and the machine may act with receipts, while DDC_GATES.md:95 lists
  future-dated evidence among what remains UNRESOLVED.
* **Null divergence** (`null_divergence`, adapters.py:267). A RenderDiff report
  that has the key `material_divergence` with the value null counts as known and
  not material, and closes `representation_divergence`. DDC_GATES.md:55 says the
  analysis must not have closed a condition for which no evidence was supplied.

Lesser ones have no run:

* A policy without required binding fields gets a CLOSED
  `cross_evidence_binding` with no envelope at all, because there is nothing to
  disagree about; an empty bundle of reports gets `autonomous_with_receipts`.
* DDC_GATES.md:105 says a receipt binds the report digest; receipt.py:43-66 has
  of the report only its bounding link, ceiling and number of signals.
* `material_divergence` false in the assessment overrides true in the summary
  (adapters.py:267). Findings after the 64th are dropped without a signal
  (adapters.py:183); the ceiling does not suffer, since one finding lowers it,
  but a dropped finding may have been the bounding link.
* An interrupt in the `finally` clause leaves a settled Future in the table
  (core.py:128), which every later call with that key is handed, while the
  docstring (core.py:41) says results are shared only while work is in flight.
  An interrupt between core.py:123 and 124 makes `set_exception` raise
  `InvalidStateError`, which replaces the interrupt.

## 7. Not modelled, and what is left

`cli.py` and `examples/` call the executors once and print; `__init__.py`
re-exports names; `.github/scripts/repository_security_guard.py` scans files in
continuous integration and is no part of the program. None has a state or a
promise of its own.

What could still be done: `Fabric` and `Adapters` in one analysis, signals of a
bundle passed to `analyze_assurance_fabric` as producers' signals, so that a
contradiction between an adapter and the policy is met with the real names.
