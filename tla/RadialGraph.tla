---------------------------- MODULE RadialGraph ----------------------------
(***************************************************************************)
(* RadialGraphExecutor.run of radiald/graph.py: concurrent pipelines run   *)
(* their stages through one RadialExecutor.  The call of RadialExecutor    *)
(* that runs stage i of pipeline p is <<p, i>>.                            *)
(*                                                                         *)
(* Values are objects passed by reference: an object is named by the call  *)
(* whose transform made it, or <<p, 0>> for the initial value of p, and    *)
(* heap gives its present content.  A digest stands for the content it was *)
(* taken of, a lineage digest for what was digested (SHA-256 is taken to   *)
(* be injective).                                                          *)
(***************************************************************************)
EXTENDS RadialExecutor, Sequences

CONSTANTS
    Pipelines,   \* invocations of RadialGraphExecutor.run()
    MaxStages,   \* bound on the stages of a pipeline
    StageKeys,   \* typed identities of stage keys
    Transform,   \* what the transform of each key does with its input
    StageVerdict,\* what the verifier of each key says of its output
    Formless,    \* initial values and stage keys without a canonical form
    Jobs,        \* the arguments of a pipeline
    Workloads    \* which pipelines are run together

ASSUME GraphAssumption ==
    /\ MaxStages \in Nat
    /\ Calls = Pipelines \X (1 .. MaxStages)
    /\ Values = Pipelines \X (0 .. MaxStages)
    /\ Undigestible = {}
    /\ Transform \in [StageKeys -> {"new", "constant", "inPlace", "formless"}]
    /\ StageVerdict \in [StageKeys -> Verdicts]
    /\ \A j \in Jobs : /\ j.authority \in Authorities \cup {NoIdentity}
                       /\ j.timeout \in {"none", "bounded", "negative"}
                       /\ j.stages \in Seq(StageKeys)
                       /\ Len(j.stages) <= MaxStages
    /\ Workloads \subseteq [Pipelines -> Jobs]

VARIABLES
    job,        \* the arguments of each pipeline
    status,     \* "running", "finished" or "failed"
    value,      \* the local variables of run()
    digest,
    lineage,
    trace,
    heap,       \* the content of each object
    resultDigest \* WorkResult.digest of each owner's result

locals == <<status, value, digest, lineage, trace>>
graphVars == <<vars, job, locals, heap, resultDigest>>

\* The content of the output of stage k on an input with content s.  A
\* "constant" transform gives the same output whatever its input.
Apply(k, s) == IF Transform[k] = "constant" THEN <<"constant">>
                                            ELSE Append(s, k)

Root(d) == <<d>>

GraphInit ==
    /\ Init
    /\ job     \in Workloads
    /\ status  = [p \in Pipelines |-> "running"]
    /\ value   = [p \in Pipelines |-> <<p, 0>>]
    /\ digest  = [p \in Pipelines |-> <<job[p].initial>>]
    /\ lineage = [p \in Pipelines |-> Root(digest[p])]
    /\ trace   = [p \in Pipelines |-> <<>>]
    /\ heap    = [o \in Values |-> IF o[2] = 0 THEN <<job[o[1]].initial>>
                                               ELSE <<>>]
    /\ resultDigest = [c \in Calls |-> <<>>]
---------------------------------------------------------------------------
\* The stage pipeline p has reached, and the call that runs it.
Position(p) == Len(trace[p]) + 1
StageKey(p) == job[p].stages[Position(p)]
CallOf(p)   == <<p, Position(p)>>

InStage(p) == status[p] = "running" /\ Position(p) <= Len(job[p].stages)

\* Bug: the key of a node forgets the lineage.
NodeKeyStageOnly(l, k) == <<k>>
NodeKey(l, k) == <<l, k>>

NodeRequest(p) ==
    [authority |-> job[p].authority,
     work      |-> NodeKey(lineage[p], StageKey(p)),
     verifier  |-> [v \in Values |-> StageVerdict[StageKey(p)]],
     timeout   |-> job[p].timeout]

\* Bug: the lineage forgets the stage.
NextLineageByOutput(l, k, d) == <<l, d>>
NextLineage(l, k, d) == <<l, k, d>>

\* Bug: the loop stops a stage early.
StatusEarly(p) == IF Position(p) + 1 >= Len(job[p].stages) THEN "finished"
                                                           ELSE "running"
StatusAfter(p) == IF Position(p) = Len(job[p].stages) THEN "finished"
                                                      ELSE "running"

\* Bug: a joiner's digest is not the owner's.
DigestUnshared(c) == resultDigest[c]
DigestOf(c) == resultDigest[IF joined[c] = NoCall THEN c ELSE joined[c]]

\* The executor answers with object v and digest d: the loop body ends.
Advance(p, v, d, shared) ==
    LET l == NextLineage(lineage[p], StageKey(p), d)
    IN  /\ value'   = [value EXCEPT ![p] = v]
        /\ digest'  = [digest EXCEPT ![p] = d]
        /\ lineage' = [lineage EXCEPT ![p] = l]
        /\ trace'   = [trace EXCEPT ![p] = Append(@,
                          [stage_key |-> StageKey(p), input |-> digest[p],
                           output |-> d, lineage |-> l, shared |-> shared])]
        /\ status'  = [status EXCEPT ![p] = StatusAfter(p)]

\* What the pipeline does with the executor's answer: an exception ends run().
Answered(p) ==
    LET c == CallOf(p)
        o == outcome'[c]
    IN  CASE o.kind = "none"     -> UNCHANGED locals
          [] o.kind = "raised"   -> /\ status' = [status EXCEPT ![p] = "failed"]
                                    /\ UNCHANGED <<value, digest, lineage, trace>>
          [] OTHER -> Advance(p, o.payload, DigestOf(c), o.kind = "shared")

\* The digest of the initial value, or the identity of the next stage key,
\* cannot be taken.
Unidentifiable(p) ==
    \/ trace[p] = <<>> /\ job[p].initial \in Formless
    \/ InStage(p) /\ StageKey(p) \in Formless

FailUnidentified(p) ==
    /\ status[p] = "running"
    /\ Unidentifiable(p)
    /\ status' = [status EXCEPT ![p] = "failed"]
    /\ UNCHANGED <<vars, job, value, digest, lineage, trace, heap, resultDigest>>

EnterStage(p) ==
    /\ InStage(p)
    /\ ~Unidentifiable(p)
    /\ \/ Refuse(CallOf(p), NodeRequest(p))
       \/ Join(CallOf(p), NodeRequest(p))
       \/ Own(CallOf(p), NodeRequest(p))
    /\ Answered(p)
    /\ UNCHANGED <<job, heap, resultDigest>>

\* The transform makes a new object, or changes its input and returns it; the
\* owner then takes the digest of what it returned.
TransformReturns(p) ==
    LET c   == CallOf(p)
        in  == value[p]
        out == IF Transform[StageKey(p)] = "inPlace" THEN in ELSE c
        s   == Apply(StageKey(p), heap[in])
    IN  /\ InStage(p)
        /\ Transform[StageKey(p)] # "formless"
        /\ ComputeReturns(c, out)
        /\ heap' = [heap EXCEPT ![out] = s]
        /\ resultDigest' = [resultDigest EXCEPT ![c] = s]
        /\ UNCHANGED <<job, locals>>

\* A result without a canonical form, which the verifier sees first.
OwnerUnformed(p) ==
    IF StageVerdict[StageKey(p)] = "accept" THEN Exception("CanonicalizationError")
    ELSE OwnerResult(NodeRequest(p), CallOf(p))

\* The transform raises, or the digest of what it returned does.
TransformRaises(p) ==
    /\ InStage(p)
    /\ \/ \E e \in Errors : ComputeRaises(CallOf(p), e)
       \/ /\ Transform[StageKey(p)] = "formless"
          /\ Settle(CallOf(p), OwnerUnformed(p))
    /\ UNCHANGED <<job, locals, heap, resultDigest>>

StageProceeds(p) ==
    /\ InStage(p)
    /\ Proceed(CallOf(p))
    /\ Answered(p)
    /\ UNCHANGED <<job, heap, resultDigest>>

\* A pipeline without stages returns its initial value.
FinishEmpty(p) ==
    /\ status[p] = "running"
    /\ job[p].stages = <<>>
    /\ ~Unidentifiable(p)
    /\ status' = [status EXCEPT ![p] = "finished"]
    /\ UNCHANGED <<vars, job, value, digest, lineage, trace, heap, resultDigest>>

Step(p) == \/ FailUnidentified(p) \/ EnterStage(p)
           \/ TransformReturns(p) \/ TransformRaises(p)
           \/ StageProceeds(p) \/ FinishEmpty(p)

AllEnded == /\ \A p \in Pipelines : status[p] # "running"
            /\ UNCHANGED graphVars

GraphNext == (\E p \in Pipelines : Step(p)) \/ AllEnded

GraphSpec == GraphInit /\ [][GraphNext]_graphVars

\* Every transform terminates and every thread is scheduled.
GraphFairSpec == GraphSpec /\ \A p \in Pipelines : WF_graphVars(Step(p))
---------------------------------------------------------------------------
Completed(p) == Len(trace[p])
StagesOf(p, n) == SubSeq(job[p].stages, 1, n)

\* The content that running the first n of stages s on initial value x ends with.
ContentAfter(n, x, s) ==
    LET content[i \in Nat] == IF i = 0 THEN <<x>> ELSE Apply(s[i], content[i - 1])
    IN  content[n]

\* The content that running the first n stages of p alone ends with.
Isolated(p, n) == ContentAfter(n, job[p].initial, job[p].stages)

\* The locals of run() have their types.
GraphTypeOK ==
    /\ status \in [Pipelines -> {"running", "finished", "failed"}]
    /\ value \in [Pipelines -> Values]
    /\ DOMAIN heap = Values
    /\ DOMAIN resultDigest = Calls
    /\ \A p \in Pipelines :
          /\ Completed(p) <= Len(job[p].stages)
          /\ status[p] = "finished" => Completed(p) = Len(job[p].stages)

\* Gate G1, "graph execution must produce the same logical result as isolated
\* execution": the value a pipeline returns has the content its stages alone
\* give, and keeps it while other pipelines that hold the same objects go on.
IsolatedResult ==
    \A p \in Pipelines : status[p] = "finished" =>
        heap[value[p]] = Isolated(p, Len(job[p].stages))

\* Gates G1 and G8: the digests in the trace are those of isolated execution,
\* and each stage's input is the stage before it's output.
TraceIsEvidence ==
    \A p \in Pipelines : \A i \in 1 .. Completed(p) :
        /\ trace[p][i].input  = Isolated(p, i - 1)
        /\ trace[p][i].output = Isolated(p, i)
        /\ trace[p][i].shared <=> joined[<<p, i>>] # NoCall

\* Gates G3 and G4: a stage joins only the same stage of a pipeline with the
\* same authority, initial value and complete prefix of stages.
PrefixOnlySharing ==
    \A c \in Calls : joined[c] # NoCall =>
        LET p == c[1]
            q == joined[c][1]
            n == c[2]
        IN  /\ joined[c][2] = n
            /\ job[p].authority = job[q].authority
            /\ job[p].initial = job[q].initial
            /\ StagesOf(p, n) = StagesOf(q, n)

\* Gate G4, sticky fracture: equal lineages mean one history, so pipelines
\* that diverged never have equal lineages again, even with equal values.
LineageTellsHistory ==
    \A p, q \in Pipelines : lineage[p] = lineage[q] =>
        /\ job[p].initial = job[q].initial
        /\ StagesOf(p, Completed(p)) = StagesOf(q, Completed(q))

\* Every pipeline ends, whoever runs its stages and whoever fails.
PipelinesEnd == \A p \in Pipelines : <>(status[p] # "running")
=============================================================================
