--------------------------- MODULE RadialExecutor ---------------------------
(***************************************************************************)
(* RadialExecutor.run of radiald/core.py: identical work that is already   *)
(* running for the same authority is joined instead of executed again.     *)
(*                                                                         *)
(* A member of Calls is one invocation of run(), made at most once, by any *)
(* thread.  The Future a call creates when it owns the work is named by    *)
(* that call: future[c] is meaningful once c is an owner.  Every block     *)
(* under self._lock is one atomic step; what a call does between two such  *)
(* blocks (compute, verifier, digest, waiting on the Future) touches only  *)
(* its own Future or its own locals, and is one step too.                  *)
(***************************************************************************)
EXTENDS WorkData

VARIABLES
    pc,          \* where each call is in run()
    req,         \* its arguments
    joined,      \* the owner whose Future a joiner holds
    future,      \* the Future of each owner
    outcome,     \* what run() returned or raised
    inflight,    \* self._inflight, a dict from composite keys to Futures
    active,      \* self._active_key_authorities, from work ids to sets
    stats        \* the seven counters

vars == <<pc, req, joined, future, outcome, inflight, active, stats>>

Counters == {"logical_requests", "physical_executions", "shared_requests",
             "refused_cross_authority", "join_attempts", "timed_out_joins",
             "rejected_shared_outputs"}

\* The counters after adding one to each member of names.  (A definition whose
\* comment starts with "Bug:" is not part of the specification: it is what the
\* next definition would be with a plausible mistake.)
\* Bug: the update of an earlier lock section is lost.
CountLost(names) == [n \in Counters |-> IF n \in names THEN 1 ELSE stats[n]]
Count(names) == [n \in Counters |-> stats[n] + IF n \in names THEN 1 ELSE 0]

Init ==
    /\ pc       = [c \in Calls |-> "idle"]
    /\ req      = [c \in Calls |-> NoRequest]
    /\ joined   = [c \in Calls |-> NoCall]
    /\ future   = [c \in Calls |-> Pending]
    /\ outcome  = [c \in Calls |-> NotYet]
    /\ inflight = [k \in {} |-> NoCall]
    /\ active   = [w \in {} |-> {}]
    /\ stats    = [n \in Counters |-> 0]

Return(c, o) ==
    /\ pc'      = [pc EXCEPT ![c] = "done"]
    /\ outcome' = [outcome EXCEPT ![c] = o]

Goto(c, l) ==
    /\ pc' = [pc EXCEPT ![c] = l]
    /\ UNCHANGED outcome
---------------------------------------------------------------------------
\* Entering run().

\* The arguments are refused before any shared state is looked at.
Refuse(c, r) ==
    /\ pc[c] = "idle"
    /\ ~Valid(r)
    /\ Return(c, Raised("InvalidRequest"))
    /\ UNCHANGED <<req, joined, future, inflight, active, stats>>

\* The authorities now running work w: setdefault(w, set()).
ActiveFor(w) == IF w \in DOMAIN active THEN active[w] ELSE {}

\* Bug: a Future already settled counts as absent.
InFlightUnsettled(r) ==
    /\ Key(r) \in DOMAIN inflight
    /\ future[inflight[Key(r)]].state = "pending"
InFlight(r) == Key(r) \in DOMAIN inflight

\* The composite key is in flight: the call joins its owner.
Join(c, r) ==
    /\ pc[c] = "idle"
    /\ Valid(r)
    /\ InFlight(r)
    /\ Goto(c, "wait")
    /\ req'    = [req EXCEPT ![c] = r]
    /\ joined' = [joined EXCEPT ![c] = inflight[Key(r)]]
    /\ stats'  = Count({"logical_requests", "join_attempts"})
    /\ UNCHANGED <<future, inflight, active>>

\* Another authority runs the same work and this one does not yet.
\* Bug: nobody needs to run it.
RefusedAlone(r) == r.authority \notin ActiveFor(r.work)
Refused(r) == /\ ActiveFor(r.work) # {}
              /\ r.authority \notin ActiveFor(r.work)

\* The composite key is free: the call becomes the owner of a new Future.
Own(c, r) ==
    /\ pc[c] = "idle"
    /\ Valid(r)
    /\ ~InFlight(r)
    /\ Goto(c, "compute")
    /\ req'      = [req EXCEPT ![c] = r]
    /\ future'   = [future EXCEPT ![c] = Pending]
    /\ inflight' = [k \in DOMAIN inflight \cup {Key(r)} |->
                       IF k = Key(r) THEN c ELSE inflight[k]]
    /\ active'   = [w \in DOMAIN active \cup {r.work} |->
                       IF w = r.work THEN ActiveFor(w) \cup {r.authority}
                                     ELSE active[w]]
    /\ stats'    = Count({"logical_requests", "physical_executions"} \cup
                         IF Refused(r) THEN {"refused_cross_authority"} ELSE {})
    /\ UNCHANGED joined
---------------------------------------------------------------------------
\* The owner.

Settle(c, f) ==
    /\ pc[c] = "compute"
    /\ Goto(c, "cleanup")
    /\ future' = [future EXCEPT ![c] = f]
    /\ UNCHANGED <<req, joined, inflight, active, stats>>

\* compute() returns v, and the owner settles its Future.
ComputeReturns(c, v) == Settle(c, OwnerResult(req[c], v))

\* Bug: "except Exception" lets an exception through without settling.
ComputeRaisesUnset(c, e) == Settle(c, Pending)
\* Bug: set_result is called with the exception.
ComputeRaisesAsResult(c, e) == Settle(c, Result(e))
\* compute() raises e.
ComputeRaises(c, e) == Settle(c, Exception(e))

\* The finally block: the composite key leaves both tables, and a work id
\* that no authority runs any more leaves the second one.
\* Bug: the work id is popped with every authority still in it.
RemainingNone(r) == {}
Remaining(r) == ActiveFor(r.work) \ {r.authority}

\* Bug: a result stays in the table, as in a cache.
Kept(k) == inflight
Without(k) == [x \in DOMAIN inflight \ {k} |-> inflight[x]]

Cleanup(c) ==
    LET r == req[c]
    IN  /\ pc[c] = "cleanup"
        /\ Return(c, OwnerOutcome(future[c]))
        /\ inflight' = Without(Key(r))
        /\ active'   = [w \in DOMAIN active \
                               (IF Remaining(r) = {} THEN {r.work} ELSE {}) |->
                           IF w = r.work THEN Remaining(r) ELSE active[w]]
        /\ UNCHANGED <<req, joined, future, stats>>
---------------------------------------------------------------------------
\* The joiner.

\* Bug: join_timeout does not reach future.result().
NeverExpires(r) == FALSE
MayExpire(r) == r.timeout = "bounded"

\* The wait ends with nothing: only a bounded wait on an unfinished Future.
WaitExpires(c) ==
    /\ pc[c] = "wait"
    /\ MayExpire(req[c])
    /\ future[joined[c]].state = "pending"
    /\ Goto(c, "timedOut")
    /\ UNCHANGED <<req, joined, future, inflight, active, stats>>

\* Bug: every exception of the owner is.
TakenAlways(e) == TRUE
TakenForTimeout(e) == e \in TimeoutErrors

\* result() re-raises the owner's exception.  One that is a TimeoutError is
\* taken by the joiner's own "except FutureTimeoutError".
WaitRaises(c) ==
    LET f == future[joined[c]]
    IN  /\ pc[c] = "wait"
        /\ f.state = "exception"
        /\ IF TakenForTimeout(f.payload) THEN Goto(c, "timedOut")
                                         ELSE Return(c, Raised(f.payload))
        /\ UNCHANGED <<req, joined, future, inflight, active, stats>>

RecordTimeout(c) ==
    /\ pc[c] = "timedOut"
    /\ Return(c, Raised("JoinTimeout"))
    /\ stats' = Count({"timed_out_joins"})
    /\ UNCHANGED <<req, joined, future, inflight, active>>

\* Bug: the joiner trusts the owner's verifier.
VerdictSkipped(r, v) == "accept"
JoinerVerdict(r, v) == r.verifier[v]

\* result() returns, and the joiner asks its own verifier.
WaitReturns(c) ==
    LET f       == future[joined[c]]
        verdict == JoinerVerdict(req[c], f.payload)
    IN  /\ pc[c] = "wait"
        /\ f.state = "result"
        /\ \/ verdict = "accept" /\ Goto(c, "accepted")
           \/ verdict = "reject" /\ Goto(c, "rejected")
           \/ verdict \in Errors /\ Return(c, Raised(verdict))
        /\ UNCHANGED <<req, joined, future, inflight, active, stats>>

RecordRejected(c) ==
    /\ pc[c] = "rejected"
    /\ Return(c, Raised("JoinerRejected"))
    /\ stats' = Count({"rejected_shared_outputs"})
    /\ UNCHANGED <<req, joined, future, inflight, active>>

RecordShared(c) ==
    /\ pc[c] = "accepted"
    /\ Return(c, Shared(future[joined[c]].payload))
    /\ stats' = Count({"shared_requests"})
    /\ UNCHANGED <<req, joined, future, inflight, active>>
---------------------------------------------------------------------------
Enter(c) == \E r \in Requests : Refuse(c, r) \/ Join(c, r) \/ Own(c, r)

Compute(c) == \/ \E v \in Values : ComputeReturns(c, v)
              \/ \E e \in Errors : ComputeRaises(c, e)

\* A step of call c whose duration its caller's code does not decide.
Proceed(c) == \/ Cleanup(c)
              \/ WaitExpires(c) \/ WaitRaises(c) \/ WaitReturns(c)
              \/ RecordTimeout(c) \/ RecordRejected(c) \/ RecordShared(c)

\* Every call has returned.
AllDone == /\ \A c \in Calls : pc[c] = "done"
           /\ UNCHANGED vars

Next == \/ \E c \in Calls : Enter(c) \/ Compute(c) \/ Proceed(c)
        \/ AllDone

Spec == Init /\ [][Next]_vars

\* Threads are scheduled and bounded waits expire, but a compute callable
\* may run for ever.
ScheduledSpec == Spec /\ \A c \in Calls : WF_vars(Proceed(c))
---------------------------------------------------------------------------
Labels == {"idle", "compute", "cleanup", "wait", "timedOut", "accepted",
           "rejected", "done"}

\* An owner between the lookup and the end of its finally block.
Open(c) == pc[c] \in {"compute", "cleanup"}

\* Every variable has its type: the tables hold identities the code made, a
\* Future holds what set_result or set_exception put there.
TypeOK ==
    /\ pc \in [Calls -> Labels]
    /\ req \in [Calls -> Requests \cup {NoRequest}]
    /\ joined \in [Calls -> Calls \cup {NoCall}]
    /\ future \in [Calls -> Futures]
    /\ outcome \in [Calls -> Outcomes]
    /\ DOMAIN inflight \subseteq Authorities \X Works
    /\ \A k \in DOMAIN inflight : inflight[k] \in Calls
    /\ DOMAIN active \subseteq Works
    /\ \A w \in DOMAIN active : active[w] \subseteq Authorities
    /\ stats \in [Counters -> Nat]

\* "Identical work executes once" (tests/test_core.py): no two calls run
\* compute for the same authority and work key at the same time.
SingleFlight ==
    \A c, d \in Calls :
        /\ Open(c) /\ Open(d)
        /\ req[c].authority = req[d].authority
        /\ req[c].work = req[d].work
        => c = d

\* Gate G7 and the bookkeeping of lines 91-98 and 129-135: the two tables say
\* exactly which owners are inside run(), whatever the order in which calls of
\* several authorities enter, fail, time out and leave; no key and no empty
\* set of authorities stays behind.
TablesAgree ==
    /\ DOMAIN inflight = {<<req[c].authority, req[c].work>> :
                              c \in {d \in Calls : Open(d)}}
    /\ DOMAIN active = {req[c].work : c \in {d \in Calls : Open(d)}}
    /\ \A w \in DOMAIN active :
          active[w] = {a \in Authorities : <<a, w>> \in DOMAIN inflight}

\* Gates G2 and G6: a value a call shares was computed by a call with the
\* same authority and work key, passed that call's verifier and its digest,
\* and then passed the verifier of the call it is released to.
SharedValueIsVouchedFor ==
    \A c \in Calls : outcome[c].kind = "shared" =>
        LET d == joined[c]
            v == outcome[c].payload
        IN  /\ req[d].authority = req[c].authority
            /\ req[d].work = req[c].work
            /\ future[d] = Result(v)
            /\ v \notin Undigestible
            /\ req[d].verifier[v] = "accept"
            /\ req[c].verifier[v] = "accept"

\* Gate G6, "computation errors and owner-side verifier rejection propagate to
\* every joined caller": a joiner that set no bound on its wait raises the
\* exception its owner's Future holds.
FailureReachesJoiners ==
    \A c \in Calls :
        /\ joined[c] # NoCall
        /\ pc[c] = "done"
        /\ req[c].timeout = "none"
        /\ future[joined[c]].state = "exception"
        => outcome[c] = Raised(future[joined[c]].payload)

Entered == {c \in Calls : pc[c] # "idle" /\ req[c] # NoRequest}
Joiners == {c \in Calls : joined[c] # NoCall}

\* The counters stats() reports, at every moment between two lock sections,
\* are the numbers of calls they are named for: a request is an execution or a
\* join, and a join is counted under at most one of its three endings.
Accounting ==
    /\ stats["logical_requests"] = Cardinality(Entered)
    /\ stats["join_attempts"] = Cardinality(Joiners)
    /\ stats["logical_requests"] = stats["physical_executions"] +
                                   stats["join_attempts"]
    /\ stats["shared_requests"] =
          Cardinality({c \in Joiners : outcome[c].kind = "shared"})
    /\ stats["timed_out_joins"] =
          Cardinality({c \in Joiners : outcome[c] = Raised("JoinTimeout")})
    /\ stats["rejected_shared_outputs"] =
          Cardinality({c \in Joiners : outcome[c] = Raised("JoinerRejected")})

\* "Results are shared only while work is in flight" (the class docstring): a
\* call joins only an owner that has not returned from run(), of its own
\* authority and work key, and never changes the owner it joined.
JoinsOnlyRunningWork ==
    [][\A c \in Calls : joined'[c] # joined[c] =>
          /\ joined[c] = NoCall
          /\ Open(joined'[c])
          /\ req[joined'[c]].authority = req'[c].authority
          /\ req[joined'[c]].work = req'[c].work]_vars

\* refused_cross_authority counts the executions that another authority's
\* running execution of the same work did not save, and only those.
RefusalsCountForeignWork ==
    [][\A c \in Calls : pc[c] = "idle" /\ pc'[c] = "compute" =>
          LET foreign == \E d \in Calls :
                            /\ Open(d)
                            /\ req[d].work = req'[c].work
                            /\ req[d].authority # req'[c].authority
          IN  stats'["refused_cross_authority"] =
                 stats["refused_cross_authority"] + IF foreign THEN 1 ELSE 0]_vars

\* Gate G10: a bounded joiner returns even if the compute it waits for never
\* does.
BoundedJoinReturns ==
    \A c \in Calls :
        pc[c] = "wait" /\ req[c].timeout = "bounded" ~> pc[c] = "done"

\* If no compute runs for ever, every call returns.
EveryCallReturns ==
    (\A d \in Calls : []<>(pc[d] # "compute"))
        => \A c \in Calls : pc[c] # "idle" ~> pc[c] = "done"
---------------------------------------------------------------------------
\* The promise of SharedWork, in terms of the executor's state.

StageOf(c) == IF pc[c] = "idle" THEN "new"
              ELSE IF Open(c) THEN "leading"
              ELSE IF pc[c] = "wait" THEN "riding"
              ELSE "over"

\* A joiner's answer is decided before the counter of its ending is raised.
AnswerOf(c) == IF pc[c] = "timedOut" THEN Raised("JoinTimeout")
               ELSE IF pc[c] = "rejected" THEN Raised("JoinerRejected")
               ELSE IF pc[c] = "accepted" THEN Shared(future[joined[c]].payload)
               ELSE outcome[c]

Promise == INSTANCE SharedWork WITH
    stage   <- [c \in Calls |-> StageOf(c)],
    request <- req,
    leader  <- joined,
    landing <- future,
    answer  <- [c \in Calls |-> AnswerOf(c)]

\* The executor implements SharedWork as long as no callable raises an
\* exception that the joiner's "except FutureTimeoutError" takes for its own.
KeepsPromise == Promise!Spec
=============================================================================
