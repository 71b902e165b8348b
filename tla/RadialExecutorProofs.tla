------------------------ MODULE RadialExecutorProofs ------------------------
(***************************************************************************)
(* The properties of RadialExecutor for every set of calls, authorities,   *)
(* works, values, exceptions and verifiers.                                *)
(***************************************************************************)
EXTENDS RadialExecutor, FiniteSetTheorems, TLAPS

JoinerLabels == {"wait", "timedOut", "accepted", "rejected"}

\* Who a call is: an owner has not joined, and whoever joined holds the Future
\* of an owner that had its key.
RolesOK ==
    \A c \in Calls :
        /\ pc[c] = "idle" => joined[c] = NoCall
        /\ Open(c) => /\ joined[c] = NoCall
                      /\ req[c] \in Requests
                      /\ Valid(req[c])
        /\ pc[c] \in JoinerLabels => joined[c] # NoCall
        /\ joined[c] # NoCall =>
              /\ pc[c] \in JoinerLabels \cup {"done"}
              /\ joined[joined[c]] = NoCall
              /\ pc[joined[c]] \in {"compute", "cleanup", "done"}
              /\ req[c] \in Requests
              /\ req[joined[c]] \in Requests
              /\ Key(req[joined[c]]) = Key(req[c])

\* self._inflight maps exactly the keys of the open owners to those owners.
InflightOK ==
    /\ \A k \in DOMAIN inflight :
          Open(inflight[k]) /\ Key(req[inflight[k]]) = k
    /\ \A c \in Calls : Open(c) =>
          Key(req[c]) \in DOMAIN inflight /\ inflight[Key(req[c])] = c

\* self._active_key_authorities is self._inflight seen by work id.
ActiveOK ==
    /\ \A w \in DOMAIN active : active[w] # {}
    /\ \A a \in Authorities, w \in Works :
          <<a, w>> \in DOMAIN inflight <=> w \in DOMAIN active /\ a \in active[w]

TablesOK == InflightOK /\ ActiveOK

\* A value in a Future was accepted by its owner's verifier and has a digest.
FuturesOK ==
    \A c \in Calls :
        /\ pc[c] \in {"idle", "compute"} => future[c] = Pending
        /\ pc[c] = "cleanup" => future[c] # Pending
        /\ future[c].state = "result" =>
              /\ pc[c] \in {"cleanup", "done"}
              /\ future[c].payload \in Values \ Undigestible
              /\ req[c].verifier[future[c].payload] = "accept"

\* A value about to be released, or released, by a joiner.
AnswersOK ==
    \A c \in Calls :
        /\ pc[c] # "done" => outcome[c] = NotYet
        /\ pc[c] = "accepted" =>
              /\ future[joined[c]].state = "result"
              /\ req[c].verifier[future[joined[c]].payload] = "accept"
        /\ outcome[c].kind = "shared" =>
              /\ joined[c] # NoCall
              /\ future[joined[c]] = Result(outcome[c].payload)
              /\ req[c].verifier[outcome[c].payload] = "accept"

IInv == TypeOK /\ RolesOK /\ TablesOK /\ FuturesOK /\ AnswersOK
---------------------------------------------------------------------------
\* What the operators on data return.

LEMMA ValidRequest ==
    ASSUME NEW r \in Requests, Valid(r)
    PROVE  /\ r.authority \in Authorities
           /\ r.work \in Works
           /\ r.timeout \in {"none", "bounded"}
           /\ Key(r) \in Authorities \X Works
BY DEF Requests, Valid, Key

LEMMA VerdictType ==
    ASSUME NEW r \in Requests, NEW v \in Values
    PROVE  r.verifier[v] \in Verdicts
BY DataAssumption DEF Requests, Verdicts

\* The owner's Future is settled with a value only if the owner's verifier
\* accepts it and it has a digest.
LEMMA OwnerResultSettles ==
    ASSUME NEW r \in Requests, NEW v \in Values
    PROVE  /\ OwnerResult(r, v) \in Futures
           /\ OwnerResult(r, v) # Pending
           /\ OwnerResult(r, v).state = "result" =>
                 /\ OwnerResult(r, v).payload = v
                 /\ v \notin Undigestible
                 /\ r.verifier[v] = "accept"
<1>1. r.verifier[v] \in Verdicts
  BY VerdictType
<1>2. CASE r.verifier[v] = "reject"
  BY <1>2, DataAssumption
  DEF OwnerResult, Exception, Futures, Raisable, OwnErrors, Pending
<1>3. CASE r.verifier[v] \in Errors
  BY <1>3, DataAssumption
  DEF OwnerResult, Exception, Futures, Raisable, Pending
<1>4. CASE r.verifier[v] = "accept" /\ v \in Undigestible
  BY <1>4, DataAssumption
  DEF OwnerResult, Exception, Futures, Raisable, OwnErrors, Pending
<1>5. CASE r.verifier[v] = "accept" /\ v \notin Undigestible
  BY <1>5, DataAssumption DEF OwnerResult, Result, Futures, Pending
<1>6. QED
  BY <1>1, <1>2, <1>3, <1>4, <1>5 DEF Verdicts

\* A Future is settled with a value or with an exception run() can raise.
LEMMA FutureShape ==
    ASSUME NEW f \in Futures
    PROVE  /\ f.state = "result" => f = Result(f.payload) /\ f.payload \in Values
           /\ f.state = "exception" => f.payload \in Raisable
           /\ f # Pending => f.state \in {"result", "exception"}
<1>1. CASE f = Pending
  BY <1>1 DEF Pending
<1>2. ASSUME NEW v \in Values, f = Result(v)
      PROVE  f.state = "result" /\ f.payload = v
  BY <1>2 DEF Result
<1>3. ASSUME NEW e \in Raisable, f = Exception(e)
      PROVE  f.state = "exception" /\ f.payload = e
  BY <1>3 DEF Exception
<1>4. QED
  BY <1>1, <1>2, <1>3 DEF Futures

LEMMA CountType ==
    ASSUME stats \in [Counters -> Nat], NEW names
    PROVE  Count(names) \in [Counters -> Nat]
BY DEF Count
---------------------------------------------------------------------------
\* The invariant holds initially and every step keeps it.

LEMMA InitIInv == Init => IInv
BY NamesAssumption
DEF Init, IInv, TypeOK, RolesOK, TablesOK, InflightOK, ActiveOK, FuturesOK,
    AnswersOK, Labels, JoinerLabels, Open, Futures, Outcomes, Pending, NotYet

\* Entering run() as a joiner.
LEMMA JoinIInv ==
    ASSUME IInv, NEW c \in Calls, NEW r \in Requests, Join(c, r)
    PROVE  IInv'
<1> USE DEF Join, Goto, InFlight
<1> DEFINE d == inflight[Key(r)]
<1>1. /\ d \in Calls
      /\ Open(d)
      /\ d # c
      /\ Key(req[d]) = Key(r)
      /\ joined[d] = NoCall
  BY NamesAssumption DEF IInv, TypeOK, RolesOK, TablesOK, InflightOK, Open
<1>2. TypeOK'
  BY <1>1, CountType DEF IInv, TypeOK, Labels
<1>3. RolesOK'
  BY <1>1, NamesAssumption DEF IInv, TypeOK, RolesOK, Open, JoinerLabels
<1>4. TablesOK'
  BY <1>1 DEF IInv, TypeOK, TablesOK, InflightOK, ActiveOK, Open
<1>5. FuturesOK'
  BY DEF IInv, TypeOK, FuturesOK, Pending
<1>6. AnswersOK'
  BY <1>1 DEF IInv, TypeOK, RolesOK, AnswersOK, NotYet
<1>7. QED
  BY <1>2, <1>3, <1>4, <1>5, <1>6 DEF IInv

\* Entering run() as an owner.
LEMMA OwnIInv ==
    ASSUME IInv, NEW c \in Calls, NEW r \in Requests, Own(c, r)
    PROVE  IInv'
<1> USE DEF Own, Goto, InFlight
<1>1. r.authority \in Authorities /\ r.work \in Works /\ Key(r) = <<r.authority, r.work>>
  BY ValidRequest DEF Key
<1>2. TypeOK'
  BY <1>1, CountType
  DEF IInv, TypeOK, Labels, ActiveFor, Futures
<1>3. RolesOK'
  BY NamesAssumption DEF IInv, TypeOK, RolesOK, Open, JoinerLabels
<1>4. InflightOK'
  BY <1>1 DEF IInv, TypeOK, TablesOK, InflightOK, Open
<1>5. ActiveOK'
  <2>1. \A w \in DOMAIN active' : active'[w] # {}
    BY <1>1 DEF IInv, TablesOK, ActiveOK
  <2>2. ASSUME NEW a \in Authorities, NEW w \in Works
        PROVE  <<a, w>> \in DOMAIN inflight' <=>
                  w \in DOMAIN active' /\ a \in active'[w]
    BY <1>1 DEF IInv, TablesOK, ActiveOK, ActiveFor
  <2>3. QED
    BY <2>1, <2>2 DEF ActiveOK
<1>6. FuturesOK'
  BY DEF IInv, TypeOK, FuturesOK, Pending
<1>7. AnswersOK'
  BY DEF IInv, TypeOK, RolesOK, AnswersOK, NotYet, JoinerLabels, Pending
<1>8. QED
  BY <1>2, <1>3, <1>4, <1>5, <1>6, <1>7 DEF IInv, TablesOK

\* The owner settles its Future, with whatever.
LEMMA SettleIInv ==
    ASSUME IInv, NEW c \in Calls, NEW f \in Futures,
           f # Pending,
           f.state = "result" => /\ f.payload \in Values \ Undigestible
                                 /\ req[c].verifier[f.payload] = "accept",
           pc[c] = "compute",
           Goto(c, "cleanup"),
           future' = [future EXCEPT ![c] = f],
           UNCHANGED <<req, joined, inflight, active, stats>>
    PROVE  IInv'
<1> USE DEF Goto
<1>1. TypeOK'
  BY DEF IInv, TypeOK, Labels
<1>2. RolesOK'
  BY NamesAssumption DEF IInv, TypeOK, RolesOK, Open, JoinerLabels
<1>3. TablesOK'
  BY DEF IInv, TypeOK, TablesOK, InflightOK, ActiveOK, Open
<1>4. FuturesOK'
  BY DEF IInv, TypeOK, FuturesOK
<1>5. AnswersOK'
  <2>1. future[c].state # "result"
    BY DEF IInv, FuturesOK
  <2>2. QED
    BY <2>1 DEF IInv, TypeOK, RolesOK, AnswersOK, Result
<1>6. QED
  BY <1>1, <1>2, <1>3, <1>4, <1>5 DEF IInv

\* The owner leaves through its finally block.
LEMMA CleanupIInv ==
    ASSUME IInv, NEW c \in Calls, Cleanup(c)
    PROVE  IInv'
<1> DEFINE r == req[c]
<1>1. /\ pc[c] = "cleanup"
      /\ pc' = [pc EXCEPT ![c] = "done"]
      /\ outcome' = [outcome EXCEPT ![c] = OwnerOutcome(future[c])]
      /\ inflight' = [k \in DOMAIN inflight \ {Key(r)} |-> inflight[k]]
      /\ UNCHANGED <<req, joined, future, stats>>
  BY DEF Cleanup, Return, Without
<1>2. active' = [w \in DOMAIN active \
                    (IF Remaining(r) = {} THEN {r.work} ELSE {}) |->
                     IF w = r.work THEN Remaining(r) ELSE active[w]]
  BY DEF Cleanup
<1>3. /\ r \in Requests
      /\ Valid(r)
      /\ r.authority \in Authorities
      /\ r.work \in Works
      /\ Key(r) = <<r.authority, r.work>>
      /\ Key(r) \in DOMAIN inflight
      /\ inflight[Key(r)] = c
      /\ joined[c] = NoCall
  BY <1>1, ValidRequest DEF IInv, RolesOK, TablesOK, InflightOK, Open, Key
<1>4. /\ OwnerOutcome(future[c]) \in Outcomes
      /\ OwnerOutcome(future[c]).kind # "shared"
  <2>1. future[c] \in Futures /\ future[c] # Pending
    BY <1>1 DEF IInv, TypeOK, FuturesOK
  <2>2. QED
    BY <2>1 DEF OwnerOutcome, Futures, Outcomes, Pending, Result, Exception,
                Computed, Raised
<1>5. TypeOK'
  BY <1>1, <1>2, <1>4 DEF IInv, TypeOK, Labels, Remaining, ActiveFor
<1>6. RolesOK'
  BY <1>1, <1>3, NamesAssumption DEF IInv, TypeOK, RolesOK, Open, JoinerLabels
<1>7. InflightOK'
  BY <1>1, <1>3 DEF IInv, TypeOK, TablesOK, InflightOK, Open
<1>8. ActiveOK'
  <2>1. ASSUME NEW w \in DOMAIN active'
        PROVE  active'[w] # {}
    BY <1>2 DEF IInv, TablesOK, ActiveOK
  <2>2. r.work \in DOMAIN active /\ Remaining(r) = active[r.work] \ {r.authority}
    BY <1>3 DEF IInv, TablesOK, ActiveOK, Remaining, ActiveFor
  <2>3. ASSUME NEW a \in Authorities, NEW w \in Works
        PROVE  <<a, w>> \in DOMAIN inflight' <=>
                  w \in DOMAIN active' /\ a \in active'[w]
    <3>1. <<a, w>> \in DOMAIN inflight <=> w \in DOMAIN active /\ a \in active[w]
      BY DEF IInv, TablesOK, ActiveOK
    <3>2. CASE w = r.work
      BY <1>1, <1>2, <1>3, <2>2, <3>1, <3>2
    <3>3. CASE w # r.work
      BY <1>1, <1>2, <1>3, <3>1, <3>3
    <3>4. QED
      BY <3>2, <3>3
  <2>4. QED
    BY <2>1, <2>3 DEF ActiveOK
<1>9. FuturesOK'
  BY <1>1 DEF IInv, TypeOK, FuturesOK
<1>10. AnswersOK'
  BY <1>1, <1>4 DEF IInv, TypeOK, AnswersOK, NotYet
<1>11. QED
  BY <1>5, <1>6, <1>7, <1>8, <1>9, <1>10 DEF IInv, TablesOK

\* A joiner, or a call refused at the door, goes to label l with answer o: it
\* changes nothing else but the counters.
QuietStep(c, l, o) ==
    /\ l \in Labels
    /\ o \in Outcomes
    /\ \/ pc[c] \in JoinerLabels /\ l \in JoinerLabels \cup {"done"}
       \/ pc[c] = "idle" /\ l = "done"
    /\ l # "done" => o = NotYet
    /\ l = "accepted" =>
          /\ future[joined[c]].state = "result"
          /\ req[c].verifier[future[joined[c]].payload] = "accept"
    /\ o.kind = "shared" =>
          /\ joined[c] # NoCall
          /\ future[joined[c]] = Result(o.payload)
          /\ req[c].verifier[o.payload] = "accept"
    /\ pc' = [pc EXCEPT ![c] = l]
    /\ outcome' = [outcome EXCEPT ![c] = o]
    /\ stats' \in [Counters -> Nat]
    /\ UNCHANGED <<req, joined, future, inflight, active>>

LEMMA QuietIInv ==
    ASSUME IInv, NEW c \in Calls, NEW l, NEW o, QuietStep(c, l, o)
    PROVE  IInv'
<1> USE DEF QuietStep
<1>1. TypeOK'
  BY DEF IInv, TypeOK
<1>2. RolesOK'
  BY NamesAssumption DEF IInv, TypeOK, RolesOK, Open, JoinerLabels
<1>3. TablesOK'
  BY DEF IInv, TypeOK, TablesOK, InflightOK, ActiveOK, Open, JoinerLabels
<1>4. FuturesOK'
  BY DEF IInv, TypeOK, FuturesOK, JoinerLabels
<1>5. AnswersOK'
  BY DEF IInv, TypeOK, AnswersOK
<1>6. QED
  BY <1>1, <1>2, <1>3, <1>4, <1>5 DEF IInv

\* Each step of a joiner is quiet.
LEMMA RefuseQuiet ==
    ASSUME IInv, NEW c \in Calls, NEW r \in Requests, Refuse(c, r)
    PROVE  QuietStep(c, "done", Raised("InvalidRequest"))
BY DEF Refuse, Return, QuietStep, Labels, Outcomes, Raised, Raisable,
       OwnErrors, IInv, TypeOK

\* Of a waiting joiner.
LEMMA WaitingJoiner ==
    ASSUME IInv, NEW c \in Calls, pc[c] \in JoinerLabels
    PROVE  /\ joined[c] \in Calls
           /\ future[joined[c]] \in Futures
           /\ stats \in [Counters -> Nat]
           /\ \A l : Goto(c, l) => outcome' = [outcome EXCEPT ![c] = NotYet]
BY DEF IInv, TypeOK, RolesOK, AnswersOK, JoinerLabels, Goto

LEMMA GotoQuiet ==
    ASSUME IInv, NEW c \in Calls, NEW l \in JoinerLabels, pc[c] \in JoinerLabels,
           Goto(c, l),
           l = "accepted" =>
              /\ future[joined[c]].state = "result"
              /\ req[c].verifier[future[joined[c]].payload] = "accept",
           UNCHANGED <<req, joined, future, inflight, active, stats>>
    PROVE  QuietStep(c, l, NotYet)
<1>1. outcome' = [outcome EXCEPT ![c] = NotYet] /\ stats \in [Counters -> Nat]
  BY WaitingJoiner
<1>2. NotYet \in Outcomes /\ NotYet.kind # "shared"
  BY DEF Outcomes, NotYet
<1>3. QED
  BY <1>1, <1>2 DEF QuietStep, Goto, Labels, JoinerLabels

LEMMA RaiseQuiet ==
    ASSUME IInv, NEW c \in Calls, NEW e \in Raisable, pc[c] \in JoinerLabels,
           Return(c, Raised(e)),
           stats' \in [Counters -> Nat],
           UNCHANGED <<req, joined, future, inflight, active>>
    PROVE  QuietStep(c, "done", Raised(e))
<1>1. Raised(e) \in Outcomes /\ Raised(e).kind # "shared"
  BY DEF Outcomes, Raised
<1>2. QED
  BY <1>1 DEF QuietStep, Return, Labels, JoinerLabels

\* Every step keeps the invariant.
LEMMA NextIInv == IInv /\ [Next]_vars => IInv'
<1> SUFFICES ASSUME IInv, [Next]_vars
             PROVE  IInv'
  OBVIOUS
<1>1. ASSUME NEW c \in Calls, NEW r \in Requests, Refuse(c, r)
      PROVE  IInv'
  BY <1>1, RefuseQuiet, QuietIInv
<1>2. ASSUME NEW c \in Calls, NEW r \in Requests, Join(c, r)
      PROVE  IInv'
  BY <1>2, JoinIInv
<1>3. ASSUME NEW c \in Calls, NEW r \in Requests, Own(c, r)
      PROVE  IInv'
  BY <1>3, OwnIInv
<1>4. ASSUME NEW c \in Calls, NEW v \in Values, ComputeReturns(c, v)
      PROVE  IInv'
  <2>1. req[c] \in Requests
    BY <1>4 DEF ComputeReturns, Settle, IInv, RolesOK, Open
  <2> DEFINE f == OwnerResult(req[c], v)
  <2>2. /\ f \in Futures
        /\ f # Pending
        /\ f.state = "result" => /\ f.payload \in Values \ Undigestible
                                 /\ req[c].verifier[f.payload] = "accept"
    BY <2>1, OwnerResultSettles
  <2>3. /\ pc[c] = "compute"
        /\ Goto(c, "cleanup")
        /\ future' = [future EXCEPT ![c] = f]
        /\ UNCHANGED <<req, joined, inflight, active, stats>>
    BY <1>4 DEF ComputeReturns, Settle
  <2>4. QED
    BY <2>2, <2>3, SettleIInv
<1>5. ASSUME NEW c \in Calls, NEW e \in Errors, ComputeRaises(c, e)
      PROVE  IInv'
  <2>1. /\ Exception(e) \in Futures
        /\ Exception(e) # Pending
        /\ Exception(e).state # "result"
    BY DEF Futures, Exception, Raisable, Pending
  <2>2. QED
    BY <1>5, <2>1, SettleIInv DEF ComputeRaises, Settle
<1>6. ASSUME NEW c \in Calls, Cleanup(c)
      PROVE  IInv'
  BY <1>6, CleanupIInv
<1>7. ASSUME NEW c \in Calls, WaitExpires(c)
      PROVE  IInv'
  <2>1. QuietStep(c, "timedOut", NotYet)
    BY <1>7, GotoQuiet DEF WaitExpires, JoinerLabels
  <2>2. QED
    BY <2>1, QuietIInv
<1>8. ASSUME NEW c \in Calls, WaitRaises(c)
      PROVE  IInv'
  <2> DEFINE f == future[joined[c]]
  <2>1. CASE Goto(c, "timedOut")
    <3>1. QuietStep(c, "timedOut", NotYet)
      BY <1>8, <2>1, GotoQuiet DEF WaitRaises, JoinerLabels
    <3>2. QED
      BY <3>1, QuietIInv
  <2>2. CASE Return(c, Raised(f.payload))
    <3>1. f.payload \in Raisable /\ stats \in [Counters -> Nat]
      BY <1>8, WaitingJoiner, FutureShape DEF WaitRaises, JoinerLabels
    <3>2. QuietStep(c, "done", Raised(f.payload))
      BY <1>8, <2>2, <3>1, RaiseQuiet DEF WaitRaises, JoinerLabels
    <3>3. QED
      BY <3>2, QuietIInv
  <2>3. QED
    BY <1>8, <2>1, <2>2 DEF WaitRaises
<1>9. ASSUME NEW c \in Calls, WaitReturns(c)
      PROVE  IInv'
  <2> DEFINE f == future[joined[c]]
             verdict == req[c].verifier[f.payload]
  <2>1. CASE verdict = "accept" /\ Goto(c, "accepted")
    <3>1. QuietStep(c, "accepted", NotYet)
      BY <1>9, <2>1, GotoQuiet DEF WaitReturns, JoinerVerdict, JoinerLabels
    <3>2. QED
      BY <3>1, QuietIInv
  <2>2. CASE Goto(c, "rejected")
    <3>1. QuietStep(c, "rejected", NotYet)
      BY <1>9, <2>2, GotoQuiet DEF WaitReturns, JoinerVerdict, JoinerLabels
    <3>2. QED
      BY <3>1, QuietIInv
  <2>3. CASE verdict \in Errors /\ Return(c, Raised(verdict))
    <3>1. verdict \in Raisable /\ stats \in [Counters -> Nat]
      BY <1>9, <2>3, WaitingJoiner DEF WaitReturns, JoinerVerdict, JoinerLabels, Raisable
    <3>2. QuietStep(c, "done", Raised(verdict))
      BY <1>9, <2>3, <3>1, RaiseQuiet DEF WaitReturns, JoinerVerdict, JoinerLabels
    <3>3. QED
      BY <3>2, QuietIInv
  <2>4. QED
    BY <1>9, <2>1, <2>2, <2>3 DEF WaitReturns, JoinerVerdict
<1>10. ASSUME NEW c \in Calls, RecordTimeout(c)
       PROVE  IInv'
  <2>1. stats' \in [Counters -> Nat]
    BY <1>10, CountType DEF IInv, TypeOK, RecordTimeout
  <2>2. QuietStep(c, "done", Raised("JoinTimeout"))
    BY <1>10, <2>1, RaiseQuiet DEF RecordTimeout, JoinerLabels, Raisable, OwnErrors
  <2>3. QED
    BY <2>2, QuietIInv
<1>11. ASSUME NEW c \in Calls, RecordRejected(c)
       PROVE  IInv'
  <2>1. stats' \in [Counters -> Nat]
    BY <1>11, CountType DEF IInv, TypeOK, RecordRejected
  <2>2. QuietStep(c, "done", Raised("JoinerRejected"))
    BY <1>11, <2>1, RaiseQuiet DEF RecordRejected, JoinerLabels, Raisable, OwnErrors
  <2>3. QED
    BY <2>2, QuietIInv
<1>12. ASSUME NEW c \in Calls, RecordShared(c)
       PROVE  IInv'
  <2> DEFINE f == future[joined[c]]
  <2>1. stats' \in [Counters -> Nat]
    BY <1>12, CountType DEF IInv, TypeOK, RecordShared
  <2>2. /\ pc[c] = "accepted"
        /\ joined[c] # NoCall
        /\ f.state = "result"
        /\ req[c].verifier[f.payload] = "accept"
    BY <1>12 DEF IInv, RolesOK, AnswersOK, RecordShared, JoinerLabels
  <2>3. f = Result(f.payload) /\ f.payload \in Values
    BY <2>2, WaitingJoiner, FutureShape DEF JoinerLabels
  <2>4. Shared(f.payload) \in Outcomes /\ Shared(f.payload).payload = f.payload
    BY <2>3 DEF Outcomes, Shared
  <2>5. QuietStep(c, "done", Shared(f.payload))
    BY <1>12, <2>1, <2>2, <2>3, <2>4
    DEF RecordShared, QuietStep, Return, Labels, JoinerLabels
  <2>6. QED
    BY <2>5, QuietIInv
<1>13. CASE UNCHANGED vars
  BY <1>13
  DEF vars, IInv, TypeOK, RolesOK, TablesOK, InflightOK, ActiveOK, FuturesOK,
      AnswersOK, Open
<1>14. QED
  BY <1>1, <1>2, <1>3, <1>4, <1>5, <1>6, <1>7, <1>8, <1>9, <1>10, <1>11, <1>12,
     <1>13
  DEF Next, Enter, Compute, Proceed, AllDone
---------------------------------------------------------------------------
\* The inductive invariant of run(): types, roles, tables, Futures, answers.
THEOREM InvariantHolds == Spec => []IInv
BY InitIInv, NextIInv, PTL DEF Spec

\* The tables hold only identities that run() made, and a Future holds only
\* what set_result or set_exception put there.
THEOREM TypeCorrect == Spec => []TypeOK
BY InvariantHolds, PTL DEF IInv

\* At most one execution at a time for an authority and a work key.
THEOREM SingleFlightHolds == Spec => []SingleFlight
<1>1. IInv => SingleFlight
  BY DEF IInv, TablesOK, InflightOK, SingleFlight, Key
<1>2. QED
  BY <1>1, InvariantHolds, PTL

\* The in-flight table and the table of active authorities hold exactly the
\* owners inside run(): nothing leaks from either.
THEOREM TablesAgreeHolds == Spec => []TablesAgree
<1>1. ASSUME IInv
      PROVE  TablesAgree
  <2> DEFINE owners == {d \in Calls : Open(d)}
  <2>1. \A c \in owners : /\ Key(req[c]) = <<req[c].authority, req[c].work>>
                          /\ Key(req[c]) \in DOMAIN inflight
                          /\ req[c].authority \in Authorities
                          /\ req[c].work \in Works
    BY <1>1, ValidRequest DEF IInv, RolesOK, TablesOK, InflightOK, Key
  <2>2. \A k \in DOMAIN inflight : /\ inflight[k] \in owners
                                   /\ Key(req[inflight[k]]) = k
    BY <1>1 DEF IInv, TypeOK, TablesOK, InflightOK
  <2>3. DOMAIN inflight = {<<req[c].authority, req[c].work>> : c \in owners}
    BY <2>1, <2>2
  <2>4. ASSUME NEW w \in DOMAIN active
        PROVE  /\ active[w] = {a \in Authorities : <<a, w>> \in DOMAIN inflight}
               /\ \E c \in owners : req[c].work = w
    <3>1. w \in Works /\ active[w] \subseteq Authorities /\ active[w] # {}
      BY <1>1 DEF IInv, TypeOK, TablesOK, ActiveOK
    <3>2. PICK a \in active[w] : a \in Authorities
      BY <3>1
    <3>3. <<a, w>> \in DOMAIN inflight
      BY <1>1, <3>1, <3>2 DEF IInv, TablesOK, ActiveOK
    <3>4. inflight[<<a, w>>] \in owners /\ req[inflight[<<a, w>>]].work = w
      BY <2>1, <2>2, <3>3
    <3>5. active[w] = {x \in Authorities : <<x, w>> \in DOMAIN inflight}
      BY <1>1, <3>1 DEF IInv, TablesOK, ActiveOK
    <3>6. QED
      BY <3>4, <3>5
  <2>5. \A c \in owners : req[c].work \in DOMAIN active
    BY <1>1, <2>1 DEF IInv, TablesOK, ActiveOK
  <2>6. QED
    BY <2>3, <2>4, <2>5 DEF TablesAgree
<1>2. QED
  BY <1>1, InvariantHolds, PTL

\* A shared value comes from the same authority and work key, and passed the
\* owner's verifier, the digest and the verifier of the call that gets it.
THEOREM SharedValueIsVouchedForHolds == Spec => []SharedValueIsVouchedFor
<1>1. ASSUME IInv, NEW c \in Calls, outcome[c].kind = "shared"
      PROVE  LET d == joined[c]
                 v == outcome[c].payload
             IN  /\ req[d].authority = req[c].authority
                 /\ req[d].work = req[c].work
                 /\ future[d] = Result(v)
                 /\ v \notin Undigestible
                 /\ req[d].verifier[v] = "accept"
                 /\ req[c].verifier[v] = "accept"
  <2> DEFINE d == joined[c]
             v == outcome[c].payload
  <2>1. /\ d \in Calls
        /\ future[d] = Result(v)
        /\ req[c].verifier[v] = "accept"
        /\ Key(req[d]) = Key(req[c])
    BY <1>1 DEF IInv, TypeOK, RolesOK, AnswersOK
  <2>2. future[d].state = "result" /\ future[d].payload = v
    BY <2>1 DEF Result
  <2>3. v \notin Undigestible /\ req[d].verifier[v] = "accept"
    BY <1>1, <2>1, <2>2 DEF IInv, FuturesOK
  <2>4. QED
    BY <2>1, <2>3 DEF Key
<1>2. IInv => SharedValueIsVouchedFor
  BY <1>1 DEF SharedValueIsVouchedFor
<1>3. QED
  BY <1>2, InvariantHolds, PTL

\* A call joins only an owner that is still inside run().
THEOREM JoinsOnlyRunningWorkHolds == Spec => JoinsOnlyRunningWork
<1>1. ASSUME IInv, [Next]_vars, NEW c \in Calls, joined'[c] # joined[c]
      PROVE  /\ joined[c] = NoCall
             /\ Open(joined'[c])
             /\ req[joined'[c]].authority = req'[c].authority
             /\ req[joined'[c]].work = req'[c].work
  <2>1. PICK d \in Calls, r \in Requests : Join(d, r)
    BY <1>1
    DEF Next, Enter, Compute, Proceed, AllDone, vars, Refuse, Own,
        ComputeReturns, ComputeRaises, Settle, Cleanup, WaitExpires, WaitRaises,
        WaitReturns, RecordTimeout, RecordRejected, RecordShared
  <2>2. /\ d = c
        /\ pc[c] = "idle"
        /\ Key(r) \in DOMAIN inflight
        /\ joined'[c] = inflight[Key(r)]
        /\ req'[c] = r
    BY <1>1, <2>1 DEF IInv, TypeOK, Join, InFlight
  <2>3. QED
    BY <1>1, <2>2 DEF IInv, RolesOK, TablesOK, InflightOK, Key
<1>2. IInv /\ [Next]_vars =>
        [\A c \in Calls : joined'[c] # joined[c] =>
            /\ joined[c] = NoCall
            /\ Open(joined'[c])
            /\ req[joined'[c]].authority = req'[c].authority
            /\ req[joined'[c]].work = req'[c].work]_vars
  BY <1>1
<1>3. QED
  BY <1>2, InvariantHolds, PTL DEF Spec, JoinsOnlyRunningWork

\* What an execution adds to refused_cross_authority is whether another
\* authority is running the same work (core.py:95-98).
THEOREM RefusalsCountForeignWorkHolds == Spec => RefusalsCountForeignWork
<1> DEFINE foreign(r) == \E d \in Calls : /\ Open(d)
                                          /\ req[d].work = r.work
                                          /\ req[d].authority # r.authority
<1>1. ASSUME IInv, NEW c \in Calls, NEW r \in Requests, Own(c, r)
      PROVE  Refused(r) <=> foreign(r)
  <2>1. r.authority \in Authorities /\ r.work \in Works
    BY <1>1, ValidRequest DEF Own
  <2>2. <<r.authority, r.work>> \notin DOMAIN inflight
    BY <1>1 DEF Own, InFlight, Key
  <2>3. r.authority \notin ActiveFor(r.work)
    BY <1>1, <2>1, <2>2 DEF IInv, TablesOK, ActiveOK, ActiveFor
  <2>4. ASSUME NEW a \in ActiveFor(r.work)
        PROVE  foreign(r)
    <3>1. r.work \in DOMAIN active /\ a \in active[r.work] /\ a \in Authorities
      BY <1>1, <2>4 DEF ActiveFor, IInv, TypeOK
    <3>2. <<a, r.work>> \in DOMAIN inflight
      BY <1>1, <2>1, <3>1 DEF IInv, TablesOK, ActiveOK
    <3>3. PICK d \in Calls : Open(d) /\ Key(req[d]) = <<a, r.work>>
      BY <1>1, <3>2 DEF IInv, TypeOK, TablesOK, InflightOK
    <3> QED
      BY <2>3, <2>4, <3>3 DEF Key
  <2>5. ASSUME NEW d \in Calls, Open(d), req[d].work = r.work,
               req[d].authority # r.authority
        PROVE  ActiveFor(r.work) # {}
    <3>1. req[d].authority \in Authorities
      BY <1>1, <2>5, ValidRequest DEF IInv, RolesOK
    <3>2. <<req[d].authority, r.work>> \in DOMAIN inflight
      BY <1>1, <2>5 DEF IInv, TablesOK, InflightOK, Key
    <3> QED
      BY <1>1, <2>1, <3>1, <3>2 DEF IInv, TablesOK, ActiveOK, ActiveFor
  <2> QED
    BY <2>3, <2>4, <2>5 DEF Refused
<1>2. ASSUME IInv, [Next]_vars, NEW c \in Calls, pc[c] = "idle", pc'[c] = "compute"
      PROVE  stats'["refused_cross_authority"] =
                stats["refused_cross_authority"] + IF foreign(req'[c]) THEN 1 ELSE 0
  <2>1. PICK r \in Requests : Own(c, r)
    <3>1. ASSUME NEW d \in Calls, NEW l, pc' = [pc EXCEPT ![d] = l], l # "compute"
          PROVE  FALSE
      BY <1>2, <3>1 DEF IInv, TypeOK
    <3>2. ASSUME NEW d \in Calls, NEW r \in Requests, Own(d, r)
          PROVE  d = c
      BY <1>2, <3>2 DEF IInv, TypeOK, Own, Goto
    <3>3. pc' # pc
      BY <1>2
    <3>4. ASSUME NEW d \in Calls, Proceed(d) \/ Compute(d)
          PROVE  FALSE
      BY <3>1, <3>4
      DEF Compute, Proceed, ComputeReturns, ComputeRaises, Settle, Cleanup,
          WaitExpires, WaitRaises, WaitReturns, RecordTimeout, RecordRejected,
          RecordShared, Goto, Return
    <3>5. ASSUME NEW d \in Calls, NEW r \in Requests, Refuse(d, r) \/ Join(d, r)
          PROVE  FALSE
      BY <3>1, <3>5 DEF Refuse, Join, Goto, Return
    <3> QED
      BY <1>2, <3>2, <3>3, <3>4, <3>5 DEF Next, Enter, AllDone, vars
  <2>2. req'[c] = r
    BY <1>2, <2>1 DEF IInv, TypeOK, Own
  <2>3. stats'["refused_cross_authority"] =
           stats["refused_cross_authority"] + IF Refused(r) THEN 1 ELSE 0
    BY <2>1 DEF Own, Count, Counters
  <2> QED
    BY <1>1, <1>2, <2>1, <2>2, <2>3
<1>3. IInv /\ [Next]_vars =>
        [\A c \in Calls : pc[c] = "idle" /\ pc'[c] = "compute" =>
            LET foreigner == \E d \in Calls :
                              /\ Open(d)
                              /\ req[d].work = req'[c].work
                              /\ req[d].authority # req'[c].authority
            IN  stats'["refused_cross_authority"] =
                   stats["refused_cross_authority"] + IF foreigner THEN 1 ELSE 0]_vars
  BY <1>2
<1>4. QED
  BY <1>3, InvariantHolds, PTL DEF Spec, RefusalsCountForeignWork
---------------------------------------------------------------------------
\* A joiner without a bound has its owner's ending.
FailuresOK ==
    \A c \in Calls : joined[c] # NoCall /\ req[c].timeout = "none" =>
        /\ pc[c] # "timedOut"
        /\ pc[c] \in {"accepted", "rejected"} => future[joined[c]].state = "result"
        /\ pc[c] = "done" =>
              /\ future[joined[c]].state # "pending"
              /\ future[joined[c]].state = "exception" =>
                    outcome[c] = Raised(future[joined[c]].payload)

\* What a step of joiner c must do to keep it.
LEMMA JoinerFailures ==
    ASSUME IInv, FailuresOK, NEW c \in Calls, NEW l, NEW o,
           pc' = [pc EXCEPT ![c] = l], outcome' = [outcome EXCEPT ![c] = o],
           UNCHANGED <<req, joined, future>>,
           joined[c] # NoCall /\ req[c].timeout = "none" =>
              \/ l \in {"accepted", "rejected"} /\ future[joined[c]].state = "result"
              \/ l = "done" /\ future[joined[c]].state = "result"
              \/ /\ l = "done"
                 /\ future[joined[c]].state = "exception"
                 /\ o = Raised(future[joined[c]].payload)
    PROVE  FailuresOK'
BY DEF FailuresOK, IInv, TypeOK

LEMMA FailuresInductive ==
    ASSUME TimeoutErrors = {}
    PROVE  IInv /\ FailuresOK /\ [Next]_vars => FailuresOK'
<1> SUFFICES ASSUME IInv, FailuresOK, [Next]_vars PROVE FailuresOK'
  OBVIOUS
<1> USE DEF Goto, Return
<1>1. ASSUME NEW c \in Calls, NEW r \in Requests, Refuse(c, r)
      PROVE  FailuresOK'
  BY <1>1, JoinerFailures DEF Refuse, IInv, RolesOK
<1>2. ASSUME NEW c \in Calls, NEW r \in Requests, Join(c, r)
      PROVE  FailuresOK'
  BY <1>2 DEF Join, FailuresOK, IInv, TypeOK
<1>3. ASSUME NEW c \in Calls, NEW r \in Requests, Own(c, r)
      PROVE  FailuresOK'
  <2>1. \A d \in Calls : joined[d] # c /\ (joined[d] # NoCall => d # c)
    BY <1>3, NamesAssumption DEF Own, IInv, RolesOK
  <2> QED
    BY <1>3, <2>1 DEF Own, FailuresOK, IInv, TypeOK
<1>4. ASSUME NEW c \in Calls, NEW f, Settle(c, f)
      PROVE  FailuresOK'
  <2>1. joined[c] = NoCall /\ future[c].state = "pending"
    BY <1>4 DEF Settle, IInv, RolesOK, Open, FuturesOK, Pending
  <2>2. ASSUME NEW d \in Calls, joined[d] = c, req[d].timeout = "none"
        PROVE  pc[d] \notin {"accepted", "rejected", "done", "timedOut"}
    BY <2>1, <2>2, NamesAssumption DEF FailuresOK
  <2> QED
    BY <1>4, <2>1, <2>2 DEF Settle, FailuresOK, IInv, TypeOK
<1>5. ASSUME NEW c \in Calls, Cleanup(c)
      PROVE  FailuresOK'
  <2>1. joined[c] = NoCall
    BY <1>5 DEF Cleanup, IInv, RolesOK, Open
  <2> QED
    BY <1>5, <2>1, JoinerFailures DEF Cleanup
<1>6. ASSUME NEW c \in Calls, WaitExpires(c)
      PROVE  FailuresOK'
  BY <1>6, WaitingJoiner, JoinerFailures DEF WaitExpires, MayExpire, JoinerLabels
<1>7. ASSUME NEW c \in Calls, WaitRaises(c)
      PROVE  FailuresOK'
  BY <1>7, JoinerFailures DEF WaitRaises, TakenForTimeout
<1>8. ASSUME NEW c \in Calls, WaitReturns(c)
      PROVE  FailuresOK'
  BY <1>8, WaitingJoiner, JoinerFailures DEF WaitReturns, JoinerLabels
<1>9. ASSUME NEW c \in Calls, RecordTimeout(c)
      PROVE  FailuresOK'
  BY <1>9, JoinerFailures DEF RecordTimeout, FailuresOK
<1>10. ASSUME NEW c \in Calls, RecordRejected(c) \/ RecordShared(c)
       PROVE  FailuresOK'
  <2>1. joined[c] # NoCall /\ req[c].timeout = "none" => future[joined[c]].state = "result"
    BY <1>10 DEF RecordRejected, RecordShared, FailuresOK
  <2>2. CASE RecordRejected(c)
    BY <2>1, <2>2, JoinerFailures DEF RecordRejected
  <2>3. CASE RecordShared(c)
    BY <2>1, <2>3, JoinerFailures DEF RecordShared
  <2> QED
    BY <1>10, <2>2, <2>3
<1>11. CASE UNCHANGED vars
  BY <1>11 DEF vars, FailuresOK
<1> QED
  BY <1>1, <1>2, <1>3, <1>4, <1>5, <1>6, <1>7, <1>8, <1>9, <1>10, <1>11
  DEF Next, Enter, Compute, Proceed, AllDone, ComputeReturns, ComputeRaises

\* Gate G6: unless some callable raises what the joiner takes for its own
\* timeout, an owner's exception reaches every joiner that waits without a bound.
THEOREM FailureReachesJoinersHolds ==
    ASSUME TimeoutErrors = {} PROVE Spec => []FailureReachesJoiners
<1>1. Init => FailuresOK
  BY DEF Init, FailuresOK
<1>2. FailuresOK => FailureReachesJoiners
  BY DEF FailuresOK, FailureReachesJoiners
<1>3. IInv /\ FailuresOK /\ [Next]_vars => FailuresOK'
  BY FailuresInductive
<1>4. QED
  BY <1>1, <1>2, <1>3, InvariantHolds, PTL DEF Spec
---------------------------------------------------------------------------
(* The counters, for every set of calls, finite or not: at any time only     *)
(* finitely many have entered run(), and what stats() reports are the numbers *)
(* of those that did what a counter is named for.                            *)

SharedJoins   == {c \in Joiners : outcome[c].kind = "shared"}
TimedOutJoins == {c \in Joiners : outcome[c] = Raised("JoinTimeout")}
RejectedJoins == {c \in Joiners : outcome[c] = Raised("JoinerRejected")}

CountsOK ==
    /\ IsFiniteSet(Entered) /\ IsFiniteSet(Joiners)
    /\ IsFiniteSet(SharedJoins) /\ IsFiniteSet(TimedOutJoins)
    /\ IsFiniteSet(RejectedJoins)
    /\ stats["logical_requests"] = Cardinality(Entered)
    /\ stats["join_attempts"] = Cardinality(Joiners)
    /\ stats["logical_requests"] = stats["physical_executions"] + stats["join_attempts"]
    /\ stats["shared_requests"] = Cardinality(SharedJoins)
    /\ stats["timed_out_joins"] = Cardinality(TimedOutJoins)
    /\ stats["rejected_shared_outputs"] = Cardinality(RejectedJoins)

\* Only a joiner raises the two exceptions of a joiner: no Future holds them.
CausesOK ==
    \A c \in Calls :
        /\ pc[c] = "idle" => req[c] = NoRequest
        /\ future[c].state = "exception" =>
              future[c].payload \notin {"JoinTimeout", "JoinerRejected"}

CInv == CountsOK /\ CausesOK

LEMMA OneMore ==
    ASSUME NEW S, IsFiniteSet(S), NEW x, x \notin S
    PROVE  IsFiniteSet(S \cup {x}) /\ Cardinality(S \cup {x}) = Cardinality(S) + 1
BY FS_AddElement

LEMMA OutcomesDiffer ==
    ASSUME NEW e, NEW f, NEW v
    PROVE  /\ NotYet.kind = "none" /\ NotYet # Raised(e)
           /\ Raised(e).kind = "raised" /\ Computed(v).kind = "computed"
           /\ Shared(v).kind = "shared" /\ Shared(v) # Raised(e)
           /\ Computed(v) # Raised(e)
           /\ Raised(e) = Raised(f) => e = f
<1>1. NotYet.kind = "none" /\ Raised(e).kind = "raised" /\ Computed(v).kind = "computed"
         /\ Shared(v).kind = "shared" /\ Raised(e).payload = e /\ Raised(f).payload = f
  BY DEF NotYet, Raised, Computed, Shared
<1> QED
  BY <1>1

\* Raising e is not an ending of a join that a counter counts.
Uncounted(e) ==
    /\ Raised(e).kind # "shared"
    /\ Raised(e) \notin {Raised("JoinTimeout"), Raised("JoinerRejected")}

LEMMA UncountedRaise ==
    ASSUME NEW e, e \notin {"JoinTimeout", "JoinerRejected"}
    PROVE  Uncounted(e)
<1>1. Raised(e) # Raised("JoinTimeout") /\ Raised(e) # Raised("JoinerRejected")
  BY OutcomesDiffer
<1>2. Raised(e).kind # "shared"
  BY OutcomesDiffer
<1> QED
  BY <1>1, <1>2 DEF Uncounted

LEMMA InitCInv == Init => CInv
<1> SUFFICES ASSUME Init PROVE CInv
  OBVIOUS
<1>1. /\ Entered = {} /\ Joiners = {}
      /\ SharedJoins = {} /\ TimedOutJoins = {} /\ RejectedJoins = {}
  BY DEF Init, Entered, Joiners, SharedJoins, TimedOutJoins, RejectedJoins
<1>2. \A n \in Counters : stats[n] = 0
  BY DEF Init
<1>3. CausesOK
  BY DEF Init, CausesOK, Pending
<1> QED
  BY <1>1, <1>2, <1>3, FS_EmptySet DEF CInv, CountsOK, Counters

\* A step within run() that counts nothing and ends no join in a counted way.
LEMMA QuietCounts ==
    ASSUME IInv, CountsOK, NEW c \in Calls, NEW l, NEW o,
           pc[c] \notin {"idle", "done"}, l # "idle",
           pc' = [pc EXCEPT ![c] = l], outcome' = [outcome EXCEPT ![c] = o],
           UNCHANGED <<req, joined, stats>>,
           joined[c] # NoCall =>
              /\ o.kind # "shared"
              /\ o \notin {Raised("JoinTimeout"), Raised("JoinerRejected")}
    PROVE  CountsOK'
<1>1. outcome[c] = NotYet
  BY DEF IInv, AnswersOK
<1>2. Entered' = Entered /\ Joiners' = Joiners
  BY DEF Entered, Joiners, IInv, TypeOK
<1>3. /\ SharedJoins' = SharedJoins
      /\ TimedOutJoins' = TimedOutJoins
      /\ RejectedJoins' = RejectedJoins
  BY <1>1, <1>2, OutcomesDiffer
  DEF SharedJoins, TimedOutJoins, RejectedJoins, Joiners, IInv, TypeOK
<1> QED
  BY <1>2, <1>3 DEF CountsOK

\* The lock section in which a call enters run().
LEMMA EnterCounts ==
    ASSUME IInv, CInv, NEW c \in Calls, NEW r \in Requests,
           Join(c, r) \/ Own(c, r)
    PROVE  CountsOK'
<1>1. /\ pc[c] = "idle" /\ req' = [req EXCEPT ![c] = r]
      /\ outcome' = outcome /\ outcome[c] = NotYet
      /\ joined[c] = NoCall /\ c \notin Joiners
      /\ pc'[c] # "idle" /\ \A d \in Calls \ {c} : pc'[d] = pc[d]
  BY DEF Join, Own, Goto, IInv, TypeOK, RolesOK, AnswersOK, Joiners
<1>2. r # NoRequest /\ req'[c] = r /\ \A d \in Calls \ {c} : req'[d] = req[d]
  BY <1>1, NoRequestAssumption DEF IInv, TypeOK
<1>3. c \notin Entered /\ Entered' = Entered \cup {c}
  BY <1>1, <1>2 DEF Entered
<1>4. IsFiniteSet(Entered') /\ Cardinality(Entered') = Cardinality(Entered) + 1
  BY <1>3, OneMore DEF CInv, CountsOK
<1>5. ASSUME Joiners' = Joiners \/ Joiners' = Joiners \cup {c}
      PROVE  /\ SharedJoins' = SharedJoins
             /\ TimedOutJoins' = TimedOutJoins
             /\ RejectedJoins' = RejectedJoins
  BY <1>1, <1>5, OutcomesDiffer DEF SharedJoins, TimedOutJoins, RejectedJoins
<1>6. stats \in [Counters -> Nat]
  BY DEF IInv, TypeOK
<1>7. CASE Join(c, r)
  <2>1. joined' = [joined EXCEPT ![c] = inflight[Key(r)]] /\ inflight[Key(r)] # NoCall
    BY <1>7, NamesAssumption DEF Join, InFlight, IInv, TablesOK, InflightOK, TypeOK
  <2>2. Joiners' = Joiners \cup {c}
    BY <2>1 DEF Joiners, IInv, TypeOK
  <2>3. IsFiniteSet(Joiners') /\ Cardinality(Joiners') = Cardinality(Joiners) + 1
    BY <1>1, <2>2, OneMore DEF CInv, CountsOK
  <2>4. /\ stats'["logical_requests"] = stats["logical_requests"] + 1
        /\ stats'["join_attempts"] = stats["join_attempts"] + 1
        /\ stats'["physical_executions"] = stats["physical_executions"]
        /\ stats'["shared_requests"] = stats["shared_requests"]
        /\ stats'["timed_out_joins"] = stats["timed_out_joins"]
        /\ stats'["rejected_shared_outputs"] = stats["rejected_shared_outputs"]
    BY <1>6, <1>7 DEF Join, Count, Counters
  <2>5. /\ stats["logical_requests"] \in Nat /\ stats["join_attempts"] \in Nat
        /\ stats["physical_executions"] \in Nat
    BY <1>6 DEF Counters
  <2>6. /\ SharedJoins' = SharedJoins
        /\ TimedOutJoins' = TimedOutJoins
        /\ RejectedJoins' = RejectedJoins
    BY <1>5, <2>2
  <2>7. stats'["logical_requests"] = stats'["physical_executions"] + stats'["join_attempts"]
    BY <2>4, <2>5 DEF CInv, CountsOK
  <2> QED
    BY <1>4, <2>3, <2>4, <2>6, <2>7 DEF CInv, CountsOK
<1>8. CASE Own(c, r)
  <2>1. Joiners' = Joiners
    BY <1>8 DEF Own, Joiners
  <2>2. /\ stats'["logical_requests"] = stats["logical_requests"] + 1
        /\ stats'["join_attempts"] = stats["join_attempts"]
        /\ stats'["physical_executions"] = stats["physical_executions"] + 1
        /\ stats'["shared_requests"] = stats["shared_requests"]
        /\ stats'["timed_out_joins"] = stats["timed_out_joins"]
        /\ stats'["rejected_shared_outputs"] = stats["rejected_shared_outputs"]
    BY <1>6, <1>8 DEF Own, Count, Counters
  <2>3. /\ stats["logical_requests"] \in Nat /\ stats["join_attempts"] \in Nat
        /\ stats["physical_executions"] \in Nat
    BY <1>6 DEF Counters
  <2>4. /\ SharedJoins' = SharedJoins
        /\ TimedOutJoins' = TimedOutJoins
        /\ RejectedJoins' = RejectedJoins
    BY <1>5, <2>1
  <2>5. stats'["logical_requests"] = stats'["physical_executions"] + stats'["join_attempts"]
    BY <2>2, <2>3 DEF CInv, CountsOK
  <2> QED
    BY <1>4, <2>1, <2>2, <2>4, <2>5 DEF CInv, CountsOK
<1> QED
  BY <1>7, <1>8

\* The lock section that counts the ending of a join.
LEMMA RecordCounts ==
    ASSUME IInv, CInv, NEW c \in Calls,
           RecordTimeout(c) \/ RecordRejected(c) \/ RecordShared(c)
    PROVE  CountsOK'
<1>1. /\ c \in Joiners /\ outcome[c] = NotYet /\ pc[c] # "idle"
      /\ stats \in [Counters -> Nat]
  BY DEF RecordTimeout, RecordRejected, RecordShared, IInv, TypeOK, RolesOK,
         AnswersOK, Joiners, JoinerLabels
<1>2. Entered' = Entered /\ Joiners' = Joiners
  BY <1>1 DEF RecordTimeout, RecordRejected, RecordShared, Return, Entered, Joiners,
              IInv, TypeOK
<1>3. c \notin SharedJoins /\ c \notin TimedOutJoins /\ c \notin RejectedJoins
  BY <1>1, OutcomesDiffer DEF SharedJoins, TimedOutJoins, RejectedJoins
<1>4. /\ stats'["logical_requests"] = stats["logical_requests"]
      /\ stats'["join_attempts"] = stats["join_attempts"]
      /\ stats'["physical_executions"] = stats["physical_executions"]
  BY <1>1 DEF RecordTimeout, RecordRejected, RecordShared, Count, Counters
<1>5. CASE RecordTimeout(c)
  <2>1. outcome' = [outcome EXCEPT ![c] = Raised("JoinTimeout")]
    BY <1>5 DEF RecordTimeout, Return
  <2>2. /\ SharedJoins' = SharedJoins /\ RejectedJoins' = RejectedJoins
        /\ TimedOutJoins' = TimedOutJoins \cup {c}
    BY <1>1, <1>2, <2>1, OutcomesDiffer
    DEF SharedJoins, TimedOutJoins, RejectedJoins, Joiners, IInv, TypeOK
  <2>3. /\ stats'["timed_out_joins"] = stats["timed_out_joins"] + 1
        /\ stats'["shared_requests"] = stats["shared_requests"]
        /\ stats'["rejected_shared_outputs"] = stats["rejected_shared_outputs"]
    BY <1>1, <1>5 DEF RecordTimeout, Count, Counters
  <2>4. IsFiniteSet(TimedOutJoins') /\ Cardinality(TimedOutJoins') = Cardinality(TimedOutJoins) + 1
    BY <1>3, <2>2, OneMore DEF CInv, CountsOK
  <2> QED
    BY <1>2, <1>4, <2>2, <2>3, <2>4 DEF CInv, CountsOK
<1>6. CASE RecordRejected(c)
  <2>1. outcome' = [outcome EXCEPT ![c] = Raised("JoinerRejected")]
    BY <1>6 DEF RecordRejected, Return
  <2>2. /\ SharedJoins' = SharedJoins /\ TimedOutJoins' = TimedOutJoins
        /\ RejectedJoins' = RejectedJoins \cup {c}
    BY <1>1, <1>2, <2>1, OutcomesDiffer
    DEF SharedJoins, TimedOutJoins, RejectedJoins, Joiners, IInv, TypeOK
  <2>3. /\ stats'["rejected_shared_outputs"] = stats["rejected_shared_outputs"] + 1
        /\ stats'["shared_requests"] = stats["shared_requests"]
        /\ stats'["timed_out_joins"] = stats["timed_out_joins"]
    BY <1>1, <1>6 DEF RecordRejected, Count, Counters
  <2>4. IsFiniteSet(RejectedJoins') /\ Cardinality(RejectedJoins') = Cardinality(RejectedJoins) + 1
    BY <1>3, <2>2, OneMore DEF CInv, CountsOK
  <2> QED
    BY <1>2, <1>4, <2>2, <2>3, <2>4 DEF CInv, CountsOK
<1>7. CASE RecordShared(c)
  <2>1. PICK v : outcome' = [outcome EXCEPT ![c] = Shared(v)]
    BY <1>7 DEF RecordShared, Return
  <2>2. /\ TimedOutJoins' = TimedOutJoins /\ RejectedJoins' = RejectedJoins
        /\ SharedJoins' = SharedJoins \cup {c}
    BY <1>1, <1>2, <2>1, OutcomesDiffer
    DEF SharedJoins, TimedOutJoins, RejectedJoins, Joiners, IInv, TypeOK
  <2>3. /\ stats'["shared_requests"] = stats["shared_requests"] + 1
        /\ stats'["rejected_shared_outputs"] = stats["rejected_shared_outputs"]
        /\ stats'["timed_out_joins"] = stats["timed_out_joins"]
    BY <1>1, <1>7 DEF RecordShared, Count, Counters
  <2>4. IsFiniteSet(SharedJoins') /\ Cardinality(SharedJoins') = Cardinality(SharedJoins) + 1
    BY <1>3, <2>2, OneMore DEF CInv, CountsOK
  <2> QED
    BY <1>2, <1>4, <2>2, <2>3, <2>4 DEF CInv, CountsOK
<1> QED
  BY <1>5, <1>6, <1>7
---------------------------------------------------------------------------
LEMMA NextCounts == IInv /\ CInv /\ [Next]_vars => CountsOK'
<1> SUFFICES ASSUME IInv, CInv, [Next]_vars PROVE CountsOK'
  OBVIOUS
<1> USE DEF Goto, Return
<1>1. CountsOK
  BY DEF CInv
<1>2. ASSUME NEW c \in Calls, NEW r \in Requests, Refuse(c, r)
      PROVE  CountsOK'
  <2>1. /\ req[c] = NoRequest /\ joined[c] = NoCall
        /\ pc' = [pc EXCEPT ![c] = "done"]
        /\ outcome' = [outcome EXCEPT ![c] = Raised("InvalidRequest")]
        /\ UNCHANGED <<req, joined, stats>>
    BY <1>2 DEF Refuse, CInv, CausesOK, IInv, RolesOK
  <2>2. Entered' = Entered /\ Joiners' = Joiners
    BY <2>1 DEF Entered, Joiners, IInv, TypeOK
  <2>3. /\ SharedJoins' = SharedJoins
        /\ TimedOutJoins' = TimedOutJoins
        /\ RejectedJoins' = RejectedJoins
    BY <2>1, <2>2 DEF SharedJoins, TimedOutJoins, RejectedJoins, Joiners, IInv, TypeOK
  <2> QED
    BY <1>1, <2>1, <2>2, <2>3 DEF CountsOK
<1>3. ASSUME NEW c \in Calls, NEW r \in Requests, Join(c, r) \/ Own(c, r)
      PROVE  CountsOK'
  BY <1>3, EnterCounts
\* A step that leaves outcome as it is.
<1>4. ASSUME NEW c \in Calls, NEW l, l # "idle", pc[c] \notin {"idle", "done"},
             pc' = [pc EXCEPT ![c] = l], UNCHANGED <<req, joined, stats, outcome>>
      PROVE  CountsOK'
  <2>1. outcome' = [outcome EXCEPT ![c] = NotYet]
    BY <1>4 DEF IInv, TypeOK, AnswersOK
  <2>2. NotYet.kind # "shared" /\ NotYet \notin {Raised("JoinTimeout"), Raised("JoinerRejected")}
    BY OutcomesDiffer
  <2> QED
    BY <1>1, <1>4, <2>1, <2>2, QuietCounts
<1>5. ASSUME NEW c \in Calls, NEW f, Settle(c, f)
      PROVE  CountsOK'
  BY <1>4, <1>5 DEF Settle
<1>6. ASSUME NEW c \in Calls, Cleanup(c)
      PROVE  CountsOK'
  <2>1. joined[c] = NoCall
    BY <1>6 DEF Cleanup, IInv, RolesOK, Open
  <2> QED
    BY <1>1, <1>6, <2>1, QuietCounts DEF Cleanup
<1>7. ASSUME NEW c \in Calls, WaitExpires(c)
      PROVE  CountsOK'
  BY <1>4, <1>7 DEF WaitExpires
<1>8. ASSUME NEW c \in Calls, WaitRaises(c)
      PROVE  CountsOK'
  <2>1. joined[c] \in Calls /\ future[joined[c]].state = "exception"
    BY <1>8, WaitingJoiner DEF WaitRaises, JoinerLabels
  <2>2. future[joined[c]].payload \notin {"JoinTimeout", "JoinerRejected"}
    BY <2>1 DEF CInv, CausesOK
  <2>3. CASE Goto(c, "timedOut")
    BY <1>4, <1>8, <2>3 DEF WaitRaises
  <2>4. CASE Return(c, Raised(future[joined[c]].payload))
    <3> DEFINE e == future[joined[c]].payload
    <3>1. Uncounted(e)
      BY <2>2, UncountedRaise
    <3>2. pc[c] = "wait" /\ UNCHANGED <<req, joined, stats>>
      BY <1>8 DEF WaitRaises
    <3>3. pc' = [pc EXCEPT ![c] = "done"] /\ outcome' = [outcome EXCEPT ![c] = Raised(e)]
      BY <2>4
    <3> HIDE DEF e
    <3> QED
      BY <1>1, <3>1, <3>2, <3>3, QuietCounts DEF Uncounted
  <2> QED
    BY <1>8, <2>3, <2>4 DEF WaitRaises
<1>9. ASSUME NEW c \in Calls, WaitReturns(c)
      PROVE  CountsOK'
  <2>1. CASE Goto(c, "accepted") \/ Goto(c, "rejected")
    BY <1>4, <1>9, <2>1 DEF WaitReturns
  <2>2. ASSUME NEW e \in Errors, Return(c, Raised(e))
        PROVE  CountsOK'
    <3>1. Uncounted(e)
      BY UncountedRaise, DataAssumption DEF OwnErrors
    <3>2. pc[c] = "wait" /\ UNCHANGED <<req, joined, stats>>
      BY <1>9 DEF WaitReturns
    <3>3. pc' = [pc EXCEPT ![c] = "done"] /\ outcome' = [outcome EXCEPT ![c] = Raised(e)]
      BY <2>2
    <3> QED
      BY <1>1, <3>1, <3>2, <3>3, QuietCounts DEF Uncounted
  <2> QED
    BY <1>9, <2>1, <2>2 DEF WaitReturns
<1>10. ASSUME NEW c \in Calls, RecordTimeout(c) \/ RecordRejected(c) \/ RecordShared(c)
       PROVE  CountsOK'
  BY <1>10, RecordCounts
<1>11. CASE UNCHANGED vars
  BY <1>1, <1>11 DEF vars, CountsOK, Entered, Joiners, SharedJoins, TimedOutJoins,
                     RejectedJoins
<1> QED
  BY <1>2, <1>3, <1>5, <1>6, <1>7, <1>8, <1>9, <1>10, <1>11
  DEF Next, Enter, Compute, Proceed, AllDone, ComputeReturns, ComputeRaises

\* What a Future is settled with.
LEMMA SettledCauses ==
    ASSUME IInv, NEW c \in Calls, NEW f, Settle(c, f), CausesOK,
           f.state = "exception" => f.payload \notin {"JoinTimeout", "JoinerRejected"}
    PROVE  CausesOK'
BY DEF Settle, Goto, CausesOK, IInv, TypeOK

LEMMA OwnerCauses ==
    ASSUME NEW r \in Requests, NEW v \in Values, OwnerResult(r, v).state = "exception"
    PROVE  OwnerResult(r, v).payload \notin {"JoinTimeout", "JoinerRejected"}
BY VerdictType, DataAssumption DEF OwnerResult, Exception, Result, OwnErrors, Verdicts

LEMMA NextCauses == IInv /\ CausesOK /\ [Next]_vars => CausesOK'
<1> SUFFICES ASSUME IInv, CausesOK, [Next]_vars PROVE CausesOK'
  OBVIOUS
<1> USE DEF Goto, Return
<1>1. ASSUME NEW c \in Calls, NEW v \in Values, ComputeReturns(c, v)
      PROVE  CausesOK'
  <2>1. req[c] \in Requests
    BY <1>1 DEF ComputeReturns, Settle, IInv, RolesOK, Open
  <2> QED
    BY <1>1, <2>1, OwnerCauses, SettledCauses DEF ComputeReturns
<1>2. ASSUME NEW c \in Calls, NEW e \in Errors, ComputeRaises(c, e)
      PROVE  CausesOK'
  BY <1>2, SettledCauses, DataAssumption DEF ComputeRaises, Exception, OwnErrors
<1>3. ASSUME NEW c \in Calls, NEW r \in Requests, Refuse(c, r) \/ Join(c, r) \/ Own(c, r)
      PROVE  CausesOK'
  BY <1>3 DEF Refuse, Join, Own, CausesOK, IInv, TypeOK, Pending
<1>4. ASSUME NEW c \in Calls, Proceed(c)
      PROVE  CausesOK'
  <2>1. UNCHANGED <<req, future>> /\ \E l : l # "idle" /\ pc' = [pc EXCEPT ![c] = l]
    BY <1>4 DEF Proceed, Cleanup, WaitExpires, WaitRaises, WaitReturns,
                RecordTimeout, RecordRejected, RecordShared
  <2> QED
    BY <2>1 DEF CausesOK, IInv, TypeOK
<1>5. CASE UNCHANGED vars
  BY <1>5 DEF vars, CausesOK
<1> QED
  BY <1>1, <1>2, <1>3, <1>4, <1>5 DEF Next, Enter, Compute, AllDone

\* The counters stats() reports are the numbers of calls they are named for
\* (Accounting of RadialExecutor), whenever it is called.
THEOREM AccountingHolds == Spec => []Accounting
<1>1. CInv => Accounting
  BY DEF CInv, CountsOK, Accounting, SharedJoins, TimedOutJoins, RejectedJoins
<1>2. IInv /\ CInv /\ [Next]_vars => CInv'
  BY NextCounts, NextCauses DEF CInv
<1> QED
  BY <1>1, <1>2, InitCInv, InvariantHolds, PTL DEF Spec
---------------------------------------------------------------------------
\* RadialExecutor implements SharedWork when no callable raises what a joiner
\* takes for its own timeout.

stageMap  == [c \in Calls |-> StageOf(c)]
answerMap == [c \in Calls |-> AnswerOf(c)]

\* The instance's own copies of the operators on data mean the same.
LEMMA SameData ==
    /\ Promise!Pending = Pending
    /\ Promise!NotYet = NotYet
    /\ Promise!Requests = Requests
    /\ \A r : Promise!Valid(r) = Valid(r)
    /\ \A r : Promise!Key(r) = Key(r)
    /\ \A v : Promise!Result(v) = Result(v)
    /\ \A e : Promise!Exception(e) = Exception(e)
    /\ \A v : Promise!Shared(v) = Shared(v)
    /\ \A e : Promise!Raised(e) = Raised(e)
    /\ \A f : Promise!OwnerOutcome(f) = OwnerOutcome(f)
    /\ \A r, v : Promise!OwnerResult(r, v) = OwnerResult(r, v)
BY DEF Promise!Pending, Pending, Promise!NotYet, NotYet,
       Promise!Requests, Requests, Promise!Valid, Valid, Promise!Key, Key,
       Promise!Result, Result, Promise!Exception, Exception,
       Promise!Shared, Shared, Promise!Raised, Raised,
       Promise!OwnerOutcome, OwnerOutcome, Promise!OwnerResult, OwnerResult,
       Promise!Computed, Computed

LEMMA InitRefines == Init => Promise!Init
BY SameData
DEF Init, Promise!Init, StageOf, AnswerOf, Open

\* What a step of the executor must do to the abstract state when it moves one
\* call to an abstract stage with an abstract answer.
LEMMA MapStep ==
    ASSUME IInv, NEW c \in Calls, NEW l \in Labels, NEW o,
           pc' = [pc EXCEPT ![c] = l],
           outcome' = [outcome EXCEPT ![c] = o],
           \A x \in Calls : x # c => joined'[x] = joined[x],
           \A x \in Calls : pc[x] = "accepted" => future'[joined[x]] = future[joined[x]]
    PROVE  /\ stageMap' = [stageMap EXCEPT ![c] = StageOf(c)']
           /\ answerMap' = [answerMap EXCEPT ![c] = AnswerOf(c)']
<1>1. ASSUME NEW x \in Calls, x # c
      PROVE  StageOf(x)' = StageOf(x) /\ AnswerOf(x)' = AnswerOf(x)
  <2>1. pc'[x] = pc[x] /\ outcome'[x] = outcome[x] /\ joined'[x] = joined[x]
    BY <1>1 DEF IInv, TypeOK
  <2>2. pc[x] = "accepted" => future'[joined'[x]] = future[joined[x]]
    BY <2>1
  <2>3. QED
    BY <2>1, <2>2 DEF StageOf, AnswerOf, Open
<1>2. stageMap' = [x \in Calls |-> StageOf(x)']
  BY DEF stageMap
<1>3. answerMap' = [x \in Calls |-> AnswerOf(x)']
  BY DEF answerMap
<1>4. stageMap' = [stageMap EXCEPT ![c] = StageOf(c)']
  BY <1>1, <1>2 DEF stageMap
<1>5. answerMap' = [answerMap EXCEPT ![c] = AnswerOf(c)']
  BY <1>1, <1>3 DEF answerMap
<1>6. QED
  BY <1>4, <1>5

\* The steps of the executor, one by one.

LEMMA RefuseRefines ==
    ASSUME IInv, NEW c \in Calls, NEW r \in Requests, Refuse(c, r)
    PROVE  Promise!TurnAway(c, r)
<1>1. /\ pc[c] = "idle"
      /\ pc' = [pc EXCEPT ![c] = "done"]
      /\ outcome' = [outcome EXCEPT ![c] = Raised("InvalidRequest")]
      /\ UNCHANGED <<req, joined, future>>
  BY DEF Refuse, Return
<1>2. pc'[c] = "done" /\ outcome'[c] = Raised("InvalidRequest")
  BY <1>1 DEF IInv, TypeOK
<1>3. StageOf(c) = "new" /\ StageOf(c)' = "over" /\ AnswerOf(c)' = outcome'[c]
  BY <1>1, <1>2 DEF StageOf, AnswerOf, Open
<1>4. /\ stageMap' = [stageMap EXCEPT ![c] = "over"]
      /\ answerMap' = [answerMap EXCEPT ![c] = Raised("InvalidRequest")]
  BY <1>1, <1>2, <1>3, MapStep DEF Labels
<1>5. stageMap[c] = "new"
  BY <1>3 DEF stageMap
<1>6. QED
  BY <1>1, <1>4, <1>5, SameData DEF Promise!TurnAway, Refuse, stageMap, answerMap

LEMMA JoinRefines ==
    ASSUME IInv, NEW c \in Calls, NEW r \in Requests, Join(c, r)
    PROVE  \E d \in Calls : Promise!Board(c, r, d)
<1> DEFINE d == inflight[Key(r)]
<1>1. /\ pc[c] = "idle"
      /\ pc' = [pc EXCEPT ![c] = "wait"]
      /\ UNCHANGED <<outcome, future>>
      /\ req' = [req EXCEPT ![c] = r]
      /\ joined' = [joined EXCEPT ![c] = d]
  BY DEF Join, Goto
<1>2. pc'[c] = "wait" /\ outcome[c] = NotYet /\ outcome' = [outcome EXCEPT ![c] = NotYet]
  BY <1>1 DEF IInv, TypeOK, AnswersOK
<1>3. /\ StageOf(c) = "new"
      /\ StageOf(c)' = "riding"
      /\ AnswerOf(c) = NotYet
      /\ AnswerOf(c)' = NotYet
  BY <1>1, <1>2 DEF StageOf, AnswerOf, Open
<1>4. /\ stageMap' = [stageMap EXCEPT ![c] = "riding"]
      /\ answerMap' = [answerMap EXCEPT ![c] = NotYet]
  <2>1. \A x \in Calls : x # c => joined'[x] = joined[x]
    BY <1>1 DEF IInv, TypeOK
  <2>2. "wait" \in Labels
    BY DEF Labels
  <2>3. QED
    BY <1>1, <1>2, <1>3, <2>1, <2>2, MapStep
<1>5. stageMap[c] = "new" /\ answerMap' = answerMap
  BY <1>3, <1>4 DEF stageMap, answerMap
<1>6. d \in Calls /\ stageMap[d] = "leading" /\ Key(req[d]) = Key(r)
  BY DEF Join, InFlight, IInv, TypeOK, TablesOK, InflightOK, stageMap, StageOf, Open
<1>7. QED
  BY <1>1, <1>4, <1>5, <1>6, SameData
  DEF Promise!Board, Promise!OpenFor, Join, stageMap, answerMap

LEMMA OwnRefines ==
    ASSUME IInv, NEW c \in Calls, NEW r \in Requests, Own(c, r)
    PROVE  Promise!Lead(c, r)
<1>1. /\ pc[c] = "idle"
      /\ pc' = [pc EXCEPT ![c] = "compute"]
      /\ UNCHANGED <<outcome, joined>>
      /\ req' = [req EXCEPT ![c] = r]
      /\ future' = future
  BY DEF Own, Goto, IInv, TypeOK, FuturesOK
<1>2. pc'[c] = "compute" /\ outcome[c] = NotYet /\ outcome' = [outcome EXCEPT ![c] = NotYet]
  BY <1>1 DEF IInv, TypeOK, AnswersOK
<1>3. /\ StageOf(c) = "new"
      /\ StageOf(c)' = "leading"
      /\ AnswerOf(c) = NotYet
      /\ AnswerOf(c)' = NotYet
  BY <1>1, <1>2 DEF StageOf, AnswerOf, Open
<1>4. /\ stageMap' = [stageMap EXCEPT ![c] = "leading"]
      /\ answerMap' = [answerMap EXCEPT ![c] = NotYet]
  <2>1. "compute" \in Labels
    BY DEF Labels
  <2>2. QED
    BY <1>1, <1>2, <1>3, <2>1, MapStep
<1>5. stageMap[c] = "new" /\ answerMap' = answerMap
  BY <1>3, <1>4 DEF stageMap, answerMap
<1>6. \A d \in Calls : stageMap[d] = "leading" => Open(d) /\ Key(req[d]) \in DOMAIN inflight
  BY DEF IInv, TablesOK, InflightOK, stageMap, StageOf
<1>7. ~ \E d \in Calls : stageMap[d] = "leading" /\ Key(req[d]) = Key(r)
  BY <1>6 DEF Own, InFlight
<1>8. QED
  BY <1>1, <1>4, <1>5, <1>7, SameData
  DEF Promise!Lead, Promise!OpenFor, Own, stageMap, answerMap

LEMMA SettleRefines ==
    ASSUME IInv, NEW c \in Calls, NEW f \in Promise!Landings(req[c]),
           pc[c] = "compute",
           Goto(c, "cleanup"),
           future' = [future EXCEPT ![c] = f],
           UNCHANGED <<req, joined>>
    PROVE  Promise!Land(c)
<1>1. /\ pc' = [pc EXCEPT ![c] = "cleanup"]
      /\ outcome[c] = NotYet
      /\ outcome' = [outcome EXCEPT ![c] = NotYet]
      /\ pc'[c] = "cleanup"
      /\ future[c] = Pending
  BY DEF Goto, IInv, TypeOK, AnswersOK, FuturesOK
<1>2. /\ StageOf(c) = "leading"
      /\ StageOf(c)' = "leading"
      /\ AnswerOf(c) = NotYet
      /\ AnswerOf(c)' = NotYet
  BY <1>1 DEF StageOf, AnswerOf, Open
<1>3. \A x \in Calls : pc[x] = "accepted" => future'[joined[x]] = future[joined[x]]
  <2>1. \A x \in Calls : pc[x] = "accepted" => joined[x] # c
    BY <1>1 DEF IInv, AnswersOK, Pending
  <2>2. QED
    BY <2>1 DEF IInv, TypeOK, RolesOK, JoinerLabels
<1>4. /\ stageMap' = [stageMap EXCEPT ![c] = "leading"]
      /\ answerMap' = [answerMap EXCEPT ![c] = NotYet]
  <2>1. "cleanup" \in Labels
    BY DEF Labels
  <2>2. QED
    BY <1>1, <1>2, <1>3, <2>1, MapStep
<1>5. stageMap[c] = "leading" /\ stageMap' = stageMap /\ answerMap' = answerMap
  BY <1>2, <1>4 DEF stageMap, answerMap
<1>6. QED
  BY <1>1, <1>5, SameData DEF Promise!Land, stageMap, answerMap

LEMMA CleanupRefines ==
    ASSUME IInv, NEW c \in Calls, Cleanup(c)
    PROVE  Promise!Close(c)
<1> DEFINE o == OwnerOutcome(future[c])
<1>1. /\ pc[c] = "cleanup"
      /\ pc' = [pc EXCEPT ![c] = "done"]
      /\ outcome' = [outcome EXCEPT ![c] = o]
      /\ UNCHANGED <<req, joined, future>>
      /\ future[c] # Pending
  BY DEF Cleanup, Return, IInv, FuturesOK
<1>2. pc'[c] = "done" /\ outcome'[c] = o
  BY <1>1 DEF IInv, TypeOK
<1>3. StageOf(c) = "leading" /\ StageOf(c)' = "over" /\ AnswerOf(c)' = o
  BY <1>1, <1>2 DEF StageOf, AnswerOf, Open
<1>4. /\ stageMap' = [stageMap EXCEPT ![c] = "over"]
      /\ answerMap' = [answerMap EXCEPT ![c] = o]
  <2>1. "done" \in Labels
    BY DEF Labels
  <2>2. QED
    BY <1>1, <1>3, <2>1, MapStep
<1>5. stageMap[c] = "leading"
  BY <1>3 DEF stageMap
<1>6. QED
  BY <1>1, <1>4, <1>5, SameData
  DEF Promise!Close, Promise!Settle, stageMap, answerMap

\* A waiting joiner decides its answer o, at label l.
LEMMA AlightRefines ==
    ASSUME IInv, NEW c \in Calls, NEW l \in Labels,
           NEW o \in Promise!RiderAnswers(req[c], future[joined[c]]),
           pc[c] = "wait",
           l \in {"timedOut", "accepted", "rejected", "done"},
           pc' = [pc EXCEPT ![c] = l],
           NEW p, outcome' = [outcome EXCEPT ![c] = p],
           AnswerOf(c)' = o,
           UNCHANGED <<req, joined, future>>
    PROVE  Promise!Alight(c)
<1>1. pc'[c] = l
  BY DEF IInv, TypeOK
<1>2. StageOf(c) = "riding" /\ StageOf(c)' = "over"
  BY <1>1 DEF StageOf, Open
<1>3. /\ stageMap' = [stageMap EXCEPT ![c] = "over"]
      /\ answerMap' = [answerMap EXCEPT ![c] = o]
  BY <1>2, MapStep
<1>4. stageMap[c] = "riding"
  BY <1>2 DEF stageMap
<1>5. QED
  BY <1>3, <1>4 DEF Promise!Alight, Promise!Settle, stageMap, answerMap

\* A joiner whose answer is decided only counts it.
LEMMA RecordRefines ==
    ASSUME IInv, NEW c \in Calls, NEW o,
           pc[c] \in {"timedOut", "accepted", "rejected"},
           Return(c, o),
           o = AnswerOf(c),
           UNCHANGED <<req, joined, future>>
    PROVE  UNCHANGED Promise!vars
<1>1. /\ pc' = [pc EXCEPT ![c] = "done"]
      /\ outcome' = [outcome EXCEPT ![c] = o]
      /\ pc'[c] = "done"
      /\ outcome'[c] = o
  BY DEF Return, IInv, TypeOK
<1>2. StageOf(c) = "over" /\ StageOf(c)' = "over" /\ AnswerOf(c)' = o
  BY <1>1 DEF StageOf, AnswerOf, Open
<1>3. /\ stageMap' = [stageMap EXCEPT ![c] = "over"]
      /\ answerMap' = [answerMap EXCEPT ![c] = o]
  <2>1. "done" \in Labels
    BY DEF Labels
  <2>2. QED
    BY <1>1, <1>2, <2>1, MapStep
<1>4. stageMap' = stageMap /\ answerMap' = answerMap
  BY <1>2, <1>3 DEF stageMap, answerMap
<1>5. QED
  BY <1>4 DEF Promise!vars, stageMap, answerMap
---------------------------------------------------------------------------
\* A joiner's three ways out of its wait.

LEMMA WaitExpiresRefines ==
    ASSUME IInv, NEW c \in Calls, WaitExpires(c)
    PROVE  Promise!Alight(c)
<1>1. Promise!Raised("JoinTimeout") \in
         Promise!RiderAnswers(req[c], future[joined[c]])
  BY DEF WaitExpires, MayExpire, Promise!RiderAnswers
<1>2. /\ pc' = [pc EXCEPT ![c] = "timedOut"]
      /\ outcome' = [outcome EXCEPT ![c] = outcome[c]]
      /\ pc'[c] = "timedOut"
  BY DEF WaitExpires, Goto, IInv, TypeOK
<1>3. AnswerOf(c)' = Raised("JoinTimeout")
  BY <1>2 DEF AnswerOf
<1>4. QED
  BY <1>1, <1>2, <1>3, AlightRefines, SameData DEF WaitExpires, Labels

LEMMA WaitRaisesRefines ==
    ASSUME IInv, TimeoutErrors = {}, NEW c \in Calls, WaitRaises(c)
    PROVE  Promise!Alight(c)
<1> DEFINE f == future[joined[c]]
<1>1. Raised(f.payload) \in Promise!RiderAnswers(req[c], f)
  BY SameData DEF WaitRaises, Promise!RiderAnswers
<1>2. /\ pc[c] = "wait"
      /\ pc' = [pc EXCEPT ![c] = "done"]
      /\ outcome' = [outcome EXCEPT ![c] = Raised(f.payload)]
      /\ UNCHANGED <<req, joined, future>>
  BY DEF WaitRaises, TakenForTimeout, Return
<1>3. AnswerOf(c)' = Raised(f.payload)
  BY <1>2 DEF AnswerOf, IInv, TypeOK
<1>4. "done" \in Labels
  BY DEF Labels
<1>5. QED
  BY <1>1, <1>2, <1>3, <1>4, AlightRefines

LEMMA WaitReturnsRefines ==
    ASSUME IInv, NEW c \in Calls, WaitReturns(c)
    PROVE  Promise!Alight(c)
<1> DEFINE f == future[joined[c]]
           v == f.payload
           verdict == req[c].verifier[v]
<1>1. /\ pc[c] = "wait"
      /\ f.state = "result"
      /\ UNCHANGED <<req, joined, future>>
  BY DEF WaitReturns
<1>2. Promise!RiderVerdict(req[c], v) \in Promise!RiderAnswers(req[c], f)
  BY <1>1 DEF Promise!RiderAnswers
<1>3. Errors \cap {"accept", "reject"} = {}
  BY DataAssumption
<1>4. CASE verdict = "accept" /\ Goto(c, "accepted")
  <2>1. Promise!RiderVerdict(req[c], v) = Shared(v)
    BY <1>4, SameData DEF Promise!RiderVerdict
  <2>2. /\ pc' = [pc EXCEPT ![c] = "accepted"]
        /\ outcome' = [outcome EXCEPT ![c] = outcome[c]]
        /\ pc'[c] = "accepted"
    BY <1>4 DEF Goto, IInv, TypeOK
  <2>3. AnswerOf(c)' = Shared(v)
    BY <1>1, <2>2 DEF AnswerOf
  <2>4. "accepted" \in Labels
    BY DEF Labels
  <2>5. QED
    BY <1>1, <1>2, <2>1, <2>2, <2>3, <2>4, AlightRefines
<1>5. CASE verdict = "reject" /\ Goto(c, "rejected")
  <2>1. Promise!RiderVerdict(req[c], v) = Raised("JoinerRejected")
    BY <1>5, SameData DEF Promise!RiderVerdict
  <2>2. /\ pc' = [pc EXCEPT ![c] = "rejected"]
        /\ outcome' = [outcome EXCEPT ![c] = outcome[c]]
        /\ pc'[c] = "rejected"
    BY <1>5 DEF Goto, IInv, TypeOK
  <2>3. AnswerOf(c)' = Raised("JoinerRejected")
    BY <2>2 DEF AnswerOf
  <2>4. "rejected" \in Labels
    BY DEF Labels
  <2>5. QED
    BY <1>1, <1>2, <2>1, <2>2, <2>3, <2>4, AlightRefines
<1>6. CASE verdict \in Errors /\ Return(c, Raised(verdict))
  <2>1. Promise!RiderVerdict(req[c], v) = Raised(verdict)
    BY <1>3, <1>6, SameData DEF Promise!RiderVerdict
  <2>2. /\ pc' = [pc EXCEPT ![c] = "done"]
        /\ outcome' = [outcome EXCEPT ![c] = Raised(verdict)]
    BY <1>6 DEF Return
  <2>3. AnswerOf(c)' = Raised(verdict)
    BY <2>2 DEF AnswerOf, IInv, TypeOK
  <2>4. "done" \in Labels
    BY DEF Labels
  <2>5. QED
    BY <1>1, <1>2, <2>1, <2>2, <2>3, <2>4, AlightRefines
<1>7. QED
  BY <1>4, <1>5, <1>6 DEF WaitReturns, JoinerVerdict

\* Every step of the executor is a step of SharedWork or changes nothing that
\* SharedWork speaks of.
LEMMA NextRefines ==
    ASSUME TimeoutErrors = {}
    PROVE  IInv /\ [Next]_vars => [Promise!Next]_(Promise!vars)
<1> SUFFICES ASSUME IInv, [Next]_vars
             PROVE  Promise!Next \/ UNCHANGED Promise!vars
  OBVIOUS
<1>1. ASSUME NEW c \in Calls, NEW r \in Requests, Refuse(c, r)
      PROVE  Promise!Next
  BY <1>1, RefuseRefines, SameData DEF Promise!Next
<1>2. ASSUME NEW c \in Calls, NEW r \in Requests, Join(c, r)
      PROVE  Promise!Next
  BY <1>2, JoinRefines, SameData DEF Promise!Next
<1>3. ASSUME NEW c \in Calls, NEW r \in Requests, Own(c, r)
      PROVE  Promise!Next
  BY <1>3, OwnRefines, SameData DEF Promise!Next
<1>4. ASSUME NEW c \in Calls, NEW v \in Values, ComputeReturns(c, v)
      PROVE  Promise!Next
  <2>1. OwnerResult(req[c], v) \in Promise!Landings(req[c])
    BY SameData DEF Promise!Landings
  <2>2. QED
    BY <1>4, <2>1, SettleRefines DEF ComputeReturns, Settle, Promise!Next
<1>5. ASSUME NEW c \in Calls, NEW e \in Errors, ComputeRaises(c, e)
      PROVE  Promise!Next
  <2>1. Exception(e) \in Promise!Landings(req[c])
    BY SameData DEF Promise!Landings
  <2>2. QED
    BY <1>5, <2>1, SettleRefines DEF ComputeRaises, Settle, Promise!Next
<1>6. ASSUME NEW c \in Calls, Cleanup(c)
      PROVE  Promise!Next
  BY <1>6, CleanupRefines DEF Promise!Next
<1>7. ASSUME NEW c \in Calls, WaitExpires(c) \/ WaitRaises(c) \/ WaitReturns(c)
      PROVE  Promise!Next
  BY <1>7, WaitExpiresRefines, WaitRaisesRefines, WaitReturnsRefines
  DEF Promise!Next
<1>8. ASSUME NEW c \in Calls, RecordTimeout(c)
      PROVE  UNCHANGED Promise!vars
  BY <1>8, RecordRefines DEF RecordTimeout, AnswerOf
<1>9. ASSUME NEW c \in Calls, RecordRejected(c)
      PROVE  UNCHANGED Promise!vars
  BY <1>9, RecordRefines DEF RecordRejected, AnswerOf
<1>10. ASSUME NEW c \in Calls, RecordShared(c)
       PROVE  UNCHANGED Promise!vars
  BY <1>10, RecordRefines DEF RecordShared, AnswerOf
<1>11. CASE UNCHANGED vars
  BY <1>11 DEF vars, Promise!vars, StageOf, AnswerOf, Open
<1>12. QED
  BY <1>1, <1>2, <1>3, <1>4, <1>5, <1>6, <1>7, <1>8, <1>9, <1>10, <1>11
  DEF Next, Enter, Compute, Proceed, AllDone

\* RadialExecutor implements SharedWork: work is shared only by calls of one
\* authority and work key that overlap, each joiner gets its owner's result,
\* its owner's error or its own timeout, and never a value its own verifier
\* did not accept.
THEOREM KeepsPromiseHolds == ASSUME TimeoutErrors = {} PROVE Spec => KeepsPromise
<1>1. IInv /\ [Next]_vars => [Promise!Next]_(Promise!vars)
  BY NextRefines
<1>2. QED
  BY <1>1, InitRefines, InvariantHolds, PTL DEF Spec, KeepsPromise, Promise!Spec
=============================================================================
