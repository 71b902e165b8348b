----------------------------- MODULE NestedWork -----------------------------
(***************************************************************************)
(* Calls of RadialExecutor.run from inside the compute callable of another *)
(* call, in the same thread, and a KeyboardInterrupt that strikes a thread *)
(* where run() catches nothing.                                            *)
(***************************************************************************)
EXTENDS RadialExecutor

CONSTANTS
    Parent,         \* the call whose compute makes each call, or NoCall
    Interruptible,  \* the calls of the main thread
    Rank            \* an order of the composite keys

ASSUME NestedAssumption ==
    /\ Parent \in [Calls -> Calls \cup {NoCall}]
    /\ Interruptible \subseteq Calls
    /\ Rank \in [Authorities \X Works -> Nat]

\* The nested call that the compute of c is inside of, if any.
Inside(c) == {d \in Calls : Parent[d] = c /\ pc[d] \notin {"idle", "done"}}

NestedEnter(c) ==
    /\ Parent[c] # NoCall => pc[Parent[c]] = "compute" /\ Inside(Parent[c]) = {}
    /\ Enter(c)

NestedCompute(c) == Inside(c) = {} /\ Compute(c)

\* The exception is raised before the try block of lines 116-135, or in its
\* finally clause before the lock is taken: neither table is touched.
Interrupt(c) ==
    /\ c \in Interruptible
    /\ \/ pc[c] = "compute" /\ \A d \in Calls : Parent[d] = c => pc[d] = "idle"
       \/ pc[c] = "cleanup"
    /\ Return(c, Raised("KeyboardInterrupt"))
    /\ UNCHANGED <<req, joined, future, inflight, active, stats>>

NestedStep(c) == NestedEnter(c) \/ NestedCompute(c) \/ Proceed(c) \/ Interrupt(c)

NestedSpec == Init /\ [][(\E c \in Calls : NestedStep(c)) \/ AllDone]_vars

\* Threads are scheduled, bounded waits expire, and a compute callable ends
\* once the call it made has returned.
NestedFairSpec == /\ NestedSpec
                  /\ \A c \in Calls : WF_vars(Proceed(c)) /\ WF_vars(NestedCompute(c))
---------------------------------------------------------------------------
\* What must happen first for c to go on: the end of a nested call, or of the
\* owner on whose Future c waits without a bound.
WaitsFor(c) ==
    IF pc[c] = "wait" /\ req[c].timeout = "none" /\ future[joined[c]].state = "pending"
    THEN {joined[c]} ELSE Inside(c)

\* An owner that left without settling its Future.
Orphaned(c) == pc[c] = "done" /\ joined[c] = NoCall /\ future[c].state = "pending"
                  /\ outcome[c] = Raised("KeyboardInterrupt")

\* The waits from c come back to where they were, or lead to an orphan.
Stuck(c) ==
    \E S \in SUBSET Calls :
        /\ c \in S
        /\ \A d \in S : \/ Orphaned(d)
                        \/ WaitsFor(d) # {} /\ WaitsFor(d) \subseteq S

\* The whole price of nesting and interrupts: if every compute ends on its
\* own, a call returns unless it is in a circle of unbounded waits, or waits
\* for a Future that an interrupted owner never settled (core.py:98-135).
OnlyCirclesBlock ==
    \A c \in Calls : pc[c] # "idle" ~> pc[c] = "done" \/ Stuck(c)

KeyOf(c) == <<req[c].authority, req[c].work>>

\* A caller that nests only in ascending order of keys cannot deadlock, whoever
\* owns and whoever joins, and although neither table knows of the nesting
\* (core.py:84-135).
AscendingNeverStuck ==
    (\A c \in Calls :
        /\ outcome[c] # Raised("KeyboardInterrupt")
        /\ Parent[c] # NoCall /\ req[c] # NoRequest
               => Rank[KeyOf(c)] > Rank[KeyOf(Parent[c])])
    => \A c \in Calls : pc[c] # "done" => ~Stuck(c)
=============================================================================
