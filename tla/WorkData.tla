----------------------------- MODULE WorkData -----------------------------
(***************************************************************************)
(* What RadialExecutor.run of radiald/core.py is called with, what its     *)
(* Futures hold and what it returns or raises.                             *)
(***************************************************************************)
EXTENDS Naturals, FiniteSets

CONSTANTS
    Calls,          \* invocations of run()
    Authorities,    \* typed identities of authorities
    Works,          \* typed identities of work keys
    Values,         \* what a compute callable may return
    Undigestible,   \* the values stable_digest refuses
    Errors,         \* exceptions raised by a compute or verifier callable
    TimeoutErrors,  \* those that "except FutureTimeoutError" matches
    Verifiers,      \* verifier callables, as functions of the value
    NoIdentity,     \* of an authority or work key without a canonical form
    NoRequest,      \* the arguments of a call not made yet
    NoCall,         \* whose Future a call that has not joined holds
    Nothing         \* in a Future not settled yet

\* The exceptions run() itself raises.
OwnErrors == {"InvalidRequest", "OwnerRejected", "CanonicalizationError",
              "JoinTimeout", "JoinerRejected"}

\* What calling a verifier does; a call without one accepts everything.
Verdicts == {"accept", "reject"} \cup Errors

ASSUME DataAssumption ==
    /\ Undigestible \subseteq Values
    /\ TimeoutErrors \subseteq Errors
    /\ Errors \cap (OwnErrors \cup {"accept", "reject"}) = {}
    /\ Verifiers \subseteq [Values -> Verdicts]

ASSUME NamesAssumption ==
    /\ NoCall \notin Calls
    /\ NoIdentity \notin Authorities \cup Works

Requests == [authority : Authorities \cup {NoIdentity},
             work      : Works \cup {NoIdentity},
             verifier  : Verifiers,
             timeout   : {"none", "bounded", "negative"}]

ASSUME NoRequestAssumption == NoRequest \notin Requests

\* join_timeout is checked first, then both identities are taken.
Valid(r) == /\ r.timeout # "negative"
            /\ r.authority # NoIdentity
            /\ r.work # NoIdentity

\* The composite key of a request.  (The definition before it is not part of
\* the specification: it is what it would be with a plausible mistake.)
KeyByWork(r) == <<NoIdentity, r.work>>
Key(r) == <<r.authority, r.work>>

\* What a Future holds.
Pending      == [state |-> "pending",   payload |-> Nothing]
Result(v)    == [state |-> "result",    payload |-> v]
Exception(e) == [state |-> "exception", payload |-> e]

\* What run() has answered; WorkResult.shared tells Shared from Computed.
NotYet       == [kind |-> "none",     payload |-> Nothing]
Computed(v)  == [kind |-> "computed", payload |-> v]
Shared(v)    == [kind |-> "shared",   payload |-> v]
Raised(e)    == [kind |-> "raised",   payload |-> e]

Raisable == Errors \cup OwnErrors

Futures == {Pending} \cup {Result(v) : v \in Values}
                     \cup {Exception(e) : e \in Raisable}

Outcomes == {NotYet} \cup {Computed(v) : v \in Values}
                     \cup {Shared(v) : v \in Values}
                     \cup {Raised(e) : e \in Raisable}

\* What the owner's Future is set to when compute returns v: the verifier is
\* asked first, then the digest is taken.
OwnerResult(r, v) ==
    IF r.verifier[v] = "reject" THEN Exception("OwnerRejected")
    ELSE IF r.verifier[v] \in Errors THEN Exception(r.verifier[v])
    ELSE IF v \in Undigestible THEN Exception("CanonicalizationError")
    ELSE Result(v)

\* The owner returns what it set, or raises it again.
OwnerOutcome(f) == IF f.state = "result" THEN Computed(f.payload)
                                         ELSE Raised(f.payload)
=============================================================================
