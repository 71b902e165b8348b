----------------------------- MODULE SharedWork -----------------------------
(***************************************************************************)
(* What RadialExecutor promises its callers, without the tables, the lock  *)
(* or the counters.  A call leads a flight or rides in one.  A flight is   *)
(* open from the call that starts it until that call returns; at most one  *)
(* is open for an authority and a work key, only calls with that authority *)
(* and that key board it, and only while it is open.  A rider alights with *)
(* what the flight landed with, after its own verifier accepted it, or     *)
(* before the landing if it set a bound on its wait.                       *)
(***************************************************************************)
EXTENDS WorkData

VARIABLES stage, request, leader, landing, answer

vars == <<stage, request, leader, landing, answer>>

Init ==
    /\ stage   = [c \in Calls |-> "new"]
    /\ request = [c \in Calls |-> NoRequest]
    /\ leader  = [c \in Calls |-> NoCall]
    /\ landing = [c \in Calls |-> Pending]
    /\ answer  = [c \in Calls |-> NotYet]

\* Flight d is open for a call with arguments r.
OpenFor(d, r) == stage[d] = "leading" /\ Key(request[d]) = Key(r)

TurnAway(c, r) ==
    /\ stage[c] = "new"
    /\ ~Valid(r)
    /\ stage'  = [stage EXCEPT ![c] = "over"]
    /\ answer' = [answer EXCEPT ![c] = Raised("InvalidRequest")]
    /\ UNCHANGED <<request, leader, landing>>

Lead(c, r) ==
    /\ stage[c] = "new"
    /\ Valid(r)
    /\ ~ \E d \in Calls : OpenFor(d, r)
    /\ stage'   = [stage EXCEPT ![c] = "leading"]
    /\ request' = [request EXCEPT ![c] = r]
    /\ UNCHANGED <<leader, landing, answer>>

Board(c, r, d) ==
    /\ stage[c] = "new"
    /\ Valid(r)
    /\ OpenFor(d, r)
    /\ stage'   = [stage EXCEPT ![c] = "riding"]
    /\ request' = [request EXCEPT ![c] = r]
    /\ leader'  = [leader EXCEPT ![c] = d]
    /\ UNCHANGED <<landing, answer>>

\* What the leader's own verifier and the digest let through, or an error.
Landings(r) == {OwnerResult(r, v) : v \in Values} \cup
               {Exception(e) : e \in Errors}

\* A flight lands once, while it is open.
Land(d) ==
    /\ stage[d] = "leading"
    /\ landing[d] = Pending
    /\ \E f \in Landings(request[d]) : landing' = [landing EXCEPT ![d] = f]
    /\ UNCHANGED <<stage, request, leader, answer>>

Settle(c, o) ==
    /\ stage'  = [stage EXCEPT ![c] = "over"]
    /\ answer' = [answer EXCEPT ![c] = o]
    /\ UNCHANGED <<request, leader, landing>>

Close(d) ==
    /\ stage[d] = "leading"
    /\ landing[d] # Pending
    /\ Settle(d, OwnerOutcome(landing[d]))

\* The answers a rider may alight with.
RiderVerdict(r, v) ==
    IF r.verifier[v] = "accept" THEN Shared(v)
    ELSE IF r.verifier[v] = "reject" THEN Raised("JoinerRejected")
    ELSE Raised(r.verifier[v])

RiderAnswers(r, f) ==
    IF f.state = "result" THEN {RiderVerdict(r, f.payload)}
    ELSE IF f.state = "exception" THEN {Raised(f.payload)}
    ELSE IF r.timeout = "bounded" THEN {Raised("JoinTimeout")}
    ELSE {}

Alight(c) ==
    /\ stage[c] = "riding"
    /\ \E o \in RiderAnswers(request[c], landing[leader[c]]) : Settle(c, o)

Next == \E c \in Calls :
           \/ \E r \in Requests : \/ TurnAway(c, r)
                                  \/ Lead(c, r)
                                  \/ \E d \in Calls : Board(c, r, d)
           \/ Land(c) \/ Close(c) \/ Alight(c)

Spec == Init /\ [][Next]_vars
=============================================================================
