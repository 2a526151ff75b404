----------------------------- MODULE SeatLedger -----------------------------
(***************************************************************************)
(* What the placement service promises, without runs, proposals or         *)
(* background tasks: README.md of the repository, "Approval commits a      *)
(* seat".  An applicant holds at most one seat; a seat is only ever taken  *)
(* in a role that has one free; releasing a seat frees it for others.      *)
(***************************************************************************)
EXTENDS Naturals, FiniteSets

CONSTANTS Applicants,  \* people who may hold a seat
          Roles,       \* project roles, each with a number of seats
          NoRole,      \* "holds no seat"
          MaxCapacity  \* bound on a role's number of seats

VARIABLES holder,  \* the role whose seat an applicant holds
          seats    \* how many seats a role has

vars == <<holder, seats>>

Occupants(r) == {i \in Applicants : holder[i] = r}

HasFreeSeat(r) == Cardinality(Occupants(r)) < seats[r]

TypeOK == /\ holder \in [Applicants -> Roles \cup {NoRole}]
          /\ seats \in [Roles -> 0 .. MaxCapacity]

Init == /\ holder = [i \in Applicants |-> NoRole]
        /\ seats \in [Roles -> 0 .. MaxCapacity]

\* Approval, or a manual placement, commits a seat.
Take(i, r) == /\ holder[i] = NoRole
              /\ HasFreeSeat(r)
              /\ holder' = [holder EXCEPT ![i] = r]
              /\ UNCHANGED seats

\* Rejecting an approval (or returning it to "proposed") releases it.
Release(i) == /\ holder[i] # NoRole
              /\ holder' = [holder EXCEPT ![i] = NoRole]
              /\ UNCHANGED seats

\* Moving an approved placement to another role takes a seat there.
Move(i, r) == /\ holder[i] \notin {NoRole, r}
              /\ HasFreeSeat(r)
              /\ holder' = [holder EXCEPT ![i] = r]
              /\ UNCHANGED seats

\* A manager edits a role's capacity; nothing protects the seats in use.
Resize(r) == /\ \E c \in 0 .. MaxCapacity : seats' = [seats EXCEPT ![r] = c]
             /\ UNCHANGED holder

Next == \/ \E i \in Applicants : Release(i)
        \/ \E i \in Applicants, r \in Roles : Take(i, r) \/ Move(i, r)
        \/ \E r \in Roles : Resize(r)

Spec == Init /\ [][Next]_vars
=============================================================================
