------------------------- MODULE ApplicantDirectory --------------------------
(***************************************************************************)
(* What the intake promises, without files, transactions or steps of an    *)
(* import: one applicant per email (models.py, uq_applicants_email_lower), *)
(* and to each request one answer that is true when it is decided: "201"   *)
(* enters the applicant, and "409" is only told while the email is taken   *)
(* (create_application).  An import enters its applicants all at once.     *)
(***************************************************************************)

CONSTANTS Applications,  \* POST requests
          Emails,
          Cohort         \* emails of the applicants an import may bring

None == "none"

VARIABLES entries,  \* the applicants: who made the entry, and the email
          asked,    \* the email of a request, once its form has been accepted
          answer    \* what a request has been told, if anything

vars == <<entries, asked, answer>>

Entry(who, email) == [who |-> who, email |-> email]
Used(email) == \E e \in entries : e.email = email
Entered(who) == \E e \in entries : e.who = who

Pending(q) == answer[q] = None /\ asked[q] \in Emails

Init == /\ entries = {}
        /\ asked = [q \in Applications |-> None]
        /\ answer = [q \in Applications |-> None]

\* The form is accepted, or refused whoever has applied before.
Ask(q) == /\ asked[q] = None /\ answer[q] = None
          /\ \E e \in Emails : asked' = [asked EXCEPT ![q] = e]
          /\ UNCHANGED <<entries, answer>>

Invalid(q) == /\ asked[q] = None /\ answer[q] = None
              /\ answer' = [answer EXCEPT ![q] = "invalid"]
              /\ UNCHANGED <<entries, asked>>

Admit(q) == /\ Pending(q) /\ ~ Used(asked[q])
            /\ entries' = entries \cup {Entry(q, asked[q])}
            /\ answer' = [answer EXCEPT ![q] = "created"]
            /\ UNCHANGED asked

Refuse(q) == /\ Pending(q) /\ Used(asked[q])
             /\ answer' = [answer EXCEPT ![q] = "duplicate"]
             /\ UNCHANGED <<entries, asked>>

\* The answers to these requests never come; nothing was entered for them.
Lose(lost) == /\ \A q \in lost : Pending(q)
              /\ answer' = [q \in Applications |-> IF q \in lost THEN "lost" ELSE answer[q]]
              /\ UNCHANGED <<entries, asked>>

\* The part of the cohort an import brings: new people, with emails that are
\* free and differ.
Adopt(new) == /\ \A i \in new : ~ Entered(i) /\ ~ Used(Cohort[i])
              /\ \A i, j \in new : Cohort[i] = Cohort[j] => i = j
              /\ entries' = entries \cup {Entry(i, Cohort[i]) : i \in new}
              /\ UNCHANGED <<asked, answer>>

Next == \/ \E q \in Applications : Ask(q) \/ Invalid(q) \/ Admit(q) \/ Refuse(q)
        \/ \E lost \in SUBSET Applications : Lose(lost)
        \/ \E new \in SUBSET DOMAIN Cohort : Adopt(new)

Spec == Init /\ [][Next]_vars
=============================================================================
