---------------------------- MODULE AdminTerminal ---------------------------
(***************************************************************************)
(* Administrators at the terminal: workflow_cli.py with the login and the   *)
(* escalation handler of admin/terminal.py, admin/authentication.py,        *)
(* agent/escalation.py and the facade's two writes.  Every terminal is a    *)
(* process of its own; they share one checkpoint database, of which the     *)
(* model has one request.  The workflow between two pauses is CatalogWorkflow*)
(* and only its outcome counts here.                                        *)
(***************************************************************************)
EXTENDS Naturals, Sequences, FiniteSets

CONSTANTS
    Terminals,
    Configurations,  \* administrators: sequences of [name, hash, role]
    NoAdmin,         \* an empty username, and no actor
    Questions,       \* clarifications: [id, about]; the ID is made of the place
    Escalations,     \* escalation IDs
    MaxLogins,       \* TerminalAdminLogin's max_attempts
    Together,        \* saves of two processes may interleave
    MaxRefused,      \* bound: refused answers
    MaxChoices       \* bound: menu choices of one terminal

VARIABLES
    credentials,  \* AdminCredentialConfig
    request,      \* the checkpoint: its stage, the open question or escalation,
                  \* clarification_history, escalation_review_history
    terminal,     \* where each process is, and what it holds
    audit,        \* its InMemoryAuditSink
    refused
vars == <<credentials, request, terminal, audit, refused>>

Names == UNION {{c[i].name : i \in DOMAIN c} : c \in Configurations} \cup {"stranger"}

\* from_environment, validate_argon2id_hash: fail closed.
Configured ==
    /\ \A i \in DOMAIN credentials :
          credentials[i].name # NoAdmin /\ credentials[i].hash = "argon2id"
    /\ \A i, j \in DOMAIN credentials :
          credentials[i].name = credentials[j].name => i = j

\* is_authorized: the exact role.
Authorized(actor, role) ==
    \E i \in DOMAIN credentials :
        credentials[i].name = actor /\ credentials[i].role = role

Fresh == [stage |-> "processing", open |-> "none", about |-> "none",
          answers |-> <<>>, reviews |-> <<>>]
Idle == [pc |-> "closed", seen |-> Fresh, tries |-> 0, actor |-> NoAdmin, choices |-> 0]

Init == /\ credentials \in Configurations
        /\ request = Fresh
        /\ terminal = [t \in Terminals |-> Idle]
        /\ audit = [t \in Terminals |-> <<>>]
        /\ refused = 0

-----------------------------------------------------------------------------
(* The workflow, while no terminal's answer is being waited for             *)

\* The graph runs to its next question, to an escalation, or to its end.
Automation ==
    /\ request.stage = "processing"
    /\ \/ \E q \in Questions :
             request' = [request EXCEPT !.stage = "awaiting", !.open = q.id, !.about = q.about]
       \/ \E e \in Escalations :
             request' = [request EXCEPT !.stage = "escalated", !.open = e, !.about = "none"]
       \/ request' = [request EXCEPT !.stage = "completed", !.open = "none"]
    /\ UNCHANGED <<credentials, terminal, audit, refused>>

-----------------------------------------------------------------------------
(* The menu                                                                *)

Goes(t, pc) == terminal' = [terminal EXCEPT ![t].pc = pc]
Reads(t, pc) ==
    terminal' = [terminal EXCEPT ![t] =
        [pc |-> pc, seen |-> request, tries |-> 0, actor |-> NoAdmin,
         choices |-> terminal[t].choices + 1]]

\* While one process is between its read and its write of the checkpoint, no
\* other one writes, unless Together.
MaySave(t) == Together \/ \A u \in Terminals \ {t} : terminal[u].pc # "saving"

\* open_local_sqlite_workflow: without administrators there is no menu.
Open(t) ==
    /\ terminal[t].pc = "closed" /\ terminal[t].choices = 0 /\ Configured
    /\ Goes(t, "menu")
    /\ UNCHANGED <<credentials, request, audit, refused>>

\* _review and _resume read the request before the login; what they show and
\* decide on afterwards is what they have read.
ChooseReview(t) ==
    /\ terminal[t].pc = "menu" /\ terminal[t].choices < MaxChoices
    /\ Reads(t, IF request.stage = "escalated" THEN "review_login" ELSE "menu")
    /\ UNCHANGED <<credentials, request, audit, refused>>

ChooseAnswer(t) ==
    /\ terminal[t].pc = "menu" /\ terminal[t].choices < MaxChoices
    /\ Reads(t, IF request.stage = "awaiting" THEN "answer_login" ELSE "menu")
    /\ UNCHANGED <<credentials, request, audit, refused>>

Exit(t) ==
    /\ terminal[t].pc = "menu" /\ terminal[t].choices > 0
    /\ Goes(t, "closed")
    /\ UNCHANGED <<credentials, request, audit, refused>>

-----------------------------------------------------------------------------
(* TerminalAdminLogin.login with AdminAuthenticator.authenticate           *)

Denied(s) == [s EXCEPT !.tries = s.tries + 1,
                       !.pc = IF s.tries + 1 < MaxLogins THEN s.pc ELSE "menu"]

Login(t, required, next) ==
    /\ \E name \in Names, right \in BOOLEAN :
          IF right /\ Authorized(name, required)
          THEN terminal' = [terminal EXCEPT ![t] = [@ EXCEPT !.pc = next, !.actor = name]]
          ELSE terminal' = [terminal EXCEPT ![t] = Denied(@)]
    /\ UNCHANGED <<credentials, request, audit, refused>>
LoginReviewer(t) ==
    terminal[t].pc = "review_login" /\ Login(t, "escalator", "decide")
LoginClarifier(t) ==
    terminal[t].pc = "answer_login" /\ Login(t, "clarifier", "answer")

\* The administrator gives up, or verifying the password fails.
Cancel(t) ==
    /\ terminal[t].pc \in {"review_login", "answer_login", "answer"}
    /\ Goes(t, "menu")
    /\ UNCHANGED <<credentials, request, audit, refused>>

-----------------------------------------------------------------------------
(* A review of the escalation                                              *)

Audited(t, outcome) ==
    audit' = [audit EXCEPT ![t] =
        Append(@, [actor |-> terminal[t].actor, on |-> terminal[t].seen.open,
                   outcome |-> outcome])]

\* EscalationReviewProcessor.apply, on the state the terminal has read.
Reviewable(t) ==
    /\ terminal[t].seen.stage = "escalated"
    /\ \A k \in DOMAIN terminal[t].seen.reviews :
          terminal[t].seen.reviews[k].on # terminal[t].seen.open
    /\ Authorized(terminal[t].actor, "escalator")

\* apply_escalation_review
WithReview(t, decision) ==
    [terminal[t].seen EXCEPT !.reviews =
        Append(@, [by |-> terminal[t].actor, on |-> terminal[t].seen.open,
                   decision |-> decision])]

\* handle: acknowledged or rejected, the review is applied to what was read; the
\* event is recorded at once, the request later.
Decide(t) ==
    /\ terminal[t].pc = "decide"
    /\ IF Reviewable(t)
       THEN /\ \E decision \in {"acknowledge", "reject"} :
                  terminal' = [terminal EXCEPT ![t].pc = "record",
                                               ![t].seen = WithReview(t, decision)]
            /\ Audited(t, "succeeded")
       ELSE Goes(t, "menu") /\ Audited(t, "rejected")
    /\ UNCHANGED <<credentials, request, refused>>

\* An unlisted choice, a cancellation, an interrupt or too long a note.
NoDecision(t) ==
    /\ terminal[t].pc = "decide"
    /\ \E outcome \in {"rejected", "cancelled"} : Audited(t, outcome)
    /\ Goes(t, "menu")
    /\ UNCHANGED <<credentials, request, refused>>

\* Fault: the number of reviews is not compared.
OneMore_Unchecked(t) ==
    request.stage = "escalated" /\ terminal[t].seen.stage = "escalated"

\* record_escalation_review: exactly one review more than the checkpoint has.
OneMore(t) ==
    /\ request.stage = "escalated" /\ terminal[t].seen.stage = "escalated"
    /\ Len(terminal[t].seen.reviews) = Len(request.reviews) + 1

\* A refusal raises: "Operation failed safely".
ReadBack(t) ==
    /\ terminal[t].pc = "record" /\ MaySave(t)
    /\ Goes(t, IF OneMore(t) THEN "saving" ELSE "menu")
    /\ UNCHANGED <<credentials, request, audit, refused>>

\* aupdate_state
Save(t) ==
    /\ terminal[t].pc = "saving"
    /\ request' = terminal[t].seen
    /\ Goes(t, "menu")
    /\ UNCHANGED <<credentials, audit, refused>>

-----------------------------------------------------------------------------
(* An answer to the question                                               *)

\* Fault: an ID may be answered again.
Accepts_Again(t) ==
    /\ terminal[t].seen.open = request.open
    /\ Authorized(terminal[t].actor, "clarifier")

\* ClarificationResponseProcessor.apply, on the state the graph has by now.
Accepts(t) ==
    /\ terminal[t].seen.open = request.open
    /\ \A k \in DOMAIN request.answers : request.answers[k].on # request.open
    /\ Authorized(terminal[t].actor, "clarifier")

\* resume_clarification: refused while the graph does not wait for an answer;
\* an answer that does not fit, or has no usable value, leaves the question open.
Answer(t) ==
    /\ terminal[t].pc = "answer"
    /\ \/ request.stage # "awaiting" /\ UNCHANGED <<request, refused>>
       \/ /\ request.stage = "awaiting" /\ Accepts(t)
          /\ request' = [request EXCEPT
                 !.stage = "processing", !.open = "none", !.about = "none",
                 !.answers = Append(@, [on |-> request.open, to |-> request.about,
                                        shown |-> terminal[t].seen.about])]
          /\ UNCHANGED refused
       \/ /\ request.stage = "awaiting" /\ refused < MaxRefused
          /\ refused' = refused + 1
          /\ UNCHANGED request
    /\ Goes(t, "menu")
    /\ UNCHANGED <<credentials, audit>>

Next == \/ Automation
        \/ \E t \in Terminals :
              \/ Open(t) \/ ChooseReview(t) \/ ChooseAnswer(t) \/ Exit(t)
              \/ LoginReviewer(t) \/ LoginClarifier(t) \/ Cancel(t)
              \/ Decide(t) \/ NoDecision(t) \/ ReadBack(t) \/ Save(t) \/ Answer(t)
Spec == Init /\ [][Next]_vars

-----------------------------------------------------------------------------
\* A review that was saved stays, whatever another terminal had read before, and
\* an escalation is reviewed by one escalator, in whose terminal it was audited.
ReviewIsKept ==
    /\ \A k \in DOMAIN request.reviews :
          k \in DOMAIN request'.reviews /\ request'.reviews[k] = request.reviews[k]
    /\ \A k, l \in DOMAIN request'.reviews :
          request'.reviews[k].on = request'.reviews[l].on => k = l
    /\ \A k \in DOMAIN request'.reviews : \E t \in Terminals : \E i \in DOMAIN audit'[t] :
          /\ audit'[t][i] = [actor |-> request'.reviews[k].by, on |-> request'.reviews[k].on,
                             outcome |-> "succeeded"]
          /\ Authorized(audit'[t][i].actor, "escalator")
ReviewsStay == [][ReviewIsKept]_vars

\* An answer is applied to the requirement its administrator was shown, although
\* a question's ID is made of a place in a list that changes with every answer.
AnswerFitsQuestion ==
    \A k \in DOMAIN request.answers : request.answers[k].to = request.answers[k].shown
=============================================================================
