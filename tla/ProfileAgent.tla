---------------------------- MODULE ProfileAgent -----------------------------
(***************************************************************************)
(* One call of the profile agent, src/src/profile_agent/profile_graph.py:  *)
(* extract the documents, ask a model behind a gateway for the applicant's *)
(* profile, have it corrected while it is unusable, and write the profile  *)
(* to a file that may hold an earlier one.  The gateway may fail, the      *)
(* model may answer anything, the process may be killed, and an operator   *)
(* calls it again.                                                         *)
(***************************************************************************)
EXTENDS Integers, FiniteSets

CONSTANTS PromptAttempts, \* _invoke_with_retries: max_attempts
          MaxAnswers,     \* _parse_profile_text: answers read before giving up
          ProfileCalls    \* bound: calls of the agent with the same output file

VARIABLES profilePc,      \* step of the agent
          profileAttempt, \* attempts at the current prompt
          answers,        \* answers that could not be used
          requests,       \* requests sent to the gateway in this call
          answer,         \* what the model said last
          output,         \* the output file
          temps,          \* temporary files left next to it
          agentRuns       \* calls of the agent

profileVars == <<profilePc, profileAttempt, answers, requests, answer, output, temps, agentRuns>>

Answers == {"valid", "other applicant", "unusable"}
Resting == {"idle", "refused", "failed", "written"}

ProfileInit == /\ profilePc = "idle"
               /\ profileAttempt = 0 /\ answers = 0 /\ requests = 0
               /\ answer = "none"
               /\ output \in {"absent", "earlier profile"}
               /\ temps = 0
               /\ agentRuns = 0

StartProfile == /\ profilePc \in Resting /\ agentRuns < ProfileCalls
                /\ agentRuns' = agentRuns + 1
                /\ profilePc' = "extract"
                /\ profileAttempt' = 0 /\ answers' = 0 /\ requests' = 0 /\ answer' = "none"
                /\ UNCHANGED <<output, temps>>

\* main, extract_documents, _extract_portfolio_text: a resume that is missing,
\* not a PDF, unreadable or empty, and a portfolio that is named but missing,
\* unreadable or of another format, are refused.
ExtractDocuments ==
    /\ profilePc = "extract"
    /\ \E resume \in {"text", "missing", "not PDF", "unreadable", "empty"},
          portfolio \in {"none", "text", "missing", "unreadable", "unsupported"} :
          profilePc' = IF resume = "text" /\ portfolio \in {"none", "text"} THEN "configure" ELSE "refused"
    /\ UNCHANGED <<profileAttempt, answers, requests, answer, output, temps, agentRuns>>

\* create_profile_llm, _required_gateway_settings
ConfigureGateway == /\ profilePc = "configure"
                    /\ profilePc' \in {"invoke", "refused"}
                    /\ UNCHANGED <<profileAttempt, answers, requests, answer, output, temps, agentRuns>>

\* _invoke_with_retries: an answer; a transient failure, tried again; the last
\* attempt's or any other failure (the key rejected, the prompt too large)
InvokeModel == /\ profilePc = "invoke"
               /\ requests' = requests + 1
               /\ \/ answer' \in Answers /\ profilePc' = "parse" /\ profileAttempt' = 0
                  \/ /\ profileAttempt + 1 < PromptAttempts
                     /\ profilePc' = "invoke" /\ profileAttempt' = profileAttempt + 1 /\ UNCHANGED answer
                  \/ profilePc' = "failed" /\ UNCHANGED <<profileAttempt, answer>>
               /\ UNCHANGED <<answers, output, temps, agentRuns>>

\* Fault: whose profile it is is not looked at.
Parse_AnyApplicant ==
    /\ profilePc = "parse"
    /\ IF answer # "unusable" THEN profilePc' = "write" /\ UNCHANGED answers
       ELSE /\ answers' = answers + 1
            /\ profilePc' = IF answers' = MaxAnswers THEN "failed" ELSE "invoke"
    /\ UNCHANGED <<profileAttempt, requests, answer, output, temps, agentRuns>>

\* _parse_profile_text, _clean_json_text: a profile of this applicant, or the
\* model is asked to correct its answer
Parse == /\ profilePc = "parse"
         /\ IF answer = "valid" THEN profilePc' = "write" /\ UNCHANGED answers
            ELSE /\ answers' = answers + 1
                 /\ profilePc' = IF answers' = MaxAnswers THEN "failed" ELSE "invoke"
         /\ UNCHANGED <<profileAttempt, requests, answer, output, temps, agentRuns>>

\* write_json_atomic: a temporary file next to the target, filled
WriteTemporary == /\ profilePc = "write"
                  /\ temps' = temps + 1
                  /\ profilePc' = "replace"
                  /\ UNCHANGED <<profileAttempt, answers, requests, answer, output, agentRuns>>

\* os.replace; a failure to write or replace removes the temporary file
ReplaceOutput == /\ profilePc = "replace"
                 /\ temps' = temps - 1
                 /\ \/ output' = answer /\ profilePc' = "written"
                    \/ profilePc' = "failed" /\ UNCHANGED output
                 /\ UNCHANGED <<profileAttempt, answers, requests, answer, agentRuns>>

\* The process is killed: no finally block runs.
Kill == /\ profilePc \notin Resting
        /\ profilePc' = "failed"
        /\ UNCHANGED <<profileAttempt, answers, requests, answer, output, temps, agentRuns>>

Agent == ExtractDocuments \/ ConfigureGateway \/ InvokeModel \/ Parse \/ WriteTemporary \/ ReplaceOutput
ProfileNext == StartProfile \/ Agent \/ Kill

ProfileSpec == ProfileInit /\ [][ProfileNext]_profileVars

-----------------------------------------------------------------------------
\* The output file is never half written, and never holds another applicant's
\* or an unvalidated profile: an earlier profile stays until a usable one
\* replaces it in one step (write_json_atomic, _parse_profile_text).
OutputIsWhole == /\ output \in {"absent", "earlier profile", "valid"}
                 /\ profilePc = "written" => output = "valid"
=============================================================================
