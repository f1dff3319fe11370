---------------------------- MODULE ModelAdapter ----------------------------
(***************************************************************************)
(* The "Run model call" step of security-review.yml: up to two runs of     *)
(* ci/run_model_command.py, each of which runs ci/call_model.py, which     *)
(* selects a provider profile by size and sends one or more requests.      *)
(*                                                                         *)
(* Request contents are abstract; what a provider answers is free.         *)
(***************************************************************************)
EXTENDS Naturals, FiniteSets

CONSTANTS
  Configs,        \* provider registries, records [active, large]
  Sizes,          \* characters of prompt and case text together
  MaxInputChars,  \* MAX_INPUT_CHARS
  CharsPerToken,  \* CHARS_PER_TOKEN_ESTIMATE
  NoProfile,      \* large_input_provider is absent
  Unset,          \* max_input_tokens is absent
  Invalid         \* max_input_tokens is not a positive integer

\* A profile of the registry; valid when _load_profile accepts its fields.
IsProfile(p) ==
  /\ DOMAIN p = {"name", "budget", "valid"}
  /\ p.budget \in (Nat \ {0}) \cup {Unset, Invalid}
  /\ p.valid \in BOOLEAN

\* Assumed by the module that composes the step with the others of its job.
\* The registry is a dictionary: profiles of one name are one profile.
AdapterAssumption ==
  /\ NoProfile \notin Configs
  /\ \A c \in Configs : /\ IsProfile(c.active) /\ c.active # NoProfile
                        /\ c.large = NoProfile \/ IsProfile(c.large)
                        /\ c.large # NoProfile /\ c.large.name = c.active.name
                             => c.large = c.active
  /\ Sizes \subseteq Nat
  /\ MaxInputChars \in Nat
  /\ CharsPerToken \in Nat \ {0}

VARIABLES
  config,    \* registry read by every call
  chars,     \* size of the input
  pc,        \* position in the step
  call,      \* first or second run of the adapter
  profile,   \* profile of the next request
  attempt,   \* attempts already made with it
  sent,      \* requests sent in this call, by profile
  overflow,  \* profiles that rejected this call's context
  status,    \* exit status of the last call
  outcome    \* how the step ends

vars == <<config, chars, pc, call, profile, attempt, sent, overflow, status, outcome>>

Profiles(c) == {c.active} \cup (IF c.large = NoProfile THEN {} ELSE {c.large})

\* estimate_tokens: characters over CharsPerToken, rounded up.
EstimatedTokens == (chars + CharsPerToken - 1) \div CharsPerToken

HasBudget(p) == p.budget # Unset
Fits(p) == HasBudget(p) => EstimatedTokens <= p.budget

\* _large_profile raises for a large profile _load_profile rejects.
LargeRaises == config.large # NoProfile /\ ~config.large.valid
LargeFits   == config.large # NoProfile /\ Fits(config.large)

Capacity == 3
Failure  == 1
Rejected == 2

Init ==
  /\ config \in Configs
  /\ chars \in Sizes
  /\ pc = "launch"
  /\ call = 1
  /\ profile = NoProfile
  /\ attempt = 0
  /\ sent = [p \in Profiles(config) |-> 0]
  /\ overflow = {}
  /\ status = 0
  /\ outcome = "none"

Exit(code) ==
  /\ pc' = "exited"
  /\ status' = code

-----------------------------------------------------------------------------
(* ci/run_model_command.py and ci/call_model.py *)

\* The command is parsed and the interpreter started.
Launch ==
  /\ pc = "launch"
  /\ \/ pc' = "check" /\ UNCHANGED status
     \/ Exit(Rejected)
  /\ UNCHANGED <<config, chars, call, profile, attempt, sent, overflow, outcome>>

\* The character limit is tested before the API key.
CheckInput ==
  /\ pc = "check"
  /\ IF chars > MaxInputChars
       THEN Exit(Capacity)
       ELSE \/ pc' = "select" /\ UNCHANGED status
            \/ Exit(Failure)      \* MODEL_API_KEY is not configured
  /\ UNCHANGED <<config, chars, call, profile, attempt, sent, overflow, outcome>>

Select(p) ==
  /\ profile' = p
  /\ pc' = "send"
  /\ UNCHANGED status

\* Mutant of SelectProfile: the large profile comes first.
SelectLargeFirst ==
  /\ pc = "select"
  /\ IF config.large # NoProfile /\ config.large.valid /\ config.large.budget # Invalid
       THEN Select(config.large)
       ELSE Exit(Failure) /\ UNCHANGED profile
  /\ attempt' = 0
  /\ UNCHANGED <<config, chars, call, sent, overflow, outcome>>

\* select_profile, then the second _large_profile call of call_model.  An
\* invalid budget raises when it is looked at.
SelectProfile ==
  /\ pc = "select"
  /\ IF \/ ~config.active.valid \/ config.active.budget = Invalid
       THEN Exit(Failure) /\ UNCHANGED profile
     ELSE IF Fits(config.active)
       THEN IF LargeRaises THEN Exit(Failure) /\ UNCHANGED profile
            ELSE Select(config.active)
     ELSE IF LargeRaises
       THEN Exit(Failure) /\ UNCHANGED profile
     ELSE IF config.large # NoProfile /\ config.large.budget = Invalid
       THEN Exit(Failure) /\ UNCHANGED profile
     ELSE IF LargeFits THEN Select(config.large)
     ELSE Exit(Capacity) /\ UNCHANGED profile
  /\ attempt' = 0
  /\ UNCHANGED <<config, chars, call, sent, overflow, outcome>>

CountRequest == sent' = [sent EXCEPT ![profile] = @ + 1]

\* A 2xx answer with text, or any error _send does not retry.
AnswerOrError ==
  /\ pc = "send"
  /\ \E code \in {0, Failure} : Exit(code)
  /\ CountRequest
  /\ UNCHANGED <<config, chars, call, profile, attempt, overflow, outcome>>

\* Mutant of TransientStatus: three attempts, as range(3) would make.
TransientTwice ==
  /\ pc = "send"
  /\ IF sent[profile] < 2
       THEN attempt' = 1 /\ UNCHANGED <<pc, status>>
       ELSE Exit(Failure) /\ UNCHANGED attempt
  /\ CountRequest
  /\ UNCHANGED <<config, chars, call, profile, overflow, outcome>>

\* A transient status: one more attempt after a bounded delay.
TransientStatus ==
  /\ pc = "send"
  /\ IF attempt = 0
       THEN attempt' = 1 /\ UNCHANGED <<pc, status>>
       ELSE Exit(Failure) /\ UNCHANGED attempt
  /\ CountRequest
  /\ UNCHANGED <<config, chars, call, profile, overflow, outcome>>

\* Mutant of ContextOverflow: the large profile is tried without a size test.
OverflowUnchecked ==
  /\ pc = "send"
  /\ overflow' = overflow \cup {profile}
  /\ IF config.large = NoProfile \/ config.large = profile
       THEN Exit(Capacity) /\ UNCHANGED <<profile, attempt>>
     ELSE IF config.large.budget = Invalid
       THEN Exit(Failure) /\ UNCHANGED <<profile, attempt>>
     ELSE /\ profile' = config.large
          /\ attempt' = 0
          /\ UNCHANGED <<pc, status>>
  /\ CountRequest
  /\ UNCHANGED <<config, chars, call, outcome>>

\* Mutant of ContextOverflow: a rejection is a capacity failure at once.
OverflowGivesUp ==
  /\ pc = "send"
  /\ overflow' = overflow \cup {profile}
  /\ Exit(Capacity)
  /\ CountRequest
  /\ UNCHANGED <<config, chars, call, profile, attempt, outcome>>

\* HTTP 400 or 413.  The large profile has nothing larger to turn to; any
\* other profile turns to the large one if the estimate fits it.
ContextOverflow ==
  /\ pc = "send"
  /\ overflow' = overflow \cup {profile}
  /\ IF config.large # NoProfile /\ config.large.name = profile.name
       THEN Exit(Capacity) /\ UNCHANGED <<profile, attempt>>
     ELSE IF config.large = NoProfile
       THEN Exit(Capacity) /\ UNCHANGED <<profile, attempt>>
     ELSE IF config.large.budget = Invalid
       THEN Exit(Failure) /\ UNCHANGED <<profile, attempt>>
     ELSE IF LargeFits
       THEN /\ profile' = config.large
            /\ attempt' = 0
            /\ UNCHANGED <<pc, status>>
     ELSE Exit(Capacity) /\ UNCHANGED <<profile, attempt>>
  /\ CountRequest
  /\ UNCHANGED <<config, chars, call, outcome>>

-----------------------------------------------------------------------------
(* The workflow step *)

Finish(o) ==
  /\ outcome' = o
  /\ pc' = "done"

\* Mutant of EndFirstCall: every invalid response is retried.
RetryEveryTime ==
  /\ pc = "exited" /\ call = 1
  /\ \/ status = Capacity /\ Finish("capacity") /\ UNCHANGED call
     \/ status \notin {0, Capacity} /\ Finish("failed") /\ UNCHANGED call
     \/ status = 0 /\ Finish("response") /\ UNCHANGED call
     \/ status = 0 /\ pc' = "relaunch" /\ UNCHANGED <<call, outcome>>
  /\ UNCHANGED <<config, chars, profile, attempt, sent, overflow, status>>

\* Only the first call's exit code 3 sets the oversized output.
EndFirstCall ==
  /\ pc = "exited" /\ call = 1
  /\ \/ status = Capacity /\ Finish("capacity") /\ UNCHANGED call
     \/ status \notin {0, Capacity} /\ Finish("failed") /\ UNCHANGED call
     \/ status = 0 /\ Finish("response") /\ UNCHANGED call
     \/ status = 0 /\ pc' = "relaunch" /\ call' = 2 /\ UNCHANGED outcome
  /\ UNCHANGED <<config, chars, profile, attempt, sent, overflow, status>>

\* The first response failed validation: a second run with fresh counters.
Relaunch ==
  /\ pc = "relaunch"
  /\ pc' = "launch"
  /\ status' = 0
  /\ sent' = [p \in Profiles(config) |-> 0]
  /\ overflow' = {}
  /\ UNCHANGED <<config, chars, call, profile, attempt, outcome>>

\* The second call runs under set -e: every nonzero exit fails the step.
EndSecondCall ==
  /\ pc = "exited" /\ call = 2
  /\ Finish(IF status = 0 THEN "response" ELSE "failed")
  /\ UNCHANGED <<config, chars, call, profile, attempt, sent, overflow, status>>

AdapterStep ==
  \/ Launch \/ CheckInput \/ SelectProfile
  \/ AnswerOrError \/ TransientStatus \/ ContextOverflow

Next == AdapterStep \/ EndFirstCall \/ Relaunch \/ EndSecondCall

\* Every request and delay has a time limit.
Spec == Init /\ [][Next]_vars /\ WF_vars(Next)

-----------------------------------------------------------------------------
(* Properties *)

\* Types of the variables; a request always has a profile of the registry.
TypeOK ==
  /\ config \in Configs
  /\ chars \in Sizes
  /\ pc \in {"launch", "check", "select", "send", "exited", "relaunch", "done"}
  /\ call \in {1, 2}
  /\ profile \in Profiles(config) \cup {NoProfile}
  /\ pc = "send" => profile # NoProfile
  /\ attempt \in {0, 1}
  /\ sent \in [Profiles(config) -> Nat]
  /\ overflow \subseteq Profiles(config)
  /\ status \in {0, Failure, Rejected, Capacity}
  /\ outcome \in {"none", "response", "capacity", "failed"}

\* No request, not even the one after a context rejection, goes to a profile
\* whose input budget the estimate exceeds.
RequestsFit ==
  \A p \in Profiles(config) : sent[p] > 0 => Fits(p) /\ chars <= MaxInputChars

\* "The adapter retries a transient request at most once": no profile gets a
\* third request, whatever sequence of statuses the providers answer.
RequestBound == \A p \in Profiles(config) : sent[p] <= 2

\* "It sends one request to the smallest configured model whose input budget
\* holds the review": the large profile is used only if the active one cannot.
LargeOnlyWhenNeeded ==
  LET p == config.large IN
  p # NoProfile /\ p # config.active /\ sent[p] > 0
    => ~Fits(config.active) \/ config.active \in overflow

\* A capacity report means that no configured model can hold the input: it is
\* over the limit, over the budget, or rejected, for every profile.
CapacityIsReal ==
  outcome = "capacity" =>
    \/ chars > MaxInputChars
    \/ \A p \in Profiles(config) : ~Fits(p) \/ p \in overflow
=============================================================================
