----------------------------- MODULE ModelCalls -----------------------------
(***************************************************************************)
(* One process and its model provider: the request and its digest          *)
(* (agent/context_builder.py), the calls over the wire and what the        *)
(* adapters make of their outcomes (providers/llm), the attempts and the   *)
(* backoff between them (agent/runtime.py), the priced llm_calls rows      *)
(* (pricing.py, agent/repository.py), and what the owner is told (cli.py). *)
(*                                                                         *)
(* AgentRuntime models the same turn's transactions, crashes and sweeps,   *)
(* with an outcome of a call that is any member of the error taxonomy.     *)
(***************************************************************************)
EXTENDS Integers, Sequences

CONSTANTS
  MaxAttempts,  \* llm_max_attempts
  Base,         \* llm_retry_base_delay_s
  LlmModel,     \* the model each provider is asked for: llm_model
  Models,       \* models that answers may name
  Rates,        \* RATES: micros per Unit tokens, for some of the models
  Unit,         \* _TOKENS_PER_MTOK
  Usages,       \* token counts that answers report
  Unknown,      \* None, for a count that is not reported
  Statuses,     \* HTTP statuses of failed calls
  Delays,       \* seconds that a retry-after header may name
  NoHint,       \* no retry-after header
  Date,         \* one that holds an HTTP-date
  Replies,      \* texts of answers
  Empty,        \* the empty text
  Characters,   \* what messages consist of
  Histories,    \* what load_recent_messages may return
  MaxTurns      \* bound: turns of all processes

UsageRecords == LET Count == Nat \cup {Unknown}
                IN [input : Count, output : Count, cached : Count]

Providers == {"anthropic", "gemini", "fake"}

\* What a session prints for each kind of failure: render.
Reasons == [LLMTimeout           |-> "the model did not respond in time",
            LLMUnavailable       |-> "the model provider is unreachable",
            LLMRateLimited       |-> "the model provider is rate limiting us",
            LLMAuthError         |-> "the provider rejected our credentials",
            LLMMalformedResponse |-> "the provider returned a response we could not read",
            LLMInvalidRequest    |-> "we sent a request the provider rejected"]

Kinds == DOMAIN Reasons

\* What a session leaves on the screen that an exception has ended.
Traceback == "a traceback"

ASSUME ModelCallsAssumption ==
  /\ MaxAttempts \in Nat \ {0}
  /\ Base \in Nat
  /\ LlmModel \in [Providers -> Models]
  /\ DOMAIN Rates \subseteq Models
  /\ \A m \in DOMAIN Rates : Rates[m] \in [input : Nat, output : Nat]
  /\ Unit \in Nat \ {0}
  /\ Usages \subseteq UsageRecords /\ Unknown \notin Nat
  /\ Statuses \subseteq 400..599
  /\ Delays \subseteq Nat /\ NoHint \notin Delays /\ Date \notin Delays /\ NoHint # Date
  /\ Empty \notin Replies
  /\ \A text \in Replies \cup {Empty} :   \* a reason is printed as one
       text \notin {"nothing", "wait", Traceback} \cup {Reasons[k] : k \in Kinds}
  /\ Histories \subseteq Seq([role : {"user", "assistant"}, text : Seq(Characters)])
  /\ MaxTurns \in Nat

VARIABLES
  pc,        \* "off", "idle", "calling", "waiting"
  provider,  \* the adapter that build_llm_provider returned, or "none"
  attempt,   \* of the turn
  rows,      \* the turn's llm_calls rows, each with the outcome it records
  slept,     \* the turn's backoffs
  told,      \* what the turn has told the owner
  sent,      \* requests so far, with their digests
  turns

vars == <<pc, provider, attempt, rows, slept, told, sent, turns>>

-----------------------------------------------------------------------------
(* Requests.                                                               *)

\* Gemini's name for the assistant is "model"; the others keep ours.
Roles == [p \in Providers |->
            [r \in {"user", "assistant"} |->
               IF p = "gemini" /\ r = "assistant" THEN "model" ELSE r]]

\* The transcript as the provider gets it.  The instruction goes beside it, and
\* no SYSTEM row, temperature or empty history comes this far.
ToSdk(p, history) ==
  [i \in DOMAIN history |-> [role |-> Roles[p][history[i].role], text |-> history[i].text]]

\* "\x1e", which a text may hold like any other character.
Separator == "RS"

\* Mutant: the parts follow each other without a separator.
Glue_Nothing == <<>>

Glue == <<Separator>>

\* The payload that is hashed: a header and one part per message.  SHA-256 is
\* taken for collision-free, so the payload stands for the digest.
Payload(p, history) ==
  LET Part(m) == <<m.role, "=">> \o m.text
      joined[i \in 0..Len(history)] ==
        IF i = 0 THEN <<"model=", LlmModel[p]>> ELSE joined[i - 1] \o Glue \o Part(history[i])
  IN joined[Len(history)]

Prompt(p, history) ==
  [provider |-> p, prompt |-> ToSdk(p, history), digest |-> Payload(p, history)]

-----------------------------------------------------------------------------
(* The wire, and what the SDKs raise for it.                               *)

NoUsage == [input |-> Unknown, output |-> Unknown, cached |-> Unknown]

\* Of the headers only the retry-after of a 429 is ever read.
Troubles ==
  [kind : {"timeout", "lost"}]
    \cup [kind : {"status"}, status : Statuses \ {429}]
    \cup [kind : {"status"}, status : Statuses \cap {429}, hint : Delays \cup {NoHint, Date}]

Messages == [kind : {"message"}, text : Replies \cup {Empty}, usage : Usages, model : Models]

\* FakeLLM as the factory builds it: a fixed text of a model without a rate, and
\* a count of words.
Scripted == {w \in Messages :
               /\ w.text # Empty
               /\ w.model \notin DOMAIN Rates
               /\ w.usage.input # Unknown /\ w.usage.output # Unknown
               /\ w.usage.cached = 0}

Wire(p) == CASE p = "fake" -> Scripted
             [] p = "none" -> {}
             [] OTHER      -> Troubles \cup Messages

\* The classes an exception of the Anthropic SDK belongs to, APIError and
\* APIStatusError aside.
Named == {<<400, "BadRequestError">>, <<401, "AuthenticationError">>,
          <<403, "PermissionDeniedError">>, <<404, "NotFoundError">>,
          <<409, "ConflictError">>, <<413, "RequestTooLargeError">>,
          <<422, "UnprocessableEntityError">>, <<429, "RateLimitError">>,
          <<503, "ServiceUnavailableError">>, <<504, "DeadlineExceededError">>,
          <<529, "OverloadedError">>}

Raised(w) ==
  CASE w.kind = "timeout" -> {"APITimeoutError", "APIConnectionError"}
    [] w.kind = "lost"    -> {"APIConnectionError"}
    [] w.kind = "status"  -> {n[2] : n \in {m \in Named : m[1] = w.status}}
                               \cup {c \in {"InternalServerError"} : w.status >= 500}

-----------------------------------------------------------------------------
(* The adapters: SDK exceptions and answers to the taxonomy.               *)

Clause(on, kind) == [on |-> on, kind |-> kind]

\* Mutant: the broad clause is tried first.
AnthropicClauses_BroadFirst ==
  << Clause({"InternalServerError", "APIConnectionError"}, "LLMUnavailable"),
     Clause({"APITimeoutError", "DeadlineExceededError"}, "LLMTimeout"),
     Clause({"RateLimitError"}, "LLMRateLimited"),
     Clause({"AuthenticationError", "PermissionDeniedError"}, "LLMAuthError"),
     Clause({"BadRequestError", "NotFoundError", "UnprocessableEntityError",
             "RequestTooLargeError"}, "LLMInvalidRequest") >>

AnthropicClauses ==
  << Clause({"APITimeoutError", "DeadlineExceededError"}, "LLMTimeout"),
     Clause({"RateLimitError"}, "LLMRateLimited"),
     Clause({"AuthenticationError", "PermissionDeniedError"}, "LLMAuthError"),
     Clause({"InternalServerError", "OverloadedError", "ServiceUnavailableError",
             "APIConnectionError"}, "LLMUnavailable"),
     Clause({"BadRequestError", "NotFoundError", "UnprocessableEntityError",
             "RequestTooLargeError"}, "LLMInvalidRequest") >>

\* By the status alone.
GeminiClauses ==
  << Clause({429}, "LLMRateLimited"),
     Clause({401, 403}, "LLMAuthError"),
     Clause({408, 504}, "LLMTimeout"),
     Clause(500..599, "LLMUnavailable"),
     Clause(400..499, "LLMInvalidRequest") >>

\* The first clause that fits; an error nobody recognises is unavailability.
Caught(clauses, thrown) ==
  LET fits == {i \in DOMAIN clauses : clauses[i].on \cap thrown # {}}
  IN IF fits = {} THEN "LLMUnavailable"
     ELSE clauses[CHOOSE i \in fits : \A j \in fits : i <= j].kind

\* Mutant: an answer without text is an answer.
IsAnswer_Any(w) == w.kind = "message"

\* _from_sdk_message, _from_response: no text, or no candidate, is no answer.
IsAnswer(w) == w.kind = "message" /\ w.text # Empty

Escaped == "an exception of another kind"

\* What `complete` may raise.  google-genai's transport raises TimeoutError or
\* an exception of the HTTP library, which no clause catches.
Raises(p, w) ==
  CASE w.kind = "message" -> {"LLMMalformedResponse"}
    [] w.kind # "message" /\ p = "anthropic" -> {Caught(AnthropicClauses, Raised(w))}
    [] w.kind = "status"  /\ p = "gemini"    -> {Caught(GeminiClauses, {w.status})}
    [] w.kind = "timeout" /\ p = "gemini"    -> {"LLMTimeout", Escaped}
    [] w.kind = "lost"    /\ p = "gemini"    -> {Escaped}

\* Mutant: the hint is dropped.
RetryAfter_Dropped(p, w) == NoHint

\* _retry_after: a date is not read, and the Gemini adapter reads nothing.
RetryAfter(p, w) ==
  IF p = "anthropic" /\ w.kind = "status" /\ w.status = 429 /\ w.hint # Date
  THEN w.hint
  ELSE NoHint

-----------------------------------------------------------------------------
(* The price of an answer.                                                 *)

Known(n) == IF n = Unknown THEN 0 ELSE n

\* n / d, rounded as Python's round() does: a half goes to the even neighbour.
Rounded(n, d) ==
  LET q == n \div d
      r == 2 * (n % d)
  IN IF r < d \/ (r = d /\ q % 2 = 0) THEN q ELSE q + 1

Total(model, u) ==
  (Known(u.input) + Known(u.cached)) * Rates[model].input
    + Known(u.output) * Rates[model].output

Priced(model, u) == model \in DOMAIN Rates /\ (u.input # Unknown \/ u.output # Unknown)

\* Mutant: the remainder is cut off.
Cost_Truncated(model, u) == IF Priced(model, u) THEN Total(model, u) \div Unit ELSE 0

\* None is stored as 0.
Cost(model, u) == IF Priced(model, u) THEN Rounded(Total(model, u), Unit) ELSE 0

-----------------------------------------------------------------------------
(* The turn.                                                               *)

\* Mutant: a malformed response is tried again.
Retryable_Malformed == {"LLMTimeout", "LLMUnavailable", "LLMRateLimited", "LLMMalformedResponse"}

Retryable == {"LLMTimeout", "LLMUnavailable", "LLMRateLimited"}

Init ==
  /\ pc       = "off"
  /\ provider = "none"
  /\ attempt  = 1
  /\ rows     = <<>>
  /\ slept    = <<>>
  /\ told     = "nothing"
  /\ sent     = {}
  /\ turns    = 0

\* build_llm_provider: all but the fake one need their key.
Buildable(p, key) == key \/ p = "fake"

\* build_container, with the provider and the key of the settings.
Start(p, key) ==
  /\ pc = "off"
  /\ Buildable(p, key)
  /\ pc' = "idle"
  /\ provider' = p
  /\ told' = "nothing"
  /\ UNCHANGED <<attempt, rows, slept, sent, turns>>

\* handle_user_message up to the first call.
BeginTurn(history) ==
  /\ pc = "idle" /\ turns < MaxTurns
  /\ pc'      = "calling"
  /\ attempt' = 1
  /\ rows'    = <<>>
  /\ slept'   = <<>>
  /\ told'    = "wait"
  /\ sent'    = sent \cup {Prompt(provider, history)}
  /\ turns'   = turns + 1
  /\ UNCHANGED provider

\* The row of a call: _record_call and record_llm_call.
Row(w, ok, kind) ==
  [step     |-> attempt,
   ok       |-> ok,
   kind     |-> kind,
   model    |-> IF ok THEN w.model ELSE LlmModel[provider],
   usage    |-> IF ok THEN w.usage ELSE NoUsage,
   cost     |-> IF ok THEN Cost(w.model, w.usage) ELSE 0,
   wire     |-> w]

Answer(w) ==
  /\ pc = "calling"
  /\ IsAnswer(w)
  /\ rows' = Append(rows, Row(w, TRUE, "none"))
  /\ told' = w.text
  /\ pc'   = "idle"
  /\ UNCHANGED <<provider, attempt, slept, sent, turns>>

WillRetry(kind) == kind \in Retryable /\ attempt < MaxAttempts

Fail(w, kind) ==
  /\ pc = "calling"
  /\ ~IsAnswer(w)
  /\ kind \in Raises(provider, w) \ {Escaped}
  /\ rows' = Append(rows, Row(w, FALSE, kind))
  /\ IF WillRetry(kind)
     THEN pc' = "waiting" /\ UNCHANGED told
     ELSE pc' = "idle" /\ told' = Reasons[kind]
  /\ UNCHANGED <<provider, attempt, slept, sent, turns>>

\* _backoff_for: as long as the provider asks for, or exponentially longer.
Backoff(w) ==
  IF RetryAfter(provider, w) = NoHint THEN Base * 2^(attempt - 1) ELSE RetryAfter(provider, w)

Retry ==
  /\ pc = "waiting"
  /\ pc'      = "calling"
  /\ slept'   = Append(slept, Backoff(rows[Len(rows)].wire))
  /\ attempt' = attempt + 1
  /\ UNCHANGED <<provider, rows, told, sent, turns>>

\* The process ends; what it has sent is not forgotten.
Down(says) ==
  /\ pc'       = "off"
  /\ provider' = "none"
  /\ attempt'  = 1
  /\ rows'     = <<>>
  /\ slept'    = <<>>
  /\ told'     = says
  /\ UNCHANGED <<sent, turns>>

\* Nothing between `complete` and the prompt handles it: the session ends, with
\* no row of the call.
Escape(w) ==
  /\ pc = "calling"
  /\ ~IsAnswer(w)
  /\ Escaped \in Raises(provider, w)
  /\ Down(Traceback)

Stop == pc # "off" /\ Down("nothing")

Next ==
  \/ \E p \in Providers, key \in BOOLEAN : Start(p, key)
  \/ \E history \in Histories : BeginTurn(history)
  \/ \E w \in Wire(provider) : Answer(w)
  \/ \E w \in Wire(provider), kind \in Kinds : Fail(w, kind)
  \/ \E w \in Wire(provider) : Escape(w)
  \/ Retry
  \/ Stop

Spec == Init /\ [][Next]_vars

-----------------------------------------------------------------------------
(* Properties.                                                             *)

RowType == [step : 1..MaxAttempts, ok : BOOLEAN, kind : Kinds \cup {"none"},
            model : Models, usage : Usages \cup {NoUsage}, cost : Nat,
            wire : Troubles \cup Messages]

\* The values the variables range over.
TypeOK ==
  /\ pc \in {"off", "idle", "calling", "waiting"}
  /\ provider \in Providers \cup {"none"}
  /\ attempt \in 1..MaxAttempts
  /\ rows \in Seq(RowType)
  /\ slept \in Seq(Delays \cup {Base * 2^(n - 1) : n \in 1..MaxAttempts})
  /\ told \in Replies \cup {Reasons[k] : k \in Kinds}
                \cup {"nothing", "wait", Traceback}
  /\ sent \subseteq {Prompt(p, h) : p \in Providers, h \in Histories}
  /\ turns \in 0..MaxTurns

HasStatus(w, statuses) == w.kind = "status" /\ w.status \in statuses

\* What is transient by nature (ARCHITECTURE_v0.2.md:277, core/llm.py:157-173).
Transient(w) == w.kind \in {"timeout", "lost"} \/ HasStatus(w, {408, 429} \cup 500..599)

\* Statuses that no clause of the Anthropic adapter names: it takes them for an
\* outage (anthropic.py:213-215), the Gemini adapter for our mistake.
Unrecognised == 400..499 \ {400, 401, 403, 404, 408, 413, 422, 429}

\* The turn's calls as they were, not as the adapter saw them.
Nature(w) ==
  CASE w.kind = "message" /\ w.text # Empty -> "answer"
    [] Transient(w)                         -> "transient"
    [] HasStatus(w, Unrecognised)           -> IF provider = "gemini" THEN "permanent"
                                                                      ELSE "transient"
    [] OTHER                                -> "permanent"

Result == CASE told = "nothing"  -> "none"
            [] told = "wait"     -> "open"
            [] told = Traceback  -> "escaped"
            [] told \in Replies  -> "reply"
            [] OTHER             -> "failure"

Seen == [i \in DOMAIN rows |-> Nature(rows[i].wire)]

Promise == INSTANCE Attempts WITH
  leaky <- provider = "gemini", seen <- Seen, result <- Result

\* Of the calls that end in an answer or an error of the taxonomy, the turn
\* asks again exactly after those whose trouble is transient by nature, while
\* attempts are left, whichever adapter classified them, and records each.  A
\* call ends otherwise only in a session of the Gemini adapter: there an
\* exception of the HTTP library ends turn and session (see NothingEscapes).
ImplementsAttempts == Promise!Spec

\* "Run one model call, or raise an LLMError subclass" (core/llm.py:222-224):
\* no session ends in a traceback because a call failed.
NothingEscapes == told # Traceback

\* The kinds of trouble that an outcome truly is.
TrueKinds(w) ==
  { k \in Kinds :
      \/ k = "LLMTimeout"           /\ (w.kind = "timeout" \/ HasStatus(w, {408, 504}))
      \/ k = "LLMUnavailable"       /\ w.kind = "lost"
      \/ k = "LLMUnavailable"       /\ HasStatus(w, ({408} \cup Unrecognised \cup 500..599) \ {504})
      \/ k = "LLMRateLimited"       /\ HasStatus(w, {429})
      \/ k = "LLMAuthError"         /\ HasStatus(w, {401, 403})
      \/ k = "LLMInvalidRequest"    /\ HasStatus(w, 400..499 \ {401, 403, 408, 429})
      \/ k = "LLMMalformedResponse" /\ w.kind = "message" /\ w.text = Empty }

\* "An outage must never be dressed up" (cli.py:138-141): when a turn has ended the
\* owner reads the text of its last answer, or a reason that the last call's
\* failure truly had.
ToldTheTruth ==
  pc = "idle" /\ rows # <<>> =>
    LET w == rows[Len(rows)].wire
    IN \/ w.kind = "message" /\ told = w.text /\ told # Empty
       \/ told \in {Reasons[k] : k \in TrueKinds(w)}

\* "Retrying sooner than asked is how a rate limit becomes a longer rate limit"
\* (runtime.py:301-303): a readable retry-after of Anthropic's is a lower bound of
\* the pause after that attempt, and without one the pauses double.
NeverTooSoon ==
  \A i \in DOMAIN slept :
    LET w == rows[i].wire
    IN slept[i] >= IF provider = "anthropic" /\ HasStatus(w, {429}) /\ w.hint \in Delays
                   THEN w.hint
                   ELSE Base * 2^(i - 1)

\* "Consistent and roughly right" (pricing.py:9-11): a row's cost can be had again
\* from its own columns, to within half a micro; without a rate or a count it is
\* 0 and not a guess.
CostsAreFair ==
  \A i \in DOMAIN rows :
    LET r == rows[i]
        error == 2 * (r.cost * Unit - Total(r.model, r.usage))
    IN IF r.ok /\ Priced(r.model, r.usage) THEN -Unit <= error /\ error <= Unit
                                           ELSE r.cost = 0

\* The digest answers "was this input identical?" (context_builder.py:54-55):
\* of prompts to one provider, those and only those with equal digests are
\* equal, unless a text holds the separator.
Plain(s) == \A i \in DOMAIN s.prompt : \A j \in DOMAIN s.prompt[i].text :
              s.prompt[i].text[j] # Separator

DigestsIdentify ==
  \A s, t \in {x \in sent : Plain(x)} :
    s.provider = t.provider => (s.digest = t.digest <=> s.prompt = t.prompt)
=============================================================================
