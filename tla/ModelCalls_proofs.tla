------------------------- MODULE ModelCalls_proofs --------------------------
(***************************************************************************)
(* Theorems about ModelCalls for every number of attempts, set of statuses *)
(* between 400 and 599, hints, rates, counts, models and histories.        *)
(***************************************************************************)
EXTENDS ModelCalls, Induction_proofs, SequenceTheorems, TLAPS

-----------------------------------------------------------------------------
(* The taxonomy.                                                           *)

\* The first clause that fits is the one that decides.
LEMMA FirstDecides ==
  ASSUME NEW clauses, NEW thrown, DOMAIN clauses \subseteq Nat,
         NEW i \in DOMAIN clauses,
         clauses[i].on \cap thrown # {},
         \A j \in DOMAIN clauses : j < i => clauses[j].on \cap thrown = {}
  PROVE  Caught(clauses, thrown) = clauses[i].kind
<1> DEFINE fits == {j \in DOMAIN clauses : clauses[j].on \cap thrown # {}}
<1>1. i \in fits /\ \A j \in fits : i <= j
  OBVIOUS
<1>2. \A k \in fits : (\A j \in fits : k <= j) => k = i
  BY <1>1
<1>3. (CHOOSE k \in fits : \A j \in fits : k <= j) = i
  BY <1>1, <1>2
<1> QED
  BY <1>1, <1>3 DEF Caught

\* No clause fits: an error nobody recognises.
LEMMA NoneDecides ==
  ASSUME NEW clauses, NEW thrown,
         \A j \in DOMAIN clauses : clauses[j].on \cap thrown = {}
  PROVE  Caught(clauses, thrown) = "LLMUnavailable"
  BY DEF Caught

\* A clause on statuses fits a status it names.
LEMMA FitsStatus ==
  ASSUME NEW on, NEW thrown, NEW s, \A c : c \in thrown <=> c = s
  PROVE  on \cap thrown # {} <=> s \in on
  OBVIOUS

\* The clauses of the Gemini adapter, one by one.
LEMMA GeminiKinds ==
  ASSUME NEW s \in 400..599, NEW thrown, \A c : c \in thrown <=> c = s
  PROVE  /\ s = 429 => Caught(GeminiClauses, thrown) = "LLMRateLimited"
         /\ s \in {401, 403} => Caught(GeminiClauses, thrown) = "LLMAuthError"
         /\ s \in {408, 504} => Caught(GeminiClauses, thrown) = "LLMTimeout"
         /\ s \in 500..599 \ {504} => Caught(GeminiClauses, thrown) = "LLMUnavailable"
         /\ s \in 400..499 \ {401, 403, 408, 429}
              => Caught(GeminiClauses, thrown) = "LLMInvalidRequest"
<1>1. DOMAIN GeminiClauses = 1..5 /\ DOMAIN GeminiClauses \subseteq Nat
  BY DEF GeminiClauses, Clause
<1>2. /\ GeminiClauses[1] = Clause({429}, "LLMRateLimited")
      /\ GeminiClauses[2] = Clause({401, 403}, "LLMAuthError")
      /\ GeminiClauses[3] = Clause({408, 504}, "LLMTimeout")
      /\ GeminiClauses[4] = Clause(500..599, "LLMUnavailable")
      /\ GeminiClauses[5] = Clause(400..499, "LLMInvalidRequest")
  BY DEF GeminiClauses
<1>3. /\ GeminiClauses[1].on \cap thrown # {} <=> s = 429
      /\ GeminiClauses[2].on \cap thrown # {} <=> s \in {401, 403}
      /\ GeminiClauses[3].on \cap thrown # {} <=> s \in {408, 504}
      /\ GeminiClauses[4].on \cap thrown # {} <=> s \in 500..599
      /\ GeminiClauses[5].on \cap thrown # {} <=> s \in 400..499
  <2>2. /\ GeminiClauses[1].on = {429}
        /\ GeminiClauses[2].on = {401, 403}
        /\ GeminiClauses[3].on = {408, 504}
        /\ GeminiClauses[4].on = 500..599
        /\ GeminiClauses[5].on = 400..499
    BY <1>2 DEF Clause
  <2>3. \A on : on \cap thrown # {} <=> s \in on
    BY FitsStatus
  <2>4. \A a, b : (s \in {a} <=> s = a) /\ (s \in {a, b} <=> s = a \/ s = b)
    OBVIOUS
  <2> QED
    BY <2>2, <2>3, <2>4
<1>4. CASE s = 429
  <2>1. Caught(GeminiClauses, thrown) = GeminiClauses[1].kind
    BY <1>1, <1>3, <1>4, FirstDecides
  <2> QED
    BY <1>2, <1>4, <2>1 DEF Clause
<1>5. CASE s \in {401, 403}
  <2>1. Caught(GeminiClauses, thrown) = GeminiClauses[2].kind
    BY <1>1, <1>3, <1>5, FirstDecides
  <2> QED
    BY <1>2, <1>5, <2>1 DEF Clause
<1>6. CASE s \in {408, 504}
  <2>1. Caught(GeminiClauses, thrown) = GeminiClauses[3].kind
    BY <1>1, <1>3, <1>6, FirstDecides
  <2> QED
    BY <1>2, <1>6, <2>1 DEF Clause
<1>7. CASE s \in 500..599 \ {504}
  <2>1. Caught(GeminiClauses, thrown) = GeminiClauses[4].kind
    BY <1>1, <1>3, <1>7, FirstDecides
  <2> QED
    BY <1>2, <1>7, <2>1 DEF Clause
<1>8. CASE s \in 400..499 \ {401, 403, 408, 429}
  <2>1. Caught(GeminiClauses, thrown) = GeminiClauses[5].kind
    BY <1>1, <1>3, <1>8, FirstDecides
  <2> QED
    BY <1>2, <1>8, <2>1 DEF Clause
<1> QED
  BY <1>4, <1>5, <1>6, <1>7, <1>8

\* The classes the Anthropic SDK raises for a status.
LEMMA RaisedFor ==
  ASSUME NEW w, w.kind = "status", w.status \in 400..599, NEW c
  PROVE  c \in Raised(w) <=>
           \/ c = "InternalServerError" /\ w.status >= 500
           \/ c = "BadRequestError" /\ w.status = 400
           \/ c = "AuthenticationError" /\ w.status = 401
           \/ c = "PermissionDeniedError" /\ w.status = 403
           \/ c = "NotFoundError" /\ w.status = 404
           \/ c = "ConflictError" /\ w.status = 409
           \/ c = "RequestTooLargeError" /\ w.status = 413
           \/ c = "UnprocessableEntityError" /\ w.status = 422
           \/ c = "RateLimitError" /\ w.status = 429
           \/ c = "ServiceUnavailableError" /\ w.status = 503
           \/ c = "DeadlineExceededError" /\ w.status = 504
           \/ c = "OverloadedError" /\ w.status = 529
<1>1. Raised(w) = {n[2] : n \in {m \in Named : m[1] = w.status}}
                    \cup {d \in {"InternalServerError"} : w.status >= 500}
  BY DEF Raised
<1>2. c \in {n[2] : n \in {m \in Named : m[1] = w.status}} <=>
        \E m \in Named : m[1] = w.status /\ m[2] = c
  OBVIOUS
<1> QED
  BY <1>1, <1>2 DEF Named

\* The clauses of the Anthropic adapter, one by one.
LEMMA AnthropicKinds ==
  ASSUME NEW w, w.kind = "status", w.status \in 400..599
  PROVE  LET k == Caught(AnthropicClauses, Raised(w))
             s == w.status
         IN /\ s = 504 => k = "LLMTimeout"
            /\ s = 429 => k = "LLMRateLimited"
            /\ s \in {401, 403} => k = "LLMAuthError"
            /\ s \in 500..599 \ {504} => k = "LLMUnavailable"
            /\ s \in {400, 404, 413, 422} => k = "LLMInvalidRequest"
            /\ s \in 400..499 \ {400, 401, 403, 404, 413, 422, 429} => k = "LLMUnavailable"
<1> DEFINE s == w.status
           clauses == AnthropicClauses
<1>1. DOMAIN clauses = 1..5 /\ DOMAIN clauses \subseteq Nat
  BY DEF AnthropicClauses, Clause
<1>2. /\ clauses[1] = Clause({"APITimeoutError", "DeadlineExceededError"}, "LLMTimeout")
      /\ clauses[2] = Clause({"RateLimitError"}, "LLMRateLimited")
      /\ clauses[3] = Clause({"AuthenticationError", "PermissionDeniedError"}, "LLMAuthError")
      /\ clauses[4] = Clause({"InternalServerError", "OverloadedError",
                              "ServiceUnavailableError", "APIConnectionError"},
                             "LLMUnavailable")
      /\ clauses[5] = Clause({"BadRequestError", "NotFoundError", "UnprocessableEntityError",
                              "RequestTooLargeError"}, "LLMInvalidRequest")
  BY DEF AnthropicClauses
<1>3. /\ clauses[1].on \cap Raised(w) # {} <=> s = 504
      /\ clauses[2].on \cap Raised(w) # {} <=> s = 429
      /\ clauses[3].on \cap Raised(w) # {} <=> s \in {401, 403}
      /\ clauses[4].on \cap Raised(w) # {} <=> s >= 500
      /\ clauses[5].on \cap Raised(w) # {} <=> s \in {400, 404, 413, 422}
  <2>1. \A on : on \cap Raised(w) # {} <=> \E c \in on : c \in Raised(w)
    OBVIOUS
  <2>2. /\ clauses[1].on = {"APITimeoutError", "DeadlineExceededError"}
        /\ clauses[2].on = {"RateLimitError"}
        /\ clauses[3].on = {"AuthenticationError", "PermissionDeniedError"}
        /\ clauses[4].on = {"InternalServerError", "OverloadedError",
                            "ServiceUnavailableError", "APIConnectionError"}
        /\ clauses[5].on = {"BadRequestError", "NotFoundError", "UnprocessableEntityError",
                            "RequestTooLargeError"}
    BY <1>2 DEF Clause
  <2> HIDE DEF s, clauses
  <2>3. s = w.status /\ s \in 400..599
    BY DEF s
  <2>4. clauses[1].on \cap Raised(w) # {} <=> s = 504
    BY <2>1, <2>2, <2>3, RaisedFor
  <2>5. clauses[2].on \cap Raised(w) # {} <=> s = 429
    BY <2>1, <2>2, <2>3, RaisedFor
  <2>6. clauses[3].on \cap Raised(w) # {} <=> s \in {401, 403}
    BY <2>1, <2>2, <2>3, RaisedFor
  <2>7. clauses[4].on \cap Raised(w) # {} <=> s >= 500
    BY <2>1, <2>2, <2>3, RaisedFor
  <2>8. clauses[5].on \cap Raised(w) # {} <=> s \in {400, 404, 413, 422}
    BY <2>1, <2>2, <2>3, RaisedFor
  <2> QED
    BY <2>4, <2>5, <2>6, <2>7, <2>8
<1> HIDE DEF clauses
<1>4. CASE s = 504
  <2>1. Caught(clauses, Raised(w)) = clauses[1].kind
    BY <1>1, <1>3, <1>4, FirstDecides
  <2> QED
    BY <1>2, <1>4, <2>1 DEF Clause, clauses
<1>5. CASE s = 429
  <2>1. Caught(clauses, Raised(w)) = clauses[2].kind
    BY <1>1, <1>3, <1>5, FirstDecides
  <2> QED
    BY <1>2, <1>5, <2>1 DEF Clause, clauses
<1>6. CASE s \in {401, 403}
  <2>1. Caught(clauses, Raised(w)) = clauses[3].kind
    BY <1>1, <1>3, <1>6, FirstDecides
  <2> QED
    BY <1>2, <1>6, <2>1 DEF Clause, clauses
<1>7. CASE s \in 500..599 \ {504}
  <2>1. Caught(clauses, Raised(w)) = clauses[4].kind
    BY <1>1, <1>3, <1>7, FirstDecides
  <2> QED
    BY <1>2, <1>7, <2>1 DEF Clause, clauses
<1>8. CASE s \in {400, 404, 413, 422}
  <2>1. Caught(clauses, Raised(w)) = clauses[5].kind
    BY <1>1, <1>3, <1>8, FirstDecides
  <2> QED
    BY <1>2, <1>8, <2>1 DEF Clause, clauses
<1>9. CASE s \in 400..499 \ {400, 401, 403, 404, 413, 422, 429}
  <2>1. Caught(clauses, Raised(w)) = "LLMUnavailable"
    BY <1>1, <1>3, <1>9, NoneDecides
  <2> QED
    BY <1>9, <2>1 DEF clauses
<1> QED
  BY <1>4, <1>5, <1>6, <1>7, <1>8, <1>9 DEF clauses

\* A timeout and a lost connection, by class.
LEMMA AnthropicTransport ==
  ASSUME NEW w
  PROVE  /\ w.kind = "timeout" => Caught(AnthropicClauses, Raised(w)) = "LLMTimeout"
         /\ w.kind = "lost" => Caught(AnthropicClauses, Raised(w)) = "LLMUnavailable"
<1>1. DOMAIN AnthropicClauses = 1..5 /\ DOMAIN AnthropicClauses \subseteq Nat
  BY DEF AnthropicClauses, Clause
<1>2. /\ AnthropicClauses[1] =
           Clause({"APITimeoutError", "DeadlineExceededError"}, "LLMTimeout")
      /\ AnthropicClauses[2] = Clause({"RateLimitError"}, "LLMRateLimited")
      /\ AnthropicClauses[3] =
           Clause({"AuthenticationError", "PermissionDeniedError"}, "LLMAuthError")
      /\ AnthropicClauses[4] =
           Clause({"InternalServerError", "OverloadedError", "ServiceUnavailableError",
                   "APIConnectionError"}, "LLMUnavailable")
  BY DEF AnthropicClauses
<1>3. ASSUME w.kind = "timeout"
      PROVE  Caught(AnthropicClauses, Raised(w)) = "LLMTimeout"
  <2>1. Raised(w) = {"APITimeoutError", "APIConnectionError"}
    BY <1>3 DEF Raised
  <2>2. AnthropicClauses[1].on \cap Raised(w) # {}
    BY <1>2, <2>1 DEF Clause
  <2>3. Caught(AnthropicClauses, Raised(w)) = AnthropicClauses[1].kind
    BY <1>1, <2>2, FirstDecides
  <2> QED
    BY <1>2, <2>3 DEF Clause
<1>4. ASSUME w.kind = "lost"
      PROVE  Caught(AnthropicClauses, Raised(w)) = "LLMUnavailable"
  <2>1. Raised(w) = {"APIConnectionError"}
    BY <1>4 DEF Raised
  <2>2. /\ AnthropicClauses[1].on \cap Raised(w) = {}
        /\ AnthropicClauses[2].on \cap Raised(w) = {}
        /\ AnthropicClauses[3].on \cap Raised(w) = {}
        /\ AnthropicClauses[4].on \cap Raised(w) # {}
    BY <1>2, <2>1 DEF Clause
  <2>3. Caught(AnthropicClauses, Raised(w)) = AnthropicClauses[4].kind
    BY <1>1, <2>2, FirstDecides
  <2> QED
    BY <1>2, <2>3 DEF Clause
<1> QED
  BY <1>3, <1>4

\* A failed call has a status in range, or none.
LEMMA TroubleKinds ==
  ASSUME NEW w \in Troubles
  PROVE  /\ w.kind \in {"timeout", "lost", "status"}
         /\ w.kind = "status" => w.status \in Statuses /\ w.status \in 400..599
         /\ w.kind = "status" /\ w.status = 429 => w.hint \in Delays \cup {NoHint, Date}
<1>1. \/ w \in [kind : {"timeout", "lost"}]
      \/ w \in [kind : {"status"}, status : Statuses \ {429}]
      \/ w \in [kind : {"status"}, status : Statuses \cap {429},
                hint : Delays \cup {NoHint, Date}]
  BY DEF Troubles
<1>2. Statuses \subseteq 400..599
  BY ModelCallsAssumption
<1> QED
  BY <1>1, <1>2

\* Whatever the adapters raise is what truly happened, and it is retried if and
\* only if it is transient.
LEMMA Classified ==
  ASSUME provider \in {"anthropic", "gemini"}, NEW w \in Troubles \cup Messages, ~IsAnswer(w),
         NEW kind \in Raises(provider, w), kind # Escaped
  PROVE  /\ kind \in Kinds
         /\ kind \in TrueKinds(w)
         /\ kind \in Retryable <=> Nature(w) = "transient"
         /\ kind \notin Retryable <=> Nature(w) = "permanent"
<1>1. Kinds = {"LLMTimeout", "LLMUnavailable", "LLMRateLimited", "LLMAuthError",
               "LLMMalformedResponse", "LLMInvalidRequest"}
  BY DEF Kinds, Reasons
<1>2. CASE w \in Messages
  <2>1. w.kind = "message" /\ w.text = Empty
    BY <1>2 DEF IsAnswer, Messages
  <2>2. kind = "LLMMalformedResponse"
    BY <2>1 DEF Raises
  <2>3. Nature(w) = "permanent"
    BY <2>1 DEF Nature, Transient, HasStatus
  <2> QED
    BY <1>1, <2>1, <2>2, <2>3 DEF TrueKinds, Retryable
<1>3. CASE w \in Troubles /\ w.kind = "timeout"
  <2>1. kind = "LLMTimeout"
    BY <1>3, AnthropicTransport DEF Raises
  <2>2. Nature(w) = "transient"
    BY <1>3 DEF Nature, Transient, HasStatus
  <2> QED
    BY <1>1, <1>3, <2>1, <2>2 DEF TrueKinds, Retryable
<1>4. CASE w \in Troubles /\ w.kind = "lost"
  <2>1. kind = "LLMUnavailable"
    BY <1>4, AnthropicTransport DEF Raises
  <2>2. Nature(w) = "transient"
    BY <1>4 DEF Nature, Transient, HasStatus
  <2> QED
    BY <1>1, <1>4, <2>1, <2>2 DEF TrueKinds, Retryable
<1>5. CASE w \in Troubles /\ w.kind = "status" /\ provider = "anthropic"
  <2>1. w.status \in 400..599
    BY <1>5, TroubleKinds
  <2>2. kind = Caught(AnthropicClauses, Raised(w))
    BY <1>5 DEF Raises
  <2>3. /\ w.status = 504 => kind = "LLMTimeout"
        /\ w.status = 429 => kind = "LLMRateLimited"
        /\ w.status \in {401, 403} => kind = "LLMAuthError"
        /\ w.status \in 500..599 \ {504} => kind = "LLMUnavailable"
        /\ w.status \in {400, 404, 413, 422} => kind = "LLMInvalidRequest"
        /\ w.status \in 400..499 \ {400, 401, 403, 404, 413, 422, 429}
             => kind = "LLMUnavailable"
    BY <1>5, <2>1, <2>2, AnthropicKinds
  <2>4. /\ Transient(w) <=> w.status \in {408, 429} \cup 500..599
        /\ Nature(w) = IF w.status \in {400, 401, 403, 404, 413, 422}
                       THEN "permanent" ELSE "transient"
    BY <1>5, <2>1 DEF Nature, Transient, HasStatus, Unrecognised
  <2>5. kind \in TrueKinds(w)
    BY <1>1, <1>5, <2>1, <2>3 DEF TrueKinds, HasStatus, Unrecognised
  <2> QED
    BY <1>1, <2>1, <2>3, <2>4, <2>5 DEF Retryable
<1>6. CASE w \in Troubles /\ w.kind = "status" /\ provider = "gemini"
  <2>1. w.status \in 400..599
    BY <1>6, TroubleKinds
  <2> DEFINE s == w.status
             thrown == {w.status}
  <2>2. kind = Caught(GeminiClauses, thrown) /\ \A c : c \in thrown <=> c = s
    BY <1>6 DEF Raises
  <2>3. /\ w.status = 429 => kind = "LLMRateLimited"
        /\ w.status \in {401, 403} => kind = "LLMAuthError"
        /\ w.status \in {408, 504} => kind = "LLMTimeout"
        /\ w.status \in 500..599 \ {504} => kind = "LLMUnavailable"
        /\ w.status \in 400..499 \ {401, 403, 408, 429} => kind = "LLMInvalidRequest"
    <3> HIDE DEF thrown
    <3> QED
      BY <2>1, <2>2, GeminiKinds
  <2>4. /\ Transient(w) <=> w.status \in {408, 429} \cup 500..599
        /\ Nature(w) = IF w.status \in {408, 429} \cup 500..599
                       THEN "transient" ELSE "permanent"
    BY <1>6, <2>1 DEF Nature, Transient, HasStatus, Unrecognised
  <2>5. kind \in TrueKinds(w)
    BY <1>1, <1>6, <2>1, <2>3 DEF TrueKinds, HasStatus, Unrecognised
  <2> QED
    BY <1>1, <2>1, <2>3, <2>4, <2>5 DEF Retryable
<1> QED
  BY <1>2, <1>3, <1>4, <1>5, <1>6, TroubleKinds

-----------------------------------------------------------------------------
(* Prices.                                                                 *)

\* Division with remainder.
LEMMA Division ==
  ASSUME NEW n \in Nat, NEW d \in Nat \ {0}
  PROVE  /\ n \div d \in Nat
         /\ n % d \in 0..(d - 1)
         /\ n = d * (n \div d) + (n % d)
  OBVIOUS

\* What is rounded is at most half a unit away, and not below 0.
LEMMA RoundedIsNear ==
  ASSUME NEW n \in Nat, NEW d \in Nat \ {0}
  PROVE  /\ Rounded(n, d) \in Nat
         /\ -d <= 2 * (Rounded(n, d) * d - n)
         /\ 2 * (Rounded(n, d) * d - n) <= d
<1> DEFINE q == n \div d
           r == n % d
           qd == q * d
<1>1. q \in Nat /\ r \in 0..(d - 1) /\ qd \in Int /\ n = qd + r
  <2>1. q \in Nat /\ r \in 0..(d - 1) /\ n = d * q + r
    BY Division
  <2>2. d * q = qd
    BY <2>1
  <2> QED
    BY <2>1, <2>2
<1>2. (q + 1) * d = qd + d
  BY <1>1
<1>3. \/ Rounded(n, d) = q /\ 2 * r <= d
      \/ Rounded(n, d) = q + 1 /\ 2 * r >= d
  BY <1>1 DEF Rounded
<1> HIDE DEF q, r, qd
<1>4. CASE Rounded(n, d) = q /\ 2 * r <= d
  BY <1>1, <1>4 DEF qd
<1>5. CASE Rounded(n, d) = q + 1 /\ 2 * r >= d
  <2>1. Rounded(n, d) * d = qd + d
    BY <1>2, <1>5
  <2> QED
    BY <1>1, <1>5, <2>1
<1> QED
  BY <1>3, <1>4, <1>5

\* The exact price of known counts is a number of micros times Unit.
LEMMA TotalType ==
  ASSUME NEW model, NEW u \in UsageRecords, Priced(model, u)
  PROVE  Total(model, u) \in Nat
<1>1. /\ Known(u.input) \in Nat
      /\ Known(u.cached) \in Nat
      /\ Known(u.output) \in Nat
  BY DEF Known, UsageRecords
<1>2. Rates[model].input \in Nat /\ Rates[model].output \in Nat
  BY ModelCallsAssumption DEF Priced
<1>3. \A a, b \in Nat : a * b \in Nat /\ a + b \in Nat
  OBVIOUS
<1> QED
  BY <1>1, <1>2, <1>3 DEF Total

\* The cost of any usage of any model.
LEMMA CostIsNear ==
  ASSUME NEW model, NEW u \in UsageRecords
  PROVE  /\ Cost(model, u) \in Nat
         /\ IF Priced(model, u)
            THEN /\ -Unit <= 2 * (Cost(model, u) * Unit - Total(model, u))
                 /\ 2 * (Cost(model, u) * Unit - Total(model, u)) <= Unit
            ELSE Cost(model, u) = 0
<1>1. CASE Priced(model, u)
  <2>1. Total(model, u) \in Nat /\ Unit \in Nat \ {0}
    BY <1>1, TotalType, ModelCallsAssumption
  <2>2. Cost(model, u) = Rounded(Total(model, u), Unit)
    BY <1>1 DEF Cost
  <2> QED
    BY <1>1, <2>1, <2>2, RoundedIsNear
<1>2. CASE ~Priced(model, u)
  BY <1>2 DEF Cost
<1> QED
  BY <1>1, <1>2

-----------------------------------------------------------------------------
(* The inductive invariant.                                                *)

\* Where a turn stands: how many calls it has recorded and how often it has
\* slept, by control state.
Control ==
  /\ pc = "off" <=> provider = "none"
  /\ pc = "off" => rows = <<>> /\ slept = <<>> /\ told \in {"nothing", Traceback}
  /\ pc = "calling" =>
       told = "wait" /\ Len(rows) = attempt - 1 /\ Len(slept) = attempt - 1
  /\ pc = "waiting" =>
       /\ told = "wait" /\ attempt < MaxAttempts
       /\ Len(rows) = attempt /\ Len(slept) = attempt - 1
  /\ pc = "idle" =>
       \/ rows = <<>> /\ slept = <<>> /\ told = "nothing"
       \/ Len(slept) = Len(rows) - 1 /\ told \in Replies \cup {Reasons[k] : k \in Kinds}

ModelCallsInv == TypeOK /\ Control /\ ToldTheTruth /\ NeverTooSoon /\ CostsAreFair

\* Outcomes are troubles or messages.
LEMMA WireType ==
  ASSUME NEW p, NEW w \in Wire(p)
  PROVE  /\ w \in Troubles \cup Messages
         /\ p = "fake" => IsAnswer(w)
         /\ p # "none"
<1>1. CASE p = "fake"
  BY <1>1 DEF Wire, Scripted, IsAnswer, Messages
<1>2. CASE p = "none"
  BY <1>2 DEF Wire
<1>3. CASE p # "fake" /\ p # "none"
  BY <1>3 DEF Wire
<1> QED
  BY <1>1, <1>2, <1>3

\* A message is of the declared texts, counts and models.
LEMMA MessageType ==
  ASSUME NEW w \in Troubles \cup Messages, w.kind = "message"
  PROVE  /\ w.text \in Replies \cup {Empty}
         /\ w.usage \in Usages /\ w.usage \in UsageRecords
         /\ w.model \in Models
<1>1. w \in Messages
  BY TroubleKinds
<1> QED
  BY <1>1, ModelCallsAssumption DEF Messages

\* A row is of its type, and its cost is fair.
LEMMA AnswerRow ==
  ASSUME TypeOK, NEW w \in Troubles \cup Messages, IsAnswer(w)
  PROVE  LET r == Row(w, TRUE, "none")
         IN /\ r \in RowType
            /\ r.wire = w
            /\ IF Priced(r.model, r.usage)
               THEN /\ -Unit <= 2 * (r.cost * Unit - Total(r.model, r.usage))
                    /\ 2 * (r.cost * Unit - Total(r.model, r.usage)) <= Unit
               ELSE r.cost = 0
<1>1. /\ w.usage \in Usages /\ w.usage \in UsageRecords
      /\ w.model \in Models
  BY MessageType DEF IsAnswer
<1>2. Cost(w.model, w.usage) \in Nat
  BY <1>1, CostIsNear
<1>3. attempt \in 1..MaxAttempts
  BY DEF TypeOK
<1> DEFINE r == Row(w, TRUE, "none")
<1>4. /\ r = [step |-> attempt, ok |-> TRUE, kind |-> "none", model |-> w.model,
              usage |-> w.usage, cost |-> Cost(w.model, w.usage), wire |-> w]
  BY DEF Row
<1> HIDE DEF r
<1>5. /\ TRUE \in BOOLEAN /\ "none" \in Kinds \cup {"none"}
      /\ w.usage \in Usages \cup {NoUsage}
  BY <1>1
<1>6. /\ r.model = w.model /\ r.usage = w.usage /\ r.cost = Cost(w.model, w.usage)
      /\ r.wire = w /\ r \in RowType
  <2> DEFINE m == w.model
             u == w.usage
             c == Cost(w.model, w.usage)
  <2>1. /\ m \in Models /\ u \in Usages \cup {NoUsage} /\ c \in Nat
        /\ r = [step |-> attempt, ok |-> TRUE, kind |-> "none", model |-> m,
                usage |-> u, cost |-> c, wire |-> w]
    BY <1>1, <1>2, <1>4
  <2> HIDE DEF m, u, c
  <2>2. r.model = m /\ r.usage = u /\ r.cost = c /\ r.wire = w /\ r \in RowType
    BY <1>3, <1>5, <2>1 DEF RowType
  <2> QED
    BY <2>2 DEF m, u, c
<1>7. IF Priced(r.model, r.usage)
      THEN /\ -Unit <= 2 * (r.cost * Unit - Total(r.model, r.usage))
           /\ 2 * (r.cost * Unit - Total(r.model, r.usage)) <= Unit
      ELSE r.cost = 0
  BY <1>1, <1>6, CostIsNear
<1> QED
  BY <1>6, <1>7 DEF r

\* The row _record_call writes for an error has no cost and the error's kind.
LEMMA FailureRow ==
  ASSUME TypeOK, provider \in Providers, NEW w \in Troubles \cup Messages, NEW kind \in Kinds
  PROVE  LET r == Row(w, FALSE, kind)
         IN r \in RowType /\ r.wire = w /\ r.cost = 0 /\ r.ok = FALSE
<1>1. LlmModel[provider] \in Models
  BY ModelCallsAssumption
<1>2. attempt \in 1..MaxAttempts
  BY DEF TypeOK
<1> DEFINE r == Row(w, FALSE, kind)
<1>3. r = [step |-> attempt, ok |-> FALSE, kind |-> kind, model |-> LlmModel[provider],
           usage |-> NoUsage, cost |-> 0, wire |-> w]
  BY DEF Row
<1> HIDE DEF r
<1>4. /\ 0 \in Nat /\ FALSE \in BOOLEAN
      /\ kind \in Kinds \cup {"none"} /\ NoUsage \in Usages \cup {NoUsage}
  OBVIOUS
<1>5. r \in RowType /\ r.wire = w /\ r.cost = 0 /\ r.ok = FALSE
  <2> DEFINE m == LlmModel[provider]
  <2>1. m \in Models /\ r = [step |-> attempt, ok |-> FALSE, kind |-> kind, model |-> m,
                             usage |-> NoUsage, cost |-> 0, wire |-> w]
    BY <1>1, <1>3
  <2> HIDE DEF m
  <2> QED
    BY <1>2, <1>4, <2>1 DEF RowType
<1> QED
  BY <1>5 DEF r

\* The pause after an attempt is at least what was asked for, or the power of
\* two that is due.
LEMMA BackoffIsDue ==
  ASSUME TypeOK, NEW w \in Troubles \cup Messages
  PROVE  /\ Backoff(w) \in Delays \cup {Base * 2^(n - 1) : n \in 1..MaxAttempts}
         /\ Backoff(w) >= IF provider = "anthropic" /\ HasStatus(w, {429}) /\ w.hint \in Delays
                          THEN w.hint
                          ELSE Base * 2^(attempt - 1)
<1>1. attempt \in 1..MaxAttempts /\ Base \in Nat /\ MaxAttempts \in Nat
  BY ModelCallsAssumption DEF TypeOK
<1>2. /\ Delays \subseteq Nat /\ NoHint \notin Delays /\ Date \notin Delays /\ NoHint # Date
  BY ModelCallsAssumption
<1>3. w.kind = "status" /\ w.status = 429 => w.hint \in Delays \cup {NoHint, Date}
  <2>1. w.kind = "status" => w \in Troubles
    BY DEF Messages
  <2> QED
    BY <2>1, TroubleKinds
<1> DEFINE due == Base * 2^(attempt - 1)
<1>4. due \in Int /\ due \in {Base * 2^(n - 1) : n \in 1..MaxAttempts}
  BY <1>1
<1>5. CASE provider = "anthropic" /\ HasStatus(w, {429}) /\ w.hint \in Delays
  <2>1. Backoff(w) = w.hint
    BY <1>2, <1>5 DEF Backoff, RetryAfter, HasStatus
  <2>2. \A h \in Delays : h >= h
    BY <1>2
  <2> HIDE DEF due
  <2> QED
    BY <1>5, <2>1, <2>2, Zenon
<1>6. CASE ~(provider = "anthropic" /\ HasStatus(w, {429}) /\ w.hint \in Delays)
  <2>1. Backoff(w) = due
    BY <1>2, <1>3, <1>6 DEF Backoff, RetryAfter, HasStatus
  <2> HIDE DEF due
  <2>2. Backoff(w) >= due
    BY <1>4, <2>1
  <2> QED
    BY <1>4, <1>6, <2>1, <2>2 DEF due
<1> QED
  BY <1>5, <1>6

\* What appending to a sequence leaves as it was.
LEMMA Appending ==
  ASSUME NEW S, NEW s \in Seq(S), NEW e \in S
  PROVE  /\ Append(s, e) \in Seq(S)
         /\ Len(Append(s, e)) = Len(s) + 1 /\ Len(s) \in Nat
         /\ DOMAIN Append(s, e) = 1..(Len(s) + 1) /\ DOMAIN s = 1..Len(s)
         /\ Append(s, e)[Len(s) + 1] = e
         /\ \A i \in DOMAIN s : Append(s, e)[i] = s[i]
         /\ Append(s, e) # <<>>
         /\ Append(s, e)[Len(Append(s, e))] = e
  OBVIOUS

\* A reason is none of the other things a session says.
LEMMA Saying ==
  /\ Traceback \notin {"nothing", "wait"}
  /\ \A k \in Kinds : Reasons[k] \notin Replies \cup {Empty, "nothing", "wait", Traceback}
  /\ \A text \in Replies \cup {Empty} :
       text \notin {"nothing", "wait", Traceback} \cup {Reasons[k] : k \in Kinds}
<1>1. \A k \in Kinds : Reasons[k] \notin {"nothing", "wait", Traceback}
  <2>1. /\ Reasons["LLMTimeout"] \notin {"nothing", "wait", Traceback}
        /\ Reasons["LLMUnavailable"] \notin {"nothing", "wait", Traceback}
        /\ Reasons["LLMRateLimited"] \notin {"nothing", "wait", Traceback}
        /\ Reasons["LLMAuthError"] \notin {"nothing", "wait", Traceback}
        /\ Reasons["LLMMalformedResponse"] \notin {"nothing", "wait", Traceback}
        /\ Reasons["LLMInvalidRequest"] \notin {"nothing", "wait", Traceback}
    BY DEF Reasons, Traceback
  <2>2. Kinds = {"LLMTimeout", "LLMUnavailable", "LLMRateLimited", "LLMAuthError",
                 "LLMMalformedResponse", "LLMInvalidRequest"}
    BY DEF Kinds, Reasons
  <2> QED
    BY <2>1, <2>2
<1>2. \A text \in Replies \cup {Empty} :
        text \notin {"nothing", "wait", Traceback} \cup {Reasons[k] : k \in Kinds}
  BY ModelCallsAssumption
<1> QED
  BY <1>1, <1>2 DEF Traceback

\* Before the first request nothing is recorded or told.
LEMMA InitInv == Init => ModelCallsInv
<1> SUFFICES ASSUME Init PROVE ModelCallsInv
  OBVIOUS
<1>1. /\ rows = <<>> /\ slept = <<>> /\ DOMAIN rows = {} /\ DOMAIN slept = {}
      /\ \A S : <<>> \in Seq(S)
  BY DEF Init
<1>2. TypeOK
  BY <1>1, ModelCallsAssumption DEF Init, TypeOK
<1>3. Control /\ ToldTheTruth
  BY <1>1 DEF Init, Control, ToldTheTruth, Providers
<1>4. NeverTooSoon /\ CostsAreFair
  BY <1>1 DEF NeverTooSoon, CostsAreFair
<1> QED
  BY <1>2, <1>3, <1>4 DEF ModelCallsInv

\* Without rows and pauses nothing is said of them.
LEMMA NothingRecorded ==
  ASSUME rows' = <<>>, slept' = <<>>
  PROVE  /\ \A S : rows' \in Seq(S) /\ slept' \in Seq(S)
         /\ ToldTheTruth' /\ NeverTooSoon' /\ CostsAreFair'
<1>1. DOMAIN rows' = {} /\ DOMAIN slept' = {}
  OBVIOUS
<1> QED
  BY <1>1 DEF ToldTheTruth, NeverTooSoon, CostsAreFair

\* The process ends.
LEMMA DownInv ==
  ASSUME TypeOK, NEW says \in {"nothing", Traceback}, Down(says)
  PROVE  ModelCallsInv'
<1>1. TypeOK'
  BY NothingRecorded, ModelCallsAssumption DEF TypeOK, Down
<1>2. Control'
  BY DEF Down, Control
<1> QED
  BY <1>1, <1>2, NothingRecorded DEF ModelCallsInv, Down

\* The process starts.
LEMMA StartInv ==
  ASSUME ModelCallsInv, NEW p \in Providers, NEW key \in BOOLEAN, Start(p, key)
  PROVE  ModelCallsInv'
<1>1. rows' = <<>> /\ slept' = <<>> /\ told' = "nothing"
  BY DEF ModelCallsInv, Control, Start
<1>2. TypeOK'
  BY DEF ModelCallsInv, TypeOK, Start
<1>3. Control'
  BY <1>1 DEF Start, Control, Providers
<1> QED
  BY <1>1, <1>2, <1>3, NothingRecorded DEF ModelCallsInv

\* A turn begins.
LEMMA BeginTurnInv ==
  ASSUME ModelCallsInv, NEW history \in Histories, BeginTurn(history)
  PROVE  ModelCallsInv'
<1>1. provider \in Providers
  BY DEF ModelCallsInv, TypeOK, Control, BeginTurn
<1>2. sent' \subseteq {Prompt(p, h) : p \in Providers, h \in Histories}
  BY <1>1 DEF ModelCallsInv, TypeOK, BeginTurn
<1>3. TypeOK'
  BY <1>2, NothingRecorded, ModelCallsAssumption DEF ModelCallsInv, TypeOK, BeginTurn
<1>4. Control'
  BY <1>1 DEF BeginTurn, Control, ModelCallsInv
<1> QED
  BY <1>3, <1>4, NothingRecorded DEF ModelCallsInv, BeginTurn

\* A call is recorded.
LEMMA RecordInv ==
  ASSUME ModelCallsInv, pc = "calling", NEW r \in RowType,
         rows' = Append(rows, r),
         UNCHANGED <<provider, attempt, slept, sent, turns>>,
         IF r.ok /\ Priced(r.model, r.usage)
         THEN /\ -Unit <= 2 * (r.cost * Unit - Total(r.model, r.usage))
              /\ 2 * (r.cost * Unit - Total(r.model, r.usage)) <= Unit
         ELSE r.cost = 0
  PROVE  /\ rows' \in Seq(RowType)
         /\ Len(rows') = attempt /\ Len(slept') = attempt - 1
         /\ rows' # <<>> /\ rows'[Len(rows')] = r
         /\ NeverTooSoon' /\ CostsAreFair'
<1>1. /\ rows \in Seq(RowType) /\ attempt \in 1..MaxAttempts
      /\ Len(rows) = attempt - 1 /\ Len(slept) = attempt - 1
      /\ slept \in Seq(Delays \cup {Base * 2^(n - 1) : n \in 1..MaxAttempts})
  BY DEF ModelCallsInv, TypeOK, Control
<1>2. /\ rows' \in Seq(RowType) /\ Len(rows') = attempt
      /\ DOMAIN rows' = 1..(Len(rows) + 1) /\ DOMAIN rows = 1..Len(rows)
      /\ rows'[Len(rows) + 1] = r
      /\ \A i \in DOMAIN rows : rows'[i] = rows[i]
      /\ rows' # <<>> /\ rows'[Len(rows')] = r
  BY <1>1, Appending
<1>3. DOMAIN slept' = DOMAIN slept /\ DOMAIN slept = DOMAIN rows
  BY <1>1
<1>4. NeverTooSoon'
  BY <1>2, <1>3 DEF ModelCallsInv, NeverTooSoon
<1>5. CostsAreFair'
  <2>1. \A i \in DOMAIN rows' : rows'[i] = r \/ (i \in DOMAIN rows /\ rows'[i] = rows[i])
    BY <1>1, <1>2
  <2> QED
    BY <2>1 DEF ModelCallsInv, CostsAreFair
<1> QED
  BY <1>1, <1>2, <1>4, <1>5

\* An answer ends the turn.
LEMMA AnswerInv ==
  ASSUME ModelCallsInv, NEW w \in Wire(provider), Answer(w)
  PROVE  ModelCallsInv'
<1> DEFINE r == Row(w, TRUE, "none")
<1>1. /\ w \in Troubles \cup Messages /\ IsAnswer(w) /\ TypeOK
  BY WireType DEF ModelCallsInv, Answer
<1>2. /\ r \in RowType /\ r.wire = w
      /\ IF Priced(r.model, r.usage)
         THEN /\ -Unit <= 2 * (r.cost * Unit - Total(r.model, r.usage))
              /\ 2 * (r.cost * Unit - Total(r.model, r.usage)) <= Unit
         ELSE r.cost = 0
  BY <1>1, AnswerRow
<1>3. r.ok = TRUE
  BY DEF Row
<1>4. pc = "calling" /\ rows' = Append(rows, r) /\ told' = w.text /\ pc' = "idle"
      /\ UNCHANGED <<provider, attempt, slept, sent, turns>>
  BY DEF Answer
<1>5. w.kind = "message" /\ w.text \in Replies /\ w.text # Empty
  BY <1>1, MessageType DEF IsAnswer
<1> HIDE DEF r
<1>6. /\ rows' \in Seq(RowType) /\ Len(rows') = attempt /\ Len(slept') = attempt - 1
      /\ rows' # <<>> /\ rows'[Len(rows')] = r
      /\ NeverTooSoon' /\ CostsAreFair'
  BY <1>2, <1>3, <1>4, RecordInv
<1>7. TypeOK'
  BY <1>1, <1>4, <1>5, <1>6 DEF TypeOK
<1>8. Control'
  BY <1>4, <1>5, <1>6 DEF ModelCallsInv, Control
<1>9. ToldTheTruth'
  BY <1>2, <1>4, <1>5, <1>6 DEF ToldTheTruth
<1> QED
  BY <1>6, <1>7, <1>8, <1>9 DEF ModelCallsInv

\* A failure ends the turn, or a pause follows.
LEMMA FailInv ==
  ASSUME ModelCallsInv, NEW w \in Wire(provider), NEW kind \in Kinds, Fail(w, kind)
  PROVE  ModelCallsInv'
<1> DEFINE r == Row(w, FALSE, kind)
<1>1. /\ w \in Troubles \cup Messages /\ ~IsAnswer(w) /\ TypeOK
      /\ provider \in {"anthropic", "gemini"} /\ provider \in Providers
  BY WireType DEF ModelCallsInv, TypeOK, Fail, Providers
<1>2. kind \in Raises(provider, w) /\ kind # Escaped
  BY DEF Fail
<1>3. kind \in TrueKinds(w)
  BY <1>1, <1>2, Classified
<1>4. r \in RowType /\ r.wire = w /\ r.cost = 0 /\ r.ok = FALSE
  BY <1>1, FailureRow
<1>5. /\ pc = "calling" /\ rows' = Append(rows, r)
      /\ UNCHANGED <<provider, attempt, slept, sent, turns>>
      /\ IF WillRetry(kind)
         THEN pc' = "waiting" /\ told' = told
         ELSE pc' = "idle" /\ told' = Reasons[kind]
  BY DEF Fail
<1> HIDE DEF r
<1>6. /\ rows' \in Seq(RowType) /\ Len(rows') = attempt /\ Len(slept') = attempt - 1
      /\ rows' # <<>> /\ rows'[Len(rows')] = r
      /\ NeverTooSoon' /\ CostsAreFair'
  BY <1>4, <1>5, RecordInv
<1>7. CASE WillRetry(kind)
  <2>1. TypeOK'
    <3>1. rows' \in Seq(RowType) /\ pc' = "waiting" /\ UNCHANGED <<provider, attempt, slept, told, sent, turns>>
      BY <1>5, <1>6, <1>7
    <3> DEFINE Pauses == Delays \cup {Base * 2^(n - 1) : n \in 1..MaxAttempts}
               Said   == Replies \cup {Reasons[k] : k \in Kinds}
                           \cup {"nothing", "wait", Traceback}
               Asked  == {Prompt(p, h) : p \in Providers, h \in Histories}
    <3>2. /\ provider \in Providers \cup {"none"} /\ attempt \in 1..MaxAttempts
          /\ slept \in Seq(Pauses) /\ told \in Said /\ sent \subseteq Asked
          /\ turns \in 0..MaxTurns
      BY <1>1 DEF TypeOK
    <3>3. /\ pc' \in {"off", "idle", "calling", "waiting"}
          /\ provider' \in Providers \cup {"none"} /\ attempt' \in 1..MaxAttempts
          /\ rows' \in Seq(RowType) /\ slept' \in Seq(Pauses)
          /\ told' \in Said /\ sent' \subseteq Asked /\ turns' \in 0..MaxTurns
      <4> HIDE DEF Pauses, Said, Asked
      <4> QED
        BY <3>1, <3>2
    <3> QED
      BY <3>3 DEF TypeOK
  <2>2. Control'
    BY <1>1, <1>5, <1>6, <1>7 DEF ModelCallsInv, Control, WillRetry, TypeOK
  <2>3. ToldTheTruth'
    BY <1>5, <1>7 DEF ToldTheTruth
  <2> QED
    BY <1>6, <2>1, <2>2, <2>3 DEF ModelCallsInv
<1>8. CASE ~WillRetry(kind)
  <2>1. TypeOK'
    BY <1>1, <1>5, <1>6, <1>8 DEF TypeOK
  <2>2. Control'
    BY <1>1, <1>5, <1>6, <1>8 DEF ModelCallsInv, Control
  <2>3. ToldTheTruth'
    <3>1. told' \in {Reasons[k] : k \in TrueKinds(w)} /\ rows'[Len(rows')].wire = w
      BY <1>3, <1>4, <1>5, <1>6, <1>8
    <3>2. TrueKinds(w)' = TrueKinds(w)
      BY DEF TrueKinds, HasStatus
    <3> QED
      BY <3>1, <3>2 DEF ToldTheTruth
  <2> QED
    BY <1>6, <2>1, <2>2, <2>3 DEF ModelCallsInv
<1> QED
  BY <1>7, <1>8

\* The pause is over and the next attempt begins.
LEMMA RetryInv ==
  ASSUME ModelCallsInv, Retry
  PROVE  ModelCallsInv'
<1> DEFINE w == rows[Len(rows)].wire
           Pauses == Delays \cup {Base * 2^(n - 1) : n \in 1..MaxAttempts}
<1>1. /\ TypeOK /\ pc = "waiting" /\ told = "wait"
      /\ attempt \in 1..MaxAttempts /\ attempt < MaxAttempts /\ MaxAttempts \in Nat
      /\ Len(rows) = attempt /\ Len(slept) = attempt - 1
      /\ rows \in Seq(RowType) /\ slept \in Seq(Pauses)
  BY ModelCallsAssumption DEF ModelCallsInv, TypeOK, Control, Retry
<1>2. w \in Troubles \cup Messages
  <2>1. rows[Len(rows)] \in RowType
    BY <1>1
  <2> QED
    BY <2>1 DEF RowType
<1>3. /\ pc' = "calling" /\ slept' = Append(slept, Backoff(w)) /\ attempt' = attempt + 1
      /\ UNCHANGED <<provider, rows, told, sent, turns>>
  BY DEF Retry
<1>4. /\ Backoff(w) \in Pauses
      /\ Backoff(w) >= IF provider = "anthropic" /\ HasStatus(w, {429}) /\ w.hint \in Delays
                       THEN w.hint
                       ELSE Base * 2^(attempt - 1)
  BY <1>1, <1>2, BackoffIsDue
<1> HIDE DEF Pauses
<1>5. /\ slept' \in Seq(Pauses) /\ Len(slept') = attempt
      /\ DOMAIN slept' = 1..attempt /\ DOMAIN slept = 1..(attempt - 1)
      /\ slept'[attempt] = Backoff(w)
      /\ \A i \in DOMAIN slept : slept'[i] = slept[i]
  BY <1>1, <1>3, <1>4, Appending
<1>6. TypeOK'
  BY <1>1, <1>3, <1>5 DEF TypeOK, Pauses
<1>7. Control'
  BY <1>1, <1>3, <1>5 DEF ModelCallsInv, Control
<1>8. NeverTooSoon'
  <2> SUFFICES ASSUME NEW i \in DOMAIN slept'
               PROVE  LET v == rows[i].wire
                      IN slept'[i] >= IF provider = "anthropic" /\ HasStatus(v, {429})
                                           /\ v.hint \in Delays
                                      THEN v.hint
                                      ELSE Base * 2^(i - 1)
    BY <1>3 DEF NeverTooSoon, HasStatus
  <2>1. CASE i = attempt
    BY <1>1, <1>4, <1>5, <2>1
  <2>2. CASE i # attempt
    <3>1. i \in DOMAIN slept /\ slept'[i] = slept[i]
      BY <1>1, <1>5, <2>2
    <3> QED
      BY <3>1 DEF ModelCallsInv, NeverTooSoon
  <2> QED
    BY <2>1, <2>2
<1>9. CostsAreFair' /\ ToldTheTruth'
  BY <1>3 DEF ModelCallsInv, CostsAreFair, ToldTheTruth
<1> QED
  BY <1>6, <1>7, <1>8, <1>9 DEF ModelCallsInv

\* Every answer, failure, escape, retry and stop keeps the invariant.
LEMMA StepInv == ModelCallsInv /\ [Next]_vars => ModelCallsInv'
<1> SUFFICES ASSUME ModelCallsInv, [Next]_vars PROVE ModelCallsInv'
  OBVIOUS
<1>1. CASE UNCHANGED vars
  BY <1>1 DEF ModelCallsInv, TypeOK, Control, ToldTheTruth, NeverTooSoon, CostsAreFair,
              HasStatus, vars
<1>2. CASE \E p \in Providers, key \in BOOLEAN : Start(p, key)
  BY <1>2, StartInv
<1>3. CASE \E history \in Histories : BeginTurn(history)
  BY <1>3, BeginTurnInv
<1>4. CASE \E w \in Wire(provider) : Answer(w)
  BY <1>4, AnswerInv
<1>5. CASE \E w \in Wire(provider), kind \in Kinds : Fail(w, kind)
  BY <1>5, FailInv
<1>6. CASE \E w \in Wire(provider) : Escape(w)
  BY <1>6, DownInv DEF Escape, ModelCallsInv
<1>7. CASE Retry
  BY <1>7, RetryInv
<1>8. CASE Stop
  BY <1>8, DownInv DEF Stop, ModelCallsInv
<1> QED
  BY <1>1, <1>2, <1>3, <1>4, <1>5, <1>6, <1>7, <1>8 DEF Next

\* The invariant holds in every behaviour.
LEMMA Invariant == Spec => []ModelCallsInv
  BY InitInv, StepInv, PTL DEF Spec

\* Rows, pauses, prompts and what the owner is told are of their types: above
\* all, the text that is told is one of a reply and never empty.
THEOREM TypeCorrect == Spec => []TypeOK
<1>1. ModelCallsInv => TypeOK
  BY DEF ModelCallsInv
<1> QED
  BY <1>1, Invariant, PTL

\* For all statuses from 400 to 599: the reason the owner reads is one that the
\* last call's failure truly had (cli.py:138-141).
THEOREM OutagesAreNamed == Spec => []ToldTheTruth
<1>1. ModelCallsInv => ToldTheTruth
  BY DEF ModelCallsInv
<1> QED
  BY <1>1, Invariant, PTL

\* For all base delays, hints and numbers of attempts: no attempt comes sooner
\* than Anthropic's hint asks, nor than the power of two due without one
\* (runtime.py:298-310).
THEOREM HintsAreKept == Spec => []NeverTooSoon
<1>1. ModelCallsInv => NeverTooSoon
  BY DEF ModelCallsInv
<1> QED
  BY <1>1, Invariant, PTL

\* For all rates and counts: a row's cost is within half a micro of what its own
\* columns say, and 0 when they say nothing (pricing.py:64-88).
THEOREM CostsFair == Spec => []CostsAreFair
<1>1. ModelCallsInv => CostsAreFair
  BY DEF ModelCallsInv
<1> QED
  BY <1>1, Invariant, PTL

-----------------------------------------------------------------------------
(* The refinement of Attempts.                                             *)

\* What the provider did is an answer or a trouble of one nature, which does
\* not change later.
LEMMA Natures ==
  /\ \A w : Nature(w) \in {"answer", "transient", "permanent"}
  /\ provider' = provider => \A w : Nature(w)' = Nature(w)
<1>1. \A w : Nature(w) \in {"answer", "transient", "permanent"}
  BY DEF Nature
<1>2. ASSUME provider' = provider, NEW w PROVE Nature(w)' = Nature(w)
  BY <1>2 DEF Nature, Transient, HasStatus
<1> QED
  BY <1>1, <1>2

\* What the provider did, call by call, is as long as the rows, and grows with
\* them.
LEMMA SeenGrows ==
  ASSUME TypeOK
  PROVE  /\ Seen \in Seq({"answer", "transient", "permanent"})
         /\ Len(Seen) = Len(rows)
         /\ UNCHANGED <<rows, provider>> => Seen' = Seen
         /\ rows' = <<>> => Seen' = <<>>
         /\ \A r \in RowType : provider' = provider /\ rows' = Append(rows, r)
              => Seen' = Append(Seen, Nature(r.wire))
<1> DEFINE Kind == {"answer", "transient", "permanent"}
<1>1. rows \in Seq(RowType) /\ Len(rows) \in Nat /\ DOMAIN rows = 1..Len(rows)
  BY DEF TypeOK
<1>2. Seen \in Seq(Kind) /\ Len(Seen) = Len(rows) /\ DOMAIN Seen = 1..Len(rows)
  BY <1>1, Natures DEF Seen
<1>3. UNCHANGED <<rows, provider>> => Seen' = Seen
  BY Natures DEF Seen
<1>4. rows' = <<>> => Seen' = <<>>
  <2> SUFFICES ASSUME rows' = <<>> PROVE Seen' = <<>>
    OBVIOUS
  <2>1. DOMAIN rows' = 1..0
    OBVIOUS
  <2> QED
    BY <2>1 DEF Seen
<1>5. ASSUME NEW r \in RowType, provider' = provider, rows' = Append(rows, r)
      PROVE  Seen' = Append(Seen, Nature(r.wire))
  <2> DEFINE e == Nature(r.wire)
  <2>1. /\ DOMAIN rows' = 1..(Len(rows) + 1)
        /\ rows'[Len(rows) + 1] = r
        /\ \A i \in DOMAIN rows : rows'[i] = rows[i]
    BY <1>1, <1>5, Appending
  <2>2. Seen' = [i \in 1..(Len(rows) + 1) |-> Nature(rows'[i].wire)]
    BY <1>5, <2>1, Natures DEF Seen
  <2>3. e \in Kind
    BY Natures
  <2>4. /\ Seen' \in Seq(Kind) /\ Len(Seen') = Len(rows) + 1
    BY <1>1, <2>2, Natures
  <2>5. \A i \in 1..(Len(rows) + 1) : Seen'[i] = IF i = Len(rows) + 1 THEN e ELSE Seen[i]
    BY <1>1, <1>2, <2>1, <2>2 DEF Seen
  <2> HIDE DEF e, Kind
  <2>6. /\ Append(Seen, e) \in Seq(Kind) /\ Len(Append(Seen, e)) = Len(rows) + 1
        /\ Append(Seen, e)[Len(rows) + 1] = e
        /\ \A i \in 1..Len(rows) : Append(Seen, e)[i] = Seen[i]
    BY <1>2, <2>3, AppendProperties
  <2>7. \A i \in 1..(Len(rows) + 1) : Seen'[i] = Append(Seen, e)[i]
    BY <1>1, <2>5, <2>6
  <2> QED
    BY <1>1, <2>4, <2>6, <2>7, SeqEqual DEF e
<1> QED
  BY <1>2, <1>3, <1>4, <1>5

\* What the turn has come to, by what the owner has been told.
LEMMA Results ==
  /\ told = "nothing" => Result = "none"
  /\ told = "wait" => Result = "open"
  /\ told = Traceback => Result = "escaped"
  /\ told \in Replies => Result = "reply"
  /\ told \in {Reasons[k] : k \in Kinds} => Result = "failure"
  /\ told' = "nothing" => Result' = "none"
  /\ told' = "wait" => Result' = "open"
  /\ told' = Traceback => Result' = "escaped"
  /\ told' \in Replies => Result' = "reply"
  /\ told' \in {Reasons[k] : k \in Kinds} => Result' = "failure"
  /\ told' = told => Result' = Result
  BY Saying DEF Result

\* Only the Gemini adapter lets an exception through that is not of the
\* taxonomy (gemini.py:101-104).
LEMMA OnlyGeminiLeaks ==
  ASSUME NEW p \in Providers \cup {"none"}, NEW w \in Wire(p), ~IsAnswer(w),
         Escaped \in Raises(p, w)
  PROVE  p = "gemini"
<1>1. p \in {"anthropic", "gemini"} /\ w \in Troubles \cup Messages
  BY WireType DEF Providers
<1>2. w \notin Messages
  BY DEF Messages, Raises, Escaped
<1>3. CASE p = "anthropic"
  <2>1. w \in Troubles /\ w.kind \in {"timeout", "lost", "status"}
    BY <1>1, <1>2, TroubleKinds
  <2>2. Escaped = Caught(AnthropicClauses, Raised(w))
    BY <1>3, <2>1 DEF Raises
  <2>3. CASE w.kind = "status"
    <3>1. w.status \in 400..599
      BY <2>1, <2>3, TroubleKinds
    <3>2. Escaped \in {"LLMTimeout", "LLMRateLimited", "LLMAuthError", "LLMUnavailable",
                       "LLMInvalidRequest"}
      BY <2>2, <2>3, <3>1, AnthropicKinds
    <3> QED
      BY <3>2 DEF Escaped
  <2>4. CASE w.kind \in {"timeout", "lost"}
    BY <2>2, <2>4, AnthropicTransport DEF Escaped
  <2> QED
    BY <2>1, <2>3, <2>4
<1> QED
  BY <1>1, <1>3

\* Every step of the calls is a step of the abstract promise or leaves it
\* alone.
LEMMA AttemptsStep ==
  ASSUME ModelCallsInv, [Next]_vars
  PROVE  [Promise!Next]_(Promise!vars)
<1> USE DEF Promise!Next, Promise!vars
<1>1. TypeOK /\ Control /\ attempt \in 1..MaxAttempts /\ MaxAttempts \in Nat
  BY ModelCallsAssumption DEF ModelCallsInv, TypeOK
<1>2. CASE UNCHANGED vars
  BY <1>1, <1>2, SeenGrows, Results DEF vars
<1>3. ASSUME NEW p \in Providers, NEW key \in BOOLEAN, Start(p, key)
      PROVE  Promise!Start
  <2>1. /\ rows = <<>> /\ UNCHANGED rows
        /\ told \in {"nothing", Traceback} /\ told' = "nothing"
    BY <1>1, <1>3 DEF Start, Control
  <2>2. Len(Seen) = 0 /\ Seen \in Seq({"answer", "transient", "permanent"})
    BY <1>1, <2>1, SeenGrows
  <2>3. Seen' = <<>> /\ Seen = <<>>
    BY <1>1, <2>1, <2>2, SeenGrows
  <2> QED
    BY <2>1, <2>3, Results DEF Promise!Start, Promise!Nothing
<1>4. ASSUME NEW history \in Histories, BeginTurn(history)
      PROVE  Promise!Begin
  <2>1. \/ told = "nothing" \/ told \in Replies \/ told \in {Reasons[k] : k \in Kinds}
    BY <1>1, <1>4 DEF BeginTurn, Control
  <2>2. Result \in {"none", "reply", "failure"}
    BY <2>1, Results
  <2> QED
    BY <1>1, <1>4, <2>2, SeenGrows, Results DEF BeginTurn, Promise!Begin
<1>5. ASSUME NEW w \in Wire(provider), Answer(w)
      PROVE  Promise!Reply
  <2>1. w \in Troubles \cup Messages /\ IsAnswer(w)
    BY <1>5, WireType DEF Answer
  <2>2. Row(w, TRUE, "none") \in RowType /\ Row(w, TRUE, "none").wire = w
    BY <1>1, <2>1, AnswerRow
  <2>3. Nature(w) = "answer"
    BY <2>1 DEF IsAnswer, Nature, Transient, HasStatus
  <2>4. Seen' = Append(Seen, "answer") /\ Len(Seen) = Len(rows)
    BY <1>1, <1>5, <2>2, <2>3, SeenGrows DEF Answer
  <2>5. told = "wait" /\ told' \in Replies /\ Len(rows) = attempt - 1
    BY <1>1, <1>5, <2>1, MessageType DEF Answer, Control, IsAnswer
  <2>6. UNCHANGED (provider = "gemini")
    BY <1>5 DEF Answer
  <2> QED
    BY <1>1, <2>4, <2>5, <2>6, Results DEF Promise!Reply, Promise!Call
<1>6. ASSUME NEW w \in Wire(provider), NEW kind \in Kinds, Fail(w, kind)
      PROVE  Promise!Retry \/ Promise!GiveUp \/ Promise!Refuse
  <2>1. /\ w \in Troubles \cup Messages /\ ~IsAnswer(w)
        /\ provider \in {"anthropic", "gemini"} /\ provider \in Providers
    BY <1>1, <1>6, WireType DEF TypeOK, Fail, Providers
  <2>2. Row(w, FALSE, kind) \in RowType /\ Row(w, FALSE, kind).wire = w
    BY <1>1, <2>1, FailureRow
  <2>3. /\ kind \in Retryable => Nature(w) = "transient"
        /\ kind \notin Retryable => Nature(w) = "permanent"
    BY <1>6, <2>1, Classified DEF Fail
  <2>4. Seen' = Append(Seen, Nature(w)) /\ Len(Seen) = Len(rows)
    BY <1>1, <1>6, <2>2, SeenGrows DEF Fail
  <2>5. told = "wait" /\ Len(rows) = attempt - 1
    BY <1>1, <1>6 DEF Fail, Control
  <2>6. IF WillRetry(kind) THEN told' = "wait" ELSE told' \in {Reasons[k] : k \in Kinds}
    BY <1>6, <2>5 DEF Fail
  <2>10. UNCHANGED (provider = "gemini")
    BY <1>6 DEF Fail
  <2>7. CASE WillRetry(kind)
    BY <1>1, <2>3, <2>4, <2>5, <2>6, <2>10, <2>7, Results DEF WillRetry, Promise!Retry, Promise!Call
  <2>8. CASE ~WillRetry(kind) /\ kind \in Retryable
    BY <1>1, <2>3, <2>4, <2>5, <2>6, <2>10, <2>8, Results DEF WillRetry, Promise!GiveUp, Promise!Call
  <2>9. CASE kind \notin Retryable
    BY <1>1, <2>3, <2>4, <2>5, <2>6, <2>10, <2>9, Results DEF WillRetry, Promise!Refuse, Promise!Call
  <2> QED
    BY <2>7, <2>8, <2>9
<1>7. CASE Stop
  BY <1>1, <1>7, SeenGrows, Results DEF Stop, Down, Promise!Stop, Promise!Nothing
<1>8. ASSUME NEW w \in Wire(provider), Escape(w)
      PROVE  Promise!Escape
  <2>1. provider = "gemini"
    BY <1>1, <1>8, OnlyGeminiLeaks DEF Escape, TypeOK
  <2>2. told = "wait"
    BY <1>1, <1>8 DEF Escape, Control
  <2> QED
    BY <1>1, <1>8, <2>1, <2>2, SeenGrows, Results DEF Escape, Down, Promise!Escape
<1>9. CASE Retry
  BY <1>1, <1>9, SeenGrows, Results DEF Retry
<1> QED
  BY <1>2, <1>3, <1>4, <1>5, <1>6, <1>7, <1>8, <1>9 DEF Next

\* For all statuses, hints, histories and numbers of attempts: after a call that
\* ended in an answer or an error of the taxonomy the turn asks again exactly
\* while the trouble is transient by nature and attempts are left, and the call
\* has its row; a call that ends otherwise ends the session, and is one of the
\* Gemini adapter (ARCHITECTURE_v0.2.md:277-279, core/llm.py:140-206).
THEOREM CallsImplementAttempts == Spec => ImplementsAttempts
<1>1. Init => Promise!Init
  BY Results DEF Init, Promise!Init, Seen
<1> QED
  BY <1>1, AttemptsStep, Invariant, PTL DEF Spec, ImplementsAttempts, Promise!Spec

-----------------------------------------------------------------------------
(* The digest.                                                             *)

HistoryMessage == [role : {"user", "assistant"}, text : Seq(Characters)]

\* Everything a payload consists of.
Tokens == Characters \cup {"model=", "=", Separator, "user", "assistant"}
            \cup {LlmModel[p] : p \in Providers}

Header(p) == <<"model=", LlmModel[p]>>

PartOf(m) == <<m.role, "=">> \o m.text

\* The recursive function of Payload.
Joined(p, h) ==
  CHOOSE f : f = [i \in 0..Len(h) |->
                    IF i = 0 THEN Header(p) ELSE f[i - 1] \o <<Separator>> \o PartOf(h[i])]

\* The payload is that function of the whole history (digest_request).
LEMMA PayloadIsJoined ==
  ASSUME NEW p, NEW h PROVE Payload(p, h) = Joined(p, h)[Len(h)]
  BY DEF Payload, Joined, Header, PartOf, Glue

\* Its equation, and the sequences it puts together.
LEMMA JoinedDef ==
  ASSUME NEW p \in Providers, NEW h \in Seq(HistoryMessage)
  PROVE  /\ Joined(p, h)[0] = Header(p)
         /\ \A i \in 1..Len(h) :
              Joined(p, h)[i] = Joined(p, h)[i - 1] \o <<Separator>> \o PartOf(h[i])
<1> DEFINE pieces == [i \in 1..Len(h) |-> PartOf(h[i])]
<1>1. Len(h) \in Nat
  OBVIOUS
<1>2. PICK f : Joins(f, Header(p), <<Separator>>, pieces, Len(h))
  BY <1>1, JoinExists
<1>3. f = [i \in 0..Len(h) |->
             IF i = 0 THEN Header(p) ELSE f[i - 1] \o <<Separator>> \o PartOf(h[i])]
  <2>1. \A i \in 0..Len(h) : i # 0 => pieces[i] = PartOf(h[i])
    BY <1>1
  <2> HIDE DEF pieces
  <2> QED
    BY <1>2, <2>1 DEF Joins
<1>4. Joined(p, h) =
        [i \in 0..Len(h) |->
           IF i = 0 THEN Header(p) ELSE Joined(p, h)[i - 1] \o <<Separator>> \o PartOf(h[i])]
  BY <1>3 DEF Joined
<1> HIDE DEF Joined
<1>5. 0 \in 0..Len(h)
  BY <1>1
<1>6. \A i \in 1..Len(h) : i \in 0..Len(h) /\ i # 0
  BY <1>1
<1> QED
  BY <1>4, <1>5, <1>6

\* A message's part of the payload starts with its role and holds its text.
LEMMA PartType ==
  ASSUME NEW m \in HistoryMessage
  PROVE  /\ PartOf(m) \in Seq(Tokens)
         /\ Len(PartOf(m)) = Len(m.text) + 2
         /\ PartOf(m)[1] = m.role
         /\ \A j \in 1..Len(m.text) : PartOf(m)[j + 2] = m.text[j]
         /\ (\A j \in DOMAIN m.text : m.text[j] # Separator) =>
              \A j \in 1..Len(PartOf(m)) : PartOf(m)[j] # Separator
<1>1. m.text \in Seq(Characters) /\ m.role \in {"user", "assistant"}
  BY DEF HistoryMessage
<1>2. /\ Len(PartOf(m)) = Len(m.text) + 2
      /\ PartOf(m)[1] = m.role /\ PartOf(m)[2] = "="
      /\ \A j \in 1..Len(m.text) : PartOf(m)[j + 2] = m.text[j]
  BY <1>1 DEF PartOf
<1>3. <<m.role, "=">> \in Seq(Tokens) /\ m.text \in Seq(Tokens)
  BY <1>1 DEF Tokens
<1>4. PartOf(m) \in Seq(Tokens)
  BY <1>3 DEF PartOf
<1>5. ASSUME \A j \in DOMAIN m.text : m.text[j] # Separator,
             NEW j \in 1..Len(PartOf(m))
      PROVE  PartOf(m)[j] # Separator
  <2>1. CASE j \in {1, 2}
    BY <1>1, <1>2, <2>1 DEF Separator
  <2>2. CASE j \notin {1, 2}
    <3>1. PICK k \in 1..Len(m.text) : j = k + 2
      <4>1. j - 2 \in 1..Len(m.text) /\ j = (j - 2) + 2
        BY <1>1, <1>2, <2>2
      <4> QED
        BY <4>1
    <3> QED
      BY <1>1, <1>2, <1>5, <3>1
  <2> QED
    BY <2>1, <2>2
<1> QED
  BY <1>2, <1>4, <1>5

\* What is joined is never shorter than its header, and longer behind it.
LEMMA JoinedType ==
  ASSUME NEW p \in Providers, NEW h \in Seq(HistoryMessage)
  PROVE  \A i \in 0..Len(h) :
           /\ Joined(p, h)[i] \in Seq(Tokens)
           /\ Len(Joined(p, h)[i]) >= 2
           /\ i > 0 => Len(Joined(p, h)[i]) > 2
<1> DEFINE J == Joined(p, h)
           Good(i) == J[i] \in Seq(Tokens) /\ Len(J[i]) >= 2 /\ (i > 0 => Len(J[i]) > 2)
           T == {i \in Nat : i <= Len(h) => Good(i)}
<1>1. 0 \in T
  <2>1. J[0] = Header(p)
    BY JoinedDef
  <2>2. Header(p) \in Seq(Tokens) /\ Len(Header(p)) = 2
    BY DEF Header, Tokens
  <2>3. Good(0)
    BY <2>1, <2>2
  <2> HIDE DEF J
  <2> QED
    BY <2>3
<1>2. ASSUME NEW i \in Nat, i \in T PROVE i + 1 \in T
  <2> SUFFICES ASSUME i + 1 <= Len(h) PROVE Good(i + 1)
    OBVIOUS
  <2>1. i + 1 \in 1..Len(h) /\ Len(h) \in Nat /\ h[i + 1] \in HistoryMessage
    OBVIOUS
  <2>2. J[i + 1] = J[i] \o <<Separator>> \o PartOf(h[i + 1])
    <3>1. (i + 1) - 1 = i
      OBVIOUS
    <3> QED
      BY <2>1, <3>1, JoinedDef
  <2>3. J[i] \in Seq(Tokens) /\ Len(J[i]) >= 2
    BY <1>2, <2>1
  <2>4. PartOf(h[i + 1]) \in Seq(Tokens) /\ <<Separator>> \in Seq(Tokens)
    BY <2>1, PartType DEF Tokens
  <2> HIDE DEF J
  <2>5. J[i + 1] \in Seq(Tokens) /\ Len(J[i + 1]) = Len(J[i]) + 1 + Len(PartOf(h[i + 1]))
    BY <2>2, <2>3, <2>4
  <2>6. PICK a \in Nat, b \in Nat : a = Len(J[i]) /\ b = Len(PartOf(h[i + 1]))
    BY <2>3, <2>4
  <2>7. Len(J[i + 1]) = a + 1 + b /\ a >= 2
    BY <2>3, <2>5, <2>6
  <2>8. Len(J[i + 1]) > 2 /\ Len(J[i + 1]) >= 2
    BY <2>7
  <2> QED
    BY <2>5, <2>8
<1> HIDE DEF T
<1>3. Nat \subseteq T
  BY <1>1, <1>2, NatSetInduction
<1> QED
  BY <1>3 DEF T

PlainText(h) == \A i \in 1..Len(h) : \A j \in DOMAIN h[i].text : h[i].text[j] # Separator

\* One part is one message.
LEMMA PartIdentifies ==
  ASSUME NEW m \in HistoryMessage, NEW n \in HistoryMessage, PartOf(m) = PartOf(n)
  PROVE  m = n
<1>1. /\ m = [role |-> m.role, text |-> m.text]
      /\ n = [role |-> n.role, text |-> n.text]
      /\ m.text \in Seq(Characters) /\ n.text \in Seq(Characters)
  BY DEF HistoryMessage
<1>2. m.role = n.role
  BY PartType
<1>3. Len(m.text) = Len(n.text)
  <2>1. Len(m.text) + 2 = Len(n.text) + 2
    BY PartType
  <2> QED
    BY <1>1, <2>1
<1>4. \A j \in 1..Len(m.text) : m.text[j] = n.text[j]
  <2> SUFFICES ASSUME NEW j \in 1..Len(m.text) PROVE m.text[j] = n.text[j]
    OBVIOUS
  <2>1. PartOf(m)[j + 2] = m.text[j] /\ PartOf(n)[j + 2] = n.text[j]
    BY <1>3, PartType
  <2> QED
    BY <2>1
<1>5. m.text = n.text
  BY <1>1, <1>3, <1>4
<1> QED
  BY <1>1, <1>2, <1>5

\* What is joined tells the messages it was joined from, from the last one on.
LEMMA JoinedIdentifies ==
  ASSUME NEW p \in Providers, NEW h \in Seq(HistoryMessage), NEW g \in Seq(HistoryMessage),
         PlainText(h), PlainText(g)
  PROVE  \A i \in 0..Len(h), k \in 0..Len(g) :
           Joined(p, h)[i] = Joined(p, g)[k] =>
             i = k /\ \A l \in 1..i : h[l] = g[l]
<1> DEFINE J == Joined(p, h)
           K == Joined(p, g)
           T == {i \in Nat : i <= Len(h) =>
                   \A k \in 0..Len(g) :
                     J[i] = K[k] => i = k /\ \A l \in 1..i : h[l] = g[l]}
<1>0. Len(h) \in Nat /\ Len(g) \in Nat
  OBVIOUS
<1>1. 0 \in T
  <2> SUFFICES ASSUME NEW k \in 0..Len(g), J[0] = K[k] PROVE k = 0
    BY <1>0
  <2>1. J[0] = Header(p)
    BY JoinedDef
  <2>2. Len(J[0]) = 2
    BY <2>1 DEF Header
  <2>3. k > 0 => Len(K[k]) > 2
    BY JoinedType
  <2> HIDE DEF J, K
  <2> QED
    BY <1>0, <2>2, <2>3
<1>2. ASSUME NEW i \in Nat, i \in T PROVE i + 1 \in T
  <2> SUFFICES ASSUME i + 1 <= Len(h), NEW k \in 0..Len(g), J[i + 1] = K[k]
               PROVE  i + 1 = k /\ \A l \in 1..(i + 1) : h[l] = g[l]
    OBVIOUS
  <2>1. i + 1 \in 1..Len(h) /\ i \in 0..Len(h) /\ i + 1 \in 0..Len(h)
    BY <1>0
  <2>2. k # 0
    <3> SUFFICES ASSUME k = 0 PROVE FALSE
      OBVIOUS
    <3>1. Len(J[i + 1]) > 2
      <4>1. i + 1 > 0
        OBVIOUS
      <4> QED
        BY <2>1, <4>1, JoinedType
    <3>2. K[0] = Header(p)
      BY JoinedDef
    <3>3. Len(K[0]) = 2
      BY <3>2 DEF Header
    <3>4. J[i + 1] = K[0]
      OBVIOUS
    <3> HIDE DEF J, K
    <3> QED
      BY <3>1, <3>3, <3>4
  <2>3. PICK n \in Nat : k = n + 1
    <3>1. k - 1 \in Nat /\ k = (k - 1) + 1
      BY <1>0, <2>2
    <3> QED
      BY <3>1
  <2>4. n + 1 \in 1..Len(g) /\ n \in 0..Len(g)
    BY <1>0, <2>3
  <2>5. J[i + 1] = J[i] \o <<Separator>> \o PartOf(h[i + 1])
    <3>1. (i + 1) - 1 = i
      OBVIOUS
    <3> QED
      BY <2>1, <3>1, JoinedDef
  <2>6. K[n + 1] = K[n] \o <<Separator>> \o PartOf(g[n + 1])
    <3>1. (n + 1) - 1 = n
      OBVIOUS
    <3> QED
      BY <2>4, <3>1, JoinedDef
  <2>7. J[i] \in Seq(Tokens) /\ K[n] \in Seq(Tokens)
    BY <2>1, <2>4, JoinedType
  <2>8. h[i + 1] \in HistoryMessage /\ g[n + 1] \in HistoryMessage
    BY <2>1, <2>4
  <2>9. PartOf(h[i + 1]) \in Seq(Tokens) /\ PartOf(g[n + 1]) \in Seq(Tokens)
    BY <2>8, PartType
  <2>10. /\ \A j \in 1..Len(PartOf(h[i + 1])) : PartOf(h[i + 1])[j] # Separator
         /\ \A j \in 1..Len(PartOf(g[n + 1])) : PartOf(g[n + 1])[j] # Separator
    BY <2>1, <2>4, <2>8, PartType DEF PlainText
  <2> HIDE DEF J, K
  <2>11. Separator \in Tokens
    BY DEF Tokens
  <2>12. J[i] \o <<Separator>> \o PartOf(h[i + 1]) = K[n] \o <<Separator>> \o PartOf(g[n + 1])
    BY <2>3, <2>5, <2>6
  <2>13. J[i] = K[n] /\ PartOf(h[i + 1]) = PartOf(g[n + 1])
    <3>1. PICK A : A = J[i]
      OBVIOUS
    <3>2. PICK B : B = K[n]
      OBVIOUS
    <3>3. PICK P : P = PartOf(h[i + 1])
      OBVIOUS
    <3>4. PICK Q : Q = PartOf(g[n + 1])
      OBVIOUS
    <3>5. /\ A \in Seq(Tokens) /\ B \in Seq(Tokens) /\ P \in Seq(Tokens) /\ Q \in Seq(Tokens)
          /\ A \o <<Separator>> \o P = B \o <<Separator>> \o Q
          /\ \A j \in 1..Len(P) : P[j] # Separator
          /\ \A j \in 1..Len(Q) : Q[j] # Separator
      BY <2>7, <2>9, <2>10, <2>12, <3>1, <3>2, <3>3, <3>4
    <3>6. Split(A \o <<Separator>> \o P, A, Separator, P)
      BY <2>11, <3>5, JoinSplits
    <3>7. Split(B \o <<Separator>> \o Q, B, Separator, Q)
      BY <2>11, <3>5, JoinSplits
    <3>8. PICK X : X = A \o <<Separator>> \o P
      OBVIOUS
    <3>9. Split(X, A, Separator, P) /\ Split(X, B, Separator, Q)
      BY <3>5, <3>6, <3>7, <3>8
    <3>10. A = B /\ P = Q
      BY <3>5, <3>9, LastSplit
    <3> QED
      BY <3>1, <3>2, <3>3, <3>4, <3>10
  <2>14. i = n /\ \A l \in 1..i : h[l] = g[l]
    BY <1>2, <2>1, <2>4, <2>13, <1>0
  <2>15. h[i + 1] = g[n + 1]
    BY <2>8, <2>13, PartIdentifies
  <2> QED
    BY <2>3, <2>14, <2>15
<1> HIDE DEF T
<1>3. Nat \subseteq T
  BY <1>1, <1>2, NatSetInduction
<1> QED
  BY <1>0, <1>3 DEF T

\* Two histories without the separator that have one payload are the same.
LEMMA PayloadIdentifies ==
  ASSUME NEW p \in Providers, NEW h \in Seq(HistoryMessage), NEW g \in Seq(HistoryMessage),
         PlainText(h), PlainText(g), Payload(p, h) = Payload(p, g)
  PROVE  h = g
<1>1. Len(h) \in 0..Len(h) /\ Len(g) \in 0..Len(g)
  OBVIOUS
<1>2. Joined(p, h)[Len(h)] = Joined(p, g)[Len(g)]
  BY PayloadIsJoined
<1>3. Len(h) = Len(g) /\ \A l \in 1..Len(h) : h[l] = g[l]
  BY <1>1, <1>2, JoinedIdentifies
<1> QED
  BY <1>3

\* And so are two histories that read alike to the provider.
LEMMA PromptIdentifies ==
  ASSUME NEW p \in Providers, NEW h \in Seq(HistoryMessage), NEW g \in Seq(HistoryMessage),
         ToSdk(p, h) = ToSdk(p, g)
  PROVE  h = g
<1>1. DOMAIN h = 1..Len(h) /\ DOMAIN g = 1..Len(g) /\ Len(h) \in Nat /\ Len(g) \in Nat
  OBVIOUS
<1>2. DOMAIN h = DOMAIN g
  BY DEF ToSdk
<1>3. Len(h) = Len(g)
  <2>1. PICK a \in Nat, b \in Nat : a = Len(h) /\ b = Len(g) /\ 1..a = 1..b
    BY <1>1, <1>2
  <2>2. ~ a < b
    <3> SUFFICES ASSUME a < b PROVE FALSE
      OBVIOUS
    <3>1. b \in 1..b /\ b \notin 1..a
      OBVIOUS
    <3> QED
      BY <2>1, <3>1
  <2>3. ~ b < a
    <3> SUFFICES ASSUME b < a PROVE FALSE
      OBVIOUS
    <3>1. a \in 1..a /\ a \notin 1..b
      OBVIOUS
    <3> QED
      BY <2>1, <3>1
  <2> QED
    BY <2>1, <2>2, <2>3
<1>4. ASSUME NEW i \in 1..Len(h) PROVE h[i] = g[i]
  <2>1. /\ h[i] \in HistoryMessage /\ g[i] \in HistoryMessage
        /\ ToSdk(p, h)[i] = [role |-> Roles[p][h[i].role], text |-> h[i].text]
        /\ ToSdk(p, g)[i] = [role |-> Roles[p][g[i].role], text |-> g[i].text]
    BY <1>1, <1>3 DEF ToSdk
  <2>2. Roles[p][h[i].role] = Roles[p][g[i].role] /\ h[i].text = g[i].text
    BY <2>1
  <2>3. h[i].role = g[i].role
    BY <2>1, <2>2 DEF Roles, HistoryMessage, Providers
  <2> QED
    BY <2>1, <2>2, <2>3 DEF HistoryMessage
<1> QED
  BY <1>3, <1>4

\* Equal digests mean equal prompts, and only those, for histories of any
\* length and texts of any characters but the separator
\* (context_builder.py:54-55).
THEOREM DigestsAreFaithful == Spec => []DigestsIdentify
<1>1. TypeOK => DigestsIdentify
  <2> SUFFICES ASSUME TypeOK, NEW s \in sent, NEW t \in sent, Plain(s), Plain(t),
                      s.provider = t.provider
               PROVE  s.digest = t.digest <=> s.prompt = t.prompt
    BY DEF DigestsIdentify
  <2>1. PICK p \in Providers, h \in Histories : s = Prompt(p, h)
    BY DEF TypeOK
  <2>2. PICK q \in Providers, g \in Histories : t = Prompt(q, g)
    BY DEF TypeOK
  <2>3. /\ s.provider = p /\ s.prompt = ToSdk(p, h) /\ s.digest = Payload(p, h)
        /\ t.provider = q /\ t.prompt = ToSdk(q, g) /\ t.digest = Payload(q, g)
    BY <2>1, <2>2 DEF Prompt
  <2>4. p = q /\ h \in Seq(HistoryMessage) /\ g \in Seq(HistoryMessage)
    BY <2>3, ModelCallsAssumption DEF HistoryMessage
  <2>5. PlainText(h) /\ PlainText(g)
    <3>1. ASSUME NEW x, NEW k \in Seq(HistoryMessage), x.prompt = ToSdk(p, k), Plain(x)
          PROVE  PlainText(k)
      <4>1. DOMAIN x.prompt = 1..Len(k) /\ \A i \in 1..Len(k) : x.prompt[i].text = k[i].text
        BY <3>1 DEF ToSdk
      <4> QED
        BY <3>1, <4>1 DEF Plain, PlainText
    <3> QED
      BY <2>3, <2>4, <3>1
  <2>6. s.digest = t.digest => h = g
    BY <2>3, <2>4, <2>5, PayloadIdentifies
  <2>7. s.prompt = t.prompt => h = g
    BY <2>3, <2>4, PromptIdentifies
  <2> QED
    BY <2>3, <2>4, <2>6, <2>7
<1> QED
  BY <1>1, TypeCorrect, PTL
=============================================================================
