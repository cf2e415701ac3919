---------------------------- MODULE MCModelCalls ----------------------------
(***************************************************************************)
(* ModelCalls for TLC: every status an adapter's clause or an SDK's class  *)
(* names, rates that make halves, and three histories that read alike when *)
(* their parts are put together.                                           *)
(***************************************************************************)
EXTENDS ModelCalls

MCModels   == {"opus", "flash", "dated", "fake-model-1"}
MCLlmModel == [anthropic |-> "opus", gemini |-> "flash", fake |-> "opus"]
MCRates    == [opus |-> [input |-> 5, output |-> 23]]

MCStatuses == {400, 401, 403, 404, 408, 409, 413, 422, 429, 500, 503, 504, 529}

Tokens(i, o, c) == [input |-> i, output |-> o, cached |-> c]

MCUsages == {Tokens(1, 0, 0), Tokens(1, 1, Unknown), Tokens(Unknown, Unknown, 2),
             Tokens(2, Unknown, 1)}

MCCharacters == {"a", "user", "=", Separator}

Said(role, text) == [role |-> role, text |-> text]

\* Two messages; one that looks like both; one that holds the separator too.
MCHistories ==
  { <<Said("user", <<"a">>), Said("user", <<"a">>)>>,
    <<Said("user", <<"a", "user", "=", "a">>)>>,
    <<Said("user", <<"a", Separator, "user", "=", "a">>)>> }
=============================================================================
