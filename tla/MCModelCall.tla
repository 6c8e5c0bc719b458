----------------------------- MODULE MCModelCall -----------------------------
(* The workers' requests on the three routes (effort "low"), and one of a caller that  *)
(* asks for what DeepSeek accepts.                                                      *)
EXTENDS ModelCall

Request(r, e, t, j) == [route |-> r, effort |-> e, tuned |-> t, json |-> j]

const_Requests ==
    {Request(r, "low", FALSE, TRUE) : r \in Routes}
        \cup {Request("deepseek", "high", FALSE, j) : j \in BOOLEAN}
        \cup {Request("openai_codex_session", "low", TRUE, TRUE)}
===============================================================================
