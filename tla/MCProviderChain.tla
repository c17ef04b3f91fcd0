-------------------------- MODULE MCProviderChain --------------------------
(***************************************************************************)
(* A provider that fails in every way and cannot be probed, in front of one *)
(* that can; an order with a repetition and an id nobody knows, a           *)
(* configuration from before there was an order, without fallback, and an   *)
(* override.                                                               *)
(***************************************************************************)
EXTENDS ProviderChain

CONSTANTS claude, openai, typo

MCMode == [p \in Providers |-> IF p = claude THEN "cli_first" ELSE "api_fallback"]
MCFails == [p \in Providers |-> IF p = claude THEN {"error", "dead", "rate_limit", "invalid"}
                                ELSE {"empty"}]

Ordered == [order |-> <<claude, typo, openai, claude>>, stored |-> <<openai>>, preferred |-> openai,
            env |-> None, disabled |-> {}, fallback |-> TRUE, retry |-> TRUE]
Legacy == [Ordered EXCEPT !.order = <<>>, !.stored = <<claude, openai>>, !.preferred = None,
                          !.fallback = FALSE, !.retry = FALSE]
Override == [Ordered EXCEPT !.env = claude]
MCConfigs == {Ordered, Legacy, Override}

=============================================================================
