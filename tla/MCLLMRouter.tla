------------------------------ MODULE MCLLMRouter ------------------------------
(* Small instances of LLMRouter for TLC. *)
EXTENDS LLMRouter

CONSTANTS groq, openrouter

MCCallTimeout == [p \in Providers |-> IF p = groq THEN 1 ELSE 2]
TwoChains == {<<groq, openrouter>>, <<openrouter>>}

================================================================================
