---------------------------- MODULE MCPasteInspect ----------------------------
(* A plain text, one that cannot be used, one in which a code splits a     *)
(* delimiter, and one with a delimiter for a key; a local and two hosted   *)
(* targets; a loopback endpoint, an external one with and without a        *)
(* credential in its URL, and that of a provider. The environment starts as*)
(* a shell or a .env file may leave it.                                    *)
EXTENDS PasteInspect

CONSTANTS plain, unusable, split, keyed, llama, gpt, claude, local, lab, labWithKey, cloud

MCInput == {plain, unusable, split, keyed}
MCUsable == MCInput \ {unusable}
Field(key) == [top |-> TRUE, key |-> key]
MCText ==
  [i \in MCUsable |->
     CASE i = plain -> [f \in {Field("raw_text")} |-> <<"accent", "less", "plain", "tech", "digits">>]
       [] i = split -> [f \in {Field("raw_text")} |-> <<"less", "tech", "digits", "more">>]
       [] i = keyed -> [f \in {Field("user"), Field("<ALERT_DATA>")} |-> <<"plain">>]]
MCTarget == {llama, gpt, claude}
MCProvider == [t \in MCTarget |-> CASE t = llama -> "ollama"
                                      [] t = gpt -> "openai"
                                      [] t = claude -> "anthropic"]
MCEndpoint == {local, lab, labWithKey, cloud}
MCDisplay == [e \in MCEndpoint \cup {Unset} |-> IF e = labWithKey THEN lab ELSE e]
MCDefault == [p \in Providers |-> IF p \in {"mock", "ollama"} THEN local ELSE cloud]
=============================================================================
