----------------------------- MODULE MCBatchRun -----------------------------
(* A corpus of an attack and a benign alert, which between them carry a    *)
(* secret, one that a code hides from redaction, a sensitive key, and every*)
(* place a label can be in; replies of every class that validation and     *)
(* scoring tell apart; one retry; one kill.                                *)
EXTENDS BatchRun, TLC

Field(top, key) == [top |-> top, key |-> key]

code == <<"tech", "digits">>
MCCorpus ==
  <<[id |-> "A01", truth |-> [benign |-> FALSE, codes |-> {"T1.1"}],
     alert |-> (Field(TRUE, "mitre") :> code) @@ (Field(FALSE, "mitre") :> <<"plain">> \o code)
       @@ (Field(FALSE, "audit.key") :> code \o <<"plain">>)
       @@ (Field(FALSE, "target_key") :> <<"plain">> \o code)
       @@ (Field(FALSE, "command") :> <<"name", "tech", "digits", "value">>)],
    [id |-> "A02", truth |-> [benign |-> TRUE, codes |-> {}],
     alert |-> (Field(TRUE, "rule_id") :> <<"plain">>) @@ (Field(FALSE, "password") :> <<"plain">>)
       @@ (Field(FALSE, "target_key") :> <<"plain">>)
       @@ (Field(FALSE, "command") :> <<"plain", "name", "value">>)]>>

Answer(codes, form, disp, rest) ==
  [kind |-> "json", codes |-> codes, form |-> form, disp |-> disp, rest |-> rest]

MCReplies ==
  {Answer({"T1.1"}, "ok", "likely_true_positive", "fine"),
   Answer({"T1"}, "ok", "likely_benign", "fine"),
   Answer({}, "empty", "likely_true_positive", "fine"),
   Answer({}, "empty", "likely_benign", "fine"),
   Answer({"T1"}, "loose", "needs_investigation", "fine"),
   Answer({}, "empty", "Likely_Benign", "long"),
   Answer({}, "typed", "needs_investigation", "fine"),
   Blank("prose")}

Setting(provider, official, reasoning, unusable) ==
  [provider |-> provider, official |-> official, reasoning |-> reasoning, effort |-> TRUE,
   top_p |-> TRUE, seed |-> FALSE, structured |-> TRUE, unusable |-> unusable]

MCConfigured ==
  {Setting("openai", TRUE, TRUE, "none"), Setting("ollama", FALSE, FALSE, "none"), Setting("anthropic", FALSE, FALSE, "none"),
   Setting("ollama", FALSE, FALSE, "request"), Setting("openai", TRUE, TRUE, "post")}
=============================================================================
