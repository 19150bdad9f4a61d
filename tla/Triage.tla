------------------------------- MODULE Triage -------------------------------
(***************************************************************************)
(* The pure steps of the pipeline of assistant/runner.py: redaction, view, *)
(* validation of the model's reply, and scoring.                           *)
(*                                                                         *)
(* A string is a sequence of pieces.  What a regular expression of the     *)
(* code looks for is two pieces side by side: the name of a secret and its *)
(* value, the letter and the digits of an ATT&CK code, the two halves of a *)
(* delimiter.  An alert maps fields to strings; a field is the key next to *)
(* the string and whether that key is at the top.                          *)
(***************************************************************************)
EXTENDS Integers, Sequences

Secret == <<"name", "value">>
Code == <<"tech", "digits">>

(* Where a pair of pieces is found in a string. *)
Starts(s, pair) ==
  {i \in DOMAIN s : i + 1 \in DOMAIN s /\ s[i] = pair[1] /\ s[i + 1] = pair[2]}
Ends(s, pair) == {i + 1 : i \in Starts(s, pair)}

-----------------------------------------------------------------------------
(* redact.py: of a secret the value goes and the name stays. *)

SensitiveKeys == {"password"}
RedactText(s) == [i \in DOMAIN s |-> IF i \in Ends(s, Secret) THEN "mark" ELSE s[i]]
Redact(a) ==
  [f \in DOMAIN a |-> IF f.key \in SensitiveKeys THEN <<"mark">> ELSE RedactText(a[f])]

(* views.py: labels go by name at the top, the denied key anywhere, other  *)
(* keys only with a code in their value. Then every code is cut out of the *)
(* strings, and what stood around it is joined.                            *)
LabelKeys == {"mitre", "rule_id", "rule_description", "evidence_file"}
KeyShaped == {"audit.key", "target_key"}
LooksLikeLabel(s) == Starts(s, Code) # {}
Label(a, f) ==
  \/ f.top /\ f.key \in LabelKeys
  \/ f.key = "audit.key"
  \/ f.key \in KeyShaped /\ LooksLikeLabel(a[f])
Strip(s) ==
  LET cut == Starts(s, Code) \cup Ends(s, Code)
      kept == SelectSeq([i \in DOMAIN s |-> i], LAMBDA i : i \notin cut)
  IN  [k \in DOMAIN kept |-> s[kept[k]]]
Evaluation(a) == [f \in {g \in DOMAIN a : ~Label(a, g)} |-> Strip(a[f])]
ApplyView(a, view) == IF view = "evaluation" THEN Evaluation(a) ELSE a

(* The alert inside the user prompt. *)
Prompt(a, view) == ApplyView(Redact(a), view)

-----------------------------------------------------------------------------
(* A reply: prose, a JSON object, something that is not even a string, or  *)
(* the object that runner.py puts in place of one when the call failed. Of *)
(* the object: the techniques in the ATT&CK field and the form of that     *)
(* field, the disposition, and whether the remaining fields are fine, too  *)
(* long (and cut), or wrong.                                               *)

Technique == {"T1.1", "T1", "T2"}
Base(t) == IF t = "T1.1" THEN "T1" ELSE t
Dispositions == {"likely_true_positive", "likely_benign", "needs_investigation"}
Reply == [kind : {"json", "prose", "parts", "error"}, codes : SUBSET Technique,
          form : {"empty", "ok", "loose", "typed"},
          disp : Dispositions \cup {"Likely_Benign", "odd", "typed"},
          rest : {"fine", "long", "wrong"}]
Blank(kind) == [kind |-> kind, codes |-> {}, form |-> "empty", disp |-> "odd", rest |-> "wrong"]

(* validate_output *)
ValidateSyntaxAside(r) == r.kind = "json" /\ r.disp \in Dispositions /\ r.rest = "fine"
Validate(r) ==
  r.kind = "json" /\ r.form \in {"empty", "ok"} /\ r.disp \in Dispositions /\ r.rest = "fine"

(* A disposition or an ATT&CK field that is not a string is not reported   *)
(* but raises TypeError, there or in scoring; a reply that is not a string *)
(* raises as soon as parse_response strips it.                             *)
Raises(r) == r.kind = "parts" \/ (r.kind = "json" /\ (r.form = "typed" \/ r.disp = "typed"))

(* scoring.py: the disposition is compared in lower case. *)
Lower(d) == IF d = "Likely_Benign" THEN "likely_benign" ELSE d

Score(truth, r) ==
  LET judged == r.kind = "json"
      exact == IF truth.benign THEN r.codes = {} ELSE r.codes \cap truth.codes # {}
      same == {Base(t) : t \in r.codes} \cap {Base(t) : t \in truth.codes} # {}
      relaxed == exact \/ (~truth.benign /\ same)
      fits == Lower(r.disp) \in IF truth.benign THEN {"likely_benign"}
                                ELSE Dispositions \ {"likely_benign"}
      consistent == /\ ~(Lower(r.disp) = "likely_benign" /\ r.codes # {})
                    /\ ~(Lower(r.disp) = "likely_true_positive" /\ r.codes = {})
  IN  [exact |-> judged /\ exact, relaxed |-> judged /\ relaxed, disp |-> judged /\ fits,
       consistent |-> judged /\ consistent,
       overall |-> judged /\ fits /\ relaxed /\ consistent]

(* One row of assistant_scoring.csv *)
Row(id, truth, r, valid) ==
  [alert |-> id, score |-> Score(truth, r), valid |-> valid,
   credit |-> valid /\ Score(truth, r).overall]
=============================================================================
