---------------------------- MODULE PasteInspect ----------------------------
(***************************************************************************)
(* The "Paste & inspect" tab: paste_tab.render over the pipeline           *)
(* run_paste_pipeline, in one browser session of the Streamlit app.        *)
(*                                                                         *)
(* Every event of the user reruns the whole script.  A rerun is one step,  *)
(* except that the script stops in the model call; an event that arrives   *)
(* meanwhile makes Streamlit abandon that run, and its answer is lost.     *)
(* Redaction and view are those of Triage.                                 *)
(***************************************************************************)
EXTENDS Naturals, Triage

CONSTANTS
  Input,      \* texts one may paste
  Usable,     \* those of them that parse_input and _check_limits accept
  Text,       \* Text[i]: the alert that is parsed from a usable text
  Target,     \* what the sidebar selects: a provider and a model
  Provider,   \* Provider[t]: the provider of target t
  Endpoint,   \* base URLs
  Loopback,   \* those of them that _is_loopback_endpoint accepts
  Display,    \* Display[e]: what display_endpoint shows of e, a base URL or nothing
  Default,    \* Default[p]: the base URL of provider p when nothing is set
  Unset,      \* the value of an environment variable that is not set
  None,       \* no result, no context, no message
  Sidebar,    \* app.py's sidebar exports the base URL, or nobody does
  MaxRuns     \* bound: how often "Run" is clicked

Providers == {"mock", "ollama", "openai", "anthropic"}
Configurable == {"ollama", "openai"}
Views == {"operational", "evaluation"}

ASSUME PasteAssumption ==
  /\ Usable \subseteq Input
  /\ Provider \in [Target -> Providers]
  /\ Loopback \subseteq Endpoint
  /\ Default \in [Providers -> Endpoint]
  /\ Default["mock"] \in Loopback
  /\ Unset \notin Endpoint
  /\ Sidebar \in BOOLEAN
  /\ MaxRuns \in Nat

VARIABLES
  input, target, view,  \* the widgets
  base,      \* base[p]: the environment's OLLAMA_BASE_URL and OPENAI_BASE_URL
  consent,   \* session_state["paste_consent"], the checkbox
  context,   \* session_state["paste_consent_context"]
  result,    \* session_state["paste_result"]
  drafts,    \* the results whose editable draft the session keeps, by id
  calling,   \* the result whose model call is under way
  runs,      \* how many times "Run" was clicked; it numbers the results
  ticked,    \* history: what was on screen when the box was last ticked
  sent       \* history: the message that left in the last step

widgets == <<input, target, view>>
vars == <<input, target, view, base, consent, context, result, drafts, calling,
          runs, ticked, sent>>

-----------------------------------------------------------------------------
(* Mutant of ConsentEndpoint: no default for a variable that is not set. *)
ConsentEndpointOrUnset(t, b) ==
  LET p == Provider[t]
  IN  IF p \in Configurable THEN b[p] ELSE Default[p]

(* provider_endpoint: where the consent gate takes the data to go. *)
ConsentEndpoint(t, b) ==
  LET p == Provider[t]
  IN  IF p \in Configurable /\ b[p] # Unset THEN b[p] ELSE Default[p]

(* provider_request_info: where the client sends it. OPENAI_BASE_URL is a  *)
(* fallback for OLLAMA_BASE_URL.                                           *)
CallEndpoint(t, b) ==
  IF Provider[t] = "ollama" /\ b["ollama"] = Unset /\ b["openai"] # Unset
  THEN b["openai"]
  ELSE ConsentEndpoint(t, b)

RequiresConsent(t, b) ==
  Provider[t] # "mock" /\ ConsentEndpoint(t, b) \notin Loopback

ConsentContext(i, t, b) == <<i, t, Display[ConsentEndpoint(t, b)]>>

-----------------------------------------------------------------------------
(* The delimiter of the data block, and the one key that is one. *)
Delimiter == <<"less", "more">>
KeyText(key) == IF key = "<ALERT_DATA>" THEN Delimiter ELSE <<"plain">>

(* json.dumps of an alert: a set of lines, since the quotes keep keys and  *)
(* values apart. The gate serializes with ensure_ascii=False; the prompt is*)
(* serialized again, with every other character escaped.                   *)
Lines(a) == {[key |-> KeyText(f.key), value |-> a[f]] : f \in DOMAIN a}
Escape(s) == [k \in DOMAIN s |-> IF s[k] = "accent" THEN "escape" ELSE s[k]]
UserMessage(a) == {[key |-> Escape(l.key), value |-> Escape(l.value)] : l \in Lines(a)}

Delimited(lines) == \E l \in lines : Starts(l.key, Delimiter) # {} \/ Starts(l.value, Delimiter) # {}

ModelBound(i, v) == Prompt(Text[i], v)

(* Mutant of ContainsBoundary: the gate scans the text before the view. *)
ContainsBoundaryBeforeView(i, v) == Delimited(Lines(Redact(Text[i])))

ContainsBoundary(i, v) == Delimited(Lines(ModelBound(i, v)))

(* _config_changed *)
Stale(r) == <<r.input, r.target, r.view>> # widgets

-----------------------------------------------------------------------------
(* _discard_result_state pops the draft together with its result. *)
KeptDrafts == IF result = None THEN drafts ELSE drafts \ {result.id}

Discard == result' = None /\ drafts' = KeptDrafts

(* Mutant of Render: the box keeps its tick whatever was on screen then. *)
RenderKeepsTick(typed, box, shown) ==
  /\ LET p == Provider[target'] IN
     base' = IF Sidebar /\ p \in Configurable
             THEN [base EXCEPT ![p] = IF typed # None THEN typed
                                      ELSE ConsentEndpoint(target', base)]
             ELSE base
  /\ LET c == ConsentContext(input', target', base') IN
     IF RequiresConsent(target', base')
     THEN consent' = box /\ context' = c
     ELSE consent' = FALSE /\ context' = shown

(* The part of the script above the "Run" button.  The sidebar exports the *)
(* base URL it shows; the checkbox is cleared when it was ticked in        *)
(* another context, and forgotten when it is not rendered.                 *)
Render(typed, box, shown) ==
  /\ LET p == Provider[target'] IN
     base' = IF Sidebar /\ p \in Configurable
             THEN [base EXCEPT ![p] = IF typed # None THEN typed
                                      ELSE ConsentEndpoint(target', base)]
             ELSE base
  /\ LET c == ConsentContext(input', target', base') IN
     IF RequiresConsent(target', base')
     THEN consent' = (box /\ shown = c) /\ context' = c
     ELSE consent' = FALSE /\ context' = shown

(* Mutant of EditInput: an example is loaded over the old result. *)
EditInputKeepsResult(i) ==
  /\ input' = i
  /\ UNCHANGED <<target, view, result, drafts, runs, ticked>>
  /\ Render(None, FALSE, None)
  /\ calling' = None
  /\ sent' = None

(* Another text: the text area's on_change and the example buttons. *)
EditInput(i) ==
  /\ input' = i
  /\ UNCHANGED <<target, view, runs, ticked>>
  /\ Discard
  /\ Render(None, FALSE, None)
  /\ calling' = None
  /\ sent' = None

(* The sidebar: provider, model, view or prompt (both stand in "view"), or *)
(* the base URL of the provider.                                           *)
Select(t, v, typed) ==
  /\ target' = t
  /\ view' = v
  /\ UNCHANGED input
  /\ Render(typed, consent, context)
  /\ calling' = None
  /\ sent' = None
  /\ UNCHANGED <<result, drafts, runs, ticked>>

Tick ==
  /\ RequiresConsent(target, base)
  /\ UNCHANGED widgets
  /\ Render(None, ~ consent, context)
  /\ ticked' = IF consent THEN None ELSE context
  /\ calling' = None
  /\ sent' = None
  /\ UNCHANGED <<result, drafts, runs>>

NewResult(status) ==
  [id |-> runs + 1, input |-> input, target |-> target, view |-> view,
   endpoint |-> Display[ConsentEndpoint(target, base')], status |-> status]

(* "Run": the old result goes first. Then unusable input, the boundary     *)
(* gate and the consent gate, in this order, keep the call from happening. *)
Run ==
  /\ runs < MaxRuns
  /\ runs' = runs + 1
  /\ UNCHANGED <<widgets, ticked>>
  /\ Render(None, consent, context)
  /\ drafts' = KeptDrafts
  /\ \/ /\ input \notin Usable
        /\ result' = None /\ calling' = None /\ sent' = None
     \/ /\ input \in Usable
        /\ ContainsBoundary(input, view)
        /\ result' = NewResult("blocked_boundary") /\ calling' = None /\ sent' = None
     \/ /\ input \in Usable
        /\ ~ ContainsBoundary(input, view)
        /\ RequiresConsent(target, base') /\ ~ consent'
        /\ result' = NewResult("blocked_consent") /\ calling' = None /\ sent' = None
     \/ /\ input \in Usable
        /\ ~ ContainsBoundary(input, view)
        /\ RequiresConsent(target, base') => consent'
        /\ result' = None
        /\ calling' = NewResult("not_called")
        /\ sent' = [lines |-> UserMessage(ModelBound(input, view)),
                    endpoint |-> CallEndpoint(target, base'),
                    approved |-> ticked = <<input, target, Display[CallEndpoint(target, base')]>>]

(* The call comes back, or raises; only an answer that parsed has a draft. *)
FinishRun(status) ==
  /\ calling # None
  /\ result' = [calling EXCEPT !.status = status]
  /\ drafts' = IF status = "ok" THEN drafts \cup {calling.id} ELSE drafts
  /\ calling' = None
  /\ sent' = None
  /\ UNCHANGED <<widgets, base, consent, context, runs, ticked>>

-----------------------------------------------------------------------------
Init ==
  /\ input \in Input /\ target \in Target /\ view \in Views
  /\ base \in [Configurable -> Endpoint \cup {Unset}]
  /\ Sidebar /\ Provider[target] \in Configurable => base[Provider[target]] # Unset
  /\ consent = FALSE
  /\ context = IF RequiresConsent(target, base) THEN ConsentContext(input, target, base) ELSE None
  /\ result = None
  /\ drafts = {}
  /\ calling = None
  /\ runs = 0
  /\ ticked = None
  /\ sent = None

Next ==
  \/ \E i \in Input : EditInput(i)
  \/ \E t \in Target, v \in Views, typed \in Endpoint \cup {None} : Select(t, v, typed)
  \/ Tick
  \/ Run
  \/ \E status \in {"ok", "error"} : FinishRun(status)

Spec == Init /\ [][Next]_vars

-----------------------------------------------------------------------------
Statuses == {"not_called", "ok", "error", "blocked_boundary", "blocked_consent"}

Displays == {Display[e] : e \in Endpoint}

Results == [id : Nat, input : Input, target : Target, view : Views,
            endpoint : Displays, status : Statuses]

Messages == [lines : {UserMessage(ModelBound(i, v)) : i \in Usable, v \in Views},
             endpoint : Endpoint, approved : BOOLEAN]

Contexts == Input \X Target \X Displays

(* The types of the state. *)
TypeOK ==
  /\ input \in Input /\ target \in Target /\ view \in Views
  /\ base \in [Configurable -> Endpoint \cup {Unset}]
  /\ consent \in BOOLEAN
  /\ context \in Contexts \cup {None}
  /\ result \in Results \cup {None}
  /\ drafts \subseteq Nat
  /\ calling \in Results \cup {None}
  /\ runs \in 0 .. MaxRuns
  /\ ticked \in Contexts \cup {None}
  /\ sent \in Messages \cup {None}

(* A message leaves for an endpoint that is not loopback only if the box   *)
(* was last ticked with this text, provider, model and endpoint on screen, *)
(* the endpoint without its credentials and query, as it is shown,         *)
(* however often they changed and changed back since, and whatever became  *)
(* of earlier calls (README.md:251, paste_core.py:13, :86).                *)
ConsentIsBound == sent # None /\ sent.endpoint \notin Loopback => sent.approved

(* In the data of a message that leaves there is no literal delimiter: not *)
(* in a key, not in a value, not one that only the selected view has put   *)
(* together, and not one that the gate, which serializes the data for      *)
(* itself, could have missed (paste_core.py:12, README.md:250).            *)
NoDelimiterSent == sent # None => ~ Delimited(sent.lines)

(* The result on screen is always of the text on screen, and a draft is    *)
(* kept for that result only: neither an edit, an example, a rerun nor the *)
(* answer to an abandoned call brings an old one back (README.md:253).     *)
ResultIsOfInput ==
  /\ result # None => result.input = input
  /\ drafts \subseteq (IF result = None THEN {} ELSE {result.id})

(* What the interface says of stale results (README.md:253: "Configuration *)
(* changes mark a result stale"; paste_tab.py:98-100: "Sidebar settings    *)
(* differ"): a result that is not marked stale was generated under the     *)
(* settings on screen, the endpoint with them.                             *)
EndpointChangeIsStale ==
  result # None /\ ~ Stale(result) => result.endpoint = Display[ConsentEndpoint(target, base)]
=============================================================================
