------------------------- MODULE PasteInspectProofs -------------------------
(***************************************************************************)
(* Theorems about the Paste & inspect tab, for every set of texts, targets *)
(* and endpoints and every number of runs.                                 *)
(***************************************************************************)
EXTENDS PasteInspect, TLAPS

LEMMA EndpointType ==
  ASSUME NEW t \in Target, NEW b \in [Configurable -> Endpoint \cup {Unset}]
  PROVE  /\ ConsentEndpoint(t, b) \in Endpoint
         /\ CallEndpoint(t, b) \in Endpoint
<1>1. Provider[t] \in Providers /\ Default[Provider[t]] \in Endpoint
  BY PasteAssumption
<1>2. ConsentEndpoint(t, b) \in Endpoint
  BY <1>1 DEF ConsentEndpoint
<1>3. QED
  BY <1>2 DEF CallEndpoint, Configurable

(* What the rerun leaves: the consent endpoint of the screen is what the   *)
(* environment holds, and the box is set only in the context shown.        *)
LEMMA RenderType ==
  ASSUME TypeOK, input' \in Input, target' \in Target,
         NEW typed \in Endpoint \cup {None}, NEW box \in BOOLEAN,
         NEW shown \in Contexts \cup {None},
         Render(typed, box, shown)
  PROVE  /\ base' \in [Configurable -> Endpoint \cup {Unset}]
         /\ consent' \in BOOLEAN
         /\ context' \in Contexts \cup {None}
<1>1. ConsentEndpoint(target', base) \in Endpoint
  BY EndpointType DEF TypeOK
<1>2. base' \in [Configurable -> Endpoint \cup {Unset}]
  BY <1>1 DEF Render, TypeOK
<1>3. ConsentContext(input', target', base') \in Contexts
  BY <1>2, EndpointType DEF ConsentContext, Contexts, Displays, TypeOK
<1>4. consent' \in BOOLEAN /\ context' \in Contexts \cup {None}
  BY <1>3 DEF Render
<1>5. QED
  BY <1>2, <1>4

LEMMA InitTypeOK == Init => TypeOK
<1> SUFFICES ASSUME Init
             PROVE  TypeOK
  OBVIOUS
<1>1. ConsentContext(input, target, base) \in Contexts
  BY EndpointType DEF Init, ConsentContext, Contexts, Displays
<1>2. context \in Contexts \cup {None} /\ consent \in BOOLEAN
  BY <1>1 DEF Init
<1>3. runs \in 0 .. MaxRuns /\ drafts \subseteq Nat
  BY PasteAssumption DEF Init
<1>4. QED
  BY <1>2, <1>3 DEF Init, TypeOK

LEMMA NextTypeOK ==
  ASSUME TypeOK, [Next]_vars
  PROVE  TypeOK'
<1>1. ASSUME NEW i \in Input, EditInput(i)
      PROVE  TypeOK'
  <2>1. input' \in Input /\ target' \in Target
    BY <1>1 DEF EditInput, TypeOK
  <2>2. base' \in [Configurable -> Endpoint \cup {Unset}] /\ consent' \in BOOLEAN
        /\ context' \in Contexts \cup {None}
    BY <1>1, <2>1, RenderType DEF EditInput
  <2>3. drafts' \subseteq Nat
    BY <1>1 DEF EditInput, Discard, KeptDrafts, TypeOK
  <2>4. QED
    BY <1>1, <2>1, <2>2, <2>3 DEF EditInput, Discard, TypeOK
<1>2. ASSUME NEW t \in Target, NEW v \in Views, NEW typed \in Endpoint \cup {None},
             Select(t, v, typed)
      PROVE  TypeOK'
  <2>1. input' \in Input /\ target' \in Target
    BY <1>2 DEF Select, TypeOK
  <2>2. base' \in [Configurable -> Endpoint \cup {Unset}] /\ consent' \in BOOLEAN
        /\ context' \in Contexts \cup {None}
    BY <1>2, <2>1, RenderType DEF Select, TypeOK
  <2>3. QED
    BY <1>2, <2>1, <2>2 DEF Select, TypeOK
<1>3. CASE Tick
  <2>1. input' \in Input /\ target' \in Target /\ (~ consent) \in BOOLEAN
    BY <1>3 DEF Tick, TypeOK, widgets
  <2>2. base' \in [Configurable -> Endpoint \cup {Unset}] /\ consent' \in BOOLEAN
        /\ context' \in Contexts \cup {None}
    BY <1>3, <2>1, RenderType DEF Tick, TypeOK
  <2>3. QED
    BY <1>3, <2>1, <2>2 DEF Tick, TypeOK, widgets
<1>4. CASE Run
  <2>1. input' \in Input /\ target' \in Target /\ view' \in Views
    BY <1>4 DEF Run, TypeOK, widgets
  <2>2. base' \in [Configurable -> Endpoint \cup {Unset}] /\ consent' \in BOOLEAN
        /\ context' \in Contexts \cup {None}
    BY <1>4, <2>1, RenderType DEF Run, TypeOK
  <2>3. /\ runs' \in 0 .. MaxRuns /\ runs + 1 \in Nat
        /\ ticked' \in Contexts \cup {None}
    BY <1>4, PasteAssumption DEF Run, TypeOK
  <2>8. drafts' \subseteq Nat
    BY <1>4 DEF Run, TypeOK, KeptDrafts
  <2>4. ASSUME NEW status \in Statuses
        PROVE  NewResult(status) \in Results
    <3>1. ConsentEndpoint(target, base') \in Endpoint
      BY <2>2, EndpointType DEF TypeOK
    <3>2. QED
      BY <2>3, <3>1 DEF NewResult, Results, Displays, TypeOK
  <2>5. result' \in Results \cup {None} /\ calling' \in Results \cup {None}
    BY <1>4, <2>4 DEF Run, Statuses
  <2>6. sent' \in Messages \cup {None}
    <3>1. CallEndpoint(target, base') \in Endpoint
      BY <2>2, EndpointType DEF TypeOK
    <3> DEFINE approved == ticked = <<input, target, Display[CallEndpoint(target, base')]>>
               data == UserMessage(ModelBound(input, view))
    <3>2. \/ sent' = None
          \/ input \in Usable /\ sent' = [lines |-> data, endpoint |-> CallEndpoint(target, base'),
                                         approved |-> approved]
      BY <1>4 DEF Run
    <3>3. approved \in BOOLEAN
      OBVIOUS
    <3>4. input \in Usable => data \in {UserMessage(ModelBound(i, v)) : i \in Usable, v \in Views}
      BY DEF TypeOK
    <3> HIDE DEF approved, data
    <3>5. QED
      BY <3>1, <3>2, <3>3, <3>4 DEF Messages
  <2>7. QED
    BY <2>1, <2>2, <2>3, <2>5, <2>6, <2>8 DEF TypeOK
<1>5. ASSUME NEW status \in {"ok", "error"}, FinishRun(status)
      PROVE  TypeOK'
  <2>1. calling \in Results
    BY <1>5 DEF FinishRun, TypeOK
  <2>2. result' \in Results
    BY <1>5, <2>1 DEF FinishRun, Results, Statuses
  <2>3. calling.id \in Nat
    BY <2>1 DEF Results
  <2>4. drafts' \subseteq Nat
    BY <1>5, <2>3 DEF FinishRun, TypeOK
  <2>5. QED
    BY <1>5, <2>2, <2>4 DEF FinishRun, TypeOK, widgets
<1>6. CASE UNCHANGED vars
  BY <1>6 DEF vars, TypeOK
<1>7. QED
  BY <1>1, <1>2, <1>3, <1>4, <1>5, <1>6 DEF Next

(* The types of the tab's state hold whatever the user does, in whatever   *)
(* order (paste_tab.py:39-92, paste_core.py:145-216).                      *)
THEOREM PasteTypeCorrect == Spec => []TypeOK
<1>1. TypeOK /\ [Next]_vars => TypeOK'
  BY NextTypeOK
<1>2. QED
  BY <1>1, InitTypeOK, PTL DEF Spec
-----------------------------------------------------------------------------
(* With the sidebar, the rerun leaves no doubt where a call would go.      *)
LEMMA RenderEndpoint ==
  ASSUME Sidebar, TypeOK, target' \in Target,
         NEW typed \in Endpoint \cup {None}, NEW box, NEW shown,
         Render(typed, box, shown)
  PROVE  CallEndpoint(target', base') = ConsentEndpoint(target', base')
<1>1. CASE Provider[target'] = "ollama"
  <2>1. ConsentEndpoint(target', base) \in Endpoint
    BY EndpointType DEF TypeOK
  <2>2. base'["ollama"] \in Endpoint
    BY <1>1, <2>1 DEF Render, TypeOK, Configurable
  <2>3. QED
    BY <2>2, PasteAssumption DEF CallEndpoint
<1>2. CASE Provider[target'] # "ollama"
  BY <1>2 DEF CallEndpoint
<1>3. QED
  BY <1>1, <1>2

(* A ticked box was last ticked in the context that was last shown. *)
ConsentInv ==
  /\ consent => ticked = context
  /\ ConsentIsBound

(* After a rerun the box is set only if it was set and the context is the  *)
(* one it was set in.                                                      *)
LEMMA RenderConsent ==
  ASSUME NEW typed, NEW box \in BOOLEAN, NEW shown, Render(typed, box, shown)
  PROVE  consent' => /\ box
                     /\ context' = shown
                     /\ context' = ConsentContext(input', target', base')
BY DEF Render

LEMMA NextConsentInv ==
  ASSUME Sidebar, TypeOK, ConsentInv, [Next]_vars
  PROVE  ConsentInv'
<1>1. ASSUME NEW i \in Input, EditInput(i)
      PROVE  ConsentInv'
  <2>1. ~ consent'
    BY <1>1, RenderConsent DEF EditInput
  <2>2. QED
    BY <1>1, <2>1 DEF EditInput, ConsentInv, ConsentIsBound
<1>2. ASSUME NEW t \in Target, NEW v \in Views, NEW typed \in Endpoint \cup {None},
             Select(t, v, typed)
      PROVE  ConsentInv'
  <2>1. consent' => consent /\ context' = context
    BY <1>2, RenderConsent DEF Select, TypeOK
  <2>2. QED
    BY <1>2, <2>1 DEF Select, ConsentInv, ConsentIsBound
<1>3. CASE Tick
  <2>1. consent' => ~ consent /\ context' = context
    BY <1>3, RenderConsent DEF Tick, TypeOK
  <2>2. QED
    BY <1>3, <2>1 DEF Tick, ConsentInv, ConsentIsBound
<1>4. CASE Run
  <2>1. /\ Render(None, consent, context)
        /\ input' = input /\ target' = target /\ ticked' = ticked
    BY <1>4 DEF Run, widgets
  <2>2. consent' => /\ consent /\ context' = context
                    /\ context' = ConsentContext(input, target, base')
    BY <2>1, RenderConsent DEF TypeOK
  <2>3. CallEndpoint(target, base') = ConsentEndpoint(target, base')
    BY <2>1, RenderEndpoint DEF TypeOK
  <2>4. CASE sent' = None
    BY <2>1, <2>2, <2>4 DEF ConsentInv, ConsentIsBound
  <2>5. CASE sent' # None
    <3>1. /\ sent'.endpoint = CallEndpoint(target, base')
          /\ sent'.approved = (ticked = <<input, target, Display[CallEndpoint(target, base')]>>)
          /\ RequiresConsent(target, base') => consent'
      BY <1>4, <2>5 DEF Run
    <3>2. ASSUME sent'.endpoint \notin Loopback
          PROVE  sent'.approved
      <4>1. RequiresConsent(target, base')
        BY <2>3, <3>1, <3>2, PasteAssumption DEF RequiresConsent, ConsentEndpoint, Configurable
      <4>2. ticked = ConsentContext(input, target, base')
        BY <2>2, <3>1, <4>1 DEF ConsentInv
      <4>3. QED
        BY <2>3, <3>1, <4>2 DEF ConsentContext
    <3>3. QED
      BY <2>1, <2>2, <3>2 DEF ConsentInv, ConsentIsBound
  <2>6. QED
    BY <2>4, <2>5
<1>5. ASSUME NEW status \in {"ok", "error"}, FinishRun(status)
      PROVE  ConsentInv'
  BY <1>5 DEF FinishRun, ConsentInv, ConsentIsBound
<1>6. CASE UNCHANGED vars
  BY <1>6 DEF vars, ConsentInv, ConsentIsBound
<1>7. QED
  BY <1>1, <1>2, <1>3, <1>4, <1>5, <1>6 DEF Next

(* Within the application, whose sidebar exports the base URL, no message  *)
(* leaves for an endpoint that is not loopback unless the box was last     *)
(* ticked with this text, provider, model and endpoint on screen           *)
(* (paste_tab.py:59-77, paste_core.py:193; README.md:251).                 *)
THEOREM Consent ==
  ASSUME Sidebar
  PROVE  Spec => []ConsentIsBound
<1>1. Init => ConsentInv
  BY DEF Init, ConsentInv, ConsentIsBound
<1>2. TypeOK /\ ConsentInv /\ [Next]_vars => TypeOK' /\ ConsentInv'
  BY NextTypeOK, NextConsentInv
<1>3. ConsentInv => ConsentIsBound
  BY DEF ConsentInv
<1>4. QED
  BY <1>1, <1>2, <1>3, InitTypeOK, PTL DEF Spec
-----------------------------------------------------------------------------
(* The call under way is of the text on screen, and nothing is on screen   *)
(* below it.                                                               *)
ResultInv ==
  /\ ResultIsOfInput
  /\ calling # None => calling.input = input /\ result = None

LEMMA DiscardLeavesNothing ==
  ASSUME ResultIsOfInput
  PROVE  KeptDrafts = {}
BY DEF ResultIsOfInput, KeptDrafts

LEMMA NextResultInv ==
  ASSUME None \notin Results, TypeOK, ResultInv, [Next]_vars
  PROVE  ResultInv'
<1> USE DEF ResultInv, ResultIsOfInput
<1>1. ASSUME NEW i \in Input, EditInput(i)
      PROVE  ResultInv'
  BY <1>1, DiscardLeavesNothing DEF EditInput, Discard
<1>2. ASSUME NEW t \in Target, NEW v \in Views, NEW typed \in Endpoint \cup {None},
             Select(t, v, typed)
      PROVE  ResultInv'
  BY <1>2 DEF Select
<1>3. CASE Tick
  BY <1>3 DEF Tick, widgets
<1>4. CASE Run
  <2>1. drafts' = {} /\ input' = input
    BY <1>4, DiscardLeavesNothing DEF Run, widgets
  <2>2. \A status : NewResult(status).input = input
    BY DEF NewResult
  <2>3. result' # None => result'.input = input'
    BY <1>4, <2>1, <2>2 DEF Run
  <2>4. calling' # None => calling'.input = input' /\ result' = None
    BY <1>4, <2>1, <2>2 DEF Run
  <2>5. QED
    BY <2>1, <2>3, <2>4
<1>5. ASSUME NEW status \in {"ok", "error"}, FinishRun(status)
      PROVE  ResultInv'
  <2>1. calling \in Results /\ calling.input = input /\ drafts = {}
    BY <1>5 DEF FinishRun, TypeOK
  <2>2. result' \in Results /\ result'.input = input /\ result'.id = calling.id
    BY <1>5, <2>1 DEF FinishRun, Results, Statuses
  <2>3. drafts' \subseteq {result'.id}
    BY <1>5, <2>1, <2>2 DEF FinishRun
  <2>4. calling' = None /\ sent' = None /\ input' = input
    BY <1>5 DEF FinishRun, widgets
  <2>5. QED
    BY <2>2, <2>3, <2>4
<1>6. CASE UNCHANGED vars
  BY <1>6 DEF vars
<1>7. QED
  BY <1>1, <1>2, <1>3, <1>4, <1>5, <1>6 DEF Next

(* The result and the draft on screen belong to the text on screen, also   *)
(* when the user edits, selects or runs again during a model call          *)
(* (paste_tab.py:17-29, :79-92; README.md:253).                            *)
THEOREM ResultBelongs ==
  ASSUME None \notin Results
  PROVE  Spec => []ResultIsOfInput
<1>1. Init => ResultInv
  BY DEF Init, ResultInv, ResultIsOfInput
<1>2. TypeOK /\ ResultInv /\ [Next]_vars => TypeOK' /\ ResultInv'
  BY NextTypeOK, NextResultInv
<1>3. ResultInv => ResultIsOfInput
  BY DEF ResultInv
<1>4. QED
  BY <1>1, <1>2, <1>3, InitTypeOK, PTL DEF Spec

-----------------------------------------------------------------------------
(* Escaping other characters neither makes nor breaks a delimiter: what    *)
(* the gate judges of its own serialization holds of the message.          *)
LEMMA EscapeKeepsDelimiters ==
  ASSUME NEW s
  PROVE  Starts(Escape(s), Delimiter) = Starts(s, Delimiter)
<1>1. DOMAIN Escape(s) = DOMAIN s
  BY DEF Escape
<1>2. \A k \in DOMAIN s : (Escape(s)[k] = "less" <=> s[k] = "less") /\ (Escape(s)[k] = "more" <=> s[k] = "more")
  BY DEF Escape
<1>3. QED
  BY <1>1, <1>2 DEF Starts, Delimiter

LEMMA SameDelimiters ==
  ASSUME NEW a
  PROVE  Delimited(UserMessage(a)) <=> Delimited(Lines(a))
<1>1. \A l \in Lines(a) : /\ Starts(Escape(l.key), Delimiter) = Starts(l.key, Delimiter)
                         /\ Starts(Escape(l.value), Delimiter) = Starts(l.value, Delimiter)
  BY EscapeKeepsDelimiters
<1> DEFINE E(l) == [key |-> Escape(l.key), value |-> Escape(l.value)]
           Bad(l) == Starts(l.key, Delimiter) # {} \/ Starts(l.value, Delimiter) # {}
<1>2. \A l \in Lines(a) : Bad(E(l)) <=> Bad(l)
  BY <1>1
<1>3. Delimited(Lines(a)) <=> \E l \in Lines(a) : Bad(l)
  BY DEF Delimited
<1>4. Delimited(UserMessage(a)) <=> \E l \in {E(k) : k \in Lines(a)} : Bad(l)
  BY DEF Delimited, UserMessage
<1> HIDE DEF E, Bad
<1>5. QED
  BY <1>2, <1>3, <1>4

LEMMA NextNoDelimiter ==
  ASSUME NoDelimiterSent, [Next]_vars
  PROVE  NoDelimiterSent'
<1>1. CASE Run
  <2> SUFFICES ASSUME sent' # None
               PROVE  ~ Delimited(sent'.lines)
    BY DEF NoDelimiterSent, Delimited
  <2>1. sent'.lines = UserMessage(ModelBound(input, view)) /\ ~ ContainsBoundary(input, view)
    BY <1>1 DEF Run
  <2>2. QED
    BY <2>1, SameDelimiters DEF ContainsBoundary
<1>2. CASE UNCHANGED vars
  BY <1>2 DEF vars, NoDelimiterSent, Delimited
<1>3. CASE ~Run /\ ~UNCHANGED vars
  <2>1. sent' = None
    BY <1>3 DEF Next, EditInput, Select, Tick, FinishRun
  <2>2. QED
    BY <2>1 DEF NoDelimiterSent
<1>4. QED
  BY <1>1, <1>2, <1>3

(* No message that leaves holds a delimiter, whatever the texts and        *)
(* whichever view is selected: the gate, on a serialization of its own,    *)
(* misses none of those in the message (paste_core.py:175-191,             *)
(* injection.py:83-91, prompts.py:98-105; README.md:250).                *)
THEOREM NoDelimiter == Spec => []NoDelimiterSent
<1>1. Init => NoDelimiterSent
  BY DEF Init, NoDelimiterSent
<1>2. NoDelimiterSent /\ [Next]_vars => NoDelimiterSent'
  BY NextNoDelimiter
<1>3. QED
  BY <1>1, <1>2, PTL DEF Spec
=============================================================================
