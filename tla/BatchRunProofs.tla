--------------------------- MODULE BatchRunProofs ---------------------------
(***************************************************************************)
(* Theorems about the batch run and its rebuild, for every corpus, every   *)
(* set of replies and settings, and any number of retries and kills.       *)
(***************************************************************************)
EXTENDS BatchRun, FiniteSetTheorems, SequenceTheorems, TLAPS

Prompts == {PromptOf[i] : i \in DOMAIN Corpus}
PostType == [alert : DOMAIN Corpus, prompt : Prompts, payload : {Payload(s) : s \in Configured},
             outcome : Outcomes, said : Reply]
Metas == SUBSET {"config", "response"}
LineType == [alert : DOMAIN Corpus, prompt : Prompts, meta : Metas,
             config : {{}} \cup {RequestConfig(s) : s \in Configured},
             status : {"error", "parse_error", "valid", "schema_invalid"}, raw : Reply]
RowType == {Row(Corpus[i].id, Corpus[i].truth, r, v) :
              i \in DOMAIN Corpus, r \in Reply, v \in BOOLEAN}
Waiting == {"ready", "headers", "body"}
FileStates == {"absent", "partial", "whole"}

Typed ==
  /\ settings \in Configured
  /\ call \in {"idle", "returned"} \cup Waiting /\ quiet \in BOOLEAN /\ attempts \in Seq(Outcomes)
  /\ posts \in Seq(PostType)
  /\ returned \in [failed : BOOLEAN, meta : Metas, reply : Reply]
  /\ pc \in {"next", "call", "close", "json", "csv"} \cup Over
  /\ at \in 0 .. Len(Corpus) /\ lines \in Seq(LineType) /\ rows \in Seq(RowType)
  /\ disk \in 0 .. Len(lines) /\ torn \in BOOLEAN /\ (torn => disk < Len(lines))
  /\ files \in [Names -> [state : FileStates, rows : Seq(RowType)]]
  /\ step \in {"idle", "json", "csv"}

(* One line and one row for every alert that was done with. *)
Phase ==
  /\ Len(rows) = Len(lines) /\ Len(lines) \in {at, at - 1}
  /\ pc = "next" => Len(lines) = at
  /\ pc = "call" => Len(lines) = at - 1
  /\ pc \in {"close", "json", "csv", "over"} => Len(lines) = Len(Corpus)

(* A failed call leaves no reply to be scored. *)
Failed == returned.failed => returned.reply.kind = "error"

(* The row of a line is that of its raw reply. *)
Scored ==
  \A i \in 1 .. Len(lines) :
    /\ lines[i].alert = i
    /\ lines[i].prompt = PromptOf[i]
    /\ rows[i] = Row(Corpus[i].id, Corpus[i].truth, lines[i].raw, Validate(lines[i].raw))

(* What is known of the posts for an alert, what was told of them, and     *)
(* what was made of the answer.                                            *)
Numbers(a) == {k \in DOMAIN posts : posts[k].alert = a}
Told(a, meta) ==
  /\ Numbers(a) # {} /\ (\A k \in Numbers(a) : posts[k].outcome \in Promised) => "config" \in meta
  /\ \A k \in Numbers(a) : posts[k].outcome = "empty" => "response" \in meta
Heard(a, reply) ==
  /\ \A k \in Numbers(a) : posts[k].outcome \in Bodies => reply = posts[k].said
  /\ (\A k \in Numbers(a) : posts[k].outcome \notin Bodies) => reply = Blank("error")

Sent ==
  \A k \in DOMAIN posts :
    /\ posts[k].alert <= at
    /\ posts[k].prompt = PromptOf[posts[k].alert]
    /\ posts[k].payload = Payload(settings)

Calling ==
  pc = "call" =>
    /\ call = "idle" => Numbers(at) = {}
    /\ call # "idle" => IsFiniteSet(Numbers(at)) /\ Cardinality(Numbers(at)) = Len(attempts)
    /\ call \in Waiting =>
         Len(attempts) <= Retries /\ \A k \in Numbers(at) : posts[k].outcome \in Transient
    /\ call = "returned" => Told(at, returned.meta) /\ Heard(at, returned.reply)

Logged ==
  \A i \in 1 .. Len(lines) :
    /\ Told(i, lines[i].meta) /\ Heard(i, lines[i].raw)
    /\ lines[i].config = IF "config" \in lines[i].meta THEN RequestConfig(settings) ELSE {}

(* Only what may pass is posted again, and so often. *)
Repeats ==
  /\ \A j, k \in DOMAIN posts :
       j < k /\ posts[j].alert = posts[k].alert => posts[j].outcome \in Transient
  /\ \A a \in DOMAIN Corpus : Cardinality(Numbers(a)) <= Retries + 1

(* The outputs of a run come after its log is closed, those of a rebuild   *)
(* after the run is over.                                                  *)
Complete == Len(lines) = Len(Corpus) /\ disk = Len(lines) /\ ~torn
Files ==
  /\ pc \in {"json", "csv", "over"} => Complete
  /\ files["run.json"].state # "absent" \/ files["run.csv"].state # "absent" =>
       Complete /\ pc \in {"json", "csv"} \cup Over
  /\ step # "idle" => pc \in Over
  /\ \A f \in {"rebuilt.json", "rebuilt.csv"} :
       /\ files[f].state # "absent" => pc \in Over
       /\ files[f].state = "whole" => files[f].rows = SubSeq(rows, 1, disk)

IInv ==
  /\ Typed /\ Phase /\ Failed /\ Scored /\ Sent /\ Calling /\ Logged /\ Files
  /\ Repeats

-----------------------------------------------------------------------------
(* The functions of the pipeline. *)

(* request_config describes the payload that was built from the same       *)
(* settings, for every provider and every option.                          *)
LEMMA ConfigIsPayload ==
  ASSUME NEW s \in Settings
  PROVE  RequestConfig(s) = Payload(s)
<1>1. s.provider \in {"anthropic", "openai", "ollama"}
  BY DEF Settings
<1>2. CASE s.provider = "anthropic"
  BY <1>2 DEF RequestConfig, Payload, Reasoning
<1>3. CASE s.provider = "openai"
  BY <1>3 DEF RequestConfig, Payload, Reasoning
<1>4. CASE s.provider = "ollama"
  BY <1>4 DEF RequestConfig, Payload, Reasoning
<1>5. QED
  BY <1>1, <1>2, <1>3, <1>4

(* Credit, by the rules of scoring and of validation. *)
LEMMA CreditMeans ==
  ASSUME NEW r \in Reply, NEW truth \in [benign : BOOLEAN, codes : SUBSET Technique],
         Validate(r), Score(truth, r).overall
  PROVE  /\ r.kind = "json" /\ r.form # "loose" /\ r.rest = "fine"
         /\ truth.benign <=> r.disp = "likely_benign"
         /\ r.disp = "likely_benign" => r.codes = {}
         /\ r.disp = "likely_true_positive" => r.codes # {}
         /\ ~truth.benign => {Base(t) : t \in r.codes} \cap {Base(t) : t \in truth.codes} # {}
<1>1. r.kind = "json" /\ r.form # "loose" /\ r.rest = "fine" /\ r.disp \in Dispositions
  BY DEF Validate
<1>2. Lower(r.disp) = r.disp
  BY <1>1 DEF Lower, Dispositions
<1> DEFINE exact == IF truth.benign THEN r.codes = {} ELSE r.codes \cap truth.codes # {}
           same == {Base(t) : t \in r.codes} \cap {Base(t) : t \in truth.codes} # {}
           fits == r.disp \in IF truth.benign THEN {"likely_benign"} ELSE Dispositions \ {"likely_benign"}
           consistent == /\ ~(r.disp = "likely_benign" /\ r.codes # {})
                         /\ ~(r.disp = "likely_true_positive" /\ r.codes = {})
<1>3. fits /\ (exact \/ (~truth.benign /\ same)) /\ consistent
  BY <1>1, <1>2 DEF Score
<1>4. truth.benign <=> r.disp = "likely_benign"
  BY <1>1, <1>3
<1>5. ~truth.benign => same
  <2> SUFFICES ASSUME ~truth.benign, r.codes \cap truth.codes # {}
               PROVE  same
    BY <1>3
  <2>1. PICK t \in r.codes \cap truth.codes : TRUE
    OBVIOUS
  <2>2. Base(t) \in {Base(u) : u \in r.codes} \cap {Base(u) : u \in truth.codes}
    BY <2>1
  <2>3. QED
    BY <2>2
<1>6. QED
  BY <1>1, <1>3, <1>4, <1>5

LEMMA BlankIsReply ==
  /\ Blank("error") \in Reply /\ Blank("error").kind = "error" /\ ~Validate(Blank("error"))
  /\ Blank("prose") \in Reply /\ Blank("parts") \in Reply
BY DEF Blank, Reply, Technique, Dispositions, Validate

-----------------------------------------------------------------------------
(* The steps. *)

(* What was logged and sent stays so while neither log nor posts change.   *)
LEMMA RecordsStay ==
  ASSUME IInv, UNCHANGED <<settings, posts, lines, rows>>, at' \in Nat, at <= at'
  PROVE  Scored' /\ Sent' /\ Logged' /\ Repeats'
<1>1. \A a : Numbers(a)' = Numbers(a)
  BY DEF Numbers
<1>3. Scored' /\ Repeats'
  BY <1>1 DEF IInv, Scored, Repeats
<1>4. Logged'
  <2> SUFFICES ASSUME NEW i \in 1 .. Len(lines)
               PROVE  /\ Told(i, lines[i].meta)' /\ Heard(i, lines[i].raw)'
                      /\ lines[i].config = IF "config" \in lines[i].meta THEN RequestConfig(settings) ELSE {}
    BY DEF Logged
  <2>1. Told(i, lines[i].meta) /\ Heard(i, lines[i].raw)
    BY DEF IInv, Logged
  <2>2. Told(i, lines[i].meta)' /\ Heard(i, lines[i].raw)'
    BY <1>1, <2>1 DEF Told, Heard
  <2>3. QED
    BY <2>2 DEF IInv, Logged
<1>5. Sent'
  <2> SUFFICES ASSUME NEW k \in DOMAIN posts
               PROVE  /\ posts[k].alert <= at'
                      /\ posts[k].prompt = PromptOf[posts[k].alert]
                      /\ posts[k].payload = Payload(settings)
    BY DEF Sent
  <2>0. posts[k] \in PostType
    BY ElementOfSeq, LenProperties DEF IInv, Typed
  <2>1. posts[k].alert \in Nat /\ posts[k].alert <= at
    BY <2>0, BatchAssumption DEF IInv, Sent, PostType
  <2>2. at \in Nat
    BY BatchAssumption DEF IInv, Typed
  <2>3. QED
    BY <2>1, <2>2 DEF IInv, Sent
<1>6. QED
  BY <1>3, <1>4, <1>5

(* The files do not change, and the run neither reaches its end nor leaves *)
(* it.                                                                     *)
LEMMA FilesStay ==
  ASSUME IInv, UNCHANGED <<files, step>>, pc \in {"next", "call", "close"},
         pc' \in {"next", "call", "close", "killed", "raised"}
  PROVE  Files'
BY DEF IInv, Files, Over

LEMMA InitIInv == Init => IInv
<1> SUFFICES ASSUME Init
             PROVE  IInv
  OBVIOUS
<1>1. lines = <<>> /\ rows = <<>> /\ posts = <<>> /\ attempts = <<>> /\ at = 0 /\ disk = 0 /\ pc = "next"
  BY DEF Init
<1>2. returned \in [failed : BOOLEAN, meta : Metas, reply : Reply]
  BY BlankIsReply DEF Init, Metas
<1>3. files \in [Names -> [state : FileStates, rows : Seq(RowType)]]
  BY EmptySeq DEF Init, Absent, FileStates
<1>4. Typed
  <2>1. attempts \in Seq(Outcomes) /\ posts \in Seq(PostType) /\ lines \in Seq(LineType) /\ rows \in Seq(RowType)
    BY <1>1, EmptySeq
  <2>2. at \in 0 .. Len(Corpus) /\ disk \in 0 .. Len(lines)
    BY <1>1, BatchAssumption, EmptySeq
  <2>3. torn \in BOOLEAN /\ ~torn /\ quiet \in BOOLEAN
    BY Zenon DEF Init
  <2>4. settings \in Configured /\ call = "idle" /\ pc = "next" /\ step = "idle"
    BY DEF Init
  <2>5. QED
    BY <1>2, <1>3, <2>1, <2>2, <2>3, <2>4 DEF Typed
<1>5. Phase /\ Scored /\ Sent /\ Calling /\ Logged
  BY <1>1 DEF Phase, Scored, Sent, Calling, Logged
<1>9. Repeats
  <2>1. \A a : Numbers(a) = {}
    BY <1>1 DEF Numbers
  <2>2. Cardinality({}) = 0 /\ Retries \in Nat
    BY FS_EmptySet, PostAssumption
  <2>3. \A a \in DOMAIN Corpus : Cardinality(Numbers(a)) <= Retries + 1
    BY <2>1, <2>2
  <2>4. DOMAIN posts = {}
    BY <1>1
  <2>5. QED
    BY <2>3, <2>4 DEF Repeats
<1>6. Failed
  BY BlankIsReply DEF Init, Failed
<1>7. Files
  BY DEF Init, Files, Absent, Names
<1>8. QED
  BY <1>4, <1>5, <1>6, <1>7, <1>9 DEF IInv

LEMMA TakeIInv ==
  ASSUME IInv, Take, UNCHANGED <<settings, step>>
  PROVE  IInv'
<1>1. /\ pc = "next" /\ UNCHANGED <<quiet, attempts, posts, returned, lines, rows, disk, torn, files, settings, step>>
      /\ at \in 0 .. Len(Corpus) /\ Len(Corpus) \in Nat /\ Len(lines) = at /\ Len(rows) = Len(lines)
  BY BatchAssumption DEF Take, IInv, Typed, Phase
<1>2. CASE at = Len(Corpus) /\ pc' = "close" /\ UNCHANGED <<at, call>>
  <2>1. Typed' /\ Phase' /\ Failed' /\ Calling'
    BY <1>1, <1>2 DEF IInv, Typed, Phase, Failed, Calling
  <2>2. Scored' /\ Sent' /\ Logged' /\ Repeats'
    BY <1>1, <1>2, RecordsStay
  <2>3. Files'
    BY <1>1, <1>2, FilesStay
  <2>4. QED
    BY <2>1, <2>2, <2>3 DEF IInv
<1>3. CASE at # Len(Corpus) /\ pc' = "call" /\ at' = at + 1 /\ call' = "idle"
  <2>1. Typed' /\ Phase' /\ Failed'
    BY <1>1, <1>3 DEF IInv, Typed, Phase, Failed
  <2>2. Scored' /\ Sent' /\ Logged' /\ Repeats'
    BY <1>1, <1>3, RecordsStay
  <2>3. Numbers(at + 1) = {}
    BY <1>1 DEF IInv, Sent, Numbers
  <2>4. Numbers(at)' = {}
    BY <1>1, <1>3, <2>3 DEF Numbers
  <2>5. Calling'
    BY <1>3, <2>4 DEF Calling, Waiting
  <2>6. Files'
    BY <1>1, <1>3, FilesStay
  <2>7. QED
    BY <2>1, <2>2, <2>5, <2>6 DEF IInv
<1>4. QED
  BY <1>2, <1>3 DEF Take

LEMMA BeginIInv ==
  ASSUME IInv, pc = "call", Begin, UNCHANGED batch, UNCHANGED <<settings, step>>
  PROVE  IInv'
<1>1. /\ call = "idle" /\ attempts' = <<>>
      /\ UNCHANGED <<posts, quiet, pc, at, lines, rows, disk, torn, files, settings, step>>
  BY DEF Begin, batch
<1>2. \/ call' = "ready" /\ returned' = returned
      \/ \E m \in Metas : call' = "returned" /\ returned' = [failed |-> TRUE, meta |-> m, reply |-> Blank("error")]
  <2>1. {} \in Metas /\ {"config"} \in Metas
    BY DEF Metas
  <2>2. CASE settings.unusable = "request"
    BY <2>1, <2>2 DEF Begin, Return
  <2>3. CASE settings.unusable = "post"
    BY <2>1, <2>3 DEF Begin, Return
  <2>4. CASE settings.unusable \notin {"request", "post"}
    BY <2>4 DEF Begin
  <2>5. QED
    BY <2>2, <2>3, <2>4
<1>3. returned' \in [failed : BOOLEAN, meta : Metas, reply : Reply] /\ call' \in {"ready", "returned"}
  <2>1. CASE call' = "ready" /\ returned' = returned
    BY <2>1 DEF IInv, Typed
  <2>2. CASE \E m \in Metas : call' = "returned" /\ returned' = [failed |-> TRUE, meta |-> m, reply |-> Blank("error")]
    BY <2>2, BlankIsReply
  <2>3. QED
    BY <1>2, <2>1, <2>2
<1>4. Typed' /\ Phase'
  BY <1>1, <1>3, EmptySeq DEF IInv, Typed, Phase, Waiting
<1>5. Failed'
  BY <1>2, BlankIsReply DEF IInv, Failed
<1>6. Numbers(at) = {} /\ Numbers(at)' = {}
  BY <1>1 DEF IInv, Calling, Numbers
<1>7. Calling'
  <2>1. IsFiniteSet(Numbers(at)') /\ Cardinality(Numbers(at)') = Len(attempts')
    BY <1>1, <1>6, FS_EmptySet, EmptySeq
  <2>2. Len(attempts') <= Retries
    BY <1>1, PostAssumption
  <2>3. Told(at, returned.meta)'
    BY <1>6 DEF Told
  <2>4. call' = "returned" => Heard(at, returned.reply)'
    BY <1>2, <1>6 DEF Heard
  <2>5. QED
    BY <1>3, <1>6, <2>1, <2>2, <2>3, <2>4 DEF Calling, Waiting
<1>8. Scored' /\ Sent' /\ Logged' /\ Repeats'
  <2>1. at' \in Nat /\ at <= at'
    BY <1>1, BatchAssumption DEF IInv, Typed
  <2>2. QED
    BY <1>1, <2>1, RecordsStay
<1>9. Files'
  BY <1>1, FilesStay
<1>10. QED
  BY <1>4, <1>5, <1>7, <1>8, <1>9 DEF IInv

(* While a post is prepared or under way, nothing is recorded. *)
LEMMA WaitingIInv ==
  ASSUME IInv, pc = "call", Send \/ Wait \/ Arrive \/ Dribble, UNCHANGED batch, UNCHANGED <<settings, step>>
  PROVE  IInv'
<1>1. /\ call \in Waiting /\ call' \in Waiting /\ quiet' \in BOOLEAN
      /\ UNCHANGED <<attempts, posts, returned, pc, at, lines, rows, disk, torn, files, settings, step>>
  BY DEF Send, Wait, Arrive, Dribble, UnderWay, Waiting, batch
<1>2. Typed' /\ Phase' /\ Failed'
  BY <1>1 DEF IInv, Typed, Phase, Failed
<1>3. Calling'
  BY <1>1 DEF IInv, Calling, Numbers, Waiting
<1>4. Scored' /\ Sent' /\ Logged' /\ Repeats'
  <2>1. at' \in Nat /\ at <= at'
    BY <1>1, BatchAssumption DEF IInv, Typed
  <2>2. QED
    BY <1>1, <2>1, RecordsStay
<1>5. Files'
  BY <1>1, FilesStay
<1>6. QED
  BY <1>2, <1>3, <1>4, <1>5 DEF IInv

(* What is told and what is said of the end of a post. *)
LEMMA EndIsKnown ==
  ASSUME NEW s, NEW o \in Outcomes, NEW reply \in Reply
  PROVE  /\ Described(s, o) \in Metas /\ Said(s, o, reply) \in Reply /\ Accepted(s, o) \in BOOLEAN
         /\ o \in Promised => "config" \in Described(s, o)
         /\ o = "empty" => "response" \in Described(s, o)
         /\ o \notin Bodies => Said(s, o, reply) = Blank("error")
         /\ ~Accepted(s, o) => Said(s, o, reply) = Blank("error")
<1>1. Described(s, o) \in Metas /\ (o = "empty" => "response" \in Described(s, o))
  BY DEF Described, Metas
<1>2. Said(s, o, reply) \in Reply
  BY BlankIsReply DEF Said
<1>3. Accepted(s, o) \in BOOLEAN
  BY Zenon DEF Accepted
<1>4. o \in Promised => "config" \in Described(s, o)
  BY DEF Promised, Described, Transient, Failures
<1>5. o \notin Bodies => Said(s, o, reply) = Blank("error")
  BY DEF Bodies, Said
<1>6. ~Accepted(s, o) => Said(s, o, reply) = Blank("error")
  BY DEF Accepted, Said
<1>7. QED
  BY <1>1, <1>2, <1>3, <1>4, <1>5, <1>6

LEMMA EndIInv ==
  ASSUME IInv, pc = "call", UnderWay, NEW o \in Outcomes, NEW reply \in Reply,
         End(at, PromptOf[at], o, reply), UNCHANGED batch, UNCHANGED <<settings, step>>
  PROVE  IInv'
<1> DEFINE n == Len(posts) + 1
           said == Said(settings, o, reply)
           ok == Accepted(settings, o)
           meta == Described(settings, o)
           p == [alert |-> at, prompt |-> PromptOf[at], payload |-> Payload(settings), outcome |-> o, said |-> said]
<1>1. /\ call \in Waiting /\ quiet' = FALSE
      /\ UNCHANGED <<pc, at, lines, rows, disk, torn, files, settings, step>>
  BY DEF UnderWay, Waiting, End, batch
<1>2. /\ attempts' = Append(attempts, o)
      /\ posts' = Append(posts, p)
      /\ \/ Again(o) /\ call' = "ready" /\ returned' = returned
         \/ ~Again(o) /\ call' = "returned" /\ returned' = [failed |-> ~ok, meta |-> meta, reply |-> said]
  BY DEF End, Return
<1>3. /\ at \in Nat /\ at \in DOMAIN Corpus /\ Len(lines) = at - 1 /\ Len(lines) \in Nat
      /\ lines \in Seq(LineType)
  BY <1>1, BatchAssumption, LenProperties DEF IInv, Typed, Phase
<1>20. /\ meta \in Metas /\ said \in Reply /\ ok \in BOOLEAN
       /\ o \in Promised => "config" \in meta
       /\ o = "empty" => "response" \in meta
       /\ o \notin Bodies => said = Blank("error")
       /\ ~ok => said = Blank("error")
  BY EndIsKnown
<1> HIDE DEF said, ok, meta
<1>4. p \in PostType
  BY <1>3, <1>20 DEF PostType, Prompts, IInv, Typed
<1>5. /\ posts' \in Seq(PostType) /\ Len(posts') = n /\ Len(posts) \in Nat
      /\ DOMAIN posts = 1 .. Len(posts) /\ DOMAIN posts' = 1 .. n
      /\ \A k \in DOMAIN posts : posts'[k] = posts[k]
      /\ posts'[n] = p
  <2>1. posts \in Seq(PostType)
    BY DEF IInv, Typed
  <2> HIDE DEF p
  <2>2. QED
    BY <1>2, <1>4, <2>1, AppendProperties, LenProperties
<1>6. attempts' \in Seq(Outcomes) /\ Len(attempts') = Len(attempts) + 1 /\ Len(attempts) \in Nat
  BY <1>2, AppendProperties, LenProperties DEF IInv, Typed
<1> HIDE DEF n
<1>7. n \in Nat /\ n \notin DOMAIN posts /\ DOMAIN posts' = DOMAIN posts \cup {n}
  BY <1>5 DEF n
<1>8. Numbers(at)' = Numbers(at) \cup {n} /\ n \notin Numbers(at)
  <2>1. posts'[n].alert = at
    BY <1>5
  <2>2. \A k \in DOMAIN posts : posts'[k].alert = posts[k].alert
    BY <1>5
  <2>3. Numbers(at)' = {k \in DOMAIN posts' : posts'[k].alert = at}
    BY <1>1 DEF Numbers
  <2>4. QED
    BY <1>7, <2>1, <2>2, <2>3 DEF Numbers
<1>9. \A a : a # at => {k \in DOMAIN posts' : posts'[k].alert = a} = Numbers(a)
  <2> SUFFICES ASSUME NEW a, a # at
               PROVE  {k \in DOMAIN posts' : posts'[k].alert = a} = Numbers(a)
    OBVIOUS
  <2>1. posts'[n].alert # a
    BY <1>5
  <2>2. \A k \in DOMAIN posts : posts'[k].alert = posts[k].alert
    BY <1>5
  <2>3. QED
    BY <1>7, <2>1, <2>2 DEF Numbers
<1>10. /\ IsFiniteSet(Numbers(at)') /\ Cardinality(Numbers(at)') = Len(attempts')
       /\ Len(attempts) <= Retries
       /\ \A k \in Numbers(at) : posts[k].outcome \in Transient
  <2>1. /\ IsFiniteSet(Numbers(at)) /\ Cardinality(Numbers(at)) = Len(attempts)
        /\ Len(attempts) <= Retries
        /\ \A k \in Numbers(at) : posts[k].outcome \in Transient
    BY <1>1 DEF IInv, Calling, Waiting
  <2>2. /\ IsFiniteSet(Numbers(at) \cup {n})
        /\ Cardinality(Numbers(at) \cup {n}) = Cardinality(Numbers(at)) + 1
    BY <1>8, <2>1, FS_AddElement
  <2>3. QED
    BY <1>6, <1>8, <2>1, <2>2
<1>21. \A k \in Numbers(at) : posts'[k] = posts[k] /\ posts[k].outcome \in Transient
  BY <1>5, <1>10 DEF Numbers
<1>22. n \in Numbers(at)' /\ posts'[n].outcome = o /\ posts'[n].said = said
  BY <1>5, <1>8
<1>11. Typed' /\ Phase'
  <2>1. returned' \in [failed : BOOLEAN, meta : Metas, reply : Reply] /\ call' \in {"idle", "returned"} \cup Waiting
    <3>1. CASE Again(o) /\ call' = "ready" /\ returned' = returned
      BY <3>1 DEF IInv, Typed, Waiting
    <3>2. CASE returned' = [failed |-> ~ok, meta |-> meta, reply |-> said] /\ call' = "returned"
      <4>1. (~ok) \in BOOLEAN
        BY <1>20, Zenon
      <4>2. QED
        BY <1>20, <3>2, <4>1
    <3>3. QED
      BY <1>2, <3>1, <3>2
  <2>2. quiet' \in BOOLEAN
    BY <1>1, Zenon
  <2>3. QED
    BY <1>1, <1>5, <1>6, <2>1, <2>2 DEF IInv, Typed, Phase
<1>12. Failed'
  <2>1. CASE returned' = returned
    BY <2>1 DEF IInv, Failed
  <2>2. CASE returned' = [failed |-> ~ok, meta |-> meta, reply |-> said]
    <3>1. (~ok) \in BOOLEAN /\ returned'.failed = ~ok /\ returned'.reply = said
      BY <1>20, <2>2, Zenon
    <3>2. QED
      BY <1>20, <3>1, BlankIsReply DEF Failed
  <2>3. QED
    BY <1>2, <2>1, <2>2
<1>13. Calling'
  <2>2. CASE Again(o) /\ call' = "ready" /\ returned' = returned
    <3>1. Len(attempts') <= Retries
      BY <1>6, <2>2, PostAssumption DEF Again
    <3>2. \A k \in Numbers(at)' : posts'[k].outcome \in Transient
      BY <1>8, <1>21, <1>22, <2>2 DEF Again
    <3>3. QED
      BY <1>1, <1>10, <2>2, <3>1, <3>2 DEF Calling
  <2>3. CASE call' = "returned" /\ returned' = [failed |-> ~ok, meta |-> meta, reply |-> said]
    <3>1. returned'.meta = meta /\ returned'.reply = said
      BY <2>3
    <3>2. \A k \in Numbers(at)' : k = n \/ posts'[k].outcome \in Transient
      BY <1>8, <1>21
    <3>3. \A k \in Numbers(at)' : posts'[k].outcome = "empty" => "response" \in returned'.meta
      BY <1>20, <1>22, <3>1, <3>2 DEF Transient
    <3>4. (\A k \in Numbers(at)' : posts'[k].outcome \in Promised) => "config" \in returned'.meta
      BY <1>20, <1>22, <3>1
    <3>5. \A k \in Numbers(at)' : posts'[k].outcome \in Bodies => returned'.reply = posts'[k].said
      BY <1>22, <3>1, <3>2 DEF Transient, Bodies
    <3>6. (\A k \in Numbers(at)' : posts'[k].outcome \notin Bodies) => returned'.reply = Blank("error")
      BY <1>20, <1>22, <3>1
    <3>7. Told(at, returned.meta)' /\ Heard(at, returned.reply)'
      BY <3>3, <3>4, <3>5, <3>6 DEF Told, Heard
    <3>8. QED
      BY <1>10, <2>3, <3>7 DEF Calling, Waiting
  <2>4. QED
    BY <1>2, <2>2, <2>3
<1>14. Scored'
  BY <1>1 DEF IInv, Scored
<1>15. Sent'
  <2>1. \A k \in DOMAIN posts : /\ posts'[k].alert <= at' /\ posts'[k].prompt = PromptOf[posts'[k].alert]
                                /\ posts'[k].payload = Payload(settings')
    BY <1>1, <1>5 DEF IInv, Sent
  <2>2. /\ posts'[n].alert <= at' /\ posts'[n].prompt = PromptOf[posts'[n].alert]
        /\ posts'[n].payload = Payload(settings')
    BY <1>1, <1>3, <1>5
  <2>3. QED
    BY <1>7, <2>1, <2>2 DEF Sent
<1>16. Logged'
  <2> SUFFICES ASSUME NEW i \in 1 .. Len(lines)
               PROVE  /\ Told(i, lines[i].meta)' /\ Heard(i, lines[i].raw)'
                      /\ lines[i].config = IF "config" \in lines[i].meta THEN RequestConfig(settings) ELSE {}
    BY <1>1 DEF Logged
  <2>1. i # at
    BY <1>3
  <2>2. Numbers(i)' = Numbers(i)
    BY <1>9, <2>1 DEF Numbers
  <2>3. \A k \in Numbers(i) : posts'[k] = posts[k]
    BY <1>5 DEF Numbers
  <2>4. Told(i, lines[i].meta) /\ Heard(i, lines[i].raw)
    BY DEF IInv, Logged
  <2>5. QED
    BY <1>1, <2>2, <2>3, <2>4 DEF Told, Heard, IInv, Logged
<1>17. Files'
  BY <1>1, FilesStay
<1>18. Repeats'
  <2>1. ASSUME NEW i \in DOMAIN posts', NEW j \in DOMAIN posts', i < j, posts'[i].alert = posts'[j].alert
        PROVE  posts'[i].outcome \in Transient
    <3>1. i \in DOMAIN posts
      BY <1>5, <2>1 DEF n
    <3>2. CASE j \in DOMAIN posts
      BY <1>5, <2>1, <3>1, <3>2 DEF IInv, Repeats
    <3>3. CASE j = n
      BY <1>5, <1>10, <2>1, <3>1, <3>3 DEF Numbers
    <3>4. QED
      BY <1>7, <3>2, <3>3
  <2>2. ASSUME NEW a \in DOMAIN Corpus
        PROVE  Cardinality(Numbers(a)') <= Retries + 1
    <3>1. CASE a = at
      BY <1>1, <1>6, <1>10, <3>1, PostAssumption
    <3>2. CASE a # at
      <4>1. Numbers(a)' = Numbers(a)
        BY <1>9, <3>2 DEF Numbers
      <4>2. QED
        BY <4>1 DEF IInv, Repeats
    <3>3. QED
      BY <3>1, <3>2
  <2>3. QED
    BY <2>1, <2>2 DEF Repeats
<1>19. QED
  BY <1>11, <1>12, <1>13, <1>14, <1>15, <1>16, <1>17, <1>18 DEF IInv

(* What the runner calls valid is what validation of the reply says.       *)
LEMMA LineIsFaithful ==
  ASSUME IInv, pc = "call"
  PROVE  LET line == Line(Validate(returned.reply))
         IN  /\ line \in LineType
             /\ (line.status = "valid") = Validate(line.raw)
<1> DEFINE line == Line(Validate(returned.reply))
<1>1. at \in DOMAIN Corpus /\ returned \in [failed : BOOLEAN, meta : Metas, reply : Reply]
      /\ settings \in Configured
  BY BatchAssumption, LenProperties DEF IInv, Typed, Phase
<1>2. line.raw = returned.reply /\ line.alert = at /\ line.prompt = PromptOf[at] /\ line.meta = returned.meta
  BY DEF Line
<1>3. line.config \in {{}} \cup {RequestConfig(s) : s \in Configured}
  BY <1>1 DEF Line
<1>4. line.status \in {"error", "parse_error", "valid", "schema_invalid"}
      /\ (line.status = "valid" <=> Validate(line.raw))
  <2>1. CASE returned.failed
    BY <2>1 DEF Line, IInv, Failed, Validate
  <2>2. CASE ~returned.failed /\ returned.reply.kind = "prose"
    BY <2>2 DEF Line, Validate
  <2>3. CASE ~returned.failed /\ returned.reply.kind # "prose"
    BY <2>3 DEF Line
  <2>4. QED
    BY <2>1, <2>2, <2>3
<1>5. line = [alert |-> line.alert, prompt |-> line.prompt, meta |-> line.meta, config |-> line.config,
              status |-> line.status, raw |-> line.raw]
  BY DEF Line
<1>6. Validate(line.raw) \in BOOLEAN
  BY Zenon DEF Validate
<1>7. (line.status = "valid") = Validate(line.raw)
  BY <1>4, <1>6, Zenon
<1> HIDE DEF line
<1>8. PromptOf[at] \in Prompts
  BY <1>1 DEF Prompts
<1>9. line \in LineType
  BY <1>1, <1>2, <1>3, <1>4, <1>5, <1>8 DEF LineType
<1>10. QED
  BY <1>7, <1>9 DEF line

LEMMA RecordIInv ==
  ASSUME IInv, Record, UNCHANGED <<settings, step>>
  PROVE  IInv'
<1> DEFINE line == Line(Validate(returned.reply))
           row == Row(Corpus[at].id, Corpus[at].truth, line.raw, Validate(line.raw))
<1>1. /\ pc = "call" /\ call = "returned" /\ pc' = "next" /\ call' = "idle"
      /\ UNCHANGED <<quiet, attempts, posts, returned, at, disk, torn, files, settings, step>>
  BY DEF Record
<1>2. line \in LineType /\ (line.status = "valid") = Validate(line.raw)
  BY <1>1, LineIsFaithful
<1>3. lines' = Append(lines, line) /\ rows' = Append(rows, row)
  BY <1>2 DEF Record, Now
<1>4. /\ line.alert = at /\ line.prompt = PromptOf[at] /\ line.raw = returned.reply
      /\ line.meta = returned.meta
      /\ line.config = IF "config" \in line.meta THEN RequestConfig(settings) ELSE {}
  BY DEF Line
<1> HIDE DEF line
<1>5. /\ at \in DOMAIN Corpus /\ at \in Nat /\ at >= 1 /\ at <= Len(Corpus) /\ Len(lines) = at - 1 /\ Len(rows) = at - 1
      /\ lines \in Seq(LineType) /\ rows \in Seq(RowType)
  BY <1>1, BatchAssumption, LenProperties DEF IInv, Typed, Phase
<1>6. row \in RowType
  <2>1. Validate(line.raw) \in BOOLEAN
    BY Zenon DEF Validate
  <2>2. line.raw \in Reply
    BY <1>4 DEF IInv, Typed
  <2>3. QED
    BY <1>5, <2>1, <2>2 DEF RowType
<1>7. /\ lines' \in Seq(LineType) /\ Len(lines') = at /\ lines'[at] = line
      /\ \A i \in 1 .. at - 1 : lines'[i] = lines[i]
  BY <1>2, <1>3, <1>5, AppendProperties
<1>8. /\ rows' \in Seq(RowType) /\ Len(rows') = at /\ rows'[at] = row
      /\ \A i \in 1 .. at - 1 : rows'[i] = rows[i]
  BY <1>3, <1>5, <1>6, AppendProperties
<1>9. 1 .. at = (1 .. at - 1) \cup {at}
  BY <1>5
<1>10. Typed' /\ Phase'
  BY <1>1, <1>5, <1>7, <1>8 DEF IInv, Typed, Phase
<1>11. Failed' /\ Sent' /\ Repeats' /\ Calling'
  BY <1>1 DEF IInv, Failed, Sent, Repeats, Numbers, Calling
<1>12. Scored'
  <2>1. \A i \in 1 .. at - 1 :
          /\ lines'[i].alert = i /\ lines'[i].prompt = PromptOf[i]
          /\ rows'[i] = Row(Corpus[i].id, Corpus[i].truth, lines'[i].raw, Validate(lines'[i].raw))
    BY <1>5, <1>7, <1>8 DEF IInv, Scored
  <2>2. /\ lines'[at].alert = at /\ lines'[at].prompt = PromptOf[at]
        /\ rows'[at] = Row(Corpus[at].id, Corpus[at].truth, lines'[at].raw, Validate(lines'[at].raw))
    BY <1>4, <1>7, <1>8
  <2>3. QED
    BY <1>7, <1>9, <2>1, <2>2 DEF Scored
<1>13. Logged'
  <2> SUFFICES ASSUME NEW i \in 1 .. at
               PROVE  /\ Told(i, lines'[i].meta) /\ Heard(i, lines'[i].raw)
                      /\ lines'[i].config = IF "config" \in lines'[i].meta THEN RequestConfig(settings) ELSE {}
    BY <1>1, <1>7 DEF Logged, Told, Heard, Numbers
  <2>2. CASE i \in 1 .. at - 1
    BY <1>5, <1>7, <2>2 DEF IInv, Logged
  <2>3. CASE i = at
    BY <1>1, <1>4, <1>7, <2>3 DEF IInv, Calling
  <2>4. QED
    BY <1>9, <2>2, <2>3
<1>14. Files'
  BY <1>1 DEF IInv, Files, Over
<1>15. QED
  BY <1>10, <1>11, <1>12, <1>13, <1>14 DEF IInv

LEMMA UnhandledIInv ==
  ASSUME IInv, Unhandled, UNCHANGED <<settings, step>>
  PROVE  IInv'
<1>1. /\ pc = "call" /\ pc' = "raised" /\ disk' = Len(lines) /\ torn' = FALSE
      /\ UNCHANGED <<call, quiet, attempts, posts, returned, at, lines, rows, files, settings, step>>
  BY DEF Unhandled, callVars
<1>2. Len(lines) \in Nat /\ at \in Nat
  BY BatchAssumption, LenProperties DEF IInv, Typed
<1>3. Typed' /\ Phase' /\ Failed' /\ Calling'
  <2>1. torn' \in BOOLEAN /\ ~torn'
    BY <1>1, Zenon
  <2>2. pc' \in {"next", "call", "close", "json", "csv"} \cup Over /\ disk' \in 0 .. Len(lines')
    BY <1>1, <1>2 DEF Over
  <2>3. Typed'
    BY <1>1, <2>1, <2>2 DEF IInv, Typed
  <2>4. QED
    BY <1>1, <2>3 DEF IInv, Phase, Failed, Calling
<1>4. Scored' /\ Sent' /\ Logged' /\ Repeats'
  BY <1>1, <1>2, RecordsStay
<1>5. Files'
  BY <1>1, FilesStay
<1>6. QED
  BY <1>3, <1>4, <1>5 DEF IInv

LEMMA CloseIInv ==
  ASSUME IInv, Close, UNCHANGED <<settings, step>>
  PROVE  IInv'
<1>1. /\ pc = "close" /\ pc' = "json" /\ disk' = Len(lines) /\ torn' = FALSE
      /\ UNCHANGED <<call, quiet, attempts, posts, returned, at, lines, rows, files, settings, step>>
  BY DEF Close, callVars
<1>2. Len(lines) \in Nat /\ at \in Nat
  BY BatchAssumption, LenProperties DEF IInv, Typed
<1>3. Typed' /\ Phase' /\ Failed' /\ Calling'
  <2>1. torn' \in BOOLEAN /\ ~torn'
    BY <1>1, Zenon
  <2>2. pc' \in {"next", "call", "close", "json", "csv"} \cup Over /\ disk' \in 0 .. Len(lines')
    BY <1>1, <1>2 DEF Over
  <2>3. Typed'
    BY <1>1, <2>1, <2>2 DEF IInv, Typed
  <2>4. QED
    BY <1>1, <2>3 DEF IInv, Phase, Failed, Calling
<1>4. Scored' /\ Sent' /\ Logged' /\ Repeats'
  BY <1>1, <1>2, RecordsStay
<1>5. Complete'
  BY <1>1 DEF IInv, Phase, Complete
<1>6. Files'
  BY <1>1, <1>5 DEF IInv, Files, Over
<1>7. QED
  BY <1>3, <1>4, <1>6 DEF IInv

(* What a rebuild makes of the lines in the file is what the run scored.   *)
LEMMA RebuiltIsScored ==
  ASSUME IInv
  PROVE  Rebuilt \in Seq(RowType) /\ Rebuilt = SubSeq(rows, 1, disk)
<1>1. /\ rows \in Seq(RowType) /\ Len(rows) = Len(lines) /\ Len(lines) \in Nat /\ disk \in 0 .. Len(lines)
  BY LenProperties DEF IInv, Typed, Phase
<1>2. \A i \in 1 .. disk : i \in 1 .. Len(lines) /\ i \in 1 .. Len(rows)
  BY <1>1
<1>3. \A i \in 1 .. disk : RebuiltRow(lines[i]) = rows[i]
  BY <1>2 DEF RebuiltRow, IInv, Scored
<1>4. \A i \in 1 .. disk : rows[i] \in RowType
  BY <1>1, <1>2, ElementOfSeq
<1>5. Rebuilt \in Seq(RowType) /\ Len(Rebuilt) = disk /\ \A i \in 1 .. disk : Rebuilt[i] = rows[i]
  BY <1>1, <1>3, <1>4 DEF Rebuilt
<1>6. /\ SubSeq(rows, 1, disk) \in Seq(RowType) /\ Len(SubSeq(rows, 1, disk)) = disk
      /\ \A i \in 1 .. disk : SubSeq(rows, 1, disk)[i] = rows[i]
  BY <1>1, <1>4, SubSeqProperties
<1>7. QED
  BY <1>5, <1>6, SeqEqual

LEMMA WriteIInv ==
  ASSUME IInv, Write, UNCHANGED <<settings, step>>
  PROVE  IInv'
<1>1. /\ pc \in {"json", "csv"} /\ pc' \in {"json", "csv", "over"}
      /\ UNCHANGED <<call, quiet, attempts, posts, returned, at, lines, rows, disk, torn, settings, step>>
  BY DEF Write, callVars
<1>2. PICK file \in {"run.json", "run.csv"}, v \in {Whole(rows), Partial} : files' = [files EXCEPT ![file] = v]
  BY DEF Write, Put
<1>3. at \in Nat /\ Complete
  BY <1>1, BatchAssumption DEF IInv, Typed, Files
<1>4. v \in [state : FileStates, rows : Seq(RowType)]
  <2>1. Partial \in [state : FileStates, rows : Seq(RowType)]
    BY EmptySeq DEF Partial, FileStates
  <2>2. Whole(rows) \in [state : FileStates, rows : Seq(RowType)]
    BY DEF Whole, FileStates, IInv, Typed
  <2>3. QED
    BY <2>1, <2>2
<1>5. /\ files' \in [Names -> [state : FileStates, rows : Seq(RowType)]]
      /\ \A f \in {"rebuilt.json", "rebuilt.csv"} : files'[f] = files[f]
  BY <1>2, <1>4 DEF IInv, Typed, Names
<1>6. Typed'
  BY <1>1, <1>5 DEF IInv, Typed, Over
<1>7. Phase' /\ Failed' /\ Calling'
  BY <1>1, <1>3 DEF IInv, Phase, Failed, Calling, Complete
<1>8. Scored' /\ Sent' /\ Logged' /\ Repeats'
  BY <1>1, <1>3, RecordsStay
<1>9. Complete'
  BY <1>1, <1>3 DEF Complete
<1>10. Files'
  BY <1>1, <1>5, <1>9 DEF IInv, Files, Over
<1>11. QED
  BY <1>6, <1>7, <1>8, <1>10 DEF IInv

LEMMA RebuilderIInv ==
  ASSUME IInv, Rebuilder
  PROVE  IInv'
<1>1. UNCHANGED <<settings, call, quiet, attempts, posts, returned, pc, at, lines, rows, disk, torn>>
  BY DEF Rebuilder, RebuildWrite, Rebuild, callVars
<1>2. /\ pc \in Over /\ step' \in {"idle", "json", "csv"}
      /\ files' \in [Names -> [state : FileStates, rows : Seq(RowType)]]
      /\ \A f \in {"run.json", "run.csv"} : files'[f] = files[f]
      /\ \A f \in {"rebuilt.json", "rebuilt.csv"} :
           files'[f].state = "whole" => files'[f].rows = SubSeq(rows, 1, disk)
  <2>1. /\ files \in [Names -> [state : FileStates, rows : Seq(RowType)]]
        /\ \A f \in {"rebuilt.json", "rebuilt.csv"} :
             files[f].state = "whole" => files[f].rows = SubSeq(rows, 1, disk)
    BY DEF IInv, Typed, Files
  <2>2. Partial \in [state : FileStates, rows : Seq(RowType)] /\ Partial.state # "whole"
    BY EmptySeq DEF Partial, FileStates
  <2>3. /\ Whole(Rebuilt) \in [state : FileStates, rows : Seq(RowType)]
        /\ Whole(Rebuilt).rows = SubSeq(rows, 1, disk)
    BY RebuiltIsScored DEF Whole, FileStates
  <2>4. CASE RebuildWrite
    <3>1. pc \in Over /\ step' \in {"idle", "json", "csv"}
      BY <2>4 DEF RebuildWrite, IInv, Files
    <3>2. CASE files' = [files EXCEPT !["rebuilt.json"] = Whole(Rebuilt), !["rebuilt.csv"] = Partial]
      BY <2>1, <2>2, <2>3, <3>1, <3>2 DEF Names
    <3>3. CASE files' = [files EXCEPT !["rebuilt.csv"] = Whole(Rebuilt)]
      BY <2>1, <2>3, <3>1, <3>3 DEF Names
    <3>4. QED
      BY <2>4, <3>2, <3>3 DEF RebuildWrite
  <2>5. CASE \E overwrite \in BOOLEAN : Rebuild(overwrite)
    <3>1. pc \in Over /\ step' = "json" /\ files' = [files EXCEPT !["rebuilt.json"] = Partial]
      BY <2>5 DEF Rebuild
    <3>2. QED
      BY <2>1, <2>2, <3>1 DEF Names
  <2>6. QED
    BY <2>4, <2>5 DEF Rebuilder
<1>3. at \in Nat
  BY BatchAssumption DEF IInv, Typed
<1>4. Typed' /\ Phase' /\ Failed'
  BY <1>1, <1>2 DEF IInv, Typed, Phase, Failed
<1>8. Calling'
  BY <1>1 DEF IInv, Calling, Told, Heard, Numbers
<1>5. Scored' /\ Sent' /\ Logged' /\ Repeats'
  BY <1>1, <1>3, RecordsStay
<1>6. Files'
  BY <1>1, <1>2 DEF IInv, Files, Complete
<1>7. QED
  BY <1>4, <1>5, <1>6, <1>8 DEF IInv

LEMMA FlushIInv ==
  ASSUME IInv, Flush
  PROVE  IInv'
<1>1. /\ pc \notin Over
      /\ UNCHANGED <<settings, call, quiet, attempts, posts, returned, pc, at, lines, rows, files, step>>
  BY DEF Flush, callVars
<1>2. PICK n \in disk .. Len(lines), t \in BOOLEAN :
        (t => n < Len(lines)) /\ <<n, t>> # <<disk, torn>> /\ disk' = n /\ torn' = t
  BY DEF Flush
<1>3. Len(lines) \in Nat /\ disk \in 0 .. Len(lines) /\ at \in Nat
  BY BatchAssumption, LenProperties DEF IInv, Typed
<1>4. disk' \in 0 .. Len(lines)
  BY <1>2, <1>3
<1>5. torn' \in BOOLEAN /\ (torn' => disk' < Len(lines))
  BY <1>2, Zenon
<1>6. Typed'
  BY <1>1, <1>4, <1>5 DEF IInv, Typed
<1>7. Phase' /\ Failed'
  BY <1>1 DEF IInv, Phase, Failed
<1>12. Calling'
  BY <1>1 DEF IInv, Calling, Told, Heard, Numbers
<1>8. Scored' /\ Sent' /\ Logged' /\ Repeats'
  BY <1>1, <1>3, RecordsStay
<1>9. ~Complete
  <2> SUFFICES ASSUME disk = Len(lines), ~torn
               PROVE  FALSE
    BY DEF Complete
  <2>1. n = Len(lines)
    BY <1>2, <1>3
  <2>2. ~t
    BY <1>2, <1>3, <2>1
  <2>3. t = torn
    BY <2>2, Zenon DEF IInv, Typed
  <2>4. QED
    BY <1>2, <2>1, <2>3, Zenon
<1>10. Files'
  BY <1>1, <1>9 DEF IInv, Files
<1>11. QED
  BY <1>6, <1>7, <1>8, <1>10, <1>12 DEF IInv

LEMMA KillIInv ==
  ASSUME IInv, Kill
  PROVE  IInv'
<1>1. UNCHANGED <<settings, call, quiet, attempts, posts, returned, at, lines, rows, disk, torn, files>>
  BY DEF Kill, callVars
<1>2. \/ pc \notin Over /\ pc' = "killed" /\ step' = step
      \/ step # "idle" /\ step' = "idle" /\ pc' = pc
  BY DEF Kill
<1>3. at \in Nat
  BY BatchAssumption DEF IInv, Typed
<1>4. Typed' /\ Phase' /\ Failed'
  BY <1>1, <1>2 DEF IInv, Typed, Phase, Failed, Over
<1>8. Calling'
  BY <1>1, <1>2 DEF IInv, Calling, Told, Heard, Numbers
<1>5. Scored' /\ Sent' /\ Logged' /\ Repeats'
  BY <1>1, <1>3, RecordsStay
<1>6. Files'
  BY <1>1, <1>2 DEF IInv, Files, Complete, Over
<1>7. QED
  BY <1>4, <1>5, <1>6, <1>8 DEF IInv

LEMMA StutterIInv ==
  ASSUME IInv, UNCHANGED vars
  PROVE  IInv'
<1>1. UNCHANGED <<settings, call, quiet, attempts, posts, returned, pc, at, lines, rows, disk, torn, files, step>>
  BY DEF vars
<1>2. at \in Nat
  BY BatchAssumption DEF IInv, Typed
<1>3. Typed' /\ Phase' /\ Failed' /\ Files'
  BY <1>1 DEF IInv, Typed, Phase, Failed, Files, Complete
<1>6. Calling'
  BY <1>1 DEF IInv, Calling, Told, Heard, Numbers
<1>4. Scored' /\ Sent' /\ Logged' /\ Repeats'
  BY <1>1, <1>2, RecordsStay
<1>5. QED
  BY <1>3, <1>4, <1>6 DEF IInv

LEMMA NextIInv == IInv /\ [Next]_vars => IInv'
<1> SUFFICES ASSUME IInv, [Next]_vars
             PROVE  IInv'
  OBVIOUS
<1>1. CASE Runner
  <2>1. UNCHANGED <<settings, step>>
    BY <1>1 DEF Runner
  <2>2. CASE Call
    <3>1. pc = "call" /\ UNCHANGED batch
      BY <2>2 DEF Call
    <3>2. CASE Begin
      BY <2>1, <3>1, <3>2, BeginIInv
    <3>3. CASE Send \/ Wait
      BY <2>1, <3>1, <3>3, WaitingIInv
    <3>4. CASE Expire(at, PromptOf[at])
      <4> DEFINE o == IF call = "headers" THEN "timeout" ELSE "broken"
      <4>1. UnderWay /\ End(at, PromptOf[at], o, Blank("error")) /\ o \in Outcomes
        BY <3>4 DEF Expire, Outcomes, Failures, Transient
      <4> HIDE DEF o
      <4>2. QED
        BY <2>1, <3>1, <4>1, BlankIsReply, EndIInv
    <3>5. QED
      BY <2>2, <3>2, <3>3, <3>4 DEF Call
  <2>3. QED
    BY <1>1, <2>1, <2>2, TakeIInv, RecordIInv, UnhandledIInv, CloseIInv, WriteIInv DEF Runner
<1>7. CASE Provider
  <2>1. pc = "call" /\ UNCHANGED batch /\ UNCHANGED <<settings, step>>
    BY <1>7 DEF Provider
  <2>2. CASE Arrive \/ Dribble
    BY <2>1, <2>2, WaitingIInv
  <2>3. CASE Deliver(at, PromptOf[at])
    <3>1. PICK o \in Outcomes, reply \in Reply : End(at, PromptOf[at], o, reply)
      BY <2>3, BlankIsReply, PostAssumption DEF Deliver
    <3>2. QED
      BY <2>1, <2>3, <3>1, EndIInv DEF Deliver
  <2>4. QED
    BY <1>7, <2>2, <2>3 DEF Provider
<1>2. CASE Rebuilder
  BY <1>2, RebuilderIInv
<1>3. CASE Flush
  BY <1>3, FlushIInv
<1>4. CASE Kill
  BY <1>4, KillIInv
<1>5. CASE UNCHANGED vars
  BY <1>5, StutterIInv
<1>6. QED
  BY <1>1, <1>2, <1>3, <1>4, <1>5, <1>7 DEF Next, Idle

LEMMA Invariant == Spec => []IInv
<1>1. QED
  BY InitIInv, NextIInv, PTL DEF Spec

-----------------------------------------------------------------------------
(* What the invariant says of the run and the rebuild.                     *)

(* Every variable keeps its type: there is a row for every line, and what  *)
(* is in the file is a beginning of the log.                               *)
THEOREM TypeCorrect == Spec => []TypeOK
<1>1. IInv => TypeOK
  <2> SUFFICES ASSUME IInv
               PROVE  TypeOK
    OBVIOUS
  <2>1. returned.reply \in Reply /\ returned.meta \subseteq {"config", "response"}
    BY DEF IInv, Typed, Metas
  <2>2. \A f \in Names : files[f].state \in {"absent", "partial", "whole"}
    BY DEF IInv, Typed, FileStates
  <2>3. QED
    BY <2>1, <2>2 DEF IInv, Typed, Phase, TypeOK, Waiting
<1>2. QED
  BY <1>1, Invariant, PTL

(* Whatever is rebuilt from a log, also from that of a run that was killed,*)
(* is what the run itself scored for the lines that reached the file.      *)
THEOREM Reproduced == Spec => []RebuildReproduces
<1>1. IInv => RebuildReproduces
  BY DEF IInv, Files, RebuildReproduces
<1>2. QED
  BY <1>1, Invariant, PTL

(* Outputs and scores of a run are never there without its whole log, with *)
(* a line for every alert.                                                 *)
THEOREM WholeLogFirst == Spec => []SummariesAreOfLog
<1>1. IInv => SummariesAreOfLog
  BY LenProperties DEF IInv, Typed, Files, Complete, Scored, SummariesAreOfLog
<1>2. QED
  BY <1>1, Invariant, PTL

(* The log says what was sent: the prompt of a line is that of every post  *)
(* made for its alert, its configuration, where it has one, that of the    *)
(* payloads, and it has one after every outcome for which the code         *)
(* promises it (runner.py:150-193, llm.py:490-491, :520-521).              *)
THEOREM LogIsTrue == Spec => []SentAsLogged
<1>1. IInv => SentAsLogged
  <2> SUFFICES ASSUME IInv, NEW i \in DOMAIN lines, NEW p \in PostsFor(lines[i].alert)
               PROVE  /\ lines[i].prompt = p.prompt
                      /\ lines[i].config \in {{}, p.payload}
                      /\ (\A q \in PostsFor(lines[i].alert) : q.outcome \in Promised) => lines[i].config = p.payload
                      /\ p.outcome = "empty" => "response" \in lines[i].meta
    BY DEF SentAsLogged
  <2>1. i \in 1 .. Len(lines) /\ lines[i].alert = i /\ lines[i].prompt = PromptOf[i]
    BY LenProperties DEF IInv, Typed, Scored
  <2>2. PICK k \in DOMAIN posts : p = posts[k] /\ posts[k].alert = i
    BY <2>1 DEF PostsFor
  <2>3. k \in Numbers(i)
    BY <2>2 DEF Numbers
  <2>4. lines[i].prompt = p.prompt
    BY <2>1, <2>2 DEF IInv, Sent
  <2>5. /\ Told(i, lines[i].meta)
        /\ lines[i].config = IF "config" \in lines[i].meta THEN RequestConfig(settings) ELSE {}
    BY <2>1 DEF IInv, Logged
  <2>6. p.outcome = "empty" => "response" \in lines[i].meta
    BY <2>2, <2>3, <2>5 DEF Told
  <2>7. RequestConfig(settings) = p.payload
    <3>1. settings \in Settings
      BY BatchAssumption DEF IInv, Typed
    <3>2. p.payload = Payload(settings)
      BY <2>2 DEF IInv, Sent
    <3>3. QED
      BY <3>1, <3>2, ConfigIsPayload
  <2>8. ASSUME \A q \in PostsFor(i) : q.outcome \in Promised
        PROVE  "config" \in lines[i].meta
    <3>1. \A j \in Numbers(i) : posts[j] \in PostsFor(i)
      BY DEF Numbers, PostsFor
    <3>2. QED
      BY <2>3, <2>5, <2>8, <3>1 DEF Told
  <2>9. QED
    BY <2>1, <2>4, <2>5, <2>6, <2>7, <2>8
<1>2. QED
  BY <1>1, Invariant, PTL

(* The first answer to an alert is the one that counts: nothing is posted  *)
(* for it afterwards, and its line and row are of that answer. For every   *)
(* number of retries and whatever becomes of the posts                     *)
(* (llm.py:223-246, runner.py:140-196).                                    *)
THEOREM FirstAnswerCounts == Spec => []OneSample
<1>1. IInv => OneSample
  <2> SUFFICES ASSUME IInv
               PROVE  OneSample
    OBVIOUS
  <2>1. \A j, k \in DOMAIN posts :
          j < k /\ posts[j].alert = posts[k].alert => posts[j].outcome \notin Bodies
    BY DEF IInv, Repeats, Transient, Bodies
  <2>2. ASSUME NEW i \in DOMAIN lines
        PROVE  /\ \A j \in Answers(i) : lines[i].raw = posts[j].said
               /\ Answers(i) = {} => lines[i].raw = Blank("error")
    <3>1. Heard(i, lines[i].raw)
      BY LenProperties DEF IInv, Typed, Logged
    <3>2. QED
      BY <3>1 DEF Heard, Numbers, Answers
  <2>3. \A a \in DOMAIN Corpus : Cardinality({k \in DOMAIN posts : posts[k].alert = a}) <= Retries + 1
    BY DEF IInv, Repeats, Numbers
  <2>4. QED
    BY <2>1, <2>2, <2>3 DEF OneSample
<1>2. QED
  BY <1>1, Invariant, PTL

(* Credit in the gated column is deserved, whatever a model replied.       *)
THEOREM CreditIsEarned == Spec => []CreditIsDeserved
<1>1. IInv => CreditIsDeserved
  <2> SUFFICES ASSUME IInv, NEW i \in DOMAIN rows, rows[i].credit
               PROVE  LET r == lines[i].raw
                          truth == Corpus[i].truth
                      IN  /\ r.kind = "json" /\ r.form # "loose" /\ r.rest = "fine"
                          /\ truth.benign <=> r.disp = "likely_benign"
                          /\ r.disp = "likely_benign" => r.codes = {}
                          /\ r.disp = "likely_true_positive" => r.codes # {}
                          /\ ~truth.benign => {Base(t) : t \in r.codes} \cap {Base(t) : t \in truth.codes} # {}
    BY DEF CreditIsDeserved
  <2>1. i \in 1 .. Len(lines) /\ Len(lines) \in Nat /\ Len(lines) <= Len(Corpus)
    BY LenProperties, BatchAssumption DEF IInv, Typed, Phase
  <2>2. i \in DOMAIN Corpus
    BY <2>1, BatchAssumption
  <2>3. rows[i] = Row(Corpus[i].id, Corpus[i].truth, lines[i].raw, Validate(lines[i].raw))
    BY <2>1 DEF IInv, Scored
  <2>4. Validate(lines[i].raw) /\ Score(Corpus[i].truth, lines[i].raw).overall
    <3> DEFINE v == Validate(lines[i].raw)
               sc == Score(Corpus[i].truth, lines[i].raw)
               c == v /\ sc.overall
    <3>1. rows[i] = [alert |-> Corpus[i].id, score |-> sc, valid |-> v, credit |-> c]
      BY <2>3 DEF Row
    <3> HIDE DEF c
    <3>2. rows[i].credit = c
      BY <3>1
    <3>3. c
      BY <3>2, Zenon
    <3>4. QED
      BY <3>3 DEF c
  <2>5. lines[i].raw \in Reply
    <3>1. lines[i] \in LineType
      BY <2>1, ElementOfSeq DEF IInv, Typed
    <3>2. QED
      BY <3>1 DEF LineType
  <2>6. Corpus[i].truth \in [benign : BOOLEAN, codes : SUBSET Technique]
    BY <2>2, BatchAssumption
  <2>7. QED
    BY <2>4, <2>5, <2>6, CreditMeans
<1>2. QED
  BY <1>1, Invariant, PTL
=============================================================================
