------------------------------ MODULE BatchRun ------------------------------
(***************************************************************************)
(* assistant/runner.py: the alerts of a corpus go through the pipeline one *)
(* by one, with a line in the audit log for each, and the outputs and the  *)
(* scores are written at the end. And assistant/rebuild_from_audit.py,     *)
(* which makes the outputs and scores again from the log.                  *)
(*                                                                         *)
(* The log is buffered: of the lines written so far any part may be in the *)
(* file, the last of them torn. A line is in the file when its text is,    *)
(* with or without the newline. A process may be killed between any two    *)
(* steps; what it had not handed to the system is then lost.               *)
(***************************************************************************)
EXTENDS LlmPost, FiniteSets

CONSTANTS
  Corpus,     \* the selected alerts: a sequence of [id, alert, truth]
  View,       \* --view
  Configured, \* the settings to be considered
  MaxKills    \* bound: how often a process is killed

ASSUME BatchAssumption ==
  /\ MaxKills \in Nat /\ Configured \subseteq Settings /\ View \in {"operational", "evaluation"}
  /\ Len(Corpus) \in Nat /\ DOMAIN Corpus = 1 .. Len(Corpus)
  /\ \A i \in DOMAIN Corpus : Corpus[i].truth \in [benign : BOOLEAN, codes : SUBSET Technique]

VARIABLES
  pc,           \* next, call, close, json, csv, over, killed, raised
  at,           \* the alert being processed
  lines, rows,  \* all lines written to the log object, all rows scored
  disk, torn,   \* how many lines are in the file, and part of one more
  files,        \* outputs and scores, of the run and rebuilt
  step,         \* rebuild: idle, json, csv
  kills

batch == <<pc, at, lines, rows, disk, torn, files>>
vars == <<settings, call, quiet, attempts, posts, returned, pc, at, lines, rows, disk, torn, files, step, kills>>

(* A file is absent, cut short, or whole. *)
Absent == [state |-> "absent", rows |-> <<>>]
Partial == [state |-> "partial", rows |-> <<>>]
Whole(r) == [state |-> "whole", rows |-> r]
Names == {"run.json", "run.csv", "rebuilt.json", "rebuilt.csv"}

Now == Corpus[at]
PromptOf == [i \in DOMAIN Corpus |-> Prompt(Corpus[i].alert, View)]
Over == {"over", "killed", "raised"}

-----------------------------------------------------------------------------
(* runner.main *)

Take ==
  /\ pc = "next"
  /\ IF at = Len(Corpus)
     THEN pc' = "close" /\ UNCHANGED <<at, call>>
     ELSE pc' = "call" /\ at' = at + 1 /\ call' = "idle"
  /\ UNCHANGED <<quiet, attempts, posts, returned, lines, rows, disk, torn, files>>

Call ==
  /\ pc = "call"
  /\ Begin \/ Send \/ Wait \/ Expire(at, PromptOf[at])
  /\ UNCHANGED batch

(* The other end of the post that the runner waits for. *)
Provider ==
  /\ pc = "call"
  /\ Arrive \/ Dribble \/ Deliver(at, PromptOf[at])
  /\ UNCHANGED <<batch, settings, step, kills>>

(* The line is written for failed calls too, and says "error" for them. *)
Line(valid) ==
  [alert |-> at, prompt |-> PromptOf[at], meta |-> returned.meta,
   config |-> IF "config" \in returned.meta THEN RequestConfig(settings) ELSE {},
   status |-> CASE returned.failed -> "error"
                [] returned.reply.kind = "prose" -> "parse_error"
                [] OTHER -> IF valid THEN "valid" ELSE "schema_invalid",
   raw |-> returned.reply]

RecordSkipsErrors ==
  /\ pc = "call" /\ call = "returned"
  /\ ~Raises(returned.reply)
  /\ LET line == Line(Validate(returned.reply))
     IN  /\ lines' = Append(lines, line)
         /\ rows' = IF returned.failed THEN rows
                    ELSE Append(rows, Row(Now.id, Now.truth, line.raw, line.status = "valid"))
  /\ pc' = "next" /\ call' = "idle"
  /\ UNCHANGED <<quiet, attempts, posts, returned, at, disk, torn, files>>

Record ==
  /\ pc = "call" /\ call = "returned"
  /\ ~Raises(returned.reply)
  /\ LET line == Line(Validate(returned.reply))
     IN  /\ lines' = Append(lines, line)
         /\ rows' = Append(rows, Row(Now.id, Now.truth, line.raw, line.status = "valid"))
  /\ pc' = "next" /\ call' = "idle"
  /\ UNCHANGED <<quiet, attempts, posts, returned, at, disk, torn, files>>

(* An exception after the call is not caught. Leaving the with block closes*)
(* the log, so that the lines before it are kept.                          *)
Unhandled ==
  /\ pc = "call" /\ call = "returned"
  /\ Raises(returned.reply)
  /\ pc' = "raised" /\ disk' = Len(lines) /\ torn' = FALSE
  /\ UNCHANGED <<callVars, at, lines, rows, files>>

CloseLate ==
  /\ pc = "close" /\ pc' = "json"
  /\ UNCHANGED <<callVars, at, lines, rows, disk, torn, files>>

Close ==
  /\ pc = "close" /\ pc' = "json"
  /\ disk' = Len(lines) /\ torn' = FALSE
  /\ UNCHANGED <<callVars, at, lines, rows, files>>

(* A file is opened, which empties it, and is whole when it is closed. *)
Put(file, r) ==
  IF files[file].state = "partial" THEN files' = [files EXCEPT ![file] = Whole(r)]
  ELSE files' = [files EXCEPT ![file] = Partial]

Write ==
  /\ pc \in {"json", "csv"}
  /\ LET file == IF pc = "json" THEN "run.json" ELSE "run.csv"
     IN  /\ Put(file, rows)
         /\ pc' = IF files[file].state = "absent" THEN pc
                  ELSE IF pc = "json" THEN "csv" ELSE "over"
  /\ UNCHANGED <<callVars, at, lines, rows, disk, torn>>

Runner == (Take \/ Call \/ Record \/ Unhandled \/ Close \/ Write) /\ UNCHANGED <<settings, step, kills>>

-----------------------------------------------------------------------------
(* rebuild_from_audit. A torn line is no JSON and ends it before anything  *)
(* is written. The rows are made from the raw replies in the log.          *)

RebuiltRowTrusting(line) ==
  LET c == Corpus[line.alert] IN Row(c.id, c.truth, line.raw, line.status # "parse_error")
RebuiltRow(line) ==
  LET c == Corpus[line.alert] IN Row(c.id, c.truth, line.raw, Validate(line.raw))
Rebuilt == [i \in 1 .. disk |-> RebuiltRow(lines[i])]

Rebuild(overwrite) ==
  /\ pc \in Over /\ step = "idle" /\ ~torn
  /\ overwrite \/ {files["rebuilt.json"], files["rebuilt.csv"]} = {Absent}
  /\ step' = "json" /\ files' = [files EXCEPT !["rebuilt.json"] = Partial]
  /\ UNCHANGED <<pc, at, lines, rows, disk, torn>>

RebuildWrite ==
  /\ step \in {"json", "csv"}
  /\ \/ /\ step = "json" /\ step' = "csv"
        /\ files' = [files EXCEPT !["rebuilt.json"] = Whole(Rebuilt), !["rebuilt.csv"] = Partial]
     \/ /\ step = "csv" /\ step' = "idle"
        /\ files' = [files EXCEPT !["rebuilt.csv"] = Whole(Rebuilt)]
  /\ UNCHANGED <<pc, at, lines, rows, disk, torn>>

Rebuilder ==
  /\ RebuildWrite \/ (\E overwrite \in BOOLEAN : Rebuild(overwrite))
  /\ UNCHANGED <<callVars, settings, kills>>

-----------------------------------------------------------------------------
(* The buffer is handed on whenever it is full, at any byte. *)
Flush ==
  /\ pc \notin Over
  /\ \E n \in disk .. Len(lines), t \in BOOLEAN :
       /\ t => n < Len(lines)
       /\ torn => n > disk \/ t
       /\ <<n, t>> # <<disk, torn>>
       /\ disk' = n /\ torn' = t
  /\ UNCHANGED <<callVars, settings, pc, at, lines, rows, files, step, kills>>

(* Kill a run or a rebuild. *)
Kill ==
  /\ kills < MaxKills /\ kills' = kills + 1
  /\ \/ pc \notin Over /\ pc' = "killed" /\ UNCHANGED step
     \/ step # "idle" /\ step' = "idle" /\ UNCHANGED pc
  /\ UNCHANGED <<callVars, settings, at, lines, rows, disk, torn, files>>

Idle == pc \in Over /\ step = "idle" /\ UNCHANGED vars

Init ==
  /\ settings \in Configured
  /\ call = "idle" /\ quiet = FALSE /\ attempts = <<>> /\ posts = <<>>
  /\ returned = [failed |-> FALSE, meta |-> {}, reply |-> Blank("error")]
  /\ pc = "next" /\ at = 0 /\ lines = <<>> /\ rows = <<>> /\ disk = 0 /\ torn = FALSE
  /\ files = [f \in Names |-> Absent] /\ step = "idle" /\ kills = 0

Next == Runner \/ Provider \/ Rebuilder \/ Flush \/ Kill \/ Idle

(* The runner goes on, and time passes for it; nothing is assumed of the   *)
(* provider.                                                               *)
Spec == Init /\ [][Next]_vars /\ WF_vars(Runner)

-----------------------------------------------------------------------------
TypeOK ==
  /\ settings \in Configured
  /\ call \in {"idle", "ready", "headers", "body", "returned"} /\ quiet \in BOOLEAN
  /\ returned.reply \in Reply /\ returned.meta \subseteq {"config", "response"}
  /\ pc \in {"next", "call", "close", "json", "csv"} \cup Over
  /\ at \in 0 .. Len(Corpus) /\ Len(rows) = Len(lines) /\ Len(lines) \in {at, at - 1}
  /\ disk \in 0 .. Len(lines) /\ (torn => disk < Len(lines))
  /\ \A f \in Names : files[f].state \in {"absent", "partial", "whole"}

(* Whatever is rebuilt from a log, also from that of a run that was killed,*)
(* is what the run itself scored for the lines that reached the file:      *)
(* two programs that compute validity differently agree                    *)
(* (runner.py:161-180, rebuild_from_audit.py:79-103).                      *)
RebuildReproduces ==
  \A f \in {"rebuilt.json", "rebuilt.csv"} :
    files[f].state = "whole" => files[f].rows = SubSeq(rows, 1, disk)

(* Outputs and scores of a run, even cut short, are never there without    *)
(* the whole log they came from, with a line for every alert.              *)
SummariesAreOfLog ==
  files["run.json"].state # "absent" \/ files["run.csv"].state # "absent" =>
    disk = Len(Corpus) /\ ~torn /\ \A i \in 1 .. disk : lines[i].alert = i

(* The log says what was sent (runner.py:193, llm.py:490-491): the prompt  *)
(* of a line is that of every post made for its alert; the configuration,  *)
(* where there is one, is that of the payloads, and there is one after a   *)
(* timeout, a connection failure, a server error, an answer with a text,   *)
(* with none, or without content. What a model said of its tokens is kept  *)
(* also when it said nothing else (llm.py:520-521).                        *)
PostsFor(i) == {posts[j] : j \in {k \in DOMAIN posts : posts[k].alert = i}}
Promised == Transient \cup Failures \cup {"text", "empty", "shapeless"}
SentAsLogged ==
  \A i \in DOMAIN lines : \A p \in PostsFor(lines[i].alert) :
    /\ lines[i].prompt = p.prompt
    /\ lines[i].config \in {{}, p.payload}
    /\ (\A q \in PostsFor(lines[i].alert) : q.outcome \in Promised) => lines[i].config = p.payload
    /\ p.outcome = "empty" => "response" \in lines[i].meta

(* The first answer to an alert is the one that counts: nothing is posted  *)
(* for it afterwards, be the answer empty, malformed or wrong, and the line*)
(* and the row are of that answer, never of one to an earlier alert        *)
(* (assistant/DESIGN_AND_CHANGELOG.md:252, :392). With no answer the line  *)
(* says so, after at most Retries more posts.                              *)
Answers(i) == {j \in DOMAIN posts : posts[j].alert = i /\ posts[j].outcome \in Bodies}
OneSample ==
  /\ \A j, k \in DOMAIN posts :
       j < k /\ posts[j].alert = posts[k].alert => posts[j].outcome \notin Bodies
  /\ \A i \in DOMAIN lines :
       /\ \A j \in Answers(i) : lines[i].raw = posts[j].said
       /\ Answers(i) = {} => lines[i].raw = Blank("error")
  /\ \A a \in DOMAIN Corpus :
       Cardinality({k \in DOMAIN posts : posts[k].alert = a}) <= Retries + 1

(* Credit in the gated column is deserved: the reply was a valid object,   *)
(* its disposition fits the truth and does not contradict its technique.   *)
CreditIsDeserved ==
  \A i \in DOMAIN rows : rows[i].credit =>
    LET r == lines[i].raw
        truth == Corpus[i].truth
    IN  /\ r.kind = "json" /\ r.form # "loose" /\ r.rest = "fine"
        /\ truth.benign <=> r.disp = "likely_benign"
        /\ r.disp = "likely_benign" => r.codes = {}
        /\ r.disp = "likely_true_positive" => r.codes # {}
        /\ ~truth.benign => {Base(t) : t \in r.codes} \cap {Base(t) : t \in truth.codes} # {}

(* A reply never takes the run down: whatever a model says is recorded     *)
(* (schema.py:7-9).                                                        *)
InvalidIsRecorded == pc # "raised"

(* "the assistant must NEVER receive secrets" (redact.py:4): no prompt     *)
(* that was posted has the name of a secret next to its value.             *)
NoSecretSent ==
  \A j \in DOMAIN posts : \A f \in DOMAIN posts[j].prompt :
    Starts(posts[j].prompt[f], Secret) = {}

(* Left alone, a run ends, with its outputs and scores whole, however the  *)
(* network behaves, unless a provider sends byte after byte for ever.      *)
Finishes ==
  \/ <>(pc \in {"killed", "raised"} \/ (pc = "over" /\ files["run.csv"].state = "whole"))
  \/ []<><<Dribble>>_vars
=============================================================================
