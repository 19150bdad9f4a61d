----------------------------- MODULE AdhocAudit -----------------------------
(***************************************************************************)
(* append_jsonl_once of assistant/audit.py, behind the save button of the  *)
(* paste tab: the log is scanned for the record's id, and if it is not     *)
(* there the line is appended with one os.write. Several do so at a time:  *)
(* tabs, each with results of its own, since an id is made of the text and *)
(* the time of a run (paste_core.py:158), and the reruns of one tab whose  *)
(* button is pressed again while the first is still at it.                 *)
(*                                                                         *)
(* A write under O_APPEND is not interleaved with another. It may be short *)
(* (a full disk), of which the code takes no notice, or fail, and the      *)
(* process may die between the scan and the write.                         *)
(***************************************************************************)
EXTENDS Naturals, Sequences, FiniteSets

CONSTANTS
  Writer,     \* the tabs, and the reruns of a tab that overlap
  RecordId,   \* the results there are to save
  MaxFaults   \* bound: short and failed writes, and deaths

ASSUME AuditAssumption ==
  MaxFaults \in Nat /\ Writer # {} /\ IsFiniteSet(Writer) /\ "none" \notin RecordId

VARIABLES
  file,    \* the lines; a line is a sequence of pieces, a piece [id, text]
  ended,   \* the last line has its newline
  doing,   \* by writer: the id it scanned for and did not find, or none
  saved,   \* history: ids that some writer was told were written
  short,   \* how many writes were short
  faults

vars == <<file, ended, doing, saved, short, faults>>

(* A record, its beginning, or its beginning up to within a character.     *)
Texts == {"whole", "cut", "garbled"}

(* _existing_ids: a line that is no JSON value is skipped, and so is one of*)
(* two records run together.                                               *)
ExistingLines(id) == {i \in DOMAIN file : file[i] = <<[id |-> id, text |-> "whole"]>>}
ExistingIds == {id \in RecordId : ExistingLines(id) # {}}

(* The file is decoded as it is read, outside the try around json.loads: a *)
(* line cut inside a character makes every later scan raise.               *)
Decodes == \A i \in DOMAIN file : \A j \in DOMAIN file[i] : file[i][j].text # "garbled"

FoundAtEnd(id) == Len(file) \in ExistingLines(id)
Found(id) == id \in ExistingIds

Scan(w, id) ==
  /\ doing[w] = "none" /\ Decodes
  /\ ~Found(id)
  /\ doing' = [doing EXCEPT ![w] = id]
  /\ UNCHANGED <<file, ended, saved, short, faults>>

(* It is there: nothing is written, and the tab says so. *)
Duplicate(w, id) ==
  /\ doing[w] = "none" /\ Decodes
  /\ Found(id)
  /\ UNCHANGED vars

Undecodable(w) == doing[w] = "none" /\ ~Decodes /\ UNCHANGED vars

Add(piece) ==
  IF ended THEN Append(file, <<piece>>)
  ELSE [file EXCEPT ![Len(file)] = Append(@, piece)]

(* The record, its newline included, its beginning only, or all but the    *)
(* newline: whichever it is, the write is taken to have succeeded. The tab *)
(* may be gone before it hears of it.                                      *)
WriteTruncates(w) ==
  /\ doing[w] # "none"
  /\ file' = <<<<[id |-> doing[w], text |-> "whole"]>>>> /\ ended' = TRUE
  /\ saved' = saved \cup {doing[w]} /\ doing' = [doing EXCEPT ![w] = "none"]
  /\ UNCHANGED <<short, faults>>

WriteNoNewline(w) ==
  /\ doing[w] # "none"
  /\ file' = Append(file, <<[id |-> doing[w], text |-> "whole"]>>) /\ ended' = FALSE
  /\ saved' = saved \cup {doing[w]} /\ doing' = [doing EXCEPT ![w] = "none"]
  /\ UNCHANGED <<short, faults>>

Write(w) ==
  /\ doing[w] # "none"
  /\ \/ /\ file' = Add([id |-> doing[w], text |-> "whole"]) /\ ended' = TRUE
        /\ UNCHANGED <<short, faults>>
     \/ /\ faults < MaxFaults /\ faults' = faults + 1 /\ short' = short + 1
        /\ \E text \in Texts : file' = Add([id |-> doing[w], text |-> text])
        /\ ended' = FALSE
  /\ saved' \in {saved, saved \cup {doing[w]}}
  /\ doing' = [doing EXCEPT ![w] = "none"]

(* os.open or os.write raises, or the process dies. *)
Fail(w) ==
  /\ doing[w] # "none"
  /\ faults < MaxFaults /\ faults' = faults + 1
  /\ doing' = [doing EXCEPT ![w] = "none"]
  /\ UNCHANGED <<file, ended, saved, short>>

Init ==
  /\ file = <<>> /\ ended = TRUE
  /\ doing = [w \in Writer |-> "none"]
  /\ saved = {} /\ short = 0 /\ faults = 0

Next == \E w \in Writer : Write(w) \/ Fail(w) \/ Undecodable(w) \/ \E id \in RecordId : Scan(w, id) \/ Duplicate(w, id)

Spec == Init /\ [][Next]_vars

-----------------------------------------------------------------------------
TypeOK ==
  /\ \A i \in DOMAIN file : file[i] \in Seq([id : RecordId, text : Texts]) /\ file[i] # <<>>
  /\ ended \in BOOLEAN /\ (~ended => short > 0)
  /\ doing \in [Writer -> RecordId \cup {"none"}]
  /\ saved \subseteq RecordId
  /\ short \in 0 .. faults /\ faults \in 0 .. MaxFaults

(* A record whose saving was reported is in the log to stay. A short write *)
(* costs at most itself and the line that is appended to it: with none of  *)
(* them nothing is ever lost, whoever dies or fails, and with n of them at *)
(* most 2 n records.                                                       *)
SavedIsKept == Cardinality(saved \ ExistingIds) <= 2 * short

(* The log holds no record more often than writers can be at it at a time: *)
(* a single one saves it once, also if it died, or was told nothing, and   *)
(* saves again.                                                            *)
SavedOnce == \A id \in RecordId : Cardinality(ExistingLines(id)) <= Cardinality(Writer)
=============================================================================
