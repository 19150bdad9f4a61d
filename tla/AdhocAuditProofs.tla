-------------------------- MODULE AdhocAuditProofs --------------------------
(***************************************************************************)
(* Theorems about the ad hoc log, for any finite number of writers, any   *)
(* records and any number of faults: how often a record can be in the log,*)
(* and how many can be lost.                                              *)
(***************************************************************************)
EXTENDS AdhocAudit, FiniteSetTheorems, TLAPS

Piece == [id : RecordId, text : Texts]

FileOK ==
  /\ file \in Seq(Seq(Piece))
  /\ \A i \in 1 .. Len(file) : file[i] # <<>>
  /\ ~ended => file # <<>> /\ short > 0

StateOK ==
  /\ FileOK
  /\ ended \in BOOLEAN
  /\ doing \in [Writer -> RecordId \cup {"none"}]
  /\ saved \subseteq RecordId /\ IsFiniteSet(saved)
  /\ short \in 0 .. faults /\ faults \in 0 .. MaxFaults

(* A writer holds an id that it has scanned for and not found. For each   *)
(* copy in the log, and for each that may yet be added, there is a writer.*)
Holders(id) == {w \in Writer : doing[w] = id}
CopiesBounded ==
  \A id \in RecordId :
    /\ IsFiniteSet(ExistingLines(id))
    /\ Cardinality(ExistingLines(id)) + Cardinality(Holders(id)) <= Cardinality(Writer)

(* What a last line without a newline may still cost: the line to come,    *)
(* and the last line itself when it is a whole record.                     *)
Lost == saved \ ExistingIds
LastIsWhole == \E id \in RecordId : file[Len(file)] = <<[id |-> id, text |-> "whole"]>>
Owed == IF ended THEN 0 ELSE IF LastIsWhole THEN 2 ELSE 1
LossBounded == Cardinality(Lost) + Owed <= 2 * short

IInv == StateOK /\ CopiesBounded /\ LossBounded

-----------------------------------------------------------------------------
Record(id) == [id |-> id, text |-> "whole"]

LEMMA BeforeLast ==
  ASSUME NEW m \in Nat, NEW i \in 1 .. m, i # m
  PROVE  i < m
OBVIOUS

(* A line of two pieces is no record. *)
LEMMA LongLine ==
  ASSUME NEW s \in Seq(Piece), s # <<>>, NEW p \in Piece, NEW q
  PROVE  Append(s, p) \in Seq(Piece) /\ Append(s, p) # <<>> /\ Append(s, p) # <<q>>
<1>1. Append(s, p) \in Seq(Piece) /\ Len(Append(s, p)) = Len(s) + 1 /\ Len(s) # 0 /\ Len(s) \in Nat
  OBVIOUS
<1>2. Len(<<q>>) = 1 /\ Len(<<>>) = 0
  OBVIOUS
<1>3. Len(Append(s, p)) # 1 /\ Len(Append(s, p)) # 0
  BY <1>1
<1>4. QED
  BY <1>1, <1>2, <1>3

(* What one append does to the lines. *)
LEMMA AddShape ==
  ASSUME FileOK, ended \in BOOLEAN, NEW p \in Piece, file' = Add(p)
  PROVE  /\ file' \in Seq(Seq(Piece)) /\ file' # <<>>
         /\ \A i \in 1 .. Len(file') : file'[i] # <<>>
         /\ \A i \in 1 .. Len(file') : i < Len(file') => i \in 1 .. Len(file) /\ file'[i] = file[i]
         /\ ended => Len(file') = Len(file) + 1 /\ file'[Len(file')] = <<p>>
         /\ ~ended => /\ Len(file') = Len(file)
                      /\ \A q : file'[Len(file')] # <<q>>
<1> DEFINE n == Len(file)
<1>1. n \in Nat /\ file \in Seq(Seq(Piece))
  BY DEF FileOK
<1>2. CASE ended
  <2>1. file' = Append(file, <<p>>) /\ <<p>> \in Seq(Piece) /\ <<p>> # <<>>
    BY <1>2 DEF Add
  <2>2. file' \in Seq(Seq(Piece)) /\ Len(file') = n + 1 /\ file'[n + 1] = <<p>>
        /\ \A i \in 1 .. n : file'[i] = file[i]
    BY <1>1, <2>1
  <2>3. QED
    BY <1>1, <1>2, <2>1, <2>2 DEF FileOK
<1>3. CASE ~ended
  <2>1. n \in 1 .. n /\ n >= 1
    BY <1>1, <1>3 DEF FileOK
  <2>2. file' = [file EXCEPT ![n] = Append(file[n], p)]
    BY <1>3 DEF Add
  <2>3. file[n] \in Seq(Piece) /\ file[n] # <<>>
    BY <1>1, <2>1 DEF FileOK
  <2>4. Append(file[n], p) \in Seq(Piece) /\ Append(file[n], p) # <<>>
        /\ \A q : Append(file[n], p) # <<q>>
    BY <2>3, LongLine
  <2>5. file' \in Seq(Seq(Piece)) /\ Len(file') = n /\ file'[n] = Append(file[n], p)
        /\ \A i \in 1 .. n : i # n => file'[i] = file[i]
    BY <1>1, <2>1, <2>2, <2>4
  <2>6. file' # <<>>
    BY <1>1, <2>1, <2>5
  <2>7. ASSUME NEW i \in 1 .. Len(file')
        PROVE  /\ file'[i] # <<>>
               /\ i < Len(file') => i \in 1 .. Len(file) /\ file'[i] = file[i]
    <3>1. i \in 1 .. n /\ file[i] # <<>>
      BY <2>5 DEF FileOK
    <3>2. CASE i = n
      BY <2>4, <2>5, <3>2
    <3>3. CASE i # n
      BY <2>5, <3>1, <3>3
    <3>4. QED
      BY <3>2, <3>3
  <2>8. QED
    BY <1>3, <2>4, <2>5, <2>6, <2>7
<1>4. QED
  BY <1>2, <1>3

(* What it does to the records: it may add one of its own at the end, and  *)
(* an open last line is lost.                                              *)
LEMMA AddLines ==
  ASSUME FileOK, ended \in BOOLEAN, NEW p \in Piece, file' = Add(p)
  PROVE  /\ \A id : ExistingLines(id)' \subseteq ExistingLines(id) \cup {Len(file')}
         /\ \A id : id # p.id => ExistingLines(id)' \subseteq ExistingLines(id)
         /\ ended => \A id : ExistingLines(id) \subseteq ExistingLines(id)'
         /\ ended /\ p.text = "whole" => Len(file') \in ExistingLines(p.id)'
         /\ ~ended => \A id : ExistingLines(id) \ {Len(file)} \subseteq ExistingLines(id)'
         /\ LastIsWhole' => ended /\ p.text = "whole"
<1>1. /\ Len(file) \in Nat /\ Len(file') \in Nat
      /\ DOMAIN file = 1 .. Len(file) /\ DOMAIN file' = 1 .. Len(file') /\ file' # <<>>
  BY AddShape DEF FileOK
<1>2. Len(file') \in 1 .. Len(file')
  <2>1. file' \in Seq(Seq(Piece))
    BY AddShape
  <2>2. Len(file') # 0
    BY <1>1, <2>1
  <2>3. QED
    BY <1>1, <2>2
<1>3. \A i \in DOMAIN file' : i = Len(file') \/ (i \in DOMAIN file /\ file'[i] = file[i])
  <2> SUFFICES ASSUME NEW i \in 1 .. Len(file'), i # Len(file')
               PROVE  i \in 1 .. Len(file) /\ file'[i] = file[i]
    BY <1>1
  <2>1. i < Len(file')
    BY <1>1, BeforeLast
  <2>2. QED
    BY <2>1, AddShape
<1>4. \A id : ExistingLines(id)' \subseteq ExistingLines(id) \cup {Len(file')}
  BY <1>3 DEF ExistingLines
<1>5. ASSUME NEW id, file'[Len(file')] = <<Record(id)>>
      PROVE  ended /\ p = Record(id)
  <2>1. ended
    BY <1>5, AddShape
  <2>2. <<p>> = <<Record(id)>>
    BY <1>5, <2>1, AddShape
  <2>3. <<p>>[1] = <<Record(id)>>[1]
    BY <2>2
  <2>4. QED
    BY <2>1, <2>3
<1>6. \A id : id # p.id => ExistingLines(id)' \subseteq ExistingLines(id)
  <2> SUFFICES ASSUME NEW id, id # p.id, NEW i \in ExistingLines(id)'
               PROVE  i \in ExistingLines(id)
    OBVIOUS
  <2>1. i \in DOMAIN file' /\ file'[i] = <<Record(id)>>
    BY DEF ExistingLines, Record
  <2>2. i # Len(file')
    BY <1>5, <2>1 DEF Record
  <2>3. QED
    BY <1>3, <2>1, <2>2 DEF ExistingLines, Record
<1>7. ended => \A id : ExistingLines(id) \subseteq ExistingLines(id)'
  <2> SUFFICES ASSUME ended, NEW id, NEW i \in ExistingLines(id)
               PROVE  i \in ExistingLines(id)'
    OBVIOUS
  <2>1. i \in DOMAIN file /\ file[i] = <<Record(id)>>
    BY DEF ExistingLines, Record
  <2>2. Len(file') = Len(file) + 1
    BY AddShape
  <2>3. i \in DOMAIN file' /\ i # Len(file')
    BY <1>1, <2>1, <2>2
  <2>4. QED
    BY <1>3, <2>1, <2>3 DEF ExistingLines, Record
<1>8. ended /\ p.text = "whole" => Len(file') \in ExistingLines(p.id)'
  <2> SUFFICES ASSUME ended, p.text = "whole"
               PROVE  Len(file') \in ExistingLines(p.id)'
    OBVIOUS
  <2>1. p = Record(p.id)
    BY DEF Piece, Record
  <2>2. QED
    BY <1>1, <1>2, <2>1, AddShape DEF ExistingLines, Record
<1>9. ~ended => \A id : ExistingLines(id) \ {Len(file)} \subseteq ExistingLines(id)'
  <2> SUFFICES ASSUME ~ended, NEW id, NEW i \in ExistingLines(id), i # Len(file)
               PROVE  i \in ExistingLines(id)'
    OBVIOUS
  <2>1. i \in DOMAIN file /\ file[i] = <<Record(id)>>
    BY DEF ExistingLines, Record
  <2>2. Len(file') = Len(file)
    BY AddShape
  <2>3. i \in DOMAIN file' /\ i # Len(file')
    BY <1>1, <2>1, <2>2
  <2>4. QED
    BY <1>3, <2>1, <2>3 DEF ExistingLines, Record
<1>10. LastIsWhole' => ended /\ p.text = "whole"
  BY <1>5 DEF LastIsWhole, Record
<1>11. QED
  BY <1>4, <1>6, <1>7, <1>8, <1>9, <1>10

-----------------------------------------------------------------------------
LEMMA OneMore ==
  ASSUME NEW S, IsFiniteSet(S), NEW x, NEW T, T \subseteq S \cup {x}
  PROVE  /\ IsFiniteSet(T) /\ Cardinality(T) \in Nat /\ Cardinality(S) \in Nat
         /\ Cardinality(T) <= Cardinality(S) + 1
<1>1. IsFiniteSet(S \cup {x}) /\ Cardinality(S \cup {x}) <= Cardinality(S) + 1
      /\ Cardinality(S) \in Nat /\ Cardinality(S \cup {x}) \in Nat
  BY FS_AddElement, FS_CardinalityType
<1>2. IsFiniteSet(T) /\ Cardinality(T) <= Cardinality(S \cup {x}) /\ Cardinality(T) \in Nat
  BY <1>1, FS_Subset, FS_CardinalityType
<1>3. QED
  BY <1>1, <1>2

LEMMA NoMore ==
  ASSUME NEW S, IsFiniteSet(S), NEW T, T \subseteq S
  PROVE  /\ IsFiniteSet(T) /\ Cardinality(T) \in Nat /\ Cardinality(S) \in Nat
         /\ Cardinality(T) <= Cardinality(S)
BY FS_Subset, FS_CardinalityType

LEMMA HoldersFinite ==
  ASSUME NEW id
  PROVE  /\ IsFiniteSet(Holders(id)) /\ Cardinality(Holders(id)) \in Nat
         /\ Cardinality(Holders(id)) <= Cardinality(Writer) /\ Cardinality(Writer) \in Nat
BY NoMore, AuditAssumption DEF Holders

LEMMA InitIInv == Init => IInv
<1> SUFFICES ASSUME Init
             PROVE  IInv
  OBVIOUS
<1>1. StateOK
  <2>1. IsFiniteSet(saved)
    BY FS_EmptySet DEF Init
  <2>2. ended \in BOOLEAN /\ ended
    BY Zenon DEF Init
  <2>3. QED
    BY <2>1, <2>2, AuditAssumption DEF Init, StateOK, FileOK
<1>2. \A id : ExistingLines(id) = {} /\ Lost = {}
  BY DEF Init, ExistingLines, Lost
<1>3. CopiesBounded
  BY <1>2, FS_EmptySet, HoldersFinite DEF CopiesBounded
<1>4. LossBounded
  BY <1>2, FS_EmptySet DEF LossBounded, Owed, Init
<1>5. QED
  BY <1>1, <1>3, <1>4 DEF IInv

LEMMA ScanIInv ==
  ASSUME IInv, NEW w \in Writer, NEW id \in RecordId, Scan(w, id)
  PROVE  IInv'
<1>1. UNCHANGED <<file, ended, saved, short, faults>> /\ doing' = [doing EXCEPT ![w] = id]
  BY DEF Scan
<1>2. \A i : ExistingLines(i)' = ExistingLines(i)
  BY <1>1 DEF ExistingLines
<1>3. StateOK'
  BY <1>1 DEF IInv, StateOK, FileOK
<1>4. LossBounded'
  BY <1>1, <1>2 DEF IInv, LossBounded, Lost, Owed, LastIsWhole, ExistingIds
<1>5. CopiesBounded'
  <2> SUFFICES ASSUME NEW i \in RecordId
               PROVE  /\ IsFiniteSet(ExistingLines(i)')
                      /\ Cardinality(ExistingLines(i)') + Cardinality(Holders(i)') <= Cardinality(Writer)
    BY DEF CopiesBounded
  <2>1. CASE i = id
    <3>1. ExistingLines(i)' = {}
      BY <1>2, <2>1 DEF Scan, Found, ExistingIds
    <3>2. Holders(i)' \subseteq Writer
      BY DEF Holders
    <3>3. QED
      BY <3>1, <3>2, FS_EmptySet, NoMore, AuditAssumption
  <2>2. CASE i # id
    <3>1. Holders(i)' \subseteq Holders(i)
      BY <1>1, <2>2 DEF Holders, IInv, StateOK
    <3>2. Cardinality(Holders(i)') <= Cardinality(Holders(i))
          /\ Cardinality(Holders(i)') \in Nat /\ Cardinality(Holders(i)) \in Nat
      BY <3>1, HoldersFinite, NoMore
    <3>3. IsFiniteSet(ExistingLines(i)) /\ Cardinality(ExistingLines(i)) \in Nat
          /\ Cardinality(ExistingLines(i)) + Cardinality(Holders(i)) <= Cardinality(Writer)
      BY FS_CardinalityType DEF IInv, CopiesBounded
    <3>4. QED
      BY <1>2, <3>2, <3>3, HoldersFinite
  <2>3. QED
    BY <2>1, <2>2
<1>6. QED
  BY <1>3, <1>4, <1>5 DEF IInv

(* A writer that has done with its record may not add it any more. *)
LEMMA Released ==
  ASSUME IInv, NEW w \in Writer, doing[w] # "none", doing' = [doing EXCEPT ![w] = "none"]
  PROVE  /\ doing[w] \in RecordId /\ doing' \in [Writer -> RecordId \cup {"none"}]
         /\ \A i \in RecordId :
              Cardinality(Holders(i)') = Cardinality(Holders(i)) - (IF i = doing[w] THEN 1 ELSE 0)
<1>1. doing \in [Writer -> RecordId \cup {"none"}]
  BY DEF IInv, StateOK
<1>2. ASSUME NEW i \in RecordId
      PROVE  Cardinality(Holders(i)') = Cardinality(Holders(i)) - (IF i = doing[w] THEN 1 ELSE 0)
  <2>1. i # "none"
    BY AuditAssumption
  <2>2. CASE i = doing[w]
    <3>1. Holders(i)' = Holders(i) \ {w} /\ w \in Holders(i)
      BY <1>1, <2>1, <2>2 DEF Holders
    <3>2. QED
      BY <2>2, <3>1, HoldersFinite, FS_RemoveElement
  <2>3. CASE i # doing[w]
    <3>1. Holders(i)' = Holders(i)
      BY <1>1, <2>1, <2>3 DEF Holders
    <3>2. QED
      BY <2>3, <3>1, HoldersFinite
  <2>4. QED
    BY <2>2, <2>3
<1>3. QED
  BY <1>1, <1>2

LEMMA FailIInv ==
  ASSUME IInv, NEW w \in Writer, Fail(w)
  PROVE  IInv'
<1>1. /\ doing[w] # "none" /\ doing' = [doing EXCEPT ![w] = "none"]
      /\ faults < MaxFaults /\ faults' = faults + 1 /\ UNCHANGED <<file, ended, saved, short>>
  BY DEF Fail
<1>2. \A i : ExistingLines(i)' = ExistingLines(i)
  BY <1>1 DEF ExistingLines
<1>3. StateOK'
  BY <1>1, Released, AuditAssumption DEF IInv, StateOK, FileOK
<1>4. LossBounded'
  BY <1>1, <1>2 DEF IInv, LossBounded, Lost, Owed, LastIsWhole, ExistingIds
<1>5. ASSUME NEW i \in RecordId
      PROVE  /\ IsFiniteSet(ExistingLines(i)')
             /\ Cardinality(ExistingLines(i)') + Cardinality(Holders(i)') <= Cardinality(Writer)
  <2>1. Cardinality(Holders(i)') <= Cardinality(Holders(i)) /\ Cardinality(Holders(i)') \in Int
    <3>1. Cardinality(Holders(i)') = Cardinality(Holders(i)) - (IF i = doing[w] THEN 1 ELSE 0)
      BY <1>1, Released
    <3>2. QED
      BY <3>1, HoldersFinite
  <2>2. IsFiniteSet(ExistingLines(i)) /\ Cardinality(ExistingLines(i)) \in Nat
        /\ Cardinality(ExistingLines(i)) + Cardinality(Holders(i)) <= Cardinality(Writer)
    BY FS_CardinalityType DEF IInv, CopiesBounded
  <2>3. QED
    BY <1>2, <2>1, <2>2, HoldersFinite
<1>6. QED
  BY <1>3, <1>4, <1>5 DEF IInv, CopiesBounded

(* What one write may lose: itself, when it is cut, and in an open last    *)
(* line itself and whatever that line was.                                 *)
LEMMA WriteLoses ==
  ASSUME StateOK, NEW w \in Writer, doing[w] \in RecordId, NEW text \in Texts,
         file' = Add([id |-> doing[w], text |-> text]), saved' \in {saved, saved \cup {doing[w]}}
  PROVE  /\ Cardinality(Lost) \in Nat /\ Cardinality(Lost') \in Nat
         /\ Cardinality(Lost') <= Cardinality(Lost)
              + (IF ended THEN IF text = "whole" THEN 0 ELSE 1 ELSE Owed)
<1> DEFINE p == [id |-> doing[w], text |-> text]
<1>1. p \in Piece /\ FileOK /\ ended \in BOOLEAN /\ p.id = doing[w] /\ p.text = text
  BY DEF Piece, StateOK
<1>2. IsFiniteSet(Lost)
  BY NoMore DEF Lost, StateOK
<1>3. Lost' \subseteq (saved \ ExistingIds') \cup {doing[w]}
  BY DEF Lost
<1>4. CASE ended
  <2>1. ExistingIds \subseteq ExistingIds'
    BY <1>1, <1>4, AddLines DEF ExistingIds
  <2>2. Lost' \subseteq Lost \cup {doing[w]}
    BY <1>3, <2>1 DEF Lost
  <2>3. CASE text = "whole"
    <3>1. doing[w] \in ExistingIds'
      BY <1>1, <1>4, <2>3, AddLines DEF ExistingIds
    <3>2. Lost' \subseteq Lost
      BY <2>2, <3>1 DEF Lost
    <3>3. QED
      BY <1>2, <1>4, <2>3, <3>2, NoMore
  <2>4. CASE text # "whole"
    BY <1>2, <1>4, <2>2, <2>4, OneMore
  <2>5. QED
    BY <2>3, <2>4
<1>5. CASE ~ended
  <2>1. \A i : ExistingLines(i) \ {Len(file)} \subseteq ExistingLines(i)'
    BY <1>1, <1>5, AddLines
  <2>2. CASE LastIsWhole
    <3>1. PICK last \in RecordId : file[Len(file)] = <<Record(last)>>
      BY <2>2 DEF LastIsWhole, Record
    <3>2. \A i \in RecordId : Len(file) \in ExistingLines(i) => i = last
      <4> SUFFICES ASSUME NEW i \in RecordId, Len(file) \in ExistingLines(i)
                   PROVE  i = last
        OBVIOUS
      <4>1. <<Record(i)>> = <<Record(last)>>
        BY <3>1 DEF ExistingLines, Record
      <4>2. Record(i) = Record(last)
        BY <4>1
      <4>3. Record(i).id = Record(last).id
        BY <4>2
      <4>4. QED
        BY <4>3 DEF Record
    <3>3. ExistingIds \ {last} \subseteq ExistingIds'
      BY <2>1, <3>2 DEF ExistingIds
    <3>4. Lost' \subseteq (Lost \cup {last}) \cup {doing[w]}
      BY <1>3, <3>3 DEF Lost
    <3>5. IsFiniteSet(Lost \cup {last}) /\ Cardinality(Lost \cup {last}) <= Cardinality(Lost) + 1
          /\ Cardinality(Lost \cup {last}) \in Nat /\ Cardinality(Lost) \in Nat
      BY <1>2, OneMore
    <3>6. Cardinality(Lost') <= Cardinality(Lost \cup {last}) + 1 /\ Cardinality(Lost') \in Nat
      BY <3>4, <3>5, OneMore
    <3>7. QED
      BY <1>5, <2>2, <3>5, <3>6 DEF Owed
  <2>3. CASE ~LastIsWhole
    <3>1. \A i \in RecordId : Len(file) \notin ExistingLines(i)
      BY <2>3 DEF LastIsWhole, ExistingLines
    <3>2. ExistingIds \subseteq ExistingIds'
      BY <2>1, <3>1 DEF ExistingIds
    <3>3. Lost' \subseteq Lost \cup {doing[w]}
      BY <1>3, <3>2 DEF Lost
    <3>4. QED
      BY <1>2, <1>5, <2>3, <3>3, OneMore DEF Owed
  <2>4. QED
    BY <2>2, <2>3
<1>6. QED
  BY <1>1, <1>4, <1>5

LEMMA WriteIInv ==
  ASSUME IInv, NEW w \in Writer, Write(w)
  PROVE  IInv'
<1>1. /\ doing[w] # "none" /\ doing' = [doing EXCEPT ![w] = "none"]
      /\ saved' \in {saved, saved \cup {doing[w]}}
  BY DEF Write
<1>2. doing[w] \in RecordId /\ doing' \in [Writer -> RecordId \cup {"none"}]
  BY <1>1, Released
<1>3. PICK text \in Texts :
        /\ file' = Add([id |-> doing[w], text |-> text])
        /\ \/ text = "whole" /\ ended' = TRUE /\ short' = short /\ faults' = faults
           \/ faults < MaxFaults /\ faults' = faults + 1 /\ short' = short + 1 /\ ended' = FALSE
  BY DEF Write, Texts
<1> DEFINE p == [id |-> doing[w], text |-> text]
<1>4. p \in Piece /\ p.id = doing[w] /\ p.text = text /\ FileOK /\ ended \in BOOLEAN /\ file' = Add(p)
  BY <1>2, <1>3 DEF Piece, IInv, StateOK
<1>5. StateOK'
  <2>1. FileOK'
    <3>1. /\ file' \in Seq(Seq(Piece)) /\ file' # <<>>
          /\ \A i \in 1 .. Len(file') : file'[i] # <<>>
      BY <1>4, AddShape
    <3>2. ~ended' => short' > 0
      BY <1>3 DEF IInv, StateOK
    <3>3. QED
      BY <3>1, <3>2 DEF FileOK
  <2>2. saved' \subseteq RecordId /\ IsFiniteSet(saved')
    BY <1>1, <1>2, FS_AddElement DEF IInv, StateOK
  <2>3. short' \in 0 .. faults' /\ faults' \in 0 .. MaxFaults
    BY <1>3, AuditAssumption DEF IInv, StateOK
  <2>4. ended' \in BOOLEAN
    BY <1>3, Zenon
  <2>5. QED
    BY <1>2, <2>1, <2>2, <2>3, <2>4 DEF StateOK
<1>6. CopiesBounded'
  <2> SUFFICES ASSUME NEW i \in RecordId
               PROVE  /\ IsFiniteSet(ExistingLines(i)')
                      /\ Cardinality(ExistingLines(i)') + Cardinality(Holders(i)') <= Cardinality(Writer)
    BY DEF CopiesBounded
  <2>1. IsFiniteSet(ExistingLines(i)) /\ Cardinality(ExistingLines(i)) \in Nat
        /\ Cardinality(ExistingLines(i)) + Cardinality(Holders(i)) <= Cardinality(Writer)
    BY FS_CardinalityType DEF IInv, CopiesBounded
  <2>2. /\ Cardinality(Holders(i)) \in Nat /\ Cardinality(Writer) \in Nat
        /\ Cardinality(Holders(i)') = Cardinality(Holders(i)) - (IF i = doing[w] THEN 1 ELSE 0)
    BY <1>1, Released, HoldersFinite
  <2>3. CASE i = doing[w]
    <3>1. ExistingLines(i)' \subseteq ExistingLines(i) \cup {Len(file')}
      BY <1>4, AddLines
    <3>2. /\ IsFiniteSet(ExistingLines(i)') /\ Cardinality(ExistingLines(i)') \in Nat
          /\ Cardinality(ExistingLines(i)') <= Cardinality(ExistingLines(i)) + 1
      BY <2>1, <3>1, OneMore
    <3>3. QED
      BY <2>1, <2>2, <2>3, <3>2
  <2>4. CASE i # doing[w]
    <3>1. ExistingLines(i)' \subseteq ExistingLines(i)
      BY <1>4, <2>4, AddLines
    <3>2. /\ IsFiniteSet(ExistingLines(i)') /\ Cardinality(ExistingLines(i)') \in Nat
          /\ Cardinality(ExistingLines(i)') <= Cardinality(ExistingLines(i))
      BY <2>1, <3>1, NoMore
    <3>3. QED
      BY <2>1, <2>2, <2>4, <3>2
  <2>5. QED
    BY <2>3, <2>4
<1>7. LossBounded'
  <2>1. /\ Cardinality(Lost) \in Nat /\ Cardinality(Lost') \in Nat
        /\ Cardinality(Lost') <= Cardinality(Lost)
              + (IF ended THEN IF text = "whole" THEN 0 ELSE 1 ELSE Owed)
    BY <1>1, <1>2, <1>3, WriteLoses DEF IInv
  <2>2. short \in Nat /\ Cardinality(Lost) + Owed <= 2 * short
    BY AuditAssumption DEF IInv, StateOK, LossBounded
  <2>3. Owed \in 0 .. 2 /\ (ended => Owed = 0)
    BY DEF Owed
  <2>4. LastIsWhole' => ended /\ text = "whole"
    BY <1>4, AddLines
  <2>5. CASE ended' = TRUE /\ short' = short /\ text = "whole"
    <3>1. Owed' = 0
      BY <2>5 DEF Owed
    <3>2. QED
      BY <2>1, <2>2, <2>3, <2>5, <3>1 DEF LossBounded
  <2>6. CASE ended' = FALSE /\ short' = short + 1
    <3>1. Owed' = IF LastIsWhole' THEN 2 ELSE 1
      BY <2>6 DEF Owed
    <3>2. QED
      BY <2>1, <2>2, <2>3, <2>4, <2>6, <3>1 DEF LossBounded
  <2>7. QED
    BY <1>3, <2>5, <2>6
<1>8. QED
  BY <1>5, <1>6, <1>7 DEF IInv

LEMMA StutterIInv ==
  ASSUME IInv, UNCHANGED vars
  PROVE  IInv'
<1>1. UNCHANGED <<file, ended, doing, saved, short, faults>>
  BY DEF vars
<1>2. \A i : ExistingLines(i)' = ExistingLines(i) /\ Holders(i)' = Holders(i)
  BY <1>1 DEF ExistingLines, Holders
<1>3. StateOK' /\ CopiesBounded'
  BY <1>1, <1>2 DEF IInv, StateOK, FileOK, CopiesBounded
<1>4. LossBounded'
  BY <1>1, <1>2 DEF IInv, LossBounded, Lost, Owed, LastIsWhole, ExistingIds
<1>5. QED
  BY <1>3, <1>4 DEF IInv

LEMMA NextIInv == IInv /\ [Next]_vars => IInv'
BY WriteIInv, FailIInv, ScanIInv, StutterIInv DEF Next, Undecodable, Duplicate

LEMMA Invariant == Spec => []IInv
BY InitIInv, NextIInv, PTL DEF Spec

-----------------------------------------------------------------------------
(* Lines are made of pieces of records, and the file ends within a line    *)
(* only after a short write.                                               *)
THEOREM TypeCorrect == Spec => []TypeOK
<1>1. IInv => TypeOK
  BY DEF IInv, StateOK, FileOK, TypeOK, Piece
<1>2. QED
  BY <1>1, Invariant, PTL

(* However many writers save however many results: with n short writes at  *)
(* most 2 n of those reported as saved are not in the log, and with none,  *)
(* none.                                                                   *)
THEOREM LossIsBounded == Spec => []SavedIsKept
<1>1. IInv => SavedIsKept
  <2> SUFFICES ASSUME IInv
               PROVE  Cardinality(Lost) <= 2 * short
    BY DEF SavedIsKept, Lost
  <2>1. IsFiniteSet(Lost)
    BY NoMore DEF IInv, StateOK, Lost
  <2>2. Cardinality(Lost) \in Nat /\ short \in Nat
    BY <2>1, FS_CardinalityType, AuditAssumption DEF IInv, StateOK
  <2>3. QED
    BY <2>2 DEF IInv, LossBounded, Owed
<1>2. QED
  BY <1>1, Invariant, PTL

(* append_jsonl_once does not exclude the other writers between its scan  *)
(* and its write; still a record is in the log at most once for every     *)
(* writer, and with a single one at most once.                            *)
THEOREM CopiesAreBounded == Spec => []SavedOnce
<1>1. IInv => SavedOnce
  <2> SUFFICES ASSUME IInv, NEW id \in RecordId
               PROVE  Cardinality(ExistingLines(id)) <= Cardinality(Writer)
    BY DEF SavedOnce
  <2>1. Cardinality(ExistingLines(id)) \in Nat
        /\ Cardinality(ExistingLines(id)) + Cardinality(Holders(id)) <= Cardinality(Writer)
    BY FS_CardinalityType DEF IInv, CopiesBounded
  <2>2. QED
    BY <2>1, HoldersFinite
<1>2. QED
  BY <1>1, Invariant, PTL
=============================================================================
