------------------------ MODULE ServerInventoryProofs ------------------------
(***************************************************************************)
(* Theorems about the server inventory, for every number of collections,   *)
(* items, pages, edits and every page size, against any peer.              *)
(***************************************************************************)
EXTENDS ServerInventory, FiniteSetTheorems, FunctionTheorems, SequenceTheorems, TLAPS

L == Len(Kinds)

Worlds == [items : [Kind -> SUBSET Id], links : SUBSET (Kind \X Id \X Id),
           context : [Context -> {"a", "b", "bad"}]]
Finite(w) == \A k \in Kind : IsFiniteSet(w.items[k])
Rows == {Row(w, k, i) : w \in Worlds, k \in Kind, i \in Id}
Answers == {"refused", "typed", "a", "b", "bad"} \cup SUBSET Rows

(* What a collection may end with: the request limit is not among it.      *)
Results == {"none", "ok", "CONNECT", "NEGATIVE_TLS", "DRIFT", "PAGE", "REQUEST"}

WorldOK ==
  /\ worlds \in Seq(Worlds) /\ Len(worlds) >= 1 /\ world = worlds[Len(worlds)]
  /\ \A t \in 1 .. Len(worlds) : Finite(worlds[t])
  /\ Consistent(world)

Typed ==
  /\ stack \in {"checks", "sloppy"}
  /\ stage \in 1 .. 12 + 2 * L /\ asked \in BOOLEAN
  /\ found \in SUBSET Rows /\ IsFiniteSet(found)
  /\ total \in {{}} \cup {{c} : c \in 1 .. MaxItems} /\ (found # {} => total # {})
  /\ total # {} => stage \in 9 .. 8 + 2 * L
  /\ got \in Seq(Answers) /\ Len(got) = stage - 1
  /\ requests \in Nat /\ token \in BOOLEAN
  /\ result \in Results
  /\ stage = 12 + 2 * L <=> result = "ok"
  /\ asked \/ token => Running

-----------------------------------------------------------------------------
(* The script.                                                             *)

LEMMA LIsNat == L \in Nat /\ L >= 1 /\ DOMAIN Kinds = 1 .. L
<1>1. Kinds \in Seq(STRING)
  BY InventoryAssumption
<1>2. L \in Nat /\ DOMAIN Kinds = 1 .. L
  BY <1>1, LenProperties DEF L
<1>3. DOMAIN Kinds # {}
  BY InventoryAssumption DEF Kind
<1>4. QED
  BY <1>2, <1>3

(* Eight steps, the collections twice, and the context again.              *)
LEMMA ScriptIs ==
  /\ Len(Script) = 11 + 2 * L
  /\ Script[1] = "/" /\ Script[2] = "hostname" /\ Script[3] = "credentials" /\ Script[4] = "POST"
  /\ Script[5] = "version" /\ Script[6] = "me" /\ Script[7] = "policies_me" /\ Script[8] = "config"
  /\ \A j \in 1 .. L : Script[8 + j] = Kinds[j] /\ Script[8 + L + j] = Kinds[j]
  /\ Script[9 + 2 * L] = "config" /\ Script[10 + 2 * L] = "policies_me" /\ Script[11 + 2 * L] = "me"
<1> DEFINE head == <<"/", "hostname", "credentials", "POST", "version", "me", "policies_me", "config">>
           tail == <<"config", "policies_me", "me">>
           names == Singles \cup Kind
<1>1. /\ head \in Seq(names) /\ tail \in Seq(names) /\ Kinds \in Seq(names)
      /\ Len(head) = 8 /\ Len(tail) = 3 /\ Len(Kinds) = L
  <2>1. /\ "/" \in names /\ "hostname" \in names /\ "credentials" \in names /\ "POST" \in names
        /\ "version" \in names /\ "me" \in names /\ "policies_me" \in names /\ "config" \in names
    BY DEF Singles
  <2>2. Kinds \in Seq(names)
    <3>1. \A i \in 1 .. L : Kinds[i] \in names
      BY LIsNat DEF Kind
    <3>2. Kinds \in Seq(STRING)
      BY InventoryAssumption
    <3>3. Kinds \in [1 .. L -> names]
      BY <3>1, <3>2, LenProperties DEF L
    <3>4. QED
      BY <3>3, LIsNat, SeqDef
  <2> HIDE DEF names
  <2>3. head \in Seq(names) /\ Len(head) = 8
    BY <2>1
  <2>4. tail \in Seq(names) /\ Len(tail) = 3
    BY <2>1
  <2>5. QED
    BY <2>2, <2>3, <2>4 DEF L
<1>2. /\ head[1] = "/" /\ head[2] = "hostname" /\ head[3] = "credentials" /\ head[4] = "POST"
      /\ head[5] = "version" /\ head[6] = "me" /\ head[7] = "policies_me" /\ head[8] = "config"
      /\ tail[1] = "config" /\ tail[2] = "policies_me" /\ tail[3] = "me"
  OBVIOUS
<1> HIDE DEF head, tail, names
<1> DEFINE one == head \o Kinds
           two == one \o Kinds
<1>3. /\ one \in Seq(names) /\ Len(one) = 8 + L
      /\ \A i \in 1 .. 8 + L : one[i] = IF i <= 8 THEN head[i] ELSE Kinds[i - 8]
  <2>1. /\ one \in Seq(names) /\ Len(one) = Len(head) + Len(Kinds)
        /\ \A i \in 1 .. Len(head) + Len(Kinds) : one[i] = IF i <= Len(head) THEN head[i] ELSE Kinds[i - Len(head)]
    BY <1>1, ConcatProperties
  <2>2. QED
    BY <1>1, <2>1
<1> HIDE DEF one
<1>4. /\ two \in Seq(names) /\ Len(two) = 8 + L + L
      /\ \A i \in 1 .. 8 + L + L : two[i] = IF i <= 8 + L THEN one[i] ELSE Kinds[i - (8 + L)]
  <2>1. /\ two \in Seq(names) /\ Len(two) = Len(one) + Len(Kinds)
        /\ \A i \in 1 .. Len(one) + Len(Kinds) : two[i] = IF i <= Len(one) THEN one[i] ELSE Kinds[i - Len(one)]
    BY <1>1, <1>3, ConcatProperties
  <2>2. QED
    BY <1>1, <1>3, <2>1
<1> HIDE DEF two
<1>5. Script = two \o tail
  BY DEF Script, two, one, head, tail
<1>6. /\ Len(Script) = 8 + L + L + 3
      /\ \A i \in 1 .. 8 + L + L + 3 : Script[i] = IF i <= 8 + L + L THEN two[i] ELSE tail[i - (8 + L + L)]
  <2>1. /\ Len(Script) = Len(two) + Len(tail)
        /\ \A i \in 1 .. Len(two) + Len(tail) : Script[i] = IF i <= Len(two) THEN two[i] ELSE tail[i - Len(two)]
    BY <1>1, <1>4, <1>5, ConcatProperties
  <2>2. QED
    BY <1>1, <1>4, <2>1
<1>7. \A i \in 1 .. 8 : Script[i] = head[i]
  BY <1>3, <1>4, <1>6, LIsNat
<1>8. ASSUME NEW j \in 1 .. L
      PROVE  Script[8 + j] = Kinds[j] /\ Script[8 + L + j] = Kinds[j]
  BY <1>3, <1>4, <1>6, LIsNat
<1>9. Script[9 + 2 * L] = tail[1] /\ Script[10 + 2 * L] = tail[2] /\ Script[11 + 2 * L] = tail[3]
  BY <1>6, LIsNat
<1>10. QED
  BY <1>2, <1>6, <1>7, <1>8, <1>9, LIsNat

(* Where the collections are in it.                                        *)
LEMMA ScriptKinds ==
  ASSUME NEW s \in 1 .. Len(Script)
  PROVE  /\ s \in 9 .. 8 + 2 * L <=> Script[s] \in Kind
         /\ s \in 9 .. 8 + L => Script[s + L] = Script[s]
         /\ Script[s] = "POST" <=> s = 4
         /\ Script[s] = "hostname" <=> s = 2
         /\ Script[s] = "credentials" <=> s = 3
         /\ Script[s] \in Context <=> s \in 6 .. 8 \/ s \in 9 + 2 * L .. 11 + 2 * L
<1>0. s \in Nat /\ s >= 1 /\ s <= 11 + 2 * L /\ L \in Nat /\ L >= 1
  BY ScriptIs, LIsNat
<1>1. CASE s \in 9 .. 8 + L
  <2>1. s - 8 \in 1 .. L /\ s = 8 + (s - 8) /\ s + L = 8 + L + (s - 8)
    BY <1>0, <1>1
  <2>2. Script[s] = Kinds[s - 8] /\ Script[s + L] = Kinds[s - 8]
    BY <2>1, ScriptIs
  <2>3. Script[s] \in Kind
    BY <2>1, <2>2, LIsNat DEF Kind
  <2>4. QED
    BY <1>0, <1>1, <2>2, <2>3, InventoryAssumption DEF Singles, Context
<1>2. CASE s \in 9 + L .. 8 + 2 * L
  <2>1. s - 8 - L \in 1 .. L /\ s = 8 + L + (s - 8 - L)
    BY <1>0, <1>2
  <2>2. Script[s] = Kinds[s - 8 - L]
    BY <2>1, ScriptIs
  <2>3. Script[s] \in Kind
    BY <2>1, <2>2, LIsNat DEF Kind
  <2>4. QED
    BY <1>0, <1>2, <2>3, InventoryAssumption DEF Singles, Context
<1>3. CASE s \in 1 .. 8
  <2>1. s \in {1, 2, 3, 4, 5, 6, 7, 8}
    BY <1>3
  <2>2. Script[s] \in Singles
    BY <2>1, ScriptIs DEF Singles
  <2>3. Script[s] \notin Kind
    BY <2>2, InventoryAssumption
  <2>4. s \notin 9 .. 8 + 2 * L /\ s \notin 9 .. 8 + L /\ s \notin 9 + 2 * L .. 11 + 2 * L
    BY <1>0, <1>3
  <2>5. QED
    BY <2>1, <2>3, <2>4, ScriptIs DEF Context
<1>4. CASE s \in 9 + 2 * L .. 11 + 2 * L
  <2>1. s = 9 + 2 * L \/ s = 10 + 2 * L \/ s = 11 + 2 * L
    BY <1>0, <1>4
  <2>2. Script[s] \in Context /\ Script[s] \in Singles
    BY <2>1, ScriptIs DEF Singles, Context
  <2>3. Script[s] \notin Kind
    BY <2>2, InventoryAssumption
  <2>4. QED
    BY <1>0, <1>4, <2>2, <2>3 DEF Context
<1>5. QED
  BY <1>0, <1>1, <1>2, <1>3, <1>4

-----------------------------------------------------------------------------
(* Catalogs and their pages.                                               *)

(* There is a row for every item, and its identifier tells which.          *)
LEMMA RowsOf ==
  ASSUME NEW w \in Worlds, NEW k \in Kind, NEW I \in SUBSET w.items[k], IsFiniteSet(I)
  PROVE  /\ IsFiniteSet({Row(w, k, i) : i \in I})
         /\ Cardinality({Row(w, k, i) : i \in I}) = Cardinality(I)
<1> DEFINE R == {Row(w, k, i) : i \in I}
           f == [i \in I |-> Row(w, k, i)]
<1>1. \A i \in I : Row(w, k, i).id = i
  BY DEF Row
<1>2. f \in Bijection(I, R)
  <2>1. f \in [I -> R] /\ \A i, j \in I : f[i] = f[j] => i = j
    BY <1>1
  <2>2. \A r \in R : \E i \in I : f[i] = r
    OBVIOUS
  <2>3. QED
    BY <2>1, <2>2, Fun_IsBij
<1>3. ExistsBijection(I, R)
  BY <1>2 DEF ExistsBijection
<1>4. QED
  BY <1>3, FS_Bijection

LEMMA CatalogIs ==
  ASSUME NEW w \in Worlds, Finite(w), NEW k \in Kind
  PROVE  /\ IsFiniteSet(w.items[k]) /\ Cardinality(w.items[k]) \in Nat
         /\ IsFiniteSet(Catalog(w, k)) /\ Cardinality(Catalog(w, k)) = Cardinality(w.items[k])
         /\ Catalog(w, k) \in SUBSET Rows
<1>1. IsFiniteSet(w.items[k]) /\ w.items[k] \in SUBSET Id
  BY DEF Finite, Worlds
<1>2. Cardinality(w.items[k]) \in Nat
  BY <1>1, FS_CardinalityType
<1>3. IsFiniteSet(Catalog(w, k)) /\ Cardinality(Catalog(w, k)) = Cardinality(w.items[k])
  BY <1>1, RowsOf DEF Catalog
<1>4. Catalog(w, k) \in SUBSET Rows
  BY <1>1 DEF Catalog, Rows
<1>5. QED
  BY <1>1, <1>2, <1>3, <1>4

(* The number of smaller items numbers the items of a finite set.          *)
LEMMA RankIsBijection ==
  ASSUME NEW I \in SUBSET Nat, IsFiniteSet(I)
  PROVE  [i \in I |-> Cardinality({j \in I : j < i})] \in Bijection(I, 0 .. Cardinality(I) - 1)
<1> DEFINE below(i) == {j \in I : j < i}
           f == [i \in I |-> Cardinality(below(i))]
           c == Cardinality(I)
<1>1. c \in Nat
  BY FS_CardinalityType
<1>2. \A i \in I : IsFiniteSet(below(i)) /\ Cardinality(below(i)) \in Nat
  <2> TAKE i \in I
  <2>1. below(i) \in SUBSET I
    OBVIOUS
  <2>2. IsFiniteSet(below(i))
    BY <2>1, FS_Subset
  <2>3. QED
    BY <2>2, FS_CardinalityType
<1>3. ASSUME NEW i \in I
      PROVE  Cardinality(below(i)) \in 0 .. c - 1
  <2>1. below(i) \in SUBSET I /\ below(i) # I
    OBVIOUS
  <2>2. Cardinality(below(i)) <= c /\ Cardinality(below(i)) # c
    BY <2>1, FS_Subset
  <2>3. QED
    BY <1>1, <1>2, <2>2
<1>4. ASSUME NEW i \in I, NEW j \in I, i < j
      PROVE  Cardinality(below(i)) < Cardinality(below(j))
  <2>0. i \in Nat /\ j \in Nat /\ \A m \in I : m \in Nat
    OBVIOUS
  <2>1. below(i) \in SUBSET below(j) /\ i \in below(j) /\ i \notin below(i)
    <3>1. \A m \in I : m < i => m < j
      BY <1>4, <2>0
    <3>2. i < j /\ ~(i < i)
      BY <1>4, <2>0
    <3>3. QED
      BY <3>1, <3>2
  <2>2. IsFiniteSet(below(j))
    BY <1>2
  <2>3. Cardinality(below(i)) <= Cardinality(below(j)) /\ Cardinality(below(i)) # Cardinality(below(j))
    BY <2>1, <2>2, FS_Subset
  <2>4. QED
    BY <1>2, <2>3
<1>5. f \in [I -> 0 .. c - 1]
  BY <1>3
<1>6. \A i, j \in I : f[i] = f[j] => i = j
  <2> SUFFICES ASSUME NEW i \in I, NEW j \in I, f[i] = f[j], i # j
               PROVE  FALSE
    OBVIOUS
  <2>1. i < j \/ j < i
    OBVIOUS
  <2>2. QED
    BY <1>2, <1>4, <2>1
<1> HIDE DEF f
<1>7. f \in Injection(I, 0 .. c - 1)
  BY <1>5, <1>6, Fun_IsInj
<1>8. IsFiniteSet(0 .. c - 1) /\ Cardinality(0 .. c - 1) = c
  <2>1. 0 \in Int /\ c - 1 \in Int
    BY <1>1
  <2>2. IsFiniteSet(0 .. c - 1) /\ Cardinality(0 .. c - 1) = IF 0 > c - 1 THEN 0 ELSE c - 1 - 0 + 1
    BY <2>1, FS_Interval
  <2>3. QED
    BY <1>1, <2>2
<1>9. f \in Surjection(I, 0 .. c - 1)
  BY <1>7, <1>8, FS_Injection
<1>10. QED
  BY <1>7, <1>9 DEF Bijection, f

(* A page that does not reach the end of the catalog is full.              *)
LEMMA PageIsFull ==
  ASSUME NEW w \in Worlds, Finite(w), NEW k \in Kind, NEW n \in Nat
  PROVE  /\ PageAt(w, k, n) \in SUBSET Catalog(w, k) /\ IsFiniteSet(PageAt(w, k, n))
         /\ n + PageSize <= Cardinality(w.items[k]) => Cardinality(PageAt(w, k, n)) = PageSize
         /\ n <= Cardinality(w.items[k]) /\ Cardinality(w.items[k]) < n + PageSize =>
              Cardinality(PageAt(w, k, n)) = Cardinality(w.items[k]) - n
<1> DEFINE I == w.items[k]
           c == Cardinality(I)
           f == [i \in I |-> Cardinality({j \in I : j < i})]
           P(m) == {i \in I : f[i] \in n .. m}
<1>1. PageSize \in Nat /\ PageSize >= 1
  BY InventoryAssumption
<1>2. I \in SUBSET Nat /\ IsFiniteSet(I) /\ c \in Nat
  BY CatalogIs, InventoryAssumption DEF Worlds
<1>3. PageAt(w, k, n) \in SUBSET Catalog(w, k) /\ IsFiniteSet(PageAt(w, k, n))
  <2>1. PageAt(w, k, n) \in SUBSET Catalog(w, k)
    BY DEF PageAt
  <2>2. QED
    BY <2>1, CatalogIs, FS_Subset
<1>4. PageAt(w, k, n) = {Row(w, k, i) : i \in P(n + PageSize - 1)}
  <2>1. \A i : Row(w, k, i).id = i
    BY DEF Row
  <2>2. \A i \in I : f[i] = Cardinality({j \in w.items[k] : j < i})
    OBVIOUS
  <2> HIDE DEF f
  <2>3. QED
    BY <2>1, <2>2 DEF PageAt, Catalog
<1>5. f \in Bijection(I, 0 .. c - 1)
  BY <1>2, RankIsBijection
<1> HIDE DEF f
<1>6. /\ f \in [I -> 0 .. c - 1] /\ (\A i, j \in I : f[i] = f[j] => i = j)
      /\ \A r \in 0 .. c - 1 : \E i \in I : f[i] = r
  <2> DEFINE ranks == 0 .. c - 1
  <2>1. f \in Bijection(I, ranks)
    BY <1>5
  <2> HIDE DEF I, ranks
  <2>2. /\ f \in [I -> ranks] /\ (\A i, j \in I : f[i] = f[j] => i = j)
        /\ \A r \in ranks : \E i \in I : f[i] = r
    BY <2>1, Fun_BijectionProperties
  <2>3. QED
    BY <2>2 DEF ranks
<1>7. ASSUME NEW m \in Int, m <= c - 1
      PROVE  IsFiniteSet(P(m)) /\ Cardinality(P(m)) = Cardinality(n .. m)
  <2> DEFINE g == [i \in P(m) |-> f[i]]
  <2>1. g \in [P(m) -> n .. m] /\ \A i, j \in P(m) : g[i] = g[j] => i = j
    BY <1>6
  <2>2. \A r \in n .. m : \E i \in P(m) : g[i] = r
    BY <1>2, <1>6, <1>7
  <2>3. g \in Bijection(P(m), n .. m)
    BY <2>1, <2>2, Fun_IsBij
  <2>4. ExistsBijection(P(m), n .. m)
    BY <2>3, Fun_ExistsBij
  <2>5. P(m) \in SUBSET I
    OBVIOUS
  <2>6. IsFiniteSet(P(m))
    BY <1>2, <2>5, FS_Subset
  <2>7. QED
    BY <2>4, <2>6, FS_Bijection
<1>8. ASSUME NEW m \in Int, m <= c - 1, P(m) = P(n + PageSize - 1), n <= m + 1
      PROVE  Cardinality(PageAt(w, k, n)) = m - n + 1
  <2> DEFINE J == P(m)
  <2>1. J \in SUBSET w.items[k] /\ IsFiniteSet(J) /\ Cardinality(J) = Cardinality(n .. m)
    BY <1>7, <1>8
  <2>2. PageAt(w, k, n) = {Row(w, k, i) : i \in J}
    BY <1>4, <1>8
  <2> HIDE DEF J
  <2>3. Cardinality(PageAt(w, k, n)) = Cardinality(J)
    BY <2>1, <2>2, RowsOf
  <2>4. n \in Int /\ m \in Int /\ n <= m + 1
    BY <1>8
  <2>5. Cardinality(n .. m) = IF n > m THEN 0 ELSE m - n + 1
    BY <2>4, FS_Interval
  <2>6. Cardinality(n .. m) = m - n + 1
    BY <2>4, <2>5
  <2>7. QED
    BY <2>1, <2>3, <2>6
<1>9. ASSUME n + PageSize <= c
      PROVE  Cardinality(PageAt(w, k, n)) = PageSize
  <2>1. n + PageSize - 1 \in Int /\ n + PageSize - 1 <= c - 1 /\ n <= (n + PageSize - 1) + 1
    BY <1>1, <1>2, <1>9
  <2>2. Cardinality(PageAt(w, k, n)) = (n + PageSize - 1) - n + 1
    BY <1>8, <2>1
  <2>3. QED
    BY <1>1, <2>2
<1>10. ASSUME n <= c, c < n + PageSize
       PROVE  Cardinality(PageAt(w, k, n)) = c - n
  <2>1. c - 1 \in Int /\ c - 1 <= c - 1 /\ n <= (c - 1) + 1
    BY <1>2, <1>10
  <2>2. P(c - 1) = P(n + PageSize - 1)
    BY <1>1, <1>2, <1>6, <1>10
  <2>3. Cardinality(PageAt(w, k, n)) = (c - 1) - n + 1
    BY <1>8, <2>1, <2>2
  <2>4. QED
    BY <1>2, <2>3
<1>11. QED
  BY <1>3, <1>9, <1>10

(* The requests there may have been by the time a step is begun.           *)
Spent(s) ==
  IF s <= 1 THEN 0 ELSE IF s <= 4 THEN 1 ELSE IF s <= 9 THEN s - 3
  ELSE IF s <= 9 + 2 * L THEN 6 + (s - 9) * Pages ELSE 6 + 2 * L * Pages + (s - 9 - 2 * L)

(* As many pages as there are fit below the greatest catalog, and no more. *)
LEMMA PagesAreEnough ==
  /\ Pages \in Nat
  /\ \A n \in Nat : n * PageSize < MaxItems => n + 1 <= Pages
<1>1. PageSize \in Nat /\ PageSize >= 1 /\ MaxItems \in Nat /\ MaxItems >= 1
  BY InventoryAssumption
<1>2. ASSUME NEW a \in Nat, NEW b \in Nat, NEW p \in Nat, p >= 1, a * p <= b
      PROVE  b \div p \in Nat /\ a <= b \div p
  BY <1>2
<1>3. ASSUME NEW n \in Nat, n * PageSize < MaxItems
      PROVE  n + 1 <= Pages
  <2>1. (n + 1) * PageSize = n * PageSize + PageSize
    BY <1>1
  <2>2. (n + 1) * PageSize <= MaxItems + PageSize - 1 /\ MaxItems + PageSize - 1 \in Nat
    <3> DEFINE np == n * PageSize
    <3>1. np \in Nat
      BY <1>1
    <3> HIDE DEF np
    <3>2. QED
      BY <1>1, <1>3, <2>1, <3>1 DEF np
  <2>3. QED
    BY <1>1, <1>2, <2>2 DEF Pages
<1>4. Pages \in Nat
  <2>1. 0 * PageSize <= MaxItems + PageSize - 1 /\ MaxItems + PageSize - 1 \in Nat
    BY <1>1
  <2>2. QED
    BY <1>1, <1>2, <2>1 DEF Pages
<1>5. QED
  BY <1>3, <1>4

LEMMA SpentGrows ==
  /\ \A s \in 1 .. 12 + 2 * L : Spent(s) \in Nat /\ Spent(s) <= MaxRequests
  /\ \A s \in 1 .. 11 + 2 * L :
       /\ Spent(s) <= Spent(s + 1)
       /\ s \notin {2, 3} => Spent(s) + 1 <= Spent(s + 1)
       /\ s \in 9 .. 8 + 2 * L => Spent(s + 1) = Spent(s) + Pages
<1>1. L \in Nat /\ L >= 1 /\ Pages \in Nat /\ Pages >= 1 /\ MaxRequests \in Nat
  <2>1. 0 * PageSize < MaxItems
    BY InventoryAssumption
  <2>2. Pages \in Nat /\ 0 + 1 <= Pages
    BY <2>1, PagesAreEnough
  <2>3. QED
    BY <2>2, LIsNat, InventoryAssumption
<1>2. 9 + 2 * L * Pages <= MaxRequests /\ 2 * L * Pages \in Nat
  BY <1>1, InventoryAssumption DEF L
<1>3. \A j \in Nat : j * Pages \in Nat /\ (j + 1) * Pages = j * Pages + Pages
  BY <1>1
<1>4. \A j \in 0 .. 2 * L : j * Pages <= 2 * L * Pages
  BY <1>1
<1>5. ASSUME NEW s \in 1 .. 12 + 2 * L
      PROVE  Spent(s) \in Nat /\ Spent(s) <= MaxRequests
  <2>1. CASE s <= 9
    <3>1. Spent(s) \in Nat /\ Spent(s) <= 6
      BY <1>1, <2>1 DEF Spent
    <3>2. QED
      BY <1>1, <1>2, <3>1
  <2>2. CASE s > 9 /\ s <= 9 + 2 * L
    <3>1. Spent(s) = 6 + (s - 9) * Pages /\ s - 9 \in 0 .. 2 * L
      BY <1>1, <2>2 DEF Spent
    <3>2. QED
      BY <1>1, <1>2, <1>3, <1>4, <3>1
  <2>3. CASE s > 9 + 2 * L
    <3>1. Spent(s) = 6 + 2 * L * Pages + (s - 9 - 2 * L) /\ s - 9 - 2 * L \in 1 .. 3
      BY <1>1, <2>3 DEF Spent
    <3>2. QED
      BY <1>1, <1>2, <3>1
  <2>4. QED
    BY <1>1, <2>1, <2>2, <2>3
<1>6. ASSUME NEW s \in 1 .. 11 + 2 * L
      PROVE  /\ Spent(s) <= Spent(s + 1)
             /\ s \notin {2, 3} => Spent(s) + 1 <= Spent(s + 1)
             /\ s \in 9 .. 8 + 2 * L => Spent(s + 1) = Spent(s) + Pages
  <2>1. CASE s <= 8
    BY <1>1, <2>1 DEF Spent
  <2>2. CASE s = 9
    <3>1. Spent(s) = 6 /\ Spent(s + 1) = 6 + 1 * Pages
      BY <1>1, <2>2 DEF Spent
    <3>2. QED
      BY <1>1, <3>1
  <2>3. CASE s > 9 /\ s <= 8 + 2 * L
    <3>1. /\ Spent(s) = 6 + (s - 9) * Pages /\ Spent(s + 1) = 6 + (s + 1 - 9) * Pages
          /\ s - 9 \in Nat /\ s + 1 - 9 = (s - 9) + 1
      BY <1>1, <2>3 DEF Spent
    <3>2. (s + 1 - 9) * Pages = (s - 9) * Pages + Pages /\ (s - 9) * Pages \in Nat
      BY <1>3, <3>1
    <3>3. QED
      BY <1>1, <3>1, <3>2
  <2>4. CASE s = 9 + 2 * L
    <3>1. Spent(s) = 6 + (s - 9) * Pages /\ s - 9 = 2 * L
      BY <1>1, <2>4 DEF Spent
    <3>2. Spent(s + 1) = 6 + 2 * L * Pages + 1
      BY <1>1, <2>4 DEF Spent
    <3>3. QED
      BY <1>1, <1>2, <2>4, <3>1, <3>2
  <2>5. CASE s > 9 + 2 * L
    <3>1. Spent(s) = 6 + 2 * L * Pages + (s - 9 - 2 * L) /\ Spent(s + 1) = 6 + 2 * L * Pages + (s + 1 - 9 - 2 * L)
      BY <1>1, <2>5 DEF Spent
    <3>2. QED
      BY <1>1, <1>2, <2>5, <3>1
  <2>6. QED
    BY <1>1, <2>1, <2>2, <2>3, <2>4, <2>5
<1>7. QED
  BY <1>5, <1>6

-----------------------------------------------------------------------------
(* The inductive invariant.                                                *)

(* The password was sent by the fourth step and only to the server, and    *)
(* the library was seen to check host names by the second.                 *)
Secrets ==
  /\ posts \in {<<>>, <<"server">>} /\ told \in SUBSET {"server"}
  /\ told # {} => posts # <<>>
  /\ posts # <<>> => stage >= 4
  /\ stage > 2 => stack = "checks"
  /\ token => stage > 4
  /\ stage > 4 \/ (stage = 4 /\ asked) => posts # <<>>

(* Every page but the last of a collection was full.                       *)
Counted ==
  /\ requests <= MaxRequests
  /\ asked => stage \notin {2, 3}
  /\ \A c \in total : Cardinality(found) < c
  /\ Running => \E n \in Nat : /\ n * PageSize <= Cardinality(found)
                               /\ requests <= Spent(stage) + n + (IF asked THEN 1 ELSE 0)

(* At its last page a collection had as many items as were found, and each *)
(* was seen by then; at its first it had as many, and each was seen since. *)
Ended(k, v, h) ==
  /\ Cardinality(worlds[h].items[k]) = Cardinality(v)
  /\ \A x \in v : \E t \in 1 .. h : x \in Catalog(worlds[t], k)
Began(k, n, v, l) ==
  /\ Cardinality(worlds[l].items[k]) = n
  /\ \A x \in v : \E t \in l .. Len(worlds) : x \in Catalog(worlds[t], k)

(* What the first pass saw by the instant m, and the second since.         *)
First(m) ==
  /\ \A s \in 6 .. 8 : s < stage => \E t \in 1 .. m : got[s] = worlds[t].context[Script[s]]
  /\ \A s \in 9 .. 8 + L : s < stage => \E h \in 1 .. m : Ended(Script[s], got[s], h)
  /\ stage \in 9 .. 8 + L => \A x \in found : \E t \in 1 .. m : x \in Catalog(worlds[t], Script[stage])
Second(m) ==
  /\ \A s \in 9 + L .. 8 + 2 * L : s < stage =>
       \E l \in m .. Len(worlds) : Began(Script[s], Cardinality(got[s]), got[s], l)
  /\ \A s \in 9 + 2 * L .. 11 + 2 * L : s < stage =>
       \E t \in m .. Len(worlds) : got[s] = worlds[t].context[Script[s]]
  /\ stage \in 9 + L .. 8 + 2 * L => \A c \in total :
       \E l \in m .. Len(worlds) : Began(Script[stage], c, found, l)
Between == \E m \in 1 .. Len(worlds) : First(m) /\ Second(m)

(* The second answers were those of the first.                             *)
Same ==
  /\ \A s \in 9 + L .. 8 + 2 * L : s < stage => got[s] = got[s - L]
  /\ \A s \in 9 + 2 * L .. 11 + 2 * L : s < stage =>
       got[s] = got[CHOOSE i \in 6 .. 8 : Script[i] = Script[s]]

IInv == WorldOK /\ Typed /\ Secrets /\ Counted /\ Between /\ Same

-----------------------------------------------------------------------------
(* What is the same at two instants was so between them, too.              *)
LEMMA Stayed ==
  ASSUME ~Reversed, NEW i \in DOMAIN worlds, NEW j \in DOMAIN worlds, NEW l \in DOMAIN worlds,
         i <= j, j <= l, DOMAIN worlds \subseteq Nat
  PROVE  /\ \A c \in Context : worlds[i].context[c] = worlds[l].context[c] =>
                                 worlds[j].context[c] = worlds[i].context[c]
         /\ \A k \in Kind, n \in Id :
              LET Part(w) == {x \in Catalog(w, k) : x.id = n}
              IN  Part(worlds[i]) = Part(worlds[l]) => Part(worlds[j]) = Part(worlds[i])
<1>1. i = j \/ j = l \/ (i < j /\ j < l)
  OBVIOUS
<1>2. ASSUME NEW c \in Context, worlds[i].context[c] = worlds[l].context[c]
      PROVE  worlds[j].context[c] = worlds[i].context[c]
  <2>1. ~WentBack(LAMBDA w : w.context[c])
    BY DEF Reversed
  <2>2. QED
    BY <1>1, <1>2, <2>1 DEF WentBack
<1>3. ASSUME NEW k \in Kind, NEW n \in Id,
             {x \in Catalog(worlds[i], k) : x.id = n} = {x \in Catalog(worlds[l], k) : x.id = n}
      PROVE  {x \in Catalog(worlds[j], k) : x.id = n} = {x \in Catalog(worlds[i], k) : x.id = n}
  <2>1. ~WentBack(LAMBDA w : {x \in Catalog(w, k) : x.id = n})
    BY DEF Reversed
  <2>2. QED
    BY <1>1, <1>3, <2>1 DEF WentBack
<1>4. QED
  BY <1>2, <1>3

-----------------------------------------------------------------------------
(* The steps.                                                              *)

LEMMA Bounds ==
  ASSUME IInv
  PROVE  /\ L \in Nat /\ L >= 1 /\ Len(Script) = 11 + 2 * L
         /\ stage \in Nat /\ stage >= 1 /\ stage <= 12 + 2 * L
         /\ Running => stage \in 1 .. Len(Script)
         /\ Len(worlds) \in Nat /\ Len(worlds) >= 1 /\ DOMAIN worlds = 1 .. Len(worlds)
         /\ world \in Worlds /\ Finite(world) /\ world = worlds[Len(worlds)]
         /\ \A t \in 1 .. Len(worlds) : worlds[t] \in Worlds
         /\ DOMAIN got = 1 .. stage - 1
<1>1. L \in Nat /\ L >= 1 /\ Len(Script) = 11 + 2 * L
  BY LIsNat, ScriptIs
<1>2. stage \in Nat /\ stage >= 1 /\ stage <= 12 + 2 * L /\ (Running => stage # 12 + 2 * L)
  BY <1>1 DEF IInv, Typed, Running
<1>3. worlds \in Seq(Worlds) /\ Len(worlds) >= 1 /\ world = worlds[Len(worlds)]
  BY DEF IInv, WorldOK
<1>4. Len(worlds) \in Nat /\ DOMAIN worlds = 1 .. Len(worlds) /\ \A t \in 1 .. Len(worlds) : worlds[t] \in Worlds
  BY <1>3, LenProperties, ElementOfSeq
<1>5. Len(worlds) \in 1 .. Len(worlds)
  BY <1>3, <1>4
<1>6. world \in Worlds /\ Finite(world)
  BY <1>3, <1>4, <1>5 DEF IInv, WorldOK
<1>7. DOMAIN got = 1 .. stage - 1
  BY LenProperties DEF IInv, Typed
<1>8. QED
  BY <1>1, <1>2, <1>3, <1>4, <1>6, <1>7

(* What was seen by an instant was seen by any later one.                  *)
LEMMA FirstLater ==
  ASSUME IInv, NEW m \in 1 .. Len(worlds), First(m)
  PROVE  First(Len(worlds))
<1>1. \A t \in 1 .. m : t \in 1 .. Len(worlds)
  BY Bounds
<1>2. QED
  BY <1>1 DEF First

(* Nothing that the server held is forgotten.                              *)
LEMMA BetweenStays ==
  ASSUME IInv, UNCHANGED <<stage, found, total, got>>, Len(worlds') \in Nat, Len(worlds) <= Len(worlds'),
         \A t \in 1 .. Len(worlds) : worlds'[t] = worlds[t]
  PROVE  Between'
<1>1. PICK m \in 1 .. Len(worlds) : First(m) /\ Second(m)
  BY DEF IInv, Between
<1>2. /\ m \in 1 .. Len(worlds') /\ (\A t \in 1 .. m : t \in 1 .. Len(worlds))
      /\ (\A t \in m .. Len(worlds) : t \in m .. Len(worlds') /\ t \in 1 .. Len(worlds))
      /\ \A h \in 1 .. m : \A t \in 1 .. h : t \in 1 .. Len(worlds)
  BY Bounds
<1>3. \A h \in 1 .. m : \A k, v : Ended(k, v, h) => Ended(k, v, h)'
  BY <1>2 DEF Ended
<1>4. First(m)'
  <2>1. \A s \in 6 .. 8 : s < stage => \E t \in 1 .. m : got[s] = worlds'[t].context[Script[s]]
    BY <1>1, <1>2 DEF First
  <2>2. \A s \in 9 .. 8 + L : s < stage => \E h \in 1 .. m : Ended(Script[s], got[s], h)'
    <3> SUFFICES ASSUME NEW s \in 9 .. 8 + L, s < stage
                 PROVE  \E h \in 1 .. m : Ended(Script[s], got[s], h)'
      OBVIOUS
    <3>1. PICK h \in 1 .. m : Ended(Script[s], got[s], h)
      BY <1>1 DEF First
    <3>2. QED
      BY <1>2, <3>1 DEF Ended
  <2>3. stage \in 9 .. 8 + L => \A x \in found : \E t \in 1 .. m : x \in Catalog(worlds'[t], Script[stage])
    BY <1>1, <1>2 DEF First
  <2>4. QED
    BY <2>1, <2>2, <2>3 DEF First
<1>5. Second(m)'
  <2>1. \A s \in 9 + L .. 8 + 2 * L : s < stage =>
          \E l \in m .. Len(worlds') : Began(Script[s], Cardinality(got[s]), got[s], l)'
    <3> SUFFICES ASSUME NEW s \in 9 + L .. 8 + 2 * L, s < stage
                 PROVE  \E l \in m .. Len(worlds') : Began(Script[s], Cardinality(got[s]), got[s], l)'
      OBVIOUS
    <3>1. PICK l \in m .. Len(worlds) : Began(Script[s], Cardinality(got[s]), got[s], l)
      BY <1>1 DEF Second
    <3>2. \A t \in l .. Len(worlds) : t \in l .. Len(worlds') /\ t \in m .. Len(worlds)
      <4>1. Len(worlds) \in Nat /\ m \in Nat /\ l \in Nat /\ m <= l
        BY Bounds
      <4>2. QED
        BY <4>1
    <3>3. QED
      BY <1>2, <3>1, <3>2 DEF Began
  <2>2. \A s \in 9 + 2 * L .. 11 + 2 * L : s < stage =>
          \E t \in m .. Len(worlds') : got[s] = worlds'[t].context[Script[s]]
    BY <1>1, <1>2 DEF Second
  <2>3. stage \in 9 + L .. 8 + 2 * L => \A c \in total :
          \E l \in m .. Len(worlds') : Began(Script[stage], c, found, l)'
    <3> SUFFICES ASSUME stage \in 9 + L .. 8 + 2 * L, NEW c \in total
                 PROVE  \E l \in m .. Len(worlds') : Began(Script[stage], c, found, l)'
      OBVIOUS
    <3>1. PICK l \in m .. Len(worlds) : Began(Script[stage], c, found, l)
      BY <1>1 DEF Second
    <3>2. \A t \in l .. Len(worlds) : t \in l .. Len(worlds') /\ t \in m .. Len(worlds)
      <4>1. Len(worlds) \in Nat /\ m \in Nat /\ l \in Nat /\ m <= l
        BY Bounds
      <4>2. QED
        BY <4>1
    <3>3. QED
      BY <1>2, <3>1, <3>2 DEF Began
  <2>4. QED
    BY <2>1, <2>2, <2>3 DEF Second
<1>6. QED
  BY <1>2, <1>4, <1>5 DEF Between

LEMMA SameStays ==
  ASSUME IInv, UNCHANGED <<stage, got>>
  PROVE  Same'
BY DEF IInv, Same

(* The client ends with an error, and tells nobody anything any more.      *)
LEMMA HaltIInv ==
  ASSUME IInv, Running, result' \in Results \ {"none", "ok"}, token' = FALSE, asked' = FALSE,
         UNCHANGED <<server, stage, got, posts, told>>, requests' \in 0 .. MaxRequests,
         UNCHANGED <<found, total>> \/ (found' = {} /\ total' = {})
  PROVE  IInv'
<1>1. UNCHANGED <<world, worlds, stack, stage, got, posts, told>>
  BY DEF server
<1>2. WorldOK'
  BY <1>1 DEF IInv, WorldOK, Consistent
<1>3. ~token' /\ token' \in BOOLEAN /\ ~asked' /\ asked' \in BOOLEAN
  BY Zenon
<1>4. found' \in SUBSET Rows /\ IsFiniteSet(found') /\ (found' # {} => total' # {})
      /\ total' \in {{}} \cup {{c} : c \in 1 .. MaxItems}
      /\ (total' # {} => stage \in 9 .. 8 + 2 * L)
  BY FS_EmptySet DEF IInv, Typed
<1>5. Typed'
  <2>1. requests' \in Nat
    BY InventoryAssumption
  <2>2. stage # 12 + 2 * L /\ result' # "ok" /\ result' \in Results
    BY DEF IInv, Typed, Running
  <2>3. QED
    BY <1>1, <1>3, <1>4, <2>1, <2>2 DEF IInv, Typed
<1>6. Secrets'
  BY <1>1, <1>3 DEF IInv, Secrets
<1>7. Counted'
  <2>1. \A c \in total' : Cardinality(found') < c
    BY DEF IInv, Counted
  <2>2. requests' <= MaxRequests
    BY InventoryAssumption
  <2>3. ~Running'
    BY DEF Running
  <2>4. QED
    BY <1>3, <2>1, <2>2, <2>3 DEF Counted
<1>8. Between'
  <2>1. CASE UNCHANGED <<found, total>>
    BY <1>1, <2>1, Bounds, BetweenStays
  <2>2. CASE found' = {} /\ total' = {}
    <3>1. PICK m \in 1 .. Len(worlds) : First(m) /\ Second(m)
      BY DEF IInv, Between
    <3>2. First(m)'
      BY <1>1, <2>2, <3>1 DEF First, Ended
    <3>3. Second(m)'
      BY <1>1, <2>2, <3>1 DEF Second, Began
    <3>4. QED
      BY <1>1, <3>2, <3>3 DEF Between
  <2>3. QED
    BY <2>1, <2>2
<1>9. QED
  BY <1>1, <1>2, <1>5, <1>6, <1>7, <1>8, SameStays DEF IInv

(* How many more pages the current step may take.                          *)
LEMMA TurnsLeft ==
  ASSUME IInv, Running, NEW n \in Nat, n * PageSize <= Cardinality(found)
  PROVE  n + 1 <= Pages /\ (stage \notin 9 .. 8 + 2 * L => n = 0)
<1>1. PageSize \in Nat /\ PageSize >= 1 /\ MaxItems \in Nat /\ MaxItems >= 1
  BY InventoryAssumption
<1>2. CASE total = {}
  <2>1. Cardinality(found) = 0
    BY <1>2, FS_EmptySet DEF IInv, Typed
  <2>2. n * PageSize <= 0
    BY <2>1
  <2>3. n = 0
    BY <1>1, <2>2
  <2>4. n * PageSize < MaxItems
    BY <1>1, <2>3
  <2>5. QED
    BY <2>3, <2>4, PagesAreEnough
<1>3. CASE total # {}
  <2>1. PICK c \in 1 .. MaxItems : total = {c}
    BY <1>3 DEF IInv, Typed
  <2>2. Cardinality(found) < c /\ Cardinality(found) \in Nat
    BY <2>1, FS_CardinalityType DEF IInv, Typed, Counted
  <2>3. n * PageSize < MaxItems
    <3> DEFINE np == n * PageSize
    <3>1. np \in Nat
      BY <1>1
    <3>2. np <= Cardinality(found)
      OBVIOUS
    <3> HIDE DEF np
    <3>3. np < MaxItems
      BY <1>1, <2>1, <2>2, <3>1, <3>2
    <3>4. QED
      BY <3>3 DEF np
  <2>4. stage \in 9 .. 8 + 2 * L
    BY <1>3 DEF IInv, Typed
  <2>5. QED
    BY <2>3, <2>4, PagesAreEnough
<1>4. QED
  BY <1>2, <1>3

LEMMA AskIInv ==
  ASSUME IInv, NEW peer \in {"server", "other"}, Ask(peer)
  PROVE  IInv'
<1>1. /\ Running /\ ~asked /\ requests' = requests + 1
      /\ UNCHANGED <<world, worlds, stack, stage, found, total, got>>
      /\ stage \in 1 .. 11 + 2 * L /\ stage \notin {2, 3}
  BY Bounds, ScriptIs DEF Ask, server, Now
<1>2. PICK n \in Nat : n * PageSize <= Cardinality(found) /\ requests <= Spent(stage) + n
  <2>1. stage \in 1 .. 12 + 2 * L
    BY <1>1, Bounds
  <2>2. Spent(stage) \in Nat
    BY <2>1, SpentGrows
  <2>3. PICK n \in Nat : n * PageSize <= Cardinality(found) /\ requests <= Spent(stage) + n + (IF asked THEN 1 ELSE 0)
    BY <1>1 DEF IInv, Counted
  <2>4. requests <= Spent(stage) + n
    BY <1>1, <2>2, <2>3
  <2>5. QED
    BY <2>3, <2>4
<1>3. n + 1 <= Pages /\ (stage \notin 9 .. 8 + 2 * L => n = 0)
  BY <1>1, <1>2, TurnsLeft
<1>4. requests' \in 0 .. MaxRequests /\ requests' <= Spent(stage) + n + 1 /\ MaxRequests \in Nat
  <2>1. /\ Spent(stage) \in Nat /\ Spent(stage + 1) \in Nat /\ Spent(stage) + 1 <= Spent(stage + 1)
        /\ Spent(stage + 1) <= MaxRequests
        /\ stage \in 9 .. 8 + 2 * L => Spent(stage + 1) = Spent(stage) + Pages
    <3>1. stage \in 1 .. 12 + 2 * L /\ stage + 1 \in 1 .. 12 + 2 * L
      BY <1>1, Bounds
    <3>2. QED
      BY <1>1, <3>1, SpentGrows
  <2>2. requests \in Nat /\ Pages \in Nat /\ MaxRequests \in Nat
    BY PagesAreEnough, InventoryAssumption DEF IInv, Typed
  <2>3. Spent(stage) + n + 1 <= Spent(stage + 1)
    BY <1>3, <2>1, <2>2
  <2>4. QED
    BY <1>1, <1>2, <2>1, <2>2, <2>3
<1>5. CASE UNCHANGED <<posts, told>> /\ Stop("CONNECT")
  <2>1. result' \in Results \ {"none", "ok"} /\ token' = FALSE /\ asked' = FALSE
    BY <1>5 DEF Stop, Results
  <2>2. QED
    BY <1>1, <1>4, <1>5, <2>1, HaltIInv DEF server
<1>6. CASE /\ peer = "server" /\ asked' = TRUE
           /\ posts' = IF Now = "POST" THEN Append(posts, peer) ELSE posts
           /\ told' = IF Now = "POST" \/ token THEN told \cup {peer} ELSE told
           /\ UNCHANGED <<token, result>>
  <2>1. asked' /\ asked' \in BOOLEAN
    BY <1>6, Zenon
  <2>2. Now = "POST" <=> stage = 4
    BY <1>1, Bounds, ScriptKinds DEF Now
  <2>3. WorldOK' /\ Same'
    BY <1>1 DEF IInv, WorldOK, Consistent, Same
  <2>4. Typed'
    BY <1>1, <1>4, <1>6, <2>1 DEF IInv, Typed, Running
  <2>5. Counted'
    <3>1. n * PageSize <= Cardinality(found') /\ requests' <= Spent(stage') + n + 1
      BY <1>1, <1>2, <1>4
    <3>2. QED
      BY <1>1, <1>4, <2>1, <3>1 DEF IInv, Counted
  <2>6. Secrets'
    <3>1. CASE stage = 4
      <4>1. posts = <<>>
        BY <2>2, <3>1 DEF Ask
      <4>2. posts' = <<"server">> /\ told' \in SUBSET {"server"}
        BY <1>6, <2>2, <3>1, <4>1 DEF IInv, Secrets
      <4>3. <<"server">> # <<>>
        OBVIOUS
      <4>4. posts' \in {<<>>, <<"server">>} /\ posts' # <<>> /\ stage' = 4 /\ stack' = stack /\ token' = token
        BY <1>1, <1>6, <3>1, <4>2, <4>3
      <4>5. stack = "checks" /\ ~token
        BY <3>1 DEF IInv, Secrets
      <4>6. QED
        BY <4>2, <4>4, <4>5 DEF Secrets
    <3>2. CASE stage # 4
      <4>1. posts' = posts /\ told' \in SUBSET {"server"} /\ (told' # told => token)
        BY <1>6, <2>2, <3>2 DEF IInv, Secrets
      <4>2. token => posts # <<>>
        BY DEF IInv, Secrets
      <4>3. QED
        BY <1>1, <1>6, <3>2, <4>1, <4>2 DEF IInv, Secrets
    <3>3. QED
      BY <3>1, <3>2
  <2>7. Between'
    BY <1>1, Bounds, BetweenStays
  <2>8. QED
    BY <2>3, <2>4, <2>5, <2>6, <2>7 DEF IInv
<1>7. ~(requests' > MaxRequests)
  BY <1>4
<1>8. QED
  BY <1>5, <1>6, <1>7 DEF Ask, Connect

(* What an answer says of the server as it is: a collection has as many    *)
(* items as were found, each of them seen before or now; the context is    *)
(* what is configured.                                                     *)
Told(v) ==
  /\ stage \in 9 .. 8 + 2 * L =>
       /\ Cardinality(world.items[Script[stage]]) = Cardinality(v)
       /\ \A x \in v : x \in found \/ x \in Catalog(world, Script[stage])
       /\ total \subseteq {Cardinality(v)} /\ (total = {} => found = {})
  /\ stage \in 6 .. 8 \/ stage \in 9 + 2 * L .. 11 + 2 * L => v = world.context[Script[stage]]
  /\ stage > 8 + L => Earlier(v)

(* A step of the script is done.                                           *)
LEMMA AdvanceBetween ==
  ASSUME IInv, NEW v \in Answers, Told(v), stage \in 1 .. 11 + 2 * L, stage' = stage + 1,
         got'[stage] = v, \A s \in 1 .. stage - 1 : got'[s] = got[s],
         UNCHANGED worlds, found' = {}, total' = {}
  PROVE  Between' /\ Same'
<1>1. /\ L \in Nat /\ L >= 1 /\ stage \in Nat /\ Len(worlds) \in Nat /\ Len(worlds) >= 1
      /\ world = worlds[Len(worlds)] /\ Len(Script) = 11 + 2 * L
  BY Bounds
<1>2. \A s : s \in Int /\ s < stage' => s < stage \/ s = stage
  BY <1>1
<1>3. Same'
  <2>1. ASSUME NEW s \in 9 + L .. 8 + 2 * L, s < stage'
        PROVE  got'[s] = got'[s - L]
    <3>1. s - L \in 1 .. stage - 1
      BY <1>1, <2>1
    <3>2. CASE s < stage
      BY <1>1, <1>2, <3>1, <3>2 DEF IInv, Same
    <3>3. CASE s = stage
      <4>1. Now \in Kind
        BY <1>1, <3>3, ScriptKinds DEF Now
      <4>2. v = got[stage - L]
        BY <1>1, <3>3, <4>1 DEF Told, Earlier, L
      <4>3. QED
        BY <1>2, <3>1, <3>3, <4>2
    <3>4. QED
      BY <1>1, <1>2, <2>1, <3>2, <3>3
  <2>2. ASSUME NEW s \in 9 + 2 * L .. 11 + 2 * L, s < stage'
        PROVE  got'[s] = got'[CHOOSE i \in 6 .. 8 : Script[i] = Script[s]]
    <3> DEFINE e == CHOOSE i \in 6 .. 8 : Script[i] = Script[s]
    <3>1. e \in 6 .. 8
      <4>1. s = 9 + 2 * L \/ s = 10 + 2 * L \/ s = 11 + 2 * L
        BY <1>1
      <4>2. \E i \in 6 .. 8 : Script[i] = Script[s]
        BY <4>1, ScriptIs
      <4>3. QED
        BY <4>2
    <3>2. e \in 1 .. stage - 1
      <4> HIDE DEF e
      <4>1. QED
        BY <1>1, <2>2, <3>1
    <3>3. CASE s < stage
      <4>1. s \in 1 .. stage - 1
        BY <1>1, <3>3
      <4>3. got[s] = got[e]
        BY <3>3 DEF IInv, Same
      <4>2. QED
        BY <1>2, <3>2, <4>1, <4>3
    <3>4. CASE s = stage
      <4>1. Now \in Context
        BY <1>1, <3>4, ScriptKinds DEF Now
      <4>2. v = got[e]
        BY <1>1, <3>4, <4>1 DEF Told, Earlier, Now
      <4>3. QED
        BY <1>2, <3>2, <3>4, <4>2
    <3>5. QED
      BY <1>1, <1>2, <2>2, <3>3, <3>4
  <2>3. QED
    BY <2>1, <2>2 DEF Same
<1>4. PICK m \in 1 .. Len(worlds) : First(m) /\ Second(m)
  BY DEF IInv, Between
<1>5. CASE stage <= 8 + L
  <2> DEFINE n == Len(worlds)
  <2>1. First(n)
    BY <1>4, FirstLater
  <2>2. ASSUME NEW s \in 6 .. 8, s < stage'
        PROVE  \E t \in 1 .. n : got'[s] = worlds[t].context[Script[s]]
    <3>1. CASE s < stage
      <4>1. s \in 1 .. stage - 1
        BY <1>1, <3>1
      <4>2. got'[s] = got[s]
        BY <1>1, <4>1
      <4>3. PICK t \in 1 .. n : got[s] = worlds[t].context[Script[s]]
        BY <2>1, <3>1 DEF First
      <4>4. QED
        BY <4>2, <4>3
    <3>2. CASE s = stage
      BY <1>1, <1>2, <3>2 DEF Told
    <3>3. QED
      BY <1>1, <1>2, <2>2, <3>1, <3>2
  <2>3. ASSUME NEW s \in 9 .. 8 + L, s < stage'
        PROVE  \E h \in 1 .. n : Ended(Script[s], got'[s], h)
    <3>1. CASE s < stage
      <4>1. s \in 1 .. stage - 1
        BY <1>1, <3>1
      <4>2. got'[s] = got[s]
        BY <1>1, <4>1
      <4>3. PICK h \in 1 .. n : Ended(Script[s], got[s], h)
        BY <2>1, <3>1 DEF First
      <4>4. QED
        BY <4>2, <4>3
    <3>2. CASE s = stage
      <4>1. stage \in 9 .. 8 + 2 * L
        BY <1>1, <3>2
      <4>2. \A x \in v : \E t \in 1 .. n : x \in Catalog(worlds[t], Script[stage])
        <5>1. stage \in 9 .. 8 + L /\ n \in 1 .. n
          BY <1>1, <3>2
        <5>2. \A x \in found : \E t \in 1 .. n : x \in Catalog(worlds[t], Script[stage])
          BY <2>1, <5>1 DEF First
        <5>3. \A x \in v : x \in found \/ x \in Catalog(worlds[n], Script[stage])
          BY <1>1, <4>1 DEF Told
        <5>4. QED
          BY <5>1, <5>2, <5>3
      <4>3. Ended(Script[stage], v, n)
        BY <1>1, <4>1, <4>2 DEF Told, Ended
      <4>4. QED
        BY <1>1, <1>2, <3>2, <4>3
    <3>3. QED
      BY <1>1, <1>2, <2>3, <3>1, <3>2
  <2>4. First(n)'
    <3>1. ASSUME NEW s \in 9 .. 8 + L, s < stage'
          PROVE  (\E h \in 1 .. n : Ended(Script[s], got[s], h))'
      <4>1. PICK h \in 1 .. n : Ended(Script[s], got'[s], h)
        BY <2>3, <3>1
      <4>2. Ended(Script[s], got[s], h)'
        BY <4>1 DEF Ended
      <4>3. QED
        BY <4>2
    <3>2. QED
      BY <2>2, <3>1 DEF First
  <2>5. Second(n)'
    BY <1>1, <1>5 DEF Second
  <2>6. QED
    BY <1>1, <1>3, <2>4, <2>5 DEF Between
<1>6. CASE stage > 8 + L
  <2>1. First(m)'
    <3>1. \A s \in 6 .. 8 : s < stage /\ s \in 1 .. stage - 1
      BY <1>1, <1>6
    <3>2. \A s \in 9 .. 8 + L : s < stage /\ s \in 1 .. stage - 1
      BY <1>1, <1>6
    <3>3. \A s \in 6 .. 8 : \E t \in 1 .. m : got'[s] = worlds'[t].context[Script[s]]
      BY <1>2, <1>4, <3>1 DEF First
    <3>4. ASSUME NEW s \in 9 .. 8 + L
          PROVE  (\E h \in 1 .. m : Ended(Script[s], got[s], h))'
      <4>1. PICK h \in 1 .. m : Ended(Script[s], got[s], h)
        BY <1>4, <3>2 DEF First
      <4>2. got'[s] = got[s]
        BY <3>2
      <4>3. Ended(Script[s], got[s], h)'
        BY <4>1, <4>2 DEF Ended
      <4>4. QED
        BY <4>3
    <3>5. stage' \notin 9 .. 8 + L
      BY <1>1, <1>6
    <3>6. QED
      BY <3>3, <3>4, <3>5 DEF First
  <2>2. ASSUME NEW s \in 9 + L .. 8 + 2 * L, s < stage'
        PROVE  \E l \in m .. Len(worlds) : Began(Script[s], Cardinality(got'[s]), got'[s], l)
    <3>1. CASE s < stage
      <4>1. s \in 1 .. stage - 1
        BY <1>1, <3>1
      <4>2. \E l \in m .. Len(worlds) : Began(Script[s], Cardinality(got[s]), got[s], l)
        BY <1>4, <3>1 DEF Second
      <4>3. QED
        BY <4>1, <4>2
    <3>2. CASE s = stage
      <4>1. stage \in 9 .. 8 + 2 * L /\ stage \in 9 + L .. 8 + 2 * L
        BY <1>1, <3>2
      <4>2. CASE total = {}
        <5>1. \A x \in v : x \in Catalog(worlds[Len(worlds)], Script[stage])
          BY <1>1, <4>1, <4>2 DEF Told
        <5>2. Began(Script[stage], Cardinality(v), v, Len(worlds))
          BY <1>1, <4>1, <5>1 DEF Told, Began
        <5>3. QED
          BY <1>1, <1>2, <3>2, <5>2
      <4>3. CASE total # {}
        <5>1. total = {Cardinality(v)}
          BY <4>1, <4>3 DEF Told
        <5>2. PICK l \in m .. Len(worlds) : Began(Script[stage], Cardinality(v), found, l)
          BY <1>4, <4>1, <5>1 DEF Second
        <5>3. Len(worlds) \in l .. Len(worlds)
          BY <1>1
        <5>4. \A x \in v : \E t \in l .. Len(worlds) : x \in Catalog(worlds[t], Script[stage])
          BY <1>1, <4>1, <5>2, <5>3 DEF Told, Began
        <5>5. Began(Script[stage], Cardinality(v), v, l)
          BY <5>2, <5>4 DEF Began
        <5>6. QED
          BY <1>2, <3>2, <5>5
      <4>4. QED
        BY <4>2, <4>3
    <3>3. QED
      BY <1>1, <1>2, <2>2, <3>1, <3>2
  <2>3. ASSUME NEW s \in 9 + 2 * L .. 11 + 2 * L, s < stage'
        PROVE  \E t \in m .. Len(worlds) : got'[s] = worlds[t].context[Script[s]]
    <3>1. CASE s < stage
      BY <1>1, <1>2, <1>4, <3>1 DEF Second
    <3>2. CASE s = stage
      BY <1>1, <1>2, <3>2 DEF Told
    <3>3. QED
      BY <1>1, <1>2, <2>3, <3>1, <3>2
  <2>4. Second(m)'
    <3>1. ASSUME NEW s \in 9 + L .. 8 + 2 * L, s < stage'
          PROVE  (\E l \in m .. Len(worlds) : Began(Script[s], Cardinality(got[s]), got[s], l))'
      <4>1. PICK l \in m .. Len(worlds) : Began(Script[s], Cardinality(got'[s]), got'[s], l)
        BY <2>2, <3>1
      <4>2. Began(Script[s], Cardinality(got[s]), got[s], l)'
        BY <4>1 DEF Began
      <4>3. QED
        BY <4>2
    <3>2. QED
      BY <2>3, <3>1 DEF Second
  <2>5. QED
    BY <1>3, <2>1, <2>4 DEF Between
<1>7. QED
  BY <1>1, <1>5, <1>6

LEMMA AdvanceIInv ==
  ASSUME IInv, Running, NEW v \in Answers, Go(v), Told(v), found' = {}, total' = {},
         UNCHANGED <<server, requests, posts, told>>,
         stage = 2 => stack = "checks", stage \notin {2, 3} => asked
  PROVE  IInv'
<1>1. /\ L \in Nat /\ L >= 1 /\ stage \in 1 .. 11 + 2 * L /\ stage \in Nat /\ Len(Script) = 11 + 2 * L
      /\ UNCHANGED <<world, worlds, stack, requests, posts, told>>
  BY Bounds DEF server
<1>2. stage' = stage + 1 /\ asked' = FALSE /\ result' = IF stage = Len(Script) THEN "ok" ELSE "none"
  BY DEF Go
<1>3. /\ got' \in Seq(Answers) /\ Len(got') = stage
      /\ got'[stage] = v /\ \A s \in 1 .. stage - 1 : got'[s] = got[s]
  <2>1. got \in Seq(Answers) /\ Len(got) = stage - 1 /\ got' = Append(got, v)
    BY DEF IInv, Typed, Go
  <2>2. Len(got) + 1 = stage
    BY <1>1, <2>1
  <2>3. QED
    BY <2>1, <2>2, AppendProperties
<1>4. token' \in BOOLEAN /\ (token' => stage < Len(Script) /\ (token \/ Now = "POST"))
  BY Zenon DEF Go
<1>5. ~asked' /\ asked' \in BOOLEAN
  BY <1>2, Zenon
<1>6. Now = "POST" <=> stage = 4
  BY <1>1, ScriptKinds DEF Now
<1>7. WorldOK'
  BY <1>1 DEF IInv, WorldOK, Consistent
<1>8. Typed'
  <2>1. found' \in SUBSET Rows /\ IsFiniteSet(found')
    BY FS_EmptySet
  <2>2. stage' \in 1 .. 12 + 2 * L /\ Len(got') = stage' - 1
    BY <1>1, <1>2, <1>3
  <2>3. result' \in Results /\ (stage' = 12 + 2 * L <=> result' = "ok")
    BY <1>1, <1>2 DEF Results
  <2>4. token' => Running'
    BY <1>1, <1>2, <1>4 DEF Running
  <2>5. QED
    BY <1>1, <1>3, <1>4, <1>5, <2>1, <2>2, <2>3, <2>4 DEF IInv, Typed
<1>9. Secrets'
  <2>1. stage >= 4 => posts # <<>>
    BY <1>1 DEF IInv, Secrets
  <2>2. token => stage > 4
    BY DEF IInv, Secrets
  <2>3. stage' > 2 => stack = "checks"
    BY <1>1, <1>2 DEF IInv, Secrets
  <2>4. QED
    BY <1>1, <1>2, <1>4, <1>5, <1>6, <2>1, <2>2, <2>3 DEF IInv, Secrets
<1>10. Counted'
  <2>1. stage \in 1 .. 12 + 2 * L /\ stage + 1 \in 1 .. 12 + 2 * L
    BY <1>1
  <2>2. /\ Spent(stage) \in Nat /\ Spent(stage + 1) \in Nat /\ Spent(stage) <= Spent(stage + 1)
        /\ stage \notin {2, 3} => Spent(stage) + 1 <= Spent(stage + 1)
        /\ stage \in 9 .. 8 + 2 * L => Spent(stage + 1) = Spent(stage) + Pages
    BY <1>1, <2>1, SpentGrows
  <2>3. PICK n \in Nat : n * PageSize <= Cardinality(found) /\ requests <= Spent(stage) + n + (IF asked THEN 1 ELSE 0)
    BY DEF IInv, Counted
  <2>4. n + 1 <= Pages /\ (stage \notin 9 .. 8 + 2 * L => n = 0) /\ Pages \in Nat /\ requests \in Nat
    BY <2>3, TurnsLeft, PagesAreEnough DEF IInv, Typed
  <2>5. stage \in {2, 3} => ~asked
    BY DEF IInv, Counted
  <2>6. requests <= Spent(stage + 1)
    <3>1. CASE stage \in {2, 3}
      <4>1. n = 0
        BY <1>1, <2>4, <3>1
      <4>2. QED
        BY <2>2, <2>3, <2>4, <2>5, <3>1, <4>1
    <3>2. CASE stage \in 9 .. 8 + 2 * L
      BY <2>2, <2>3, <2>4, <3>2
    <3>3. CASE stage \notin 9 .. 8 + 2 * L /\ stage \notin {2, 3}
      BY <2>2, <2>3, <2>4, <3>3
    <3>4. QED
      BY <3>1, <3>2, <3>3
  <2>7. 0 * PageSize <= Cardinality(found')
    BY FS_EmptySet, InventoryAssumption
  <2>8. requests' <= Spent(stage') + 0 + (IF asked' THEN 1 ELSE 0)
    BY <1>1, <1>2, <1>5, <2>2, <2>4, <2>6
  <2>9. requests' <= MaxRequests
    BY <1>1 DEF IInv, Counted
  <2>10. QED
    BY <1>5, <2>7, <2>8, <2>9 DEF Counted
<1>11. Between' /\ Same'
  BY <1>1, <1>2, <1>3, AdvanceBetween
<1>12. QED
  BY <1>7, <1>8, <1>9, <1>10, <1>11 DEF IInv

(* A page that was not the last.                                           *)
LEMMA PageIInv ==
  ASSUME IInv, Running, asked, stage \in 9 .. 8 + 2 * L,
         NEW batch \in SUBSET Catalog(world, Script[stage]), IsFiniteSet(batch),
         batch \cap found = {}, Cardinality(batch) = PageSize,
         Cardinality(found \cup batch) < Cardinality(world.items[Script[stage]]),
         Cardinality(world.items[Script[stage]]) <= MaxItems,
         total \subseteq {Cardinality(world.items[Script[stage]])},
         found' = found \cup batch, total' = {Cardinality(world.items[Script[stage]])},
         asked' = FALSE, UNCHANGED <<server, stage, got, result, token, requests, posts, told>>
  PROVE  IInv'
<1> DEFINE k == Script[stage]
           c == Cardinality(world.items[k])
           all == found \cup batch
<1>1. /\ UNCHANGED <<world, worlds, stack>> /\ L \in Nat /\ L >= 1 /\ stage \in Nat
      /\ stage \in 1 .. Len(Script) /\ stage \in 1 .. 11 + 2 * L
      /\ Len(worlds) \in Nat /\ Len(worlds) >= 1 /\ world = worlds[Len(worlds)] /\ world \in Worlds /\ Finite(world)
  BY Bounds DEF server
<1>2. k \in Kind
  BY <1>1, ScriptKinds
<1>3. c \in Nat /\ Catalog(world, k) \in SUBSET Rows
  BY <1>1, <1>2, CatalogIs
<1>4. /\ IsFiniteSet(all) /\ all \in SUBSET Rows /\ Cardinality(all) \in Nat
      /\ Cardinality(all) = Cardinality(found) + PageSize /\ Cardinality(found) \in Nat
  <2>1. IsFiniteSet(found) /\ found \in SUBSET Rows
    BY DEF IInv, Typed
  <2>2. IsFiniteSet(all) /\ Cardinality(all) = Cardinality(found) + Cardinality(batch) - Cardinality(found \cap batch)
    BY <2>1, FS_Union
  <2>3. Cardinality(found \cap batch) = 0
    <3>1. found \cap batch = {}
      OBVIOUS
    <3>2. QED
      BY <3>1, FS_EmptySet
  <2>4. Cardinality(found) \in Nat /\ Cardinality(all) \in Nat /\ PageSize \in Nat
    BY <2>1, <2>2, FS_CardinalityType, InventoryAssumption
  <2>5. QED
    BY <1>3, <2>1, <2>2, <2>3, <2>4
<1>5. ~asked' /\ asked' \in BOOLEAN
  BY Zenon
<1>6. c \in 1 .. MaxItems /\ Cardinality(all) < c
  BY <1>3, <1>4, InventoryAssumption
<1> HIDE DEF k, c, all
<1>7. found' = all /\ total' = {c} /\ total \subseteq {c}
  BY DEF k, c, all
<1>8. WorldOK' /\ Same'
  BY <1>1, SameStays DEF IInv, WorldOK, Consistent
<1>9. Typed'
  <2>1. total' \in {{}} \cup {{d} : d \in 1 .. MaxItems} /\ total' # {}
    BY <1>6, <1>7
  <2>2. QED
    BY <1>1, <1>4, <1>5, <1>7, <2>1 DEF IInv, Typed, Running
<1>10. Secrets'
  BY <1>1, <1>5 DEF IInv, Secrets
<1>11. Counted'
  <2>1. PICK n \in Nat : n * PageSize <= Cardinality(found) /\ requests <= Spent(stage) + n + 1
    BY DEF IInv, Counted
  <2>2. (n + 1) * PageSize = n * PageSize + PageSize /\ PageSize \in Nat /\ n * PageSize \in Nat
    BY InventoryAssumption
  <2>3. (n + 1) * PageSize <= Cardinality(all)
    <3> DEFINE np == n * PageSize
    <3>1. np \in Nat /\ np <= Cardinality(found)
      BY <2>1, <2>2
    <3> HIDE DEF np
    <3>2. np + PageSize <= Cardinality(all)
      BY <1>4, <2>2, <3>1
    <3>3. QED
      BY <2>2, <3>2 DEF np
  <2>4. requests' <= Spent(stage') + (n + 1) + 0
    <3>1. stage \in 1 .. 12 + 2 * L
      BY <1>1
    <3>2. Spent(stage) \in Nat /\ requests \in Nat
      BY <3>1, SpentGrows DEF IInv, Typed
    <3>3. QED
      BY <2>1, <3>2
  <2>5. n + 1 \in Nat
    OBVIOUS
  <2>6. \E i \in Nat : i * PageSize <= Cardinality(found') /\ requests' <= Spent(stage') + i + (IF asked' THEN 1 ELSE 0)
    BY <1>5, <1>7, <2>3, <2>4, <2>5
  <2>7. requests' <= MaxRequests
    BY DEF IInv, Counted
  <2>8. QED
    BY <1>5, <1>6, <1>7, <2>6, <2>7 DEF Counted
<1>12. Between'
  <2>1. PICK m \in 1 .. Len(worlds) : First(m) /\ Second(m)
    BY DEF IInv, Between
  <2>2. \A x \in all : x \in found \/ x \in Catalog(worlds[Len(worlds)], k)
    BY <1>1 DEF all, k
  <2>3. CASE stage <= 8 + L
    <3> DEFINE n == Len(worlds)
    <3>1. First(n) /\ stage \in 9 .. 8 + L /\ n \in 1 .. n
      BY <1>1, <2>1, <2>3, FirstLater
    <3>2. \A x \in found : \E t \in 1 .. n : x \in Catalog(worlds[t], Script[stage])
      BY <3>1 DEF First
    <3>3. \A x \in found' : \E t \in 1 .. n : x \in Catalog(worlds'[t], Script[stage'])
      BY <1>1, <1>7, <2>2, <3>1, <3>2 DEF k
    <3>4. ASSUME NEW s \in 9 .. 8 + L, s < stage'
          PROVE  (\E h \in 1 .. n : Ended(Script[s], got[s], h))'
      <4>1. PICK h \in 1 .. n : Ended(Script[s], got[s], h)
        BY <3>1, <3>4 DEF First
      <4>2. Ended(Script[s], got[s], h)'
        BY <1>1, <4>1 DEF Ended
      <4>3. QED
        BY <1>1, <4>2
    <3>5. \A s \in 6 .. 8 : s < stage' => \E t \in 1 .. n : got'[s] = worlds'[t].context[Script[s]]
      BY <1>1, <3>1 DEF First
    <3>6. First(n)'
      BY <1>1, <3>3, <3>4, <3>5 DEF First
    <3>7. Second(n)'
      BY <1>1, <2>3 DEF Second
    <3>8. QED
      BY <1>1, <3>1, <3>6, <3>7 DEF Between
  <2>4. CASE stage > 8 + L
    <3>1. stage \in 9 + L .. 8 + 2 * L /\ stage \notin 9 .. 8 + L
      BY <1>1, <2>4
    <3>2. First(m)'
      <4>1. ASSUME NEW s \in 9 .. 8 + L, s < stage'
            PROVE  (\E h \in 1 .. m : Ended(Script[s], got[s], h))'
        <5>1. PICK h \in 1 .. m : Ended(Script[s], got[s], h)
          BY <2>1, <4>1 DEF First
        <5>2. Ended(Script[s], got[s], h)'
          BY <1>1, <5>1 DEF Ended
        <5>3. QED
          BY <5>2
      <4>2. \A s \in 6 .. 8 : s < stage' => \E t \in 1 .. m : got'[s] = worlds'[t].context[Script[s]]
        BY <1>1, <2>1 DEF First
      <4>3. QED
        BY <3>1, <4>1, <4>2 DEF First
    <3>3. \E l \in m .. Len(worlds) : Began(k, c, all, l)
      <4>1. CASE total = {}
        <5>1. found = {}
          BY <4>1 DEF IInv, Typed
        <5>2. \A x \in all : x \in Catalog(worlds[Len(worlds)], k)
          BY <2>2, <5>1
        <5>3. Len(worlds) \in m .. Len(worlds) /\ Len(worlds) \in Len(worlds) .. Len(worlds)
          BY <1>1
        <5>4. Began(k, c, all, Len(worlds))
          BY <1>1, <5>2, <5>3 DEF Began, c
        <5>5. QED
          BY <5>3, <5>4
      <4>2. CASE total # {}
        <5>1. total = {c}
          BY <1>7, <4>2
        <5>2. PICK l \in m .. Len(worlds) : Began(k, c, found, l)
          BY <2>1, <3>1, <5>1 DEF Second, k
        <5>3. Len(worlds) \in l .. Len(worlds)
          BY <1>1
        <5>4. Began(k, c, all, l)
          BY <2>2, <5>2, <5>3 DEF Began
        <5>5. QED
          BY <5>4
      <4>3. QED
        BY <4>1, <4>2
    <3>4. ASSUME NEW s \in 9 + L .. 8 + 2 * L, s < stage'
          PROVE  (\E l \in m .. Len(worlds) : Began(Script[s], Cardinality(got[s]), got[s], l))'
      <4>1. PICK l \in m .. Len(worlds) : Began(Script[s], Cardinality(got[s]), got[s], l)
        BY <2>1, <3>4 DEF Second
      <4>2. Began(Script[s], Cardinality(got[s]), got[s], l)'
        BY <1>1, <4>1 DEF Began
      <4>3. QED
        BY <1>1, <4>2
    <3>5. \A s \in 9 + 2 * L .. 11 + 2 * L : s < stage' =>
            \E t \in m .. Len(worlds') : got'[s] = worlds'[t].context[Script[s]]
      BY <1>1, <2>1 DEF Second
    <3>6. ASSUME NEW d \in total'
          PROVE  (\E l \in m .. Len(worlds) : Began(Script[stage], d, found, l))'
      <4>1. PICK l \in m .. Len(worlds) : Began(k, c, all, l)
        BY <3>3
      <4>2. d = c
        BY <1>7
      <4>3. Began(Script[stage], d, found, l)'
        BY <1>1, <1>7, <4>1, <4>2 DEF Began, k
      <4>4. QED
        BY <1>1, <4>3
    <3>7. Second(m)'
      BY <3>4, <3>5, <3>6 DEF Second
    <3>8. QED
      BY <1>1, <3>2, <3>7 DEF Between
  <2>5. QED
    BY <1>1, <2>3, <2>4
<1>13. QED
  BY <1>8, <1>9, <1>10, <1>11, <1>12 DEF IInv

LEMMA TurnIInv ==
  ASSUME IInv, Running, asked, Now \in Kind, Turn(Now), UNCHANGED <<server, requests, posts, told>>
  PROVE  IInv'
<1> DEFINE k == Script[stage]
           batch == PageAt(world, k, Cardinality(found))
           count == Cardinality(world.items[k])
           all == found \cup batch
           good == /\ count <= MaxItems
                   /\ total \subseteq {count}
                   /\ batch # {} \/ Cardinality(found) = count
                   /\ \A x \in batch, y \in found : y.id < x.id
                   /\ Cardinality(all) <= count
<1>1. /\ L \in Nat /\ stage \in Nat /\ stage \in 1 .. Len(Script) /\ stage \in 9 .. 8 + 2 * L
      /\ world \in Worlds /\ Finite(world) /\ k \in Kind /\ Len(Script) = 11 + 2 * L
  BY Bounds, ScriptKinds DEF Now
<1>2. \/ ~good /\ Stop("PAGE") /\ UNCHANGED <<stage, found, total, got>>
      \/ good /\ Cardinality(all) = count /\ Finish(all) /\ found' = {} /\ total' = {}
      \/ /\ good /\ Cardinality(all) < count
         /\ asked' = FALSE /\ found' = all /\ total' = {count}
         /\ UNCHANGED <<stage, got, result, token>>
  BY DEF Turn, Now
<1>3. count \in Nat /\ Catalog(world, k) \in SUBSET Rows
  BY <1>1, CatalogIs
<1>4. IsFiniteSet(found) /\ found \in SUBSET Rows /\ Cardinality(found) \in Nat /\ requests \in 0 .. MaxRequests
  BY FS_CardinalityType, InventoryAssumption DEF IInv, Typed, Counted
<1>5. /\ batch \in SUBSET Catalog(world, k) /\ IsFiniteSet(batch)
      /\ Cardinality(found) + PageSize <= count => Cardinality(batch) = PageSize
      /\ Cardinality(found) <= count /\ count < Cardinality(found) + PageSize =>
           Cardinality(batch) = count - Cardinality(found)
  BY <1>1, <1>4, PageIsFull
<1>6. CASE Stop("PAGE") /\ UNCHANGED <<stage, found, total, got>>
  <2>1. result' \in Results \ {"none", "ok"} /\ token' = FALSE /\ asked' = FALSE
    BY <1>6 DEF Stop, Results
  <2>2. requests' \in 0 .. MaxRequests
    BY <1>4
  <2>3. QED
    BY <1>6, <2>1, <2>2, HaltIInv
<1>7. CASE good /\ Cardinality(all) = count /\ Finish(all) /\ found' = {} /\ total' = {}
  <2>1. CASE Stop("DRIFT") /\ UNCHANGED <<stage, got>>
    <3>1. result' \in Results \ {"none", "ok"} /\ token' = FALSE /\ asked' = FALSE
      BY <2>1 DEF Stop, Results
    <3>2. requests' \in 0 .. MaxRequests
      BY <1>4
    <3>3. QED
      BY <1>7, <2>1, <3>1, <3>2, HaltIInv
  <2>2. CASE Go(all) /\ (stage > FirstPass => Earlier(all))
    <3>1. all \in Answers
      BY <1>3, <1>4, <1>5 DEF Answers
    <3>2. Told(all)
      <4>1. total \subseteq {Cardinality(all)} /\ (total = {} => found = {})
        BY <1>7 DEF IInv, Typed
      <4>2. \A x \in all : x \in found \/ x \in Catalog(world, k)
        BY <1>5
      <4>3. stage \notin 6 .. 8 /\ stage \notin 9 + 2 * L .. 11 + 2 * L
        BY <1>1
      <4>4. stage > 8 + L => Earlier(all)
        BY <2>2 DEF FirstPass, L
      <4> HIDE DEF all
      <4>5. QED
        BY <1>7, <4>1, <4>2, <4>3, <4>4 DEF Told
    <3>3. stage # 2
      BY <1>1
    <3> HIDE DEF all
    <3>4. QED
      BY <1>7, <2>2, <3>1, <3>2, <3>3, AdvanceIInv
  <2>3. QED
    BY <1>7, <2>1, <2>2 DEF Finish
<1>8. CASE /\ good /\ Cardinality(all) < count
           /\ asked' = FALSE /\ found' = all /\ total' = {count}
           /\ UNCHANGED <<stage, got, result, token>>
  <2>1. batch \cap found = {}
    <3> SUFFICES ASSUME NEW x \in batch, x \in found
                 PROVE  FALSE
      OBVIOUS
    <3>1. x.id < x.id
      BY <1>8
    <3>2. x.id \in Int
      <4>1. x \in Catalog(world, k)
        BY <1>5
      <4>2. PICK i \in world.items[k] : x = Row(world, k, i)
        BY <4>1 DEF Catalog
      <4>3. i \in Nat
        BY <1>1, InventoryAssumption DEF Worlds
      <4>4. QED
        BY <4>2, <4>3 DEF Row
    <3>3. QED
      BY <3>1, <3>2
  <2> DEFINE n == Cardinality(found)
             b == Cardinality(batch)
  <2>2. Cardinality(all) = n + b /\ b \in Nat
    <3>1. Cardinality(all) = n + b - Cardinality(found \cap batch)
      BY <1>4, <1>5, FS_Union
    <3>2. found \cap batch = {}
      BY <2>1
    <3>3. Cardinality(found \cap batch) = 0
      BY <3>2, FS_EmptySet
    <3>4. b \in Nat
      BY <1>5, FS_CardinalityType
    <3>5. QED
      BY <1>4, <3>1, <3>3, <3>4
  <2>3. n + b < count /\ count <= MaxItems /\ total \subseteq {count} /\ n \in Nat /\ PageSize \in Nat
    BY <1>4, <1>8, <2>2, InventoryAssumption
  <2>4. b = PageSize
    <3>1. n + PageSize <= count => b = PageSize
      BY <1>5
    <3>2. n <= count /\ count < n + PageSize => b = count - n
      BY <1>5
    <3> HIDE DEF n, b, count
    <3>3. QED
      BY <1>3, <2>2, <2>3, <3>1, <3>2
  <2>5. /\ Cardinality(found \cup batch) < Cardinality(world.items[Script[stage]])
        /\ found' = found \cup batch /\ total' = {Cardinality(world.items[Script[stage]])} /\ asked' = FALSE
    BY <1>8
  <2>6. /\ Cardinality(world.items[Script[stage]]) <= MaxItems
        /\ total \subseteq {Cardinality(world.items[Script[stage]])} /\ Cardinality(batch) = PageSize
    BY <2>3, <2>4
  <2>7. UNCHANGED <<server, stage, got, result, token, requests, posts, told>>
    BY <1>8
  <2>8. batch \in SUBSET Catalog(world, Script[stage]) /\ IsFiniteSet(batch)
    BY <1>5
  <2> HIDE DEF batch
  <2>9. QED
    BY <1>1, <2>1, <2>5, <2>6, <2>7, <2>8, PageIInv
<1>9. QED
  BY <1>2, <1>6, <1>7, <1>8

LEMMA SingleIInv ==
  ASSUME IInv, Running, asked, UNCHANGED <<server, requests, posts, told>>, NEW v, Single(v),
         \/ Now \in Context /\ v = world.context[Now]
         \/ Now \in {"/", "POST", "version"} /\ v = "a"
  PROVE  IInv'
<1>1. /\ L \in Nat /\ stage \in Nat /\ stage \in 1 .. Len(Script) /\ world \in Worlds /\ Len(Script) = 11 + 2 * L
  BY Bounds
<1>2. v \in Answers
  BY <1>1 DEF Answers, Worlds
<1>3. Now \notin Kind
  BY InventoryAssumption DEF Context, Singles
<1>4. stage \notin 9 .. 8 + 2 * L
  BY <1>1, <1>3, ScriptKinds DEF Now
<1>5. total = {} /\ found = {}
  BY <1>4 DEF IInv, Typed
<1>6. found' = {} /\ total' = {}
  BY <1>5 DEF Single
<1>7. CASE Stop("DRIFT") /\ UNCHANGED <<stage, got>>
  <2>1. result' \in Results \ {"none", "ok"} /\ token' = FALSE /\ asked' = FALSE
    BY <1>7 DEF Stop, Results
  <2>2. requests' \in 0 .. MaxRequests
    BY InventoryAssumption DEF IInv, Typed, Counted
  <2>3. QED
    BY <1>6, <1>7, <2>1, <2>2, HaltIInv
<1>8. CASE Go(v) /\ (stage > FirstPass => Earlier(v))
  <2>1. stage \in 6 .. 8 \/ stage \in 9 + 2 * L .. 11 + 2 * L => v = world.context[Script[stage]]
    <3>1. stage \in 6 .. 8 \/ stage \in 9 + 2 * L .. 11 + 2 * L => Now \in Context
      BY <1>1, ScriptKinds DEF Now
    <3>2. "/" \notin Context /\ "POST" \notin Context /\ "version" \notin Context
      BY DEF Context
    <3>3. QED
      BY <3>1, <3>2 DEF Now
  <2>2. Told(v)
    BY <1>4, <1>8, <2>1 DEF Told, FirstPass, L
  <2>3. stage # 2
    <3>1. "hostname" \notin Context
      BY DEF Context
    <3>2. QED
      BY <1>1, <3>1, ScriptKinds DEF Now
  <2>4. QED
    BY <1>2, <1>6, <1>8, <2>2, <2>3, AdvanceIInv
<1>9. QED
  BY <1>7, <1>8 DEF Single, Finish

LEMMA LoginIInv ==
  ASSUME IInv, Credentials \/ \E peer \in {"server", "other"} : ProbeHostname(peer)
  PROVE  IInv'
<1>1. /\ L \in Nat /\ stage \in Nat /\ Len(Script) = 11 + 2 * L /\ Running /\ (stage \in 1 .. Len(Script))
      /\ UNCHANGED <<server, found, total, requests, posts, told>>
  BY Bounds DEF Credentials, ProbeHostname
<1>2. (Credentials => stage = 3) /\ ((\E peer \in {"server", "other"} : ProbeHostname(peer)) => stage = 2)
  BY <1>1, ScriptKinds DEF Credentials, ProbeHostname, Now
<1>3. stage \in {2, 3} /\ L >= 1
  BY <1>2, LIsNat
<1>4. total = {} /\ found = {} /\ found' = {} /\ total' = {}
  BY <1>1, <1>3 DEF IInv, Typed
<1>5. \A v : Told(v)
  BY <1>1, <1>3 DEF Told
<1>6. "refused" \in Answers /\ "typed" \in Answers
  BY DEF Answers
<1>7. CASE Credentials
  <2>1. Go("typed") /\ stage = 3
    BY <1>2, <1>7 DEF Credentials
  <2>2. QED
    BY <1>1, <1>4, <1>5, <1>6, <2>1, AdvanceIInv
<1>8. CASE \E peer \in {"server", "other"} : ProbeHostname(peer)
  <2>1. CASE stack = "checks" /\ Go("refused")
    BY <1>1, <1>3, <1>4, <1>5, <1>6, <2>1, AdvanceIInv
  <2>2. CASE Stop("NEGATIVE_TLS") /\ UNCHANGED <<stage, got>>
    <3>1. result' \in Results \ {"none", "ok"} /\ token' = FALSE /\ asked' = FALSE
      BY <2>2 DEF Stop, Results
    <3>2. requests' \in 0 .. MaxRequests
      BY <1>1, InventoryAssumption DEF IInv, Typed, Counted
    <3>3. QED
      BY <1>1, <1>4, <2>2, <3>1, <3>2, HaltIInv
  <2>3. QED
    BY <1>8, <2>1, <2>2 DEF ProbeHostname
<1>9. QED
  BY <1>7, <1>8

LEMMA GiveUpIInv ==
  ASSUME IInv, GiveUp \/ Decline
  PROVE  IInv'
<1>1. /\ Running /\ result' \in Results \ {"none", "ok"} /\ token' = FALSE /\ asked' = FALSE
      /\ UNCHANGED <<server, stage, found, total, got, requests, posts, told>>
  BY DEF GiveUp, Decline, Stop, Results
<1>2. requests' \in 0 .. MaxRequests
  BY <1>1, InventoryAssumption DEF IInv, Typed, Counted
<1>3. QED
  BY <1>1, <1>2, HaltIInv

(* Somebody edits the server.                                              *)
LEMMA EditIInv ==
  ASSUME IInv, NEW w \in Worlds, Finite(w), Consistent(w), Edit(w)
  PROVE  IInv'
<1>1. /\ world' = w /\ worlds' = Append(worlds, w)
      /\ UNCHANGED <<stack, stage, asked, found, total, got, requests, token, posts, told, result>>
  BY DEF Edit, client
<1>2. Len(worlds) \in Nat /\ Len(worlds) >= 1 /\ worlds \in Seq(Worlds)
  BY Bounds DEF IInv, WorldOK
<1>3. /\ worlds' \in Seq(Worlds) /\ Len(worlds') = Len(worlds) + 1 /\ worlds'[Len(worlds) + 1] = w
      /\ \A t \in 1 .. Len(worlds) : worlds'[t] = worlds[t]
  BY <1>1, <1>2, AppendProperties
<1>4. WorldOK'
  <2>1. ASSUME NEW t \in 1 .. Len(worlds')
        PROVE  Finite(worlds'[t])
    <3>1. CASE t \in 1 .. Len(worlds)
      BY <1>3, <3>1 DEF IInv, WorldOK
    <3>2. CASE t = Len(worlds) + 1
      BY <1>3, <3>2
    <3>3. QED
      BY <1>2, <1>3, <3>1, <3>2
  <2>2. Consistent(world')
    BY <1>1
  <2>3. QED
    BY <1>1, <1>2, <1>3, <2>1, <2>2 DEF WorldOK, Finite, Consistent
<1>5. Typed' /\ Secrets' /\ Counted' /\ Same'
  BY <1>1 DEF IInv, Typed, Secrets, Counted, Same, Running
<1>6. Between'
  BY <1>1, <1>2, <1>3, BetweenStays
<1>7. QED
  BY <1>4, <1>5, <1>6 DEF IInv

LEMMA EnvironmentIInv ==
  ASSUME IInv, Environment
  PROVE  IInv'
<1>1. world \in Worlds /\ Finite(world) /\ Consistent(world)
  BY Bounds DEF IInv, WorldOK
<1>2. ASSUME NEW k \in Kind, NEW i \in Id, Create(k, i)
      PROVE  IInv'
  <2> DEFINE w == [world EXCEPT !.items[k] = @ \cup {i}]
  <2>1. /\ w.items \in [Kind -> SUBSET Id] /\ w.links = world.links /\ w.context = world.context
        /\ w.items[k] = world.items[k] \cup {i}
        /\ \A d \in Kind : d # k => w.items[d] = world.items[d]
    BY <1>1 DEF Worlds
  <2>2. w \in Worlds
    BY <1>1 DEF Worlds
  <2>3. Edit(w)
    BY <1>2 DEF Create
  <2> HIDE DEF w
  <2>4. Finite(w)
    <3>1. IsFiniteSet(world.items[k] \cup {i})
      BY <1>1, FS_AddElement DEF Finite
    <3>2. QED
      BY <1>1, <2>1, <3>1 DEF Finite
  <2>5. Consistent(w)
    <3> SUFFICES ASSUME NEW l \in world.links
                 PROVE  l[2] \in w.items[l[1]] /\ l[3] \in w.items["roles"]
      BY <2>1 DEF Consistent
    <3>1. l[1] \in Kind /\ "roles" \in Kind
      BY <1>1, InventoryAssumption DEF Worlds
    <3>2. l[2] \in world.items[l[1]] /\ l[3] \in world.items["roles"]
      BY <1>1 DEF Consistent
    <3>3. QED
      BY <2>1, <3>1, <3>2
  <2>6. QED
    BY <2>2, <2>3, <2>4, <2>5, EditIInv
<1>3. ASSUME NEW k \in Kind, NEW i \in Id, Delete(k, i)
      PROVE  IInv'
  <2> DEFINE left == {l \in world.links : ~(l[1] = k /\ l[2] = i) /\ ~(k = "roles" /\ l[3] = i)}
             w == [world EXCEPT !.items[k] = @ \ {i}, !.links = left]
  <2>1. /\ w.links = left /\ w.items[k] = world.items[k] \ {i}
        /\ \A d \in Kind : d # k => w.items[d] = world.items[d]
    BY <1>1 DEF Worlds
  <2>2. w \in Worlds
    BY <1>1 DEF Worlds
  <2>3. Edit(w)
    BY <1>3 DEF Delete
  <2> HIDE DEF w
  <2>4. Finite(w)
    <3>1. IsFiniteSet(world.items[k] \ {i})
      BY <1>1, FS_RemoveElement DEF Finite
    <3>2. QED
      BY <1>1, <2>1, <3>1 DEF Finite
  <2>5. Consistent(w)
    <3> SUFFICES ASSUME NEW l \in left
                 PROVE  l[2] \in w.items[l[1]] /\ l[3] \in w.items["roles"]
      BY <2>1 DEF Consistent
    <3>1. l[1] \in Kind /\ "roles" \in Kind
      BY <1>1, InventoryAssumption DEF Worlds
    <3>2. l[2] \in world.items[l[1]] /\ l[3] \in world.items["roles"]
      BY <1>1 DEF Consistent
    <3>3. ~(l[1] = k /\ l[2] = i) /\ ~(k = "roles" /\ l[3] = i)
      OBVIOUS
    <3>4. QED
      BY <2>1, <3>1, <3>2, <3>3
  <2>6. QED
    BY <2>2, <2>3, <2>4, <2>5, EditIInv
<1>4. ASSUME NEW k \in Kind, NEW i \in Id, NEW r \in Id, Relink(k, i, r)
      PROVE  IInv'
  <2> DEFINE l == <<k, i, r>>
  <2>1. PICK links \in {world.links \ {l}, world.links \cup {l}} : Edit([world EXCEPT !.links = links])
    BY <1>1, <1>4 DEF Relink
  <2> DEFINE w == [world EXCEPT !.links = links]
  <2>2. w.links = links /\ w.items = world.items
    BY <1>1 DEF Worlds
  <2>3. w \in Worlds
    <3>1. l \in Kind \X Id \X Id
      OBVIOUS
    <3>2. links \in SUBSET (Kind \X Id \X Id)
      BY <1>1, <2>1, <3>1 DEF Worlds
    <3>3. QED
      BY <1>1, <3>2 DEF Worlds
  <2>4. Finite(w)
    BY <1>1, <2>2 DEF Finite
  <2>5. Consistent(w)
    <3>1. l[2] \in world.items[l[1]] /\ l[3] \in world.items["roles"]
      BY <1>4 DEF Relink
    <3>2. \A j \in links : j \in world.links \/ j = l
      BY <2>1
    <3>3. QED
      BY <1>1, <2>2, <3>1, <3>2 DEF Consistent
  <2>6. QED
    BY <2>1, <2>3, <2>4, <2>5, EditIInv
<1>5. ASSUME NEW c \in Context, NEW v \in {"a", "b", "bad"}, Reconfigure(c, v)
      PROVE  IInv'
  <2> DEFINE w == [world EXCEPT !.context[c] = v]
  <2>1. w.links = world.links /\ w.items = world.items
    BY <1>1 DEF Worlds
  <2>2. w \in Worlds
    BY <1>1 DEF Worlds
  <2>3. Finite(w) /\ Consistent(w)
    BY <1>1, <2>1 DEF Finite, Consistent
  <2>4. Edit(w)
    BY <1>5 DEF Reconfigure
  <2>5. QED
    BY <2>2, <2>3, <2>4, EditIInv
<1>6. QED
  BY <1>2, <1>3, <1>4, <1>5 DEF Environment

LEMMA InitIInv == Init => IInv
<1> SUFFICES ASSUME Init
             PROVE  IInv
  OBVIOUS
<1>1. L \in Nat /\ L >= 1 /\ MaxRequests \in Nat
  BY LIsNat, InventoryAssumption
<1>2. /\ worlds = <<world>> /\ stage = 1 /\ found = {} /\ total = {} /\ got = <<>> /\ requests = 0
      /\ posts = <<>> /\ told = {} /\ result = "none" /\ stack \in {"checks", "sloppy"} /\ Consistent(world)
  BY DEF Init
<1>3. token \in BOOLEAN /\ asked \in BOOLEAN /\ ~token /\ ~asked
  BY Zenon DEF Init
<1>4. world \in Worlds /\ Finite(world)
  <2>1. PICK c \in Initially : world = [items |-> c.items, links |-> c.links, context |-> [d \in Context |-> "a"]]
    BY DEF Init
  <2>2. /\ c.items \in [Kind -> SUBSET Id] /\ c.links \subseteq Kind \X Id \X Id
        /\ \A k \in Kind : IsFiniteSet(c.items[k])
    BY InventoryAssumption
  <2>3. QED
    BY <2>1, <2>2 DEF Worlds, Finite
<1>5. worlds \in Seq(Worlds) /\ Len(worlds) = 1 /\ worlds[1] = world
  BY <1>2, <1>4
<1>6. WorldOK
  BY <1>2, <1>4, <1>5 DEF WorldOK
<1>7. Typed
  <2>1. got \in Seq(Answers) /\ Len(got) = 0
    BY <1>2, EmptySeq
  <2>2. IsFiniteSet(found)
    BY <1>2, FS_EmptySet
  <2>3. QED
    BY <1>1, <1>2, <1>3, <2>1, <2>2 DEF Typed, Running, Results
<1>8. Secrets
  BY <1>2, <1>3 DEF Secrets
<1>9. Counted
  <2>1. 0 * PageSize <= Cardinality(found)
    BY <1>2, FS_EmptySet, InventoryAssumption
  <2>2. requests <= Spent(stage) + 0 + (IF asked THEN 1 ELSE 0)
    BY <1>2, <1>3 DEF Spent
  <2>3. QED
    BY <1>1, <1>2, <1>3, <2>1, <2>2 DEF Counted
<1>10. Between
  <2>1. First(1) /\ Second(1)
    BY <1>1, <1>2 DEF First, Second
  <2>2. QED
    BY <1>5, <2>1 DEF Between
<1>11. Same
  BY <1>1, <1>2 DEF Same
<1>12. QED
  BY <1>6, <1>7, <1>8, <1>9, <1>10, <1>11 DEF IInv

LEMMA NextIInv == IInv /\ [Next]_vars => IInv'
<1> SUFFICES ASSUME IInv, [Next]_vars
             PROVE  IInv'
  OBVIOUS
<1>1. CASE Talk
  BY <1>1, AskIInv, LoginIInv DEF Talk
<1>2. CASE Credentials
  BY <1>2, LoginIInv
<1>3. CASE Answer
  <2>1. Running /\ asked /\ UNCHANGED <<server, requests, posts, told>>
    BY <1>3 DEF Answer
  <2>2. CASE Now \in Kind /\ Turn(Now)
    BY <2>1, <2>2, TurnIInv
  <2>3. CASE Now \in Context /\ Single(world.context[Now])
    BY <2>1, <2>3, SingleIInv
  <2>4. CASE Now \in {"/", "POST", "version"} /\ Single("a")
    BY <2>1, <2>4, SingleIInv
  <2>5. QED
    BY <1>3, <2>2, <2>3, <2>4 DEF Answer
<1>4. CASE GiveUp \/ Decline
  BY <1>4, GiveUpIInv
<1>5. CASE Environment
  BY <1>5, EnvironmentIInv
<1>6. CASE UNCHANGED vars
  <2>1. UNCHANGED <<world, worlds, stack, stage, asked, found, total, got, requests, token, posts, told, result>>
    BY <1>6 DEF vars
  <2>2. WorldOK' /\ Typed' /\ Secrets' /\ Counted' /\ Same'
    BY <2>1 DEF IInv, WorldOK, Consistent, Finite, Typed, Secrets, Counted, Same, Running
  <2>3. Between'
    BY <2>1, Bounds, BetweenStays
  <2>4. QED
    BY <2>2, <2>3 DEF IInv
<1>7. QED
  BY <1>1, <1>2, <1>3, <1>4, <1>5, <1>6 DEF Next, Done

LEMMA Invariant == Spec => []IInv
<1>1. QED
  BY InitIInv, NextIInv, PTL DEF Spec

-----------------------------------------------------------------------------
(* What the invariant says of the inventory.                               *)

(* The variables keep their types: the links of the server are between     *)
(* items it has, there is an answer for every step that is done, and a     *)
(* token is held only by a client that runs and has sent the password once.*)
THEOREM TypeCorrect == Spec => []TypeOK
<1>1. IInv => TypeOK
  <2> SUFFICES ASSUME IInv
               PROVE  TypeOK
    OBVIOUS
  <2>1. Consistent(world) /\ world = worlds[Len(worlds)]
    BY DEF IInv, WorldOK
  <2>2. stage \in 1 .. Len(Script) + 1 /\ Len(got) = stage - 1
    BY Bounds DEF IInv, Typed
  <2>3. asked \in BOOLEAN /\ token \in BOOLEAN
    BY Zenon DEF IInv, Typed
  <2>4. Cardinality(total) <= 1 /\ (found # {} => total # {})
    <3>1. CASE total = {}
      BY <3>1, FS_EmptySet DEF IInv, Typed
    <3>2. CASE total # {}
      <4>1. PICK c \in 1 .. MaxItems : total = {c}
        BY <3>2 DEF IInv, Typed
      <4>2. Cardinality({c}) = 1
        BY FS_Singleton
      <4>3. QED
        BY <3>2, <4>1, <4>2
    <3>3. QED
      BY <3>1, <3>2
  <2>5. requests \in 0 .. MaxRequests + 1
    BY InventoryAssumption DEF IInv, Typed, Counted
  <2>6. token => Running /\ Len(posts) = 1
    <3> SUFFICES ASSUME token
                 PROVE  Running /\ Len(posts) = 1
      OBVIOUS
    <3>1. posts = <<"server">>
      BY DEF IInv, Secrets
    <3>2. Running
      BY DEF IInv, Typed
    <3>3. QED
      BY <3>1, <3>2
  <2>7. told \subseteq {"server", "other"} /\ stack \in {"checks", "sloppy"}
    BY DEF IInv, Typed, Secrets
  <2>8. result \in {"none", "ok", "CONNECT", "NEGATIVE_TLS", "REQUEST_LIMIT", "DRIFT", "PAGE", "REQUEST"}
    BY DEF IInv, Typed, Results
  <2>9. QED
    BY <2>1, <2>2, <2>3, <2>4, <2>5, <2>6, <2>7, <2>8 DEF TypeOK
<1>2. QED
  BY <1>1, Invariant, PTL

(* The password leaves once at most; it and the token only for the pinned  *)
(* server, and from a client that was seen to check host names.            *)
THEOREM SecretsAreSafe == Spec => []SecretsOnlyToPinned
<1>1. IInv => SecretsOnlyToPinned
  <2> SUFFICES ASSUME IInv
               PROVE  SecretsOnlyToPinned
    OBVIOUS
  <2>1. told # {} => posts = <<"server">>
    BY DEF IInv, Secrets
  <2>2. told # {} => told = {"server"}
    <3>1. told \in SUBSET {"server"}
      BY DEF IInv, Secrets
    <3>2. \A x \in told : x = "server"
      BY <3>1
    <3>3. QED
      BY <3>2, Zenon
  <2>3. told # {} => stack = "checks"
    <3>1. stage \in Nat
      BY Bounds DEF IInv, Typed
    <3>2. told # {} => stage > 2
      BY <3>1 DEF IInv, Secrets
    <3>3. QED
      BY <3>2 DEF IInv, Secrets
  <2>4. QED
    BY <2>1, <2>2, <2>3, Zenon DEF SecretsOnlyToPinned
<1>2. QED
  BY <1>1, Invariant, PTL

(* A catalog within MAX_ITEMS fits into the request limit, for every page  *)
(* size and however it is edited while it is turned.                       *)
THEOREM LimitSuffices == Spec => []LimitIsEnough
<1>1. IInv => LimitIsEnough
  BY DEF IInv, Typed, Results, LimitIsEnough
<1>2. QED
  BY <1>1, Invariant, PTL

(* At the instant between the passes a collection was what both of them    *)
(* found.                                                                  *)
LEMMA CollectionBetween ==
  ASSUME IInv, ~Reversed, NEW k \in Kind, NEW v \in SUBSET Rows, NEW m \in 1 .. Len(worlds),
         NEW h \in 1 .. m, Ended(k, v, h),
         NEW l \in m .. Len(worlds), Began(k, Cardinality(v), v, l)
  PROVE  v = Catalog(worlds[m], k)
<1>1. /\ h \in DOMAIN worlds /\ m \in DOMAIN worlds /\ l \in DOMAIN worlds /\ h <= m /\ m <= l
      /\ h \in Nat /\ m \in Nat /\ l \in Nat /\ DOMAIN worlds \subseteq Nat /\ DOMAIN worlds = 1 .. Len(worlds)
      /\ Len(worlds) \in Nat
  BY Bounds
<1>2. \A t \in DOMAIN worlds : worlds[t] \in Worlds /\ Finite(worlds[t])
  BY Bounds, <1>1 DEF IInv, WorldOK
<1> DEFINE At(t, i) == {x \in Catalog(worlds[t], k) : x.id = i}
<1>3. ASSUME NEW t \in DOMAIN worlds
      PROVE  /\ \A x \in Catalog(worlds[t], k) : x.id \in Id /\ At(t, x.id) = {x}
             /\ Catalog(worlds[t], k) \in SUBSET Rows
             /\ IsFiniteSet(Catalog(worlds[t], k))
             /\ Cardinality(Catalog(worlds[t], k)) = Cardinality(worlds[t].items[k])
  <2>1. worlds[t] \in Worlds /\ Finite(worlds[t])
    BY <1>2
  <2>2. ASSUME NEW x \in Catalog(worlds[t], k)
        PROVE  x.id \in Id /\ At(t, x.id) = {x}
    <3>1. PICK i \in worlds[t].items[k] : x = Row(worlds[t], k, i)
      BY DEF Catalog
    <3>2. x.id = i /\ i \in Id
      BY <2>1, <3>1 DEF Row, Worlds
    <3>3. \A y \in Catalog(worlds[t], k) : y.id = i => y = x
      BY <3>1 DEF Catalog, Row
    <3>4. QED
      BY <3>2, <3>3
  <2>3. QED
    BY <2>1, <2>2, CatalogIs
<1>4. ASSUME NEW x \in v
      PROVE  /\ x \in Catalog(worlds[h], k) /\ x \in Catalog(worlds[m], k) /\ x \in Catalog(worlds[l], k)
  <2>1. PICK a \in 1 .. h : x \in Catalog(worlds[a], k)
    BY DEF Ended
  <2>2. PICK b \in l .. Len(worlds) : x \in Catalog(worlds[b], k)
    BY DEF Began
  <2>3. a \in DOMAIN worlds /\ b \in DOMAIN worlds /\ a <= h /\ a <= m /\ a <= l /\ h <= b /\ m <= b /\ l <= b
    BY <1>1
  <2>4. x.id \in Id /\ At(a, x.id) = {x} /\ At(b, x.id) = {x}
    BY <1>3, <2>1, <2>2, <2>3
  <2>5. ASSUME NEW j \in DOMAIN worlds, a <= j, j <= b
        PROVE  x \in Catalog(worlds[j], k)
    <3>1. At(j, x.id) = {x}
      BY <1>1, <2>3, <2>4, <2>5, Stayed
    <3>2. QED
      BY <3>1
  <2>6. QED
    BY <1>1, <2>3, <2>5
<1>5. v = Catalog(worlds[h], k) /\ v = Catalog(worlds[l], k)
  <2>1. v \in SUBSET Catalog(worlds[h], k) /\ v \in SUBSET Catalog(worlds[l], k)
    BY <1>4
  <2>2. Cardinality(Catalog(worlds[h], k)) = Cardinality(v) /\ Cardinality(Catalog(worlds[l], k)) = Cardinality(v)
    BY <1>1, <1>3 DEF Ended, Began
  <2>3. IsFiniteSet(Catalog(worlds[h], k)) /\ IsFiniteSet(Catalog(worlds[l], k))
    BY <1>1, <1>3
  <2>4. QED
    BY <2>1, <2>2, <2>3, FS_Subset
<1>6. ASSUME NEW x \in Catalog(worlds[m], k)
      PROVE  x \in v
  <2>1. x.id \in Id /\ At(m, x.id) = {x}
    BY <1>1, <1>3
  <2>2. CASE \E y \in v : y.id = x.id
    <3>1. PICK y \in v : y.id = x.id
      BY <2>2
    <3>2. y \in Catalog(worlds[m], k)
      BY <1>4
    <3>3. y \in At(m, x.id)
      BY <3>1, <3>2
    <3>4. QED
      BY <2>1, <3>3
  <2>3. CASE \A y \in v : y.id # x.id
    <3>1. At(h, x.id) = {} /\ At(l, x.id) = {}
      BY <1>5, <2>3
    <3>2. At(m, x.id) = At(h, x.id)
      BY <1>1, <2>1, <3>1, Stayed
    <3>3. QED
      BY <2>1, <3>1, <3>2
  <2>4. QED
    BY <2>2, <2>3
<1>7. QED
  BY <1>4, <1>6

(* An inventory that is reported is the server as it was at one instant,   *)
(* between the passes, unless something was changed and changed back.      *)
THEOREM Snapshot == Spec => []InventoryIsSnapshot
<1>1. IInv => InventoryIsSnapshot
  <2> SUFFICES ASSUME IInv, result = "ok", ~Reversed
               PROVE  \E i \in DOMAIN worlds :
                        /\ \A k \in Kind : FirstOf(got)[k] = Catalog(worlds[i], k)
                        /\ \A j \in 6 .. 8 : got[j] = worlds[i].context[Script[j]]
    BY DEF InventoryIsSnapshot
  <2>1. /\ L \in Nat /\ L >= 1 /\ stage = 12 + 2 * L /\ Len(Script) = 11 + 2 * L
        /\ DOMAIN worlds = 1 .. Len(worlds) /\ Len(worlds) \in Nat /\ DOMAIN worlds \subseteq Nat
        /\ DOMAIN got = 1 .. stage - 1 /\ got \in Seq(Answers)
    BY Bounds DEF IInv, Typed
  <2>2. PICK m \in 1 .. Len(worlds) : First(m) /\ Second(m)
    BY DEF IInv, Between
  <2>3. ASSUME NEW k \in Kind
        PROVE  FirstOf(got)[k] = Catalog(worlds[m], k)
    <3> DEFINE s == CHOOSE i \in 9 .. 8 + Len(Kinds) : Script[i] = k
    <3>1. s \in 9 .. 8 + L /\ Script[s] = k
      <4>1. PICK j \in 1 .. L : Kinds[j] = k
        BY LIsNat DEF Kind
      <4>2. 8 + j \in 9 .. 8 + L /\ Script[8 + j] = k
        BY <2>1, <4>1, ScriptIs
      <4>3. QED
        BY <4>2 DEF L
    <3>2. FirstOf(got)[k] = got[s]
      BY DEF FirstOf
    <3> HIDE DEF s
    <3>3. s < stage /\ s + L \in 9 + L .. 8 + 2 * L /\ s + L < stage /\ s + L - L = s /\ s \in 1 .. Len(Script)
      BY <2>1, <3>1
    <3>4. got[s + L] = got[s] /\ Script[s + L] = k
      <4>1. Script[s + L] = Script[s]
        BY <3>1, <3>3, ScriptKinds
      <4> DEFINE e == s + L
      <4>2. e \in 9 + L .. 8 + 2 * L /\ e < stage /\ e - L = s
        <5>1. s \in Nat /\ 9 <= s /\ s <= 8 + L /\ L \in Nat
          BY <2>1, <3>1
        <5>2. 9 + L <= s + L /\ s + L <= 8 + 2 * L /\ s + L - L = s /\ s + L \in Nat
          BY <5>1
        <5>3. QED
          BY <2>1, <3>3, <5>2
      <4> HIDE DEF e
      <4>3. got[e] = got[e - L]
        BY <4>2 DEF IInv, Same
      <4>4. QED
        BY <4>1, <4>2, <4>3, <3>1 DEF e
    <3>5. PICK h \in 1 .. m : Ended(k, got[s], h)
      BY <2>2, <3>1, <3>3 DEF First
    <3>6. PICK l \in m .. Len(worlds) : Began(k, Cardinality(got[s]), got[s], l)
      BY <2>2, <3>3, <3>4 DEF Second
    <3>7. got[s] \in SUBSET Rows
      <4>1. ASSUME NEW x \in got[s]
            PROVE  x \in Rows
        <5>1. PICK t \in 1 .. h : x \in Catalog(worlds[t], k)
          BY <3>5 DEF Ended
        <5>2. t \in 1 .. Len(worlds)
          BY <2>1
        <5>3. worlds[t] \in Worlds /\ Finite(worlds[t])
          BY <5>2, Bounds DEF IInv, WorldOK
        <5>4. QED
          BY <5>1, <5>3, CatalogIs
      <4>2. QED
        BY <4>1
    <3>8. QED
      BY <3>2, <3>5, <3>6, <3>7, CollectionBetween
  <2>4. ASSUME NEW j \in 6 .. 8
        PROVE  got[j] = worlds[m].context[Script[j]]
    <3>1. PICK a \in 1 .. m : got[j] = worlds[a].context[Script[j]]
      <4>1. j < stage
        BY <2>1
      <4>2. QED
        BY <2>2, <4>1 DEF First
    <3> DEFINE s == 9 + 2 * L + (8 - j)
    <3>2. s \in 9 + 2 * L .. 11 + 2 * L /\ s < stage
      BY <2>1
    <3>3. Script[s] = Script[j] /\ Script[j] \in Context /\ \A i \in 6 .. 8 : Script[i] = Script[j] => i = j
      <4>1. j = 6 \/ j = 7 \/ j = 8
        OBVIOUS
      <4>2. \A i \in 6 .. 8 : i = 6 \/ i = 7 \/ i = 8
        OBVIOUS
      <4>3. Script[6] = "me" /\ Script[7] = "policies_me" /\ Script[8] = "config"
        BY ScriptIs
      <4>4. (j = 6 => s = 11 + 2 * L) /\ (j = 7 => s = 10 + 2 * L) /\ (j = 8 => s = 9 + 2 * L)
        BY <2>1
      <4>5. Script[s] = Script[j]
        BY <4>1, <4>3, <4>4, ScriptIs
      <4>6. QED
        BY <4>1, <4>2, <4>3, <4>5 DEF Context
    <3> HIDE DEF s
    <3>4. (CHOOSE i \in 6 .. 8 : Script[i] = Script[s]) = j
      BY <3>3
    <3>5. got[s] = got[j]
      BY <3>2, <3>4 DEF IInv, Same
    <3>6. PICK b \in m .. Len(worlds) : got[s] = worlds[b].context[Script[s]]
      BY <2>2, <3>2 DEF Second
    <3>7. a \in DOMAIN worlds /\ b \in DOMAIN worlds /\ m \in DOMAIN worlds /\ a <= m /\ m <= b
      BY <2>1
    <3>8. worlds[a].context[Script[j]] = worlds[b].context[Script[j]]
      BY <3>1, <3>3, <3>5, <3>6
    <3>9. QED
      BY <2>1, <3>1, <3>3, <3>7, <3>8, Stayed
  <2>5. QED
    BY <2>1, <2>3, <2>4
<1>2. QED
  BY <1>1, Invariant, PTL
=============================================================================
