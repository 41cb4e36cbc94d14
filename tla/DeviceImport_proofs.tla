------------------------ MODULE DeviceImport_proofs -------------------------
(***************************************************************************)
(* Importing a workbook again creates no device for a row that names one,  *)
(* and a commit accounts for every row that does.  Both rest on one fact:  *)
(* a row that finds a device keeps finding it, whatever is written next.   *)
(* The parser is proved to give a row of a known type and status for each  *)
(* line that has one, in their order, so that no line is lost either.      *)
(***************************************************************************)
EXTENDS DeviceImport, SequenceTheorems, FiniteSetTheorems, TLAPS

AllRows == UNION {{At(f, h) : h \in PlacesOf(f)} : f \in Files}

\* The devices a row finds in a register.
Finds(devices, row) ==
    {d \in DOMAIN devices :
        \/ Same(row.asset, devices[d].asset)
        \/ row.asset = Blank /\ Same(row.serial, devices[d].serial)}

\* Every row finds at least what it found before.
Keeps(old, new) == \A row \in AllRows : Finds(old, row) \subseteq Finds(new, row)

-----------------------------------------------------------------------------
(* The invariant.                                                          *)

\* A register: devices under numbered ids, and no row without asset number
\* finds a device that has one.
Orderly(devices) ==
    /\ devices \in [DOMAIN devices -> Device]
    /\ DOMAIN devices \subseteq DeviceId
    /\ Numbered(devices)
    /\ \A row \in AllRows, d \in DOMAIN devices :
           row.asset = Blank /\ devices[d].asset # Blank => ~Same(row.serial, devices[d].serial)

\* All rows of a file that name their device find it.
InRegister(devices, f) == \A h \in Named(f) : Finds(devices, At(f, h)) # {}

Upload == [stage: {"idle", "look", "write", "create", "audit", "done"}, mode: {"preview", "commit"},
           file: Files \cup {NoFile}, sheets: Seq(Seq(Rows)), sheet: Nat \ {0},
           found: Seq(DeviceId \cup {NoDevice}), at: Nat \ {0}, id: DeviceId \cup {NoDevice},
           created: SUBSET (Nat \X Nat), failed: SUBSET (Nat \X Nat), known: BOOLEAN]

Writing == {"write", "create", "audit"}

\* Where a commit is in its file.
InPlace(u) ==
    /\ u.file \in Files /\ u.sheets = Parsed[u.file]
    /\ u.sheet \in DOMAIN u.sheets
    /\ Len(u.found) <= Len(SheetOf(u))
    /\ u.stage = "look" => u.at = 1
    /\ u.stage \in Writing => Len(u.found) = Len(SheetOf(u)) /\ u.at \in DOMAIN u.found
    /\ u.stage = "create" => u.found[u.at] = NoDevice /\ u.id \in DeviceId

\* What was looked up: devices the rows still find, and of a file that has been
\* imported before only rows without a name found none.
LookedUpWell(devices, u) ==
    \A i \in DOMAIN u.found :
        /\ u.found[i] # NoDevice => u.found[i] \in Finds(devices, SheetOf(u)[i])
        /\ u.found[i] = NoDevice /\ u.known => <<u.sheet, i>> \notin Named(u.file)

\* The commit is done with the row.
Behind(u, h) ==
    \/ u.stage = "done" \/ h[1] < u.sheet
    \/ u.stage \in Writing /\ h[1] = u.sheet /\ h[2] < u.at
    \/ u.stage = "audit" /\ h = Here(u)

\* The row is in the report or in the register.
Settled(devices, u, h) == h \in u.failed \/ Finds(devices, At(u.file, h)) # {}

Accounted(devices, u) == \A h \in Named(u.file) : Behind(u, h) => Settled(devices, u, h)

\* Of a file imported before all rows are in the register, and none is new.
NothingNew(devices, u) ==
    u.known => InRegister(devices, u.file) /\ u.created \cap Named(u.file) = {}

Sound(devices, u) ==
    /\ u \in Upload
    /\ u.mode = "preview" => u.stage \in {"idle", "done"} /\ ~u.known
    /\ u.stage = "done" => u.file \in Files
    /\ u.mode = "commit" => /\ u.stage # "idle" /\ InPlace(u)
                            /\ LookedUpWell(devices, u)
                            /\ Accounted(devices, u)
                            /\ NothingNew(devices, u)

Page == [step: {"upload", "preview", "result"}, file: Files \cup {NoFile},
         previewed: Files \cup {NoFile}, loading: BOOLEAN]

\* A page with an answer on its way, or a preview on it, has a file.
Ready(p, u) ==
    /\ u.stage # "idle" => p.loading /\ p.step # "result" /\ p.file \in Files
    /\ p.step = "preview" => p.file \in Files

Good ==
    /\ Orderly(register)
    /\ \A f \in clean : f \in Files /\ InRegister(register, f)
    /\ upload \in [Admins -> Upload] /\ \A a \in Admins : Sound(register, upload[a])
    /\ page \in [Admins -> Page] /\ \A a \in Admins : Ready(page[a], upload[a])

-----------------------------------------------------------------------------
(* The parser: sets of lines, columns and table entries, the lowest of     *)
(* them and their ranks, and with these what a sheet is read as.           *)

\* The members up to one, and those above it.
UpTo(S, i) == {j \in S : j <= i}
Over(S, i) == {j \in S : i < j}

\* Of two members the greater has more up to it, and fewer above.
LEMMA UpToGrows ==
  ASSUME NEW S, S \subseteq Nat, NEW i \in S, NEW j \in S, i < j
  PROVE  /\ UpTo(S, i) \subseteq UpTo(S, j) /\ j \in UpTo(S, j) /\ j \notin UpTo(S, i)
         /\ Over(S, j) \subseteq Over(S, i) /\ j \in Over(S, i) /\ j \notin Over(S, j)
  <1>1. i \in Nat /\ j \in Nat /\ \A m \in S : m \in Nat
    OBVIOUS
  <1>2. ASSUME NEW m \in S PROVE (m <= i => m <= j) /\ (j < m => i < m)
    BY <1>1
  <1>3. j <= j /\ ~(j <= i) /\ ~(j < j)
    BY <1>1
  <1> QED
    BY <1>2, <1>3, Zenon DEF UpTo, Over

\* A set of numbers has a lowest.
LEMMA LowestOf ==
  ASSUME NEW S, S \subseteq Nat, S # {}
  PROVE  Lowest(S) \in S /\ \A m \in S : Lowest(S) <= m
  <1> DEFINE T == {UpTo(S, i) : i \in S}
  <1>1. T \subseteq FiniteSubsetsOf(S) /\ T # {}
    <2>1. ASSUME NEW i \in S PROVE IsFiniteSet(UpTo(S, i))
      BY FS_BoundedSetOfNaturals DEF UpTo
    <2> QED
      BY <2>1 DEF UpTo, FiniteSubsetsOf
  <1>2. \E x \in T : \A y \in T : ~(<<y, x>> \in StrictSubsetOrdering(S))
    BY <1>1, FS_StrictSubsetOrderingWellFounded, WFMin
  <1>3. PICK n \in S : \A m \in S : ~(<<UpTo(S, m), UpTo(S, n)>> \in StrictSubsetOrdering(S))
    BY <1>2
  <1>4. ASSUME NEW m \in S PROVE n <= m
    <2>1. SUFFICES ASSUME m < n PROVE FALSE
      OBVIOUS
    <2>2. UpTo(S, m) \subseteq UpTo(S, n) /\ n \in UpTo(S, n) /\ n \notin UpTo(S, m)
      BY <2>1, UpToGrows
    <2>3. <<UpTo(S, m), UpTo(S, n)>> \in (SUBSET S) \X (SUBSET S)
      BY DEF UpTo
    <2>4. <<UpTo(S, m), UpTo(S, n)>> \in StrictSubsetOrdering(S)
      BY <2>2, <2>3 DEF StrictSubsetOrdering
    <2> QED
      BY <2>4, <1>3
  <1> QED
    BY <1>4 DEF Lowest

\* A finite set of numbers has a highest.
LEMMA HighestOf ==
  ASSUME NEW S, S \subseteq Nat, S # {}, IsFiniteSet(S)
  PROVE  \E n \in S : \A m \in S : m <= n
  <1> DEFINE T == {Over(S, i) : i \in S}
  <1>1. T \subseteq FiniteSubsetsOf(S) /\ T # {}
    <2>1. ASSUME NEW i \in S PROVE IsFiniteSet(Over(S, i))
      BY FS_Subset DEF Over
    <2> QED
      BY <2>1 DEF Over, FiniteSubsetsOf
  <1> HIDE DEF T
  <1>2. \E x \in T : \A y \in T : ~(<<y, x>> \in StrictSubsetOrdering(S))
    BY <1>1, FS_StrictSubsetOrderingWellFounded, WFMin
  <1>3. PICK n \in S : \A m \in S : ~(<<Over(S, m), Over(S, n)>> \in StrictSubsetOrdering(S))
    BY <1>2 DEF T
  <1>4. ASSUME NEW m \in S PROVE m <= n
    <2>1. SUFFICES ASSUME n < m PROVE FALSE
      OBVIOUS
    <2>2. Over(S, m) \subseteq Over(S, n) /\ m \in Over(S, n) /\ m \notin Over(S, m)
      BY <2>1, UpToGrows
    <2>3. <<Over(S, m), Over(S, n)>> \in (SUBSET S) \X (SUBSET S)
      BY DEF Over
    <2>4. <<Over(S, m), Over(S, n)>> \in StrictSubsetOrdering(S)
      BY <2>2, <2>3 DEF StrictSubsetOrdering
    <2> QED
      BY <2>4, <1>3
  <1> QED
    BY <1>3, <1>4

\* The rank of a member is how many there are up to it.
LEMMA RankIs == \A S, i : Rank(S, i) = Cardinality(UpTo(S, i))
  BY DEF Rank, UpTo

\* Ranks are between one and the size of the set, and rise with the members.
LEMMA RanksRise ==
  ASSUME NEW S, S \subseteq Nat, IsFiniteSet(S), NEW i \in S
  PROVE  /\ Rank(S, i) \in 1..Cardinality(S)
         /\ \A j \in S : i < j => Rank(S, i) < Rank(S, j)
  <1>1. /\ IsFiniteSet(UpTo(S, i)) /\ Rank(S, i) <= Cardinality(S)
        /\ Rank(S, i) \in Nat /\ Cardinality(S) \in Nat
    BY FS_Subset, FS_CardinalityType, RankIs DEF UpTo
  <1>2. Rank(S, i) # 0
    BY <1>1, FS_EmptySet, RankIs DEF UpTo
  <1>3. ASSUME NEW j \in S, i < j PROVE Rank(S, i) < Rank(S, j)
    <2>1. UpTo(S, i) \in SUBSET UpTo(S, j) /\ j \in UpTo(S, j) /\ j \notin UpTo(S, i)
      BY <1>3, UpToGrows
    <2>2. IsFiniteSet(UpTo(S, j)) /\ Rank(S, j) \in Nat
      BY FS_Subset, FS_CardinalityType, RankIs DEF UpTo
    <2>3. Rank(S, i) <= Rank(S, j) /\ Rank(S, i) # Rank(S, j)
      BY <2>1, <2>2, FS_Subset, RankIs
    <2> QED
      BY <2>2, <2>3, <1>1
  <1> QED
    BY <1>1, <1>2, <1>3

\* Every rank is taken.
LEMMA RankTaken ==
  ASSUME NEW S, S \subseteq Nat, IsFiniteSet(S), NEW k \in 1..Cardinality(S)
  PROVE  \E i \in S : Rank(S, i) = k
  <1> DEFINE T == {i \in S : k <= Rank(S, i)}
             i == Lowest(T)
  <1>1. Cardinality(S) \in Nat /\ S # {}
    BY FS_CardinalityType, FS_EmptySet
  <1>2. PICK h \in S : \A m \in S : m <= h
    BY <1>1, HighestOf
  <1>3. h \in T
    <2>1. UpTo(S, h) = S
      BY <1>2 DEF UpTo
    <2> QED
      BY <2>1, <1>1, RankIs
  <1>4. i \in T /\ (\A m \in T : i <= m) /\ i \in S /\ i \in Nat
    BY <1>3, LowestOf
  <1> HIDE DEF i
  <1>5. ASSUME k < Rank(S, i) PROVE FALSE
    <2> DEFINE B == UpTo(S, i) \ {i}
    <2>1. IsFiniteSet(UpTo(S, i)) /\ i \in UpTo(S, i)
      BY <1>4, FS_Subset DEF UpTo
    <2>2. IsFiniteSet(B) /\ Cardinality(B) = Rank(S, i) - 1
      BY <2>1, FS_RemoveElement, RankIs
    <2>3. Rank(S, i) \in Nat
      BY <2>1, FS_CardinalityType, RankIs
    <2>4. B # {} /\ k <= Cardinality(B)
      BY <2>2, <2>3, <1>5, FS_EmptySet
    <2>5. B \subseteq Nat
      BY DEF UpTo
    <2> HIDE DEF B
    <2>6. PICK m \in B : \A n \in B : n <= m
      BY <2>2, <2>4, <2>5, HighestOf
    <2>7. m \in S /\ m \in Nat /\ m < i
      BY <2>5, <1>4 DEF B, UpTo
    <2>8. UpTo(S, m) = B
      <3>1. ASSUME NEW n \in S PROVE n \in Nat /\ (n <= i /\ n # i <=> n < i) /\ (n <= m => n < i)
        BY <2>7, <1>4
      <3>2. ASSUME NEW n \in S, n < i PROVE n <= m
        <4>1. n \in B
          BY <3>1, <3>2 DEF B, UpTo
        <4> QED
          BY <4>1, <2>6
      <3> QED
        BY <3>1, <3>2 DEF B, UpTo
    <2>9. m \in T
      BY <2>4, <2>7, <2>8, RankIs
    <2> QED
      BY <2>9, <1>4, <2>7
  <1>6. Rank(S, i) \in 1..Cardinality(S)
    BY <1>4, RanksRise
  <1> QED
    BY <1>1, <1>4, <1>5, <1>6

\* A table of words whose values are of a set.
Gives(table, T) == DOMAIN table \subseteq Nat /\ \A i \in DOMAIN table : table[i][2] \in T

\* What a table infers is one of its values or the default.
LEMMA InferredIn ==
  ASSUME NEW T, NEW table, Gives(table, T), NEW default \in T
  PROVE  /\ \A said : InferredFrom(table, said, default) \in T
         /\ \A text : Inferred(table, text, default) \in T
  <1> SUFFICES ASSUME NEW said PROVE InferredFrom(table, said, default) \in T
    BY DEF Inferred
  <1> DEFINE hits == {i \in DOMAIN table : table[i][1] \in said}
  <1>1. hits # {} => Lowest(hits) \in hits
    BY LowestOf DEF Gives
  <1> QED
    BY <1>1 DEF InferredFrom, Gives

\* What the tables of the parser give.
LEMMA LaptopWordsGive == Gives(LaptopWords, DeviceTypes)
  <1>1. DOMAIN LaptopWords = 1..13
    BY DEF LaptopWords
  <1>2. {LaptopWords[1][2], LaptopWords[2][2], LaptopWords[3][2], LaptopWords[4][2],
          LaptopWords[5][2], LaptopWords[6][2], LaptopWords[7][2], LaptopWords[8][2],
          LaptopWords[9][2], LaptopWords[10][2], LaptopWords[11][2], LaptopWords[12][2],
          LaptopWords[13][2]} \subseteq DeviceTypes
    BY DEF LaptopWords, DeviceTypes
  <1>3. 1..13 = {1, 2, 3, 4, 5, 6, 7, 8, 9, 10, 11, 12, 13}
    OBVIOUS
  <1> QED
    BY <1>1, <1>2, <1>3 DEF Gives

LEMMA TVWordsGive == Gives(TVWords, DeviceTypes)
  <1>1. DOMAIN TVWords = 1..8
    BY DEF TVWords
  <1>2. {TVWords[1][2], TVWords[2][2], TVWords[3][2], TVWords[4][2], TVWords[5][2], TVWords[6][2],
          TVWords[7][2], TVWords[8][2]} \subseteq DeviceTypes
    BY DEF TVWords, DeviceTypes
  <1>3. 1..8 = {1, 2, 3, 4, 5, 6, 7, 8}
    OBVIOUS
  <1> QED
    BY <1>1, <1>2, <1>3 DEF Gives

LEMMA TVPrefixesGive == Gives(TVPrefixes, DeviceTypes)
  <1>1. DOMAIN TVPrefixes = 1..3
    BY DEF TVPrefixes
  <1>2. {TVPrefixes[1][2], TVPrefixes[2][2], TVPrefixes[3][2]} \subseteq DeviceTypes
    BY DEF TVPrefixes, DeviceTypes
  <1>3. 1..3 = {1, 2, 3}
    OBVIOUS
  <1> QED
    BY <1>1, <1>2, <1>3 DEF Gives

LEMMA SmartWordsGive == Gives(SmartWords, DeviceTypes \cup {"elsewhere"})
  <1>1. DOMAIN SmartWords = 1..12
    BY DEF SmartWords
  <1>2. {SmartWords[1][2], SmartWords[2][2], SmartWords[3][2], SmartWords[4][2], SmartWords[5][2],
          SmartWords[6][2], SmartWords[7][2], SmartWords[8][2], SmartWords[9][2], SmartWords[10][2],
          SmartWords[11][2], SmartWords[12][2]} \subseteq (DeviceTypes \cup {"elsewhere"})
    BY DEF SmartWords, DeviceTypes
  <1>3. 1..12 = {1, 2, 3, 4, 5, 6, 7, 8, 9, 10, 11, 12}
    OBVIOUS
  <1> QED
    BY <1>1, <1>2, <1>3 DEF Gives

LEMMA StatusWordsGive == Gives(StatusWords, RowStatus)
  <1>1. DOMAIN StatusWords = 1..5
    BY DEF StatusWords
  <1>2. {StatusWords[1][2], StatusWords[2][2], StatusWords[3][2], StatusWords[4][2],
          StatusWords[5][2]} \subseteq RowStatus
    BY DEF StatusWords, RowStatus
  <1>3. 1..5 = {1, 2, 3, 4, 5}
    OBVIOUS
  <1> QED
    BY <1>1, <1>2, <1>3 DEF Gives

LEMMA SmartStatusWordsGive == Gives(SmartStatusWords, RowStatus)
  <1>1. DOMAIN SmartStatusWords = 1..5
    BY DEF SmartStatusWords
  <1>2. {SmartStatusWords[1][2], SmartStatusWords[2][2], SmartStatusWords[3][2],
          SmartStatusWords[4][2], SmartStatusWords[5][2]} \subseteq RowStatus
    BY DEF SmartStatusWords, RowStatus
  <1>3. 1..5 = {1, 2, 3, 4, 5}
    OBVIOUS
  <1> QED
    BY <1>1, <1>2, <1>3 DEF Gives

LEMMA SheetWordsGive == Gives(SheetWords, DOMAIN Anchors)
  <1>1. DOMAIN SheetWords = 1..5
    BY DEF SheetWords
  <1>2. {SheetWords[1][2], SheetWords[2][2], SheetWords[3][2], SheetWords[4][2], SheetWords[5][2]} \subseteq DOMAIN Anchors
    BY DEF SheetWords, Anchors
  <1>3. 1..5 = {1, 2, 3, 4, 5}
    OBVIOUS
  <1> QED
    BY <1>1, <1>2, <1>3 DEF Gives

LEMMA TypesInferred ==
  ASSUME NEW text, NEW asset
  PROVE  /\ InferType(text) \in DeviceTypes
         /\ SmartCategory(text) \in DeviceTypes \cup {"elsewhere"}
         /\ TVType(asset, text) \in DeviceTypes
  <1>1. InferType(text) \in DeviceTypes
    <2>1. "Laptop" \in DeviceTypes
      BY DEF DeviceTypes
    <2> QED
      BY <2>1, InferredIn, LaptopWordsGive DEF InferType
  <1>2. SmartCategory(text) \in DeviceTypes \cup {"elsewhere"}
    <2>1. "Mobile" \in DeviceTypes \cup {"elsewhere"}
      BY DEF DeviceTypes
    <2> QED
      BY <2>1, InferredIn, SmartWordsGive DEF SmartCategory
  <1>3. TVType(asset, text) \in DeviceTypes
    <2>1. "TV" \in DeviceTypes
      BY DEF DeviceTypes
    <2>2. Inferred(TVWords, text, "TV") \in DeviceTypes
      BY <2>1, InferredIn, TVWordsGive
    <2> QED
      BY <2>2, InferredIn, TVPrefixesGive DEF TVType
  <1> QED
    BY <1>1, <1>2, <1>3

LEMMA StatusesInferred ==
  ASSUME NEW text
  PROVE  /\ ClassifyStatus(text) \in RowStatus
         /\ ClassifySmartStatus(text) \in RowStatus
         /\ SheetType(text) \in DOMAIN Anchors
  <1>1. "AVAILABLE" \in RowStatus /\ "ALLOCATED" \in RowStatus /\ "laptop" \in DOMAIN Anchors
    BY DEF RowStatus, Anchors
  <1>2. Inferred(StatusWords, text, "ALLOCATED") \in RowStatus
    BY <1>1, InferredIn, StatusWordsGive
  <1>3. Inferred(SmartStatusWords, text, "AVAILABLE") \in RowStatus
    BY <1>1, InferredIn, SmartStatusWordsGive
  <1>4. Inferred(SheetWords, text, "laptop") \in DOMAIN Anchors
    BY <1>1, InferredIn, SheetWordsGive
  <1> QED
    BY <1>1, <1>2, <1>3, <1>4 DEF ClassifyStatus, ClassifySmartStatus, SheetType

\* A column is read from the line or blank.
LEMMA ColIsCell ==
  ASSUME NEW line \in Seq(Cells), NEW header \in Seq(Cells),
         NEW candidates, DOMAIN candidates \subseteq Nat
  PROVE  Col(line, header, candidates) \in Cells
  <1> DEFINE under(c) == {i \in DOMAIN header : c \in Words[header[i]]}
             hits == {k \in DOMAIN candidates : under(candidates[k]) # {}
                                                /\ Lowest(under(candidates[k])) \in DOMAIN line}
  <1>1. hits # {} => Lowest(hits) \in hits
    BY LowestOf
  <1>2. Col(line, header, candidates) =
            IF hits = {} THEN Blank ELSE line[Lowest(under(candidates[Lowest(hits)]))]
    BY DEF Col
  <1>3. \A i \in DOMAIN line : line[i] \in Cells
    BY ElementOfSeq
  <1> QED
    BY <1>1, <1>2, <1>3, ParserAssumption

LEMMA ColsAreCells ==
  ASSUME NEW line \in Seq(Cells), NEW header \in Seq(Cells)
  PROVE  /\ \A c : Col(line, header, <<c>>) \in Cells
         /\ \A c, d, e : Col(line, header, <<c, d, e>>) \in Cells
  <1>1. ASSUME NEW c PROVE Col(line, header, <<c>>) \in Cells
    <2>1. DOMAIN <<c>> \subseteq Nat
      OBVIOUS
    <2> QED
      BY <2>1, ColIsCell
  <1>2. ASSUME NEW c, NEW d, NEW e PROVE Col(line, header, <<c, d, e>>) \in Cells
    <2>1. DOMAIN <<c, d, e>> \subseteq Nat
      OBVIOUS
    <2> QED
      BY <2>1, ColIsCell
  <1> QED
    BY <1>1, <1>2

\* The header is one of the lines.
LEMMA HeaderIsLine ==
  ASSUME NEW lines \in Seq(Seq(Cells)), lines # <<>>, NEW type \in DOMAIN Anchors
  PROVE  HeaderLine(lines, type) \in DOMAIN lines
  <1> DEFINE anchored == {i \in DOMAIN lines :
                             i <= 12 /\ \E a \in Anchors[type] : a \subseteq WordsOf(lines[i])}
             wide == {i \in DOMAIN lines : i <= 10 /\ Cardinality(Filled(lines[i])) >= 5}
             S == IF anchored # {} THEN anchored ELSE IF wide # {} THEN wide ELSE {1}
  <1>1. DOMAIN lines \subseteq Nat /\ 1 \in DOMAIN lines
    <2>1. DOMAIN lines = 1..Len(lines) /\ Len(lines) \in Nat /\ Len(lines) # 0
      BY EmptySeq, LenProperties
    <2> QED
      BY <2>1
  <1>2. S \subseteq DOMAIN lines /\ S # {}
    BY <1>1
  <1>3. HeaderLine(lines, type) = Lowest(S)
    BY DEF HeaderLine
  <1> HIDE DEF S
  <1> QED
    BY <1>1, <1>2, <1>3, LowestOf

\* At most one, and of the set.
AtMostOne(T, S) == S = {} \/ \E r \in T : S = {r}

\* Every kind of line gives a row of cells, a type and a status, or none.
LEMMA RowsTyped ==
  ASSUME NEW lines \in Seq(Seq(Cells)), NEW type, NEW top \in DOMAIN lines, NEW i \in DOMAIN lines
  PROVE  AtMostOne(Rows, RowAt(lines, i, type, top))
  <1> DEFINE line == lines[i]
             header == lines[top]
  <1>1. line \in Seq(Cells) /\ header \in Seq(Cells)
    BY ElementOfSeq
  <1> HIDE DEF line, header
  <1>2. ASSUME NEW asset \in Cells, NEW serial \in Cells, NEW t \in DeviceTypes,
               NEW status \in RowStatus, NEW dropped
        PROVE  AtMostOne(Rows, Row(asset, serial, t, status, dropped))
    <2> DEFINE r == [asset |-> asset, serial |-> serial, type |-> t, status |-> status]
    <2>1. r \in Rows
      BY ImportAssumption DEF Rows
    <2>2. Row(asset, serial, t, status, dropped) = {} \/ Row(asset, serial, t, status, dropped) = {r}
      BY DEF Row
    <2> HIDE DEF r
    <2> QED
      BY <2>1, <2>2 DEF AtMostOne
  <1>3. AtMostOne(Rows, LaptopRow(line, header))
    <2> DEFINE g(c) == Col(line, header, c)
    <2>1. /\ g(<<"asset number", "asset no", "asset #">>) \in Cells
          /\ g(<<"service tag", "serial number", "serial no">>) \in Cells
      BY <1>1, ColsAreCells
    <2> QED
      BY <2>1, <1>2, TypesInferred, StatusesInferred DEF LaptopRow
  <1>4. AtMostOne(Rows, RentedRow(line, header))
    <2> DEFINE g(c) == Col(line, header, c)
    <2>1. /\ g(<<"asset id", "asset number", "asset no">>) \in Cells
          /\ g(<<"service tag", "serial number", "serial no">>) \in Cells
      BY <1>1, ColsAreCells
    <2>2. "Laptop" \in DeviceTypes
      BY DEF DeviceTypes
    <2> QED
      BY <2>1, <2>2, <1>2, StatusesInferred DEF RentedRow
  <1>5. AtMostOne(Rows, SmartDeviceRow(line, header))
    <2> DEFINE g(c) == Col(line, header, c)
               model == g(<<"device">>)
               category == IF model = Blank THEN "Mobile" ELSE SmartCategory(model)
               asset == g(<<"asst id", "asset id", "asset number">>)
               serial == g(<<"model no">>)
    <2>1. asset \in Cells /\ serial \in Cells
      BY <1>1, ColsAreCells
    <2>2. "Mobile" \in DeviceTypes
      BY DEF DeviceTypes
    <2>3. category \in DeviceTypes \/ category = "elsewhere"
      BY <2>2, TypesInferred
    <2>4. SmartDeviceRow(line, header) =
              Row(asset, serial, category, ClassifySmartStatus(g(<<"asset status">>)),
                  {asset, model} = {Blank} \/ category = "elsewhere")
      BY DEF SmartDeviceRow
    <2> HIDE DEF asset, serial, model, category
    <2>5. CASE category = "elsewhere"
      <3>1. SmartDeviceRow(line, header) = {}
        BY <2>4, <2>5 DEF Row
      <3> QED
        BY <3>1 DEF AtMostOne
    <2>6. CASE category \in DeviceTypes
      BY <2>1, <2>4, <2>6, <1>2, StatusesInferred
    <2> QED
      BY <2>3, <2>5, <2>6
  <1>6. AtMostOne(Rows, TVRow(line, header))
    <2> DEFINE g(c) == Col(line, header, c)
    <2>1. g(<<"asst id", "asset id", "asset number">>) \in Cells /\ g(<<"model no">>) \in Cells
      BY <1>1, ColsAreCells
    <2> QED
      BY <2>1, <1>2, TypesInferred, StatusesInferred DEF TVRow
  <1>7. AtMostOne(Rows, {})
    BY DEF AtMostOne
  <1>8. \/ RowAt(lines, i, type, top) = {}
        \/ RowAt(lines, i, type, top) = LaptopRow(line, header)
        \/ RowAt(lines, i, type, top) = RentedRow(line, header)
        \/ RowAt(lines, i, type, top) = SmartDeviceRow(line, header)
        \/ RowAt(lines, i, type, top) = TVRow(line, header)
    BY DEF RowAt, line, header
  <1> QED
    BY <1>3, <1>4, <1>5, <1>6, <1>7, <1>8

\* The lines that have a row.
Full(rows) == {i \in DOMAIN rows : rows[i] # {}}

\* Lines of which each gives at most one thing of a kind.
Giving(T, rows) ==
    /\ \E n \in Nat : DOMAIN rows = 1..n
    /\ \A i \in DOMAIN rows : AtMostOne(T, rows[i])

\* What all lines give, once each and in their order.
Enumerates(out, rows) ==
    /\ Len(out) = Cardinality(Full(rows))
    /\ \A i \in Full(rows) : /\ Rank(Full(rows), i) \in DOMAIN out
                             /\ rows[i] = {out[Rank(Full(rows), i)]}
                             /\ \A j \in Full(rows) : i < j => Rank(Full(rows), i) < Rank(Full(rows), j)
    /\ \A k \in DOMAIN out : \E i \in Full(rows) : Rank(Full(rows), i) = k

LEMMA LaidOut ==
  ASSUME NEW T, NEW rows, Giving(T, rows)
  PROVE  InOrder(rows) \in Seq(T) /\ Enumerates(InOrder(rows), rows)
  <1>0. PICK n \in Nat : DOMAIN rows = 1..n /\ \A i \in 1..n : rows[i] = {} \/ \E r \in T : rows[i] = {r}
    BY DEF Giving, AtMostOne
  <1> DEFINE S == Full(rows)
             N == Cardinality(S)
             out == [k \in 1..N |-> CHOOSE r \in rows[Nth(S, k)] : TRUE]
  <1>1. S \subseteq 1..n /\ S \subseteq Nat
    BY <1>0 DEF Full
  <1>2. IsFiniteSet(S) /\ N \in Nat
    <2>1. IsFiniteSet(1..n)
      BY FS_Interval
    <2>2. S \in SUBSET (1..n)
      BY <1>1
    <2>3. IsFiniteSet(S)
      BY <2>1, <2>2, FS_Subset
    <2> QED
      BY <2>3, FS_CardinalityType
  <1>3. InOrder(rows) = out
    BY DEF InOrder, Full
  <1>4. ASSUME NEW i \in S PROVE Rank(S, i) \in 1..N /\ Nth(S, Rank(S, i)) = i
    <2>1. Rank(S, i) \in 1..N
      BY <1>1, <1>2, RanksRise
    <2>2. ASSUME NEW j \in S, Rank(S, j) = Rank(S, i) PROVE j = i
      <3>1. /\ i < j => Rank(S, i) < Rank(S, j)
            /\ j < i => Rank(S, j) < Rank(S, i)
            /\ Rank(S, j) \in 1..N
        BY <1>1, <1>2, RanksRise
      <3>2. i \in Nat /\ j \in Nat
        BY <1>1
      <3> QED
        BY <3>1, <3>2, <2>2, <2>1, <1>2
    <2> QED
      BY <2>1, <2>2 DEF Nth
  <1>5. ASSUME NEW k \in 1..N PROVE \E i \in S : Rank(S, i) = k
    BY <1>1, <1>2, RankTaken
  <1>6. ASSUME NEW i \in S PROVE \E r \in T : rows[i] = {r}
    BY <1>0, <1>1 DEF Full
  <1> HIDE DEF S, N
  <1>7. ASSUME NEW i \in S PROVE rows[i] = {out[Rank(S, i)]} /\ out[Rank(S, i)] \in T
    <2>1. out[Rank(S, i)] = CHOOSE r \in rows[i] : TRUE
      BY <1>4
    <2>2. PICK r \in T : rows[i] = {r}
      BY <1>6
    <2>3. (CHOOSE q \in rows[i] : TRUE) = r
      BY <2>2
    <2> QED
      BY <2>1, <2>2, <2>3
  <1>8. \A k \in 1..N : out[k] \in T
    BY <1>5, <1>7
  <1>9. out \in [1..N -> T]
    BY <1>8
  <1>10. out \in Seq(T) /\ Len(out) = N /\ DOMAIN out = 1..N
    BY <1>9, <1>2, SeqDef, LenProperties
  <1> HIDE DEF out
  <1>11. \A i \in S, j \in S : i < j => Rank(S, i) < Rank(S, j)
    BY <1>1, <1>2, RanksRise
  <1> QED
    BY <1>3, <1>4, <1>5, <1>7, <1>10, <1>11 DEF Enumerates, S, N

\* The lines of a sheet with what each gives, and those that give a row.
LinesOf(sheet) ==
    IF sheet.lines = <<>> THEN <<>>
    ELSE RowsOf(sheet.lines, SheetType(sheet.name), HeaderLine(sheet.lines, SheetType(sheet.name)))

\* The rows of a sheet: one for every line that gives one, in the order of the
\* lines; the header is a line and none of them.
LEMMA SheetsAreRead ==
  ASSUME NEW sheet \in Sheet
  PROVE  /\ ParseSheet(sheet) \in Seq(Rows)
         /\ Enumerates(ParseSheet(sheet), LinesOf(sheet))
         /\ \A i \in Full(LinesOf(sheet)) : HeaderLine(sheet.lines, SheetType(sheet.name)) \in 1..(i - 1)
  <1> DEFINE type == SheetType(sheet.name)
             top == HeaderLine(sheet.lines, type)
             rows == RowsOf(sheet.lines, type, top)
  <1>1. sheet.lines \in Seq(Seq(Cells))
    BY DEF Sheet
  <1>2. CASE sheet.lines = <<>>
    <2>1. ParseSheet(sheet) = <<>> /\ LinesOf(sheet) = <<>> /\ Full(<<>>) = {}
      BY <1>2 DEF ParseSheet, LinesOf, Full
    <2>2. Cardinality({}) = 0
      BY FS_EmptySet
    <2>3. Enumerates(<<>>, <<>>)
      <3>1. DOMAIN <<>> = {} /\ Len(<<>>) = 0
        OBVIOUS
      <3> QED
        BY <3>1, <2>1, <2>2 DEF Enumerates
    <2> QED
      BY <2>1, <2>3, EmptySeq
  <1>3. CASE sheet.lines # <<>>
    <2>1. type \in DOMAIN Anchors
      BY StatusesInferred
    <2>2. top \in DOMAIN sheet.lines
      BY <1>1, <1>3, <2>1, HeaderIsLine
    <2>3. Len(sheet.lines) \in Nat /\ DOMAIN sheet.lines = 1..Len(sheet.lines)
      BY <1>1, LenProperties
    <2>4. /\ DOMAIN rows = 1..Len(sheet.lines)
          /\ \A i \in 1..Len(sheet.lines) : rows[i] = RowAt(sheet.lines, i, type, top)
      BY <2>3 DEF RowsOf
    <2>5. ASSUME NEW i \in 1..Len(sheet.lines)
          PROVE  AtMostOne(Rows, rows[i])
      <3> HIDE DEF rows, top, type
      <3>1. AtMostOne(Rows, RowAt(sheet.lines, i, type, top))
        BY <1>1, <2>2, <2>3, RowsTyped
      <3> QED
        BY <3>1, <2>4
    <2>6. ParseSheet(sheet) = InOrder(rows) /\ LinesOf(sheet) = rows
      BY <1>3 DEF ParseSheet, LinesOf
    <2>7. ASSUME NEW i \in Full(rows) PROVE top \in 1..(i - 1)
      <3>1. i \in 1..Len(sheet.lines) /\ ~(i <= top)
        BY <2>4 DEF Full, RowAt
      <3> QED
        BY <3>1, <2>2, <2>3
    <2> HIDE DEF rows, top, type
    <2>8. Giving(Rows, rows)
      BY <2>3, <2>4, <2>5 DEF Giving
    <2>9. InOrder(rows) \in Seq(Rows) /\ Enumerates(InOrder(rows), rows)
      BY <2>8, LaidOut
    <2> QED
      BY <2>6, <2>7, <2>9 DEF top, type
  <1> QED
    BY <1>2, <1>3

\* The headers under which a line has its asset number, as each kind of row has
\* them, and the asset number of a line.
AssetHeads(type) ==
    CASE type = "rented" -> <<"asset id", "asset number", "asset no">>
      [] type \in {"smart", "tv"} -> <<"asst id", "asset id", "asset number">>
      [] OTHER -> <<"asset number", "asset no", "asset #">>

AssetAt(sheet, i) ==
    LET type == SheetType(sheet.name)
        top == HeaderLine(sheet.lines, type)
    IN  Col(sheet.lines[i], sheet.lines[top], AssetHeads(type))

\* A line of the sheet of smart devices whose model has a sheet of its own.
BelongsElsewhere(sheet, i) ==
    LET top == HeaderLine(sheet.lines, "smart")
        model == Col(sheet.lines[i], sheet.lines[top], <<"device">>)
    IN  SheetType(sheet.name) = "smart" /\ model # Blank /\ SmartCategory(model) = "elsewhere"

\* A column that is not blank is a cell of the line that is filled.
LEMMA ColIsFilled ==
  ASSUME NEW line, NEW header, NEW candidates, DOMAIN candidates \subseteq Nat,
         Col(line, header, candidates) # Blank
  PROVE  Filled(line) # {}
  <1> DEFINE under(c) == {i \in DOMAIN header : c \in Words[header[i]]}
             hits == {k \in DOMAIN candidates : under(candidates[k]) # {}
                                                /\ Lowest(under(candidates[k])) \in DOMAIN line}
             at == Lowest(under(candidates[Lowest(hits)]))
  <1>1. Col(line, header, candidates) = IF hits = {} THEN Blank ELSE line[at]
    BY DEF Col
  <1>2. hits # {} /\ line[at] # Blank
    BY <1>1
  <1>3. Lowest(hits) \in hits
    BY <1>2, LowestOf
  <1>4. at \in DOMAIN line
    BY <1>3
  <1> HIDE DEF at
  <1> QED
    BY <1>2, <1>4 DEF Filled

\* A line with an asset number gives a row with that number, whatever else it
\* lacks, unless it belongs on another sheet.
LEMMA NumberedGives ==
  ASSUME NEW lines, NEW type, NEW top, NEW i, ~(i <= top), NEW asset,
         asset = Col(lines[i], lines[top], AssetHeads(type)), asset # Blank,
         type = "smart" => LET model == Col(lines[i], lines[top], <<"device">>)
                           IN  model = Blank \/ SmartCategory(model) # "elsewhere"
  PROVE  \E r : RowAt(lines, i, type, top) = {r} /\ r.asset = asset
  <1> DEFINE line == lines[i]
             header == lines[top]
  <1>1. Filled(line) # {}
    <2>1. DOMAIN AssetHeads(type) \subseteq Nat
      <3>1. PICK a, b, c : AssetHeads(type) = <<a, b, c>>
        BY DEF AssetHeads
      <3>2. DOMAIN <<a, b, c>> \subseteq Nat
        OBVIOUS
      <3> QED
        BY <3>1, <3>2
    <2> QED
      BY <2>1, ColIsFilled
  <1>2. ASSUME NEW serial, NEW t, NEW status, NEW dropped \in BOOLEAN, ~dropped
        PROVE  \E r : Row(asset, serial, t, status, dropped) = {r} /\ r.asset = asset
    <2> DEFINE r == [asset |-> asset, serial |-> serial, type |-> t, status |-> status]
    <2>1. Row(asset, serial, t, status, dropped) = {r}
      BY <1>2 DEF Row
    <2>2. r.asset = asset
      OBVIOUS
    <2> HIDE DEF r
    <2> QED
      BY <2>1, <2>2
  <1>3. CASE type = "rented"
    <2> DEFINE serial == Col(line, header, <<"service tag", "serial number", "serial no">>)
               status == ClassifyStatus(Col(line, header, <<"rental status", "status">>))
               dropped == {asset, serial, Col(line, header, <<"asset make", "make">>),
                           Col(line, header, <<"asset type">>)} = {Blank}
    <2>1. asset = Col(line, header, <<"asset id", "asset number", "asset no">>)
      BY <1>3 DEF AssetHeads
    <2>2. RentedRow(line, header) = Row(asset, serial, "Laptop", status, dropped)
      BY <2>1 DEF RentedRow
    <2>3. dropped \in BOOLEAN /\ ~dropped
      OBVIOUS
    <2>4. RowAt(lines, i, type, top) = RentedRow(line, header)
      BY <1>1, <1>3 DEF RowAt
    <2> HIDE DEF serial, status, dropped
    <2> QED
      BY <2>2, <2>3, <2>4, <1>2
  <1>4. CASE type = "smart"
    <2> DEFINE model == Col(line, header, <<"device">>)
               category == IF model = Blank THEN "Mobile" ELSE SmartCategory(model)
               serial == Col(line, header, <<"model no">>)
               status == ClassifySmartStatus(Col(line, header, <<"asset status">>))
               dropped == {asset, model} = {Blank} \/ category = "elsewhere"
    <2>1. asset = Col(line, header, <<"asst id", "asset id", "asset number">>)
      BY <1>4 DEF AssetHeads
    <2>2. SmartDeviceRow(line, header) = Row(asset, serial, category, status, dropped)
      BY <2>1 DEF SmartDeviceRow
    <2>3. category # "elsewhere"
      BY <1>4
    <2>4. dropped \in BOOLEAN /\ ~dropped
      <3> HIDE DEF category, model
      <3> QED
        BY <2>3
    <2>5. RowAt(lines, i, type, top) = SmartDeviceRow(line, header)
      BY <1>1, <1>4 DEF RowAt
    <2> HIDE DEF model, category, serial, status, dropped
    <2> QED
      BY <2>2, <2>4, <2>5, <1>2
  <1>5. CASE type = "tv"
    <2> DEFINE model == Col(line, header, <<"device">>)
               serial == Col(line, header, <<"model no">>)
               status == ClassifySmartStatus(Col(line, header, <<"asset status">>))
               dropped == asset = Blank /\ (model = Blank \/ Words[model] \cap {"total", "count"} # {})
    <2>1. asset = Col(line, header, <<"asst id", "asset id", "asset number">>)
      BY <1>5 DEF AssetHeads
    <2>2. TVRow(line, header) = Row(asset, serial, TVType(asset, model), status, dropped)
      BY <2>1 DEF TVRow
    <2>3. dropped \in BOOLEAN /\ ~dropped
      OBVIOUS
    <2>4. RowAt(lines, i, type, top) = TVRow(line, header)
      BY <1>1, <1>5 DEF RowAt
    <2> HIDE DEF model, serial, status, dropped
    <2> QED
      BY <2>2, <2>3, <2>4, <1>2
  <1>6. CASE type \notin {"rented", "smart", "tv"}
    <2> DEFINE serial == Col(line, header, <<"service tag", "serial number", "serial no">>)
               model == Col(line, header, <<"model">>)
               category == Col(line, header, <<"asset category", "category">>)
               hint == IF category # Blank THEN category ELSE model
               status == ClassifyStatus(Col(line, header, <<"status">>))
               user == Col(line, header, <<"user name/type", "user name", "username", "user">>)
               dropped == {asset, serial, model, user} = {Blank}
    <2>1. asset = Col(line, header, <<"asset number", "asset no", "asset #">>)
      BY <1>6 DEF AssetHeads
    <2>2. LaptopRow(line, header) = Row(asset, serial, InferType(hint), status, dropped)
      BY <2>1 DEF LaptopRow
    <2>3. dropped \in BOOLEAN /\ ~dropped
      OBVIOUS
    <2>4. RowAt(lines, i, type, top) = LaptopRow(line, header)
      BY <1>1, <1>6 DEF RowAt
    <2> HIDE DEF serial, model, category, hint, status, user, dropped
    <2> QED
      BY <2>2, <2>3, <2>4, <1>2
  <1> QED
    BY <1>3, <1>4, <1>5, <1>6

\* No device that a sheet numbers is lost in parsing: every line below the header
\* with an asset number is a row with that number, of a type and a status the
\* import knows and after the rows of the lines above it, whatever else the line
\* lacks; but for a line among the smart devices whose model the parser leaves to
\* another sheet (device-import.parser.ts).
THEOREM NumberedLinesAreRead ==
  ASSUME NEW sheet \in Sheet, NEW i \in DOMAIN sheet.lines,
         HeaderLine(sheet.lines, SheetType(sheet.name)) < i,
         AssetAt(sheet, i) # Blank, ~BelongsElsewhere(sheet, i)
  PROVE  LET k == Rank(Full(LinesOf(sheet)), i)
         IN  /\ k \in DOMAIN ParseSheet(sheet) /\ ParseSheet(sheet)[k] \in Rows
             /\ ParseSheet(sheet)[k].asset = AssetAt(sheet, i)
             /\ \A j \in Full(LinesOf(sheet)) : j < i => Rank(Full(LinesOf(sheet)), j) < k
  <1> DEFINE type == SheetType(sheet.name)
             top == HeaderLine(sheet.lines, type)
             rows == LinesOf(sheet)
             out == ParseSheet(sheet)
             k == Rank(Full(rows), i)
  <1>1. sheet.lines \in Seq(Seq(Cells)) /\ sheet.lines # <<>> /\ i \in Nat
    <2>1. sheet.lines \in Seq(Seq(Cells))
      BY DEF Sheet
    <2>2. Len(sheet.lines) \in Nat /\ DOMAIN sheet.lines = 1..Len(sheet.lines)
      BY <2>1, LenProperties
    <2> QED
      BY <2>1, <2>2
  <1>2. top \in Nat /\ ~(i <= top)
    <2>1. type \in DOMAIN Anchors
      BY StatusesInferred
    <2>2. top \in DOMAIN sheet.lines
      BY <1>1, <2>1, HeaderIsLine
    <2>3. top \in Nat
      BY <1>1, <2>2, LenProperties
    <2> HIDE DEF top
    <2> QED
      BY <1>1, <2>3 DEF top
  <1>3. PICK r : RowAt(sheet.lines, i, type, top) = {r} /\ r.asset = AssetAt(sheet, i)
    <2>1. type = "smart" => LET model == Col(sheet.lines[i], sheet.lines[top], <<"device">>)
                            IN  model = Blank \/ SmartCategory(model) # "elsewhere"
      BY DEF BelongsElsewhere
    <2>2. AssetAt(sheet, i) = Col(sheet.lines[i], sheet.lines[top], AssetHeads(type))
      BY DEF AssetAt
    <2> HIDE DEF type, top
    <2> QED
      BY <1>2, <2>1, <2>2, NumberedGives
  <1>4. rows = RowsOf(sheet.lines, type, top)
    BY <1>1 DEF LinesOf
  <1>5. out \in Seq(Rows) /\ Enumerates(out, rows)
    BY SheetsAreRead
  <1> HIDE DEF type, top, rows, out
  <1>6. i \in Full(rows) /\ rows[i] = {r}
    BY <1>3, <1>4 DEF Full, RowsOf
  <1>7. k \in DOMAIN out /\ out[k] = r
    BY <1>5, <1>6 DEF Enumerates
  <1>8. out[k] \in Rows
    BY <1>5, <1>7
  <1>9. \A j \in Full(rows) : j < i => Rank(Full(rows), j) < k
    BY <1>5, <1>6 DEF Enumerates
  <1> QED
    BY <1>3, <1>7, <1>8, <1>9 DEF rows, out

\* What the import reads out of the workbooks.
LEMMA ParsedFits ==
  Parsed \in [Files -> Seq(Seq(Rows))] /\ \A f \in Files : Parsed[f] # <<>>
  <1>1. ASSUME NEW f \in Files PROVE Parsed[f] \in Seq(Seq(Rows)) /\ Parsed[f] # <<>>
    <2> DEFINE sheets == Workbook[f]
    <2>1. sheets \in Seq(Sheet) /\ sheets # <<>>
      BY ImportAssumption
    <2>2. Parsed[f] = [s \in DOMAIN sheets |-> ParseSheet(sheets[s])]
      BY DEF Parsed, Parse
    <2> HIDE DEF sheets
    <2>3. Len(sheets) \in Nat \ {0} /\ DOMAIN sheets = 1..Len(sheets)
      BY <2>1, LenProperties, EmptySeq
    <2>4. \A s \in DOMAIN sheets : sheets[s] \in Sheet
      BY <2>1, ElementOfSeq, <2>3
    <2>5. \A s \in DOMAIN sheets : ParseSheet(sheets[s]) \in Seq(Rows)
      BY <2>4, SheetsAreRead
    <2>6. Parsed[f] \in [1..Len(sheets) -> Seq(Rows)] /\ 1 \in DOMAIN Parsed[f]
      BY <2>2, <2>3, <2>5
    <2>7. Parsed[f] \in Seq(Seq(Rows))
      BY <2>3, <2>6, SeqDef
    <2> QED
      BY <2>6, <2>7
  <1> QED
    BY <1>1 DEF Parsed

-----------------------------------------------------------------------------
(* Rows and texts.                                                         *)

LEMMA RowsAreRead ==
  ASSUME NEW f \in Files, NEW s \in DOMAIN Parsed[f], NEW i \in DOMAIN Parsed[f][s]
  PROVE  /\ Parsed[f][s] \in Seq(Rows)
         /\ Parsed[f][s][i] \in Rows /\ Parsed[f][s][i] \in AllRows
         /\ <<s, i>> \in PlacesOf(f) /\ At(f, <<s, i>>) = Parsed[f][s][i]
  <1>1. Parsed[f] \in Seq(Seq(Rows))
    BY ParsedFits
  <1>2. Parsed[f][s] \in Seq(Rows)
    BY <1>1
  <1>3. Parsed[f][s][i] \in Rows
    BY <1>2
  <1>4. <<s, i>> \in PlacesOf(f)
    BY DEF PlacesOf
  <1>5. At(f, <<s, i>>) = Parsed[f][s][i]
    BY DEF At
  <1> QED
    BY <1>2, <1>3, <1>4, <1>5 DEF AllRows

LEMMA PlacesAreRows ==
  ASSUME NEW f \in Files, NEW h \in PlacesOf(f)
  PROVE  /\ h[1] \in DOMAIN Parsed[f] /\ h[2] \in DOMAIN Parsed[f][h[1]] /\ h = <<h[1], h[2]>>
         /\ At(f, h) \in Rows /\ At(f, h) \in AllRows
  <1>1. PICK s \in DOMAIN Parsed[f] : h \in {<<s, i>> : i \in DOMAIN Parsed[f][s]}
    BY DEF PlacesOf
  <1>2. PICK i \in DOMAIN Parsed[f][s] : h = <<s, i>>
    BY <1>1
  <1> QED
    BY <1>2, RowsAreRead

LEMMA AllRowsAreRows == AllRows \subseteq Rows
  BY PlacesAreRows DEF AllRows

\* Texts that are the same are not empty.
LEMMA SameIsText ==
  ASSUME NEW t \in Cells, NEW v \in Cells, Same(t, v)
  PROVE  t # Blank /\ v # Blank /\ Same(v, t) /\ Same(t, t)
  <1>1. t # Blank /\ Folded[t] = Folded[v]
    BY DEF Same
  <1>2. Folded[t] # Folded[Blank]
    BY <1>1, ImportAssumption
  <1> QED
    BY <1>1, <1>2 DEF Same

LEMMA SameAsSame ==
  ASSUME NEW t \in Cells, NEW v \in Cells, NEW w \in Cells, Same(t, v), Same(w, v)
  PROVE  Same(t, w)
  BY DEF Same

\* No row without asset number gives the serial number of one that has one.
LEMMA RowsApart ==
  ASSUME Apart, NEW r \in AllRows, NEW q \in AllRows, r.asset = Blank, q.asset # Blank
  PROVE  ~Same(r.serial, q.serial)
  BY DEF Apart, AllRows

-----------------------------------------------------------------------------
(* Writing to the register.                                                *)

\* A device that a row finds is overwritten with the row.
LEMMA UpdateKeeps ==
  ASSUME Apart, NEW devices, Orderly(devices), NEW q \in AllRows, NEW d \in Finds(devices, q),
         NEW new, new = [devices EXCEPT ![d] = RowToSpec(q)]
  PROVE  Orderly(new) /\ Keeps(devices, new)
  <1>1. d \in DOMAIN devices /\ devices[d] \in Device
    BY DEF Finds, Orderly
  <1>2. q \in Rows
    BY AllRowsAreRows
  <1>3. RowToSpec(q) \in Device /\ RowToSpec(q).asset = q.asset /\ RowToSpec(q).serial = q.serial
    BY <1>2 DEF RowToSpec, Rows, Device
  <1>4. DOMAIN new = DOMAIN devices /\ \A e \in DOMAIN new : new[e] = IF e = d THEN RowToSpec(q) ELSE devices[e]
    BY <1>1
  <1>5. Orderly(new)
    <2>1. new \in [DOMAIN new -> Device]
      BY <1>3, <1>4 DEF Orderly
    <2>2. DOMAIN new \subseteq DeviceId /\ Numbered(new)
      BY <1>4 DEF Orderly, Numbered
    <2>3. ASSUME NEW row \in AllRows, NEW e \in DOMAIN new, row.asset = Blank, new[e].asset # Blank
          PROVE  ~Same(row.serial, new[e].serial)
      <3>1. CASE e = d
        BY <3>1, <1>3, <1>4, <2>3, RowsApart
      <3>2. CASE e # d
        BY <3>2, <1>4, <2>3 DEF Orderly
      <3> QED
        BY <3>1, <3>2
    <2> QED
      BY <2>1, <2>2, <2>3 DEF Orderly
  <1>6. ASSUME NEW row \in AllRows, NEW e \in Finds(devices, row)
        PROVE  e \in Finds(new, row)
    <2>1. e \in DOMAIN devices
      BY DEF Finds
    <2>2. CASE e # d
      BY <2>1, <2>2, <1>4 DEF Finds
    <2>3. CASE e = d
      <3>1. row \in Rows
        BY AllRowsAreRows
      <3>2. /\ row.asset \in Cells /\ row.serial \in Cells /\ q.asset \in Cells /\ q.serial \in Cells
            /\ devices[d].asset \in Cells /\ devices[d].serial \in Cells
        BY <1>1, <1>2, <3>1 DEF Rows, Device
      <3>3. \/ Same(row.asset, devices[d].asset)
            \/ row.asset = Blank /\ Same(row.serial, devices[d].serial)
        BY <2>3 DEF Finds
      <3>4. \/ Same(q.asset, devices[d].asset)
            \/ q.asset = Blank /\ Same(q.serial, devices[d].serial)
        BY DEF Finds
      <3>5. CASE devices[d].asset = Blank
        <4>1. row.asset = Blank /\ Same(row.serial, devices[d].serial)
          BY <3>2, <3>3, <3>5, SameIsText
        <4>2. q.asset = Blank /\ Same(q.serial, devices[d].serial)
          BY <3>2, <3>4, <3>5, SameIsText
        <4>3. Same(row.serial, q.serial)
          BY <3>2, <4>1, <4>2, SameAsSame
        <4> QED
          BY <4>1, <4>3, <2>1, <2>3, <1>3, <1>4 DEF Finds
      <3>6. CASE devices[d].asset # Blank
        <4>1. Same(row.asset, devices[d].asset) /\ Same(q.asset, devices[d].asset)
          BY <1>1, <3>3, <3>4, <3>6 DEF Orderly
        <4>2. Same(row.asset, q.asset)
          BY <3>2, <4>1, SameAsSame
        <4> QED
          BY <4>2, <2>1, <2>3, <1>3, <1>4 DEF Finds
      <3> QED
        BY <3>5, <3>6
    <2> QED
      BY <2>2, <2>3
  <1> QED
    BY <1>5, <1>6 DEF Keeps

\* A device is added under an id that is free.
LEMMA CreateKeeps ==
  ASSUME NEW devices, Orderly(devices), NEW id \in DeviceId, id \notin DOMAIN devices, NEW v \in Device,
         \A row \in AllRows : row.asset = Blank /\ v.asset # Blank => ~Same(row.serial, v.serial),
         NEW new, new = [d \in DOMAIN devices \cup {id} |-> IF d = id THEN v ELSE devices[d]]
  PROVE  Orderly(new) /\ Keeps(devices, new)
  <1>1. /\ DOMAIN new = DOMAIN devices \cup {id}
        /\ new[id] = v /\ \A e \in DOMAIN devices : new[e] = devices[e]
    OBVIOUS
  <1>2. new \in [DOMAIN new -> Device] /\ DOMAIN new \subseteq DeviceId
    BY <1>1 DEF Orderly
  <1>3. Numbered(new)
    <2>1. ASSUME NEW d \in DOMAIN new
          PROVE  \E last \in DOMAIN new :
                     last[1] = d[1] /\ \A e \in DOMAIN new : e[1] = d[1] => e[2] <= last[2]
      <3>1. \A e \in DOMAIN new : e[2] \in Nat
        BY <1>2 DEF DeviceId
      <3>2. CASE \E e \in DOMAIN devices : e[1] = d[1]
        <4>1. PICK last \in DOMAIN devices :
                  last[1] = d[1] /\ \A e \in DOMAIN devices : e[1] = d[1] => e[2] <= last[2]
          BY <3>2 DEF Orderly, Numbered
        <4>2. CASE id[1] = d[1] /\ id[2] > last[2]
          BY <1>1, <3>1, <4>1, <4>2
        <4>3. CASE ~(id[1] = d[1] /\ id[2] > last[2])
          BY <1>1, <3>1, <4>1, <4>3
        <4> QED
          BY <4>2, <4>3
      <3>3. CASE ~\E e \in DOMAIN devices : e[1] = d[1]
        BY <1>1, <3>1, <3>3
      <3> QED
        BY <3>2, <3>3
    <2> QED
      BY <2>1 DEF Numbered
  <1>4. \A row \in AllRows, d \in DOMAIN new :
            row.asset = Blank /\ new[d].asset # Blank => ~Same(row.serial, new[d].serial)
    BY <1>1 DEF Orderly
  <1>5. Keeps(devices, new)
    BY <1>1 DEF Keeps, Finds
  <1> QED
    BY <1>2, <1>3, <1>4, <1>5 DEF Orderly

\* The next id of a type is free.
LEMMA NextIdIsFree ==
  ASSUME Orderly(register), NEW type \in Types
  PROVE  NextId(type) \in DeviceId /\ NextId(type) \notin DOMAIN register
  <1> DEFINE numbers == {d[2] : d \in {e \in DOMAIN register : e[1] = type}}
             top == CHOOSE n \in numbers : \A m \in numbers : m <= n
  <1>1. NextId(type) = <<type, 1 + (IF numbers = {} THEN 0 ELSE top)>>
    BY DEF NextId
  <1>2. \A d \in DOMAIN register : d \in DeviceId /\ d[2] \in Nat /\ (d[1] = type => d[2] \in numbers)
    BY DEF Orderly, DeviceId
  <1>3. CASE numbers = {}
    BY <1>1, <1>2, <1>3 DEF DeviceId
  <1>4. CASE numbers # {}
    <2>1. PICK d \in DOMAIN register : d[1] = type
      BY <1>4
    <2>2. PICK last \in DOMAIN register :
              last[1] = d[1] /\ \A e \in DOMAIN register : e[1] = d[1] => e[2] <= last[2]
      BY DEF Orderly, Numbered
    <2>3. last[2] \in numbers /\ \A m \in numbers : m <= last[2]
      BY <2>1, <2>2
    <2>4. top \in numbers /\ \A m \in numbers : m <= top
      BY <2>3
    <2>5. top \in Nat
      BY <2>4, <1>2
    <2> HIDE DEF top
    <2>6. 1 + top \in Nat \ {0} /\ 1 + top \notin numbers
      BY <2>4, <2>5
    <2>7. NextId(type) = <<type, 1 + top>>
      BY <1>1, <1>4
    <2> QED
      BY <2>6, <2>7, <1>2 DEF DeviceId
  <1> QED
    BY <1>3, <1>4

-----------------------------------------------------------------------------
(* An import going through its file.                                       *)

\* What an import knows of its rows stays so whatever is written.
LEMMA SoundKept ==
  ASSUME NEW old, NEW new, Keeps(old, new), NEW u, Sound(old, u)
  PROVE  Sound(new, u)
  <1>1. CASE u.mode # "commit"
    BY <1>1 DEF Sound
  <1>2. CASE u.mode = "commit"
    <2>1. u \in Upload /\ InPlace(u) /\ u.file \in Files
      BY <1>2 DEF Sound, InPlace
    <2>2. \A i \in DOMAIN u.found : SheetOf(u)[i] \in AllRows
      <3>1. u.sheet \in DOMAIN Parsed[u.file] /\ SheetOf(u) = Parsed[u.file][u.sheet]
        BY <2>1 DEF InPlace, SheetOf
      <3>2. SheetOf(u) \in Seq(Rows)
        BY <2>1, <3>1, ParsedFits
      <3>3. u.found \in Seq(DeviceId \cup {NoDevice}) /\ Len(u.found) <= Len(SheetOf(u))
        BY <2>1 DEF Upload, InPlace
      <3>4. DOMAIN u.found \subseteq DOMAIN SheetOf(u)
        BY <3>2, <3>3
      <3> QED
        BY <2>1, <3>1, <3>4, RowsAreRead
    <2>3. LookedUpWell(new, u)
      BY <1>2, <2>2 DEF Sound, LookedUpWell, Keeps
    <2>4. \A h \in Named(u.file) : At(u.file, h) \in AllRows
      BY <2>1, PlacesAreRows DEF Named
    <2>5. Accounted(new, u)
      BY <1>2, <2>4 DEF Sound, Accounted, Settled, Keeps
    <2>6. NothingNew(new, u)
      BY <1>2, <2>4 DEF Sound, NothingNew, InRegister, Keeps
    <2> QED
      BY <1>2, <2>1, <2>3, <2>5, <2>6 DEF Sound
  <1> QED
    BY <1>1, <1>2

\* The row in hand.
LEMMA RowInHand ==
  ASSUME NEW devices, NEW u, Sound(devices, u), u.stage \in Writing
  PROVE  /\ u \in Upload /\ u.mode = "commit" /\ u.file \in Files /\ InPlace(u)
         /\ u.at \in DOMAIN SheetOf(u) /\ u.at \in DOMAIN u.found
         /\ RowOf(u) \in Rows /\ RowOf(u) \in AllRows
         /\ Here(u) \in PlacesOf(u.file) /\ At(u.file, Here(u)) = RowOf(u)
  <1>1. u \in Upload /\ u.mode = "commit"
    BY DEF Sound, Upload, Writing
  <1>2. u.file \in Files /\ InPlace(u) /\ u.sheets = Parsed[u.file] /\ u.sheet \in DOMAIN Parsed[u.file]
    BY <1>1 DEF Sound, InPlace
  <1>3. SheetOf(u) = Parsed[u.file][u.sheet] /\ SheetOf(u) \in Seq(Rows)
    BY <1>2, ParsedFits DEF SheetOf
  <1>4. u.found \in Seq(DeviceId \cup {NoDevice}) /\ Len(u.found) = Len(SheetOf(u)) /\ u.at \in DOMAIN u.found
    BY <1>1, <1>2 DEF Upload, InPlace
  <1>5. u.at \in DOMAIN SheetOf(u)
    BY <1>3, <1>4
  <1> QED
    BY <1>1, <1>2, <1>3, <1>4, <1>5, RowsAreRead DEF RowOf, Here

\* After a sheet whose named rows are all accounted for.
LEMMA SheetDone ==
  ASSUME NEW devices, NEW u, Sound(devices, u), u.mode = "commit",
         \A h \in Named(u.file) : h[1] <= u.sheet => Settled(devices, u, h)
  PROVE  Sound(devices, NextSheet(u))
  <1>1. u \in Upload /\ u.file \in Files /\ u.sheets = Parsed[u.file] /\ u.sheet \in DOMAIN u.sheets
    BY DEF Sound, InPlace
  <1>2. Parsed[u.file] \in Seq(Seq(Rows))
    BY <1>1, ParsedFits
  <1>3. NothingNew(devices, u)
    BY DEF Sound
  <1>4. \A h \in Named(u.file) : h[1] \in DOMAIN u.sheets
    BY <1>1, PlacesAreRows DEF Named
  <1>5. CASE u.sheet < Len(u.sheets)
    <2> DEFINE v == [u EXCEPT !.stage = "look", !.sheet = @ + 1, !.found = <<>>, !.at = 1, !.id = NoDevice]
    <2>1. /\ v.stage = "look" /\ v.mode = "commit" /\ v.file = u.file /\ v.sheets = u.sheets
          /\ v.sheet = u.sheet + 1 /\ v.found = <<>> /\ v.failed = u.failed /\ v.created = u.created
          /\ v.known = u.known /\ v.at = 1
      BY <1>1 DEF Upload
    <2>2. v \in Upload
      <3>1. u.sheet + 1 \in Nat \ {0} /\ 1 \in Nat \ {0} /\ <<>> \in Seq(DeviceId \cup {NoDevice})
        BY <1>1 DEF Upload
      <3> QED
        BY <1>1, <3>1 DEF Upload
    <2>3. NextSheet(u) = v
      BY <1>5 DEF NextSheet
    <2> HIDE DEF v
    <2>4. u.sheet + 1 \in DOMAIN u.sheets
      BY <1>1, <1>2, <1>5
    <2>5. SheetOf(v) \in Seq(Rows)
      BY <1>1, <1>2, <2>1, <2>4 DEF SheetOf
    <2>6. InPlace(v)
      BY <1>1, <2>1, <2>4, <2>5 DEF InPlace, Writing
    <2>7. LookedUpWell(devices, v)
      BY <2>1 DEF LookedUpWell
    <2>8. Accounted(devices, v)
      <3>1. ASSUME NEW h \in Named(v.file), Behind(v, h)
            PROVE  Settled(devices, v, h)
        <4>1. h[1] < u.sheet + 1
          BY <2>1, <3>1 DEF Behind, Writing
        <4>2. h[1] \in Nat /\ u.sheet \in Nat
          BY <1>1, <1>2, <1>4, <2>1
        <4>3. h[1] <= u.sheet
          BY <4>1, <4>2
        <4> QED
          BY <2>1, <4>3 DEF Settled
      <3> QED
        BY <3>1 DEF Accounted
    <2>9. NothingNew(devices, v)
      BY <1>3, <2>1 DEF NothingNew
    <2> QED
      BY <2>1, <2>2, <2>3, <2>6, <2>7, <2>8, <2>9 DEF Sound
  <1>6. CASE ~(u.sheet < Len(u.sheets))
    <2> DEFINE v == [u EXCEPT !.stage = "done", !.id = NoDevice]
    <2>1. /\ v.stage = "done" /\ v.mode = "commit" /\ v.file = u.file /\ v.sheets = u.sheets
          /\ v.sheet = u.sheet /\ v.found = u.found /\ v.failed = u.failed /\ v.created = u.created
          /\ v.known = u.known
      BY <1>1 DEF Upload
    <2>2. v \in Upload
      BY <1>1 DEF Upload
    <2>3. NextSheet(u) = v
      BY <1>6 DEF NextSheet
    <2> HIDE DEF v
    <2>4. InPlace(v)
      BY <2>1 DEF Sound, InPlace, SheetOf, Writing
    <2>5. LookedUpWell(devices, v)
      BY <2>1 DEF Sound, LookedUpWell, SheetOf
    <2>6. Accounted(devices, v)
      <3>1. ASSUME NEW h \in Named(v.file)
            PROVE  Settled(devices, v, h)
        <4>1. h[1] <= u.sheet
          BY <1>1, <1>2, <1>4, <1>6, <2>1
        <4> QED
          BY <2>1, <4>1 DEF Settled
      <3> QED
        BY <3>1 DEF Accounted
    <2>7. NothingNew(devices, v)
      BY <1>3, <2>1 DEF NothingNew
    <2> QED
      BY <1>1, <2>1, <2>2, <2>3, <2>4, <2>5, <2>6, <2>7 DEF Sound
  <1> QED
    BY <1>5, <1>6

\* After a row that is accounted for, if it names its device.
LEMMA RowDone ==
  ASSUME NEW devices, NEW u, Sound(devices, u), u.stage \in Writing,
         Here(u) \in Named(u.file) => Settled(devices, u, Here(u))
  PROVE  Sound(devices, NextRow(u))
  <1>1. u \in Upload /\ u.mode = "commit" /\ u.file \in Files /\ InPlace(u)
    BY RowInHand
  <1>2. u.at \in DOMAIN SheetOf(u) /\ SheetOf(u) \in Seq(Rows) /\ SheetOf(u) = Parsed[u.file][u.sheet]
    BY <1>1, RowInHand, ParsedFits DEF InPlace, SheetOf
  <1>3. Accounted(devices, u) /\ NothingNew(devices, u) /\ LookedUpWell(devices, u)
    BY <1>1 DEF Sound
  <1>4. \A h \in Named(u.file) : /\ h[1] \in Nat /\ h[2] \in Nat /\ h = <<h[1], h[2]>>
                                 /\ h[1] = u.sheet => h[2] <= Len(SheetOf(u))
    <2>1. SUFFICES ASSUME NEW h \in Named(u.file)
                   PROVE  /\ h[1] \in Nat /\ h[2] \in Nat /\ h = <<h[1], h[2]>>
                          /\ h[1] = u.sheet => h[2] <= Len(SheetOf(u))
      OBVIOUS
    <2>2. h[1] \in DOMAIN Parsed[u.file] /\ h[2] \in DOMAIN Parsed[u.file][h[1]] /\ h = <<h[1], h[2]>>
      BY <1>1, PlacesAreRows DEF Named
    <2>3. Parsed[u.file] \in Seq(Seq(Rows))
      BY <1>1, ParsedFits
    <2>4. Parsed[u.file][h[1]] \in Seq(Rows)
      BY <2>2, <2>3
    <2> QED
      BY <1>2, <2>2, <2>3, <2>4
  <1>5. u.at \in Nat /\ u.sheet \in Nat /\ Len(SheetOf(u)) \in Nat /\ u.at <= Len(SheetOf(u))
    BY <1>1, <1>2 DEF Upload
  <1>6. ASSUME NEW h \in Named(u.file), h[1] < u.sheet \/ (h[1] = u.sheet /\ h[2] <= u.at)
        PROVE  Settled(devices, u, h)
    <2>1. CASE h = Here(u)
      BY <2>1
    <2>2. CASE h # Here(u)
      <3>1. h[1] = u.sheet => h[2] # u.at
        BY <2>2, <1>4 DEF Here
      <3>2. Behind(u, h)
        BY <1>4, <1>5, <1>6, <3>1 DEF Behind
      <3> QED
        BY <1>3, <3>2 DEF Accounted
    <2> QED
      BY <2>1, <2>2
  <1>7. CASE u.at < Len(SheetOf(u))
    <2> DEFINE v == [u EXCEPT !.stage = "write", !.at = @ + 1, !.id = NoDevice]
    <2>1. /\ v.stage = "write" /\ v.mode = "commit" /\ v.file = u.file /\ v.sheets = u.sheets
          /\ v.sheet = u.sheet /\ v.found = u.found /\ v.failed = u.failed /\ v.created = u.created
          /\ v.known = u.known /\ v.at = u.at + 1
      BY <1>1 DEF Upload
    <2>2. v \in Upload
      <3>1. u.at + 1 \in Nat \ {0}
        BY <1>5
      <3> QED
        BY <1>1, <3>1 DEF Upload
    <2>3. NextRow(u) = v
      BY <1>7 DEF NextRow
    <2> HIDE DEF v
    <2>4. InPlace(v)
      <3>1. Len(u.found) = Len(SheetOf(u)) /\ u.found \in Seq(DeviceId \cup {NoDevice})
        BY <1>1 DEF InPlace, Upload
      <3>2. u.at + 1 \in DOMAIN u.found
        BY <1>5, <1>7, <3>1
      <3> QED
        BY <1>1, <2>1, <3>1, <3>2 DEF InPlace, SheetOf
    <2>5. LookedUpWell(devices, v)
      BY <1>3, <2>1 DEF LookedUpWell, SheetOf
    <2>6. Accounted(devices, v)
      <3>1. ASSUME NEW h \in Named(v.file), Behind(v, h)
            PROVE  Settled(devices, v, h)
        <4>1. h[1] < u.sheet \/ (h[1] = u.sheet /\ h[2] < u.at + 1)
          BY <2>1, <3>1 DEF Behind
        <4>2. h[1] < u.sheet \/ (h[1] = u.sheet /\ h[2] <= u.at)
          BY <1>4, <1>5, <2>1, <4>1
        <4> QED
          BY <1>6, <2>1, <4>2 DEF Settled
      <3> QED
        BY <3>1 DEF Accounted
    <2>7. NothingNew(devices, v)
      BY <1>3, <2>1 DEF NothingNew
    <2> QED
      BY <2>1, <2>2, <2>3, <2>4, <2>5, <2>6, <2>7 DEF Sound
  <1>8. CASE ~(u.at < Len(SheetOf(u)))
    <2>1. NextRow(u) = NextSheet(u)
      BY <1>8 DEF NextRow
    <2>2. ASSUME NEW h \in Named(u.file), h[1] <= u.sheet
          PROVE  Settled(devices, u, h)
      <3>1. h[1] = u.sheet => h[2] <= u.at
        BY <1>4, <1>5, <1>8
      <3>2. h[1] < u.sheet \/ h[1] = u.sheet
        BY <1>4, <1>5, <2>2
      <3> QED
        BY <1>6, <3>1, <3>2
    <2> QED
      BY <1>1, <2>1, <2>2, SheetDone
  <1> QED
    BY <1>7, <1>8

\* A row that goes into the report.
LEMMA RowReported ==
  ASSUME NEW devices, NEW u, Sound(devices, u), u.stage \in Writing
  PROVE  Sound(devices, Report(u))
  <1> DEFINE v == [u EXCEPT !.failed = @ \cup {Here(u)}]
  <1>1. u \in Upload /\ u.mode = "commit" /\ u.file \in Files /\ InPlace(u)
    BY RowInHand
  <1>2. /\ v.stage = u.stage /\ v.mode = u.mode /\ v.file = u.file /\ v.sheets = u.sheets
        /\ v.sheet = u.sheet /\ v.found = u.found /\ v.failed = u.failed \cup {Here(u)}
        /\ v.created = u.created /\ v.known = u.known /\ v.at = u.at /\ v.id = u.id
    BY <1>1 DEF Upload
  <1>3. Here(u) \in Nat \X Nat
    BY <1>1 DEF Here, Upload
  <1>4. v \in Upload
    BY <1>1, <1>3 DEF Upload
  <1>5. Report(u) = NextRow(v)
    BY DEF Report
  <1> HIDE DEF v
  <1>6. InPlace(v)
    BY <1>1, <1>2 DEF InPlace, SheetOf
  <1>7. LookedUpWell(devices, v) /\ NothingNew(devices, v)
    BY <1>1, <1>2 DEF Sound, LookedUpWell, NothingNew, SheetOf
  <1>8. Accounted(devices, v)
    BY <1>1, <1>2 DEF Sound, Accounted, Settled, Behind, Here
  <1>9. Sound(devices, v)
    BY <1>1, <1>2, <1>4, <1>6, <1>7, <1>8 DEF Sound
  <1>10. v.stage \in Writing /\ Settled(devices, v, Here(v))
    BY <1>2 DEF Settled, Here
  <1> QED
    BY <1>5, <1>9, <1>10, RowDone

-----------------------------------------------------------------------------
(* The steps of a commit.                                                  *)

\* A row is looked up.
LEMMA RowLookedUp ==
  ASSUME NEW devices, Orderly(devices), NEW u, Sound(devices, u), u.stage = "look",
         Len(u.found) < Len(SheetOf(u)),
         NEW row, row = SheetOf(u)[Len(u.found) + 1],
         NEW d \in IF Finds(devices, row) = {} THEN {NoDevice} ELSE Finds(devices, row)
  PROVE  Sound(devices, [u EXCEPT !.found = Append(@, d)])
  <1> DEFINE v == [u EXCEPT !.found = Append(@, d)]
             n == Len(u.found) + 1
  <1>1. u \in Upload /\ u.mode = "commit" /\ u.file \in Files /\ InPlace(u)
    BY DEF Sound, InPlace, Upload
  <1>2. /\ v.stage = "look" /\ v.mode = u.mode /\ v.file = u.file /\ v.sheets = u.sheets
        /\ v.sheet = u.sheet /\ v.found = Append(u.found, d) /\ v.failed = u.failed
        /\ v.created = u.created /\ v.known = u.known /\ v.at = u.at /\ v.id = u.id
    BY <1>1 DEF Upload
  <1>3. d \in DeviceId \cup {NoDevice} /\ (d # NoDevice => d \in Finds(devices, row))
    BY DEF Orderly, Finds
  <1>4. u.found \in Seq(DeviceId \cup {NoDevice})
    BY <1>1 DEF Upload
  <1>5. /\ Append(u.found, d) \in Seq(DeviceId \cup {NoDevice})
        /\ Len(Append(u.found, d)) = n /\ Append(u.found, d)[n] = d
        /\ DOMAIN Append(u.found, d) = 1..n
        /\ \A i \in 1..Len(u.found) : Append(u.found, d)[i] = u.found[i]
    BY <1>3, <1>4, AppendProperties
  <1>6. v \in Upload
    BY <1>1, <1>2, <1>5 DEF Upload
  <1> HIDE DEF v
  <1>7. SheetOf(u) = Parsed[u.file][u.sheet] /\ SheetOf(u) \in Seq(Rows) /\ SheetOf(v) = SheetOf(u)
    BY <1>1, <1>2, ParsedFits DEF SheetOf, InPlace
  <1>8. n \in DOMAIN SheetOf(u)
    BY <1>4, <1>7
  <1>9. InPlace(v)
    BY <1>1, <1>2, <1>4, <1>5, <1>7 DEF InPlace, Writing
  <1>10. d = NoDevice /\ u.known => <<u.sheet, n>> \notin Named(u.file)
    <2>1. SUFFICES ASSUME d = NoDevice, u.known, <<u.sheet, n>> \in Named(u.file)
                   PROVE  FALSE
      OBVIOUS
    <2>2. At(u.file, <<u.sheet, n>>) = row
      BY <1>1, <1>7, <1>8, RowsAreRead DEF InPlace
    <2>3. Finds(devices, row) # {}
      BY <1>1, <2>1, <2>2 DEF Sound, NothingNew, InRegister
    <2>4. d \in DeviceId
      BY <2>3 DEF Orderly, Finds
    <2> QED
      BY <2>1, <2>4, ImportAssumption
  <1>11. LookedUpWell(devices, v)
    <2>1. ASSUME NEW i \in DOMAIN v.found
          PROVE  /\ v.found[i] # NoDevice => v.found[i] \in Finds(devices, SheetOf(v)[i])
                 /\ v.found[i] = NoDevice /\ v.known => <<v.sheet, i>> \notin Named(v.file)
      <3>1. i \in 1..n
        BY <1>2, <1>5
      <3>2. CASE i = n
        BY <1>2, <1>3, <1>5, <1>7, <1>10, <3>2
      <3>3. CASE i # n
        <4>1. i \in 1..Len(u.found) /\ i \in DOMAIN u.found
          BY <1>4, <3>1, <3>3
        <4> QED
          BY <1>1, <1>2, <1>5, <1>7, <4>1 DEF Sound, LookedUpWell
      <3> QED
        BY <3>2, <3>3
    <2> QED
      BY <2>1 DEF LookedUpWell
  <1>12. Accounted(devices, v) /\ NothingNew(devices, v)
    BY <1>1, <1>2 DEF Sound, Accounted, Behind, Settled, NothingNew, Writing
  <1>13. Sound(devices, v)
    BY <1>1, <1>2, <1>6, <1>9, <1>11, <1>12 DEF Sound
  <1> QED
    BY <1>13 DEF v

\* All rows of a sheet are looked up.
LEMMA SheetLookedUp ==
  ASSUME NEW devices, NEW u, Sound(devices, u), u.stage = "look", Len(u.found) = Len(SheetOf(u))
  PROVE  Sound(devices, IF SheetOf(u) # <<>> THEN [u EXCEPT !.stage = "write"] ELSE NextSheet(u))
  <1>1. u \in Upload /\ u.mode = "commit" /\ u.file \in Files /\ InPlace(u) /\ u.at = 1
    BY DEF Sound, InPlace, Upload
  <1>2. SheetOf(u) = Parsed[u.file][u.sheet] /\ SheetOf(u) \in Seq(Rows)
    BY <1>1, ParsedFits DEF SheetOf, InPlace
  <1>3. \A h \in Named(u.file) : /\ h[1] \in Nat /\ h[2] \in Nat \ {0}
                                 /\ h[1] = u.sheet => h[2] <= Len(SheetOf(u))
    <2>1. SUFFICES ASSUME NEW h \in Named(u.file)
                   PROVE  /\ h[1] \in Nat /\ h[2] \in Nat \ {0}
                          /\ h[1] = u.sheet => h[2] <= Len(SheetOf(u))
      OBVIOUS
    <2>2. h[1] \in DOMAIN Parsed[u.file] /\ h[2] \in DOMAIN Parsed[u.file][h[1]]
      BY <1>1, PlacesAreRows DEF Named
    <2>3. Parsed[u.file] \in Seq(Seq(Rows))
      BY <1>1, ParsedFits
    <2>4. Parsed[u.file][h[1]] \in Seq(Rows)
      BY <2>2, <2>3
    <2> QED
      BY <1>2, <2>2, <2>3, <2>4
  <1>4. u.sheet \in Nat /\ Accounted(devices, u)
    BY <1>1 DEF Sound, Upload
  <1>5. CASE SheetOf(u) # <<>>
    <2> DEFINE v == [u EXCEPT !.stage = "write"]
    <2>1. /\ v.stage = "write" /\ v.mode = u.mode /\ v.file = u.file /\ v.sheets = u.sheets
          /\ v.sheet = u.sheet /\ v.found = u.found /\ v.failed = u.failed
          /\ v.created = u.created /\ v.known = u.known /\ v.at = 1 /\ v.id = u.id
      BY <1>1 DEF Upload
    <2>2. v \in Upload
      BY <1>1 DEF Upload
    <2> HIDE DEF v
    <2>3. u.found \in Seq(DeviceId \cup {NoDevice})
      BY <1>1 DEF Upload
    <2>4. Len(SheetOf(u)) \in Nat \ {0}
      BY <1>2, <1>5
    <2>5. 1 \in DOMAIN u.found
      BY <2>3, <2>4
    <2>6. InPlace(v)
      BY <1>1, <2>1, <2>5 DEF InPlace, SheetOf
    <2>7. LookedUpWell(devices, v) /\ NothingNew(devices, v)
      BY <1>1, <2>1 DEF Sound, LookedUpWell, NothingNew, SheetOf
    <2>8. Accounted(devices, v)
      <3>1. ASSUME NEW h \in Named(v.file), Behind(v, h)
            PROVE  Settled(devices, v, h)
        <4>1. ~(h[2] < 1)
          BY <1>3, <2>1
        <4>2. h[1] < u.sheet
          BY <2>1, <3>1, <4>1 DEF Behind
        <4> QED
          BY <1>4, <2>1, <4>2 DEF Accounted, Behind, Settled
      <3> QED
        BY <3>1 DEF Accounted
    <2>9. Sound(devices, v)
      BY <1>1, <2>1, <2>2, <2>6, <2>7, <2>8 DEF Sound
    <2> QED
      BY <1>5, <2>9 DEF v
  <1>6. CASE SheetOf(u) = <<>>
    <2>1. ASSUME NEW h \in Named(u.file), h[1] <= u.sheet
          PROVE  Settled(devices, u, h)
      <3>1. h[1] < u.sheet
        BY <1>3, <1>4, <1>6, <2>1
      <3> QED
        BY <1>4, <3>1 DEF Accounted, Behind
    <2> QED
      BY <1>1, <1>6, <2>1, SheetDone
  <1> QED
    BY <1>5, <1>6

\* The row in hand is written, and finds its device.
LEMMA RowWritten ==
  ASSUME NEW devices, NEW u, Sound(devices, u), u.stage \in Writing,
         Here(u) \in Named(u.file) => Finds(devices, RowOf(u)) # {},
         NEW made, made \in {{}, {Here(u)}}, u.known => made \cap Named(u.file) = {}
  PROVE  Sound(devices, [u EXCEPT !.stage = "audit", !.created = @ \cup made])
  <1> DEFINE v == [u EXCEPT !.stage = "audit", !.created = @ \cup made]
  <1>1. u \in Upload /\ u.mode = "commit" /\ u.file \in Files /\ InPlace(u)
    BY RowInHand
  <1>2. /\ v.stage = "audit" /\ v.mode = u.mode /\ v.file = u.file /\ v.sheets = u.sheets
        /\ v.sheet = u.sheet /\ v.found = u.found /\ v.failed = u.failed
        /\ v.created = u.created \cup made /\ v.known = u.known /\ v.at = u.at /\ v.id = u.id
    BY <1>1 DEF Upload
  <1>3. made \in SUBSET (Nat \X Nat)
    BY <1>1 DEF Here, Upload
  <1>4. v \in Upload
    BY <1>1, <1>3 DEF Upload
  <1> HIDE DEF v
  <1>5. InPlace(v)
    BY <1>1, <1>2 DEF InPlace, SheetOf, Writing
  <1>6. LookedUpWell(devices, v) /\ NothingNew(devices, v)
    BY <1>1, <1>2 DEF Sound, LookedUpWell, NothingNew, SheetOf
  <1>7. Accounted(devices, v)
    <2>1. ASSUME NEW h \in Named(v.file), Behind(v, h)
          PROVE  Settled(devices, v, h)
      <3>1. CASE h = Here(u)
        BY <1>2, <2>1, <3>1, RowInHand DEF Settled
      <3>2. CASE h # Here(u)
        BY <1>1, <1>2, <2>1, <3>2 DEF Sound, Accounted, Behind, Settled, Here, Writing
      <3> QED
        BY <3>1, <3>2
    <2> QED
      BY <2>1 DEF Accounted
  <1>8. Sound(devices, v)
    BY <1>1, <1>2, <1>4, <1>5, <1>6, <1>7 DEF Sound
  <1> QED
    BY <1>8 DEF v

\* A row that names its device finds the device made of it.
LEMMA CreatedIsFound ==
  ASSUME NEW f \in Files, NEW h \in Named(f), NEW row, row = At(f, h),
         NEW devices, NEW id \in DOMAIN devices, devices[id] = RowToSpec(row)
  PROVE  Finds(devices, row) # {}
  <1>1. row \in Rows
    BY PlacesAreRows DEF Named
  <1>2. row.asset # Blank \/ row.serial # Blank
    BY DEF Named
  <1>3. devices[id].asset = row.asset /\ devices[id].serial = row.serial
    BY DEF RowToSpec
  <1>4. id \in Finds(devices, row)
    BY <1>2, <1>3 DEF Finds, Same
  <1> QED
    BY <1>4

-----------------------------------------------------------------------------
(* The invariant is kept.                                                  *)

LEMMA MatchesAreFinds == \A row : Matches(row) = Finds(register, row)
  BY DEF Matches, Finds

LEMMA IdleIsSound == \A devices : Sound(devices, Idle)
  <1>1. <<>> \in Seq(Seq(Rows)) /\ <<>> \in Seq(DeviceId \cup {NoDevice}) /\ 1 \in Nat \ {0}
    OBVIOUS
  <1>2. Idle \in Upload
    BY <1>1 DEF Idle, Upload
  <1> QED
    BY <1>2 DEF Sound, Idle

LEMMA GoodInit == ASSUME Apart, Init PROVE Good
  <1>1. Orderly(register)
    <2>1. ASSUME NEW row \in AllRows, NEW d \in DOMAIN register,
                 row.asset = Blank, register[d].asset # Blank
          PROVE  ~Same(row.serial, register[d].serial)
      BY <2>1 DEF Apart, AllRows, Init
    <2> QED
      BY <2>1, ImportAssumption DEF Orderly, Init
  <1>2. Sound(register, Idle)
    BY IdleIsSound
  <1>3. Idle \in Upload
    BY <1>2 DEF Sound
  <1>4. BlankPage \in Page /\ Ready(BlankPage, Idle)
    BY DEF BlankPage, Page, Ready, Idle
  <1> QED
    BY <1>1, <1>2, <1>3, <1>4 DEF Good, Init

\* A step of a page, with the request it sends or answers.
LEMMA PageStep ==
  ASSUME Good, NEW a \in Admins, NEW u, NEW p, Sound(register, u), p \in Page, Ready(p, u),
         upload' = [upload EXCEPT ![a] = u], page' = [page EXCEPT ![a] = p],
         UNCHANGED register, \A f \in clean' : f \in Files /\ InRegister(register, f)
  PROVE  Good'
  <1>1. u \in Upload
    BY DEF Sound
  <1>2. upload' \in [Admins -> Upload] /\ page' \in [Admins -> Page]
    BY <1>1 DEF Good
  <1>3. \A b \in Admins : /\ upload'[b] = IF b = a THEN u ELSE upload[b]
                          /\ page'[b] = IF b = a THEN p ELSE page[b]
    BY DEF Good
  <1>4. \A b \in Admins : Sound(register, upload'[b]) /\ Ready(page'[b], upload'[b])
    BY <1>3 DEF Good
  <1> QED
    BY <1>2, <1>4 DEF Good

\* A step of a commit, that may write to the register.
LEMMA CommitStep ==
  ASSUME Good, NEW a \in Admins, NEW u, Sound(register', u), Keep(a, u),
         upload[a].stage # "idle", Orderly(register'), Keeps(register, register'),
         UNCHANGED <<page, clean>>
  PROVE  Good'
  <1>1. u \in Upload
    BY DEF Sound
  <1>2. upload' \in [Admins -> Upload]
    BY <1>1 DEF Good, Keep
  <1>3. \A b \in Admins : upload'[b] = IF b = a THEN u ELSE upload[b]
    BY DEF Good, Keep
  <1>4. \A b \in Admins : Sound(register', upload'[b])
    BY <1>3, SoundKept DEF Good
  <1>5. \A b \in Admins : Ready(page'[b], upload'[b])
    BY <1>3 DEF Good, Ready
  <1>6. ASSUME NEW f \in clean'
        PROVE  f \in Files /\ InRegister(register', f)
    <2>1. f \in Files /\ InRegister(register, f)
      BY DEF Good
    <2>2. \A h \in Named(f) : At(f, h) \in AllRows
      BY <2>1, PlacesAreRows DEF Named
    <2> QED
      BY <2>1, <2>2 DEF InRegister, Keeps
  <1> QED
    BY <1>2, <1>4, <1>5, <1>6 DEF Good

\* A step of a commit that only reads.
LEMMA ReadingStep ==
  ASSUME Good, NEW a \in Admins, NEW u, Sound(register, u), Keep(a, u),
         upload[a].stage # "idle", UNCHANGED <<register, page, clean>>
  PROVE  Good'
  <1>1. Keeps(register, register')
    BY DEF Keeps
  <1> QED
    BY <1>1, CommitStep DEF Good

LEMMA WriteUpdateStep ==
  ASSUME Apart, Good, NEW a \in Admins, WriteUpdate(a)
  PROVE  Good'
  <1> DEFINE u == upload[a]
             d == u.found[u.at]
  <1>1. Sound(register, u) /\ u.stage = "write" /\ u.stage \in Writing /\ d # NoDevice
    BY DEF Good, WriteUpdate, Writing
  <1>2. CASE Refuses(RowOf(u), d)
    BY <1>1, <1>2, RowReported, ReadingStep DEF WriteUpdate
  <1>3. CASE ~Refuses(RowOf(u), d)
    <2>1. u \in Upload /\ u.mode = "commit" /\ RowOf(u) \in AllRows /\ u.at \in DOMAIN u.found
      BY <1>1, RowInHand
    <2>2. d \in Finds(register, RowOf(u))
      BY <1>1, <2>1 DEF Sound, LookedUpWell, RowOf
    <2>3. register' = [register EXCEPT ![d] = RowToSpec(RowOf(u))]
      BY <1>3 DEF WriteUpdate
    <2>4. Orderly(register') /\ Keeps(register, register')
      BY <2>1, <2>2, <2>3, UpdateKeeps DEF Good
    <2>5. Sound(register', u)
      BY <1>1, <2>4, SoundKept
    <2>6. Finds(register', RowOf(u)) # {}
      BY <2>1, <2>2, <2>4 DEF Keeps
    <2>7. Sound(register', [u EXCEPT !.stage = "audit", !.created = @ \cup {}])
      BY <1>1, <2>5, <2>6, RowWritten
    <2>8. [u EXCEPT !.stage = "audit", !.created = @ \cup {}] = [u EXCEPT !.stage = "audit"]
      BY <2>1 DEF Upload
    <2>9. Sound(register', [u EXCEPT !.stage = "audit"])
      BY <2>7, <2>8
    <2>10. Keep(a, [u EXCEPT !.stage = "audit"]) /\ UNCHANGED <<page, clean>>
      BY <1>3 DEF WriteUpdate
    <2> QED
      BY <1>1, <2>4, <2>9, <2>10, CommitStep
  <1> QED
    BY <1>2, <1>3

LEMMA ReadNextIdStep ==
  ASSUME Good, NEW a \in Admins, ReadNextId(a)
  PROVE  Good'
  <1> DEFINE u == upload[a]
             v == [u EXCEPT !.stage = "create", !.id = NextId(RowOf(u).type)]
  <1>1. Sound(register, u) /\ u.stage = "write" /\ u.stage \in Writing /\ u.found[u.at] = NoDevice
    BY DEF Good, ReadNextId, Writing
  <1>2. u \in Upload /\ u.mode = "commit" /\ RowOf(u) \in Rows /\ u.file \in Files /\ InPlace(u)
    BY <1>1, RowInHand
  <1>3. NextId(RowOf(u).type) \in DeviceId
    BY <1>2, NextIdIsFree DEF Good, Rows
  <1>4. /\ v.stage = "create" /\ v.mode = u.mode /\ v.file = u.file /\ v.sheets = u.sheets
        /\ v.sheet = u.sheet /\ v.found = u.found /\ v.failed = u.failed
        /\ v.created = u.created /\ v.known = u.known /\ v.at = u.at /\ v.id = NextId(RowOf(u).type)
    BY <1>2 DEF Upload
  <1>5. v \in Upload
    BY <1>2, <1>3 DEF Upload
  <1>6. Keep(a, v) /\ UNCHANGED <<register, page, clean>>
    BY DEF ReadNextId
  <1> HIDE DEF v
  <1>7. InPlace(v)
    BY <1>1, <1>2, <1>3, <1>4 DEF InPlace, SheetOf, Writing
  <1>8. LookedUpWell(register, v) /\ NothingNew(register, v)
    BY <1>1, <1>2, <1>4 DEF Sound, LookedUpWell, NothingNew, SheetOf
  <1>9. Accounted(register, v)
    BY <1>1, <1>2, <1>4 DEF Sound, Accounted, Behind, Settled, Writing
  <1>10. Sound(register, v)
    BY <1>2, <1>4, <1>5, <1>7, <1>8, <1>9 DEF Sound
  <1> QED
    BY <1>1, <1>6, <1>10, ReadingStep

LEMMA CreateStep ==
  ASSUME Apart, Good, NEW a \in Admins, Create(a)
  PROVE  Good'
  <1> DEFINE u == upload[a]
             v == [u EXCEPT !.stage = "audit", !.created = @ \cup {Here(u)}]
  <1>1. Sound(register, u) /\ u.stage = "create" /\ u.stage \in Writing
    BY DEF Good, Create, Writing
  <1>2. CASE u.id \in DOMAIN register \/ Refuses(RowOf(u), u.id)
    BY <1>1, <1>2, RowReported, ReadingStep DEF Create
  <1>3. CASE ~(u.id \in DOMAIN register \/ Refuses(RowOf(u), u.id))
    <2>1. /\ u \in Upload /\ u.mode = "commit" /\ u.file \in Files /\ InPlace(u)
          /\ RowOf(u) \in Rows /\ RowOf(u) \in AllRows /\ u.at \in DOMAIN u.found
          /\ Here(u) \in PlacesOf(u.file) /\ At(u.file, Here(u)) = RowOf(u)
      BY <1>1, RowInHand
    <2>2. u.id \in DeviceId /\ u.id \notin DOMAIN register /\ u.found[u.at] = NoDevice
      BY <1>1, <1>3, <2>1 DEF InPlace
    <2>3. /\ register' = [d \in DOMAIN register \cup {u.id} |->
                             IF d = u.id THEN RowToSpec(RowOf(u)) ELSE register[d]]
          /\ Keep(a, v) /\ UNCHANGED <<page, clean>>
      BY <1>3 DEF Create
    <2>4. /\ RowToSpec(RowOf(u)) \in Device
          /\ RowToSpec(RowOf(u)).asset = RowOf(u).asset /\ RowToSpec(RowOf(u)).serial = RowOf(u).serial
      BY <2>1 DEF RowToSpec, Device, Rows
    <2>5. \A row \in AllRows : row.asset = Blank /\ RowToSpec(RowOf(u)).asset # Blank
                                  => ~Same(row.serial, RowToSpec(RowOf(u)).serial)
      BY <2>1, <2>4, RowsApart
    <2>6. Orderly(register') /\ Keeps(register, register')
      <3>1. Orderly(register)
        BY DEF Good
      <3> HIDE DEF u
      <3>2. ASSUME NEW id, id = u.id, NEW q, q = RowToSpec(RowOf(u))
            PROVE  Orderly(register') /\ Keeps(register, register')
        <4>1. register' = [d \in DOMAIN register \cup {id} |-> IF d = id THEN q ELSE register[d]]
          BY <2>3, <3>2
        <4>2. /\ id \in DeviceId /\ id \notin DOMAIN register /\ q \in Device
              /\ \A row \in AllRows : row.asset = Blank /\ q.asset # Blank => ~Same(row.serial, q.serial)
          BY <2>2, <2>4, <2>5, <3>2
        <4> QED
          BY <3>1, <4>1, <4>2, CreateKeeps
      <3> QED
        BY <3>2
    <2>7. Sound(register', u)
      BY <1>1, <2>6, SoundKept
    <2>8. Here(u) \in Named(u.file) => Finds(register', RowOf(u)) # {}
      <3>1. u.id \in DOMAIN register' /\ register'[u.id] = RowToSpec(RowOf(u))
        BY <2>3
      <3> QED
        BY <2>1, <3>1, CreatedIsFound
    <2>9. u.known => {Here(u)} \cap Named(u.file) = {}
      BY <2>1, <2>2, <2>7 DEF Sound, LookedUpWell, Here
    <2>10. Sound(register', v)
      BY <1>1, <2>7, <2>8, <2>9, RowWritten
    <2> QED
      BY <1>1, <2>3, <2>6, <2>10, CommitStep
  <1> QED
    BY <1>2, <1>3

LEMMA LookUpStep ==
  ASSUME Good, NEW a \in Admins, LookUp(a) \/ LookedUp(a)
  PROVE  Good'
  <1> DEFINE u == upload[a]
             row == SheetOf(u)[Len(u.found) + 1]
  <1>1. Sound(register, u) /\ Orderly(register) /\ u.stage = "look" /\ u.stage # "idle"
    BY DEF Good, LookUp, LookedUp
  <1>2. CASE LookUp(a)
    <2>1. Matches(row) = Finds(register, row)
      BY MatchesAreFinds
    <2>2. PICK d \in IF Finds(register, row) = {} THEN {NoDevice} ELSE Finds(register, row) :
              Keep(a, [u EXCEPT !.found = Append(@, d)])
      BY <1>2, <2>1 DEF LookUp
    <2>3. Len(u.found) < Len(SheetOf(u)) /\ UNCHANGED <<register, page, clean>>
      BY <1>2 DEF LookUp
    <2>4. Sound(register, [u EXCEPT !.found = Append(@, d)])
      BY <1>1, <2>2, <2>3, RowLookedUp
    <2> QED
      BY <1>1, <2>2, <2>3, <2>4, ReadingStep
  <1>3. CASE LookedUp(a)
    BY <1>1, <1>3, SheetLookedUp, ReadingStep DEF LookedUp
  <1> QED
    BY <1>2, <1>3

LEMMA AuditStep ==
  ASSUME Good, NEW a \in Admins, Audit(a) \/ WriteFails(a)
  PROVE  Good'
  <1> DEFINE u == upload[a]
  <1>1. Sound(register, u) /\ u.stage \in Writing /\ u.stage # "idle"
    BY DEF Good, Audit, WriteFails, Writing
  <1>2. CASE Audit(a)
    <2>1. u.stage = "audit" /\ Keep(a, NextRow(u)) /\ UNCHANGED <<register, page, clean>>
      BY <1>2 DEF Audit
    <2>2. Here(u) \in Named(u.file) => Settled(register, u, Here(u))
      BY <1>1, <2>1, RowInHand DEF Sound, Accounted, Behind
    <2> QED
      BY <1>1, <2>1, <2>2, RowDone, ReadingStep
  <1>3. CASE WriteFails(a)
    BY <1>1, <1>3, RowReported, ReadingStep DEF WriteFails
  <1> QED
    BY <1>2, <1>3

LEMMA FilePicked ==
  ASSUME Good, NEW a \in Admins, (\E f \in Files : SetFile(a, f)) \/ Back(a) \/ Leave(a)
  PROVE  Good'
  <1> DEFINE u == upload[a]
  <1>1. Sound(register, u) /\ page[a] \in Page /\ Ready(page[a], u)
    BY DEF Good
  <1>2. upload = [upload EXCEPT ![a] = u]
    BY DEF Good
  <1>3. \A f \in clean : f \in Files /\ InRegister(register, f)
    BY DEF Good
  <1> HIDE DEF u
  <1>4. CASE \E f \in Files : SetFile(a, f)
    <2>1. PICK f \in Files : SetFile(a, f)
      BY <1>4
    <2> DEFINE p == [page[a] EXCEPT !.file = f]
    <2>2. p \in Page /\ Ready(p, u)
      BY <1>1 DEF Page, Ready
    <2>3. page' = [page EXCEPT ![a] = p] /\ UNCHANGED <<register, upload, clean>>
      BY <2>1 DEF SetFile, Show
    <2> HIDE DEF p
    <2> QED
      BY <1>1, <1>2, <1>3, <2>2, <2>3, PageStep
  <1>5. CASE Back(a)
    <2> DEFINE p == [page[a] EXCEPT !.step = "upload"]
    <2>1. p \in Page /\ Ready(p, u)
      BY <1>1 DEF Page, Ready
    <2>2. page' = [page EXCEPT ![a] = p] /\ UNCHANGED <<register, upload, clean>>
      BY <1>5 DEF Back, Show
    <2> HIDE DEF p
    <2> QED
      BY <1>1, <1>2, <1>3, <2>1, <2>2, PageStep
  <1>6. CASE Leave(a)
    <2>1. page[a].step = "result"
      BY <1>6 DEF Leave
    <2>2. BlankPage \in Page /\ Ready(BlankPage, u)
      BY <1>1, <2>1 DEF Page, Ready, BlankPage
    <2>3. page' = [page EXCEPT ![a] = BlankPage] /\ UNCHANGED <<register, upload, clean>>
      BY <1>6 DEF Leave, Show
    <2> QED
      BY <1>1, <1>2, <1>3, <2>2, <2>3, PageStep
  <1> QED
    BY <1>4, <1>5, <1>6

LEMMA RequestSent ==
  ASSUME Good, NEW a \in Admins, HandlePreview(a) \/ HandleCommit(a)
  PROVE  Good'
  <1> DEFINE q == page[a]
             p == [q EXCEPT !.loading = TRUE]
  <1>1. q \in Page /\ Ready(q, upload[a])
    BY DEF Good
  <1>2. \A f \in clean : f \in Files /\ InRegister(register, f)
    BY DEF Good
  <1>3. <<>> \in Seq(Seq(Rows)) /\ <<>> \in Seq(DeviceId \cup {NoDevice}) /\ 1 \in Nat \ {0}
    OBVIOUS
  <1>4. q.file \in Files
    BY <1>1 DEF HandlePreview, HandleCommit, Page, Ready
  <1>5. p \in Page /\ p.loading /\ p.step = q.step /\ p.file = q.file
    BY <1>1 DEF Page
  <1>6. q.step \in {"upload", "preview"} /\ page' = [page EXCEPT ![a] = p] /\ UNCHANGED <<register, clean>>
    BY DEF HandlePreview, HandleCommit, Show
  <1>7. \A u : Ready(p, u)
    BY <1>4, <1>5, <1>6 DEF Ready
  <1>8. CASE HandlePreview(a)
    <2> DEFINE u == [Idle EXCEPT !.stage = "done", !.file = q.file]
    <2>1. upload' = [upload EXCEPT ![a] = u]
      BY <1>8 DEF HandlePreview, Keep
    <2>2. u \in Upload
      BY <1>3, <1>4 DEF Upload, Idle
    <2>3. u.mode = "preview" /\ u.stage = "done" /\ u.file = q.file /\ ~u.known
      BY DEF Idle
    <2> HIDE DEF u, p, q
    <2>4. Sound(register, u)
      BY <1>4, <2>2, <2>3 DEF Sound
    <2> QED
      BY <1>2, <1>5, <1>6, <1>7, <2>1, <2>4, PageStep
  <1>9. CASE HandleCommit(a)
    <2> DEFINE u == [Idle EXCEPT !.stage = "look", !.mode = "commit", !.file = q.file,
                                 !.sheets = Parsed[q.file], !.known = q.file \in clean]
    <2>1. upload' = [upload EXCEPT ![a] = u]
      BY <1>9 DEF HandleCommit, Keep
    <2>2. Parsed[q.file] \in Seq(Seq(Rows)) /\ Parsed[q.file] # <<>>
      BY <1>4, ParsedFits
    <2>3. u \in Upload
      <3> DEFINE known == q.file \in clean
                 sheets == Parsed[q.file]
      <3>1. known \in BOOLEAN /\ sheets \in Seq(Seq(Rows)) /\ q.file \in Files
        BY <1>4, <2>2
      <3> HIDE DEF known, sheets, q
      <3>2. [Idle EXCEPT !.stage = "look", !.mode = "commit", !.file = q.file,
                         !.sheets = sheets, !.known = known] \in Upload
        BY <1>3, <3>1 DEF Upload, Idle
      <3> QED
        BY <3>2 DEF known, sheets
    <2>4. /\ u.mode = "commit" /\ u.stage = "look" /\ u.file = q.file /\ u.sheets = Parsed[q.file]
          /\ (u.known => q.file \in clean) /\ u.found = <<>> /\ u.at = 1 /\ u.sheet = 1
          /\ u.failed = {} /\ u.created = {}
      BY DEF Idle
    <2> HIDE DEF u, p, q
    <2>5. 1 \in DOMAIN Parsed[q.file] /\ Parsed[q.file][1] \in Seq(Rows)
      <3>1. Len(Parsed[q.file]) \in Nat /\ Len(Parsed[q.file]) # 0
        BY <2>2
      <3>2. 1 \in DOMAIN Parsed[q.file]
        BY <2>2, <3>1
      <3> QED
        BY <2>2, <3>2
    <2>6. InPlace(u)
      <3>1. SheetOf(u) = Parsed[q.file][1] /\ Len(u.found) = 0
        BY <2>4 DEF SheetOf
      <3>2. Len(u.found) <= Len(SheetOf(u))
        BY <2>5, <3>1
      <3> QED
        BY <1>4, <2>4, <2>5, <3>2 DEF InPlace, Writing
    <2>7. LookedUpWell(register, u) /\ NothingNew(register, u)
      <3>1. DOMAIN u.found = {}
        BY <2>4
      <3>2. LookedUpWell(register, u)
        BY <3>1 DEF LookedUpWell
      <3>3. NothingNew(register, u)
        BY <1>2, <2>4 DEF NothingNew
      <3> QED
        BY <3>2, <3>3
    <2>8. Accounted(register, u)
      <3>1. ASSUME NEW h \in Named(u.file)
            PROVE  ~Behind(u, h)
        <4>1. h[1] \in DOMAIN Parsed[q.file]
          BY <1>4, <2>4, PlacesAreRows DEF Named
        <4>2. ~(h[1] < 1)
          BY <2>2, <4>1
        <4> QED
          BY <2>4, <4>2 DEF Behind, Writing
      <3> QED
        BY <3>1 DEF Accounted
    <2>9. Sound(register, u)
      BY <2>3, <2>4, <2>6, <2>7, <2>8 DEF Sound
    <2> QED
      BY <1>2, <1>5, <1>6, <1>7, <2>1, <2>9, PageStep
  <1> QED
    BY <1>8, <1>9

LEMMA RequestAnswered ==
  ASSUME Good, NEW a \in Admins, Answer(a) \/ RequestFails(a)
  PROVE  Good'
  <1> DEFINE u == upload[a]
             q == page[a]
  <1>1. Sound(register, u) /\ q \in Page /\ Ready(q, u)
    BY DEF Good
  <1>2. \A f \in clean : f \in Files /\ InRegister(register, f)
    BY DEF Good
  <1>3. u.stage # "idle" /\ upload' = [upload EXCEPT ![a] = Idle] /\ UNCHANGED register
    BY DEF Answer, RequestFails, Keep
  <1>4. q.file \in Files /\ Idle.stage = "idle" /\ u \in Upload
    BY <1>1, <1>3 DEF Ready, Idle, Sound
  <1>5. CASE RequestFails(a)
    <2> DEFINE p == [q EXCEPT !.loading = FALSE]
    <2>1. p \in Page /\ Ready(p, Idle)
      BY <1>1, <1>4 DEF Page, Ready
    <2>2. page' = [page EXCEPT ![a] = p] /\ UNCHANGED clean
      BY <1>5 DEF RequestFails, Show
    <2> HIDE DEF u, p, q
    <2> QED
      BY <1>2, <1>3, <2>1, <2>2, IdleIsSound, PageStep
  <1>6. CASE Answer(a) /\ u.mode = "preview"
    <2> DEFINE p == [q EXCEPT !.step = "preview", !.previewed = u.file, !.loading = FALSE]
    <2>1. u.file \in Files
      BY <1>1, <1>6 DEF Sound, Answer
    <2>2. p \in Page /\ Ready(p, Idle)
      BY <1>1, <1>4, <2>1 DEF Page, Ready
    <2>3. page' = [page EXCEPT ![a] = p] /\ UNCHANGED clean
      BY <1>6 DEF Answer, Show
    <2> HIDE DEF u, p, q
    <2> QED
      BY <1>2, <1>3, <2>2, <2>3, IdleIsSound, PageStep
  <1>7. CASE Answer(a) /\ u.mode # "preview"
    <2> DEFINE p == [q EXCEPT !.step = "result", !.loading = FALSE]
    <2>1. p \in Page /\ Ready(p, Idle)
      BY <1>1, <1>4 DEF Page, Ready
    <2>2. /\ page' = [page EXCEPT ![a] = p]
          /\ clean' = IF u.failed = {} THEN clean \cup {u.file} ELSE clean
          /\ u.stage = "done"
      BY <1>7 DEF Answer, Show
    <2>3. u.mode = "commit" /\ u.file \in Files /\ Accounted(register, u)
      BY <1>1, <1>4, <1>7, <2>2 DEF Sound, Upload
    <2>4. u.failed = {} => InRegister(register, u.file)
      BY <2>2, <2>3 DEF Accounted, Behind, Settled, InRegister
    <2>5. \A f \in clean' : f \in Files /\ InRegister(register, f)
      BY <1>2, <2>2, <2>3, <2>4
    <2> HIDE DEF u, p, q
    <2> QED
      BY <1>3, <2>1, <2>2, <2>5, IdleIsSound, PageStep
  <1> QED
    BY <1>5, <1>6, <1>7

LEMMA CreateDeviceStep ==
  ASSUME Good, NEW type \in Types, NEW serial \in Cells, CreateDevice(type, serial)
  PROVE  Good'
  <1> DEFINE id == NextId(type)
             v == [asset |-> Blank, serial |-> serial]
  <1>1. Orderly(register)
    BY DEF Good
  <1>2. id \in DeviceId /\ id \notin DOMAIN register
    BY <1>1, NextIdIsFree
  <1>3. v \in Device /\ v.asset = Blank
    BY ParserAssumption, ImportAssumption DEF Device
  <1>4. /\ register' = [d \in DOMAIN register \cup {id} |-> IF d = id THEN v ELSE register[d]]
        /\ UNCHANGED <<upload, page, clean>>
    BY DEF CreateDevice
  <1> HIDE DEF id, v
  <1>5. Orderly(register') /\ Keeps(register, register')
    BY <1>1, <1>2, <1>3, <1>4, CreateKeeps
  <1>6. \A a \in Admins : Sound(register', upload[a])
    BY <1>5, SoundKept DEF Good
  <1>7. ASSUME NEW f \in clean
        PROVE  f \in Files /\ InRegister(register', f)
    <2>1. f \in Files /\ InRegister(register, f)
      BY DEF Good
    <2>2. \A h \in Named(f) : At(f, h) \in AllRows
      BY <2>1, PlacesAreRows DEF Named
    <2> QED
      BY <1>5, <2>1, <2>2 DEF InRegister, Keeps
  <1> QED
    BY <1>4, <1>5, <1>6, <1>7 DEF Good

LEMMA GoodStep == ASSUME Apart, Good, [Next]_vars PROVE Good'
  <1>1. CASE UNCHANGED vars
    BY <1>1 DEF vars, Good
  <1>2. CASE \E type \in Types, serial \in Cells : CreateDevice(type, serial)
    BY <1>2, CreateDeviceStep
  <1>3. ASSUME NEW a \in Admins,
               \/ \E f \in Files : SetFile(a, f)
               \/ HandlePreview(a) \/ HandleCommit(a) \/ Back(a) \/ Leave(a) \/ Answer(a) \/ RequestFails(a)
               \/ LookUp(a) \/ LookedUp(a) \/ WriteUpdate(a) \/ ReadNextId(a) \/ Create(a) \/ Audit(a)
               \/ WriteFails(a)
        PROVE  Good'
    BY <1>3, FilePicked, RequestSent, RequestAnswered, LookUpStep, WriteUpdateStep, ReadNextIdStep,
       CreateStep, AuditStep
  <1> QED
    BY <1>1, <1>2, <1>3 DEF Next

LEMMA GoodImplies ==
  ASSUME Apart => Good
  PROVE  ReimportCreatesNothing /\ UnreportedIsRegistered
  <1>1. ASSUME Apart, NEW a \in Admins, upload[a].known
        PROVE  upload[a].created \cap Named(upload[a].file) = {}
    <2>1. Sound(register, upload[a])
      BY <1>1 DEF Good
    <2>2. upload[a].mode = "commit"
      BY <1>1, <2>1 DEF Sound, Upload
    <2> QED
      BY <1>1, <2>1, <2>2 DEF Sound, NothingNew
  <1>2. ASSUME Apart, NEW a \in Admins, upload[a].stage = "done", upload[a].mode = "commit",
               NEW h \in Named(upload[a].file) \ upload[a].failed
        PROVE  Matches(At(upload[a].file, h)) # {}
    <2>1. Sound(register, upload[a])
      BY <1>2 DEF Good
    <2>2. Finds(register, At(upload[a].file, h)) # {}
      BY <1>2, <2>1 DEF Sound, Accounted, Behind, Settled
    <2> QED
      BY <2>2, MatchesAreFinds
  <1> QED
    BY <1>1, <1>2 DEF ReimportCreatesNothing, UnreportedIsRegistered

-----------------------------------------------------------------------------
(* The theorems.                                                           *)

\* Whatever the workbooks hold, as long as they are apart: between any number of
\* imports, entries by hand and failing accesses the invariant is kept.
THEOREM ImportsInOrder == Spec => [](Apart => Good)
  <1>1. Init => (Apart => Good)
    BY GoodInit
  <1>2. (Apart => Good) /\ [Next]_vars => (Apart => Good)'
    BY GoodStep
  <1> QED
    BY <1>1, <1>2, PTL DEF Spec

\* A file that has been imported without an error creates no device for a row
\* that names one, however often it is imported again and beside which imports.
THEOREM ReimportIsSafe == Spec => []ReimportCreatesNothing
  <1>1. (Apart => Good) => ReimportCreatesNothing
    BY GoodImplies
  <1> QED
    BY <1>1, ImportsInOrder, PTL

\* Every row that names its device is in the report or in the register when the
\* commit is answered, whichever accesses failed.
THEOREM NoRowIsLost == Spec => []UnreportedIsRegistered
  <1>1. (Apart => Good) => UnreportedIsRegistered
    BY GoodImplies
  <1> QED
    BY <1>1, ImportsInOrder, PTL

\* The place of the row of a line: the sheet, and how many lines up to it have one.
PlaceOf(f, s, i) == <<s, Rank(Full(LinesOf(Workbook[f][s])), i)>>

\* A line of the workbook that names a device, by either number, is when the
\* commit is answered in the report, at its place, or in the register: nothing
\* is lost between the sheet and the rows either.
LinesAreAccounted ==
    Apart => \A a \in Admins : upload[a].stage = "done" /\ upload[a].mode = "commit" =>
        LET f == upload[a].file IN
        \A s \in DOMAIN Workbook[f] : \A i \in DOMAIN LinesOf(Workbook[f][s]) :
            \A r \in LinesOf(Workbook[f][s])[i] :
                r.asset # Blank \/ r.serial # Blank =>
                    PlaceOf(f, s, i) \in upload[a].failed \/ Matches(r) # {}

LEMMA LineHasPlace ==
  ASSUME NEW f \in Files, NEW s \in DOMAIN Workbook[f], NEW i \in DOMAIN LinesOf(Workbook[f][s]),
         NEW r \in LinesOf(Workbook[f][s])[i]
  PROVE  PlaceOf(f, s, i) \in PlacesOf(f) /\ At(f, PlaceOf(f, s, i)) = r
  <1> DEFINE sheet == Workbook[f][s]
             k == Rank(Full(LinesOf(sheet)), i)
  <1>1. sheet \in Sheet
    <2>1. Workbook[f] \in Seq(Sheet)
      BY ImportAssumption
    <2> QED
      BY <2>1, ElementOfSeq
  <1>2. Parsed[f][s] = ParseSheet(sheet) /\ DOMAIN Parsed[f] = DOMAIN Workbook[f]
    BY DEF Parsed, Parse
  <1>3. i \in Full(LinesOf(sheet))
    BY DEF Full
  <1>4. Enumerates(ParseSheet(sheet), LinesOf(sheet))
    BY <1>1, SheetsAreRead
  <1>5. k \in DOMAIN Parsed[f][s] /\ LinesOf(sheet)[i] = {Parsed[f][s][k]}
    BY <1>2, <1>3, <1>4 DEF Enumerates
  <1>6. PlaceOf(f, s, i) = <<s, k>>
    BY DEF PlaceOf
  <1>7. r = Parsed[f][s][k]
    BY <1>5
  <1> HIDE DEF sheet, k
  <1> QED
    BY <1>2, <1>5, <1>6, <1>7, RowsAreRead

\* From the lines of the workbook to the register, by way of the parser.
THEOREM NoLineIsLost == Spec => []LinesAreAccounted
  <1>1. (Apart => Good) => LinesAreAccounted
    <2>1. SUFFICES ASSUME Apart, Good, NEW a \in Admins,
                          upload[a].stage = "done", upload[a].mode = "commit",
                          NEW s \in DOMAIN Workbook[upload[a].file],
                          NEW i \in DOMAIN LinesOf(Workbook[upload[a].file][s]),
                          NEW r \in LinesOf(Workbook[upload[a].file][s])[i],
                          r.asset # Blank \/ r.serial # Blank
                   PROVE  PlaceOf(upload[a].file, s, i) \in upload[a].failed \/ Matches(r) # {}
      BY Zenon DEF LinesAreAccounted
    <2>2. upload[a].file \in Files
      BY <2>1 DEF Good, Sound
    <2>3. /\ PlaceOf(upload[a].file, s, i) \in PlacesOf(upload[a].file)
          /\ At(upload[a].file, PlaceOf(upload[a].file, s, i)) = r
      BY <2>2, LineHasPlace
    <2>4. PlaceOf(upload[a].file, s, i) \in Named(upload[a].file)
      BY <2>1, <2>3 DEF Named
    <2>5. UnreportedIsRegistered
      BY <2>1, GoodImplies
    <2> QED
      BY <2>1, <2>3, <2>4, <2>5 DEF UnreportedIsRegistered
  <1> QED
    BY <1>1, ImportsInOrder, PTL
=============================================================================
