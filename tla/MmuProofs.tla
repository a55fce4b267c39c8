------------------------------- MODULE MmuProofs -------------------------------
(***************************************************************************)
(* The TLB, for any number of processes, pages, frames and rows, both      *)
(* algorithms and any sequence of RESIZE and translations.                 *)
(***************************************************************************)
EXTENDS Mmu, PaginacionProofs, SequenceTheorems, Minimos

\* The rows of a list, and the page a row is of.
RowsIn(rows) == {rows[i] : i \in 1 .. Len(rows)}

KeyOf(row) == <<row.pid, row.page>>

\* list_remove of an index of the list.
LEMMA RemoveAtRows ==
    ASSUME NEW S, NEW s \in Seq(S), NEW k \in 1 .. Len(s)
    PROVE  /\ RemoveAt(s, k) \in Seq(S)
           /\ Len(RemoveAt(s, k)) = Len(s) - 1
           /\ \A i \in 1 .. Len(RemoveAt(s, k)) : \E j \in 1 .. Len(s) : RemoveAt(s, k)[i] = s[j]
           /\ \A j \in 1 .. Len(s) :
                j # k => \E i \in 1 .. Len(RemoveAt(s, k)) : RemoveAt(s, k)[i] = s[j]
<1> DEFINE antes == SubSeq(s, 1, k - 1)
           luego == SubSeq(s, k + 1, Len(s))
<1>1. antes \in Seq(S) /\ Len(antes) = k - 1 /\ \A i \in 1 .. k - 1 : antes[i] = s[i]
  BY SubSeqProperties
<1>2. /\ luego \in Seq(S) /\ Len(luego) = Len(s) - k
      /\ \A i \in 1 .. Len(s) - k : luego[i] = s[k + i]
  BY SubSeqProperties
<1>3. RemoveAt(s, k) = antes \o luego
  BY DEF RemoveAt
<1> HIDE DEF antes, luego
<1> DEFINE r == antes \o luego
<1>4. Len(s) \in Nat /\ k \in Nat /\ 1 <= k /\ k <= Len(s)
  OBVIOUS
<1>5. /\ r \in Seq(S) /\ Len(r) = Len(antes) + Len(luego)
      /\ \A i \in 1 .. Len(antes) + Len(luego) :
           r[i] = IF i <= Len(antes) THEN antes[i] ELSE luego[i - Len(antes)]
  BY <1>1, <1>2, ConcatProperties
<1> HIDE DEF r
<1>6. Len(r) = Len(s) - 1
  BY <1>1, <1>2, <1>4, <1>5
<1>7. ASSUME NEW i \in 1 .. Len(s) - 1
      PROVE  r[i] = IF i <= k - 1 THEN s[i] ELSE s[i + 1]
  <2>1. CASE i <= k - 1
    <3>1. Len(antes) = k - 1 /\ Len(luego) = Len(s) - k
      BY <1>1, <1>2
    <3>2. i \in 1 .. k - 1 /\ i \in 1 .. Len(antes) + Len(luego) /\ i <= Len(antes)
      BY <1>4, <2>1, <3>1
    <3>3. r[i] = antes[i]
      BY <1>5, <3>2
    <3>4. antes[i] = s[i]
      BY <1>1, <3>2
    <3>5. QED BY <2>1, <3>3, <3>4
  <2>2. CASE ~(i <= k - 1)
    <3>1. i - (k - 1) \in 1 .. Len(s) - k /\ k + (i - (k - 1)) = i + 1
      BY <1>4, <2>2
    <3>2. r[i] = luego[i - (k - 1)]
      <4>1. Len(antes) = k - 1 /\ Len(luego) = Len(s) - k
        BY <1>1, <1>2
      <4>2. i \in 1 .. Len(antes) + Len(luego)
        BY <1>4, <4>1
      <4>3. QED BY <1>5, <2>2, <4>1, <4>2
    <3>3. luego[i - (k - 1)] = s[k + (i - (k - 1))]
      BY <1>2, <3>1
    <3>4. QED BY <2>2, <3>1, <3>2, <3>3
  <2>3. QED BY <2>1, <2>2
<1>8. \A i \in 1 .. Len(r) : \E j \in 1 .. Len(s) : r[i] = s[j]
  <2> TAKE i \in 1 .. Len(r)
  <2>1. i \in 1 .. Len(s) - 1 /\ i \in 1 .. Len(s) /\ i + 1 \in 1 .. Len(s)
    BY <1>4, <1>6
  <2>2. QED BY <1>7, <2>1
<1>9. \A j \in 1 .. Len(s) : j # k => \E i \in 1 .. Len(r) : r[i] = s[j]
  <2> TAKE j \in 1 .. Len(s)
  <2> HAVE j # k
  <2>1. CASE j < k
    <3>1. j \in 1 .. Len(s) - 1 /\ j <= k - 1
      BY <1>4, <2>1
    <3>2. QED BY <1>6, <1>7, <3>1
  <2>2. CASE j > k
    <3>1. j - 1 \in 1 .. Len(s) - 1 /\ ~(j - 1 <= k - 1) /\ (j - 1) + 1 = j
      BY <1>4, <2>2
    <3>2. r[j - 1] = s[j]
      BY <1>7, <3>1
    <3>3. QED BY <1>6, <3>1, <3>2
  <2>3. QED BY <1>4, <2>1, <2>2
<1>10. RemoveAt(s, k) = r
  BY <1>3 DEF r
<1>11. QED BY <1>5, <1>6, <1>8, <1>9, <1>10

\* list_find: the row that is found is of the page, and 0 says that there is none.
LEMMA FirstRowFound ==
    ASSUME TLB \in Seq(Row), NEW p, NEW page
    PROVE  \/ FirstRow(p, page) = 0 /\ \A i \in 1 .. Len(TLB) : KeyOf(TLB[i]) # <<p, page>>
           \/ FirstRow(p, page) \in 1 .. Len(TLB) /\ KeyOf(TLB[FirstRow(p, page)]) = <<p, page>>
<1> DEFINE I == {i \in 1 .. Len(TLB) : TLB[i].pid = p /\ TLB[i].page = page}
<1>1. FirstRow(p, page) = IF I # {} THEN Min(I) ELSE 0
  BY DEF FirstRow, SelectInSeq
<1>2. I \in SUBSET Nat
  OBVIOUS
<1>3. CASE I = {}
  BY <1>1, <1>3 DEF KeyOf
<1>4. CASE I # {}
  <2>1. Min(I) \in I
    BY <1>2, <1>4, MinDeNaturales
  <2>2. QED BY <1>1, <1>4, <2>1 DEF KeyOf
<1>5. QED BY <1>3, <1>4

\* A time that fits in an int is not changed.
LEMMA AsIntFits ==
    ASSUME NEW t \in Nat, t <= IntMax
    PROVE  AsInt(t) = t
<1> DEFINE m == 2 * (IntMax + 1)
           a == t + IntMax + 1
<1>1. IntMax \in Nat
  BY ConstantesDeLaMmu
<1>2. m \in Nat /\ m > 0 /\ a \in Nat /\ a < m
  BY <1>1
<1>3. AsInt(t) = (a % m) - (IntMax + 1)
  BY DEF AsInt
<1> HIDE DEF m
<1>4. a % m = a
  BY <1>2
<1>5. QED BY <1>1, <1>3, <1>4

\* findMinimum finds a row, and while the times fit in an int none was used before.
LEMMA MinimumFound ==
    ASSUME NEW rows \in Seq(Row), rows # <<>>
    PROVE  /\ FindMinimum(rows) \in 1 .. Len(rows)
           /\ (\A i \in 1 .. Len(rows) : rows[i].lastUsedTime <= IntMax)
                => \A i \in 1 .. Len(rows) :
                     rows[FindMinimum(rows)].lastUsedTime <= rows[i].lastUsedTime
<1> DEFINE lower == {i \in 1 .. Len(rows) : rows[i].lastUsedTime < AsInt(rows[1].lastUsedTime)}
           times == {rows[i].lastUsedTime : i \in lower}
           lowest == Min(times)
           first == {i \in lower : rows[i].lastUsedTime = lowest}
<1>1. FindMinimum(rows) = IF lower = {} THEN 1 ELSE Min(first)
  BY DEF FindMinimum
<1>2. Len(rows) \in Nat /\ 1 \in 1 .. Len(rows)
  BY EmptySeq
<1>3. \A i \in 1 .. Len(rows) : rows[i] \in Row /\ rows[i].lastUsedTime \in Nat
  <2>1. \A i \in 1 .. Len(rows) : rows[i] \in Row
    OBVIOUS
  <2>2. QED BY <2>1 DEF Row
<1>4. ASSUME \A i \in 1 .. Len(rows) : rows[i].lastUsedTime <= IntMax
      PROVE  AsInt(rows[1].lastUsedTime) = rows[1].lastUsedTime
  BY <1>2, <1>3, <1>4, AsIntFits
<1>5. CASE lower = {}
  <2>1. FindMinimum(rows) = 1
    BY <1>1, <1>5
  <2>2. ASSUME \A i \in 1 .. Len(rows) : rows[i].lastUsedTime <= IntMax
        PROVE  \A i \in 1 .. Len(rows) : rows[1].lastUsedTime <= rows[i].lastUsedTime
    BY <1>2, <1>3, <1>4, <1>5, <2>2
  <2>3. QED BY <1>2, <2>1, <2>2
<1>6. CASE lower # {}
  <2>1. times \in SUBSET Nat /\ times # {}
    BY <1>3, <1>6
  <2>2. lowest \in times /\ \A y \in times : lowest <= y
    BY <2>1, MinDeNaturales
  <2> HIDE DEF lowest
  <2>3. first \in SUBSET Nat /\ first # {}
    BY <2>2
  <2>4. Min(first) \in first
    BY <2>3, MinDeNaturales
  <2> DEFINE m == Min(first)
  <2> HIDE DEF m
  <2>5. /\ m \in 1 .. Len(rows) /\ rows[m].lastUsedTime = lowest
        /\ rows[m].lastUsedTime < AsInt(rows[1].lastUsedTime)
    BY <2>4 DEF m
  <2>6. FindMinimum(rows) = m
    BY <1>1, <1>6 DEF m
  <2>7. ASSUME \A i \in 1 .. Len(rows) : rows[i].lastUsedTime <= IntMax,
               NEW i \in 1 .. Len(rows)
        PROVE  rows[m].lastUsedTime <= rows[i].lastUsedTime
    <3>1. CASE i \in lower
      BY <2>2, <2>5, <3>1
    <3>2. CASE i \notin lower
      BY <1>2, <1>3, <1>4, <2>5, <2>7, <3>2
    <3>3. QED BY <3>1, <3>2
  <2>8. QED BY <2>5, <2>6, <2>7
<1>7. QED BY <1>5, <1>6

\* The rows after a search: only the one that was found has another time.
LEMMA TouchedRows ==
    ASSUME TLB \in Seq(Row), NEW p, NEW page, NEW now \in Nat
    PROVE  /\ Touched(p, page, now) \in Seq(Row)
           /\ Len(Touched(p, page, now)) = Len(TLB)
           /\ \A i \in 1 .. Len(TLB) :
                /\ KeyOf(Touched(p, page, now)[i]) = KeyOf(TLB[i])
                /\ Touched(p, page, now)[i].frame = TLB[i].frame
                /\ \/ Touched(p, page, now)[i] = TLB[i]
                   \/ /\ KeyOf(TLB[i]) = <<p, page>>
                      /\ Touched(p, page, now)[i].lastUsedTime = now
           /\ FirstRow(p, page) # 0 =>
                \E i \in 1 .. Len(TLB) : /\ KeyOf(TLB[i]) = <<p, page>>
                                         /\ Touched(p, page, now)[i].lastUsedTime = now
<1> DEFINE f == FirstRow(p, page)
           t == Touched(p, page, now)
<1>1. CASE f = 0
  BY <1>1 DEF Touched
<1>2. CASE f # 0
  <2>1. f \in 1 .. Len(TLB) /\ KeyOf(TLB[f]) = <<p, page>>
    BY <1>2, FirstRowFound
  <2>2. t = [TLB EXCEPT ![f].lastUsedTime = now]
    BY <1>2 DEF Touched
  <2> HIDE DEF f, t
  <2>3. \A i \in 1 .. Len(TLB) : TLB[i] \in Row
    OBVIOUS
  <2>4. TLB[f] \in Row
    BY <2>1, <2>3
  <2> DEFINE row == [TLB[f] EXCEPT !.lastUsedTime = now]
  <2>5. /\ row \in Row /\ row.frame = TLB[f].frame
        /\ row.pid = TLB[f].pid /\ row.page = TLB[f].page /\ row.lastUsedTime = now
    BY <2>4 DEF Row
  <2>6. t = [TLB EXCEPT ![f] = row]
    BY <2>2
  <2> HIDE DEF row
  <2>7. /\ t \in Seq(Row) /\ Len(t) = Len(TLB) /\ t[f] = row
        /\ \A i \in 1 .. Len(TLB) : i # f => t[i] = TLB[i]
    BY <2>1, <2>5, <2>6, ExceptSeq
  <2>8. \A i \in 1 .. Len(TLB) :
          /\ KeyOf(t[i]) = KeyOf(TLB[i]) /\ t[i].frame = TLB[i].frame
          /\ \/ t[i] = TLB[i]
             \/ KeyOf(TLB[i]) = <<p, page>> /\ t[i].lastUsedTime = now
    <3> TAKE i \in 1 .. Len(TLB)
    <3>1. CASE i = f
      BY <2>1, <2>5, <2>7, <3>1 DEF KeyOf
    <3>2. CASE i # f
      BY <2>7, <3>2
    <3>3. QED BY <3>1, <3>2
  <2>9. KeyOf(TLB[f]) = <<p, page>> /\ t[f].lastUsedTime = now
    BY <2>1, <2>5, <2>7
  <2>10. QED BY <2>1, <2>7, <2>8, <2>9 DEF t
<1>3. QED BY <1>1, <1>2

\* The rows after a miss: the new one is there, and at most one has left, which
\* under LRU, while the times fit in an int, was used before all the others.
LEMMA InsertedRows ==
    ASSUME NEW rows \in Seq(Row), Len(rows) <= CantidadEntradas, NEW row \in Row,
           ALGORITMO_TLB \in {"FIFO", "LRU"}
    PROVE  /\ InsertRow(rows, row) \in Seq(Row)
           /\ Len(InsertRow(rows, row)) <= CantidadEntradas
           /\ row \in RowsIn(InsertRow(rows, row))
           /\ RowsIn(InsertRow(rows, row)) \subseteq RowsIn(rows) \cup {row}
           /\ ALGORITMO_TLB = "LRU" /\ (\A r \in RowsIn(rows) : r.lastUsedTime <= IntMax) =>
                \/ RowsIn(rows) \subseteq RowsIn(InsertRow(rows, row))
                \/ \E v \in RowsIn(rows) :
                     /\ \A r \in RowsIn(rows) : v.lastUsedTime <= r.lastUsedTime
                     /\ RowsIn(rows) \ {v} \subseteq RowsIn(InsertRow(rows, row))
<1>1. CantidadEntradas \in Nat \ {0} /\ Len(rows) \in Nat
  BY ConstantesDeLaMmu
<1>2. ASSUME NEW s \in Seq(Row)
      PROVE  /\ Append(s, row) \in Seq(Row) /\ Len(Append(s, row)) = Len(s) + 1
             /\ RowsIn(Append(s, row)) = RowsIn(s) \cup {row}
  <2>1. /\ Append(s, row) \in Seq(Row) /\ Len(Append(s, row)) = Len(s) + 1
        /\ \A i \in 1 .. Len(s) : Append(s, row)[i] = s[i]
        /\ Append(s, row)[Len(s) + 1] = row
    BY AppendProperties
  <2>2. Len(s) \in Nat
    OBVIOUS
  <2>3. 1 .. Len(s) + 1 = (1 .. Len(s)) \cup {Len(s) + 1}
    BY <2>2
  <2>4. QED BY <2>1, <2>3 DEF RowsIn
<1>3. CASE Len(rows) < CantidadEntradas
  <2>1. InsertRow(rows, row) = Append(rows, row)
    BY <1>3 DEF InsertRow
  <2>2. Len(rows) + 1 <= CantidadEntradas
    BY <1>1, <1>3
  <2>3. QED BY <1>2, <2>1, <2>2
<1>4. CASE Len(rows) = CantidadEntradas
  <2>1. rows # <<>>
    BY <1>1, <1>4
  <2>2. CASE ALGORITMO_TLB = "FIFO"
    <3>1. InsertRow(rows, row) = Append(Tail(rows), row)
      BY <1>1, <1>4, <2>2 DEF InsertRow
    <3>2. /\ Tail(rows) \in Seq(Row) /\ Len(Tail(rows)) = Len(rows) - 1
          /\ \A i \in 1 .. Len(rows) - 1 : Tail(rows)[i] = rows[i + 1]
      BY <2>1, HeadTailProperties
    <3>3. RowsIn(Tail(rows)) \subseteq RowsIn(rows)
      BY <1>1, <3>2 DEF RowsIn
    <3>4. Len(Tail(rows)) + 1 <= CantidadEntradas
      BY <1>1, <1>4, <3>2
    <3>5. QED BY <1>2, <2>2, <3>1, <3>2, <3>3, <3>4
  <2>3. CASE ALGORITMO_TLB = "LRU"
    <3> DEFINE m == FindMinimum(rows)
               rest == RemoveAt(rows, m)
    <3>1. /\ m \in 1 .. Len(rows)
          /\ (\A i \in 1 .. Len(rows) : rows[i].lastUsedTime <= IntMax)
               => \A i \in 1 .. Len(rows) : rows[m].lastUsedTime <= rows[i].lastUsedTime
      BY <2>1, MinimumFound
    <3>2. InsertRow(rows, row) = Append(rest, row)
      BY <1>1, <1>4, <2>3 DEF InsertRow
    <3> HIDE DEF m
    <3>3. /\ rest \in Seq(Row) /\ Len(rest) = Len(rows) - 1
          /\ \A i \in 1 .. Len(rest) : \E j \in 1 .. Len(rows) : rest[i] = rows[j]
          /\ \A j \in 1 .. Len(rows) : j # m => \E i \in 1 .. Len(rest) : rest[i] = rows[j]
      BY <3>1, RemoveAtRows
    <3> HIDE DEF rest
    <3>4. RowsIn(rest) \subseteq RowsIn(rows) /\ RowsIn(rows) \ {rows[m]} \subseteq RowsIn(rest)
      <4>1. ASSUME NEW r \in RowsIn(rest) PROVE r \in RowsIn(rows)
        <5>1. PICK i \in 1 .. Len(rest) : r = rest[i]
          BY DEF RowsIn
        <5>2. QED BY <3>3, <5>1 DEF RowsIn
      <4>2. ASSUME NEW r \in RowsIn(rows), r # rows[m]
            PROVE  r \in RowsIn(rest)
        <5>1. PICK j \in 1 .. Len(rows) : r = rows[j]
          BY DEF RowsIn
        <5>2. j # m
          BY <4>2, <5>1
        <5>3. QED BY <3>3, <5>1, <5>2 DEF RowsIn
      <4>3. QED BY <4>1, <4>2
    <3>5. Len(rest) + 1 <= CantidadEntradas
      BY <1>1, <1>4, <3>3
    <3>6. /\ rows[m] \in RowsIn(rows)
          /\ (\A r \in RowsIn(rows) : r.lastUsedTime <= IntMax)
               => \A r \in RowsIn(rows) : rows[m].lastUsedTime <= r.lastUsedTime
      BY <3>1 DEF RowsIn
    <3>7. /\ Append(rest, row) \in Seq(Row) /\ Len(Append(rest, row)) = Len(rest) + 1
          /\ RowsIn(Append(rest, row)) = RowsIn(rest) \cup {row}
      BY <1>2, <3>3
    <3>8. RowsIn(rows) \ {rows[m]} \subseteq RowsIn(Append(rest, row))
      BY <3>4, <3>7
    <3>9. QED BY <3>2, <3>4, <3>5, <3>6, <3>7, <3>8
  <2>4. QED BY <2>2, <2>3
<1>5. QED BY <1>1, <1>3, <1>4

-------------------------------------------------------------------------------

\* A RESIZE that frees no page leaves every frame where it was.
LEMMA ResizeKeepsFrames ==
    ASSUME IInv, NEW p \in Pids, NEW bytes \in Nat, Resize(p, bytes),
           ~(Len(PagesOf(p)') < Len(PagesOf(p)))
    PROVE  \A q \in Pids : \A i \in 1 .. Len(PagesOf(q)) :
             i \in 1 .. Len(PagesOf(q)') /\ PagesOf(q)'[i] = PagesOf(q)[i]
<1>1. PaginacionTypeOK /\ IdsSeguidos /\ idGlobal = 0 /\ PaginacionTypeOK'
  BY ResizeStep DEF IInv, IdsInv
<1>2. ASSUME NEW q \in Pids
      PROVE  /\ PagesOf(q) \in Seq(Pagina) /\ Len(PagesOf(q)) \in Nat
             /\ PagesOf(q)' \in Seq(Pagina) /\ Len(PagesOf(q)') \in Nat
  BY <1>1, PagesOfType DEF PaginacionTypeOK, PagesOf, Tabla
<1>3. CASE UNCHANGED pageTable
  BY <1>3 DEF PagesOf
<1>4. CASE CreateTable(p, bytes)
  <2>1. /\ pageTable[p] = NULL
        /\ \A q \in Pids \ {p} : pageTable'[q] = pageTable[q]
    BY <1>1, <1>4 DEF CreateTable, PaginacionTypeOK
  <2>2. PagesOf(p) = <<>> /\ \A q \in Pids \ {p} : PagesOf(q)' = PagesOf(q)
    BY <2>1 DEF PagesOf
  <2>3. QED BY <2>2
<1>5. ASSUME NEW pages \in Seq(Pagina), NEW last \in Nat,
             pageTable' = [pageTable EXCEPT ![p] = [pages |-> pages, lastUsedPageID |-> last]],
             \A i \in 1 .. Len(PagesOf(p)) : i \in 1 .. Len(pages) /\ pages[i] = PagesOf(p)[i]
      PROVE  \A q \in Pids : \A i \in 1 .. Len(PagesOf(q)) :
               i \in 1 .. Len(PagesOf(q)') /\ PagesOf(q)'[i] = PagesOf(q)[i]
  <2> DEFINE tabla == [pages |-> pages, lastUsedPageID |-> last]
  <2>1. tabla \in Tabla /\ tabla.pages = pages
    BY DEF Tabla
  <2>2. pageTable' = [pageTable EXCEPT ![p] = tabla]
    BY <1>5
  <2> HIDE DEF tabla
  <2>3. PagesOf(p)' = pages /\ OnlyPagesOf(p)
    BY <1>1, <2>1, <2>2, TableGiven
  <2>4. QED BY <1>5, <2>3 DEF OnlyPagesOf
<1>6. CASE Enlarge(p, bytes)
  <2> DEFINE n == CeilPages(bytes - CurrentSize(p))
             old == pageTable[p].lastUsedPageID
  <2>1. /\ pageTable[p] # NULL /\ pageTable[p].pages = PagesOf(p)
        /\ old \in Nat /\ bytes - CurrentSize(p) \in Nat
    BY <1>1, <1>6, PagesOfType DEF Enlarge, Tabla
  <2>2. n \in Nat
    BY <2>1, CeilPagesNat
  <2> HIDE DEF n, old
  <2>3. PICK fs \in SavedFrames(n) :
          pageTable' = [pageTable EXCEPT ![p] = [pages |-> PagesOf(p) \o NewPages(fs, old),
                                                  lastUsedPageID |-> old + Len(fs)]]
    BY <1>6, <2>1 DEF Enlarge, n, old
  <2>4. fs \in Seq(FreeFrames) /\ Len(fs) \in Nat
    BY <2>2, SavedFramesAreFree
  <2>5. NewPages(fs, old) \in Seq(Pagina)
    BY <2>1, <2>4, NewPagesType
  <2> DEFINE pages == PagesOf(p) \o NewPages(fs, old)
  <2>6. /\ pages \in Seq(Pagina) /\ Len(pages) = Len(PagesOf(p)) + Len(NewPages(fs, old))
        /\ \A i \in 1 .. Len(PagesOf(p)) : pages[i] = PagesOf(p)[i]
    BY <1>2, <2>5, ConcatenatedPages, ConcatProperties
  <2>7. Len(NewPages(fs, old)) \in Nat /\ old + Len(fs) \in Nat
    BY <2>1, <2>4, <2>5
  <2> HIDE DEF pages
  <2>8. \A i \in 1 .. Len(PagesOf(p)) : i \in 1 .. Len(pages)
    BY <1>2, <2>6, <2>7
  <2>9. pageTable' = [pageTable EXCEPT ![p] = [pages |-> pages, lastUsedPageID |-> old + Len(fs)]]
    BY <2>3 DEF pages
  <2>10. QED BY <1>5, <2>6, <2>7, <2>8, <2>9
<1>7. CASE Reduce(p, bytes)
  <2> DEFINE old == PagesOf(p)
             L == Len(old)
             c == CeilPages(L * PageLength - bytes)
             n == L - (c - 1)
  <2>1. /\ pageTable[p] # NULL /\ bytes < L * PageLength
        /\ pageTable' = [pageTable EXCEPT ![p] =
                           [pages |-> SubSeq(@.pages, 1, n),
                            lastUsedPageID |-> @.lastUsedPageID - (Len(@.pages) - n)]]
    BY <1>7 DEF Reduce, FreePagesFromTheEnd, PagesLeft, CurrentSize
  <2>2. /\ pageTable[p].pages = old /\ pageTable[p].lastUsedPageID = L
        /\ old \in Seq(Pagina) /\ L \in Nat /\ PageLength \in Nat \ {0}
    BY <1>1, <2>1, PagesOfType, ConstantesDePaginacion DEF IdsSeguidos
  <2>3. c \in 1 .. L
    <3>1. L * PageLength \in Nat
      BY <2>2
    <3>2. /\ L * PageLength - bytes \in Nat /\ 0 < L * PageLength - bytes
          /\ L * PageLength - bytes <= L * PageLength
      BY <2>1, <3>1
    <3>3. QED BY <2>2, <3>2, CeilPagesRange
  <2> HIDE DEF c
  <2>4. n \in 1 .. L
    BY <2>2, <2>3
  <2> HIDE DEF n
  <2> DEFINE pages == SubSeq(old, 1, n)
  <2>5. pages \in Seq(Pagina) /\ Len(pages) = n /\ \A i \in 1 .. n : pages[i] = old[i]
    <3> HIDE DEF old
    <3>1. QED BY <2>2, <2>4
  <2>6. pageTable' = [pageTable EXCEPT ![p] = [pages |-> pages, lastUsedPageID |-> n]]
    <3>1. L - (Len(old) - n) = n
      BY <2>2, <2>4
    <3>2. QED BY <2>1, <2>2, <3>1
  <2> DEFINE tabla == [pages |-> pages, lastUsedPageID |-> n]
  <2>7. tabla \in Tabla /\ tabla.pages = pages
    BY <2>4, <2>5 DEF Tabla
  <2> HIDE DEF tabla
  <2>8. PagesOf(p)' = pages
    BY <1>1, <2>6, <2>7, TableGiven DEF tabla
  <2>9. n = L
    BY <2>2, <2>4, <2>5, <2>8
  <2> HIDE DEF pages
  <2>10. QED BY <1>5, <2>2, <2>4, <2>5, <2>6, <2>9
<1>8. QED
  BY <1>3, <1>4, <1>6, <1>7 DEF Resize, CreateNothing, CreateFromNull, SameSize, OutOfMemory

-------------------------------------------------------------------------------
(* The inductive invariant. *)

\* What the times of the rows say of the uses of the pages.  No row is of a time
\* after the last use of its page, and under LRU one is of that time: there can be
\* several rows of a page, when one has had the frame -1, and if the row of that
\* time leaves, the others are of that time too.
UsosInv ==
    /\ \A k \in Pids \X PageNumbers : uses[k] <= clock
    /\ \A r \in RowsIn(TLB) : r.lastUsedTime <= uses[KeyOf(r)]
    /\ \A r, s \in RowsIn(TLB) : KeyOf(r) # KeyOf(s) => uses[KeyOf(r)] # uses[KeyOf(s)]
    /\ ALGORITMO_TLB = "LRU" /\ clock <= IntMax =>
         \A r \in RowsIn(TLB) : \E s \in RowsIn(TLB) :
            KeyOf(s) = KeyOf(r) /\ s.lastUsedTime = uses[KeyOf(r)]

MmuIInv == IInv /\ MmuTypeOK /\ TlbFiel /\ UsosInv

LEMMA KeysAreOfRows ==
    ASSUME NEW rows
    PROVE  KeysOf(rows) = {KeyOf(r) : r \in RowsIn(rows)}
BY DEF KeysOf, KeyOf, RowsIn

LEMMA RowsType ==
    ASSUME NEW rows \in Seq(Row)
    PROVE  \A r \in RowsIn(rows) :
             /\ r \in Row /\ KeyOf(r) \in Pids \X PageNumbers
             /\ r.pid \in Pids /\ r.page \in PageNumbers /\ r.lastUsedTime \in Nat
<1>1. \A i \in 1 .. Len(rows) : rows[i] \in Row
  OBVIOUS
<1>2. \A r \in RowsIn(rows) : r \in Row
  BY <1>1 DEF RowsIn
<1>3. QED BY <1>2 DEF Row, KeyOf

\* What the memory answers is a frame or -1.
LEMMA GetFrameType ==
    ASSUME PaginacionTypeOK, NEW p \in Pids, NEW page \in PageNumbers
    PROVE  GetFrame(p, page) \in Frames \cup {-1}
<1>1. page \in Nat /\ Len(PagesOf(p)) \in Nat
  BY ConstantesDeLaMmu, PagesOfType
<1>2. CASE page < Len(PagesOf(p))
  <2>1. page + 1 \in 1 .. Len(PagesOf(p))
    BY <1>1, <1>2
  <2>2. PagesOf(p)[page + 1] \in Pagina
    BY <2>1, PagesOfType
  <2>3. QED BY <1>2, <2>2 DEF GetFrame, Pagina
<1>3. CASE ~(page < Len(PagesOf(p)))
  BY <1>3 DEF GetFrame
<1>4. QED BY <1>2, <1>3

\* The lists that a translation leaves, in the terms of the invariant: every row
\* was there, as it was or renewed, or is the new one; the page that is translated
\* has a row of now; under LRU the one that leaves is the first that was used.
LEMMA TranslatedRows ==
    ASSUME MmuIInv, NEW p \in Pids, NEW page \in PageNumbers, Translate(p, page)
    PROVE  /\ TLB' \in Seq(Row) /\ Len(TLB') <= CantidadEntradas
           /\ \A r \in RowsIn(TLB') :
                \/ r \in RowsIn(TLB)
                \/ /\ KeyOf(r) = <<p, page>> /\ r.lastUsedTime = clock'
                   /\ \/ \E s \in RowsIn(TLB) : KeyOf(s) = KeyOf(r) /\ s.frame = r.frame
                      \/ r.frame = GetFrame(p, page)
           /\ \E r \in RowsIn(TLB') : KeyOf(r) = <<p, page>> /\ r.lastUsedTime = clock'
           /\ ALGORITMO_TLB = "LRU" /\ clock' <= IntMax =>
                \/ \A r \in RowsIn(TLB) : KeyOf(r) # <<p, page>> => r \in RowsIn(TLB')
                \/ \E v \in RowsIn(TLB) :
                     /\ \A r \in RowsIn(TLB) : KeyOf(r) # <<p, page>> =>
                          r = v \/ r \in RowsIn(TLB')
                     /\ \A r \in RowsIn(TLB) : KeyOf(r) # <<p, page>> =>
                          v.lastUsedTime <= r.lastUsedTime
<1> DEFINE q == <<p, page>>
           now == clock + 1
           t == Touched(p, page, now)
           new == [pid |-> p, page |-> page, frame |-> GetFrame(p, page), lastUsedTime |-> now]
<1>1. /\ TLB \in Seq(Row) /\ Len(TLB) <= CantidadEntradas /\ clock \in Nat
      /\ ALGORITMO_TLB \in {"FIFO", "LRU"} /\ PaginacionTypeOK
  BY ConstantesDeLaMmu DEF MmuIInv, MmuTypeOK
<1>2. clock' = now /\ now \in Nat /\ clock < now
  BY <1>1 DEF Translate
<1> HIDE DEF now
<1>3. /\ t \in Seq(Row) /\ Len(t) = Len(TLB)
      /\ \A i \in 1 .. Len(TLB) :
           /\ KeyOf(t[i]) = KeyOf(TLB[i]) /\ t[i].frame = TLB[i].frame
           /\ \/ t[i] = TLB[i]
              \/ KeyOf(TLB[i]) = q /\ t[i].lastUsedTime = now
      /\ FirstRow(p, page) # 0 =>
           \E i \in 1 .. Len(TLB) : KeyOf(TLB[i]) = q /\ t[i].lastUsedTime = now
  <2>1. TLB \in Seq(Row) /\ now \in Nat
    BY <1>1, <1>2
  <2>2. QED BY <2>1, TouchedRows
<1>4. TLB' = IF Hit(p, page) THEN t ELSE InsertRow(t, new)
  BY DEF Translate, BuscarFrameEnMemoria, now
<1> HIDE DEF t, q
<1>5. ASSUME NEW r \in RowsIn(t)
      PROVE  \/ r \in RowsIn(TLB)
             \/ /\ KeyOf(r) = q /\ r.lastUsedTime = now
                /\ \E s \in RowsIn(TLB) : KeyOf(s) = KeyOf(r) /\ s.frame = r.frame
  <2>1. PICK i \in 1 .. Len(TLB) : r = t[i]
    BY <1>3 DEF RowsIn
  <2>2. TLB[i] \in RowsIn(TLB)
    BY DEF RowsIn
  <2>3. QED BY <1>3, <2>1, <2>2
<1>6. ASSUME NEW r \in RowsIn(TLB), KeyOf(r) # q
      PROVE  r \in RowsIn(t)
  <2>1. PICK i \in 1 .. Len(TLB) : r = TLB[i]
    BY DEF RowsIn
  <2>2. t[i] = r
    BY <1>3, <1>6, <2>1
  <2>3. QED BY <1>3, <2>2 DEF RowsIn
<1>7. CASE Hit(p, page)
  <2>1. TLB' = t
    BY <1>4, <1>7
  <2>2. PICK i \in 1 .. Len(TLB) : KeyOf(TLB[i]) = q /\ t[i].lastUsedTime = now
    BY <1>3, <1>7 DEF Hit
  <2>3. t[i] \in RowsIn(t) /\ KeyOf(t[i]) = q
    BY <1>3, <2>2 DEF RowsIn
  <2>4. QED BY <1>1, <1>2, <1>3, <1>5, <1>6, <2>1, <2>2, <2>3 DEF q
<1>8. CASE ~Hit(p, page)
  <2>1. TLB' = InsertRow(t, new)
    BY <1>4, <1>8
  <2>2. new \in Row /\ KeyOf(new) = q /\ new.lastUsedTime = now /\ new.frame = GetFrame(p, page)
    BY <1>1, <1>2, GetFrameType DEF Row, KeyOf, q
  <2> HIDE DEF new
  <2>3. /\ TLB' \in Seq(Row) /\ Len(TLB') <= CantidadEntradas
        /\ new \in RowsIn(TLB') /\ RowsIn(TLB') \subseteq RowsIn(t) \cup {new}
        /\ ALGORITMO_TLB = "LRU" /\ (\A r \in RowsIn(t) : r.lastUsedTime <= IntMax) =>
             \/ RowsIn(t) \subseteq RowsIn(TLB')
             \/ \E v \in RowsIn(t) : /\ \A r \in RowsIn(t) : v.lastUsedTime <= r.lastUsedTime
                                     /\ RowsIn(t) \ {v} \subseteq RowsIn(TLB')
    BY <1>1, <1>3, <2>1, <2>2, InsertedRows
  <2>4. \A r \in RowsIn(TLB') :
          \/ r \in RowsIn(TLB)
          \/ /\ KeyOf(r) = q /\ r.lastUsedTime = now
             /\ \/ \E s \in RowsIn(TLB) : KeyOf(s) = KeyOf(r) /\ s.frame = r.frame
                \/ r.frame = GetFrame(p, page)
    BY <1>5, <2>2, <2>3
  <2>5. ASSUME ALGORITMO_TLB = "LRU", now <= IntMax
        PROVE  \/ \A r \in RowsIn(TLB) : KeyOf(r) # q => r \in RowsIn(TLB')
               \/ \E v \in RowsIn(TLB) :
                    /\ \A r \in RowsIn(TLB) : KeyOf(r) # q => r = v \/ r \in RowsIn(TLB')
                    /\ \A r \in RowsIn(TLB) : KeyOf(r) # q => v.lastUsedTime <= r.lastUsedTime
    <3>1. \A r \in RowsIn(TLB) : r.lastUsedTime \in Nat /\ r.lastUsedTime <= clock
      BY <1>1, RowsType DEF MmuIInv, MmuTypeOK, UsosInv
    <3>2. \A r \in RowsIn(t) : r.lastUsedTime <= IntMax
      BY <1>1, <1>2, <1>5, <2>5, <3>1, ConstantesDeLaMmu
    <3>3. CASE RowsIn(t) \subseteq RowsIn(TLB')
      BY <1>6, <3>3
    <3>4. ASSUME NEW v \in RowsIn(t), \A r \in RowsIn(t) : v.lastUsedTime <= r.lastUsedTime,
                 RowsIn(t) \ {v} \subseteq RowsIn(TLB')
          PROVE  \/ \A r \in RowsIn(TLB) : KeyOf(r) # q => r \in RowsIn(TLB')
                 \/ \E w \in RowsIn(TLB) :
                      /\ \A r \in RowsIn(TLB) : KeyOf(r) # q => r = w \/ r \in RowsIn(TLB')
                      /\ \A r \in RowsIn(TLB) : KeyOf(r) # q => w.lastUsedTime <= r.lastUsedTime
      <4>1. CASE v \in RowsIn(TLB)
        BY <1>6, <3>4, <4>1
      <4>2. CASE v \notin RowsIn(TLB)
        BY <1>5, <1>6, <3>4, <4>2
      <4>3. QED BY <4>1, <4>2
    <3>5. QED BY <2>3, <2>5, <3>2, <3>3, <3>4
  <2>6. QED BY <1>2, <2>2, <2>3, <2>4, <2>5 DEF q
<1>9. QED BY <1>7, <1>8

-------------------------------------------------------------------------------
(* The steps. *)

\* In the terms of RowsIn.
LEMMA FielPorFilas ==
    TlbFiel <=> (~reduced => \A r \in RowsIn(TLB) : r.frame # -1 => RowIsRight(r))
BY DEF TlbFiel, RowsIn

\* A translation renews rows of the page and adds one that is right.
LEMMA TranslateStep ==
    ASSUME MmuIInv, NEW p \in Pids, NEW page \in PageNumbers, Translate(p, page)
    PROVE  MmuIInv'
<1> DEFINE q == <<p, page>>
<1>1. /\ TLB \in Seq(Row) /\ clock \in Nat /\ uses \in [Pids \X PageNumbers -> Nat]
      /\ MaxClock \in Nat
  BY ConstantesDeLaMmu DEF MmuIInv, MmuTypeOK
<1>2. /\ clock' = clock + 1 /\ clock' \in Nat /\ clock' <= MaxClock
      /\ uses' = [k \in Pids \X PageNumbers |->
                    IF k \notin KeysOf(TLB') THEN 0 ELSE IF k = q THEN clock' ELSE uses[k]]
      /\ UNCHANGED <<paginacionVars, ALGORITMO_TLB, reduced>>
  BY <1>1 DEF Translate
<1>3. /\ TLB' \in Seq(Row) /\ Len(TLB') <= CantidadEntradas
      /\ \A r \in RowsIn(TLB') :
           \/ r \in RowsIn(TLB)
           \/ /\ KeyOf(r) = q /\ r.lastUsedTime = clock'
              /\ \/ \E s \in RowsIn(TLB) : KeyOf(s) = KeyOf(r) /\ s.frame = r.frame
                 \/ r.frame = GetFrame(p, page)
      /\ \E r \in RowsIn(TLB') : KeyOf(r) = q /\ r.lastUsedTime = clock'
  BY TranslatedRows
<1>4. ALGORITMO_TLB = "LRU" /\ clock' <= IntMax =>
        \/ \A r \in RowsIn(TLB) : KeyOf(r) # q => r \in RowsIn(TLB')
        \/ \E v \in RowsIn(TLB) :
             /\ \A r \in RowsIn(TLB) : KeyOf(r) # q => r = v \/ r \in RowsIn(TLB')
             /\ \A r \in RowsIn(TLB) : KeyOf(r) # q => v.lastUsedTime <= r.lastUsedTime
  BY TranslatedRows
<1> HIDE DEF q
<1>5. \A r \in RowsIn(TLB') : KeyOf(r) \in Pids \X PageNumbers /\ r.lastUsedTime \in Nat
                              /\ r.pid \in Pids /\ r.page \in PageNumbers
  BY <1>3, RowsType
<1>6. \A r \in RowsIn(TLB) : KeyOf(r) \in Pids \X PageNumbers /\ r.lastUsedTime \in Nat
  BY <1>1, RowsType
<1>7. /\ \A r \in RowsIn(TLB') :
           /\ KeyOf(r) = q => uses'[KeyOf(r)] = clock'
           /\ KeyOf(r) # q => r \in RowsIn(TLB) /\ uses'[KeyOf(r)] = uses[KeyOf(r)]
  BY <1>2, <1>3, <1>5, KeysAreOfRows
<1>8. IInv'
  BY <1>2 DEF MmuIInv, IInv, IdsInv, paginacionVars, PaginacionTypeOK, MarcosExclusivos,
     IdsSeguidos, TamanioPedido, PagesOf, CurrentSize
<1>9. MmuTypeOK'
  <2>1. PaginacionTypeOK'
    BY <1>8 DEF IInv
  <2>2. clock' \in 0 .. MaxClock
    BY <1>1, <1>2
  <2>3. uses' \in [Pids \X PageNumbers -> Nat]
    BY <1>1, <1>2
  <2>4. QED BY <1>2, <1>3, <2>1, <2>2, <2>3 DEF MmuIInv, MmuTypeOK
<1>10. TlbFiel'
  <2>0. SUFFICES ASSUME ~reduced, NEW i \in 1 .. Len(TLB'), TLB'[i].frame # -1
               PROVE  TLB'[i].frame = GetFrame(TLB'[i].pid, TLB'[i].page)
    BY <1>2 DEF TlbFiel, RowIsRight, GetFrame, PagesOf, paginacionVars
  <2> DEFINE r == TLB'[i]
  <2>2. r \in RowsIn(TLB') /\ r.frame # -1
    BY <2>0 DEF RowsIn
  <2> HIDE DEF r
  <2>1. \A s \in RowsIn(TLB) : s.frame # -1 => s.frame = GetFrame(s.pid, s.page)
    BY <2>0, FielPorFilas DEF MmuIInv, RowIsRight
  <2>3. CASE r \in RowsIn(TLB)
    BY <2>1, <2>2, <2>3 DEF r
  <2>4. CASE \E s \in RowsIn(TLB) : KeyOf(s) = KeyOf(r) /\ s.frame = r.frame
    <3>1. PICK s \in RowsIn(TLB) : KeyOf(s) = KeyOf(r) /\ s.frame = r.frame
      BY <2>4
    <3>2. s.pid = r.pid /\ s.page = r.page
      BY <3>1 DEF KeyOf
    <3>3. QED BY <2>1, <2>2, <3>1, <3>2 DEF r
  <2>5. CASE KeyOf(r) = q /\ r.frame = GetFrame(p, page)
    <3>1. r.pid = p /\ r.page = page
      BY <2>5 DEF KeyOf, q
    <3>2. QED BY <2>5, <3>1 DEF r
  <2>6. QED BY <1>3, <2>2, <2>3, <2>4, <2>5
<1>11. UsosInv'
  <2> DEFINE now == clock'
  <2>0. now = clock + 1 /\ now \in Nat /\ clock \in Nat
    BY <1>1, <1>2
  <2>1. \A k \in Pids \X PageNumbers : uses'[k] <= clock'
    BY <1>1, <1>2 DEF MmuIInv, UsosInv
  <2>2. \A r \in RowsIn(TLB') : r.lastUsedTime <= uses'[KeyOf(r)]
    <3> TAKE r \in RowsIn(TLB')
    <3>1. CASE KeyOf(r) # q
      BY <1>7, <3>1 DEF MmuIInv, UsosInv
    <3>2. CASE KeyOf(r) = q /\ r \in RowsIn(TLB)
      <4>1. r.lastUsedTime <= uses[KeyOf(r)] /\ uses[KeyOf(r)] <= clock /\ uses[KeyOf(r)] \in Nat
        BY <1>1, <1>6, <3>2 DEF MmuIInv, UsosInv
      <4>2. uses'[KeyOf(r)] = now /\ r.lastUsedTime \in Nat
        BY <1>6, <1>7, <3>2
      <4> HIDE DEF now
      <4>3. QED BY <2>0, <4>1, <4>2
    <3>3. CASE KeyOf(r) = q /\ r.lastUsedTime = clock'
      <4>1. uses'[KeyOf(r)] = now /\ r.lastUsedTime = now
        BY <1>7, <3>3
      <4> HIDE DEF now
      <4>2. QED BY <2>0, <4>1
    <3>4. QED BY <1>3, <3>1, <3>2, <3>3
  <2>3. \A r, s \in RowsIn(TLB') : KeyOf(r) # KeyOf(s) => uses'[KeyOf(r)] # uses'[KeyOf(s)]
    <3>1. ASSUME NEW r \in RowsIn(TLB'), KeyOf(r) # q
          PROVE  uses'[KeyOf(r)] < clock' /\ uses'[KeyOf(r)] = uses[KeyOf(r)]
      <4>1. uses[KeyOf(r)] \in Nat /\ uses[KeyOf(r)] <= clock
        BY <1>1, <1>5 DEF MmuIInv, UsosInv
      <4>2. uses'[KeyOf(r)] = uses[KeyOf(r)]
        BY <1>7, <3>1
      <4>3. uses[KeyOf(r)] < now
        <5> HIDE DEF now
        <5>1. QED BY <2>0, <4>1
      <4>4. QED BY <4>2, <4>3
    <3>0. \A r \in RowsIn(TLB') : KeyOf(r) = q => uses'[KeyOf(r)] = now
      BY <1>7
    <3>1a. \A r \in RowsIn(TLB') :
             KeyOf(r) # q => uses'[KeyOf(r)] < now /\ uses'[KeyOf(r)] = uses[KeyOf(r)]
      BY <3>1
    <3> HIDE DEF now
    <3> TAKE r, s \in RowsIn(TLB')
    <3> HAVE KeyOf(r) # KeyOf(s)
    <3>2. CASE KeyOf(r) = q
      BY <2>0, <3>0, <3>1a, <3>2
    <3>3. CASE KeyOf(s) = q
      BY <2>0, <3>0, <3>1a, <3>3
    <3>4. CASE KeyOf(r) # q /\ KeyOf(s) # q
      BY <1>7, <3>4 DEF MmuIInv, UsosInv
    <3>5. QED BY <3>2, <3>3, <3>4
  <2>4. ASSUME ALGORITMO_TLB' = "LRU", clock' <= IntMax, NEW r \in RowsIn(TLB')
        PROVE  \E s \in RowsIn(TLB') : KeyOf(s) = KeyOf(r) /\ s.lastUsedTime = uses'[KeyOf(r)]
    <3>1. ALGORITMO_TLB = "LRU" /\ clock <= IntMax
      BY <1>1, <1>2, <2>4, ConstantesDeLaMmu
    <3>2. CASE KeyOf(r) = q
      BY <1>3, <1>7, <3>2
    <3>3. CASE KeyOf(r) # q
      <4>1. r \in RowsIn(TLB) /\ uses'[KeyOf(r)] = uses[KeyOf(r)]
        BY <1>7, <3>3
      <4>2. PICK s \in RowsIn(TLB) : KeyOf(s) = KeyOf(r) /\ s.lastUsedTime = uses[KeyOf(r)]
        BY <3>1, <4>1 DEF MmuIInv, UsosInv
      <4>3. CASE s \in RowsIn(TLB')
        BY <4>1, <4>2, <4>3
      <4>4. CASE s \notin RowsIn(TLB')
        <5>1. s.lastUsedTime <= r.lastUsedTime
          BY <1>4, <2>4, <3>1, <3>3, <4>1, <4>2, <4>4
        <5>2. r.lastUsedTime <= uses[KeyOf(r)]
          BY <4>1 DEF MmuIInv, UsosInv
        <5>3. r.lastUsedTime = uses[KeyOf(r)]
          <6>1. r.lastUsedTime \in Nat /\ s.lastUsedTime \in Nat
            BY <1>6, <4>1
          <6>2. QED BY <4>2, <5>1, <5>2, <6>1
        <5>4. QED BY <4>1, <5>3
      <4>5. QED BY <4>3, <4>4
    <3>4. QED BY <3>2, <3>3
  <2>5. QED BY <2>1, <2>2, <2>3, <2>4 DEF UsosInv
<1>12. QED BY <1>8, <1>9, <1>10, <1>11 DEF MmuIInv

\* A RESIZE that frees no page leaves the rows of the TLB right.
LEMMA ResizeProcessStep ==
    ASSUME MmuIInv, NEW p \in Pids, NEW bytes \in Nat, ResizeProcess(p, bytes)
    PROVE  MmuIInv'
<1>1. /\ Resize(p, bytes) /\ UNCHANGED <<TLB, ALGORITMO_TLB, clock, uses>>
      /\ reduced' = (reduced \/ Len(PagesOf(p)') < Len(PagesOf(p)))
  BY DEF ResizeProcess
<1>2. IInv'
  BY <1>1, ResizeStep DEF MmuIInv
<1>3. reduced' \in BOOLEAN
  BY <1>1
<1>4. MmuTypeOK'
  BY <1>1, <1>2, <1>3 DEF MmuIInv, MmuTypeOK, IInv
<1>5. UsosInv'
  BY <1>1 DEF MmuIInv, UsosInv, RowsIn, KeyOf
<1>6. TlbFiel'
  <2> SUFFICES ASSUME ~reduced', NEW i \in 1 .. Len(TLB), TLB[i].frame # -1
               PROVE  TLB[i].frame = GetFrame(TLB[i].pid, TLB[i].page)'
    BY <1>1 DEF TlbFiel, RowIsRight
  <2>1. ~reduced /\ ~(Len(PagesOf(p)') < Len(PagesOf(p)))
    BY <1>1
  <2>2. PICK q \in Pids, page \in Nat : q = TLB[i].pid /\ page = TLB[i].page
    <3>1. TLB[i] \in Row
      BY DEF MmuIInv, MmuTypeOK
    <3>2. QED BY <3>1, ConstantesDeLaMmu DEF Row
  <2>3. TLB[i].frame = GetFrame(q, page) /\ TLB[i].frame # -1
    BY <2>1, <2>2 DEF MmuIInv, TlbFiel, RowIsRight
  <2>4. page < Len(PagesOf(q)) /\ TLB[i].frame = PagesOf(q)[page + 1].frame_ppal
    BY <2>3 DEF GetFrame
  <2>5. PagesOf(q) \in Seq(Pagina)
    BY PagesOfType DEF MmuIInv, IInv
  <2>6. page + 1 \in 1 .. Len(PagesOf(q))
    BY <2>4, <2>5
  <2>7. page + 1 \in 1 .. Len(PagesOf(q)') /\ PagesOf(q)'[page + 1] = PagesOf(q)[page + 1]
    <3>1. \A o \in Pids : \A j \in 1 .. Len(PagesOf(o)) :
            j \in 1 .. Len(PagesOf(o)') /\ PagesOf(o)'[j] = PagesOf(o)[j]
      BY <1>1, <2>1, ResizeKeepsFrames DEF MmuIInv
    <3>2. QED BY <2>6, <3>1
  <2>8. GetFrame(q, page)' = PagesOf(q)'[page + 1].frame_ppal
    <3>1. page < Len(PagesOf(q)')
      BY <2>7
    <3>2. GetFrame(q, page)' = IF page < Len(PagesOf(q)')
                                 THEN PagesOf(q)'[page + 1].frame_ppal ELSE -1
      BY DEF GetFrame
    <3>3. QED BY <3>1, <3>2
  <2>9. GetFrame(TLB[i].pid, TLB[i].page)' = GetFrame(q, page)'
    BY <1>1, <2>2 DEF GetFrame, PagesOf
  <2>10. QED BY <2>4, <2>7, <2>8, <2>9
<1>7. QED BY <1>2, <1>4, <1>5, <1>6 DEF MmuIInv

-------------------------------------------------------------------------------
(* The theorems. *)

LEMMA InitMmuIInv == MmuInit => MmuIInv
<1> SUFFICES ASSUME MmuInit PROVE MmuIInv
  OBVIOUS
<1>1. PaginacionInit /\ TLB = <<>> /\ RowsIn(TLB) = {}
  BY DEF MmuInit, RowsIn
<1>2. IInv
  BY <1>1, InitIInv
<1>3. MmuTypeOK
  <2>1. TLB \in Seq(Row) /\ Len(TLB) = 0
    BY <1>1
  <2>2. 0 <= CantidadEntradas /\ 0 \in 0 .. MaxClock
    BY ConstantesDeLaMmu
  <2>3. uses \in [Pids \X PageNumbers -> Nat]
    BY DEF MmuInit
  <2>4. QED BY <1>2, <2>1, <2>2, <2>3 DEF MmuInit, MmuTypeOK, IInv
<1>4. TlbFiel
  BY <1>1, FielPorFilas
<1>5. UsosInv
  BY <1>1 DEF MmuInit, UsosInv
<1>6. QED BY <1>2, <1>3, <1>4, <1>5 DEF MmuIInv

THEOREM InvarianteDeLaMmu == MmuSpec => []MmuIInv
<1>1. MmuIInv /\ [MmuNext]_<<paginacionVars, mmuVars>> => MmuIInv'
  <2> SUFFICES ASSUME MmuIInv, [MmuNext]_<<paginacionVars, mmuVars>> PROVE MmuIInv'
    OBVIOUS
  <2>1. CASE \E p \in Pids, bytes \in Tamanios : ResizeProcess(p, bytes)
    <3>1. PICK p \in Pids, bytes \in Tamanios : ResizeProcess(p, bytes)
      BY <2>1
    <3>2. bytes \in Nat
      BY ConstantesDePaginacion
    <3>3. QED BY <3>1, <3>2, ResizeProcessStep
  <2>2. CASE \E p \in Pids, page \in PageNumbers : Translate(p, page)
    BY <2>2, TranslateStep
  <2>3. CASE UNCHANGED <<paginacionVars, mmuVars>>
    <3>1. IInv'
      BY <2>3 DEF MmuIInv, IInv, IdsInv, paginacionVars, PaginacionTypeOK, MarcosExclusivos,
         IdsSeguidos, TamanioPedido, PagesOf, CurrentSize
    <3>2. MmuTypeOK'
      BY <2>3, <3>1 DEF MmuIInv, IInv, MmuTypeOK, mmuVars
    <3>3. TlbFiel'
      BY <2>3 DEF MmuIInv, TlbFiel, RowIsRight, GetFrame, PagesOf, paginacionVars, mmuVars
    <3>4. UsosInv'
      BY <2>3 DEF MmuIInv, UsosInv, RowsIn, KeyOf, mmuVars
    <3>5. QED BY <3>1, <3>2, <3>3, <3>4 DEF MmuIInv
  <2>4. QED BY <2>1, <2>2, <2>3 DEF MmuNext
<1>2. QED BY <1>1, InitMmuIInv, PTL DEF MmuSpec

\* Every variable keeps its type: the TLB has never more rows than it may, and what
\* the memory answers is a frame or -1.
THEOREM LaMmuEstaEnTipo == MmuSpec => []MmuTypeOK
<1>1. MmuIInv => MmuTypeOK
  BY DEF MmuIInv
<1>2. QED BY <1>1, InvarianteDeLaMmu, PTL

\* Until a RESIZE frees a page, what a row of the TLB says is what the memory would
\* answer, with either replacement: see TlbFiel.
THEOREM LaTlbEsFiel == MmuSpec => []TlbFiel
<1>1. MmuIInv => TlbFiel
  BY DEF MmuIInv
<1>2. QED BY <1>1, InvarianteDeLaMmu, PTL

\* LRU replaces the row of the page that was used before the others, as long as the
\* microseconds fit in an int and no row has the frame -1: see VictimaLru.
THEOREM LruSacaElMenosUsado == MmuSpec => VictimaLru
<1>1. MmuIInv /\ [MmuNext]_<<paginacionVars, mmuVars>>
        => [SaleElMenosUsado]_<<paginacionVars, mmuVars>>
  <2> SUFFICES ASSUME MmuIInv, MmuNext,
                      ALGORITMO_TLB = "LRU", clock' <= IntMax,
                      \A i \in 1 .. Len(TLB) : TLB[i].frame # -1,
                      NEW k \in KeysOf(TLB) \ KeysOf(TLB'), NEW l \in KeysOf(TLB) \cap KeysOf(TLB')
               PROVE  uses[k] < uses[l]
    BY DEF SaleElMenosUsado
  <2>1. TLB \in Seq(Row) /\ clock \in Nat /\ uses \in [Pids \X PageNumbers -> Nat]
    BY DEF MmuIInv, MmuTypeOK
  <2>2. PICK a \in RowsIn(TLB) : KeyOf(a) = k
    BY KeysAreOfRows
  <2>3. PICK b \in RowsIn(TLB) : KeyOf(b) = l
    BY KeysAreOfRows
  <2>4. k # l /\ uses[k] # uses[l] /\ uses[k] \in Nat /\ uses[l] \in Nat
    BY <2>1, <2>2, <2>3, RowsType DEF MmuIInv, UsosInv
  <2>5. \A r \in RowsIn(TLB') : KeyOf(r) # k
    BY KeysAreOfRows
  <2>6. PICK p \in Pids, page \in PageNumbers : Translate(p, page)
    <3>1. ASSUME NEW p \in Pids, NEW bytes \in Tamanios, ResizeProcess(p, bytes) PROVE FALSE
      BY <3>1 DEF ResizeProcess, KeysOf
    <3>2. QED BY <3>1 DEF MmuNext
  <2>7. <<p, page>> # k
    BY <2>5, <2>6, TranslatedRows
  <2>8. a \notin RowsIn(TLB') /\ KeyOf(a) # <<p, page>>
    BY <2>2, <2>5, <2>7
  <2>9. <<p, page>> \notin KeysOf(TLB)
    <3>1. CASE FirstRow(p, page) = 0
      BY <2>1, <3>1, FirstRowFound DEF KeysOf, KeyOf
    <3>2. CASE FirstRow(p, page) # 0
      <4>1. Hit(p, page)
        BY <2>1, <3>2, FirstRowFound DEF Hit
      <4>2. TLB' = Touched(p, page, clock + 1) /\ clock + 1 \in Nat
        BY <2>1, <2>6, <4>1 DEF Translate
      <4>3. /\ Len(TLB') = Len(TLB)
            /\ \A i \in 1 .. Len(TLB) : KeyOf(TLB'[i]) = KeyOf(TLB[i])
        BY <2>1, <4>2, TouchedRows
      <4>4. KeysOf(TLB') = KeysOf(TLB)
        BY <4>3 DEF KeysOf, KeyOf
      <4>5. QED BY <4>4
    <3>3. QED BY <3>1, <3>2
  <2>10. l # <<p, page>>
    BY <2>9
  <2>11. PICK v \in RowsIn(TLB) :
           /\ \A r \in RowsIn(TLB) : KeyOf(r) # <<p, page>> => r = v \/ r \in RowsIn(TLB')
           /\ \A r \in RowsIn(TLB) : KeyOf(r) # <<p, page>> => v.lastUsedTime <= r.lastUsedTime
    BY <2>6, <2>8, TranslatedRows
  <2>12. clock <= IntMax
    BY <2>1, <2>6, ConstantesDeLaMmu DEF Translate
  <2>13. PICK c \in RowsIn(TLB) : KeyOf(c) = k /\ c.lastUsedTime = uses[k]
    BY <2>2, <2>12 DEF MmuIInv, UsosInv
  <2>14. c = v
    BY <2>5, <2>7, <2>11, <2>13
  <2>15. v.lastUsedTime <= b.lastUsedTime /\ b.lastUsedTime <= uses[l]
    BY <2>3, <2>10, <2>11 DEF MmuIInv, UsosInv
  <2>16. b.lastUsedTime \in Nat
    BY <2>1, RowsType
  <2>17. uses[k] <= uses[l]
    BY <2>4, <2>13, <2>14, <2>15, <2>16
  <2>18. QED BY <2>4, <2>17
<1>2. QED BY <1>1, InvarianteDeLaMmu, PTL DEF MmuSpec, VictimaLru

===============================================================================
