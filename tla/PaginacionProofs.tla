---------------------------- MODULE PaginacionProofs ----------------------------
(***************************************************************************)
(* Theorems about Paginacion, for any number of processes, frames and      *)
(* bytes, any size of a page and any sequence of RESIZE.                   *)
(***************************************************************************)
EXTENDS Paginacion, FiniteSetTheorems, TLAPS

-------------------------------------------------------------------------------
(* Sizes. *)

\* The pages of some bytes are a natural number.
LEMMA CeilPagesNat ==
    ASSUME NEW bytes \in Nat
    PROVE  CeilPages(bytes) \in Nat
<1>1. PageLength \in Nat \ {0}
  BY ConstantesDePaginacion
<1>2. bytes + PageLength - 1 \in Nat
  BY <1>1
<1> QED
  BY <1>1, <1>2 DEF CeilPages

\* What is taken from the end of a table of pages is at least one page and at
\* most all of them.
LEMMA CeilPagesRange ==
    ASSUME NEW pages \in Nat, NEW bytes \in Nat,
           0 < bytes, bytes <= pages * PageLength
    PROVE  CeilPages(bytes) \in 1 .. pages
<1> DEFINE q == CeilPages(bytes)
<1> DEFINE r == (bytes + PageLength - 1) % PageLength
<1>1. PageLength \in Nat \ {0}
  BY ConstantesDePaginacion
<1>2. q \in Nat /\ r \in 0 .. PageLength - 1
  BY <1>1, CeilPagesNat
<1>3. bytes + PageLength - 1 = PageLength * q + r
  BY <1>1 DEF CeilPages
<1> HIDE DEF q, r
<1>4. q # 0
  BY <1>1, <1>2, <1>3
<1>5. q <= pages
  <2>1. SUFFICES ASSUME q >= pages + 1
                 PROVE  FALSE
    BY <1>2
  <2>2. PageLength * q >= PageLength * (pages + 1)
    BY <1>1, <1>2, <2>1
  <2>3. PageLength * (pages + 1) = pages * PageLength + PageLength
    BY <1>1
  <2>4. pages * PageLength \in Nat /\ PageLength * q \in Nat /\ PageLength * (pages + 1) \in Nat
    BY <1>1, <1>2
  <2> QED
    BY <1>1, <1>2, <1>3, <2>2, <2>3, <2>4
<1> QED
  BY <1>2, <1>4, <1>5 DEF q

\* The pages of some bytes hold them, with less than a page to spare.
LEMMA CeilPagesBounds ==
    ASSUME NEW bytes \in Nat
    PROVE  /\ bytes <= PageLength * CeilPages(bytes)
           /\ PageLength * CeilPages(bytes) < bytes + PageLength
<1> DEFINE q == CeilPages(bytes)
<1> DEFINE r == (bytes + PageLength - 1) % PageLength
<1>1. PageLength \in Nat \ {0}
  BY ConstantesDePaginacion
<1>2. q \in Nat /\ r \in 0 .. PageLength - 1
  BY <1>1, CeilPagesNat
<1>3. bytes + PageLength - 1 = PageLength * q + r
  BY <1>1 DEF CeilPages
<1> HIDE DEF q, r
<1>4. PageLength * q \in Nat
  BY <1>1, <1>2
<1> QED
  BY <1>1, <1>2, <1>3, <1>4 DEF q

-------------------------------------------------------------------------------
(* Frames and pages. *)

\* The frames that saveInPage takes are free, and it takes each one once.
LEMMA SavedFramesAreFree ==
    ASSUME NEW n \in Nat, NEW fs \in SavedFrames(n)
    PROVE  /\ fs \in Seq(FreeFrames)
           /\ \A i, j \in 1 .. Len(fs) : fs[i] = fs[j] => i = j
<1>1. PICK k \in StrlenPages(n) : fs \in FirstFree(k)
  BY DEF SavedFrames
<1>2. PICK m \in 0 .. k : fs \in [1 .. m -> FreeFrames]
  BY <1>1 DEF FirstFree
<1>3. k \in Nat
  BY <1>1 DEF StrlenPages
<1>4. m \in Nat
  BY <1>2, <1>3
<1>5. fs \in Seq(FreeFrames) /\ Len(fs) = m
  BY <1>2, <1>4
<1>6. \A i, j \in 1 .. Len(fs) : i < j => fs[i] < fs[j]
  BY <1>1 DEF FirstFree
<1>7. \A i \in 1 .. Len(fs) : fs[i] \in Int
  BY <1>5 DEF FreeFrames, Frames
<1>8. ASSUME NEW i \in 1 .. Len(fs), NEW j \in 1 .. Len(fs), fs[i] = fs[j]
      PROVE  i = j
  BY <1>4, <1>5, <1>6, <1>7, <1>8
<1> QED
  BY <1>5, <1>8

\* There are as many as the pages asked for, or one more, if there was room.
LEMMA SavedFramesAreEnough ==
    ASSUME NEW n \in Nat, NEW fs \in SavedFrames(n),
           IsThereRoomInYourPage(n), n = 0 => fs # <<>>
    PROVE  Len(fs) \in (IF n = 0 THEN 1 ELSE n) .. n + 1
<1>1. PICK k \in StrlenPages(n) : fs \in FirstFree(k)
  BY DEF SavedFrames
<1>2. PICK m \in 0 .. k : fs \in [1 .. m -> FreeFrames]
  BY <1>1 DEF FirstFree
<1>3. k \in Nat /\ k \in (IF n = 0 THEN 1 ELSE n) .. n + 1
  BY <1>1 DEF StrlenPages
<1>4. fs \in Seq(FreeFrames) /\ Len(fs) = m /\ m \in Nat /\ m <= k
  BY <1>2, <1>3
<1>5. CASE m = k
  BY <1>3, <1>4, <1>5
<1>6. CASE m # k
  <2>1. \A f \in FreeFrames : \E i \in 1 .. m : fs[i] = f
    BY <1>1, <1>4, <1>6 DEF FirstFree
  <2>2. \A i, j \in 1 .. m : fs[i] = fs[j] => i = j
    BY <1>4, SavedFramesAreFree
  <2>3. fs \in Bijection(1 .. m, FreeFrames)
    <3>1. fs \in Injection(1 .. m, FreeFrames)
      BY <1>2, <2>2 DEF Injection, IsInjective
    <3>2. fs \in Surjection(1 .. m, FreeFrames)
      BY <1>2, <2>1 DEF Surjection
    <3> QED
      BY <3>1, <3>2 DEF Bijection
  <2>4. IsFiniteSet(1 .. m) /\ Cardinality(1 .. m) = m
    <3>1. Cardinality(1 .. m) = IF 1 > m THEN 0 ELSE m - 1 + 1
      BY <1>4, FS_Interval
    <3> QED
      BY <1>4, <3>1, FS_Interval
  <2>5. Cardinality(FreeFrames) = m
    BY <2>3, <2>4, FS_Bijection DEF ExistsBijection
  <2>6. n <= m
    BY <2>5 DEF IsThereRoomInYourPage
  <2>7. n = 0 => m # 0
    BY <1>4
  <2> QED
    BY <1>3, <1>4, <2>6, <2>7
<1> QED
  BY <1>5, <1>6

\* A page for each frame.
LEMMA NewPagesType ==
    ASSUME NEW fs \in Seq(FreeFrames), NEW firstId \in Nat
    PROVE  /\ NewPages(fs, firstId) \in Seq(Pagina)
           /\ Len(NewPages(fs, firstId)) = Len(fs)
           /\ \A i \in 1 .. Len(fs) : /\ NewPages(fs, firstId)[i].frame_ppal = fs[i]
                                      /\ NewPages(fs, firstId)[i].id = firstId + i - 1
<1>1. ASSUME NEW i \in 1 .. Len(fs)
      PROVE  [id |-> firstId + i - 1, frame_ppal |-> fs[i]] \in Pagina
  <2>1. fs[i] \in Frames
    BY DEF FreeFrames
  <2>2. firstId + i - 1 \in Nat
    OBVIOUS
  <2> QED
    BY <2>1, <2>2 DEF Pagina
<1>2. Len(fs) \in Nat
  OBVIOUS
<1> QED
  BY <1>1, <1>2 DEF NewPages

\* The pages of a process, whether it has a table or not.
LEMMA PagesOfType ==
    ASSUME PaginacionTypeOK, NEW p \in Pids
    PROVE  /\ PagesOf(p) \in Seq(Pagina)
           /\ Len(PagesOf(p)) \in Nat
           /\ \A i \in 1 .. Len(PagesOf(p)) : PagesOf(p)[i] \in Pagina
           /\ CurrentSize(p) \in Nat
           /\ pageTable[p] # NULL
                => /\ pageTable[p] \in Tabla
                   /\ pageTable[p].pages = PagesOf(p)
                   /\ pageTable[p].lastUsedPageID \in Nat
<1>1. pageTable[p] \in Tabla \cup {NULL}
  BY DEF PaginacionTypeOK
<1>2. PagesOf(p) \in Seq(Pagina)
  BY <1>1 DEF PagesOf, Tabla
<1>3. PageLength \in Nat
  BY ConstantesDePaginacion
<1>4. Len(PagesOf(p)) \in Nat
  BY <1>2
<1>5. CurrentSize(p) \in Nat
  BY <1>3, <1>4 DEF CurrentSize
<1> QED
  BY <1>1, <1>2, <1>4, <1>5 DEF PagesOf, Tabla

-------------------------------------------------------------------------------
(* What a step does to the pages of one process, and to no other's. *)

\* The owners of frames, with a name for each half of MarcosExclusivos.
BitmapIsUnion == bitArrayOcupiedFrames = UNION {FramesOf(PagesOf(p)) : p \in Pids}

OneOwner ==
    \A p, q \in Pids : \A i \in 1 .. Len(PagesOf(p)), j \in 1 .. Len(PagesOf(q)) :
        PagesOf(p)[i].frame_ppal = PagesOf(q)[j].frame_ppal => p = q /\ i = j

OnlyPagesOf(p) == \A q \in Pids \ {p} : PagesOf(q)' = PagesOf(q)

\* The elements of a concatenation.
LEMMA ConcatenatedPages ==
    ASSUME NEW s \in Seq(Pagina), NEW t \in Seq(Pagina)
    PROVE  /\ Len(s \o t) = Len(s) + Len(t)
           /\ \A i \in 1 .. Len(s) : (s \o t)[i] = s[i]
           /\ \A k \in 1 .. Len(t) : (s \o t)[Len(s) + k] = t[k]
<1>1. Len(s \o t) = Len(s) + Len(t) /\ Len(s) \in Nat /\ Len(t) \in Nat
  OBVIOUS
<1>2. ASSUME NEW i \in 1 .. Len(s)
      PROVE  (s \o t)[i] = s[i]
  OBVIOUS
<1>3. ASSUME NEW k \in 1 .. Len(t)
      PROVE  (s \o t)[Len(s) + k] = t[k]
  OBVIOUS
<1> QED
  BY <1>1, <1>2, <1>3

\* Pages with frames that were free, at the end of a table.
LEMMA AddingPages ==
    ASSUME PaginacionTypeOK, MarcosExclusivos,
           NEW p \in Pids, NEW n \in Nat, NEW fs \in SavedFrames(n), NEW firstId \in Nat,
           OnlyPagesOf(p),
           PagesOf(p)' = PagesOf(p) \o NewPages(fs, firstId),
           bitArrayOcupiedFrames' = bitArrayOcupiedFrames \cup {fs[i] : i \in 1 .. Len(fs)}
    PROVE  MarcosExclusivos'
<1> DEFINE old == PagesOf(p)
<1> DEFINE new == NewPages(fs, firstId)
<1> DEFINE L == Len(old)
<1>1. /\ old \in Seq(Pagina) /\ L \in Nat
      /\ fs \in Seq(FreeFrames) /\ Len(fs) \in Nat
      /\ new \in Seq(Pagina) /\ Len(new) = Len(fs)
      /\ \A i \in 1 .. Len(fs) : new[i].frame_ppal = fs[i]
      /\ \A i, j \in 1 .. Len(fs) : fs[i] = fs[j] => i = j
  BY PagesOfType, SavedFramesAreFree, NewPagesType
<1>2. \A i \in 1 .. Len(fs) : fs[i] \in Frames /\ fs[i] \notin bitArrayOcupiedFrames
  BY <1>1 DEF FreeFrames
<1>3. BitmapIsUnion /\ OneOwner
  BY DEF MarcosExclusivos, BitmapIsUnion, OneOwner
<1>4. \A q \in Pids : \A i \in 1 .. Len(PagesOf(q)) :
        PagesOf(q)[i].frame_ppal \in bitArrayOcupiedFrames
  BY <1>3 DEF BitmapIsUnion, FramesOf
<1>5. /\ Len(PagesOf(p)') = L + Len(fs)
      /\ \A i \in 1 .. L : PagesOf(p)'[i] = old[i]
      /\ \A k \in 1 .. Len(fs) : PagesOf(p)'[L + k] = new[k]
  <2>1. PagesOf(p)' = old \o new
    OBVIOUS
  <2> HIDE DEF old, new
  <2>2. /\ Len(old \o new) = Len(old) + Len(new)
        /\ \A i \in 1 .. Len(old) : (old \o new)[i] = old[i]
        /\ \A k \in 1 .. Len(new) : (old \o new)[Len(old) + k] = new[k]
    <3>1. old \in Seq(Pagina) /\ new \in Seq(Pagina)
      BY <1>1
    <3> QED
      BY <3>1, ConcatenatedPages, Zenon
  <2>3. Len(new) = Len(fs)
    BY <1>1
  <2> QED
    BY <2>1, <2>2, <2>3, Zenon DEF L
<1> HIDE DEF old, new, L
<1>6. \A i \in 1 .. Len(PagesOf(p)') :
        \/ i \in 1 .. L /\ PagesOf(p)'[i].frame_ppal = old[i].frame_ppal
        \/ \E k \in 1 .. Len(fs) : i = L + k /\ PagesOf(p)'[i].frame_ppal = fs[k]
  <2>1. SUFFICES ASSUME NEW i \in 1 .. Len(PagesOf(p)'), i \notin 1 .. L
                 PROVE  \E k \in 1 .. Len(fs) : i = L + k /\ PagesOf(p)'[i].frame_ppal = fs[k]
    BY <1>5
  <2>2. L \in Nat /\ Len(fs) \in Nat
    BY <1>1 DEF L
  <2>3. i - L \in 1 .. Len(fs) /\ i = L + (i - L)
    BY <1>5, <2>1, <2>2
  <2>4. PICK k \in 1 .. Len(fs) : i = L + k
    BY <2>3
  <2>5. PagesOf(p)'[L + k] = new[k] /\ new[k].frame_ppal = fs[k]
    BY <1>1, <1>5
  <2> QED
    BY <2>4, <2>5
<1>7. BitmapIsUnion'
  <2>1. FramesOf(PagesOf(p)') = FramesOf(old) \cup {fs[i] : i \in 1 .. Len(fs)}
    <3>1. ASSUME NEW f \in FramesOf(PagesOf(p)')
          PROVE  f \in FramesOf(old) \cup {fs[i] : i \in 1 .. Len(fs)}
      BY <1>6 DEF FramesOf, L
    <3>2. ASSUME NEW f \in FramesOf(old)
          PROVE  f \in FramesOf(PagesOf(p)')
      <4>1. PICK i \in 1 .. L : f = old[i].frame_ppal
        BY DEF FramesOf, L
      <4>2. i \in 1 .. Len(PagesOf(p)')
        BY <1>1, <1>5
      <4> QED
        BY <1>5, <4>1, <4>2 DEF FramesOf
    <3>3. ASSUME NEW i \in 1 .. Len(fs)
          PROVE  fs[i] \in FramesOf(PagesOf(p)')
      <4>1. L + i \in 1 .. Len(PagesOf(p)')
        BY <1>1, <1>5 DEF L
      <4>2. PagesOf(p)'[L + i].frame_ppal = fs[i]
        BY <1>1, <1>5, <4>1
      <4> QED
        BY <4>1, <4>2 DEF FramesOf
    <3> QED
      BY <3>1, <3>2, <3>3
  <2>2. \A q \in Pids \ {p} : FramesOf(PagesOf(q)') = FramesOf(PagesOf(q))
    BY DEF OnlyPagesOf
  <2>3. bitArrayOcupiedFrames = UNION {FramesOf(PagesOf(q)) : q \in Pids}
    BY <1>3 DEF BitmapIsUnion
  <2>4. bitArrayOcupiedFrames' = UNION {FramesOf(PagesOf(q)') : q \in Pids}
    BY <2>1, <2>2, <2>3 DEF old
  <2> QED
    BY <2>4 DEF BitmapIsUnion
<1>8. OneOwner'
  <2> DEFINE Was(q, i) == /\ i \in 1 .. Len(PagesOf(q))
                          /\ PagesOf(q)'[i].frame_ppal = PagesOf(q)[i].frame_ppal
  <2> DEFINE IsNew(q, i, k) == /\ q = p /\ i = L + k
                               /\ PagesOf(q)'[i].frame_ppal = fs[k]
  <2>1. ASSUME NEW q \in Pids, NEW i \in 1 .. Len(PagesOf(q)')
        PROVE  Was(q, i) \/ \E k \in 1 .. Len(fs) : IsNew(q, i, k)
    <3>1. CASE q = p
      BY <1>6, <3>1 DEF old, L
    <3>2. CASE q # p
      <4>1. PagesOf(q)' = PagesOf(q)
        BY <3>2 DEF OnlyPagesOf
      <4> QED
        BY <4>1
    <3> QED
      BY <3>1, <3>2
  <2>2. ASSUME NEW q \in Pids, NEW i, Was(q, i)
        PROVE  PagesOf(q)'[i].frame_ppal \in bitArrayOcupiedFrames
    BY <1>4, <2>2
  <2>3. ASSUME NEW q \in Pids, NEW i, NEW k \in 1 .. Len(fs), IsNew(q, i, k)
        PROVE  PagesOf(q)'[i].frame_ppal \notin bitArrayOcupiedFrames
    BY <1>2, <2>3
  <2>4. SUFFICES ASSUME NEW q \in Pids, NEW r \in Pids,
                        NEW i \in 1 .. Len(PagesOf(q)'), NEW j \in 1 .. Len(PagesOf(r)'),
                        PagesOf(q)'[i].frame_ppal = PagesOf(r)'[j].frame_ppal
                 PROVE  q = r /\ i = j
    BY DEF OneOwner
  <2>5. CASE Was(q, i) /\ Was(r, j)
    <3>1. /\ i \in 1 .. Len(PagesOf(q)) /\ j \in 1 .. Len(PagesOf(r))
          /\ PagesOf(q)[i].frame_ppal = PagesOf(r)[j].frame_ppal
      BY <2>4, <2>5
    <3> QED
      BY <1>3, <3>1 DEF OneOwner
  <2>6. CASE ~Was(q, i) /\ ~Was(r, j)
    <3>1. PICK k \in 1 .. Len(fs) : IsNew(q, i, k)
      BY <2>1, <2>6
    <3>2. PICK l \in 1 .. Len(fs) : IsNew(r, j, l)
      BY <2>1, <2>6
    <3>3. k = l
      BY <1>1, <2>4, <3>1, <3>2
    <3> QED
      BY <3>1, <3>2, <3>3
  <2> HIDE DEF Was, IsNew
  <2>7. CASE ~(Was(q, i) <=> Was(r, j))
    BY <2>1, <2>2, <2>3, <2>4, <2>7
  <2> QED
    BY <2>5, <2>6, <2>7
<1> QED
  BY <1>7, <1>8 DEF MarcosExclusivos, BitmapIsUnion, OneOwner

\* The pages after the first n leave a table, and their bits are cleared.
LEMMA RemovingPages ==
    ASSUME PaginacionTypeOK, MarcosExclusivos,
           NEW p \in Pids, NEW n \in 0 .. Len(PagesOf(p)),
           OnlyPagesOf(p),
           PagesOf(p)' = SubSeq(PagesOf(p), 1, n),
           bitArrayOcupiedFrames' = bitArrayOcupiedFrames
               \ FramesOf(SubSeq(PagesOf(p), n + 1, Len(PagesOf(p))))
    PROVE  MarcosExclusivos'
<1> DEFINE old == PagesOf(p)
<1> DEFINE L == Len(old)
<1> DEFINE gone == SubSeq(old, n + 1, L)
<1>1. old \in Seq(Pagina) /\ L \in Nat /\ n \in Nat /\ n <= L
  BY PagesOfType
<1>2. BitmapIsUnion /\ OneOwner
  BY DEF MarcosExclusivos, BitmapIsUnion, OneOwner
<1>3. /\ Len(PagesOf(p)') = n
      /\ \A i \in 1 .. n : PagesOf(p)'[i] = old[i]
  BY <1>1
<1>4. /\ Len(gone) = L - n
      /\ \A i \in 1 .. L - n : gone[i] = old[n + i]
  BY <1>1
<1> HIDE DEF old, L, gone
<1>5. \A f : f \in FramesOf(gone) <=> \E i \in n + 1 .. L : f = old[i].frame_ppal
  <2>1. ASSUME NEW f \in FramesOf(gone)
        PROVE  \E i \in n + 1 .. L : f = old[i].frame_ppal
    <3>1. PICK i \in 1 .. L - n : f = old[n + i].frame_ppal
      BY <1>4 DEF FramesOf
    <3>2. n + i \in n + 1 .. L
      BY <1>1
    <3> QED
      BY <3>1, <3>2
  <2>2. ASSUME NEW i \in n + 1 .. L
        PROVE  old[i].frame_ppal \in FramesOf(gone)
    <3>1. i - n \in 1 .. L - n /\ n + (i - n) = i
      BY <1>1
    <3>2. gone[i - n] = old[i] /\ i - n \in 1 .. Len(gone)
      BY <1>4, <3>1
    <3> QED
      BY <3>2 DEF FramesOf
  <2> QED
    BY <2>1, <2>2
<1>6. BitmapIsUnion'
  <2>1. \A q \in Pids \ {p} : FramesOf(PagesOf(q)') = FramesOf(PagesOf(q))
    BY DEF OnlyPagesOf
  <2>2. \A q \in Pids \ {p} : FramesOf(PagesOf(q)) \cap FramesOf(gone) = {}
    <3>0. SUFFICES ASSUME NEW q \in Pids \ {p}, NEW f \in FramesOf(PagesOf(q)),
                          f \in FramesOf(gone)
                   PROVE  FALSE
      OBVIOUS
    <3>1. PICK j \in 1 .. Len(PagesOf(q)) : f = PagesOf(q)[j].frame_ppal
      BY DEF FramesOf
    <3>2. PICK i \in n + 1 .. L : f = old[i].frame_ppal
      BY <1>5, <3>0
    <3>3. i \in 1 .. Len(PagesOf(p))
      BY <1>1 DEF L, old
    <3> QED
      BY <1>2, <3>1, <3>2, <3>3 DEF OneOwner, old
  <2>3. FramesOf(PagesOf(p)') = FramesOf(old) \ FramesOf(gone)
    <3>1. ASSUME NEW f \in FramesOf(PagesOf(p)')
          PROVE  f \in FramesOf(old) /\ f \notin FramesOf(gone)
      <4>1. PICK i \in 1 .. n : f = old[i].frame_ppal
        BY <1>3 DEF FramesOf
      <4>2. i \in 1 .. L /\ \A j \in n + 1 .. L : j \in 1 .. L /\ j # i
        BY <1>1
      <4>3. \A j \in n + 1 .. L : old[j].frame_ppal # f
        BY <1>2, <4>1, <4>2 DEF OneOwner, old, L
      <4> QED
        BY <1>5, <4>1, <4>2, <4>3 DEF FramesOf, L
    <3>2. ASSUME NEW f \in FramesOf(old), f \notin FramesOf(gone)
          PROVE  f \in FramesOf(PagesOf(p)')
      <4>1. PICK i \in 1 .. L : f = old[i].frame_ppal
        BY DEF FramesOf, L
      <4>2. i \notin n + 1 .. L
        BY <1>5, <3>2, <4>1
      <4>3. i \in 1 .. n
        BY <1>1, <4>2
      <4> QED
        BY <1>3, <4>1, <4>3 DEF FramesOf
    <3> QED
      BY <3>1, <3>2
  <2>4. bitArrayOcupiedFrames = UNION {FramesOf(PagesOf(q)) : q \in Pids}
    BY <1>2 DEF BitmapIsUnion
  <2>5. bitArrayOcupiedFrames' = bitArrayOcupiedFrames \ FramesOf(gone)
    BY DEF gone, old, L
  <2>6. \A q \in Pids : FramesOf(PagesOf(q)') = FramesOf(PagesOf(q)) \ FramesOf(gone)
    BY <2>1, <2>2, <2>3 DEF old
  <2>7. bitArrayOcupiedFrames' = UNION {FramesOf(PagesOf(q)') : q \in Pids}
    BY <2>4, <2>5, <2>6
  <2> QED
    BY <2>7 DEF BitmapIsUnion
<1>7. OneOwner'
  <2>1. \A q \in Pids : \A i \in 1 .. Len(PagesOf(q)') :
          i \in 1 .. Len(PagesOf(q)) /\ PagesOf(q)'[i] = PagesOf(q)[i]
    BY <1>1, <1>3 DEF OnlyPagesOf, old, L
  <2>2. ASSUME NEW q \in Pids, NEW r \in Pids,
               NEW i \in 1 .. Len(PagesOf(q)'), NEW j \in 1 .. Len(PagesOf(r)'),
               PagesOf(q)'[i].frame_ppal = PagesOf(r)'[j].frame_ppal
        PROVE  q = r /\ i = j
    <3>1. /\ i \in 1 .. Len(PagesOf(q)) /\ PagesOf(q)'[i] = PagesOf(q)[i]
          /\ j \in 1 .. Len(PagesOf(r)) /\ PagesOf(r)'[j] = PagesOf(r)[j]
      BY <2>1
    <3>2. PagesOf(q)[i].frame_ppal = PagesOf(r)[j].frame_ppal
      BY <2>2, <3>1
    <3> QED
      BY <1>2, <3>1, <3>2 DEF OneOwner
  <2> QED
    BY <2>2 DEF OneOwner
<1> QED
  BY <1>6, <1>7 DEF MarcosExclusivos, BitmapIsUnion, OneOwner

-------------------------------------------------------------------------------
(* The inductive invariant, and the steps that change a table. *)

\* The first id of a table comes from idGlobal: IdsSeguidos is inductive with it.
IdsInv == IdsSeguidos /\ idGlobal = 0

IInv == PaginacionTypeOK /\ MarcosExclusivos /\ IdsInv /\ TamanioPedido

\* What PagesOf is when a process is given a table.
LEMMA TableGiven ==
    ASSUME PaginacionTypeOK, NEW p \in Pids, NEW tabla \in Tabla,
           pageTable' = [pageTable EXCEPT ![p] = tabla]
    PROVE  /\ pageTable' \in [Pids -> Tabla \cup {NULL}]
           /\ pageTable'[p] = tabla /\ PagesOf(p)' = tabla.pages
           /\ \A q \in Pids \ {p} : pageTable'[q] = pageTable[q]
           /\ OnlyPagesOf(p)
<1>1. pageTable \in [Pids -> Tabla \cup {NULL}]
  BY DEF PaginacionTypeOK
<1>2. pageTable'[p] = tabla /\ \A q \in Pids \ {p} : pageTable'[q] = pageTable[q]
  BY <1>1
<1>3. pageTable' \in [Pids -> Tabla \cup {NULL}]
  BY <1>1
<1>4. tabla # NULL
  BY ConstantesDePaginacion
<1>5. PagesOf(p)' = tabla.pages
  BY <1>2, <1>4 DEF PagesOf
<1>6. OnlyPagesOf(p)
  BY <1>2 DEF OnlyPagesOf, PagesOf
<1> QED
  BY <1>2, <1>3, <1>5, <1>6

\* The ids of the other tables stay.
LEMMA IdsOfOne ==
    ASSUME PaginacionTypeOK, IdsSeguidos, NEW p \in Pids, NEW tabla \in Tabla,
           pageTable' = [pageTable EXCEPT ![p] = tabla],
           \A i \in 1 .. Len(tabla.pages) : tabla.pages[i].id = i - 1,
           tabla.lastUsedPageID = Len(tabla.pages)
    PROVE  IdsSeguidos'
<1>1. /\ pageTable'[p] = tabla /\ PagesOf(p)' = tabla.pages
      /\ \A q \in Pids \ {p} : pageTable'[q] = pageTable[q] /\ PagesOf(q)' = PagesOf(q)
  BY TableGiven DEF OnlyPagesOf
<1>2. SUFFICES ASSUME NEW q \in Pids
               PROVE  /\ \A i \in 1 .. Len(PagesOf(q)') : PagesOf(q)'[i].id = i - 1
                      /\ pageTable'[q] # NULL => pageTable'[q].lastUsedPageID = Len(PagesOf(q)')
  BY DEF IdsSeguidos
<1>3. CASE q = p
  BY <1>1, <1>3
<1>4. CASE q # p
  BY <1>1, <1>4 DEF IdsSeguidos
<1> QED
  BY <1>3, <1>4

\* The frames that are taken are frames.
LEMMA BitmapType ==
    ASSUME PaginacionTypeOK, NEW n \in Nat, NEW fs \in SavedFrames(n)
    PROVE  (bitArrayOcupiedFrames \cup {fs[i] : i \in 1 .. Len(fs)}) \in SUBSET Frames
<1>1. fs \in Seq(FreeFrames)
  BY SavedFramesAreFree
<1> QED
  BY <1>1 DEF PaginacionTypeOK, FreeFrames

\* The step that gives a process its first table.
LEMMA CreateTableStep ==
    ASSUME IInv, NEW p \in Pids, NEW bytes \in Nat, CreateTable(p, bytes)
    PROVE  IInv'
<1> DEFINE n == CeilPages(bytes)
<1>1. PaginacionTypeOK /\ MarcosExclusivos /\ IdsSeguidos /\ idGlobal = 0
  BY DEF IInv, IdsInv
<1>2. n \in Nat /\ PageLength \in Nat \ {0}
  BY CeilPagesNat, ConstantesDePaginacion
<1>3. PICK fs \in SavedFrames(n) :
        /\ fs # <<>>
        /\ bitArrayOcupiedFrames' = bitArrayOcupiedFrames \cup {fs[i] : i \in 1 .. Len(fs)}
        /\ pageTable' = [pageTable EXCEPT ![p] = [pages |-> NewPages(fs, idGlobal),
                                                   lastUsedPageID |-> Len(fs)]]
        /\ idGlobal' = idGlobal + Len(fs) - Len(fs)
  BY DEF CreateTable
<1>4. /\ pageTable[p] = NULL /\ IsThereRoomInYourPage(n)
      /\ answer' = [pid |-> p, bytes |-> bytes, okey |-> 1] /\ crashed' = crashed
  BY DEF CreateTable, AnswerResize
<1> DEFINE tabla == [pages |-> NewPages(fs, 0), lastUsedPageID |-> Len(fs)]
<1> HIDE DEF n
<1>5. fs \in Seq(FreeFrames) /\ Len(fs) \in Nat
  BY <1>2, SavedFramesAreFree
<1>6. /\ NewPages(fs, 0) \in Seq(Pagina) /\ Len(NewPages(fs, 0)) = Len(fs)
      /\ \A i \in 1 .. Len(fs) : NewPages(fs, 0)[i].id = i - 1
  BY <1>5, NewPagesType
<1>7. tabla \in Tabla /\ pageTable' = [pageTable EXCEPT ![p] = tabla]
  BY <1>1, <1>3, <1>5, <1>6 DEF Tabla
<1>8. tabla.pages = NewPages(fs, 0) /\ tabla.lastUsedPageID = Len(fs)
  OBVIOUS
<1> HIDE DEF tabla
<1>9. /\ pageTable' \in [Pids -> Tabla \cup {NULL}]
      /\ PagesOf(p)' = NewPages(fs, 0) /\ OnlyPagesOf(p)
  BY <1>1, <1>7, <1>8, TableGiven
<1>10. idGlobal' = 0
  BY <1>1, <1>3, <1>5
<1>11. PaginacionTypeOK'
  <2>1. answer' \in Answer
    BY <1>4 DEF Answer
  <2>2. bitArrayOcupiedFrames' \in SUBSET Frames
    BY <1>1, <1>2, <1>3, BitmapType
  <2> QED
    BY <1>1, <1>4, <1>9, <1>10, <2>1, <2>2 DEF PaginacionTypeOK
<1>12. MarcosExclusivos'
  <2>1. PagesOf(p) = <<>>
    BY <1>4 DEF PagesOf
  <2>2. PagesOf(p)' = PagesOf(p) \o NewPages(fs, 0)
    BY <1>6, <1>9, <2>1
  <2> QED
    BY <1>1, <1>2, <1>3, <1>9, <2>2, AddingPages
<1>13. IdsSeguidos'
  BY <1>1, <1>6, <1>7, <1>8, IdsOfOne
<1>14. TamanioPedido'
  <2>1. Len(fs) \in (IF n = 0 THEN 1 ELSE n) .. n + 1
    BY <1>2, <1>3, <1>4, SavedFramesAreEnough
  <2>2. CurrentSize(p)' = Len(fs) * PageLength
    BY <1>6, <1>9 DEF CurrentSize
  <2>3. bytes <= PageLength * n /\ PageLength * n < bytes + PageLength
    BY CeilPagesBounds DEF n
  <2>4. PageLength * n <= Len(fs) * PageLength
    BY <1>2, <1>5, <2>1
  <2>5. Len(fs) * PageLength <= PageLength * n + PageLength
    BY <1>2, <1>5, <2>1
  <2>6. Len(fs) * PageLength \in Nat /\ PageLength * n \in Nat
    BY <1>2, <1>5
  <2>7. bytes <= CurrentSize(p)' /\ CurrentSize(p)' < bytes + 2 * PageLength
    BY <1>2, <2>2, <2>3, <2>4, <2>5, <2>6
  <2> QED
    BY <1>4, <2>7 DEF TamanioPedido
<1> QED
  BY <1>10, <1>11, <1>12, <1>13, <1>14 DEF IInv, IdsInv

\* The step that adds pages at the end of a table.
LEMMA EnlargeStep ==
    ASSUME IInv, NEW p \in Pids, NEW bytes \in Nat, Enlarge(p, bytes)
    PROVE  IInv'
<1> DEFINE L == Len(PagesOf(p))
<1> DEFINE cur == L * PageLength
<1> DEFINE n == CeilPages(bytes - cur)
<1>1. PaginacionTypeOK /\ MarcosExclusivos /\ IdsSeguidos /\ idGlobal = 0
  BY DEF IInv, IdsInv
<1>2. L \in Nat /\ PageLength \in Nat \ {0} /\ cur \in Nat
  <2>1. L \in Nat /\ PageLength \in Nat \ {0}
    BY <1>1, PagesOfType, ConstantesDePaginacion
  <2> QED
    BY <2>1
<1>3. /\ pageTable[p] # NULL /\ bytes > cur /\ IsThereRoomInYourPage(n)
      /\ answer' = [pid |-> p, bytes |-> bytes, okey |-> 1]
      /\ idGlobal' = idGlobal /\ crashed' = crashed
  BY DEF Enlarge, AnswerResize, CurrentSize
<1>4. PICK fs \in SavedFrames(n) :
        /\ bitArrayOcupiedFrames' = bitArrayOcupiedFrames \cup {fs[i] : i \in 1 .. Len(fs)}
        /\ pageTable' = [pageTable EXCEPT ![p] =
                           [pages |-> @.pages \o NewPages(fs, @.lastUsedPageID),
                            lastUsedPageID |-> @.lastUsedPageID + Len(fs)]]
  BY DEF Enlarge, CurrentSize
<1>5. bytes - cur \in Nat /\ bytes - cur # 0
  BY <1>2, <1>3
<1>6. /\ n \in Nat
      /\ bytes - cur <= PageLength * n /\ PageLength * n < (bytes - cur) + PageLength
  BY <1>5, CeilPagesNat, CeilPagesBounds
<1> HIDE DEF n
<1>7. fs \in Seq(FreeFrames) /\ Len(fs) \in Nat
  BY <1>6, SavedFramesAreFree
<1>8. Len(fs) \in n .. n + 1
  <2>1. n # 0
    BY <1>2, <1>5, <1>6
  <2>2. Len(fs) \in (IF n = 0 THEN 1 ELSE n) .. n + 1
    BY <1>3, <1>4, <1>6, <2>1, SavedFramesAreEnough
  <2> QED
    BY <2>1, <2>2
<1>9. pageTable[p].pages = PagesOf(p) /\ pageTable[p].lastUsedPageID = L
  BY <1>1, <1>3, PagesOfType DEF IdsSeguidos
<1> DEFINE pages == PagesOf(p) \o NewPages(fs, L)
<1> DEFINE tabla == [pages |-> pages, lastUsedPageID |-> L + Len(fs)]
<1>10. /\ NewPages(fs, L) \in Seq(Pagina) /\ Len(NewPages(fs, L)) = Len(fs)
       /\ \A i \in 1 .. Len(fs) : NewPages(fs, L)[i].id = L + i - 1
  BY <1>2, <1>7, NewPagesType
<1>11. pages \in Seq(Pagina) /\ Len(pages) = L + Len(fs)
  <2>1. PagesOf(p) \in Seq(Pagina)
    BY <1>1, PagesOfType
  <2>2. Len(pages) = L + Len(fs)
    BY <1>10, <2>1, ConcatenatedPages
  <2>3. pages \in Seq(Pagina)
    BY <1>10, <2>1
  <2> QED
    BY <2>2, <2>3
<1>12. tabla \in Tabla
  BY <1>2, <1>7, <1>11 DEF Tabla
<1>13. pageTable' = [pageTable EXCEPT ![p] = tabla]
  BY <1>4, <1>9
<1>14. tabla.pages = pages /\ tabla.lastUsedPageID = L + Len(fs)
  OBVIOUS
<1> HIDE DEF tabla
<1>15. /\ pageTable' \in [Pids -> Tabla \cup {NULL}]
       /\ PagesOf(p)' = pages /\ OnlyPagesOf(p)
  BY <1>1, <1>12, <1>13, <1>14, TableGiven
<1>16. PaginacionTypeOK'
  <2>1. answer' \in Answer
    BY <1>3 DEF Answer
  <2>2. bitArrayOcupiedFrames' \in SUBSET Frames
    BY <1>1, <1>4, <1>6, BitmapType
  <2> QED
    BY <1>1, <1>3, <1>15, <2>1, <2>2 DEF PaginacionTypeOK
<1>17. MarcosExclusivos'
  BY <1>1, <1>2, <1>4, <1>6, <1>15, AddingPages
<1>18. IdsSeguidos'
  <2>1. ASSUME NEW i \in 1 .. Len(pages)
        PROVE  pages[i].id = i - 1
    <3>1. /\ \A j \in 1 .. L : pages[j] = PagesOf(p)[j]
          /\ \A k \in 1 .. Len(fs) : pages[L + k] = NewPages(fs, L)[k]
      <4>1. PagesOf(p) \in Seq(Pagina)
        BY <1>1, PagesOfType
      <4> HIDE DEF L
      <4>2. /\ \A j \in 1 .. Len(PagesOf(p)) : pages[j] = PagesOf(p)[j]
            /\ \A k \in 1 .. Len(NewPages(fs, L)) :
                 pages[Len(PagesOf(p)) + k] = NewPages(fs, L)[k]
        BY <1>10, <4>1, ConcatenatedPages, Zenon
      <4> QED
        BY <1>10, <4>2, Zenon DEF L
    <3> HIDE DEF pages, L
    <3>2. CASE i \in 1 .. L
      BY <1>1, <3>1, <3>2 DEF IdsSeguidos, L
    <3>3. CASE i \notin 1 .. L
      <4>1. i - L \in 1 .. Len(fs) /\ i = L + (i - L)
        BY <1>2, <1>7, <1>11, <3>3
      <4>2. PICK k \in 1 .. Len(fs) : i = L + k
        BY <4>1
      <4>3. pages[L + k] = NewPages(fs, L)[k]
        BY <3>1
      <4>4. NewPages(fs, L)[k].id = L + k - 1
        BY <1>10
      <4>5. pages[i] = NewPages(fs, L)[k]
        BY <4>2, <4>3
      <4>6. L + k - 1 = i - 1
        BY <1>2, <1>7, <4>2
      <4> QED
        BY <4>4, <4>5, <4>6
    <3> QED
      BY <3>2, <3>3
  <2> HIDE DEF pages
  <2> QED
    BY <1>1, <1>11, <1>12, <1>13, <1>14, <2>1, IdsOfOne
<1>19. TamanioPedido'
  <2>1. CurrentSize(p)' = (L + Len(fs)) * PageLength
    BY <1>11, <1>15 DEF CurrentSize
  <2>2. (L + Len(fs)) * PageLength = cur + Len(fs) * PageLength
    BY <1>2, <1>7
  <2>3. PageLength * n <= Len(fs) * PageLength
    BY <1>2, <1>6, <1>7, <1>8
  <2>4. Len(fs) * PageLength <= PageLength * n + PageLength
    BY <1>2, <1>6, <1>7, <1>8
  <2>5. Len(fs) * PageLength \in Nat /\ PageLength * n \in Nat
    BY <1>2, <1>6, <1>7
  <2> HIDE DEF cur
  <2>6. bytes <= CurrentSize(p)' /\ CurrentSize(p)' < bytes + 2 * PageLength
    BY <1>2, <1>5, <1>6, <2>1, <2>2, <2>3, <2>4, <2>5
  <2> QED
    BY <1>3, <2>6 DEF TamanioPedido
<1> QED
  BY <1>1, <1>3, <1>16, <1>17, <1>18, <1>19 DEF IInv, IdsInv

\* The step that takes pages from the end of a table.
LEMMA ReduceStep ==
    ASSUME IInv, NEW p \in Pids, NEW bytes \in Nat, Reduce(p, bytes)
    PROVE  IInv'
<1> DEFINE old == PagesOf(p)
<1> DEFINE L == Len(old)
<1> DEFINE cur == L * PageLength
<1> DEFINE c == CeilPages(cur - bytes)
<1> DEFINE n == L - (c - 1)
<1>1. PaginacionTypeOK /\ MarcosExclusivos /\ IdsSeguidos /\ idGlobal = 0
  BY DEF IInv, IdsInv
<1>2. L \in Nat /\ PageLength \in Nat \ {0} /\ cur \in Nat /\ old \in Seq(Pagina)
  <2>1. L \in Nat /\ PageLength \in Nat \ {0} /\ old \in Seq(Pagina)
    BY <1>1, PagesOfType, ConstantesDePaginacion
  <2> QED
    BY <2>1
<1>3. /\ pageTable[p] # NULL /\ bytes < cur
      /\ bitArrayOcupiedFrames' = bitArrayOcupiedFrames \ FramesOf(SubSeq(old, n + 1, L))
      /\ pageTable' = [pageTable EXCEPT ![p] =
                         [pages |-> SubSeq(@.pages, 1, n),
                          lastUsedPageID |-> @.lastUsedPageID - (Len(@.pages) - n)]]
      /\ answer' = [pid |-> p, bytes |-> bytes, okey |-> 1]
      /\ idGlobal' = idGlobal /\ crashed' = crashed
  BY DEF Reduce, FreePagesFromTheEnd, PagesLeft, AnswerResize, CurrentSize
<1>4. cur - bytes \in Nat /\ 0 < cur - bytes /\ cur - bytes <= L * PageLength
  BY <1>2, <1>3
<1>5. c \in 1 .. L
  BY <1>2, <1>4, CeilPagesRange
<1>6. cur - bytes <= PageLength * c /\ PageLength * c < (cur - bytes) + PageLength
  BY <1>4, CeilPagesBounds
<1> HIDE DEF c
<1>7. n \in 1 .. L /\ n = L - c + 1
  BY <1>2, <1>5
<1> HIDE DEF n
<1>8. pageTable[p].pages = old /\ pageTable[p].lastUsedPageID = L
  BY <1>1, <1>3, PagesOfType DEF IdsSeguidos
<1> DEFINE pages == SubSeq(old, 1, n)
<1> DEFINE tabla == [pages |-> pages, lastUsedPageID |-> n]
<1>9. pages \in Seq(Pagina) /\ Len(pages) = n /\ \A i \in 1 .. n : pages[i] = old[i]
  <2> HIDE DEF old
  <2> QED
    BY <1>2, <1>7
<1>10. tabla \in Tabla
  BY <1>7, <1>9 DEF Tabla
<1>11. pageTable' = [pageTable EXCEPT ![p] = tabla]
  <2>1. L - (Len(old) - n) = n
    BY <1>2, <1>7
  <2> QED
    BY <1>3, <1>8, <2>1
<1>12. tabla.pages = pages /\ tabla.lastUsedPageID = n
  OBVIOUS
<1> HIDE DEF tabla
<1>13. /\ pageTable' \in [Pids -> Tabla \cup {NULL}]
       /\ PagesOf(p)' = pages /\ OnlyPagesOf(p)
  BY <1>1, <1>10, <1>11, <1>12, TableGiven
<1>14. PaginacionTypeOK'
  <2>1. answer' \in Answer
    BY <1>3 DEF Answer
  <2> QED
    BY <1>1, <1>3, <1>13, <2>1 DEF PaginacionTypeOK
<1>15. MarcosExclusivos'
  <2>1. n \in 0 .. Len(PagesOf(p))
    BY <1>2, <1>7
  <2> QED
    BY <1>1, <1>3, <1>13, <2>1, RemovingPages
<1>16. IdsSeguidos'
  <2>1. \A i \in 1 .. Len(pages) : pages[i].id = i - 1
    <3>1. \A i \in 1 .. n : i \in 1 .. L
      BY <1>2, <1>7
    <3> HIDE DEF pages
    <3> QED
      BY <1>1, <1>9, <3>1 DEF IdsSeguidos
  <2> HIDE DEF pages
  <2> QED
    BY <1>1, <1>9, <1>10, <1>11, <1>12, <2>1, IdsOfOne
<1>17. TamanioPedido'
  <2>1. CurrentSize(p)' = n * PageLength
    BY <1>9, <1>13 DEF CurrentSize
  <2>2. n * PageLength = cur - PageLength * c + PageLength
    BY <1>2, <1>5, <1>7
  <2>3. PageLength * c \in Nat
    BY <1>2, <1>5
  <2> HIDE DEF cur
  <2>4. bytes <= CurrentSize(p)' /\ CurrentSize(p)' < bytes + 2 * PageLength
    BY <1>2, <1>6, <2>1, <2>2, <2>3
  <2> QED
    BY <1>3, <2>4 DEF TamanioPedido
<1> QED
  BY <1>1, <1>3, <1>14, <1>15, <1>16, <1>17 DEF IInv, IdsInv

\* The steps that only answer, or do not even answer: what they say is true.
LEMMA AnswerStep ==
    ASSUME IInv,
           UNCHANGED <<bitArrayOcupiedFrames, pageTable, idGlobal>>,
           crashed' \in BOOLEAN,
           answer' \in Answer \cup {NULL},
           TamanioPedido'
    PROVE  IInv'
<1>1. PaginacionTypeOK'
  BY DEF IInv, PaginacionTypeOK
<1>2. MarcosExclusivos'
  BY DEF IInv, MarcosExclusivos, PagesOf
<1>3. IdsInv'
  BY DEF IInv, IdsInv, IdsSeguidos, PagesOf
<1> QED
  BY <1>1, <1>2, <1>3 DEF IInv

\* Any RESIZE.
LEMMA ResizeStep ==
    ASSUME IInv, NEW p \in Pids, NEW bytes \in Nat, Resize(p, bytes)
    PROVE  IInv'
<1>1. CASE CreateTable(p, bytes)
  BY <1>1, CreateTableStep
<1>2. CASE Enlarge(p, bytes)
  BY <1>2, EnlargeStep
<1>3. CASE Reduce(p, bytes)
  BY <1>3, ReduceStep
<1>4. CASE CreateNothing(p, bytes)
  <2>1. answer' \in Answer /\ answer'.pid = p /\ pageTable'[p] = NULL
    BY <1>4 DEF CreateNothing, AnswerResize, Answer
  <2>2. TamanioPedido'
    BY <2>1 DEF TamanioPedido
  <2> QED
    BY <1>4, <2>1, <2>2, AnswerStep DEF CreateNothing, IInv, PaginacionTypeOK
<1>5. CASE CreateFromNull(p, bytes)
  <2>1. UNCHANGED <<bitArrayOcupiedFrames, pageTable, idGlobal, answer>> /\ crashed' = TRUE
    BY <1>5 DEF CreateFromNull
  <2>2. TamanioPedido'
    BY <2>1 DEF IInv, TamanioPedido, CurrentSize, PagesOf
  <2>3. answer' \in Answer \cup {NULL}
    BY <2>1 DEF IInv, PaginacionTypeOK
  <2> QED
    BY <2>1, <2>2, <2>3, AnswerStep
<1>6. CASE SameSize(p, bytes)
  <2>1. /\ answer' = [pid |-> p, bytes |-> bytes, okey |-> 1] /\ bytes = CurrentSize(p)
        /\ UNCHANGED <<bitArrayOcupiedFrames, pageTable, idGlobal, crashed>>
    BY <1>6 DEF SameSize, AnswerResize
  <2>2. answer' \in Answer /\ answer'.pid = p /\ answer'.bytes = bytes
    BY <2>1 DEF Answer
  <2>3. CurrentSize(p)' = bytes
    BY <2>1 DEF CurrentSize, PagesOf
  <2>4. bytes <= bytes /\ bytes < bytes + 2 * PageLength
    BY ConstantesDePaginacion
  <2>5. TamanioPedido'
    BY <2>2, <2>3, <2>4 DEF TamanioPedido
  <2> QED
    BY <2>1, <2>2, <2>5, AnswerStep DEF IInv, PaginacionTypeOK
<1>7. CASE OutOfMemory(p, bytes)
  <2>1. answer' \in Answer /\ answer'.okey = 0
    BY <1>7 DEF OutOfMemory, AnswerResize, Answer
  <2>2. TamanioPedido'
    BY <2>1 DEF TamanioPedido
  <2> QED
    BY <1>7, <2>1, <2>2, AnswerStep DEF OutOfMemory, IInv, PaginacionTypeOK
<1> QED
  BY <1>1, <1>2, <1>3, <1>4, <1>5, <1>6, <1>7 DEF Resize

-------------------------------------------------------------------------------
(* The theorems. *)

\* When the memory starts no frame is taken and there are no tables.
LEMMA InitIInv ==
    PaginacionInit => IInv
<1> SUFFICES ASSUME PaginacionInit PROVE IInv
  OBVIOUS
<1>1. \A p \in Pids : pageTable[p] = NULL /\ PagesOf(p) = <<>>
  BY DEF PaginacionInit, PagesOf
<1>2. PaginacionTypeOK
  BY DEF PaginacionInit, PaginacionTypeOK
<1>3. \A p \in Pids : FramesOf(PagesOf(p)) = {}
  BY <1>1 DEF FramesOf
<1>4. MarcosExclusivos
  BY <1>1, <1>3 DEF PaginacionInit, MarcosExclusivos
<1>5. IdsInv
  BY <1>1 DEF PaginacionInit, IdsInv, IdsSeguidos
<1>6. TamanioPedido
  BY DEF PaginacionInit, TamanioPedido
<1> QED
  BY <1>2, <1>4, <1>5, <1>6 DEF IInv

\* The inductive invariant: types, owners of frames, ids that follow each other
\* with idGlobal back at 0, and sizes, after any sequence of RESIZE.
THEOREM Invariante == PaginacionSpec => []IInv
<1>1. ASSUME IInv, [PaginacionNext]_paginacionVars
      PROVE  IInv'
  <2>1. CASE PaginacionNext
    <3>1. PICK p \in Pids, bytes \in Tamanios : Resize(p, bytes)
      BY <2>1 DEF PaginacionNext
    <3>2. bytes \in Nat
      BY ConstantesDePaginacion
    <3> QED
      BY <1>1, <3>1, <3>2, ResizeStep
  <2>2. CASE UNCHANGED paginacionVars
    <3>1. UNCHANGED <<bitArrayOcupiedFrames, pageTable, idGlobal, answer, crashed>>
      BY <2>2 DEF paginacionVars
    <3>2. answer' \in Answer \cup {NULL} /\ crashed' \in BOOLEAN
      BY <1>1, <3>1 DEF IInv, PaginacionTypeOK
    <3>3. TamanioPedido'
      BY <1>1, <3>1 DEF IInv, TamanioPedido, CurrentSize, PagesOf
    <3> QED
      BY <1>1, <3>1, <3>2, <3>3, AnswerStep
  <2> QED
    BY <1>1, <2>1, <2>2
<1> QED
  BY <1>1, InitIInv, PTL DEF PaginacionSpec

\* The bitmap that saveInPage and freePagesFromTheEnd write is exactly the frames
\* of the tables, and no two pages share one.
THEOREM LosMarcosSonExclusivos == PaginacionSpec => []MarcosExclusivos
<1>1. IInv => MarcosExclusivos
  BY DEF IInv
<1> QED
  BY <1>1, Invariante, PTL

\* The id that pageCreate gives a page is the place where getFrame looks for it.
THEOREM LosIdsSonSeguidos == PaginacionSpec => []IdsSeguidos
<1>1. IInv => IdsSeguidos
  BY DEF IInv, IdsInv
<1> QED
  BY <1>1, Invariante, PTL

\* A process with a table that resize answers 1 has the bytes that it asked for,
\* and less than two pages more.
THEOREM ElTamanioEsElPedido == PaginacionSpec => []TamanioPedido
<1>1. IInv => TamanioPedido
  BY DEF IInv
<1> QED
  BY <1>1, Invariante, PTL

===============================================================================
