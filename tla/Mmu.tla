---------------------------------- MODULE Mmu ----------------------------------
(***************************************************************************)
(* cpu/src/MMU.c: the translation of an address, with the TLB, over the    *)
(* page tables of the memory.                                              *)
(*                                                                         *)
(* Nothing takes a row out of the TLB but the replacement: neither a       *)
(* RESIZE, nor the end of a process, nor a pid that is given out again.    *)
(***************************************************************************)
EXTENDS Paginacion, SequencesExt

CONSTANTS
    CantidadEntradas,   \* CANTIDAD_ENTRADAS_TLB
    Algoritmos,         \* the values of ALGORITMO_TLB that are tried
    PageNumbers,        \* the pages that the processes use
    IntMax,             \* INT_MAX, in ticks
    MaxClock            \* bound: translations in a behaviour

ASSUME ConstantesDeLaMmu ==
    /\ CantidadEntradas \in Nat \ {0}
    /\ Algoritmos \subseteq {"FIFO", "LRU"}
    /\ PageNumbers \subseteq Nat
    /\ IntMax \in Nat /\ MaxClock \in Nat

VARIABLES
    TLB,            \* the list of rows
    ALGORITMO_TLB,
    clock,          \* get_elapsed_time_micro, in translations
    uses,           \* history: <<pid, page>> -> when the row was last used, or 0
    reduced         \* history: some page has been freed

mmuVars == <<TLB, ALGORITMO_TLB, clock, uses, reduced>>

Row == [pid : Pids, page : PageNumbers, frame : Frames \cup {-1}, lastUsedTime : Nat]

MmuTypeOK ==
    /\ PaginacionTypeOK
    /\ TLB \in Seq(Row) /\ Len(TLB) <= CantidadEntradas
    /\ ALGORITMO_TLB \in Algoritmos
    /\ clock \in 0 .. MaxClock
    /\ uses \in [Pids \X PageNumbers -> Nat]
    /\ reduced \in BOOLEAN

MmuInit ==
    /\ PaginacionInit
    /\ TLB = <<>>
    /\ ALGORITMO_TLB \in Algoritmos
    /\ clock = 0
    /\ uses = [k \in Pids \X PageNumbers |-> 0]
    /\ reduced = FALSE

-------------------------------------------------------------------------------

\* getFrame: -1 if the process has no such page.
GetFrame(p, page) ==
    IF page < Len(PagesOf(p)) THEN PagesOf(p)[page + 1].frame_ppal ELSE -1

\* list_find: the first row of the page, 0 if there is none.
FirstRow(p, page) ==
    SelectInSeq(TLB, LAMBDA row : row.pid = p /\ row.page = page)

\* A row with frame -1 is found, but hitOrMiss then returns what it returns for a miss.
Hit(p, page) == FirstRow(p, page) # 0 /\ TLB[FirstRow(p, page)].frame # -1

\* Mutant of Touched: a hit does not renew the row.
TouchedSinRenovar(p, page, now) == TLB

\* Whatever its frame, the row that was found is renewed.
Touched(p, page, now) ==
    IF FirstRow(p, page) = 0 THEN TLB
    ELSE [TLB EXCEPT ![FirstRow(p, page)].lastUsedTime = now]

\* The microseconds are a long and min is an int: past IntMax they are negative.
AsInt(t) == ((t + IntMax + 1) % (2 * (IntMax + 1))) - (IntMax + 1)

\* findMinimum: of the rows below the time of the first one, as an int, the first
\* of the lowest time.  Only the first row can have a time that min does not hold.
FindMinimum(rows) ==
    LET lower == {i \in 1 .. Len(rows) : rows[i].lastUsedTime < AsInt(rows[1].lastUsedTime)}
        lowest == Min({rows[i].lastUsedTime : i \in lower})
    IN IF lower = {} THEN 1 ELSE Min({i \in lower : rows[i].lastUsedTime = lowest})

\* Mutant of InsertRow: the row is added when there is no room.
InsertRowSinReemplazo(rows, row) == Append(rows, row)

\* insertTLBRow and insertScheduledTLBRow: FIFO moves every row up.
InsertRow(rows, row) ==
    IF Len(rows) < CantidadEntradas THEN Append(rows, row)
    ELSE IF ALGORITMO_TLB = "FIFO" THEN Append(Tail(rows), row)
    ELSE Append(RemoveAt(rows, FindMinimum(rows)), row)

KeysOf(rows) == {<<rows[i].pid, rows[i].page>> : i \in 1 .. Len(rows)}

\* Mutant of BuscarFrameEnMemoria: the frame of the next page is kept.
BuscarFrameDeOtra(p, page, now) ==
    InsertRow(Touched(p, page, now),
              [pid |-> p, page |-> page, frame |-> GetFrame(p, page + 1), lastUsedTime |-> now])

\* buscarFrameEnMemoria: the rows after it.
BuscarFrameEnMemoria(p, page, now) ==
    InsertRow(Touched(p, page, now),
              [pid |-> p, page |-> page, frame |-> GetFrame(p, page), lastUsedTime |-> now])

\* logicalToPhysicalAddress, for a page.
Translate(p, page) ==
    LET now == clock + 1
        rows == IF Hit(p, page) THEN Touched(p, page, now) ELSE BuscarFrameEnMemoria(p, page, now)
    IN /\ ~crashed
       /\ now <= MaxClock
       /\ clock' = now
       /\ TLB' = rows
       /\ uses' = [k \in Pids \X PageNumbers |->
                     IF k \notin KeysOf(rows) THEN 0
                     ELSE IF k = <<p, page>> THEN now ELSE uses[k]]
       /\ UNCHANGED <<paginacionVars, ALGORITMO_TLB, reduced>>

ResizeProcess(p, bytes) ==
    /\ Resize(p, bytes)
    /\ reduced' = (reduced \/ Len(PagesOf(p)') < Len(PagesOf(p)))
    /\ UNCHANGED <<TLB, ALGORITMO_TLB, clock, uses>>

MmuNext ==
    \/ \E p \in Pids, bytes \in Tamanios : ResizeProcess(p, bytes)
    \/ \E p \in Pids, page \in PageNumbers : Translate(p, page)

MmuSpec == MmuInit /\ [][MmuNext]_<<paginacionVars, mmuVars>>

-------------------------------------------------------------------------------
(* Properties. *)

\* What the TLB would answer is what the memory would.
RowIsRight(row) == row.frame = GetFrame(row.pid, row.page)

\* Until a page is freed the TLB agrees with the page tables; a row with frame -1
\* is right or is never used again.
TlbFiel ==
    ~reduced => \A i \in 1 .. Len(TLB) : TLB[i].frame # -1 => RowIsRight(TLB[i])

\* logicalToPhysicalAddress: "buscar en TLB el marco/frame, sino buscar en memoria
\* el marco/frame".  For a page that its process has, both find the same.
TlbVigente ==
    \A i \in 1 .. Len(TLB) :
        TLB[i].frame # -1 /\ GetFrame(TLB[i].pid, TLB[i].page) # -1 => RowIsRight(TLB[i])

\* Under LRU the row that is replaced was used before every row that stays, as
\* long as the clock fits in an int and no row has the frame -1.
SaleElMenosUsado ==
    /\ ALGORITMO_TLB = "LRU" /\ clock' <= IntMax
    /\ \A i \in 1 .. Len(TLB) : TLB[i].frame # -1
    => \A k \in KeysOf(TLB) \ KeysOf(TLB'), l \in KeysOf(TLB) \cap KeysOf(TLB') :
         uses[k] < uses[l]

VictimaLru == [][SaleElMenosUsado]_<<paginacionVars, mmuVars>>

===============================================================================
