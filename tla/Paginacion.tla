------------------------------- MODULE Paginacion -------------------------------
(***************************************************************************)
(* memoria/src/paginacion.c: the bitmap of the frames, the page tables and *)
(* resize.  Only the CPU's connection asks for a RESIZE or for a frame,    *)
(* and it waits for each answer, so that an operation is one step.         *)
(*                                                                         *)
(* Nothing frees a table when its process ends: a process that is given    *)
(* the pid of another one goes on with its table.                          *)
(***************************************************************************)
EXTENDS Integers, Sequences, FiniteSets

CONSTANTS
    Pids,         \* the processes that the CPU runs
    CantFrames,   \* cantFrames
    PageLength,   \* pageLengthInt, in bytes
    Tamanios,     \* the sizes that RESIZE is asked for, in bytes
    NULL          \* no table, no answer yet

Frames == 0 .. CantFrames - 1

Pagina == [id : Nat, frame_ppal : Frames]

Tabla == [pages : Seq(Pagina), lastUsedPageID : Nat]

Answer == [pid : Pids, bytes : Nat, okey : {0, 1}]

ASSUME ConstantesDePaginacion ==
    /\ CantFrames \in Nat \ {0} /\ PageLength \in Nat \ {0}
    /\ Tamanios \subseteq Nat
    /\ NULL \notin Tabla /\ NULL \notin Answer

VARIABLES
    bitArrayOcupiedFrames,   \* the set of the frames whose bit is 1
    pageTable,               \* pid -> its table, or NULL
    idGlobal,
    answer,                  \* what the last RESIZE was answered
    crashed                  \* the memory has followed NULL

paginacionVars == <<bitArrayOcupiedFrames, pageTable, idGlobal, answer, crashed>>

PaginacionTypeOK ==
    /\ bitArrayOcupiedFrames \in SUBSET Frames
    /\ pageTable \in [Pids -> Tabla \cup {NULL}]
    /\ idGlobal \in Nat
    /\ answer \in Answer \cup {NULL}
    /\ crashed \in BOOLEAN

\* initPagination
PaginacionInit ==
    /\ bitArrayOcupiedFrames = {}
    /\ pageTable = [p \in Pids |-> NULL]
    /\ idGlobal = 0
    /\ answer = NULL
    /\ crashed = FALSE

-------------------------------------------------------------------------------
(* Frames. *)

\* ceil((double) bytes / (double) pageLengthInt)
CeilPages(bytes) == (bytes + PageLength - 1) \div PageLength

FreeFrames == Frames \ bitArrayOcupiedFrames

IsThereRoomInYourPage(n) == Cardinality(FreeFrames) >= n

\* The k lowest free frames, in order, or all of them if there are fewer: for each
\* page saveInPage takes the first of findFreeFrames, and stops when there is none.
FirstFree(k) ==
    {fs \in UNION {[1 .. j -> FreeFrames] : j \in 0 .. k} :
        /\ \A i, j \in 1 .. Len(fs) : i < j => fs[i] < fs[j]
        /\ \A f \in FreeFrames :
             \/ \E i \in 1 .. Len(fs) : fs[i] = f
             \/ Len(fs) = k /\ \A i \in 1 .. Len(fs) : fs[i] < f}

\* pagesOccupiedByInstructions measures with strlen a buffer of '*' that has no
\* '\0' at its end: what follows it in the heap may count for one page more.
StrlenPages(n) == IF n = 0 THEN {1} ELSE {n, n + 1}

SavedFrames(n) == UNION {FirstFree(k) : k \in StrlenPages(n)}

\* pageCreate: a page for each frame, with ids that follow each other.
NewPages(fs, firstId) ==
    [i \in 1 .. Len(fs) |-> [id |-> firstId + i - 1, frame_ppal |-> fs[i]]]

FramesOf(pages) == {pages[i].frame_ppal : i \in 1 .. Len(pages)}

PagesOf(p) == IF pageTable[p] = NULL THEN <<>> ELSE pageTable[p].pages

CurrentSize(p) == Len(PagesOf(p)) * PageLength

-------------------------------------------------------------------------------
(* resize(p, bytes).  The first two: no table yet, playingGod(CREATION). *)

AnswerResize(p, bytes, ok) == answer' = [pid |-> p, bytes |-> bytes, okey |-> ok]

\* Mutant of CreateTable: idGlobal is not taken back.
CreateTableSinRestar(p, bytes) ==
    /\ pageTable[p] = NULL
    /\ IsThereRoomInYourPage(CeilPages(bytes))
    /\ \E fs \in SavedFrames(CeilPages(bytes)) :
         /\ fs # <<>>
         /\ bitArrayOcupiedFrames' = bitArrayOcupiedFrames \cup {fs[i] : i \in 1 .. Len(fs)}
         /\ pageTable' = [pageTable EXCEPT ![p] = [pages |-> NewPages(fs, idGlobal),
                                                    lastUsedPageID |-> Len(fs)]]
         /\ idGlobal' = idGlobal + Len(fs)
    /\ AnswerResize(p, bytes, 1)
    /\ UNCHANGED crashed

\* While there is no table the ids come from idGlobal, that is put back afterwards.
CreateTable(p, bytes) ==
    /\ pageTable[p] = NULL
    /\ IsThereRoomInYourPage(CeilPages(bytes))
    /\ \E fs \in SavedFrames(CeilPages(bytes)) :
         /\ fs # <<>>
         /\ bitArrayOcupiedFrames' = bitArrayOcupiedFrames \cup {fs[i] : i \in 1 .. Len(fs)}
         /\ pageTable' = [pageTable EXCEPT ![p] = [pages |-> NewPages(fs, idGlobal),
                                                    lastUsedPageID |-> Len(fs)]]
         /\ idGlobal' = idGlobal + Len(fs) - Len(fs)
    /\ AnswerResize(p, bytes, 1)
    /\ UNCHANGED crashed

\* resize ignores what playingGod returns, and answers 1.
CreateNothing(p, bytes) ==
    /\ pageTable[p] = NULL
    /\ ~IsThereRoomInYourPage(CeilPages(bytes))
    /\ AnswerResize(p, bytes, 1)
    /\ UNCHANGED <<bitArrayOcupiedFrames, pageTable, idGlobal, crashed>>

\* A table of 0 bytes when no frame is free: the list of pages is empty, and the
\* page that list_get does not find is followed.
CreateFromNull(p, bytes) ==
    /\ pageTable[p] = NULL
    /\ CeilPages(bytes) = 0 /\ FreeFrames = {}
    /\ crashed' = TRUE
    /\ UNCHANGED <<bitArrayOcupiedFrames, pageTable, idGlobal, answer>>

SameSize(p, bytes) ==
    /\ pageTable[p] # NULL
    /\ bytes = CurrentSize(p)
    /\ AnswerResize(p, bytes, 1)
    /\ UNCHANGED <<bitArrayOcupiedFrames, pageTable, idGlobal, crashed>>

Enlarge(p, bytes) ==
    /\ pageTable[p] # NULL
    /\ bytes > CurrentSize(p)
    /\ IsThereRoomInYourPage(CeilPages(bytes - CurrentSize(p)))
    /\ \E fs \in SavedFrames(CeilPages(bytes - CurrentSize(p))) :
         /\ bitArrayOcupiedFrames' = bitArrayOcupiedFrames \cup {fs[i] : i \in 1 .. Len(fs)}
         /\ pageTable' = [pageTable EXCEPT ![p] =
                            [pages |-> @.pages \o NewPages(fs, @.lastUsedPageID),
                             lastUsedPageID |-> @.lastUsedPageID + Len(fs)]]
    /\ AnswerResize(p, bytes, 1)
    /\ UNCHANGED <<idGlobal, crashed>>

\* "No se puede hacer Resize, no hay espacio en memoria (Out Of Memory)"
OutOfMemory(p, bytes) ==
    /\ pageTable[p] # NULL
    /\ bytes > CurrentSize(p)
    /\ ~IsThereRoomInYourPage(CeilPages(bytes - CurrentSize(p)))
    /\ AnswerResize(p, bytes, 0)
    /\ UNCHANGED <<bitArrayOcupiedFrames, pageTable, idGlobal, crashed>>

\* Mutant of PagesLeft: the loop goes on while numberPages >= 1.
PagesLeftMenosUna(p, bytes) == Len(PagesOf(p)) - CeilPages(CurrentSize(p) - bytes)

\* The pages that stay: freePagesFromTheEnd(n) frees n - 1 of them.
PagesLeft(p, bytes) == Len(PagesOf(p)) - (CeilPages(CurrentSize(p) - bytes) - 1)

\* Mutant of FreePagesFromTheEnd: the bit of the last page that stays is cleared too.
FreePagesFromTheEndDeMas(p, n) ==
    /\ bitArrayOcupiedFrames' = bitArrayOcupiedFrames
            \ FramesOf(SubSeq(PagesOf(p), n, Len(PagesOf(p))))
    /\ pageTable' = [pageTable EXCEPT ![p] = [pages |-> SubSeq(@.pages, 1, n),
                                               lastUsedPageID |-> n]]

\* freePagesFromTheEnd, until n pages are left.
FreePagesFromTheEnd(p, n) ==
    /\ bitArrayOcupiedFrames' = bitArrayOcupiedFrames
            \ FramesOf(SubSeq(PagesOf(p), n + 1, Len(PagesOf(p))))
    /\ pageTable' = [pageTable EXCEPT ![p] =
                       [pages |-> SubSeq(@.pages, 1, n),
                        lastUsedPageID |-> @.lastUsedPageID - (Len(@.pages) - n)]]

Reduce(p, bytes) ==
    /\ pageTable[p] # NULL
    /\ bytes < CurrentSize(p)
    /\ FreePagesFromTheEnd(p, PagesLeft(p, bytes))
    /\ AnswerResize(p, bytes, 1)
    /\ UNCHANGED <<idGlobal, crashed>>

Resize(p, bytes) ==
    /\ ~crashed
    /\ \/ CreateTable(p, bytes) \/ CreateNothing(p, bytes) \/ CreateFromNull(p, bytes)
       \/ SameSize(p, bytes) \/ Enlarge(p, bytes) \/ OutOfMemory(p, bytes)
       \/ Reduce(p, bytes)

PaginacionNext == \E p \in Pids, bytes \in Tamanios : Resize(p, bytes)

PaginacionSpec == PaginacionInit /\ [][PaginacionNext]_paginacionVars

-------------------------------------------------------------------------------
(* Properties. *)

\* A frame belongs to one page of one process, and its bit says that it is taken:
\* the bitmap, that chooses the frames, and the tables never disagree.
MarcosExclusivos ==
    /\ bitArrayOcupiedFrames = UNION {FramesOf(PagesOf(p)) : p \in Pids}
    /\ \A p, q \in Pids : \A i \in 1 .. Len(PagesOf(p)), j \in 1 .. Len(PagesOf(q)) :
         PagesOf(p)[i].frame_ppal = PagesOf(q)[j].frame_ppal => p = q /\ i = j

\* The id of a page, from which its logical address is computed, is its place in
\* the table, where getFrame looks for it, although two counters give the ids out.
IdsSeguidos ==
    \A p \in Pids :
        /\ \A i \in 1 .. Len(PagesOf(p)) : PagesOf(p)[i].id = i - 1
        /\ pageTable[p] # NULL => pageTable[p].lastUsedPageID = Len(PagesOf(p))

\* A process with a table that asks for some bytes and is told that it has them
\* has pages for them, and less than two too many: reducing keeps one page more
\* than it needs, strlen may give another.
TamanioPedido ==
    answer # NULL /\ pageTable[answer.pid] # NULL /\ answer.okey = 1
      => /\ answer.bytes <= CurrentSize(answer.pid)
         /\ CurrentSize(answer.pid) < answer.bytes + 2 * PageLength

===============================================================================
