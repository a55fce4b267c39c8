--------------------------------- MODULE Maquina ---------------------------------
(***************************************************************************)
(* What a process may count on: a set of registers and a flat memory.      *)
(* Nothing of pages, frames or messages is left but where the code lets    *)
(* them be seen: a number that goes over the end of a page is read or      *)
(* written in two parts, in another way, and the bytes that a MOV_OUT of   *)
(* 32 bits leaves after the first are not those of the number.             *)
(***************************************************************************)
EXTENDS Registros, FiniteSets

CONSTANTS Pids, Conexiones, PageLength, Asterisco, Textos, NULL

VARIABLES
    regs,       \* pid -> its registers
    mem,        \* pid -> its memory: from 0, without holes
    programas,  \* pid -> its program
    curso,      \* pid -> the accesses that its instruction has still to make, or NULL
    pedido,     \* pid -> the IO that it waits for, or NULL
    fin,        \* the processes that have ended
    tardias,    \* interface -> what was read of files, on its way to the memory
    salida,     \* pid -> the last text that it printed or filed
    promete     \* FALSE since something undefined happened

maquinaVars == <<regs, mem, programas, curso, pedido, fin, tardias, salida, promete>>

EnSuMemoria(p, l, n) == l .. l + n - 1 \subseteq DOMAIN mem[p]

\* The n bytes of p from l.
Bytes(p, l, n) == [k \in 1 .. n |-> mem[p][l + k - 1]]

Menor(a, b) == IF a <= b THEN a ELSE b

MaquinaInit ==
    /\ regs = [p \in Pids |-> EnCero]
    /\ mem = [p \in Pids |-> <<>>]
    /\ curso = [p \in Pids |-> NULL]
    /\ pedido = [p \in Pids |-> NULL]
    /\ fin = {}
    /\ tardias = [c \in Conexiones |-> <<>>]
    /\ salida = [p \in Pids |-> NULL]
    /\ promete = TRUE

-------------------------------------------------------------------------------
(* Instructions.  The program is that of any process: see Ejecucion. *)

Corre(p) == promete /\ promete' /\ p \notin fin /\ pedido[p] = NULL /\ curso[p] = NULL

Instruccion(p, op) ==
    {i \in UNION {{programas[q][k] : k \in {regs[p]["PC"] + 1} \cap DOMAIN programas[q]} :
                  q \in Pids} : i.op = op}

TrasPc(p) == Set(regs[p], "PC", regs[p]["PC"] + 1)

Avanza(p, nuevos) == regs' = [regs EXCEPT ![p] = nuevos]

SinIo == UNCHANGED <<programas, pedido, tardias, salida>>

Calcula(p) ==
    /\ Corre(p)
    /\ \/ \E i \in Instruccion(p, "SET") : Avanza(p, Set(TrasPc(p), i.a, i.n))
       \/ \E i \in Instruccion(p, "SUM") : Avanza(p, Sum(TrasPc(p), i.a, i.b))
       \/ \E i \in Instruccion(p, "SUB") : Avanza(p, Sub(TrasPc(p), i.a, i.b))
       \/ \E i \in Instruccion(p, "JNZ") : Avanza(p, Jnz(TrasPc(p), i.a, i.n))
    /\ UNCHANGED <<mem, curso, fin>> /\ SinIo

Termina(p) ==
    /\ Corre(p)
    /\ Instruccion(p, "EXIT") # {}
    /\ Avanza(p, TrasPc(p))
    /\ fin' = fin \cup {p}
    /\ UNCHANGED <<mem, curso>> /\ SinIo

-------------------------------------------------------------------------------
(* The instructions that access the memory. *)

\* A register of 32 bits is in two parts when it goes over the end of a page.
Partes(l, r) ==
    LET n == PageLength - (l % PageLength) IN
    IF r \in Reg8 THEN <<[dir |-> l, largo |-> 1]>>
    ELSE IF n < 4 THEN <<[dir |-> l, largo |-> n], [dir |-> l + n, largo |-> 4 - n]>>
    ELSE <<[dir |-> l, largo |-> 4]>>

\* The first byte of each part is of the number: the lowest, or that of its half.
Salientes(partes, valor) ==
    [k \in 1 .. Len(partes) |->
        [dir |-> partes[k].dir, largo |-> partes[k].largo,
         byte |-> IF k = 1 THEN valor % Base ELSE (valor \div Media) % Base]]

Empieza(p) ==
    /\ Corre(p)
    /\ \/ \E i \in Instruccion(p, "MOV_IN") :
            LET partes == Partes(TrasPc(p)[i.b], i.a) IN
            curso' = [curso EXCEPT ![p] = [op |-> "MOV_IN", a |-> i.a, n |-> partes[1].largo,
                                           leidos |-> <<>>, partes |-> partes]]
       \/ \E i \in Instruccion(p, "MOV_OUT") :
            curso' = [curso EXCEPT ![p] = [op |-> "MOV_OUT", partes |->
                         Salientes(Partes(TrasPc(p)[i.a], i.b), TrasPc(p)[i.b])]]
       \/ \E i \in Instruccion(p, "COPY_STRING") :
            curso' = [curso EXCEPT ![p] = [op |-> "COPY_STRING", n |-> i.n]]
       \/ \E i \in Instruccion(p, "RESIZE") :
            curso' = [curso EXCEPT ![p] = [op |-> "RESIZE", n |-> i.n]]
    /\ Avanza(p, TrasPc(p))
    /\ UNCHANGED <<mem, fin>> /\ SinIo

\* The instruction op of p is in course.
Cursa(p, op) == promete /\ promete' /\ curso[p] # NULL /\ curso[p].op = op

Acaba(p) == curso' = [curso EXCEPT ![p] = NULL]

\* What a process had and still fits stays as it was; what it asked for is '*'.
Redimensiona(p) ==
    /\ Cursa(p, "RESIZE")
    /\ \E n \in curso[p].n .. curso[p].n + 2 * PageLength - 1 :
         /\ mem' = [mem EXCEPT ![p] = mem'[p]]
         /\ DOMAIN mem'[p] = 0 .. n - 1
         /\ \A l \in 0 .. n - 1 :
              /\ l \in DOMAIN mem[p] => mem'[p][l] = mem[p][l]
              /\ l \notin DOMAIN mem[p] /\ l < curso[p].n => mem'[p][l] = Asterisco
    /\ Acaba(p)
    /\ UNCHANGED <<regs, fin>> /\ SinIo

\* Out Of Memory ends a process, but the first time it asks.
NoRedimensiona(p) ==
    /\ Cursa(p, "RESIZE")
    /\ \/ mem[p] = <<>> /\ UNCHANGED fin
       \/ mem[p] # <<>> /\ fin' = fin \cup {p}
    /\ Acaba(p)
    /\ UNCHANGED <<regs, mem>> /\ SinIo

LeeParte(p) ==
    LET parte == Head(curso[p].partes)
        leidos == Append(curso[p].leidos, CadenaANumero(Bytes(p, parte.dir, parte.largo))) IN
    /\ Cursa(p, "MOV_IN")
    /\ EnSuMemoria(p, parte.dir, parte.largo)
    /\ \/ /\ Len(curso[p].partes) = 1
          /\ Avanza(p, Set(regs[p], curso[p].a, Armar(leidos, curso[p].n)))
          /\ Acaba(p)
       \/ /\ Len(curso[p].partes) > 1
          /\ curso' = [curso EXCEPT ![p].leidos = leidos, ![p].partes = Tail(@)]
          /\ UNCHANGED regs
    /\ UNCHANGED <<mem, fin>> /\ SinIo

\* The bytes named have those values, the others from l on may have any, and what
\* is not among them stays.
Cambia(p, l, largo, ciertos) ==
    /\ mem' = [mem EXCEPT ![p] = mem'[p]]
    /\ DOMAIN mem'[p] = DOMAIN mem[p]
    /\ \A x \in DOMAIN mem[p] :
         /\ x \notin l .. l + largo - 1 => mem'[p][x] = mem[p][x]
         /\ x \in DOMAIN ciertos => mem'[p][x] = ciertos[x]

EscribeParte(p) ==
    LET parte == Head(curso[p].partes) IN
    /\ Cursa(p, "MOV_OUT")
    /\ Cambia(p, parte.dir, parte.largo, [x \in {parte.dir} |-> parte.byte])
    /\ IF Len(curso[p].partes) = 1 THEN Acaba(p)
       ELSE curso' = [curso EXCEPT ![p].partes = Tail(@)]
    /\ UNCHANGED <<regs, fin>> /\ SinIo

Copia(p) ==
    LET l == regs[p]["SI"] IN
    /\ Cursa(p, "COPY_STRING")
    /\ EnSuMemoria(p, l, curso[p].n)
    /\ mem' = [mem EXCEPT ![p] = ConTexto(@, regs[p]["DI"], Cadena(Bytes(p, l, curso[p].n)))]
    /\ Acaba(p)
    /\ UNCHANGED <<regs, fin>> /\ SinIo

-------------------------------------------------------------------------------
(* Input and output. *)

Pide(p) ==
    /\ Corre(p)
    /\ \E i \in UNION {Instruccion(p, op) : op \in {"IO_GEN_SLEEP", "IO_FS_CREATE", "IO_FS_DELETE",
                       "IO_FS_TRUNCATE", "IO_STDIN_READ", "IO_STDOUT_WRITE", "IO_FS_WRITE",
                       "IO_FS_READ"}} :
         pedido' = [pedido EXCEPT ![p] =
             IF i.op \in {"IO_STDIN_READ", "IO_STDOUT_WRITE", "IO_FS_WRITE", "IO_FS_READ"}
               THEN [op |-> i.op, io |-> i.io, logica |-> TrasPc(p)[i.a], largo |-> TrasPc(p)[i.b]]
               ELSE [op |-> i.op, io |-> i.io, logica |-> 0, largo |-> 0]]
    /\ Avanza(p, TrasPc(p))
    /\ UNCHANGED <<mem, programas, curso, fin, tardias, salida>>

Hace(p, op) ==
    /\ promete /\ promete'
    /\ pedido[p] # NULL /\ pedido[p].op = op
    /\ pedido' = [pedido EXCEPT ![p] = NULL]
    /\ UNCHANGED <<regs, programas, curso, fin>>

HaceSinDatos(p) ==
    /\ \E op \in {"IO_GEN_SLEEP", "IO_FS_CREATE", "IO_FS_DELETE", "IO_FS_TRUNCATE"} : Hace(p, op)
    /\ UNCHANGED <<mem, tardias, salida>>

LeeTeclado(p) ==
    /\ Hace(p, "IO_STDIN_READ")
    /\ \E t \in Textos :
         mem' = [mem EXCEPT ![p] =
                   ConTexto(@, pedido[p].logica, SubSeq(t, 1, Menor(Len(t), pedido[p].largo)))]
    /\ UNCHANGED <<tardias, salida>>

SacaTexto(p) ==
    /\ \E op \in {"IO_STDOUT_WRITE", "IO_FS_WRITE"} :
         /\ Hace(p, op)
         /\ EnSuMemoria(p, pedido[p].logica, pedido[p].largo)
         /\ LET s == Bytes(p, pedido[p].logica, pedido[p].largo)
            IN  salida' = [salida EXCEPT ![p] = IF op = "IO_FS_WRITE" THEN Cadena(s) ELSE s]
    /\ UNCHANGED <<mem, tardias>>

\* The process goes on, and what was read comes to its memory some time later.
LeeArchivo(p) ==
    /\ Hace(p, "IO_FS_READ")
    /\ \E t \in Textos \cup {<<>>} :
         tardias' = [tardias EXCEPT ![pedido[p].io] =
                       Append(@, [pid |-> p, logica |-> pedido[p].logica,
                                  largo |-> pedido[p].largo,
                                  dato |-> SubSeq(t, 1, Menor(Len(t), pedido[p].largo + 1))])]
    /\ UNCHANGED <<mem, salida>>

NoPuede(p) ==
    /\ promete /\ promete'
    /\ pedido[p] # NULL
    /\ pedido' = [pedido EXCEPT ![p] = NULL]
    /\ fin' = fin \cup {p}
    /\ UNCHANGED <<regs, mem, programas, curso, tardias, salida>>

LlegaLoLeido(c) ==
    LET m == Head(tardias[c])
        s == Append(m.dato, 0) IN
    /\ promete /\ promete'
    /\ tardias[c] # <<>>
    /\ Cambia(m.pid, m.logica, m.largo,
              [x \in m.logica .. m.logica + Menor(Len(s), m.largo) - 1 |-> s[x - m.logica + 1]])
    /\ tardias' = [tardias EXCEPT ![c] = Tail(@)]
    /\ UNCHANGED <<regs, programas, curso, pedido, fin, salida>>

\* Nothing is promised from here on.
Rompe == promete /\ ~promete'

MaquinaNext ==
    \/ \E p \in Pids : \/ Calcula(p) \/ Termina(p) \/ Empieza(p)
                       \/ Redimensiona(p) \/ NoRedimensiona(p)
                       \/ LeeParte(p) \/ EscribeParte(p) \/ Copia(p)
                       \/ Pide(p) \/ HaceSinDatos(p) \/ LeeTeclado(p) \/ SacaTexto(p)
                       \/ LeeArchivo(p) \/ NoPuede(p)
    \/ \E c \in Conexiones : LlegaLoLeido(c)
    \/ Rompe

MaquinaSpec == MaquinaInit /\ [][MaquinaNext]_maquinaVars

===============================================================================
