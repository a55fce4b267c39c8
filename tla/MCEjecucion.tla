------------------------------ MODULE MCEjecucion -------------------------------
(* The instance of Ejecucion: some pairs of programs, that share the memory. *)
EXTENDS Ejecucion, TLC

CONSTANTS P1, P2, GEN, STDIN, STDOUT, FS, NINGUNA

I(op, a, b, n, io) == [op |-> op, a |-> a, b |-> b, n |-> n, io |-> io]

SetI(r, n) == I("SET", r, r, n, NULL)
ResizeI(n) == I("RESIZE", "AX", "AX", n, NULL)
MovIn(d, l) == I("MOV_IN", d, l, 0, NULL)
MovOut(l, d) == I("MOV_OUT", l, d, 0, NULL)
Calculo(op, d, o) == I(op, d, o, 0, NULL)
Salto(r, n) == I("JNZ", r, r, n, NULL)
Copy(n) == I("COPY_STRING", "DI", "SI", n, NULL)
Io(op, io, l, n) == I(op, l, n, 0, io)
IoSolo(op, io) == I(op, "AX", "AX", 0, io)
Exit == I("EXIT", "AX", "AX", 0, NULL)

\* A number over the end of a page, while another process takes the frame between.
Partido == (P1 :> <<ResizeI(4), ResizeI(8), SetI("EBX", 2), SetI("EAX", 27),
                    MovOut("EBX", "EAX"), MovIn("ECX", "EBX"), Exit>>)
        @@ (P2 :> <<ResizeI(4), SetI("BX", 3), MovOut("ECX", "BX"), ResizeI(12),
                    MovIn("AX", "ECX"), Exit>>)

\* A text that is typed, copied and printed from two pages.
Texto == (P1 :> <<ResizeI(8), SetI("ECX", 5), Io("IO_STDIN_READ", STDIN, "EAX", "ECX"),
                  SetI("SI", 3), Copy(1),
                  Io("IO_STDOUT_WRITE", STDOUT, "SI", "ECX"), Exit>>)
      @@ (P2 :> <<ResizeI(4), Exit>>)

\* A file that is read while the process goes on, and changes its memory.
Tarde == (P1 :> <<ResizeI(8), SetI("ECX", 6), Io("IO_FS_READ", FS, "EAX", "ECX"),
                  ResizeI(0), Exit>>)
      @@ (P2 :> <<ResizeI(4), Exit>>)

\* A file that is read while the process reads what is coming.
Archivos == (P1 :> <<ResizeI(4), SetI("ECX", 3), Io("IO_FS_READ", FS, "EAX", "ECX"),
                     MovIn("EDX", "EAX"), Exit>>)
         @@ (P2 :> <<Exit>>)

\* Two processes that wait for IO, one to file its memory.
Esperas == (P1 :> <<IoSolo("IO_FS_TRUNCATE", FS), Exit>>)
        @@ (P2 :> <<ResizeI(4), SetI("ECX", 2), Io("IO_FS_WRITE", FS, "EAX", "ECX"), Exit>>)

\* A loop, registers that go over their width, and a jump out of the program.
Cuentas == (P1 :> <<SetI("AX", 2), SetI("EBX", 1), Calculo("SUB", "AX", "BX"),
                    SetI("BX", 1), Calculo("SUB", "ECX", "EBX"), Salto("AX", 2),
                    Calculo("SUM", "BX", "ECX"), Calculo("SUM", "CX", "EBX"), Salto("EBX", 20)>>)
        @@ (P2 :> <<ResizeI(20), SetI("EAX", 6), MovOut("EAX", "EBX"), Exit>>)

\* Interfaces that are not there, or cannot do it, and a process without memory.
Errores == (P1 :> <<IoSolo("IO_FS_CREATE", STDIN), Exit>>)
        @@ (P2 :> <<IoSolo("IO_GEN_SLEEP", GEN), SetI("EBX", 1), Io("IO_STDOUT_WRITE", STDOUT, "EAX", "EBX"), Exit>>)

Ausente == (P1 :> <<IoSolo("IO_GEN_SLEEP", NINGUNA), Exit>>)
        @@ (P2 :> <<ResizeI(4), ResizeI(0), ResizeI(20), Exit>>)

\* A process that asks for 0 bytes when the other has the whole memory.
Llena == (P1 :> <<ResizeI(16), Exit>>) @@ (P2 :> <<ResizeI(0), Exit>>)

LosPseudocodigos == {Partido, Texto, Archivos, Tarde, Esperas, Cuentas,
                      Errores, Ausente, Llena}

LosTipos == (GEN :> "GENERIC") @@ (STDIN :> "STDIN") @@ (STDOUT :> "STDOUT") @@ (FS :> "DIALFS")

LosTextos == {<<1, 2>>, <<3, 1, 2, 1, 3, 2>>}

LasConexiones == {"KERNEL", "CPU", GEN, STDIN, STDOUT, FS}

===============================================================================
