------------------------------- MODULE Registros --------------------------------
(***************************************************************************)
(* The registers of a PCB and what the instructions of cpu/src/operations.c *)
(* compute with them.                                                      *)
(*                                                                         *)
(* A byte has Base values, 256 in the code: a register of 8 bits is a byte *)
(* and one of 32 bits four of them, the lowest first.                      *)
(***************************************************************************)
EXTENDS Integers, Sequences

CONSTANT Base

ASSUME BaseAssumption == Base \in Nat \ {0, 1}

Reg8 == {"AX", "BX", "CX", "DX"}
Reg32 == {"EAX", "EBX", "ECX", "EDX", "SI", "DI", "PC"}

Byte == 0 .. Base - 1

Media == Base * Base         \* the values of 16 bits
Entera == Media * Media      \* the values of 32 bits

\* The names are told apart by their length, but for SI, DI and PC.
Ancho(r) == IF r \in Reg32 THEN Entera ELSE Base

JuegoDeRegistros ==
    {regs \in [Reg8 \cup Reg32 -> 0 .. Entera - 1] : \A r \in Reg8 : regs[r] \in Byte}

EnCero == [r \in Reg8 \cup Reg32 |-> 0]

-------------------------------------------------------------------------------
(* The instructions that touch nothing but the registers. *)

\* Mutant of Set: what is stored is not cut to the width of the register.
SetSinAncho(regs, r, value) == [regs EXCEPT ![r] = value]

Set(regs, r, value) == [regs EXCEPT ![r] = value % Ancho(r)]

\* An origin of 32 bits that does not fit in a destiny of 8 leaves it as it was.
Sum(regs, destiny, origin) ==
    IF destiny \in Reg8 /\ origin \in Reg32 /\ regs[origin] >= Base
      THEN regs
      ELSE Set(regs, destiny, regs[destiny] + regs[origin])

\* With a destiny of 8 bits and an origin of 32 it adds.
Sub(regs, destiny, origin) ==
    IF destiny \in Reg8 /\ origin \in Reg32
      THEN Sum(regs, destiny, origin)
      ELSE Set(regs, destiny, regs[destiny] - regs[origin])

Jnz(regs, r, instruction) ==
    IF regs[r] # 0 THEN Set(regs, "PC", instruction) ELSE regs

-------------------------------------------------------------------------------
(* How a number travels to the memory and back. *)

\* What a char* holds: the bytes before the first '\0'.
Cadena(s) ==
    IF \E i \in 1 .. Len(s) : s[i] = 0
      THEN SubSeq(s, 1, (CHOOSE i \in 1 .. Len(s) :
                           s[i] = 0 /\ \A j \in 1 .. i - 1 : s[j] # 0) - 1)
      ELSE s

\* The text s in the bytes that begin at l; what falls outside is lost.
ConTexto(mem, l, s) ==
    [x \in DOMAIN mem |-> IF x \in l .. l + Len(s) - 1 THEN s[x - l + 1] ELSE mem[x]]

\* The first character is the highest byte, whatever the length.
CadenaANumero(s) ==
    LET c == Cadena(s)
        n[i \in 0 .. Len(c)] == IF i = 0 THEN 0 ELSE n[i - 1] * Base + c[i]
    IN  n[Len(c)]

\* How many values n bytes have: none, or all, never go to the other page.
Valores(n) == CASE n = 1 -> Base [] n = 2 -> Media [] n = 3 -> Media * Base

\* memcpy of the n lowest bytes of one number, and then of 4 - n of the other.
DatoReconstruido(primera, segunda, n) ==
    (primera % Valores(n)) + Valores(n) * (segunda % Valores(4 - n))

\* The number that was read in one part, or in two of which the first had n bytes.
Armar(leidos, n) ==
    IF Len(leidos) = 1 THEN leidos[1] ELSE DatoReconstruido(leidos[1], leidos[2], n)

\* Mutant of PartesDeMovOut: the two halves change places.
PartesDeMovOutCruzadas(valor) == <<(valor \div Media) % Media, valor % Media>>

\* A value that goes to two pages is cut in halves, wherever the first page ends.
PartesDeMovOut(valor) == <<valor % Media, (valor \div Media) % Media>>

===============================================================================
