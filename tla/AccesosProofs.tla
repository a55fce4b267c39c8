----------------------------- MODULE AccesosProofs ----------------------------
(***************************************************************************)
(* Theorems about the accesses of Ejecucion, for any number of processes,  *)
(* interfaces and frames, any size of a page and any programs: the types,  *)
(* that an address that was translated stays good until it is used, that   *)
(* an access reaches the bytes it names, and that the writes that nobody   *)
(* waits for are done in time.                                             *)
(*                                                                         *)
(* All of them follow from AccesosInv, which adds to MarcosInv             *)
(*   Lugares    each process is in one place, and what it asked of an      *)
(*              interface is kept while it is blocked,                     *)
(*   EnCurso    how far the instruction in the CPU has come,               *)
(*   Preguntas  what each request that travels is for, and what the answer *)
(*              that waits for the CPU says.                               *)
(* The first sections are about the operators: pages, registers, strings.  *)
(* Then a lemma for each action says that it keeps each of the three.      *)
(***************************************************************************)
EXTENDS EjecucionProofs, Minimos

-------------------------------------------------------------------------------
(* Arithmetic of pages. *)

LEMMA Euclides ==
    ASSUME NEW L \in Nat \ {0}, NEW d \in Nat
    PROVE  /\ d \div L \in Nat /\ d % L \in 0 .. L - 1
           /\ d = L * (d \div L) + (d % L)
  OBVIOUS

LEMMA ProductoCrece ==
    ASSUME NEW L \in Nat \ {0}, NEW a \in Int, NEW b \in Int, a < b
    PROVE  L * a + L <= L * b
<1>1. b - a - 1 \in Nat
  OBVIOUS
<1>2. L * (b - a - 1) >= 0
  BY <1>1
<1>3. L * (b - a - 1) = L * b - L * a - L
  OBVIOUS
<1> QED
  BY <1>2, <1>3

LEMMA EuclidesUnico ==
    ASSUME NEW L \in Nat \ {0}, NEW q \in Nat, NEW r \in 0 .. L - 1
    PROVE  /\ q * L + r \in Nat
           /\ (q * L + r) \div L = q /\ (q * L + r) % L = r
<1> DEFINE d == q * L + r
<1>1. d \in Nat
  OBVIOUS
<1> DEFINE c == d \div L
<1> DEFINE s == d % L
<1>2. c \in Nat /\ s \in 0 .. L - 1 /\ d = L * c + s
  BY <1>1, Euclides
<1>3. d = L * q + r
  OBVIOUS
<1> HIDE DEF d, c, s
<1>4. ~(c < q)
  BY <1>2, <1>3, ProductoCrece
<1>5. ~(q < c)
  BY <1>2, <1>3, ProductoCrece
<1>6. c = q
  BY <1>2, <1>4, <1>5
<1>7. s = r
  BY <1>2, <1>3, <1>6
<1> QED
  BY <1>1, <1>6, <1>7 DEF d, c, s

\* An address is of one of the first n pages.
LEMMA EnLasPaginas ==
    ASSUME NEW L \in Nat \ {0}, NEW d \in Nat, NEW n \in Nat
    PROVE  d < n * L <=> d \div L < n
<1> DEFINE q == d \div L
<1> DEFINE r == d % L
<1>1. q \in Nat /\ r \in 0 .. L - 1 /\ d = L * q + r
  BY Euclides
<1> HIDE DEF q, r
<1>2. ASSUME q < n PROVE d < n * L
  <2>1. L * q + L <= L * n
    BY <1>1, <1>2, ProductoCrece
  <2> QED
    BY <1>1, <2>1
<1>3. ASSUME n < q PROVE ~(d < n * L)
  <2>1. L * n + L <= L * q
    BY <1>1, <1>3, ProductoCrece
  <2> QED
    BY <1>1, <2>1
<1>4. ASSUME n = q PROVE ~(d < n * L)
  BY <1>1, <1>4
<1> QED
  BY <1>1, <1>2, <1>3, <1>4 DEF q

\* The page of a logical address, when the process has it.
LEMMA LaPagina ==
    ASSUME PaginacionTypeOK, NEW p \in Pids, NEW logica \in Nat, logica < CurrentSize(p)
    PROVE  /\ logica \div PageLength + 1 \in 1 .. Len(PagesOf(p))
           /\ PagesOf(p)[logica \div PageLength + 1].frame_ppal \in Frames
           /\ logica \div PageLength < Len(PagesOf(p))
<1>1. PageLength \in Nat \ {0}
  BY ConstantesDePaginacion
<1>2. Len(PagesOf(p)) \in Nat /\ \A k \in 1 .. Len(PagesOf(p)) : PagesOf(p)[k] \in Pagina
  BY PagesOfType
<1>3. logica \div PageLength \in Nat /\ logica \div PageLength < Len(PagesOf(p))
  BY <1>1, <1>2, Euclides, EnLasPaginas DEF CurrentSize
<1>4. logica \div PageLength + 1 \in 1 .. Len(PagesOf(p))
  BY <1>2, <1>3
<1> QED
  BY <1>2, <1>3, <1>4 DEF Pagina

\* The frame that getFrame gives makes the address of its page, or none.
LEMMA AlTraducir ==
    ASSUME PaginacionTypeOK, NEW p \in Pids, NEW logica \in Nat, NEW f,
           f = GetFrame(p, logica \div PageLength)
    PROVE  /\ f * PageLength + (logica % PageLength) \in Int
           /\ Corresponde(p, f * PageLength + (logica % PageLength), logica)
<1> DEFINE L == PageLength
<1> DEFINE n == Len(PagesOf(p))
<1>1. L \in Nat \ {0} /\ CantFrames \in Nat \ {0}
  BY ConstantesDePaginacion
<1>2. n \in Nat /\ CurrentSize(p) = n * L
  BY PagesOfType DEF CurrentSize
<1>3. logica \div L \in Nat /\ logica % L \in 0 .. L - 1
  BY <1>1, Euclides
<1>4. CASE logica < CurrentSize(p)
  <2>1. logica \div L < n /\ PagesOf(p)[logica \div L + 1].frame_ppal \in Frames
    BY <1>4, LaPagina
  <2>2. f = PagesOf(p)[logica \div L + 1].frame_ppal
    BY <2>1 DEF GetFrame
  <2>3. f \in Nat
    BY <1>1, <2>1, <2>2 DEF Frames
  <2> QED
    BY <1>1, <1>3, <1>4, <2>2, <2>3 DEF Corresponde, Traducida
<1>5. CASE ~(logica < CurrentSize(p))
  <2>1. ~(logica \div L < n)
    BY <1>1, <1>2, <1>5, EnLasPaginas
  <2>2. f = -1
    BY <2>1 DEF GetFrame
  <2>3. f * L + (logica % L) \in Int /\ f * L + (logica % L) < 0
    BY <1>1, <1>3, <2>2
  <2>4. \A x \in Direcciones : x >= 0
    BY DEF Direcciones
  <2> QED
    BY <1>5, <2>3, <2>4 DEF Corresponde
<1> QED
  BY <1>4, <1>5

-------------------------------------------------------------------------------
(* The registers. *)

LEMMA LosAnchos ==
    /\ Base \in Nat \ {0, 1} /\ Media \in Nat \ {0} /\ Entera \in Nat \ {0}
    /\ Media * Base \in Nat \ {0}
    /\ Base <= Media /\ Media * Base <= Entera /\ Media <= Entera /\ Base <= Entera
<1>1. Base \in Nat /\ Base >= 2
  BY BaseAssumption
<1>2. \A a, b \in Nat : a >= 1 /\ b >= 1 => a * b \in Nat /\ a * b >= a /\ a * b >= b
  <2> SUFFICES ASSUME NEW a \in Nat, NEW b \in Nat, a >= 1, b >= 1
               PROVE  a * b \in Nat /\ a * b >= a /\ a * b >= b
    OBVIOUS
  <2>1. (a - 1) * b \in Nat /\ a * (b - 1) \in Nat
    OBVIOUS
  <2>2. (a - 1) * b = a * b - b /\ a * (b - 1) = a * b - a
    OBVIOUS
  <2>3. a * b \in Nat
    OBVIOUS
  <2> QED
    BY <2>1, <2>2, <2>3
<1>3. Media \in Nat /\ Media >= Base
  BY <1>1, <1>2 DEF Media
<1>4. Media * Base \in Nat /\ Media * Base >= 1
  BY <1>1, <1>2, <1>3
<1>5. Entera \in Nat /\ Entera >= Media
  BY <1>1, <1>2, <1>3 DEF Entera
<1>6. Media * Base <= Entera
  <2>1. Media * (Media - Base) \in Nat
    BY <1>1, <1>3
  <2>2. Media * (Media - Base) = Media * Media - Media * Base
    BY <1>1, <1>3
  <2> QED
    BY <1>1, <1>3, <2>1, <2>2 DEF Entera
<1> QED
  BY <1>1, <1>3, <1>4, <1>5, <1>6

LEMMA UnJuego ==
    ASSUME NEW regs \in JuegoDeRegistros
    PROVE  /\ regs \in [Reg8 \cup Reg32 -> 0 .. Entera - 1]
           /\ \A r \in Reg8 \cup Reg32 : regs[r] \in Nat /\ regs[r] < Entera
           /\ \A r \in Reg8 : regs[r] \in Byte
  BY LosAnchos DEF JuegoDeRegistros

\* What is stored is cut to the width of the register.
LEMMA AlGuardar ==
    ASSUME NEW regs \in JuegoDeRegistros, NEW r \in Reg8 \cup Reg32, NEW value \in Int
    PROVE  Set(regs, r, value) \in JuegoDeRegistros
<1> DEFINE v == value % Ancho(r)
<1>1. Ancho(r) \in Nat \ {0} /\ Ancho(r) <= Entera
  BY LosAnchos DEF Ancho
<1>2. v \in 0 .. Ancho(r) - 1
  BY <1>1
<1>3. r \in Reg8 => Ancho(r) = Base
  BY DEF Ancho, Reg8, Reg32
<1> HIDE DEF v
<1>4. v \in 0 .. Entera - 1
  BY <1>1, <1>2, LosAnchos
<1>5. r \in Reg8 => v \in Byte
  BY <1>2, <1>3 DEF Byte
<1>6. [regs EXCEPT ![r] = v] \in [Reg8 \cup Reg32 -> 0 .. Entera - 1]
  BY <1>4, UnJuego
<1>7. \A q \in Reg8 : [regs EXCEPT ![r] = v][q] \in Byte
  BY <1>5, UnJuego
<1> QED
  BY <1>6, <1>7 DEF JuegoDeRegistros, Set, v

\* The program counter goes forward.
LEMMA AlAvanzar ==
    ASSUME NEW regs \in JuegoDeRegistros
    PROVE  Set(regs, "PC", regs["PC"] + 1) \in JuegoDeRegistros
<1>1. "PC" \in Reg8 \cup Reg32
  BY DEF Reg32
<1>2. regs["PC"] + 1 \in Int
  BY <1>1, UnJuego
<1> QED
  BY <1>1, <1>2, AlGuardar

LEMMA AlCalcular ==
    ASSUME NEW regs \in JuegoDeRegistros, NEW i, BienEscrita(i), i.op \in OpsLocales
    PROVE  Calcular(i, regs) \in JuegoDeRegistros
<1>1. i.a \in Reg8 \cup Reg32 /\ i.b \in Reg8 \cup Reg32 /\ i.n \in Nat
  BY DEF BienEscrita
<1>2. PICK a \in Reg8 \cup Reg32, b \in Reg8 \cup Reg32 : a = i.a /\ b = i.b
  BY <1>1
<1>3. regs[a] \in Nat /\ regs[b] \in Nat /\ "PC" \in Reg8 \cup Reg32
  BY UnJuego DEF Reg32
<1>4. Set(regs, a, i.n) \in JuegoDeRegistros /\ Set(regs, "PC", i.n) \in JuegoDeRegistros
  BY <1>1, <1>3, AlGuardar
<1>5. Set(regs, a, regs[a] + regs[b]) \in JuegoDeRegistros
  <2>1. regs[a] + regs[b] \in Int
    BY <1>3
  <2> QED
    BY <2>1, AlGuardar
<1>6. Set(regs, a, regs[a] - regs[b]) \in JuegoDeRegistros
  <2>1. regs[a] - regs[b] \in Int
    BY <1>3
  <2> QED
    BY <2>1, AlGuardar
<1>7. Sum(regs, a, b) \in JuegoDeRegistros
  BY <1>5 DEF Sum
<1>8. Sub(regs, a, b) \in JuegoDeRegistros
  BY <1>6, <1>7 DEF Sub
<1>9. Jnz(regs, a, i.n) \in JuegoDeRegistros
  BY <1>4 DEF Jnz
<1>10. CASE i.op = "SET"
  BY <1>2, <1>4, <1>10 DEF Calcular
<1>11. CASE i.op = "SUM"
  BY <1>2, <1>7, <1>11 DEF Calcular
<1>12. CASE i.op = "SUB"
  BY <1>2, <1>8, <1>12 DEF Calcular
<1>13. CASE i.op = "JNZ"
  BY <1>2, <1>9, <1>13 DEF Calcular
<1> QED
  BY <1>10, <1>11, <1>12, <1>13 DEF OpsLocales

-------------------------------------------------------------------------------
(* The parts of an access. *)

ConAcceso == OpsMov \cup OpsIoConDireccion \cup {"COPY_STRING"}

\* One part, or two.
BienPartida(partes) ==
    /\ Len(partes) \in {1, 2}
    /\ \A k \in {1, 2} : k <= Len(partes) => partes[k].dir \in Nat /\ partes[k].largo \in Nat

LEMMA UnaParte ==
    ASSUME NEW d \in Nat, NEW n \in Nat
    PROVE  /\ Len(<<Parte(d, n)>>) = 1 /\ BienPartida(<<Parte(d, n)>>)
           /\ <<Parte(d, n)>>[1] = [dir |-> d, largo |-> n]
  BY DEF BienPartida, Parte

LEMMA DosPartes ==
    ASSUME NEW d \in Nat, NEW n \in Nat, NEW e \in Nat, NEW m \in Nat
    PROVE  /\ Len(<<Parte(d, n), Parte(e, m)>>) = 2 /\ BienPartida(<<Parte(d, n), Parte(e, m)>>)
           /\ <<Parte(d, n), Parte(e, m)>>[1] = [dir |-> d, largo |-> n]
           /\ <<Parte(d, n), Parte(e, m)>>[2] = [dir |-> e, largo |-> m]
  BY DEF BienPartida, Parte

\* A register of four bytes in two pages has some in each.
LEMMA PartesDeRegistro ==
    ASSUME NEW d \in Nat, NEW r \in Reg8 \cup Reg32
    PROVE  /\ BienPartida(Partes(d, r))
           /\ \A k \in {1, 2} : k <= Len(Partes(d, r)) => Partes(d, r)[k].largo \in 1 .. 4
           /\ Len(Partes(d, r)) = 2 => Partes(d, r)[1].largo \in 1 .. 3
<1>1. PageLength \in Nat \ {0}
  BY ConstantesDePaginacion
<1>2. d % PageLength \in 0 .. PageLength - 1
  BY <1>1, Euclides
<1>3. CASE r \in Reg8
  <2>1. Partes(d, r) = <<Parte(d, 1)>>
    BY <1>3 DEF Partes
  <2> QED
    BY <2>1, UnaParte
<1>4. CASE r \notin Reg8 /\ ~PaginaDividida(d)
  <2>1. Partes(d, r) = <<Parte(d, 4)>>
    BY <1>4 DEF Partes
  <2> QED
    BY <2>1, UnaParte
<1>5. CASE r \notin Reg8 /\ PaginaDividida(d)
  <2> DEFINE n == PageLength - (d % PageLength)
  <2>1. n \in 1 .. 3
    BY <1>1, <1>2, <1>5 DEF PaginaDividida
  <2>2. Partes(d, r) = <<Parte(d, n), Parte(d + n, 4 - n)>>
    BY <1>5 DEF Partes
  <2> HIDE DEF n
  <2>3. d + n \in Nat /\ n \in Nat /\ 4 - n \in 1 .. 3
    BY <2>1
  <2> QED
    BY <2>1, <2>2, <2>3, DosPartes
<1> QED
  BY <1>3, <1>4, <1>5

LEMMA PartesDeInstruccion ==
    ASSUME NEW regs \in JuegoDeRegistros, NEW i, BienEscrita(i), i.op \in ConAcceso
    PROVE  /\ BienPartida(PartesDe(i, regs))
           /\ i.op \in OpsIoConDireccion => Len(PartesDe(i, regs)) = 1
           /\ i.op = "COPY_STRING" => Len(PartesDe(i, regs)) = 2
           /\ i.op \in OpsMov =>
                /\ \A k \in {1, 2} : k <= Len(PartesDe(i, regs))
                                       => PartesDe(i, regs)[k].largo \in 1 .. 4
                /\ Len(PartesDe(i, regs)) = 2 => PartesDe(i, regs)[1].largo \in 1 .. 3
<1>1. i.n \in Nat
  BY DEF BienEscrita
<1>2. PICK a \in Reg8 \cup Reg32, b \in Reg8 \cup Reg32 : a = i.a /\ b = i.b
  BY DEF BienEscrita
<1>3. regs[a] \in Nat /\ regs[b] \in Nat /\ regs["DI"] \in Nat /\ regs["SI"] \in Nat
  BY UnJuego DEF Reg32
<1>4. CASE i.op = "MOV_IN"
  <2>1. PartesDe(i, regs) = Partes(regs[b], a)
    BY <1>2, <1>4 DEF PartesDe
  <2> QED
    BY <1>3, <1>4, <2>1, PartesDeRegistro DEF OpsIoConDireccion
<1>5. CASE i.op = "MOV_OUT"
  <2>1. PartesDe(i, regs) = Partes(regs[a], b)
    BY <1>2, <1>5 DEF PartesDe
  <2> QED
    BY <1>3, <1>5, <2>1, PartesDeRegistro DEF OpsIoConDireccion
<1>6. CASE i.op = "COPY_STRING"
  <2>1. PartesDe(i, regs) = <<Parte(regs["DI"], i.n), Parte(regs["SI"], i.n)>>
    BY <1>6 DEF PartesDe
  <2> QED
    BY <1>1, <1>3, <1>6, <2>1, DosPartes DEF OpsIoConDireccion, OpsMov
<1>7. CASE i.op \in OpsIoConDireccion
  <2>1. PartesDe(i, regs) = <<Parte(regs[a], regs[b])>>
    BY <1>2, <1>7 DEF PartesDe, OpsIoConDireccion
  <2> QED
    BY <1>3, <1>7, <2>1, UnaParte DEF OpsIoConDireccion, OpsMov
<1> QED
  BY <1>4, <1>5, <1>6, <1>7 DEF ConAcceso, OpsMov

-------------------------------------------------------------------------------
(* The numbers that travel. *)

LEMMA SonNumeros ==
    ASSUME NEW E \in Nat, NEW s \in Seq(0 .. E - 1)
    PROVE  Len(s) \in Nat /\ \A k \in 1 .. Len(s) : s[k] \in Int
<1>1. \A k \in 1 .. Len(s) : s[k] \in 0 .. E - 1
  OBVIOUS
<1>2. \A x \in 0 .. E - 1 : x \in Int
  OBVIOUS
<1> QED
  BY <1>1, <1>2

LEMMA AlArmar ==
    ASSUME NEW leidos \in Seq(0 .. Entera - 1), Len(leidos) \in {1, 2},
           NEW n, Len(leidos) = 2 => n \in 1 .. 3
    PROVE  Armar(leidos, n) \in Int
<1>0. \A k \in 1 .. Len(leidos) : leidos[k] \in Int
  <2>1. Entera \in Nat
    BY LosAnchos
  <2> QED
    BY <2>1, SonNumeros
<1>1. CASE Len(leidos) = 1
  BY <1>0, <1>1 DEF Armar
<1>2. CASE Len(leidos) = 2
  <2>1. n \in {1, 2, 3} /\ 4 - n \in {1, 2, 3}
    BY <1>2
  <2>2. leidos[1] \in Int /\ leidos[2] \in Int
    BY <1>0, <1>2
  <2>3. \A k \in {1, 2, 3} : Valores(k) \in Nat \ {0}
    <3>1. Valores(1) = Base /\ Valores(2) = Media /\ Valores(3) = Media * Base
      BY DEF Valores
    <3> QED
      BY <3>1, LosAnchos
  <2>4. Valores(n) \in Nat \ {0} /\ Valores(4 - n) \in Nat \ {0}
    BY <2>1, <2>3
  <2>5. leidos[1] % Valores(n) \in Int /\ leidos[2] % Valores(4 - n) \in Int
    BY <2>2, <2>4
  <2>6. Valores(n) * (leidos[2] % Valores(4 - n)) \in Int
    <3>1. \A x \in Nat \ {0}, y \in Int : x * y \in Int
      OBVIOUS
    <3> QED
      BY <2>4, <2>5, <3>1
  <2> QED
    BY <1>2, <2>5, <2>6 DEF Armar, DatoReconstruido
<1> QED
  BY <1>1, <1>2

LEMMA AlPartir ==
    ASSUME NEW valor \in Int, NEW k \in {1, 2}
    PROVE  PartesDeMovOut(valor)[k] \in Int
<1>1. Media \in Nat \ {0}
  BY LosAnchos
<1>2. valor % Media \in Int /\ valor \div Media \in Int
  BY <1>1
<1>3. (valor \div Media) % Media \in Int
  BY <1>1, <1>2
<1> QED
  BY <1>2, <1>3 DEF PartesDeMovOut

-------------------------------------------------------------------------------
(* Strings. *)

LEMMA DeLaSecuencia ==
    ASSUME NEW S, NEW s \in Seq(S)
    PROVE  Len(s) \in Nat /\ \A k \in 1 .. Len(s) : s[k] \in S
  OBVIOUS

LEMMA UnaCadena ==
    ASSUME NEW S, NEW s \in Seq(S)
    PROVE  Cadena(s) \in Seq(S) /\ Len(Cadena(s)) <= Len(s)
<1> DEFINE Ceros == {i \in 1 .. Len(s) : s[i] = 0}
<1> DEFINE EsElPrimero(i) == s[i] = 0 /\ \A j \in 1 .. i - 1 : s[j] # 0
<1>1. Len(s) \in Nat
  OBVIOUS
<1>2. CASE Ceros = {}
  BY <1>2 DEF Cadena
<1>3. CASE Ceros # {}
  <2>1. PICK i \in Ceros : \A j \in Ceros : i <= j
    <3>1. Ceros \in SUBSET Nat
      OBVIOUS
    <3> HIDE DEF Ceros
    <3> QED
      BY <1>3, <3>1, MinDeNaturales
  <2>2. i \in 1 .. Len(s) /\ EsElPrimero(i)
    <3>1. ASSUME NEW j \in 1 .. i - 1, s[j] = 0 PROVE FALSE
      <4>1. j \in Ceros /\ j < i
        BY <1>1, <3>1
      <4> QED
        BY <2>1, <4>1
    <3> QED
      BY <3>1
  <2> DEFINE k == CHOOSE n \in 1 .. Len(s) : EsElPrimero(n)
  <2>3. k \in 1 .. Len(s)
    <3> HIDE DEF EsElPrimero
    <3> QED
      BY <2>2
  <2>4. Cadena(s) = SubSeq(s, 1, k - 1)
    BY <1>3 DEF Cadena
  <2> HIDE DEF k
  <2>5. SubSeq(s, 1, k - 1) \in Seq(S) /\ Len(SubSeq(s, 1, k - 1)) = k - 1
    BY <1>1, <2>3
  <2> QED
    BY <1>1, <2>3, <2>4, <2>5
<1> QED
  BY <1>2, <1>3

\* Four bytes are a number of 32 bits at most.
LEMMA UnNumero ==
    ASSUME NEW c \in Seq(Byte), Len(c) \in 0 .. 4, NEW n,
           n = [i \in 0 .. Len(c) |-> IF i = 0 THEN 0 ELSE n[i - 1] * Base + c[i]]
    PROVE  n[Len(c)] \in 0 .. Entera - 1
<1>1. Base \in Nat \ {0, 1}
  BY LosAnchos
<1>2. \A i \in 1 .. Len(c) : c[i] \in 0 .. Base - 1
  <2>1. \A i \in 1 .. Len(c) : c[i] \in Byte
    BY DeLaSecuencia
  <2> QED
    BY <2>1 DEF Byte
<1>3. \A i \in 1 .. Len(c) : n[i] = n[i - 1] * Base + c[i]
  <2> SUFFICES ASSUME NEW i \in 1 .. Len(c) PROVE n[i] = n[i - 1] * Base + c[i]
    OBVIOUS
  <2>1. i \in 0 .. Len(c) /\ i # 0
    OBVIOUS
  <2> QED
    BY <2>1
<1>4. n[0] = 0
  <2>1. 0 \in 0 .. Len(c)
    OBVIOUS
  <2> QED
    BY <2>1
\* The next digit.
<1>5. ASSUME NEW c0 \in Nat, NEW x \in 0 .. c0 - 1, NEW y \in 0 .. Base - 1
      PROVE  x * Base + y \in 0 .. c0 * Base - 1
  <2>1. (c0 - 1 - x) * Base \in Nat
    BY <1>1
  <2>2. (c0 - 1 - x) * Base = c0 * Base - Base - x * Base
    BY <1>1
  <2>3. x * Base \in Nat /\ c0 * Base \in Nat
    BY <1>1
  <2> QED
    BY <1>1, <2>1, <2>2, <2>3
<1> DEFINE M3 == Media * Base
<1>6. Media \in Nat /\ M3 \in Nat /\ Entera \in Nat
      /\ Base * Base = Media /\ M3 * Base = Entera
      /\ Base <= Media /\ Media <= M3 /\ M3 <= Entera /\ 1 <= Base
  <2>1. M3 * Base = Entera
    BY <1>1 DEF Media, Entera
  <2>2. Media <= Media * Base
    <3>1. Media * (Base - 1) \in Nat
      BY <1>1, LosAnchos
    <3>2. Media * (Base - 1) = Media * Base - Media
      BY <1>1, LosAnchos
    <3> QED
      BY <1>1, <3>1, <3>2, LosAnchos
  <2> QED
    BY <2>1, <2>2, LosAnchos DEF Media
<1> HIDE DEF M3
<1>7. Len(c) >= 1 => n[1] \in 0 .. Base - 1
  <2> SUFFICES ASSUME Len(c) >= 1 PROVE n[1] \in 0 .. Base - 1
    OBVIOUS
  <2>1. n[1] = n[0] * Base + c[1] /\ c[1] \in 0 .. Base - 1
    BY <1>2, <1>3
  <2> QED
    BY <1>1, <1>4, <2>1
<1>8. Len(c) >= 2 => n[2] \in 0 .. Media - 1
  <2> SUFFICES ASSUME Len(c) >= 2 PROVE n[2] \in 0 .. Media - 1
    OBVIOUS
  <2>1. n[2] = n[1] * Base + c[2] /\ c[2] \in 0 .. Base - 1 /\ n[1] \in 0 .. Base - 1
    BY <1>2, <1>3, <1>7
  <2>2. n[2] \in 0 .. Base * Base - 1
    BY <1>1, <1>5, <2>1
  <2> QED
    BY <1>6, <2>2
<1>9. Len(c) >= 3 => n[3] \in 0 .. M3 - 1
  <2> SUFFICES ASSUME Len(c) >= 3 PROVE n[3] \in 0 .. M3 - 1
    OBVIOUS
  <2>1. n[3] = n[2] * Base + c[3] /\ c[3] \in 0 .. Base - 1 /\ n[2] \in 0 .. Media - 1
    BY <1>2, <1>3, <1>8
  <2>2. n[3] \in 0 .. Media * Base - 1
    BY <1>5, <1>6, <2>1
  <2> QED
    BY <2>2 DEF M3
<1>10. Len(c) >= 4 => n[4] \in 0 .. Entera - 1
  <2> SUFFICES ASSUME Len(c) >= 4 PROVE n[4] \in 0 .. Entera - 1
    OBVIOUS
  <2>1. n[4] = n[3] * Base + c[4] /\ c[4] \in 0 .. Base - 1 /\ n[3] \in 0 .. M3 - 1
    BY <1>2, <1>3, <1>9
  <2>2. n[4] \in 0 .. M3 * Base - 1
    BY <1>5, <1>6, <2>1
  <2> QED
    BY <1>6, <2>2
<1>11. Len(c) \in {0, 1, 2, 3, 4}
  OBVIOUS
<1>12. CASE Len(c) = 0
  BY <1>1, <1>4, <1>6, <1>12
<1>13. CASE Len(c) = 1
  BY <1>1, <1>6, <1>7, <1>13
<1>14. CASE Len(c) = 2
  BY <1>6, <1>8, <1>14
<1>15. CASE Len(c) = 3
  BY <1>6, <1>9, <1>15
<1>16. CASE Len(c) = 4
  BY <1>10, <1>16
<1> QED
  BY <1>11, <1>12, <1>13, <1>14, <1>15, <1>16

\* The recursion of CadenaANumero has a solution, that is written out for four bytes.
LEMMA HayNumero ==
    ASSUME NEW c, Len(c) \in 0 .. 4
    PROVE  \E n : n = [i \in 0 .. Len(c) |-> IF i = 0 THEN 0 ELSE n[i - 1] * Base + c[i]]
<1> DEFINE n1 == 0 * Base + c[1]
<1> DEFINE n2 == n1 * Base + c[2]
<1> DEFINE n3 == n2 * Base + c[3]
<1> DEFINE n4 == n3 * Base + c[4]
<1> DEFINE N(i) == IF i = 0 THEN 0 ELSE IF i = 1 THEN n1 ELSE IF i = 2 THEN n2
                   ELSE IF i = 3 THEN n3 ELSE n4
<1> DEFINE n == [i \in 0 .. Len(c) |-> N(i)]
<1>1. N(0) = 0 /\ N(1) = n1 /\ N(2) = n2 /\ N(3) = n3 /\ N(4) = n4
  OBVIOUS
<1>2. \A i \in 1 .. 4 : N(i) = N(i - 1) * Base + c[i]
  <2>1. N(1) = N(0) * Base + c[1]
    BY <1>1
  <2>2. N(2) = N(1) * Base + c[2]
    BY <1>1
  <2>3. N(3) = N(2) * Base + c[3]
    BY <1>1
  <2>4. N(4) = N(3) * Base + c[4]
    BY <1>1
  <2> HIDE DEF N
  <2>5. ASSUME NEW i \in 1 .. 4 PROVE N(i) = N(i - 1) * Base + c[i]
    <3>1. CASE i = 1
      BY <2>1, <3>1
    <3>2. CASE i = 2
      BY <2>2, <3>2
    <3>3. CASE i = 3
      BY <2>3, <3>3
    <3>4. CASE i = 4
      BY <2>4, <3>4
    <3> QED
      BY <3>1, <3>2, <3>3, <3>4
  <2> QED
    BY <2>5
<1> HIDE DEF N
<1>3. ASSUME NEW i \in 0 .. Len(c) PROVE n[i] = IF i = 0 THEN 0 ELSE n[i - 1] * Base + c[i]
  <2>1. n[i] = N(i)
    OBVIOUS
  <2>2. CASE i = 0
    BY <1>1, <2>1, <2>2
  <2>3. CASE i # 0
    <3>1. i \in 1 .. 4 /\ i - 1 \in 0 .. Len(c)
      <4>1. \A m \in 0 .. 4 : \A k \in 0 .. m : k # 0 => k \in 1 .. 4 /\ k - 1 \in 0 .. m
        OBVIOUS
      <4> QED
        BY <2>3, <4>1
    <3>2. n[i - 1] = N(i - 1)
      BY <3>1
    <3> QED
      BY <1>2, <2>1, <2>3, <3>1, <3>2
  <2> QED
    BY <2>2, <2>3
<1>4. n = [i \in 0 .. Len(c) |-> IF i = 0 THEN 0 ELSE n[i - 1] * Base + c[i]]
  <2>1. \A i \in 0 .. Len(c) : N(i) = IF i = 0 THEN 0 ELSE n[i - 1] * Base + c[i]
    BY <1>3
  <2> QED
    BY <2>1, Zenon
<1> HIDE DEF n
<1> QED
  BY <1>4

LEMMA NumeroDeCadena ==
    ASSUME NEW s \in Seq(Byte), Len(s) <= 4
    PROVE  CadenaANumero(s) \in 0 .. Entera - 1
<1> DEFINE c == Cadena(s)
<1> DEFINE n[i \in 0 .. Len(c)] == IF i = 0 THEN 0 ELSE n[i - 1] * Base + c[i]
<1>1. c \in Seq(Byte) /\ Len(c) <= Len(s)
  BY UnaCadena
<1>2. Len(c) \in 0 .. 4
  <2>1. Len(s) \in Nat /\ Len(c) \in Nat
    BY <1>1, DeLaSecuencia
  <2>2. \A a, b \in Nat : a <= b /\ b <= 4 => a \in 0 .. 4
    OBVIOUS
  <2>3. Len(c) <= Len(s) /\ Len(s) <= 4
    BY <1>1
  <2> HIDE DEF c
  <2> QED
    BY <2>1, <2>2, <2>3
<1>3. CadenaANumero(s) = n[Len(c)]
  BY DEF CadenaANumero
<1> HIDE DEF c
<1>4. n = [i \in 0 .. Len(c) |-> IF i = 0 THEN 0 ELSE n[i - 1] * Base + c[i]]
  BY <1>2, HayNumero
<1> HIDE DEF n
<1> QED
  BY <1>1, <1>2, <1>3, <1>4, UnNumero, Zenon

-------------------------------------------------------------------------------
(* The place of each process. *)

\* Nothing is twice in s.
SinRepetir(s) == \A j, k \in 1 .. Len(s) : s[j] = s[k] => j = k

PidsDe(d) == {m.pid : m \in Elementos(d)}

\* An interface: its requests a, the process z that it attends, if there is one, and
\* its notices d.  A process is in one of them, and once.
Cola(a, z, d) ==
    /\ SinRepetir(a)
    /\ \A j, k \in 1 .. Len(d) : d[j].pid = d[k].pid => j = k
    /\ \A p \in Elementos(a) : p \notin z /\ p \notin PidsDe(d)
    /\ \A p \in z : p \notin PidsDe(d)

Atendido(i) == IF interfaz[i].fase = "libre" THEN {} ELSE {interfaz[i].pid}

Ocupantes(i) == Elementos(aInterfaz[i]) \cup Atendido(i) \cup PidsDe(deInterfaz[i])

\* The process asked for an operation of IO, whose address, if it has one, was
\* translated and is still the one of the logical address.
ConPedido(p) ==
    /\ info[p].op \in OpsIo
    /\ info[p].largo \in Nat /\ info[p].logica \in Nat /\ info[p].dir \in Int
    /\ info[p].op \in OpsIoConDireccion => Corresponde(p, info[p].dir, info[p].logica)

EnIo(i, p) ==
    /\ p \in Pids /\ p # paramsIo
    /\ estado[p] = "BLOCKED" /\ ConPedido(p) /\ info[p].io = i

EnEsperaDe(i) ==
    /\ EsSeq(aInterfaz[i])
    /\ Cola(aInterfaz[i], Atendido(i), deInterfaz[i])
    /\ interfaz[i].fase \in {"libre", "memoria", "avisar"}
    /\ \A p \in Ocupantes(i) : EnIo(i, p)
    /\ \A m \in Elementos(deInterfaz[i]) : m.op \in {"FINISHED_IO", "FINISHED_IO_ERROR"}

EnEspera ==
    /\ aInterfaz = [i \in Interfaces |-> aInterfaz[i]]
    /\ paramsIo \in Pids \cup {NULL}
    /\ paramsIo # NULL => estado[paramsIo] = "BLOCKED" /\ ConPedido(paramsIo)
    /\ \A i \in Interfaces : EnEsperaDe(i)

Listos ==
    /\ SinRepetir(queueReadys)
    /\ \A p \in Elementos(queueReadys) : estado[p] = "READY" /\ info[p] = NULL

EnLaCpu ==
    /\ cpu.fase = "libre" <=> cpu.pid = NULL
    /\ cpu.pid # NULL => estado[cpu.pid] = "EXEC" /\ info[cpu.pid] = NULL /\ vuelve = NULL
    /\ vuelve \in Regresos \cup {NULL}
    /\ vuelve # NULL =>
         /\ estado[vuelve.pid] = "EXEC"
         /\ IF vuelve.reason = "IO" THEN ConPedido(vuelve.pid) ELSE info[vuelve.pid] = NULL
    /\ \A p \in Pids : estado[p] = "EXEC" => cpu.pid = p \/ (vuelve # NULL /\ vuelve.pid = p)

\* A process is in the queue, in the CPU or on its way back, in the thread that will
\* take its request, with one interface, or has ended.
Lugares ==
    /\ estado \in [Pids -> Estados]
    /\ info = [p \in Pids |-> info[p]]
    /\ \A p \in Pids : info[p] = NULL \/ ConPedido(p)
    /\ Listos /\ EnLaCpu /\ EnEspera

LEMMA ElementosDeSeq ==
    ASSUME NEW S, NEW s \in Seq(S)
    PROVE  Elementos(s) \subseteq S
  BY DEF Elementos

LEMMA SinRepetirAlAgregar ==
    ASSUME NEW s, EsSeq(s), SinRepetir(s), NEW e, e \notin Elementos(s)
    PROVE  SinRepetir(Append(s, e)) /\ Elementos(Append(s, e)) = Elementos(s) \cup {e}
<1> DEFINE a == Append(s, e)
<1>1. /\ Len(s) \in Nat /\ Len(a) = Len(s) + 1 /\ a[Len(s) + 1] = e
      /\ \A k \in 1 .. Len(s) : a[k] = s[k]
  BY AlAgregar
<1>2. \A k \in 1 .. Len(s) : s[k] # e
  BY DEF Elementos
<1> HIDE DEF a
<1>3. \A k \in 1 .. Len(a) : k \in 1 .. Len(s) \/ k = Len(s) + 1
  BY <1>1
<1>4. SinRepetir(a)
  BY <1>1, <1>2, <1>3 DEF SinRepetir
<1>5. \A k \in 1 .. Len(s) : k \in 1 .. Len(a)
  BY <1>1
<1>6. Len(s) + 1 \in 1 .. Len(a)
  BY <1>1
<1>7. Elementos(a) = Elementos(s) \cup {e}
  BY <1>1, <1>3, <1>5, <1>6 DEF Elementos
<1> QED
  BY <1>4, <1>7 DEF a

LEMMA SinRepetirAlSacar ==
    ASSUME NEW s, EsSeq(s), s # <<>>, SinRepetir(s)
    PROVE  /\ SinRepetir(Tail(s)) /\ Head(s) \notin Elementos(Tail(s))
           /\ Elementos(s) = Elementos(Tail(s)) \cup {Head(s)}
<1> DEFINE t == Tail(s)
<1>1. /\ Len(s) \in Nat \ {0} /\ Head(s) = s[1] /\ Len(t) = Len(s) - 1
      /\ \A k \in 1 .. Len(s) - 1 : t[k] = s[k + 1]
  BY AlSacar
<1> HIDE DEF t
<1>2. \A k \in 1 .. Len(t) : k + 1 \in 1 .. Len(s) /\ t[k] = s[k + 1]
  BY <1>1
<1>3. /\ 1 \in 1 .. Len(s)
      /\ \A k \in 1 .. Len(s) : k = 1 \/ (k - 1 \in 1 .. Len(t) /\ t[k - 1] = s[k])
  BY <1>1
<1>4. SinRepetir(t)
  BY <1>1, <1>2 DEF SinRepetir
<1>5. Head(s) \notin Elementos(t)
  <2> SUFFICES ASSUME NEW k \in 1 .. Len(t), t[k] = Head(s) PROVE FALSE
    BY DEF Elementos
  <2>1. k + 1 = 1
    BY <1>1, <1>2, <1>3 DEF SinRepetir
  <2>2. k \in Nat \ {0}
    BY <1>1
  <2> QED
    BY <2>1, <2>2
<1>6. Elementos(s) = Elementos(t) \cup {Head(s)}
  BY <1>1, <1>2, <1>3 DEF Elementos
<1> QED
  BY <1>4, <1>5, <1>6 DEF t

LEMMA PidsAlAgregar ==
    ASSUME NEW d, EsSeq(d), NEW m
    PROVE  PidsDe(Append(d, m)) = PidsDe(d) \cup {m.pid}
<1> DEFINE a == Append(d, m)
<1>1. /\ Len(d) \in Nat /\ Len(a) = Len(d) + 1 /\ a[Len(d) + 1] = m
      /\ \A k \in 1 .. Len(d) : a[k] = d[k]
  BY AlAgregar
<1> HIDE DEF a
<1>2. \A k \in 1 .. Len(a) : k \in 1 .. Len(d) \/ k = Len(d) + 1
  BY <1>1
<1>3. Len(d) + 1 \in 1 .. Len(a) /\ \A k \in 1 .. Len(d) : k \in 1 .. Len(a)
  BY <1>1
<1>4. Elementos(a) = Elementos(d) \cup {m}
  BY <1>1, <1>2, <1>3 DEF Elementos
<1> QED
  BY <1>4 DEF PidsDe, a

\* A request more.
LEMMA ColaAlPedir ==
    ASSUME NEW a, NEW z, NEW d, EsSeq(a), Cola(a, z, d),
           NEW p, p \notin Elementos(a) \cup z \cup PidsDe(d)
    PROVE  Cola(Append(a, p), z, d) /\ Elementos(Append(a, p)) = Elementos(a) \cup {p}
<1>1. SinRepetir(Append(a, p)) /\ Elementos(Append(a, p)) = Elementos(a) \cup {p}
  BY SinRepetirAlAgregar DEF Cola
<1> QED
  BY <1>1 DEF Cola

\* The request at the head is taken.
LEMMA ColaAlTomar ==
    ASSUME NEW a, NEW d, EsSeq(a), Cola(a, {}, d), a # <<>>
    PROVE  /\ Cola(Tail(a), {Head(a)}, d)
           /\ Elementos(a) = Elementos(Tail(a)) \cup {Head(a)}
<1>1. /\ SinRepetir(Tail(a)) /\ Head(a) \notin Elementos(Tail(a))
      /\ Elementos(a) = Elementos(Tail(a)) \cup {Head(a)}
  BY SinRepetirAlSacar DEF Cola
<1> QED
  BY <1>1 DEF Cola

\* The kernel is told of the process that was attended.
LEMMA ColaAlAvisar ==
    ASSUME NEW a, NEW d, EsSeq(d), NEW m, Cola(a, {m.pid}, d)
    PROVE  Cola(a, {}, Append(d, m)) /\ PidsDe(Append(d, m)) = PidsDe(d) \cup {m.pid}
<1> DEFINE e == Append(d, m)
<1>1. /\ Len(d) \in Nat /\ Len(e) = Len(d) + 1 /\ e[Len(d) + 1] = m
      /\ \A k \in 1 .. Len(d) : e[k] = d[k]
  BY AlAgregar
<1>2. PidsDe(e) = PidsDe(d) \cup {m.pid}
  BY PidsAlAgregar
<1> HIDE DEF e
<1>3. \A k \in 1 .. Len(d) : d[k].pid # m.pid
  BY DEF Cola, PidsDe, Elementos
<1>4. \A k \in 1 .. Len(e) : k \in 1 .. Len(d) \/ k = Len(d) + 1
  BY <1>1
<1>5. \A j, k \in 1 .. Len(e) : e[j].pid = e[k].pid => j = k
  BY <1>1, <1>3, <1>4 DEF Cola
<1> QED
  BY <1>2, <1>5 DEF Cola, e

\* The kernel receives the notice at the head.
LEMMA ColaAlRecibir ==
    ASSUME NEW a, NEW z, NEW d, EsSeq(d), Cola(a, z, d), d # <<>>
    PROVE  /\ Cola(a, z, Tail(d))
           /\ Head(d).pid \notin Elementos(a) \cup z \cup PidsDe(Tail(d))
           /\ Head(d) \in Elementos(d)
           /\ Elementos(Tail(d)) \subseteq Elementos(d)
<1> DEFINE t == Tail(d)
<1>1. /\ Len(d) \in Nat \ {0} /\ Head(d) = d[1] /\ Len(t) = Len(d) - 1
      /\ \A k \in 1 .. Len(d) - 1 : t[k] = d[k + 1]
  BY AlSacar
<1>2. Head(d) \in Elementos(d) /\ Elementos(t) \subseteq Elementos(d)
  BY ElementosAlSacar
<1> HIDE DEF t
<1>3. \A k \in 1 .. Len(t) : k + 1 \in 1 .. Len(d) /\ k + 1 # 1 /\ t[k] = d[k + 1]
  BY <1>1
<1>4. 1 \in 1 .. Len(d)
  BY <1>1
<1>5. \A j, k \in 1 .. Len(t) : t[j].pid = t[k].pid => j = k
  <2> SUFFICES ASSUME NEW j \in 1 .. Len(t), NEW k \in 1 .. Len(t), t[j].pid = t[k].pid
               PROVE  j = k
    OBVIOUS
  <2>1. j + 1 = k + 1
    BY <1>3 DEF Cola
  <2> QED
    BY <2>1
<1>6. \A k \in 1 .. Len(t) : t[k].pid # Head(d).pid
  BY <1>1, <1>3, <1>4 DEF Cola
<1>7. Head(d).pid \notin PidsDe(t)
  BY <1>6 DEF PidsDe, Elementos
<1>8. Head(d).pid \in PidsDe(d) /\ PidsDe(t) \subseteq PidsDe(d)
  BY <1>2 DEF PidsDe
<1>9. Cola(a, z, t)
  BY <1>5, <1>8 DEF Cola
<1>10. Head(d).pid \notin Elementos(a) \cup z
  BY <1>8 DEF Cola
<1> QED
  BY <1>2, <1>7, <1>9, <1>10 DEF t

-------------------------------------------------------------------------------
(* Who keeps its place when only one process moves. *)

\* Only the process p0 changes: its state, what it asked for or its pages.
SoloElProceso(p0) ==
    \A q \in Pids \ {p0} :
        /\ estado'[q] = estado[q] /\ info'[q] = info[q] /\ PagesOf(q)' = PagesOf(q)

LEMMA CorrespondeQuieto ==
    ASSUME NEW p, NEW dir, NEW logica, PagesOf(p)' = PagesOf(p), Corresponde(p, dir, logica)
    PROVE  Corresponde(p, dir, logica)'
<1>1. CurrentSize(p)' = CurrentSize(p)
  BY DEF CurrentSize
<1>2. Traducida(p, logica)' = Traducida(p, logica)
  BY DEF Traducida
<1> QED
  BY <1>1, <1>2 DEF Corresponde

LEMMA PedidoQuieto ==
    ASSUME NEW p, info'[p] = info[p], PagesOf(p)' = PagesOf(p), ConPedido(p)
    PROVE  ConPedido(p)'
<1>1. PICK r : r = info[p]
  OBVIOUS
<1>2. /\ r.op \in OpsIo /\ r.largo \in Nat /\ r.logica \in Nat /\ r.dir \in Int
      /\ r.op \in OpsIoConDireccion => Corresponde(p, r.dir, r.logica)
  BY <1>1 DEF ConPedido
<1>3. r.op \in OpsIoConDireccion => Corresponde(p, r.dir, r.logica)'
  BY <1>2, CorrespondeQuieto
<1>4. info'[p] = r
  BY <1>1
<1> QED
  BY <1>2, <1>3, <1>4 DEF ConPedido

LEMMA EnIoQuieto ==
    ASSUME NEW i, NEW p0, SoloElProceso(p0), ~EnIo(i, p0),
           paramsIo' \in {paramsIo, NULL, p0},
           NEW p, EnIo(i, p)
    PROVE  EnIo(i, p)'
<1>1. p \in Pids /\ p # p0
  BY DEF EnIo
<1>2. estado'[p] = estado[p] /\ info'[p] = info[p] /\ PagesOf(p)' = PagesOf(p)
  BY <1>1 DEF SoloElProceso
<1>3. ConPedido(p)'
  BY <1>2, PedidoQuieto DEF EnIo
<1>4. p # paramsIo'
  BY <1>1, ConstantesDeEjecucion DEF EnIo
<1> QED
  BY <1>2, <1>3, <1>4 DEF EnIo

LEMMA EsperaDeQuieta ==
    ASSUME NEW i, EnEsperaDe(i),
           aInterfaz'[i] = aInterfaz[i], interfaz'[i] = interfaz[i],
           deInterfaz'[i] = deInterfaz[i],
           NEW p0, SoloElProceso(p0), ~EnIo(i, p0), paramsIo' \in {paramsIo, NULL, p0}
    PROVE  EnEsperaDe(i)'
<1>1. Atendido(i)' = Atendido(i)
  BY DEF Atendido
<1>2. Ocupantes(i)' = Ocupantes(i)
  BY <1>1 DEF Ocupantes
<1>3. ASSUME NEW p \in Ocupantes(i) PROVE EnIo(i, p)'
  BY EnIoQuieto DEF EnEsperaDe
<1>4. Cola(aInterfaz[i], Atendido(i), deInterfaz[i])'
  BY <1>1 DEF EnEsperaDe
<1> QED
  BY <1>1, <1>2, <1>3, <1>4 DEF EnEsperaDe

\* The process that moves was not waiting for IO.
LEMMA EsperaQuieta ==
    ASSUME EnEspera, UNCHANGED <<aInterfaz, interfaz, deInterfaz, paramsIo>>,
           NEW p0, SoloElProceso(p0), estado[p0] # "BLOCKED" \/ p0 \notin Pids
    PROVE  EnEspera'
<1>1. ASSUME NEW i \in Interfaces PROVE EnEsperaDe(i)'
  BY EsperaDeQuieta DEF EnEspera, EnIo
<1>2. ASSUME paramsIo # NULL PROVE estado'[paramsIo] = "BLOCKED" /\ ConPedido(paramsIo)'
  <2>1. paramsIo \in Pids \ {p0} /\ estado[paramsIo] = "BLOCKED" /\ ConPedido(paramsIo)
    BY <1>2 DEF EnEspera
  <2>2. PICK q : q = paramsIo
    OBVIOUS
  <2>3. estado'[q] = estado[q] /\ info'[q] = info[q] /\ PagesOf(q)' = PagesOf(q)
    BY <2>1, <2>2 DEF SoloElProceso
  <2>4. ConPedido(q)'
    BY <2>1, <2>2, <2>3, PedidoQuieto
  <2>5. paramsIo' = q
    BY <2>2
  <2> QED
    BY <2>1, <2>2, <2>3, <2>4, <2>5 DEF ConPedido
<1>3. /\ aInterfaz' = [i \in Interfaces |-> aInterfaz'[i]]
      /\ paramsIo' \in Pids \cup {NULL}
  BY DEF EnEspera
<1>4. paramsIo' # NULL => (estado[paramsIo])' = "BLOCKED" /\ ConPedido(paramsIo)'
  BY <1>2
<1> QED
  BY <1>1, <1>3, <1>4 DEF EnEspera

LEMMA ListosQuietos ==
    ASSUME Listos, queueReadys \in Seq(Pids), UNCHANGED queueReadys,
           NEW p0, SoloElProceso(p0), estado[p0] # "READY" \/ p0 \notin Pids
    PROVE  Listos'
<1>1. \A p \in Elementos(queueReadys) : p \in Pids \ {p0}
  BY DEF Elementos, Listos
<1> QED
  BY <1>1 DEF Listos, SoloElProceso

LEMMA ListosAlEntrar ==
    ASSUME Listos, queueReadys \in Seq(Pids), NEW p0 \in Pids, SoloElProceso(p0),
           estado[p0] # "READY", queueReadys' = Append(queueReadys, p0),
           estado'[p0] = "READY", info'[p0] = NULL
    PROVE  Listos'
<1> DEFINE s == queueReadys
<1>1. EsSeq(s) /\ p0 \notin Elementos(s)
  BY SonSeq DEF Listos
<1>2. SinRepetir(Append(s, p0)) /\ Elementos(Append(s, p0)) = Elementos(s) \cup {p0}
  BY <1>1, SinRepetirAlAgregar DEF Listos
<1>3. \A p \in Elementos(s) : p \in Pids \ {p0}
  BY <1>1 DEF Elementos
<1>4. SinRepetir(queueReadys)' /\ Elementos(queueReadys)' = Elementos(s) \cup {p0}
  BY <1>2
<1> QED
  BY <1>3, <1>4 DEF Listos, SoloElProceso

\* The process that moves neither was in the CPU nor is now.
LEMMA EnLaCpuQuieta ==
    ASSUME EnLaCpu, UNCHANGED <<cpu, vuelve>>, cpu.fase # "libre" => cpu.pid \in Pids,
           NEW p0, SoloElProceso(p0),
           p0 \in Pids => estado[p0] # "EXEC" /\ estado'[p0] # "EXEC"
    PROVE  EnLaCpu'
<1>1. \A p \in Pids : estado[p] = "EXEC" => p # p0
  OBVIOUS
<1>2. \A p \in Pids : estado'[p] = "EXEC" => estado[p] = "EXEC"
  BY DEF SoloElProceso
<1>3. ASSUME vuelve # NULL
      PROVE  /\ estado'[vuelve.pid] = "EXEC"
             /\ IF vuelve.reason = "IO" THEN ConPedido(vuelve.pid)' ELSE info'[vuelve.pid] = NULL
  <2>1. PICK q \in Pids : q = vuelve.pid
    BY <1>3 DEF EnLaCpu, Regresos
  <2>2. estado'[q] = estado[q] /\ info'[q] = info[q] /\ PagesOf(q)' = PagesOf(q)
    BY <1>1, <1>3, <2>1 DEF SoloElProceso, EnLaCpu
  <2>3. ConPedido(q) => ConPedido(q)'
    BY <2>2, PedidoQuieto
  <2>4. ConPedido(q)' <=> ConPedido(vuelve.pid)'
    BY <2>1 DEF ConPedido
  <2> QED
    BY <1>3, <2>1, <2>2, <2>3, <2>4 DEF EnLaCpu
<1>4. cpu.pid # NULL => estado'[cpu.pid] = "EXEC" /\ info'[cpu.pid] = NULL
  BY <1>1 DEF EnLaCpu, SoloElProceso
<1>5. vuelve' # NULL =>
        /\ (estado[vuelve.pid])' = "EXEC"
        /\ IF vuelve'.reason = "IO" THEN ConPedido(vuelve.pid)' ELSE (info[vuelve.pid])' = NULL
  BY <1>3
<1> QED
  BY <1>2, <1>4, <1>5 DEF EnLaCpu

\* Every process has no request, or one that is well formed, whoever moves.
LEMMA PedidosQuietos ==
    ASSUME \A p \in Pids : info[p] = NULL \/ ConPedido(p), NEW p0, SoloElProceso(p0),
           p0 \in Pids => info'[p0] = NULL \/ ConPedido(p0)'
    PROVE  (\A p \in Pids : info[p] = NULL \/ ConPedido(p))'
<1>1. ASSUME NEW p \in Pids, p # p0 PROVE info'[p] = NULL \/ ConPedido(p)'
  BY <1>1, PedidoQuieto DEF SoloElProceso
<1> QED
  BY <1>1

-------------------------------------------------------------------------------
(* The places, when the kernel moves a process. *)

LEMMA PaginasIguales ==
    ASSUME UNCHANGED memoriaVars, NEW p
    PROVE  PagesOf(p)' = PagesOf(p)
  BY DEF memoriaVars, paginacionVars, PagesOf

LEMMA LugaresDeDespachar ==
    ASSUME MarcosInv, Lugares, Despachar
    PROVE  Lugares'
<1> DEFINE s == queueReadys
<1>1. /\ s \in Seq(Pids) /\ s # <<>> /\ cpu.fase = "libre" /\ vuelve = NULL
      /\ cpu' = [CpuLibre EXCEPT !.fase = "pedir", !.pid = Head(s)]
      /\ estado' = [estado EXCEPT ![Head(s)] = "EXEC"]
      /\ queueReadys' = Tail(s)
      /\ UNCHANGED <<info, vuelve, paramsIo, aInterfaz, deInterfaz, interfaz>>
      /\ UNCHANGED memoriaVars
  BY DEF Despachar, interfazVars, MarcosInv, Procesos
<1>2. PICK p0 \in Pids : p0 = Head(s)
  BY <1>1
<1>3. EsSeq(s)
  BY <1>1, SonSeq
<1>4. /\ SinRepetir(Tail(s)) /\ p0 \notin Elementos(Tail(s))
      /\ Elementos(s) = Elementos(Tail(s)) \cup {p0}
  BY <1>1, <1>2, <1>3, SinRepetirAlSacar DEF Lugares, Listos
<1>5. estado[p0] = "READY" /\ info[p0] = NULL
  BY <1>4 DEF Lugares, Listos
<1>6. /\ estado \in [Pids -> Estados] /\ estado' \in [Pids -> Estados]
      /\ estado'[p0] = "EXEC" /\ \A q \in Pids \ {p0} : estado'[q] = estado[q]
  BY <1>1, <1>2 DEF Lugares, Estados
<1>7. SoloElProceso(p0)
  BY <1>1, <1>6, PaginasIguales DEF SoloElProceso
<1>8. EnEspera'
  BY <1>1, <1>5, <1>7, EsperaQuieta DEF Lugares
<1>9. Listos'
  <2>1. \A p \in Elementos(Tail(s)) : p \in Pids \ {p0} /\ estado[p] = "READY" /\ info[p] = NULL
    <3>1. \A p \in Elementos(s) : p \in Pids /\ estado[p] = "READY" /\ info[p] = NULL
      BY <1>1, ElementosDeSeq DEF Lugares, Listos
    <3> QED
      BY <1>4, <3>1
  <2>2. SinRepetir(queueReadys)' /\ Elementos(queueReadys)' = Elementos(Tail(s))
    BY <1>1, <1>4
  <2> QED
    BY <1>1, <1>6, <2>1, <2>2 DEF Listos
<1>10. cpu'.fase = "pedir" /\ cpu'.pid = p0
  BY <1>1, <1>2 DEF CpuLibre
<1>11. EnLaCpu'
  <2>1. cpu.pid = NULL
    BY <1>1 DEF Lugares, EnLaCpu
  <2>2. \A p \in Pids : estado'[p] = "EXEC" => p = p0
    BY <1>1, <1>6, <2>1, ConstantesDeEjecucion DEF Lugares, EnLaCpu
  <2> QED
    BY <1>1, <1>5, <1>6, <1>10, <2>2, ConstantesDeEjecucion DEF EnLaCpu
<1>12. (\A p \in Pids : info[p] = NULL \/ ConPedido(p))'
  BY <1>1, <1>5, <1>7, PedidosQuietos DEF Lugares
<1> QED
  BY <1>1, <1>6, <1>8, <1>9, <1>11, <1>12 DEF Lugares

LEMMA LugaresDeRecibirPcb ==
    ASSUME MarcosInv, Lugares, RecibirPcb
    PROVE  Lugares'
<1>1. /\ queueReadys \in Seq(Pids) /\ vuelve # NULL /\ vuelve' = NULL
      /\ UNCHANGED <<info, cpu, aInterfaz, deInterfaz, interfaz>>
      /\ UNCHANGED memoriaVars
  BY DEF RecibirPcb, interfazVars, MarcosInv, Procesos
<1>2. PICK p0 \in Pids : p0 = vuelve.pid
  BY <1>1 DEF Lugares, EnLaCpu, Regresos
<1>3. \E e \in {"READY", "BLOCKED", "EXIT"} : estado' = [estado EXCEPT ![p0] = e]
  BY <1>2 DEF RecibirPcb
<1>4. /\ estado \in [Pids -> Estados] /\ estado' \in [Pids -> Estados]
      /\ estado'[p0] # "EXEC" /\ \A q \in Pids \ {p0} : estado'[q] = estado[q]
  BY <1>2, <1>3 DEF Lugares, Estados
<1>5. SoloElProceso(p0)
  BY <1>1, <1>4, PaginasIguales DEF SoloElProceso
<1>6. /\ estado[p0] = "EXEC"
      /\ IF vuelve.reason = "IO" THEN ConPedido(p0) ELSE info[p0] = NULL
  BY <1>1, <1>2 DEF Lugares, EnLaCpu
<1>7. ConPedido(p0) => ConPedido(p0)'
  BY <1>1, PaginasIguales, PedidoQuieto
<1>8. EnLaCpu'
  <2>1. cpu.pid = NULL
    BY <1>1 DEF Lugares, EnLaCpu
  <2>2. \A p \in Pids : estado'[p] # "EXEC"
    BY <1>2, <1>4, <2>1, ConstantesDeEjecucion DEF Lugares, EnLaCpu
  <2> QED
    BY <1>1, <2>1, <2>2 DEF EnLaCpu, Lugares
<1>9. (\A p \in Pids : info[p] = NULL \/ ConPedido(p))'
  BY <1>1, <1>5, <1>7, PedidosQuietos DEF Lugares
<1>10. CASE vuelve.reason # "IO"
  <2>1. paramsIo' = paramsIo
    BY <1>10 DEF RecibirPcb
  <2>2. EnEspera'
    BY <1>1, <1>5, <1>6, <2>1, EsperaQuieta DEF Lugares
  <2>3. \/ queueReadys' = Append(queueReadys, p0) /\ estado'[p0] = "READY"
        \/ queueReadys' = queueReadys
    BY <1>2, <1>4, <1>10 DEF RecibirPcb, Lugares
  <2>4. Listos'
    BY <1>1, <1>5, <1>6, <1>10, <2>3, ListosQuietos, ListosAlEntrar DEF Lugares
  <2> QED
    BY <1>1, <1>4, <1>8, <1>9, <2>2, <2>4 DEF Lugares
<1>11. CASE vuelve.reason = "IO"
  <2>1. paramsIo' = p0 /\ queueReadys' = queueReadys /\ estado'[p0] = "BLOCKED"
    BY <1>2, <1>4, <1>11 DEF RecibirPcb, Lugares
  <2>2. ConPedido(p0)'
    BY <1>6, <1>7, <1>11
  <2>3. \A i \in Interfaces : EnEsperaDe(i)'
    BY <1>1, <1>5, <1>6, <2>1, EsperaDeQuieta DEF Lugares, EnEspera, EnIo
  <2>4. (estado[paramsIo])' = "BLOCKED" /\ ConPedido(paramsIo)'
    BY <2>1, <2>2 DEF ConPedido
  <2>5. EnEspera'
    BY <1>1, <2>1, <2>3, <2>4 DEF Lugares, EnEspera
  <2>6. Listos'
    BY <1>1, <1>5, <1>6, <2>1, ListosQuietos DEF Lugares
  <2> QED
    BY <1>1, <1>4, <1>8, <1>9, <2>5, <2>6 DEF Lugares
<1> QED
  BY <1>10, <1>11

\* The interface i goes on with who it had, or with a process more, or one less.
LEMMA EsperaDeUna ==
    ASSUME NEW i, EsSeq(aInterfaz'[i]),
           Cola(aInterfaz'[i], Atendido(i)', deInterfaz'[i]),
           interfaz'[i].fase \in {"libre", "memoria", "avisar"},
           NEW S, Ocupantes(i)' \subseteq S, \A p \in S : EnIo(i, p)',
           \A m \in Elementos(deInterfaz'[i]) : m.op \in {"FINISHED_IO", "FINISHED_IO_ERROR"}
    PROVE  EnEsperaDe(i)'
<1>1. \A p \in Ocupantes(i)' : EnIo(i, p)'
  OBVIOUS
<1> QED
  BY <1>1 DEF EnEsperaDe

LEMMA LugaresDeIoFunction ==
    ASSUME MarcosInv, Lugares, IoFunction
    PROVE  Lugares'
<1>1. /\ queueReadys \in Seq(Pids) /\ paramsIo # NULL /\ paramsIo' = NULL
      /\ UNCHANGED <<queueReadys, cpu, vuelve, deInterfaz, interfaz>>
      /\ UNCHANGED memoriaVars
  BY DEF IoFunction, MarcosInv, Procesos
<1>2. PICK p0 \in Pids : p0 = paramsIo
  BY <1>1 DEF Lugares, EnEspera
<1>3. estado[p0] = "BLOCKED" /\ ConPedido(p0)
  BY <1>1, <1>2 DEF Lugares, EnEspera
<1>4. \/ /\ info[p0].io \in Interfaces
         /\ aInterfaz' = [aInterfaz EXCEPT ![info[p0].io] = Append(@, p0)]
         /\ UNCHANGED <<estado, info>>
      \/ /\ estado' = [estado EXCEPT ![p0] = "EXIT"]
         /\ info' = [info EXCEPT ![p0] = NULL]
         /\ UNCHANGED aInterfaz
  BY <1>2 DEF IoFunction
<1>5. /\ estado \in [Pids -> Estados] /\ estado' \in [Pids -> Estados]
      /\ info' = [p \in Pids |-> info'[p]]
      /\ estado'[p0] \in {"BLOCKED", "EXIT"}
      /\ \A q \in Pids \ {p0} : estado'[q] = estado[q] /\ info'[q] = info[q]
  BY <1>3, <1>4 DEF Lugares, Estados
<1>6. SoloElProceso(p0)
  BY <1>1, <1>5, PaginasIguales DEF SoloElProceso
<1>7. Listos'
  BY <1>1, <1>3, <1>6, ListosQuietos DEF Lugares
<1>8. ConPedido(p0) => ConPedido(p0)' \/ info' # info
  BY <1>1, PaginasIguales, PedidoQuieto
<1>9. (\A p \in Pids : info[p] = NULL \/ ConPedido(p))'
  <2>1. info'[p0] = NULL \/ ConPedido(p0)'
    <3>1. CASE info' = info
      BY <1>3, <1>8, <3>1
    <3>2. CASE info' = [info EXCEPT ![p0] = NULL]
      BY <3>2 DEF Lugares
    <3> QED
      BY <1>4, <3>1, <3>2
  <2> QED
    BY <1>6, <2>1, PedidosQuietos DEF Lugares
<1>10. EnLaCpu'
  BY <1>1, <1>3, <1>5, <1>6, EnLaCpuQuieta DEF Lugares, MarcosInv, Procesos
<1>11. EnEspera'
  <2>1. ASSUME NEW i \in Interfaces, aInterfaz'[i] = aInterfaz[i] PROVE EnEsperaDe(i)'
    BY <1>1, <1>2, <1>6, <2>1, EsperaDeQuieta DEF Lugares, EnEspera, EnIo
  <2>2. CASE aInterfaz' = aInterfaz
    BY <1>1, <2>1, <2>2 DEF Lugares, EnEspera
  <2>3. CASE /\ info[p0].io \in Interfaces
             /\ aInterfaz' = [aInterfaz EXCEPT ![info[p0].io] = Append(@, p0)]
             /\ UNCHANGED <<estado, info>>
    <3>1. PICK i \in Interfaces : i = info[p0].io
      BY <2>3
    <3> DEFINE a == aInterfaz[i]
    <3> DEFINE e == Append(a, p0)
    <3>2. /\ aInterfaz = [j \in Interfaces |-> aInterfaz[j]]
          /\ aInterfaz' = [aInterfaz EXCEPT ![i] = e]
      BY <2>3, <3>1 DEF Lugares, EnEspera
    <3>3. /\ EnEsperaDe(i) /\ EsSeq(a) /\ Cola(a, Atendido(i), deInterfaz[i])
          /\ \A p \in Ocupantes(i) : EnIo(i, p)
      BY DEF Lugares, EnEspera, EnEsperaDe
    <3>4. p0 \notin Ocupantes(i)
      BY <1>2, <3>3 DEF EnIo
    <3>5. /\ Cola(e, Atendido(i), deInterfaz[i])
          /\ Elementos(e) = Elementos(a) \cup {p0} /\ EsSeq(e)
      BY <3>3, <3>4, ColaAlPedir, AlAgregar DEF Ocupantes
    <3> HIDE DEF e
    <3>6. /\ aInterfaz' = [j \in Interfaces |-> aInterfaz'[j]] /\ aInterfaz'[i] = e
          /\ \A j \in Interfaces : j # i => aInterfaz'[j] = aInterfaz[j]
      BY <3>2, AlCambiar
    <3>7. /\ Atendido(i)' = Atendido(i)
          /\ deInterfaz'[i] = deInterfaz[i] /\ interfaz'[i] = interfaz[i]
      BY <1>1 DEF Atendido
    <3>8. Ocupantes(i)' = Ocupantes(i) \cup {p0}
      BY <3>5, <3>6, <3>7 DEF Ocupantes
    <3>9. ASSUME NEW p \in Ocupantes(i) PROVE EnIo(i, p)'
      <4>1. EnIo(i, p) /\ ~EnIo(i, p0)
        BY <1>2, <3>3 DEF EnIo
      <4> QED
        BY <1>1, <1>6, <4>1, EnIoQuieto
    <3>10. EnIo(i, p0)'
      <4>1. ConPedido(p0)'
        BY <1>3, <1>8, <2>3
      <4> QED
        BY <1>1, <1>2, <1>3, <2>3, <3>1, <4>1, ConstantesDeEjecucion DEF EnIo
    <3>11. EnEsperaDe(i)'
      <4>1. /\ EsSeq(aInterfaz'[i]) /\ Cola(aInterfaz'[i], Atendido(i)', deInterfaz'[i])
            /\ interfaz'[i].fase \in {"libre", "memoria", "avisar"}
            /\ \A m \in Elementos(deInterfaz'[i]) : m.op \in {"FINISHED_IO", "FINISHED_IO_ERROR"}
        BY <3>3, <3>5, <3>6, <3>7 DEF EnEsperaDe
      <4>2. \A p \in Ocupantes(i) \cup {p0} : EnIo(i, p)'
        BY <3>9, <3>10
      <4> QED
        BY <3>8, <4>1, <4>2, EsperaDeUna
    <3> QED
      BY <1>1, <2>1, <3>6, <3>11 DEF EnEspera
  <2> QED
    BY <1>4, <2>2, <2>3
<1> QED
  BY <1>1, <1>5, <1>7, <1>9, <1>10, <1>11 DEF Lugares

LEMMA LugaresDeTerminarIo ==
    ASSUME MarcosInv, Lugares, NEW i \in Interfaces, TerminarIo(i)
    PROVE  Lugares'
<1> DEFINE d == deInterfaz[i]
<1> DEFINE t == Tail(d)
<1>1. /\ queueReadys \in Seq(Pids) /\ d # <<>> /\ EsSeq(d)
      /\ deInterfaz = [j \in Interfaces |-> deInterfaz[j]]
      /\ deInterfaz' = [deInterfaz EXCEPT ![i] = t]
      /\ UNCHANGED <<cpu, vuelve, paramsIo, aInterfaz, interfaz>>
      /\ UNCHANGED memoriaVars
  BY DEF TerminarIo, MarcosInv, Procesos
<1>2. /\ EnEsperaDe(i) /\ EsSeq(aInterfaz[i])
      /\ Cola(aInterfaz[i], Atendido(i), d) /\ \A p \in Ocupantes(i) : EnIo(i, p)
  BY DEF Lugares, EnEspera, EnEsperaDe
<1>3. /\ Cola(aInterfaz[i], Atendido(i), t)
      /\ Head(d).pid \notin Elementos(aInterfaz[i]) \cup Atendido(i) \cup PidsDe(t)
      /\ Head(d) \in Elementos(d) /\ Elementos(t) \subseteq Elementos(d)
  BY <1>1, <1>2, ColaAlRecibir
<1>4. EnIo(i, Head(d).pid)
  BY <1>2, <1>3 DEF Ocupantes, PidsDe
<1>5. PICK p0 \in Pids : p0 = Head(d).pid
  BY <1>4 DEF EnIo
<1>6. p0 # paramsIo /\ estado[p0] = "BLOCKED" /\ info[p0].io = i
  BY <1>4, <1>5 DEF EnIo
<1>7. /\ info' = [info EXCEPT ![p0] = NULL]
      /\ \/ estado' = [estado EXCEPT ![p0] = "READY"] /\ queueReadys' = Append(queueReadys, p0)
         \/ estado' = [estado EXCEPT ![p0] = "EXIT"] /\ UNCHANGED queueReadys
  BY <1>5 DEF TerminarIo
<1> HIDE DEF t
<1>8. /\ estado \in [Pids -> Estados] /\ estado' \in [Pids -> Estados]
      /\ info' = [p \in Pids |-> info'[p]]
      /\ info'[p0] = NULL /\ estado'[p0] # "EXEC"
      /\ \/ estado'[p0] = "READY" /\ queueReadys' = Append(queueReadys, p0)
         \/ UNCHANGED queueReadys
      /\ \A q \in Pids \ {p0} : estado'[q] = estado[q] /\ info'[q] = info[q]
  BY <1>7 DEF Lugares, Estados
<1>9. SoloElProceso(p0)
  BY <1>1, <1>8, PaginasIguales DEF SoloElProceso
<1>10. Listos'
  BY <1>1, <1>6, <1>8, <1>9, ListosQuietos, ListosAlEntrar DEF Lugares
<1>11. EnLaCpu'
  BY <1>1, <1>6, <1>8, <1>9, EnLaCpuQuieta DEF Lugares, MarcosInv, Procesos
<1>12. (\A p \in Pids : info[p] = NULL \/ ConPedido(p))'
  BY <1>8, <1>9, PedidosQuietos DEF Lugares
<1>13. /\ deInterfaz'[i] = t
       /\ \A j \in Interfaces : j # i => deInterfaz'[j] = deInterfaz[j]
  BY <1>1, AlCambiar
<1>14. ASSUME NEW j \in Interfaces, j # i PROVE EnEsperaDe(j)'
  <2>1. EnEsperaDe(j) /\ ~EnIo(j, p0)
    BY <1>6, <1>14 DEF Lugares, EnEspera, EnIo
  <2> QED
    BY <1>1, <1>9, <1>13, <1>14, <2>1, EsperaDeQuieta
<1>15. EnEsperaDe(i)'
  <2> DEFINE S == Elementos(aInterfaz[i]) \cup Atendido(i) \cup PidsDe(t)
  <2>1. Atendido(i)' = Atendido(i)
    BY <1>1 DEF Atendido
  <2>2. Ocupantes(i)' = S
    BY <1>1, <1>13, <2>1 DEF Ocupantes
  <2>3. ASSUME NEW p \in S PROVE EnIo(i, p)'
    <3>1. p # p0 /\ p \in Ocupantes(i)
      BY <1>3, <1>5 DEF Ocupantes, PidsDe
    <3>2. EnIo(i, p)
      BY <1>2, <3>1
    <3>3. p \in Pids /\ p # paramsIo /\ estado[p] = "BLOCKED" /\ ConPedido(p) /\ info[p].io = i
      BY <3>2 DEF EnIo
    <3>4. estado'[p] = estado[p] /\ info'[p] = info[p] /\ PagesOf(p)' = PagesOf(p)
      BY <1>9, <3>1, <3>3 DEF SoloElProceso
    <3>5. ConPedido(p)'
      BY <3>3, <3>4, PedidoQuieto
    <3> QED
      BY <1>1, <3>3, <3>4, <3>5 DEF EnIo
  <2> HIDE DEF S
  <2>4. /\ EsSeq(aInterfaz'[i]) /\ Cola(aInterfaz'[i], Atendido(i)', deInterfaz'[i])
        /\ interfaz'[i].fase \in {"libre", "memoria", "avisar"}
        /\ \A m \in Elementos(deInterfaz'[i]) : m.op \in {"FINISHED_IO", "FINISHED_IO_ERROR"}
    BY <1>1, <1>2, <1>3, <1>13, <2>1 DEF EnEsperaDe
  <2> QED
    BY <2>2, <2>3, <2>4, EsperaDeUna
<1>16. paramsIo # NULL => estado'[paramsIo] = "BLOCKED" /\ ConPedido(paramsIo)'
  <2> SUFFICES ASSUME paramsIo # NULL
               PROVE  estado'[paramsIo] = "BLOCKED" /\ ConPedido(paramsIo)'
    OBVIOUS
  <2>1. PICK q \in Pids : q = paramsIo
    BY DEF Lugares, EnEspera
  <2>2. estado[q] = "BLOCKED" /\ ConPedido(q) /\ q # p0
    BY <1>6, <2>1 DEF Lugares, EnEspera
  <2>3. estado'[q] = estado[q] /\ info'[q] = info[q] /\ PagesOf(q)' = PagesOf(q)
    BY <1>9, <2>2 DEF SoloElProceso
  <2>4. ConPedido(q)'
    BY <2>2, <2>3, PedidoQuieto
  <2>5. paramsIo' = q
    BY <1>1, <2>1
  <2> QED
    BY <2>1, <2>2, <2>3, <2>4, <2>5 DEF ConPedido
<1>17. paramsIo' # NULL => (estado[paramsIo])' = "BLOCKED" /\ ConPedido(paramsIo)'
  BY <1>1, <1>16
<1>18. EnEspera'
  BY <1>1, <1>14, <1>15, <1>17 DEF EnEspera, Lugares
<1> QED
  BY <1>8, <1>10, <1>11, <1>12, <1>18 DEF Lugares

-------------------------------------------------------------------------------
(* The places, when an interface moves. *)

\* A request goes from the queue to the interface or to its notices, or from the
\* interface to its notices.
Avanza(i) ==
    \/ /\ interfaz[i].fase = "libre" /\ aInterfaz[i] # <<>>
       /\ aInterfaz' = [aInterfaz EXCEPT ![i] = Tail(@)]
       /\ \/ /\ interfaz' = interfaz
             /\ \E op \in {"FINISHED_IO", "FINISHED_IO_ERROR"} :
                  Avisar(i, Head(aInterfaz[i]), op)
          \/ /\ deInterfaz' = deInterfaz
             /\ \E fase \in {"memoria", "avisar"} : Ocupar(i, Head(aInterfaz[i]), fase)
    \/ /\ interfaz[i].fase # "libre" /\ UNCHANGED aInterfaz
       /\ interfaz' = [interfaz EXCEPT ![i] = InterfazLibre]
       /\ Avisar(i, interfaz[i].pid, "FINISHED_IO")

LEMMA InterfazAvanza ==
    ASSUME NEW i \in Interfaces, Interfaz(i)
    PROVE  Avanza(i)
<1>1. PICK p \in Pids : \/ Rechazar(i, p) \/ HacerSinMemoria(i, p) \/ Fallar(i, p)
                        \/ LeerTeclado(i, p) \/ PedirTexto(i, p) \/ RecibirDeMemoria(i, p)
                        \/ EnviarLoLeido(i, p) \/ AvisarLoLeido(i, p)
  BY DEF Interfaz
<1>2. CASE Rechazar(i, p)
  BY <1>2, Zenon DEF Rechazar, Toma, Avanza
<1>3. CASE HacerSinMemoria(i, p)
  BY <1>3, Zenon DEF HacerSinMemoria, Toma, Avanza
<1>4. CASE Fallar(i, p)
  BY <1>4, Zenon DEF Fallar, Toma, Avanza
<1>5. CASE LeerTeclado(i, p)
  BY <1>5, Zenon DEF LeerTeclado, Toma, Avanza
<1>6. CASE PedirTexto(i, p)
  BY <1>6, Zenon DEF PedirTexto, Toma, Avanza
<1>7. CASE RecibirDeMemoria(i, p)
  <2>1. interfaz[i].fase = "memoria" /\ interfaz[i].pid = p
    BY <1>7 DEF RecibirDeMemoria
  <2> QED
    BY <1>7, <2>1 DEF RecibirDeMemoria, Avanza
<1>8. CASE EnviarLoLeido(i, p)
  BY <1>8, Zenon DEF EnviarLoLeido, Toma, Avanza
<1>9. CASE AvisarLoLeido(i, p)
  <2>1. interfaz[i].fase = "avisar" /\ interfaz[i].pid = p
    BY <1>9 DEF AvisarLoLeido
  <2> QED
    BY <1>9, <2>1 DEF AvisarLoLeido, Avanza
<1> QED
  BY <1>1, <1>2, <1>3, <1>4, <1>5, <1>6, <1>7, <1>8, <1>9

\* Nothing of the processes changes.
LEMMA NingunProceso ==
    ASSUME UNCHANGED <<estado, info, pageTable>>
    PROVE  SoloElProceso(NULL)
  BY DEF SoloElProceso, PagesOf

LEMMA LugaresDeInterfaz ==
    ASSUME MarcosInv, Lugares, NEW i \in Interfaces, Interfaz(i)
    PROVE  Lugares'
<1> DEFINE a == aInterfaz[i]
<1> DEFINE z == interfaz[i]
<1> DEFINE d == deInterfaz[i]
<1>1. /\ queueReadys \in Seq(Pids) /\ EsSeq(d)
      /\ deInterfaz = [j \in Interfaces |-> deInterfaz[j]]
      /\ interfaz = [j \in Interfaces |-> interfaz[j]]
      /\ UNCHANGED <<cpu, vuelve, paramsIo, queueReadys, estado, info, pageTable>>
  BY DEF Interfaz, planVars, memoriaInterna, paginacionVars, MarcosInv, Procesos, DialogoInv,
     Forma
<1>2. /\ EnEsperaDe(i) /\ EsSeq(a) /\ Cola(a, Atendido(i), d)
      /\ \A p \in Ocupantes(i) : EnIo(i, p)
      /\ aInterfaz = [j \in Interfaces |-> aInterfaz[j]]
      /\ z.fase \in {"libre", "memoria", "avisar"}
      /\ \A m \in Elementos(d) : m.op \in {"FINISHED_IO", "FINISHED_IO_ERROR"}
  BY DEF Lugares, EnEspera, EnEsperaDe
<1>3. Avanza(i)
  BY InterfazAvanza
<1>4. SoloElProceso(NULL) /\ NULL \notin Pids
  BY <1>1, NingunProceso, ConstantesDeEjecucion
<1>5. /\ aInterfaz' = [j \in Interfaces |-> aInterfaz'[j]]
      /\ \A j \in Interfaces : j # i =>
           /\ aInterfaz'[j] = aInterfaz[j] /\ interfaz'[j] = interfaz[j]
           /\ deInterfaz'[j] = deInterfaz[j]
  BY <1>1, <1>2, <1>3, Zenon, AlCambiar DEF Avanza, Avisar, Ocupar
<1>6. ASSUME NEW j \in Interfaces, j # i PROVE EnEsperaDe(j)'
  <2>1. EnEsperaDe(j) /\ ~EnIo(j, NULL)
    BY <1>4 DEF Lugares, EnEspera, EnIo
  <2> QED
    BY <1>1, <1>4, <1>5, <1>6, <2>1, EsperaDeQuieta
\* Who is where, with the interface that moves.
<1> DEFINE Bien ==
      /\ EsSeq(aInterfaz'[i]) /\ Cola(aInterfaz'[i], Atendido(i)', deInterfaz'[i])
      /\ interfaz'[i].fase \in {"libre", "memoria", "avisar"}
      /\ Ocupantes(i)' \subseteq Ocupantes(i)
      /\ \A m \in Elementos(deInterfaz'[i]) : m.op \in {"FINISHED_IO", "FINISHED_IO_ERROR"}
<1>7. ASSUME z.fase = "libre", a # <<>>, aInterfaz'[i] = Tail(a)
      PROVE  /\ EsSeq(Tail(a)) /\ Cola(Tail(a), {Head(a)}, d)
             /\ Ocupantes(i) = Elementos(Tail(a)) \cup {Head(a)} \cup PidsDe(d)
  <2>1. Atendido(i) = {}
    BY <1>7 DEF Atendido
  <2>2. Cola(Tail(a), {Head(a)}, d) /\ Elementos(a) = Elementos(Tail(a)) \cup {Head(a)}
    BY <1>2, <1>7, <2>1, ColaAlTomar
  <2> QED
    BY <1>2, <1>7, <2>1, <2>2, AlSacar DEF Ocupantes
\* A notice more.
<1>8. ASSUME NEW b, NEW p, NEW op \in {"FINISHED_IO", "FINISHED_IO_ERROR"},
             Cola(b, {p}, d), Avisar(i, p, op)
      PROVE  /\ Cola(b, {}, deInterfaz'[i]) /\ PidsDe(deInterfaz'[i]) = PidsDe(d) \cup {p}
             /\ \A m \in Elementos(deInterfaz'[i]) :
                  m.op \in {"FINISHED_IO", "FINISHED_IO_ERROR"}
  <2> DEFINE m0 == [op |-> op, pid |-> p]
  <2>1. m0.pid = p /\ m0.op = op
    OBVIOUS
  <2>2. deInterfaz' = [deInterfaz EXCEPT ![i] = Append(@, m0)]
    BY <1>8 DEF Avisar
  <2> HIDE DEF m0
  <2>3. deInterfaz'[i] = Append(d, m0)
    BY <1>1, <2>2
  <2> HIDE DEF d
  <2>4. Cola(b, {}, Append(d, m0)) /\ PidsDe(Append(d, m0)) = PidsDe(d) \cup {p}
    <3>1. Cola(b, {m0.pid}, d)
      BY <1>8, <2>1
    <3>2. EsSeq(d)
      BY <1>1
    <3> QED
      BY <2>1, <3>1, <3>2, ColaAlAvisar, Zenon
  <2>5. Elementos(Append(d, m0)) \subseteq Elementos(d) \cup {m0}
    BY <1>1, ElementosAlAgregar
  <2> QED
    BY <1>2, <2>1, <2>3, <2>4, <2>5
<1>9. Bien
  <2>1. CASE /\ z.fase = "libre" /\ a # <<>> /\ aInterfaz' = [aInterfaz EXCEPT ![i] = Tail(@)]
             /\ interfaz' = interfaz
             /\ \E op \in {"FINISHED_IO", "FINISHED_IO_ERROR"} : Avisar(i, Head(a), op)
    <3>1. aInterfaz'[i] = Tail(a)
      BY <1>2, <2>1
    <3>2. /\ EsSeq(Tail(a)) /\ Cola(Tail(a), {Head(a)}, d)
          /\ Ocupantes(i) = Elementos(Tail(a)) \cup {Head(a)} \cup PidsDe(d)
      BY <1>7, <2>1, <3>1
    <3>3. /\ Cola(Tail(a), {}, deInterfaz'[i])
          /\ PidsDe(deInterfaz'[i]) = PidsDe(d) \cup {Head(a)}
          /\ \A m \in Elementos(deInterfaz'[i]) : m.op \in {"FINISHED_IO", "FINISHED_IO_ERROR"}
      BY <1>8, <2>1, <3>2
    <3>4. Atendido(i)' = {}
      BY <2>1 DEF Atendido
    <3> QED
      BY <1>2, <2>1, <3>1, <3>2, <3>3, <3>4 DEF Ocupantes
  <2>2. CASE /\ z.fase = "libre" /\ a # <<>> /\ aInterfaz' = [aInterfaz EXCEPT ![i] = Tail(@)]
             /\ deInterfaz' = deInterfaz
             /\ \E fase \in {"memoria", "avisar"} : Ocupar(i, Head(a), fase)
    <3>1. aInterfaz'[i] = Tail(a)
      BY <1>2, <2>2
    <3>2. /\ EsSeq(Tail(a)) /\ Cola(Tail(a), {Head(a)}, d)
          /\ Ocupantes(i) = Elementos(Tail(a)) \cup {Head(a)} \cup PidsDe(d)
      BY <1>7, <2>2, <3>1
    <3>3. PICK fase \in {"memoria", "avisar"} :
            interfaz' = [interfaz EXCEPT ![i] = [fase |-> fase, pid |-> Head(a)]]
      BY <2>2 DEF Ocupar
    <3>4. interfaz'[i].fase \in {"memoria", "avisar"} /\ interfaz'[i].pid = Head(a)
      BY <1>1, <3>3
    <3>5. Atendido(i)' = {Head(a)}
      BY <3>4 DEF Atendido
    <3> QED
      BY <1>2, <2>2, <3>1, <3>2, <3>4, <3>5 DEF Ocupantes
  <2>3. CASE /\ z.fase # "libre" /\ UNCHANGED aInterfaz
             /\ interfaz' = [interfaz EXCEPT ![i] = InterfazLibre]
             /\ Avisar(i, z.pid, "FINISHED_IO")
    <3>1. Atendido(i) = {z.pid}
      BY <2>3 DEF Atendido
    <3>2. /\ Cola(a, {}, deInterfaz'[i]) /\ PidsDe(deInterfaz'[i]) = PidsDe(d) \cup {z.pid}
          /\ \A m \in Elementos(deInterfaz'[i]) : m.op \in {"FINISHED_IO", "FINISHED_IO_ERROR"}
      BY <1>2, <1>8, <2>3, <3>1
    <3>3. interfaz'[i].fase = "libre"
      BY <1>1, <2>3 DEF InterfazLibre
    <3>4. Atendido(i)' = {}
      BY <3>3 DEF Atendido
    <3> QED
      BY <1>2, <2>3, <3>1, <3>2, <3>3, <3>4 DEF Ocupantes
  <2> QED
    BY <1>3, <2>1, <2>2, <2>3 DEF Avanza
<1>10. EnEsperaDe(i)'
  <2>1. ASSUME NEW p \in Ocupantes(i) PROVE EnIo(i, p)'
    <3>1. EnIo(i, p) /\ ~EnIo(i, NULL)
      BY <1>2, <1>4 DEF EnIo
    <3> QED
      BY <1>1, <1>4, <3>1, EnIoQuieto
  <2> QED
    BY <1>9, <2>1, EsperaDeUna
<1>11. paramsIo # NULL => ConPedido(paramsIo)'
  <2>1. ASSUME NEW p, ConPedido(p) PROVE ConPedido(p)'
    BY <1>1, <2>1, PedidoQuieto DEF PagesOf
  <2>2. PICK p : p = paramsIo
    OBVIOUS
  <2>3. paramsIo' = p /\ (paramsIo # NULL => ConPedido(p))
    BY <1>1, <2>2 DEF Lugares, EnEspera
  <2> QED
    BY <2>1, <2>3 DEF ConPedido
<1>12. EnEspera'
  BY <1>1, <1>5, <1>6, <1>10, <1>11 DEF EnEspera, Lugares
<1>13. Listos'
  BY <1>1 DEF Listos, Lugares
<1>14. EnLaCpu'
  BY <1>1, <1>4, EnLaCpuQuieta DEF Lugares, MarcosInv, Procesos
<1>15. (\A p \in Pids : info[p] = NULL \/ ConPedido(p))'
  BY <1>4, PedidosQuietos DEF Lugares
<1> QED
  BY <1>1, <1>12, <1>13, <1>14, <1>15 DEF Lugares

-------------------------------------------------------------------------------
(* What the CPU is doing, and what travels. *)

AccesoEnCurso ==
    /\ BienEscrita(cpu.inst) /\ cpu.inst.op \in ConAcceso
    /\ \A k \in 1 .. Len(cpu.dirs) : Corresponde(cpu.pid, cpu.dirs[k], LasPartes[k].dir)
    /\ cpu.fase = "frame" =>
         /\ Len(cpu.dirs) < Len(LasPartes)
         /\ Len(cpu.datos) = (IF cpu.inst.op = "MOV_IN" THEN Len(cpu.dirs) ELSE 0)
    /\ cpu.fase = "dato" =>
         /\ cpu.inst.op = "MOV_IN"
         /\ Len(cpu.dirs) <= Len(LasPartes) /\ Len(cpu.datos) + 1 = Len(cpu.dirs)

\* The instruction in course, with the addresses that have been translated and the
\* numbers that have been read.
EnCurso ==
    /\ registros \in [Pids -> JuegoDeRegistros]
    /\ cpu.fase \in FasesCpu
    /\ cpu.dirs \in Seq(Int) /\ cpu.datos \in Seq(0 .. Entera - 1)
    /\ cpu.fase \in {"libre", "pedir", "instruccion", "okey"}
         => cpu.dirs = <<>> /\ cpu.datos = <<>>
    /\ cpu.fase \in {"frame", "dato"} => AccesoEnCurso

BienHecho(m) ==
    /\ m.op \in Sincronicos \cup Asincronicos
    /\ m.pid \in Pids
    /\ m.largo \in Nat /\ m.logica \in Nat /\ m.dir \in Int
    /\ m.op = "MOVE_IN" => m.largo \in 1 .. 4
    /\ m.op \in {"MOVE_OUT", "COPY_STRING"} => m.dato \in Int
    /\ m.op \in {"IO_STDIN_READ", "FS_READ"} => m.dato \in Seq(Byte)

\* A request of the CPU.  One that is answered is for what the CPU waits for; one that
\* is not, of a process that has neither been blocked nor ended since.
DeLaCpu(m) ==
    /\ BienHecho(m)
    /\ m.op \in {"REQUESTINSTRUCTIONS", "RESIZE", "SOLICITUD_FRAME", "MOVE_IN", "MOVE_OUT",
                 "COPY_STRING"}
    /\ m.op \in {"MOVE_IN", "MOVE_OUT", "COPY_STRING"} => Corresponde(m.pid, m.dir, m.logica)
    /\ m.op \in Sincronicos => m.pid = cpu.pid
    /\ cpu.fase = "frame" /\ m.op \in Sincronicos
         => m.op = "SOLICITUD_FRAME" /\ m.dato = ParteActual.dir \div PageLength
    /\ cpu.fase = "dato" => m.op = "MOVE_IN"
    /\ cpu.fase = "okey" => m.op = "RESIZE"
    /\ m.op \in {"MOVE_OUT", "COPY_STRING"}
         => estado[m.pid] \in {"READY", "EXEC"} /\ info[m.pid] = NULL

\* One of the interface i.  Nothing is known of where a FS_READ goes when it arrives.
DeLaInterfaz(i, m) ==
    /\ BienHecho(m)
    /\ m.op \in {"IO_STDIN_READ", "WRITE", "FS_WRITE", "FS_READ"}
    /\ m.op # "FS_READ" =>
         /\ interfaz[i].fase = "memoria" /\ m.pid = interfaz[i].pid
         /\ info[m.pid].op \in OpsIoConDireccion
         /\ m.dir = info[m.pid].dir /\ m.logica = info[m.pid].logica

DelKernel(m) == BienHecho(m) /\ m.op = "PROCESSTOMEMORY"

\* The answer that waits for the CPU.
Contestado ==
    deMemoria["CPU"] # <<>> =>
      /\ cpu.fase = "instruccion" => BienEscrita(Recibido)
      /\ cpu.fase = "frame" => Recibido = GetFrame(cpu.pid, ParteActual.dir \div PageLength)
      /\ cpu.fase = "dato" => Recibido \in 0 .. Entera - 1
      /\ cpu.fase = "okey" => Recibido \in {0, 1}

\* A process that is back for good left nothing to be attended behind it.
SinDeudas == vuelve # NULL /\ vuelve.reason # "QUANTUM" => aMemoria["CPU"] = <<>>

Preguntas ==
    /\ \A m \in Elementos(aMemoria["KERNEL"]) : DelKernel(m)
    /\ \A m \in Elementos(aMemoria["CPU"]) : DeLaCpu(m)
    /\ \A i \in Interfaces : \A m \in Elementos(aMemoria[i]) : DeLaInterfaz(i, m)
    /\ Contestado /\ SinDeudas

AccesosInv ==
    /\ MarcosInv /\ Lugares /\ EnCurso /\ Preguntas
    /\ mainMemory \in [Direcciones -> Byte]

-------------------------------------------------------------------------------
(* What the CPU receives and asks for. *)

\* With an answer there is nothing else on the connection.
LEMMA AlRecibir ==
    ASSUME MarcosInv, deMemoria["CPU"] # <<>>, Consumir("CPU")
    PROVE  /\ aMemoria["CPU"] = <<>> /\ deMemoria'["CPU"] = <<>> /\ OtrasRespuestas("CPU")
           /\ cpu.fase \notin {"libre", "pedir"} /\ cpu.pid \in Pids
<1> DEFINE c == "CPU"
<1>1. Forma /\ DialogoConLaMemoria /\ c \in Conexiones
  BY LosNombres DEF MarcosInv, DialogoInv
<1>2. EnDialogo(aMemoria[c], deMemoria[c], Espera(c), TipoEsperado(c)) /\ EsSeq(deMemoria[c])
  BY <1>1 DEF DialogoConLaMemoria, Forma
<1>3. Espera(c) /\ aMemoria[c] = <<>> /\ Tail(deMemoria[c]) = <<>>
  <2> DEFINE q == aMemoria[c]
  <2> DEFINE r == deMemoria[c]
  <2>1. r # <<>> /\ EsSeq(r) /\ EnDialogo(q, r, Espera(c), TipoEsperado(c))
    BY <1>2
  <2>2. Espera(c) /\ q = <<>> /\ Len(r) = 1
    BY <2>1, Zenon DEF EnDialogo
  <2> HIDE DEF r
  <2>3. Tail(r) = <<>>
    BY <2>1, <2>2, AlSacar
  <2> QED
    BY <2>2, <2>3 DEF r
<1>4. deMemoria'[c] = Tail(deMemoria[c]) /\ OtrasRespuestas(c)
  BY <1>1, AlConsumir
<1>5. cpu.fase \notin {"libre", "pedir"}
  BY <1>3, LosNombres DEF Espera
<1> QED
  BY <1>3, <1>4, <1>5 DEF MarcosInv, Procesos

LEMMA UnaPregunta ==
    ASSUME Forma, aMemoria["CPU"] = <<>>, NEW m, Preguntar("CPU", m)
    PROVE  OtrosPedidos("CPU") /\ Elementos(aMemoria'["CPU"]) = {m}
<1>1. aMemoria'["CPU"] = Append(<<>>, m) /\ OtrosPedidos("CPU")
  BY AlPreguntar, LosNombres
<1>2. Append(<<>>, m) = <<m>> /\ Len(<<m>>) = 1 /\ <<m>>[1] = m
  OBVIOUS
<1> QED
  BY <1>1, <1>2 DEF Elementos

LEMMA DosPreguntas ==
    ASSUME Forma, aMemoria["CPU"] = <<>>, NEW m, NEW n,
           aMemoria' = [aMemoria EXCEPT !["CPU"] = @ \o <<m, n>>]
    PROVE  OtrosPedidos("CPU") /\ Elementos(aMemoria'["CPU"]) = {m, n}
<1>1. /\ aMemoria = [d \in Conexiones |-> aMemoria[d]] /\ "CPU" \in Conexiones
  BY LosNombres DEF Forma
<1>2. <<>> \o <<m, n>> = <<m, n>> /\ Len(<<m, n>>) = 2 /\ <<m, n>>[1] = m /\ <<m, n>>[2] = n
  OBVIOUS
<1>3. aMemoria' = [aMemoria EXCEPT !["CPU"] = <<m, n>>]
  BY <1>2
<1>4. /\ aMemoria' = [d \in Conexiones |-> aMemoria'[d]] /\ aMemoria'["CPU"] = <<m, n>>
      /\ \A d \in Conexiones : d # "CPU" => aMemoria'[d] = aMemoria[d]
  BY <1>1, <1>3, AlCambiar
<1>5. Elementos(<<m, n>>) = {m, n}
  <2>1. \A k \in 1 .. 2 : k = 1 \/ k = 2
    OBVIOUS
  <2>2. 1 \in 1 .. 2 /\ 2 \in 1 .. 2
    OBVIOUS
  <2> QED
    BY <1>2, <2>1, <2>2 DEF Elementos
<1> QED
  BY <1>4, <1>5 DEF OtrosPedidos

LEMMA NingunaPregunta ==
    ASSUME Forma, aMemoria["CPU"] = <<>>, UNCHANGED aMemoria
    PROVE  OtrosPedidos("CPU") /\ Elementos(aMemoria'["CPU"]) = {}
  BY SinPreguntar, SinElementos

\* How the parts of an instruction in course are.
LEMMA ElAcceso ==
    ASSUME EnCurso, AccesoEnCurso, cpu.pid \in Pids
    PROVE  /\ BienPartida(LasPartes) /\ Len(LasPartes) \in {1, 2}
           /\ cpu.inst.op \in OpsIoConDireccion => Len(LasPartes) = 1
           /\ cpu.inst.op = "COPY_STRING" => Len(LasPartes) = 2
           /\ cpu.inst.op \in OpsMov =>
                /\ \A k \in {1, 2} : k <= Len(LasPartes) => LasPartes[k].largo \in 1 .. 4
                /\ Len(LasPartes) = 2 => LasPartes[1].largo \in 1 .. 3
           /\ \A k \in {1, 2} : k <= Len(LasPartes)
                                  => LasPartes[k].dir \in Nat /\ LasPartes[k].largo \in Nat
<1> DEFINE regs == registros[cpu.pid]
<1>1. regs \in JuegoDeRegistros
  BY DEF EnCurso
<1>2. BienEscrita(cpu.inst) /\ cpu.inst.op \in ConAcceso
  BY DEF AccesoEnCurso
<1>3. LasPartes = PartesDe(cpu.inst, regs)
  BY DEF LasPartes
<1> HIDE DEF regs
<1>4. BienPartida(PartesDe(cpu.inst, regs))
  BY <1>1, <1>2, PartesDeInstruccion
<1>5. Len(LasPartes) \in {1, 2}
      /\ \A k \in {1, 2} : k <= Len(LasPartes)
                             => LasPartes[k].dir \in Nat /\ LasPartes[k].largo \in Nat
  BY <1>3, <1>4 DEF BienPartida
<1> QED
  BY <1>1, <1>2, <1>3, <1>4, <1>5, PartesDeInstruccion

\* The frame that arrives makes the physical address of the part.
LEMMA LaFisica ==
    ASSUME MarcosInv, EnCurso, Contestado, cpu.fase = "frame", deMemoria["CPU"] # <<>>
    PROVE  /\ AccesoEnCurso /\ cpu.pid \in Pids
           /\ Len(cpu.dirs) \in {0, 1} /\ Len(cpu.dirs) + 1 <= Len(LasPartes)
           /\ ParteActual.dir \in Nat /\ ParteActual.largo \in Nat
           /\ Fisica \in Int /\ Corresponde(cpu.pid, Fisica, ParteActual.dir)
<1> DEFINE n == Len(cpu.dirs)
<1>1. AccesoEnCurso /\ cpu.pid \in Pids /\ PaginacionTypeOK
  BY DEF EnCurso, MarcosInv, Procesos, IInv
<1>2. Len(LasPartes) \in {1, 2}
      /\ \A k \in {1, 2} : k <= Len(LasPartes)
                             => LasPartes[k].dir \in Nat /\ LasPartes[k].largo \in Nat
  BY <1>1, ElAcceso
<1>3. n \in Nat /\ n < Len(LasPartes)
  BY <1>1 DEF EnCurso, AccesoEnCurso
<1>4. n \in {0, 1} /\ n + 1 <= Len(LasPartes) /\ n + 1 \in {1, 2}
  <2>1. \A a \in Nat, b \in {1, 2} : a < b => a \in {0, 1} /\ a + 1 <= b /\ a + 1 \in {1, 2}
    OBVIOUS
  <2> HIDE DEF n
  <2> QED
    BY <1>2, <1>3, <2>1
<1>5. ParteActual = LasPartes[n + 1]
  BY DEF ParteActual
<1>6. ParteActual.dir \in Nat /\ ParteActual.largo \in Nat
  BY <1>2, <1>4, <1>5
<1>7. Recibido = GetFrame(cpu.pid, ParteActual.dir \div PageLength)
  BY DEF Contestado
<1>8. /\ Recibido * PageLength + (ParteActual.dir % PageLength) \in Int
      /\ Corresponde(cpu.pid, Recibido * PageLength + (ParteActual.dir % PageLength),
                     ParteActual.dir)
  BY <1>1, <1>6, <1>7, AlTraducir
<1> QED
  BY <1>1, <1>4, <1>6, <1>8 DEF Fisica

-------------------------------------------------------------------------------
(* The steps of the CPU. *)

BienPedida(p, v) ==
    /\ v.op \in OpsIo
    /\ v.largo \in Nat /\ v.logica \in Nat /\ v.dir \in Int
    /\ v.op \in OpsIoConDireccion => Corresponde(p, v.dir, v.logica)

SigueElProceso == cpu'.fase # "libre" /\ cpu'.pid = cpu.pid /\ UNCHANGED <<vuelve, info>>

\* It comes back for the reason, with the request v in its PCB.
VuelvePor(reason, v) ==
    /\ reason \in {"QUANTUM", "IO", "EXIT", "ERROR"}
    /\ vuelve' = [pid |-> cpu.pid, reason |-> reason]
    /\ info' = [info EXCEPT ![cpu.pid] = v]
    /\ IF reason = "IO" THEN BienPedida(cpu.pid, v) ELSE v = NULL
    /\ reason # "QUANTUM" => UNCHANGED aMemoria

DejaLaCpu ==
    /\ cpu'.fase = "libre" /\ cpu'.pid = NULL
    /\ \E reason, v : VuelvePor(reason, v)

\* The process in the CPU.
LEMMA ElQueCorre ==
    ASSUME AccesosInv, cpu.fase # "libre"
    PROVE  /\ cpu.pid \in Pids /\ estado[cpu.pid] = "EXEC" /\ info[cpu.pid] = NULL
           /\ vuelve = NULL /\ info = [p \in Pids |-> info[p]]
           /\ cpu = [fase |-> cpu.fase, pid |-> cpu.pid, inst |-> cpu.inst, dirs |-> cpu.dirs,
                     datos |-> cpu.datos]
<1>1. cpu.pid \in Pids /\ NULL \notin Pids
  BY ConstantesDeEjecucion DEF AccesosInv, MarcosInv, Procesos
<1>2. EnLaCpu /\ Forma /\ info = [p \in Pids |-> info[p]]
  BY DEF AccesosInv, Lugares, MarcosInv, DialogoInv
<1> QED
  BY <1>1, <1>2 DEF EnLaCpu, Forma

LEMMA AlGuardarRegistros ==
    ASSUME EnCurso, cpu.pid \in Pids, NEW regs \in JuegoDeRegistros,
           registros' = [registros EXCEPT ![cpu.pid] = regs]
    PROVE  registros' \in [Pids -> JuegoDeRegistros] /\ registros'[cpu.pid] = regs
  BY DEF EnCurso

LEMMA SinAcceso ==
    ASSUME registros' \in [Pids -> JuegoDeRegistros],
           cpu'.fase \in {"libre", "pedir", "instruccion", "okey"},
           cpu'.dirs = <<>>, cpu'.datos = <<>>
    PROVE  EnCurso'
<1>1. <<>> \in Seq(Int) /\ <<>> \in Seq(0 .. Entera - 1)
  OBVIOUS
<1> QED
  BY <1>1 DEF EnCurso, FasesCpu

LEMMA BienTerminada ==
    ASSUME AccesosInv, cpu.fase # "libre", NEW regs \in JuegoDeRegistros, Terminar(regs)
    PROVE  /\ EnCurso' /\ (SigueElProceso \/ DejaLaCpu)
           /\ cpu'.fase \in {"libre", "pedir"} /\ info' = info
<1>1. /\ cpu.pid \in Pids /\ info[cpu.pid] = NULL /\ info = [p \in Pids |-> info[p]] /\ EnCurso
  BY ElQueCorre DEF AccesosInv
<1>2. registros' = [registros EXCEPT ![cpu.pid] = regs] /\ info' = info
  BY DEF Terminar
<1>3. registros' \in [Pids -> JuegoDeRegistros]
  BY <1>1, <1>2, AlGuardarRegistros
<1>4. CASE cpu' = [CpuLibre EXCEPT !.fase = "pedir", !.pid = cpu.pid] /\ vuelve' = vuelve
  <2>1. cpu' = [fase |-> "pedir", pid |-> cpu.pid, inst |-> NULL, dirs |-> <<>>, datos |-> <<>>]
    BY <1>4 DEF CpuLibre
  <2>2. cpu'.fase = "pedir" /\ cpu'.pid = cpu.pid /\ cpu'.dirs = <<>> /\ cpu'.datos = <<>>
    BY <2>1
  <2>3. EnCurso'
    BY <1>3, <2>2, SinAcceso
  <2> QED
    BY <1>2, <1>4, <2>2, <2>3 DEF SigueElProceso
<1>5. CASE cpu' = CpuLibre /\ vuelve' = [pid |-> cpu.pid, reason |-> "QUANTUM"]
  <2>1. cpu'.fase = "libre" /\ cpu'.pid = NULL /\ cpu'.dirs = <<>> /\ cpu'.datos = <<>>
    BY <1>5 DEF CpuLibre
  <2>2. EnCurso'
    BY <1>3, <2>1, SinAcceso
  <2>3. info' = [info EXCEPT ![cpu.pid] = NULL]
    BY <1>1, <1>2
  <2>4. VuelvePor("QUANTUM", NULL)
    BY <1>5, <2>1, <2>3 DEF VuelvePor
  <2>5. DejaLaCpu
    BY <2>1, <2>4, Zenon DEF DejaLaCpu
  <2> QED
    BY <1>2, <2>1, <2>2, <2>5
<1> QED
  BY <1>4, <1>5 DEF Terminar

LEMMA BienDevuelta ==
    ASSUME AccesosInv, cpu.fase # "libre", NEW regs \in JuegoDeRegistros,
           NEW reason \in {"IO", "EXIT", "ERROR"}, NEW v, Devolver(regs, reason, v),
           IF reason = "IO" THEN BienPedida(cpu.pid, v) ELSE v = NULL,
           UNCHANGED aMemoria
    PROVE  EnCurso' /\ DejaLaCpu
<1>1. cpu.pid \in Pids /\ EnCurso
  BY ElQueCorre DEF AccesosInv
<1>2. /\ registros' = [registros EXCEPT ![cpu.pid] = regs] /\ cpu' = CpuLibre
      /\ vuelve' = [pid |-> cpu.pid, reason |-> reason]
      /\ info' = [info EXCEPT ![cpu.pid] = v]
  BY DEF Devolver
<1>3. registros' \in [Pids -> JuegoDeRegistros]
  BY <1>1, <1>2, AlGuardarRegistros
<1>4. cpu'.fase = "libre" /\ cpu'.pid = NULL /\ cpu'.dirs = <<>> /\ cpu'.datos = <<>>
  BY <1>2 DEF CpuLibre
<1>5. EnCurso'
  BY <1>3, <1>4, SinAcceso
<1>6. VuelvePor(reason, v)
  BY <1>2 DEF VuelvePor
<1>7. DejaLaCpu
  BY <1>4, <1>6, Zenon DEF DejaLaCpu
<1> QED
  BY <1>5, <1>7

\* A request that nothing answers, of the process in the CPU.
LEMMA UnaEscritura ==
    ASSUME AccesosInv, cpu.fase # "libre", UNCHANGED <<pageTable, estado, info>>,
           cpu'.fase \in {"libre", "pedir", "frame"},
           NEW m, m.op \in {"MOVE_OUT", "COPY_STRING"}, m.pid = cpu.pid, BienHecho(m),
           Corresponde(cpu.pid, m.dir, m.logica)
    PROVE  DeLaCpu(m)'
<1>1. PICK p \in Pids : p = cpu.pid
  BY ElQueCorre
<1>2. estado[p] = "EXEC" /\ info[p] = NULL
  BY <1>1, ElQueCorre
<1>3. PagesOf(p)' = PagesOf(p)
  BY DEF PagesOf
<1>4. Corresponde(p, m.dir, m.logica)'
  BY <1>1, <1>3, CorrespondeQuieto
<1>5. Corresponde(m.pid, m.dir, m.logica)'
  BY <1>1, <1>4
<1>6. m.op \notin Sincronicos
  BY DEF Sincronicos
<1>7. estado'[m.pid] = "EXEC" /\ info'[m.pid] = NULL
  BY <1>1, <1>2
<1>8. BienHecho(m)'
  BY DEF BienHecho
<1> QED
  BY <1>5, <1>6, <1>7, <1>8 DEF DeLaCpu

\* The question for the frame of the part that follows.
LEMMA UnaSolicitud ==
    ASSUME cpu.pid \in Pids, cpu'.pid = cpu.pid, cpu'.fase = "frame",
           NEW dir \in Nat, (ParteActual.dir)' = dir,
           NEW m, m = SolicitudFrame(dir)
    PROVE  DeLaCpu(m)'
<1>1. m = [op |-> "SOLICITUD_FRAME", pid |-> cpu.pid, dir |-> 0, largo |-> 0,
           dato |-> dir \div PageLength, logica |-> 0]
  BY DEF SolicitudFrame, solicitudFrameMemoria, PedirSinDireccion, Pedir
<1>2. BienHecho(m)'
  BY <1>1 DEF BienHecho, Sincronicos, Asincronicos
<1>3. m.op = "SOLICITUD_FRAME" /\ m.pid = cpu.pid /\ m.dato = dir \div PageLength
  BY <1>1
<1> QED
  BY <1>2, <1>3 DEF DeLaCpu

\* What every step of the CPU does.
CpuBien ==
    /\ EnCurso' /\ (SigueElProceso \/ DejaLaCpu)
    /\ OtrosPedidos("CPU")
    /\ (\A m \in Elementos(aMemoria["CPU"]) : DeLaCpu(m))'

LEMMA TrasPc ==
    ASSUME AccesosInv, cpu.fase # "libre"
    PROVE  RegsTrasPc \in JuegoDeRegistros /\ registros[cpu.pid] \in JuegoDeRegistros
<1>1. registros[cpu.pid] \in JuegoDeRegistros
  BY ElQueCorre DEF AccesosInv, EnCurso
<1> QED
  BY <1>1, AlAvanzar DEF RegsTrasPc

\* The CPU has the instruction that it asked for.
LEMMA LaInstruccion ==
    ASSUME AccesosInv, Recibe("instruccion"), Consumir("CPU")
    PROVE  /\ BienEscrita(Recibido) /\ aMemoria["CPU"] = <<>> /\ Forma
           /\ cpu.fase = "instruccion" /\ cpu.pid \in Pids
           /\ cpu.dirs = <<>> /\ cpu.datos = <<>>
<1>1. cpu.fase = "instruccion" /\ deMemoria["CPU"] # <<>> /\ Contestado
  BY DEF Recibe, AccesosInv, Preguntas
<1> QED
  BY <1>1, AlRecibir DEF Contestado, AccesosInv, EnCurso, MarcosInv, DialogoInv

LEMMA BienPedirInstruccion ==
    ASSUME AccesosInv, PedirInstruccion, UNCHANGED <<pageTable, estado>>
    PROVE  CpuBien
<1> DEFINE q == aMemoria["CPU"]
<1>1. /\ cpu.fase = "pedir" /\ cpu' = [cpu EXCEPT !.fase = "instruccion"]
      /\ UNCHANGED <<registros, vuelve, info>>
      /\ Preguntar("CPU", instReqToMemory(cpu.pid, registros[cpu.pid]["PC"]))
  BY DEF PedirInstruccion
<1>2. /\ cpu.pid \in Pids /\ Forma /\ DialogoConLaMemoria /\ "CPU" \in Conexiones
      /\ cpu = [fase |-> cpu.fase, pid |-> cpu.pid, inst |-> cpu.inst, dirs |-> cpu.dirs,
                datos |-> cpu.datos]
  BY <1>1, ElQueCorre, LosNombres DEF AccesosInv, MarcosInv, DialogoInv
<1>3. /\ cpu'.fase = "instruccion" /\ cpu'.pid = cpu.pid
      /\ cpu'.dirs = cpu.dirs /\ cpu'.datos = cpu.datos
  BY <1>1, <1>2
<1>4. cpu.dirs = <<>> /\ cpu.datos = <<>> /\ registros \in [Pids -> JuegoDeRegistros]
  BY <1>1 DEF AccesosInv, EnCurso
<1>5. EnCurso'
  BY <1>1, <1>3, <1>4, SinAcceso
<1>6. PICK n : n = instReqToMemory(cpu.pid, registros[cpu.pid]["PC"])
  OBVIOUS
<1>7. n = [op |-> "REQUESTINSTRUCTIONS", pid |-> cpu.pid, dir |-> 0, largo |-> 0,
           dato |-> registros[cpu.pid]["PC"], logica |-> 0]
  BY <1>6 DEF instReqToMemory, PedirSinDireccion, Pedir
<1>8. DeLaCpu(n)'
  <2>1. BienHecho(n)'
    BY <1>2, <1>7 DEF BienHecho, Sincronicos, Asincronicos
  <2>2. n.op = "REQUESTINSTRUCTIONS" /\ n.pid = cpu.pid
    BY <1>7
  <2> QED
    BY <1>3, <2>1, <2>2 DEF DeLaCpu
<1>9. OtrosPedidos("CPU") /\ aMemoria'["CPU"] = Append(q, n)
  BY <1>1, <1>2, <1>6, AlPreguntar
<1>10. Elementos(aMemoria'["CPU"]) \subseteq Elementos(q) \cup {n}
  BY <1>2, <1>9, ElementosAlAgregar DEF Forma
\* Nothing that was sent before is answered.
<1>11. ~Espera("CPU")
  BY <1>1, LosNombres DEF Espera
<1>12. \A m \in Elementos(q) : m.op \in Asincronicos
  BY <1>2, <1>11 DEF DialogoConLaMemoria, EnDialogo, Elementos
<1>13. ASSUME NEW m \in Elementos(q) PROVE DeLaCpu(m)'
  <2>1. DeLaCpu(m) /\ m.op \notin Sincronicos
    BY <1>12, DosClases DEF AccesosInv, Preguntas
  <2>2. PICK p \in Pids : p = m.pid
    BY <2>1 DEF DeLaCpu, BienHecho
  <2>3. PagesOf(p)' = PagesOf(p)
    BY DEF PagesOf
  <2>4. Corresponde(p, m.dir, m.logica) => Corresponde(p, m.dir, m.logica)'
    BY <2>3, CorrespondeQuieto
  <2>5. Corresponde(m.pid, m.dir, m.logica) => Corresponde(m.pid, m.dir, m.logica)'
    BY <2>2, <2>4
  <2>6. BienHecho(m)'
    BY <2>1 DEF DeLaCpu, BienHecho
  <2> QED
    BY <1>1, <1>3, <2>1, <2>5, <2>6 DEF DeLaCpu
<1>14. SigueElProceso
  BY <1>1, <1>3 DEF SigueElProceso
<1> QED
  BY <1>5, <1>8, <1>9, <1>10, <1>13, <1>14 DEF CpuBien

LEMMA BienEjecutarLocal ==
    ASSUME AccesosInv, EjecutarLocal
    PROVE  CpuBien
<1> DEFINE regs == Calcular(Recibido, RegsTrasPc)
<1>1. /\ Recibe("instruccion") /\ Consumir("CPU") /\ Recibido.op \in OpsLocales
      /\ Terminar(regs) /\ UNCHANGED aMemoria
  BY DEF EjecutarLocal
<1>2. /\ BienEscrita(Recibido) /\ aMemoria["CPU"] = <<>> /\ Forma /\ cpu.fase # "libre"
  BY <1>1, LaInstruccion
<1>3. regs \in JuegoDeRegistros
  BY <1>1, <1>2, TrasPc, AlCalcular
<1> HIDE DEF regs
<1>4. EnCurso' /\ (SigueElProceso \/ DejaLaCpu)
  BY <1>1, <1>2, <1>3, BienTerminada
<1>5. OtrosPedidos("CPU") /\ Elementos(aMemoria'["CPU"]) = {}
  BY <1>1, <1>2, NingunaPregunta
<1> QED
  BY <1>4, <1>5 DEF CpuBien

LEMMA BienSalirSinAcceso ==
    ASSUME AccesosInv, SalirSinAcceso
    PROVE  CpuBien
<1>1. /\ Recibe("instruccion") /\ Consumir("CPU") /\ UNCHANGED aMemoria
      /\ \/ Devolver(RegsTrasPc, "EXIT", NULL)
         \/ /\ Recibido.op \in OpsIo \ OpsIoConDireccion
            /\ Devolver(RegsTrasPc, "IO", [op |-> Recibido.op, io |-> Recibido.io, dir |-> 0,
                                           largo |-> 0, logica |-> 0])
  BY DEF SalirSinAcceso
<1>2. /\ BienEscrita(Recibido) /\ aMemoria["CPU"] = <<>> /\ Forma /\ cpu.fase # "libre"
  BY <1>1, LaInstruccion
<1>3. RegsTrasPc \in JuegoDeRegistros
  BY <1>2, TrasPc
<1>4. EnCurso' /\ DejaLaCpu
  <2>1. CASE Devolver(RegsTrasPc, "EXIT", NULL)
    BY <1>1, <1>2, <1>3, <2>1, BienDevuelta
  <2>2. CASE /\ Recibido.op \in OpsIo \ OpsIoConDireccion
             /\ Devolver(RegsTrasPc, "IO", [op |-> Recibido.op, io |-> Recibido.io, dir |-> 0,
                                            largo |-> 0, logica |-> 0])
    <3> DEFINE v == [op |-> Recibido.op, io |-> Recibido.io, dir |-> 0, largo |-> 0,
                     logica |-> 0]
    <3>1. BienPedida(cpu.pid, v)
      BY <2>2 DEF BienPedida
    <3> HIDE DEF v
    <3>2. Devolver(RegsTrasPc, "IO", v)
      BY <2>2 DEF v
    <3> QED
      BY <1>1, <1>2, <1>3, <3>1, <3>2, BienDevuelta
  <2> QED
    BY <1>1, <2>1, <2>2
<1>5. OtrosPedidos("CPU") /\ Elementos(aMemoria'["CPU"]) = {}
  BY <1>1, <1>2, NingunaPregunta
<1> QED
  BY <1>4, <1>5 DEF CpuBien

LEMMA BienPedirResize ==
    ASSUME AccesosInv, PedirResize
    PROVE  CpuBien
<1>1. /\ Recibe("instruccion") /\ Consumir("CPU") /\ Recibido.op = "RESIZE"
      /\ cpu' = [cpu EXCEPT !.fase = "okey", !.inst = Recibido]
      /\ registros' = [registros EXCEPT ![cpu.pid] = RegsTrasPc]
      /\ Preguntar("CPU", RESIZE_params(cpu.pid, Recibido.n))
      /\ UNCHANGED <<vuelve, info>>
  BY DEF PedirResize
<1>2. /\ BienEscrita(Recibido) /\ aMemoria["CPU"] = <<>> /\ Forma /\ cpu.fase # "libre"
      /\ cpu.pid \in Pids /\ cpu.dirs = <<>> /\ cpu.datos = <<>>
  BY <1>1, LaInstruccion
<1>3. /\ cpu'.fase = "okey" /\ cpu'.pid = cpu.pid
      /\ cpu'.dirs = cpu.dirs /\ cpu'.datos = cpu.datos
  BY <1>1, <1>2, ElQueCorre
<1>4. registros' \in [Pids -> JuegoDeRegistros]
  BY <1>1, <1>2, TrasPc, AlGuardarRegistros DEF AccesosInv
<1>5. EnCurso'
  BY <1>2, <1>3, <1>4, SinAcceso
<1>6. PICK n : n = RESIZE_params(cpu.pid, Recibido.n)
  OBVIOUS
<1>7. n = [op |-> "RESIZE", pid |-> cpu.pid, dir |-> 0, largo |-> Recibido.n, dato |-> 0,
           logica |-> 0]
  BY <1>6 DEF RESIZE_params, PedirSinDireccion, Pedir
<1>8. DeLaCpu(n)'
  <2>1. BienHecho(n)'
    BY <1>2, <1>7 DEF BienHecho, Sincronicos, Asincronicos, BienEscrita
  <2>2. n.op = "RESIZE" /\ n.pid = cpu.pid
    BY <1>7
  <2> QED
    BY <1>3, <2>1, <2>2 DEF DeLaCpu
<1>9. OtrosPedidos("CPU") /\ Elementos(aMemoria'["CPU"]) = {n}
  BY <1>1, <1>2, <1>6, UnaPregunta
<1>10. SigueElProceso
  BY <1>1, <1>3 DEF SigueElProceso
<1> QED
  BY <1>5, <1>8, <1>9, <1>10 DEF CpuBien

LEMMA BienRecibirOkey ==
    ASSUME AccesosInv, RecibirOkey
    PROVE  CpuBien
<1>1. /\ cpu.fase = "okey" /\ deMemoria["CPU"] # <<>> /\ Consumir("CPU") /\ UNCHANGED aMemoria
      /\ Terminar(registros[cpu.pid]) \/ Devolver(registros[cpu.pid], "ERROR", NULL)
  BY DEF RecibirOkey, Recibe
<1>2. aMemoria["CPU"] = <<>> /\ Forma /\ cpu.fase # "libre"
  BY <1>1, AlRecibir DEF AccesosInv, MarcosInv, DialogoInv
<1>3. registros[cpu.pid] \in JuegoDeRegistros
  BY <1>2, TrasPc
<1>4. EnCurso' /\ (SigueElProceso \/ DejaLaCpu)
  BY <1>1, <1>2, <1>3, BienTerminada, BienDevuelta
<1>5. OtrosPedidos("CPU") /\ Elementos(aMemoria'["CPU"]) = {}
  BY <1>1, <1>2, NingunaPregunta
<1> QED
  BY <1>4, <1>5 DEF CpuBien

\* The instruction is the same, and so are its parts.
LEMMA LaMisma ==
    ASSUME AccesosInv, cpu.fase # "libre", NEW f, NEW ds, NEW dt,
           Seguir(f, ds, dt)
    PROVE  /\ cpu'.fase = f /\ cpu'.dirs = ds /\ cpu'.datos = dt
           /\ cpu'.pid = cpu.pid /\ cpu'.inst = cpu.inst /\ LasPartes' = LasPartes
           /\ UNCHANGED <<registros, vuelve, info>>
           /\ f # "libre" => SigueElProceso
<1>1. /\ cpu' = [cpu EXCEPT !.fase = f, !.dirs = ds, !.datos = dt]
      /\ UNCHANGED <<registros, vuelve, info>>
  BY Zenon DEF Seguir
<1>2. cpu = [fase |-> cpu.fase, pid |-> cpu.pid, inst |-> cpu.inst, dirs |-> cpu.dirs,
             datos |-> cpu.datos]
  BY ElQueCorre
<1>3. /\ cpu'.fase = f /\ cpu'.dirs = ds /\ cpu'.datos = dt
      /\ cpu'.pid = cpu.pid /\ cpu'.inst = cpu.inst
  BY <1>1, <1>2
<1>4. LasPartes' = LasPartes
  BY <1>1, <1>3 DEF LasPartes
<1> QED
  BY <1>1, <1>3, <1>4 DEF SigueElProceso

LEMMA EnElAcceso ==
    ASSUME registros' \in [Pids -> JuegoDeRegistros], cpu'.fase \in {"frame", "dato"},
           cpu'.dirs \in Seq(Int), cpu'.datos \in Seq(0 .. Entera - 1), AccesoEnCurso'
    PROVE  EnCurso'
  BY DEF EnCurso, FasesCpu

LEMMA BienEmpezarAcceso ==
    ASSUME AccesosInv, EmpezarAcceso
    PROVE  CpuBien
<1>1. /\ Recibe("instruccion") /\ Consumir("CPU") /\ Recibido.op \in ConAcceso
      /\ cpu' = [cpu EXCEPT !.fase = "frame", !.inst = Recibido]
      /\ registros' = [registros EXCEPT ![cpu.pid] = RegsTrasPc]
      /\ Preguntar("CPU", SolicitudFrame(PartesDe(Recibido, RegsTrasPc)[1].dir))
      /\ UNCHANGED <<vuelve, info>>
  BY DEF EmpezarAcceso, ConAcceso
<1>2. /\ BienEscrita(Recibido) /\ aMemoria["CPU"] = <<>> /\ Forma /\ cpu.fase # "libre"
      /\ cpu.pid \in Pids /\ cpu.dirs = <<>> /\ cpu.datos = <<>>
  BY <1>1, LaInstruccion
<1>3. PICK r : r = Recibido
  OBVIOUS
<1>4. PICK regs \in JuegoDeRegistros : regs = RegsTrasPc
  BY <1>2, TrasPc
<1>5. PICK p \in Pids : p = cpu.pid
  BY <1>2
<1>6. /\ cpu'.fase = "frame" /\ cpu'.pid = p /\ cpu'.inst = r
      /\ cpu'.dirs = <<>> /\ cpu'.datos = <<>>
  BY <1>1, <1>2, <1>3, <1>5, ElQueCorre
<1>7. registros' \in [Pids -> JuegoDeRegistros] /\ registros'[p] = regs
  BY <1>1, <1>2, <1>4, <1>5, AlGuardarRegistros DEF AccesosInv
<1>8. BienEscrita(r) /\ r.op \in ConAcceso
  BY <1>1, <1>2, <1>3
<1>9. LasPartes' = PartesDe(r, regs)
  BY <1>6, <1>7 DEF LasPartes
<1>10. PICK partes : partes = PartesDe(r, regs)
  OBVIOUS
<1>11. Len(partes) \in {1, 2} /\ partes[1].dir \in Nat
  BY <1>8, <1>10, PartesDeInstruccion DEF BienPartida
<1>12. Len(cpu'.dirs) = 0 /\ Len(cpu'.datos) = 0
  BY <1>6
<1>13. AccesoEnCurso'
  <2>1. LasPartes' = partes
    BY <1>9, <1>10
  <2>2. BienEscrita(cpu.inst)' /\ cpu'.inst.op \in ConAcceso
    BY <1>6, <1>8
  <2> QED
    BY <1>6, <1>11, <1>12, <2>1, <2>2 DEF AccesoEnCurso
<1>14. EnCurso'
  <2>1. <<>> \in Seq(Int) /\ <<>> \in Seq(0 .. Entera - 1)
    OBVIOUS
  <2> QED
    BY <1>6, <1>7, <1>13, <2>1, EnElAcceso
<1>15. PICK dir \in Nat : dir = partes[1].dir
  BY <1>11
<1>16. (ParteActual.dir)' = dir
  BY <1>9, <1>10, <1>12, <1>15 DEF ParteActual
<1>17. PICK n : n = SolicitudFrame(dir)
  OBVIOUS
<1>18. DeLaCpu(n)'
  BY <1>5, <1>6, <1>16, <1>17, UnaSolicitud
<1>19. OtrosPedidos("CPU") /\ Elementos(aMemoria'["CPU"]) = {n}
  BY <1>1, <1>2, <1>3, <1>4, <1>10, <1>15, <1>17, UnaPregunta
<1>20. SigueElProceso
  BY <1>1, <1>5, <1>6 DEF SigueElProceso
<1> QED
  BY <1>14, <1>18, <1>19, <1>20 DEF CpuBien

\* The addresses that had been translated, and one more.
LEMMA OtraDireccion ==
    ASSUME MarcosInv, EnCurso, AccesoEnCurso, cpu.pid \in Pids, UNCHANGED pageTable,
           NEW dir \in Int, Corresponde(cpu.pid, dir, ParteActual.dir),
           cpu'.dirs = Append(cpu.dirs, dir), cpu'.pid = cpu.pid, LasPartes' = LasPartes
    PROVE  /\ cpu'.dirs \in Seq(Int) /\ Len(cpu'.dirs) = Len(cpu.dirs) + 1
           /\ Len(cpu.dirs) \in Nat
           /\ (\A k \in 1 .. Len(cpu.dirs) :
                  Corresponde(cpu.pid, cpu.dirs[k], LasPartes[k].dir))'
<1>1. PICK p \in Pids : p = cpu.pid
  OBVIOUS
<1>2. PICK s \in Seq(Int) : s = cpu.dirs
  BY DEF EnCurso
<1>3. PICK partes : partes = LasPartes
  OBVIOUS
<1>4. /\ Append(s, dir) \in Seq(Int) /\ Len(Append(s, dir)) = Len(s) + 1 /\ Len(s) \in Nat
      /\ \A k \in 1 .. Len(s) : Append(s, dir)[k] = s[k]
      /\ Append(s, dir)[Len(s) + 1] = dir
  OBVIOUS
<1>5. \A k \in 1 .. Len(s) : Corresponde(p, s[k], partes[k].dir)
  BY <1>1, <1>2, <1>3 DEF AccesoEnCurso
<1>6. Corresponde(p, dir, partes[Len(s) + 1].dir)
  BY <1>1, <1>2, <1>3 DEF ParteActual
<1>7. PICK t : t = Append(s, dir)
  OBVIOUS
<1>8. \A k \in 1 .. Len(t) : k \in 1 .. Len(s) \/ k = Len(s) + 1
  BY <1>4, <1>7
<1>9. PagesOf(p)' = PagesOf(p)
  BY DEF PagesOf
<1>10. ASSUME NEW k \in 1 .. Len(t) PROVE Corresponde(p, t[k], partes[k].dir)'
  <2>1. Corresponde(p, t[k], partes[k].dir)
    BY <1>4, <1>5, <1>6, <1>7, <1>8
  <2> QED
    BY <1>9, <2>1, CorrespondeQuieto
<1>11. cpu'.dirs = t /\ cpu'.pid = p /\ LasPartes' = partes
  BY <1>1, <1>2, <1>3, <1>7
<1>12. (\A k \in 1 .. Len(cpu.dirs) : Corresponde(cpu.pid, cpu.dirs[k], LasPartes[k].dir))'
  BY <1>10, <1>11
<1> QED
  BY <1>2, <1>4, <1>7, <1>11, <1>12

\* The CPU has the frame that it asked for.
LEMMA ElMarco ==
    ASSUME AccesosInv, Recibe("frame"), Consumir("CPU")
    PROVE  /\ AccesoEnCurso /\ cpu.pid \in Pids /\ cpu.fase = "frame" /\ Forma
           /\ aMemoria["CPU"] = <<>>
           /\ Len(cpu.dirs) \in {0, 1} /\ Len(cpu.dirs) + 1 <= Len(LasPartes)
           /\ Len(LasPartes) \in {1, 2}
           /\ ParteActual.dir \in Nat /\ ParteActual.largo \in Nat
           /\ Fisica \in Int /\ Corresponde(cpu.pid, Fisica, ParteActual.dir)
<1>1. /\ cpu.fase = "frame" /\ deMemoria["CPU"] # <<>>
      /\ Contestado /\ MarcosInv /\ EnCurso /\ Forma
  BY DEF Recibe, AccesosInv, Preguntas, MarcosInv, DialogoInv
<1>2. aMemoria["CPU"] = <<>>
  BY <1>1, AlRecibir
<1> QED
  BY <1>1, <1>2, LaFisica, ElAcceso

LEMMA BienRecibirFrameDeMovIn ==
    ASSUME AccesosInv, RecibirFrameDeMovIn, UNCHANGED <<pageTable, estado>>
    PROVE  CpuBien
<1>1. /\ Recibe("frame") /\ Consumir("CPU") /\ cpu.inst.op = "MOV_IN"
      /\ Preguntar("CPU", MOVE_IN_TO_MEMORY(cpu.pid, Fisica, ParteActual.largo, ParteActual.dir))
      /\ Seguir("dato", Append(cpu.dirs, Fisica), cpu.datos)
  BY DEF RecibirFrameDeMovIn
<1>2. /\ AccesoEnCurso /\ cpu.pid \in Pids /\ cpu.fase = "frame" /\ Forma
      /\ aMemoria["CPU"] = <<>> /\ EnCurso /\ MarcosInv
      /\ Len(cpu.dirs) \in {0, 1} /\ Len(cpu.dirs) + 1 <= Len(LasPartes)
      /\ ParteActual.dir \in Nat /\ ParteActual.largo \in Nat
      /\ Fisica \in Int /\ Corresponde(cpu.pid, Fisica, ParteActual.dir)
  BY <1>1, ElMarco DEF AccesosInv
<1>3. PICK df \in Int : df = Fisica
  BY <1>2
<1>4. PICK dl \in Nat : dl = ParteActual.dir
  BY <1>2
<1>5. PICK largo \in 1 .. 4 : largo = ParteActual.largo
  <2>1. Len(cpu.dirs) + 1 \in {1, 2}
    <3>1. \A a \in {0, 1} : a + 1 \in {1, 2}
      OBVIOUS
    <3> QED
      BY <1>2, <3>1
  <2>2. ParteActual.largo \in 1 .. 4
    BY <1>1, <1>2, <2>1, ElAcceso DEF ParteActual, OpsMov
  <2> QED
    BY <2>2
<1>6. PICK p \in Pids : p = cpu.pid
  BY <1>2
<1>7. Seguir("dato", Append(cpu.dirs, df), cpu.datos)
  BY <1>1, <1>3
<1>8. /\ cpu'.fase = "dato" /\ cpu'.dirs = Append(cpu.dirs, df) /\ cpu'.datos = cpu.datos
      /\ cpu'.pid = cpu.pid /\ cpu'.inst = cpu.inst /\ LasPartes' = LasPartes
      /\ UNCHANGED <<registros, vuelve, info>> /\ SigueElProceso
  BY <1>2, <1>7, LaMisma
<1>9. /\ cpu'.dirs \in Seq(Int) /\ Len(cpu'.dirs) = Len(cpu.dirs) + 1
      /\ (\A k \in 1 .. Len(cpu.dirs) : Corresponde(cpu.pid, cpu.dirs[k], LasPartes[k].dir))'
  BY <1>2, <1>3, <1>8, OtraDireccion
<1>10. AccesoEnCurso'
  <2>1. /\ BienEscrita(cpu.inst) /\ cpu.inst.op \in ConAcceso
        /\ Len(cpu.datos) = Len(cpu.dirs)
    BY <1>1, <1>2 DEF AccesoEnCurso
  <2>2. BienEscrita(cpu.inst)' /\ cpu'.inst.op \in ConAcceso
    BY <1>8, <2>1
  <2>3. Len(cpu'.dirs) <= Len(LasPartes') /\ Len(cpu'.datos) + 1 = Len(cpu'.dirs)
    BY <1>2, <1>8, <1>9, <2>1
  <2> QED
    BY <1>1, <1>8, <1>9, <2>2, <2>3 DEF AccesoEnCurso
<1>11. EnCurso'
  BY <1>2, <1>8, <1>9, <1>10, EnElAcceso DEF EnCurso
<1>12. PICK n : n = MOVE_IN_TO_MEMORY(p, df, largo, dl)
  OBVIOUS
<1>13. n = [op |-> "MOVE_IN", pid |-> p, dir |-> df, largo |-> largo, dato |-> 0, logica |-> dl]
  BY <1>12 DEF MOVE_IN_TO_MEMORY, Pedir
<1>14. Corresponde(p, df, dl)'
  <2>1. Corresponde(p, df, dl) /\ PagesOf(p)' = PagesOf(p)
    BY <1>2, <1>3, <1>4, <1>6 DEF PagesOf
  <2> QED
    BY <2>1, CorrespondeQuieto
<1>15. DeLaCpu(n)'
  <2>1. BienHecho(n)'
    BY <1>13 DEF BienHecho, Sincronicos, Asincronicos
  <2>2. n.op = "MOVE_IN" /\ n.pid = p /\ n.dir = df /\ n.logica = dl
    BY <1>13
  <2>3. Corresponde(n.pid, n.dir, n.logica)'
    BY <1>14, <2>2
  <2> QED
    BY <1>6, <1>8, <2>1, <2>2, <2>3 DEF DeLaCpu
<1>16. OtrosPedidos("CPU") /\ Elementos(aMemoria'["CPU"]) = {n}
  BY <1>1, <1>2, <1>3, <1>4, <1>5, <1>6, <1>12, UnaPregunta
<1> QED
  BY <1>8, <1>11, <1>15, <1>16 DEF CpuBien

\* One number more.
LEMMA OtroDato ==
    ASSUME EnCurso, NEW x \in 0 .. Entera - 1
    PROVE  /\ Append(cpu.datos, x) \in Seq(0 .. Entera - 1)
           /\ Len(Append(cpu.datos, x)) = Len(cpu.datos) + 1 /\ Len(cpu.datos) \in Nat
<1>1. cpu.datos \in Seq(0 .. Entera - 1)
  BY DEF EnCurso
<1> DEFINE S == 0 .. Entera - 1
<1>2. \A s \in Seq(S), y \in S :
        Append(s, y) \in Seq(S) /\ Len(Append(s, y)) = Len(s) + 1 /\ Len(s) \in Nat
  <2> HIDE DEF S
  <2> QED
    OBVIOUS
<1> QED
  BY <1>1, <1>2

\* Without a new address.
LEMMA MismasDirecciones ==
    ASSUME EnCurso, AccesoEnCurso, cpu.pid \in Pids, UNCHANGED pageTable,
           cpu'.dirs = cpu.dirs, cpu'.pid = cpu.pid, LasPartes' = LasPartes
    PROVE  (\A k \in 1 .. Len(cpu.dirs) : Corresponde(cpu.pid, cpu.dirs[k], LasPartes[k].dir))'
<1>1. PICK p \in Pids : p = cpu.pid
  OBVIOUS
<1>2. PICK s : s = cpu.dirs
  OBVIOUS
<1>3. PICK partes : partes = LasPartes
  OBVIOUS
<1>4. PagesOf(p)' = PagesOf(p)
  BY DEF PagesOf
<1>5. ASSUME NEW k \in 1 .. Len(s) PROVE Corresponde(p, s[k], partes[k].dir)'
  <2>1. Corresponde(p, s[k], partes[k].dir)
    BY <1>1, <1>2, <1>3 DEF AccesoEnCurso
  <2> QED
    BY <1>4, <2>1, CorrespondeQuieto
<1>6. cpu'.dirs = s /\ cpu'.pid = p /\ LasPartes' = partes
  BY <1>1, <1>2, <1>3
<1> QED
  BY <1>5, <1>6

LEMMA BienRecibirDato ==
    ASSUME AccesosInv, RecibirDato, UNCHANGED <<pageTable, estado>>
    PROVE  CpuBien
<1>1. /\ cpu.fase = "dato" /\ deMemoria["CPU"] # <<>> /\ Consumir("CPU")
      /\ \/ /\ Len(cpu.dirs) < Len(LasPartes)
            /\ Preguntar("CPU", SolicitudFrame(ParteActual.dir))
            /\ Seguir("frame", cpu.dirs, Append(cpu.datos, Recibido))
         \/ /\ Len(cpu.dirs) = Len(LasPartes)
            /\ Terminar(Set(registros[cpu.pid], cpu.inst.a,
                            Armar(Append(cpu.datos, Recibido), LasPartes[1].largo)))
            /\ UNCHANGED aMemoria
  BY DEF RecibirDato, Recibe
<1>2. /\ aMemoria["CPU"] = <<>> /\ Forma /\ cpu.pid \in Pids /\ EnCurso /\ AccesoEnCurso
      /\ Recibido \in 0 .. Entera - 1
  BY <1>1, AlRecibir DEF AccesosInv, MarcosInv, DialogoInv, EnCurso, Preguntas, Contestado
<1>3. /\ cpu.inst.op = "MOV_IN" /\ BienEscrita(cpu.inst) /\ cpu.inst.op \in ConAcceso
      /\ Len(cpu.dirs) <= Len(LasPartes) /\ Len(cpu.datos) + 1 = Len(cpu.dirs)
  BY <1>1, <1>2 DEF AccesoEnCurso
<1>4. PICK x \in 0 .. Entera - 1 : x = Recibido
  BY <1>2
<1>5. PICK dt : dt = Append(cpu.datos, x)
  OBVIOUS
<1>6. dt \in Seq(0 .. Entera - 1) /\ Len(dt) = Len(cpu.dirs) /\ Len(cpu.datos) \in Nat
  BY <1>2, <1>3, <1>5, OtroDato
<1>7. /\ Len(LasPartes) \in {1, 2}
      /\ Len(LasPartes) = 2 => LasPartes[1].largo \in 1 .. 3
      /\ \A k \in {1, 2} : k <= Len(LasPartes)
                             => LasPartes[k].dir \in Nat /\ LasPartes[k].largo \in Nat
  BY <1>2, <1>3, ElAcceso DEF OpsMov
<1>8. CASE /\ Len(cpu.dirs) < Len(LasPartes)
           /\ Preguntar("CPU", SolicitudFrame(ParteActual.dir))
           /\ Seguir("frame", cpu.dirs, Append(cpu.datos, Recibido))
  <2>1. Seguir("frame", cpu.dirs, dt)
    BY <1>4, <1>5, <1>8
  <2>2. /\ cpu'.fase = "frame" /\ cpu'.dirs = cpu.dirs /\ cpu'.datos = dt
        /\ cpu'.pid = cpu.pid /\ cpu'.inst = cpu.inst /\ LasPartes' = LasPartes
        /\ UNCHANGED <<registros, vuelve, info>> /\ SigueElProceso
    BY <1>1, <2>1, LaMisma
  <2>3. AccesoEnCurso'
    <3>1. (\A k \in 1 .. Len(cpu.dirs) : Corresponde(cpu.pid, cpu.dirs[k], LasPartes[k].dir))'
      BY <1>2, <2>2, MismasDirecciones
    <3>2. BienEscrita(cpu.inst)' /\ cpu'.inst.op = "MOV_IN" /\ cpu'.inst.op \in ConAcceso
      BY <1>3, <2>2
    <3> QED
      BY <1>6, <1>8, <2>2, <3>1, <3>2 DEF AccesoEnCurso
  <2>4. EnCurso'
    BY <1>2, <1>6, <2>2, <2>3, EnElAcceso DEF EnCurso
  <2>5. ParteActual' = ParteActual /\ ParteActual.dir \in Nat
    <3>1. Len(cpu.dirs) + 1 \in {1, 2} /\ Len(cpu.dirs) + 1 <= Len(LasPartes)
      <4>1. \A a \in Nat, b \in Int, c \in {1, 2} :
              a + 1 = b /\ b < c => b + 1 \in {1, 2} /\ b + 1 <= c
        OBVIOUS
      <4>2. Len(cpu.dirs) \in Int
        BY <1>2 DEF EnCurso
      <4> QED
        BY <1>3, <1>6, <1>7, <1>8, <4>1, <4>2
    <3> QED
      BY <1>7, <2>2, <3>1 DEF ParteActual
  <2>6. PICK dir \in Nat : dir = ParteActual.dir
    BY <2>5
  <2>7. PICK n : n = SolicitudFrame(dir)
    OBVIOUS
  <2>8. DeLaCpu(n)'
    BY <1>2, <2>2, <2>5, <2>6, <2>7, UnaSolicitud
  <2>9. OtrosPedidos("CPU") /\ Elementos(aMemoria'["CPU"]) = {n}
    BY <1>2, <1>8, <2>6, <2>7, UnaPregunta
  <2> QED
    BY <2>2, <2>4, <2>8, <2>9 DEF CpuBien
<1>9. CASE /\ Len(cpu.dirs) = Len(LasPartes)
           /\ Terminar(Set(registros[cpu.pid], cpu.inst.a,
                           Armar(Append(cpu.datos, Recibido), LasPartes[1].largo)))
           /\ UNCHANGED aMemoria
  <2>1. PICK y : y = Armar(dt, LasPartes[1].largo)
    OBVIOUS
  <2>2. y \in Int
    <3>1. PICK n : n = LasPartes[1].largo
      OBVIOUS
    <3>2. Len(dt) \in {1, 2} /\ (Len(dt) = 2 => n \in 1 .. 3)
      BY <1>6, <1>7, <1>9, <3>1
    <3> QED
      BY <1>6, <2>1, <3>1, <3>2, AlArmar
  <2>3. PICK regs : regs = Set(registros[cpu.pid], cpu.inst.a, y)
    OBVIOUS
  <2>4. regs \in JuegoDeRegistros
    <3>1. registros[cpu.pid] \in JuegoDeRegistros /\ cpu.inst.a \in Reg8 \cup Reg32
      BY <1>2, <1>3 DEF EnCurso, BienEscrita
    <3> QED
      BY <2>2, <2>3, <3>1, AlGuardar
  <2>5. Terminar(regs)
    BY <1>4, <1>5, <1>9, <2>1, <2>3
  <2>6. EnCurso' /\ (SigueElProceso \/ DejaLaCpu)
    BY <1>1, <2>4, <2>5, BienTerminada
  <2>7. OtrosPedidos("CPU") /\ Elementos(aMemoria'["CPU"]) = {}
    BY <1>2, <1>9, NingunaPregunta
  <2> QED
    BY <2>6, <2>7 DEF CpuBien
<1> QED
  BY <1>1, <1>8, <1>9

LEMMA LoEnviado ==
    ASSUME AccesosInv, AccesoEnCurso, cpu.pid \in Pids, Len(cpu.dirs) \in {0, 1}
    PROVE  Enviado \in Int
<1>1. registros[cpu.pid] \in JuegoDeRegistros /\ cpu.inst.b \in Reg8 \cup Reg32
  BY DEF AccesosInv, EnCurso, AccesoEnCurso, BienEscrita
<1>2. PICK valor \in Int : valor = registros[cpu.pid][cpu.inst.b]
  BY <1>1, UnJuego
<1>3. PICK k \in {1, 2} : k = Len(cpu.dirs) + 1
  <2>1. \A a \in {0, 1} : a + 1 \in {1, 2}
    OBVIOUS
  <2> QED
    BY <2>1
<1>4. PartesDeMovOut(valor)[k] \in Int
  BY <1>2, <1>3, AlPartir
<1> QED
  BY <1>2, <1>3, <1>4 DEF Enviado

\* The first of two parts has its frame.
LEMMA LaPrimera ==
    ASSUME ~EsUltima, Len(cpu.dirs) \in {0, 1}, Len(cpu.dirs) + 1 <= Len(LasPartes),
           Len(LasPartes) \in {1, 2}
    PROVE  Len(cpu.dirs) = 0 /\ Len(LasPartes) = 2 /\ Len(cpu.dirs) + 2 = 2
<1>1. \A a \in {0, 1}, b \in {1, 2} : a + 1 # b /\ a + 1 <= b => a = 0 /\ b = 2 /\ a + 2 = 2
  OBVIOUS
<1> QED
  BY <1>1, Zenon DEF EsUltima

LEMMA EnLaSegunda ==
    ASSUME cpu'.fase = "frame", BienEscrita(cpu.inst)', cpu'.inst.op \in ConAcceso,
           cpu'.inst.op # "MOV_IN", Len(cpu'.dirs) = 1, Len(LasPartes') = 2, Len(cpu'.datos) = 0,
           (\A k \in 1 .. Len(cpu.dirs) : Corresponde(cpu.pid, cpu.dirs[k], LasPartes[k].dir))'
    PROVE  AccesoEnCurso'
<1>1. Len(cpu'.dirs) < Len(LasPartes')
  OBVIOUS
<1> QED
  BY <1>1 DEF AccesoEnCurso

LEMMA BienRecibirFrameDeMovOut ==
    ASSUME AccesosInv, RecibirFrameDeMovOut, UNCHANGED <<pageTable, estado>>
    PROVE  CpuBien
<1>1. /\ Recibe("frame") /\ Consumir("CPU") /\ cpu.inst.op = "MOV_OUT"
      /\ \/ EsUltima /\ Preguntar("CPU", MoveOut) /\ Terminar(registros[cpu.pid])
         \/ /\ ~EsUltima
            /\ aMemoria' = [aMemoria EXCEPT
                 !["CPU"] = @ \o <<MoveOut, SolicitudFrame(LasPartes[Len(cpu.dirs) + 2].dir)>>]
            /\ Seguir("frame", Append(cpu.dirs, Fisica), <<>>)
  BY DEF RecibirFrameDeMovOut
<1>2. /\ AccesoEnCurso /\ cpu.pid \in Pids /\ cpu.fase = "frame" /\ Forma
      /\ aMemoria["CPU"] = <<>> /\ EnCurso /\ MarcosInv
      /\ Len(cpu.dirs) \in {0, 1} /\ Len(cpu.dirs) + 1 <= Len(LasPartes)
      /\ Len(LasPartes) \in {1, 2}
      /\ ParteActual.dir \in Nat /\ ParteActual.largo \in Nat
      /\ Fisica \in Int /\ Corresponde(cpu.pid, Fisica, ParteActual.dir)
  BY <1>1, ElMarco DEF AccesosInv
<1>3. PICK df \in Int : df = Fisica
  BY <1>2
<1>4. PICK dl \in Nat : dl = ParteActual.dir
  BY <1>2
<1>5. PICK largo \in Nat : largo = ParteActual.largo
  BY <1>2
<1>6. PICK p \in Pids : p = cpu.pid
  BY <1>2
<1>7. PICK valor \in Int : valor = Enviado
  BY <1>2, LoEnviado
<1>8. PICK m : m = MoveOut
  OBVIOUS
<1>9. m = [op |-> "MOVE_OUT", pid |-> p, dir |-> df, largo |-> largo, dato |-> valor,
           logica |-> dl]
  BY <1>3, <1>4, <1>5, <1>6, <1>7, <1>8 DEF MoveOut, MOVE_OUT_TO_MEMORY, Pedir
<1>10. BienHecho(m) /\ m.op = "MOVE_OUT" /\ m.pid = p /\ m.dir = df /\ m.logica = dl
  BY <1>9 DEF BienHecho, Sincronicos, Asincronicos
<1>11. Corresponde(cpu.pid, m.dir, m.logica)
  BY <1>2, <1>3, <1>4, <1>10
<1>12. CASE EsUltima /\ Preguntar("CPU", MoveOut) /\ Terminar(registros[cpu.pid])
  <2>1. PICK regs \in JuegoDeRegistros : regs = registros[cpu.pid]
    BY <1>2 DEF EnCurso
  <2>2. Terminar(regs)
    BY <1>12, <2>1
  <2>3. /\ EnCurso' /\ (SigueElProceso \/ DejaLaCpu)
        /\ cpu'.fase \in {"libre", "pedir"} /\ info' = info
    BY <1>2, <2>2, BienTerminada
  <2>4. DeLaCpu(m)'
    BY <1>2, <1>6, <1>10, <1>11, <2>3, UnaEscritura
  <2>5. OtrosPedidos("CPU") /\ Elementos(aMemoria'["CPU"]) = {m}
    BY <1>2, <1>8, <1>12, UnaPregunta
  <2> QED
    BY <2>3, <2>4, <2>5 DEF CpuBien
<1>13. CASE /\ ~EsUltima
            /\ aMemoria' = [aMemoria EXCEPT
                 !["CPU"] = @ \o <<MoveOut, SolicitudFrame(LasPartes[Len(cpu.dirs) + 2].dir)>>]
            /\ Seguir("frame", Append(cpu.dirs, Fisica), <<>>)
  <2>1. Len(cpu.dirs) = 0 /\ Len(LasPartes) = 2 /\ Len(cpu.dirs) + 2 = 2
    BY <1>2, <1>13, LaPrimera
  <2>2. PICK dir \in Nat : dir = LasPartes[2].dir
    BY <1>2, <2>1, ElAcceso
  <2>3. PICK n : n = SolicitudFrame(dir)
    OBVIOUS
  <2>4. Seguir("frame", Append(cpu.dirs, df), <<>>)
    BY <1>3, <1>13
  <2>5. /\ cpu'.fase = "frame" /\ cpu'.dirs = Append(cpu.dirs, df) /\ cpu'.datos = <<>>
        /\ cpu'.pid = cpu.pid /\ cpu'.inst = cpu.inst /\ LasPartes' = LasPartes
        /\ UNCHANGED <<registros, vuelve, info>> /\ SigueElProceso
    BY <1>2, <2>4, LaMisma
  <2>6. /\ cpu'.dirs \in Seq(Int) /\ Len(cpu'.dirs) = Len(cpu.dirs) + 1
        /\ (\A k \in 1 .. Len(cpu.dirs) : Corresponde(cpu.pid, cpu.dirs[k], LasPartes[k].dir))'
    BY <1>2, <1>3, <2>5, OtraDireccion
  <2>7. Len(cpu'.dirs) = 1 /\ Len(cpu'.dirs) + 1 = 2 /\ Len(<<>>) = 0
    BY <2>1, <2>6
  <2>8. AccesoEnCurso'
    <3>1. BienEscrita(cpu.inst)' /\ cpu'.inst.op = "MOV_OUT" /\ cpu'.inst.op \in ConAcceso
      BY <1>1, <1>2, <2>5 DEF AccesoEnCurso
    <3> QED
      BY <2>1, <2>5, <2>6, <2>7, <3>1, EnLaSegunda
  <2>9. EnCurso'
    <3>1. <<>> \in Seq(0 .. Entera - 1)
      OBVIOUS
    <3> QED
      BY <1>2, <2>5, <2>6, <2>8, <3>1, EnElAcceso DEF EnCurso
  <2>10. (ParteActual.dir)' = dir
    BY <2>2, <2>5, <2>7 DEF ParteActual
  <2>11. DeLaCpu(n)'
    BY <1>2, <2>3, <2>5, <2>10, UnaSolicitud
  <2>12. DeLaCpu(m)'
    BY <1>2, <1>6, <1>10, <1>11, <2>5, UnaEscritura
  <2>13. aMemoria' = [aMemoria EXCEPT !["CPU"] = @ \o <<m, n>>]
    BY <1>8, <1>13, <2>1, <2>2, <2>3
  <2>14. OtrosPedidos("CPU") /\ Elementos(aMemoria'["CPU"]) = {m, n}
    BY <1>2, <2>13, DosPreguntas
  <2> QED
    BY <2>5, <2>9, <2>11, <2>12, <2>14 DEF CpuBien
<1> QED
  BY <1>1, <1>12, <1>13

LEMMA BienRecibirFrameDeCopyString ==
    ASSUME AccesosInv, RecibirFrameDeCopyString, UNCHANGED <<pageTable, estado>>
    PROVE  CpuBien
<1>1. /\ Recibe("frame") /\ Consumir("CPU") /\ cpu.inst.op = "COPY_STRING"
      /\ \/ /\ ~EsUltima
            /\ Preguntar("CPU", SolicitudFrame(LasPartes[2].dir))
            /\ Seguir("frame", Append(cpu.dirs, Fisica), <<>>)
         \/ /\ EsUltima
            /\ Preguntar("CPU", COPY_STRING_params(cpu.pid, cpu.dirs[1], Fisica, cpu.inst.n,
                                                   LasPartes[1].dir))
            /\ Terminar(registros[cpu.pid])
  BY DEF RecibirFrameDeCopyString
<1>2. /\ AccesoEnCurso /\ cpu.pid \in Pids /\ cpu.fase = "frame" /\ Forma
      /\ aMemoria["CPU"] = <<>> /\ EnCurso /\ MarcosInv
      /\ Len(cpu.dirs) \in {0, 1} /\ Fisica \in Int /\ Len(cpu.dirs) + 1 <= Len(LasPartes)
      /\ Corresponde(cpu.pid, Fisica, ParteActual.dir)
  BY <1>1, ElMarco DEF AccesosInv
<1>3. /\ Len(LasPartes) = 2 /\ LasPartes[1].dir \in Nat /\ LasPartes[2].dir \in Nat
      /\ BienEscrita(cpu.inst) /\ cpu.inst.n \in Nat
  BY <1>1, <1>2, ElAcceso DEF AccesoEnCurso, BienEscrita
<1>4. PICK df \in Int : df = Fisica
  BY <1>2
<1>5. PICK p \in Pids : p = cpu.pid
  BY <1>2
<1>6. CASE /\ ~EsUltima
           /\ Preguntar("CPU", SolicitudFrame(LasPartes[2].dir))
           /\ Seguir("frame", Append(cpu.dirs, Fisica), <<>>)
  <2>1. Len(cpu.dirs) = 0
    BY <1>2, <1>3, <1>6, LaPrimera
  <2>2. PICK dir \in Nat : dir = LasPartes[2].dir
    BY <1>3
  <2>3. PICK n : n = SolicitudFrame(dir)
    OBVIOUS
  <2>4. Seguir("frame", Append(cpu.dirs, df), <<>>)
    BY <1>4, <1>6
  <2>5. /\ cpu'.fase = "frame" /\ cpu'.dirs = Append(cpu.dirs, df) /\ cpu'.datos = <<>>
        /\ cpu'.pid = cpu.pid /\ cpu'.inst = cpu.inst /\ LasPartes' = LasPartes
        /\ UNCHANGED <<registros, vuelve, info>> /\ SigueElProceso
    BY <1>2, <2>4, LaMisma
  <2>6. /\ cpu'.dirs \in Seq(Int) /\ Len(cpu'.dirs) = Len(cpu.dirs) + 1
        /\ (\A k \in 1 .. Len(cpu.dirs) : Corresponde(cpu.pid, cpu.dirs[k], LasPartes[k].dir))'
    BY <1>2, <1>4, <2>5, OtraDireccion
  <2>7. Len(cpu'.dirs) = 1 /\ Len(cpu'.dirs) + 1 = 2 /\ Len(<<>>) = 0
    BY <2>1, <2>6
  <2>8. AccesoEnCurso'
    <3>1. BienEscrita(cpu.inst)' /\ cpu'.inst.op = "COPY_STRING" /\ cpu'.inst.op \in ConAcceso
      BY <1>1, <1>2, <2>5 DEF AccesoEnCurso
    <3> QED
      BY <1>3, <2>5, <2>6, <2>7, <3>1, EnLaSegunda
  <2>9. EnCurso'
    <3>1. <<>> \in Seq(0 .. Entera - 1)
      OBVIOUS
    <3> QED
      BY <1>2, <2>5, <2>6, <2>8, <3>1, EnElAcceso DEF EnCurso
  <2>10. (ParteActual.dir)' = dir
    BY <2>2, <2>5, <2>7 DEF ParteActual
  <2>11. DeLaCpu(n)'
    BY <1>2, <2>3, <2>5, <2>10, UnaSolicitud
  <2>12. OtrosPedidos("CPU") /\ Elementos(aMemoria'["CPU"]) = {n}
    BY <1>2, <1>6, <2>2, <2>3, UnaPregunta
  <2> QED
    BY <2>5, <2>9, <2>11, <2>12 DEF CpuBien
<1>7. CASE /\ EsUltima
           /\ Preguntar("CPU", COPY_STRING_params(cpu.pid, cpu.dirs[1], Fisica, cpu.inst.n,
                                                  LasPartes[1].dir))
           /\ Terminar(registros[cpu.pid])
  <2>1. Len(cpu.dirs) = 1
    BY <1>2, <1>3, <1>7 DEF EsUltima
  <2>2. Corresponde(cpu.pid, cpu.dirs[1], LasPartes[1].dir) /\ cpu.dirs[1] \in Int
    BY <1>2, <2>1 DEF AccesoEnCurso, EnCurso
  <2>3. PICK dir \in Int : dir = cpu.dirs[1]
    BY <2>2
  <2>4. PICK dl \in Nat : dl = LasPartes[1].dir
    BY <1>3
  <2>5. PICK k \in Nat : k = cpu.inst.n
    BY <1>3
  <2>6. PICK m : m = COPY_STRING_params(p, dir, df, k, dl)
    OBVIOUS
  <2>7. m = [op |-> "COPY_STRING", pid |-> p, dir |-> dir, largo |-> k, dato |-> df,
             logica |-> dl]
    BY <2>6 DEF COPY_STRING_params, Pedir
  <2>8. BienHecho(m) /\ m.op = "COPY_STRING" /\ m.pid = p /\ m.dir = dir /\ m.logica = dl
    BY <2>7 DEF BienHecho, Sincronicos, Asincronicos
  <2>9. PICK regs \in JuegoDeRegistros : regs = registros[cpu.pid]
    BY <1>2 DEF EnCurso
  <2>10. Terminar(regs)
    BY <1>7, <2>9
  <2>11. /\ EnCurso' /\ (SigueElProceso \/ DejaLaCpu)
         /\ cpu'.fase \in {"libre", "pedir"} /\ info' = info
    BY <1>2, <2>10, BienTerminada
  <2>12. Corresponde(cpu.pid, m.dir, m.logica)
    BY <2>2, <2>3, <2>4, <2>8
  <2>13. DeLaCpu(m)'
    BY <1>2, <1>5, <2>8, <2>11, <2>12, UnaEscritura
  <2>14. OtrosPedidos("CPU") /\ Elementos(aMemoria'["CPU"]) = {m}
    BY <1>2, <1>4, <1>5, <1>7, <2>3, <2>4, <2>5, <2>6, UnaPregunta
  <2> QED
    BY <2>11, <2>13, <2>14 DEF CpuBien
<1> QED
  BY <1>1, <1>6, <1>7

LEMMA BienRecibirFrameDeIo ==
    ASSUME AccesosInv, RecibirFrameDeIo
    PROVE  CpuBien
<1>1. /\ Recibe("frame") /\ Consumir("CPU") /\ cpu.inst.op \in OpsIo
      /\ Devolver(registros[cpu.pid], "IO",
                  [op |-> cpu.inst.op, io |-> cpu.inst.io, dir |-> Fisica,
                   largo |-> ParteActual.largo, logica |-> ParteActual.dir])
      /\ UNCHANGED aMemoria
  BY DEF RecibirFrameDeIo
<1>2. /\ AccesoEnCurso /\ cpu.pid \in Pids /\ cpu.fase = "frame" /\ Forma
      /\ aMemoria["CPU"] = <<>> /\ EnCurso
      /\ ParteActual.dir \in Nat /\ ParteActual.largo \in Nat
      /\ Fisica \in Int /\ Corresponde(cpu.pid, Fisica, ParteActual.dir)
  BY <1>1, ElMarco DEF AccesosInv
<1>3. PICK v : v = [op |-> cpu.inst.op, io |-> cpu.inst.io, dir |-> Fisica,
                    largo |-> ParteActual.largo, logica |-> ParteActual.dir]
  OBVIOUS
<1>4. /\ v.op = cpu.inst.op /\ v.dir = Fisica /\ v.largo = ParteActual.largo
      /\ v.logica = ParteActual.dir
  BY <1>3
<1>5. BienPedida(cpu.pid, v)
  BY <1>1, <1>2, <1>4 DEF BienPedida
<1>6. PICK regs \in JuegoDeRegistros : regs = registros[cpu.pid]
  BY <1>2 DEF EnCurso
<1>7. Devolver(regs, "IO", v)
  BY <1>1, <1>3, <1>6
<1>8. EnCurso' /\ DejaLaCpu
  BY <1>1, <1>2, <1>5, <1>7, BienDevuelta
<1>9. OtrosPedidos("CPU") /\ Elementos(aMemoria'["CPU"]) = {}
  BY <1>1, <1>2, NingunaPregunta
<1> QED
  BY <1>8, <1>9 DEF CpuBien

-------------------------------------------------------------------------------
(* Nothing that travels is disturbed by what the others do. *)

\* A write that was sent, when its process has not stopped being ready or running.
LEMMA EscrituraQuieta ==
    ASSUME NEW m, DeLaCpu(m), m.op \notin Sincronicos, UNCHANGED pageTable,
           cpu'.fase \notin {"dato", "okey"},
           m.op \in {"MOVE_OUT", "COPY_STRING"}
             => estado'[m.pid] \in {"READY", "EXEC"} /\ info'[m.pid] = NULL
    PROVE  DeLaCpu(m)'
<1>1. PICK p \in Pids : p = m.pid
  BY DEF DeLaCpu, BienHecho
<1>2. PagesOf(p)' = PagesOf(p)
  BY DEF PagesOf
<1>3. Corresponde(p, m.dir, m.logica) => Corresponde(p, m.dir, m.logica)'
  BY <1>2, CorrespondeQuieto
<1>4. Corresponde(m.pid, m.dir, m.logica) => Corresponde(m.pid, m.dir, m.logica)'
  BY <1>1, <1>3
<1>5. BienHecho(m)'
  BY DEF DeLaCpu, BienHecho
<1> QED
  BY <1>4, <1>5 DEF DeLaCpu

\* And any request, when the CPU is where it was.
LEMMA PedidoDeCpuQuieto ==
    ASSUME NEW m, DeLaCpu(m), UNCHANGED <<pageTable, cpu, registros>>,
           m.op \in {"MOVE_OUT", "COPY_STRING"}
             => estado'[m.pid] \in {"READY", "EXEC"} /\ info'[m.pid] = NULL
    PROVE  DeLaCpu(m)'
<1>1. PICK p \in Pids : p = m.pid
  BY DEF DeLaCpu, BienHecho
<1>2. PagesOf(p)' = PagesOf(p)
  BY DEF PagesOf
<1>3. Corresponde(p, m.dir, m.logica) => Corresponde(p, m.dir, m.logica)'
  BY <1>2, CorrespondeQuieto
<1>4. Corresponde(m.pid, m.dir, m.logica) => Corresponde(m.pid, m.dir, m.logica)'
  BY <1>1, <1>3
<1>5. BienHecho(m)'
  BY DEF DeLaCpu, BienHecho
<1>6. ParteActual' = ParteActual
  BY DEF ParteActual, LasPartes
<1> QED
  BY <1>4, <1>5, <1>6 DEF DeLaCpu

LEMMA PedidoDeInterfazQuieto ==
    ASSUME NEW i, NEW m, DeLaInterfaz(i, m),
           m.op # "FS_READ" => interfaz'[i] = interfaz[i] /\ info'[m.pid] = info[m.pid]
    PROVE  DeLaInterfaz(i, m)'
<1>1. BienHecho(m)'
  BY DEF DeLaInterfaz, BienHecho
<1> QED
  BY <1>1 DEF DeLaInterfaz

LEMMA PedidoDelKernelQuieto ==
    ASSUME NEW m, DelKernel(m)
    PROVE  DelKernel(m)'
  BY DEF DelKernel, BienHecho

\* A request of an interface is of the process that it attends, which is blocked.
LEMMA ElBloqueado ==
    ASSUME Lugares, NEW i \in Interfaces, NEW m, DeLaInterfaz(i, m), m.op # "FS_READ"
    PROVE  m.pid \in Atendido(i) /\ EnIo(i, m.pid)
<1>1. m.pid \in Atendido(i)
  BY DEF DeLaInterfaz, Atendido
<1> QED
  BY <1>1 DEF Lugares, EnEspera, EnEsperaDe, Ocupantes

-------------------------------------------------------------------------------
(* The CPU. *)

LEMMA CpuAnda ==
    ASSUME AccesosInv, Cpu
    PROVE  /\ CpuBien /\ cpu.fase # "libre"
           /\ deMemoria'["CPU"] = <<>> /\ OtrasRespuestas("CPU")
           /\ cpu'.fase = "libre" => aMemoria["CPU"] = <<>>
           /\ UNCHANGED <<pageTable, mainMemory, estado, queueReadys, paramsIo, aInterfaz,
                          deInterfaz, interfaz>>
<1>1. UNCHANGED <<pageTable, mainMemory, estado, queueReadys, paramsIo, aInterfaz,
                  deInterfaz, interfaz>>
  BY DEF Cpu, memoriaInterna, paginacionVars, planVars, interfazVars
<1>2. CpuBien
  BY <1>1, BienPedirInstruccion, BienEjecutarLocal, BienSalirSinAcceso, BienPedirResize,
     BienRecibirOkey, BienEmpezarAcceso, BienRecibirFrameDeMovIn, BienRecibirDato,
     BienRecibirFrameDeMovOut, BienRecibirFrameDeCopyString, BienRecibirFrameDeIo DEF Cpu
<1>3. Forma /\ DialogoConLaMemoria /\ MarcosInv
  BY DEF AccesosInv, MarcosInv, DialogoInv
<1>4. CASE cpu.fase = "pedir" /\ deMemoria' = deMemoria /\ cpu'.fase = "instruccion"
  <2>1. ~Espera("CPU")
    BY <1>4, LosNombres DEF Espera
  <2>2. deMemoria["CPU"] = <<>>
    BY <1>3, <2>1, LosNombres DEF DialogoConLaMemoria, EnDialogo
  <2> QED
    BY <1>1, <1>2, <1>3, <1>4, <2>2, SinConsumir
<1>5. CASE deMemoria["CPU"] # <<>> /\ Consumir("CPU")
  BY <1>1, <1>2, <1>3, <1>5, AlRecibir
<1> QED
  BY <1>3, <1>4, <1>5, PasosDeCpu

LEMMA LugaresDeCpu ==
    ASSUME AccesosInv, Cpu
    PROVE  Lugares'
<1>1. /\ CpuBien /\ cpu.fase # "libre"
      /\ UNCHANGED <<pageTable, estado, queueReadys, paramsIo, aInterfaz, deInterfaz, interfaz>>
  BY CpuAnda
<1>2. PICK p0 \in Pids : p0 = cpu.pid
  BY <1>1, ElQueCorre
<1>3. /\ estado[p0] = "EXEC" /\ info[p0] = NULL /\ vuelve = NULL
      /\ info = [p \in Pids |-> info[p]]
      /\ NULL \notin Pids /\ NULL \notin Regresos
  BY <1>1, <1>2, ElQueCorre, ConstantesDeEjecucion
<1>4. Lugares /\ queueReadys \in Seq(Pids) /\ EnLaCpu
  BY DEF AccesosInv, MarcosInv, Procesos, Lugares
<1>5. \A p \in Pids : PagesOf(p)' = PagesOf(p)
  BY <1>1 DEF PagesOf
<1>6. \A p \in Pids \ {p0} : estado'[p] # "EXEC"
  BY <1>1, <1>2, <1>3, <1>4 DEF EnLaCpu
<1>7. CASE SigueElProceso
  <2>1. cpu'.fase # "libre" /\ cpu'.pid = p0 /\ vuelve' = NULL /\ info' = info
    BY <1>2, <1>3, <1>7 DEF SigueElProceso
  <2>2. SoloElProceso(p0)
    BY <1>1, <1>5, <2>1 DEF SoloElProceso
  <2>3. EnEspera'
    BY <1>1, <1>3, <1>4, <2>2, EsperaQuieta DEF Lugares
  <2>4. Listos'
    BY <1>1, <1>3, <1>4, <2>2, ListosQuietos DEF Lugares
  <2>5. (\A p \in Pids : info[p] = NULL \/ ConPedido(p))'
    BY <1>3, <1>4, <2>1, <2>2, PedidosQuietos DEF Lugares
  <2>6. EnLaCpu'
    BY <1>1, <1>3, <1>6, <2>1 DEF EnLaCpu
  <2> QED
    BY <1>1, <1>4, <2>1, <2>3, <2>4, <2>5, <2>6 DEF Lugares
<1>8. CASE DejaLaCpu
  <2>1. PICK reason, v :
          /\ reason \in {"QUANTUM", "IO", "EXIT", "ERROR"}
          /\ vuelve' = [pid |-> cpu.pid, reason |-> reason]
          /\ info' = [info EXCEPT ![cpu.pid] = v]
          /\ IF reason = "IO" THEN BienPedida(cpu.pid, v) ELSE v = NULL
          /\ reason # "QUANTUM" => UNCHANGED aMemoria
    BY <1>8, Zenon DEF DejaLaCpu, VuelvePor
  <2>2. cpu'.fase = "libre" /\ cpu'.pid = NULL
    BY <1>8 DEF DejaLaCpu
  <2>3. /\ info' = [p \in Pids |-> info'[p]] /\ info'[p0] = v
        /\ \A p \in Pids : p # p0 => info'[p] = info[p]
    <3>1. info' = [info EXCEPT ![p0] = v]
      BY <1>2, <2>1
    <3> QED
      BY <1>3, <3>1, AlCambiar
  <2>4. SoloElProceso(p0)
    BY <1>1, <1>5, <2>3 DEF SoloElProceso
  <2>5. EnEspera'
    BY <1>1, <1>3, <1>4, <2>4, EsperaQuieta DEF Lugares
  <2>6. Listos'
    BY <1>1, <1>3, <1>4, <2>4, ListosQuietos DEF Lugares
  <2>7. reason = "IO" => ConPedido(p0)'
    <3>1. SUFFICES ASSUME BienPedida(p0, v) PROVE ConPedido(p0)'
      BY <1>2, <2>1
    <3>2. Corresponde(p0, v.dir, v.logica) => Corresponde(p0, v.dir, v.logica)'
      BY <1>5, CorrespondeQuieto
    <3> QED
      BY <2>3, <3>1, <3>2 DEF BienPedida, ConPedido
  <2>8. reason # "IO" => info'[p0] = NULL
    BY <2>1, <2>3
  <2>9. (\A p \in Pids : info[p] = NULL \/ ConPedido(p))'
    BY <1>4, <2>4, <2>7, <2>8, PedidosQuietos DEF Lugares
  <2>10. vuelve' = [pid |-> p0, reason |-> reason] /\ vuelve' \in Regresos
    BY <1>2, <2>1 DEF Regresos
  <2>11. vuelve'.pid = p0 /\ vuelve'.reason = reason /\ vuelve' # NULL
    BY <1>3, <2>10
  <2>12. EnLaCpu'
    <3>1. reason = "IO" => ConPedido(vuelve.pid)'
      BY <2>7, <2>11 DEF ConPedido
    <3> QED
      BY <1>1, <1>3, <1>6, <2>2, <2>8, <2>10, <2>11, <3>1 DEF EnLaCpu
  <2> QED
    BY <1>1, <1>4, <2>3, <2>5, <2>6, <2>9, <2>12 DEF Lugares
<1> QED
  BY <1>1, <1>7, <1>8 DEF CpuBien

LEMMA PreguntasDeCpu ==
    ASSUME AccesosInv, Cpu
    PROVE  Preguntas'
<1>1. /\ CpuBien /\ cpu.fase # "libre" /\ deMemoria'["CPU"] = <<>>
      /\ cpu'.fase = "libre" => aMemoria["CPU"] = <<>>
      /\ UNCHANGED <<pageTable, estado, interfaz>>
  BY CpuAnda
<1>2. PICK p0 \in Pids : p0 = cpu.pid
  BY <1>1, ElQueCorre
<1>3. /\ estado[p0] = "EXEC" /\ info[p0] = NULL /\ vuelve = NULL
      /\ info = [p \in Pids |-> info[p]]
  BY <1>1, <1>2, ElQueCorre
<1>4. /\ OtrosPedidos("CPU") /\ (SigueElProceso \/ DejaLaCpu)
      /\ (\A m \in Elementos(aMemoria["CPU"]) : DeLaCpu(m))'
  BY <1>1 DEF CpuBien
<1>5. /\ aMemoria'["KERNEL"] = aMemoria["KERNEL"]
      /\ \A i \in Interfaces : aMemoria'[i] = aMemoria[i]
  BY <1>4, LosNombres DEF OtrosPedidos
<1>6. Lugares /\ Preguntas
  BY DEF AccesosInv
<1>7. \A p \in Pids : p # p0 => info'[p] = info[p]
  <2>1. CASE SigueElProceso
    BY <2>1 DEF SigueElProceso
  <2>2. CASE DejaLaCpu
    <3>1. PICK v : info' = [info EXCEPT ![p0] = v]
      BY <1>2, <2>2, Zenon DEF DejaLaCpu, VuelvePor
    <3> QED
      BY <1>3, <3>1, AlCambiar
  <2> QED
    BY <1>4, <2>1, <2>2
<1>8. (\A m \in Elementos(aMemoria["KERNEL"]) : DelKernel(m))'
  <2>1. ASSUME NEW m \in Elementos(aMemoria["KERNEL"]) PROVE DelKernel(m)'
    BY <1>6, PedidoDelKernelQuieto DEF Preguntas
  <2> QED
    BY <1>5, <2>1
<1>9. (\A i \in Interfaces : \A m \in Elementos(aMemoria[i]) : DeLaInterfaz(i, m))'
  <2>1. ASSUME NEW i \in Interfaces, NEW m \in Elementos(aMemoria[i]) PROVE DeLaInterfaz(i, m)'
    <3>1. DeLaInterfaz(i, m)
      BY <1>6 DEF Preguntas
    <3>2. m.op # "FS_READ" => m.pid \in Pids /\ m.pid # p0
      BY <1>3, <1>6, <3>1, ElBloqueado DEF EnIo
    <3> QED
      BY <1>1, <1>7, <3>1, <3>2, PedidoDeInterfazQuieto
  <2> QED
    BY <1>5, <2>1
<1>10. Contestado'
  BY <1>1 DEF Contestado
<1>11. SinDeudas'
  <2>1. CASE SigueElProceso
    BY <1>3, <2>1 DEF SigueElProceso, SinDeudas
  <2>2. CASE DejaLaCpu
    <3>1. PICK reason : vuelve' = [pid |-> cpu.pid, reason |-> reason]
                        /\ (reason # "QUANTUM" => UNCHANGED aMemoria)
      BY <2>2, Zenon DEF DejaLaCpu, VuelvePor
    <3>2. vuelve'.reason # "QUANTUM" => aMemoria'["CPU"] = <<>>
      BY <1>1, <2>2, <3>1 DEF DejaLaCpu
    <3> QED
      BY <3>2 DEF SinDeudas
  <2> QED
    BY <1>4, <2>1, <2>2
<1> QED
  BY <1>4, <1>8, <1>9, <1>10, <1>11 DEF Preguntas

-------------------------------------------------------------------------------
(* The kernel and the interfaces. *)

LEMMA EnCursoQuieto ==
    ASSUME EnCurso, cpu.fase # "libre" => cpu.pid \in Pids,
           UNCHANGED <<cpu, registros, pageTable>>
    PROVE  EnCurso'
<1>1. LasPartes' = LasPartes
  BY DEF LasPartes
<1>2. AccesoEnCurso /\ cpu.fase # "libre" => AccesoEnCurso'
  <2>1. SUFFICES ASSUME AccesoEnCurso, cpu.pid \in Pids PROVE AccesoEnCurso'
    OBVIOUS
  <2>2. (\A k \in 1 .. Len(cpu.dirs) : Corresponde(cpu.pid, cpu.dirs[k], LasPartes[k].dir))'
    BY <1>1, <2>1, MismasDirecciones
  <2>3. BienEscrita(cpu.inst)'
    BY <2>1 DEF AccesoEnCurso
  <2> QED
    BY <1>1, <2>1, <2>2, <2>3 DEF AccesoEnCurso
<1>3. cpu.fase \in {"frame", "dato"} => AccesoEnCurso'
  BY <1>2 DEF EnCurso
<1> QED
  BY <1>3 DEF EnCurso

LEMMA ContestadoQuieto ==
    ASSUME Contestado, UNCHANGED <<cpu, registros, pageTable>>,
           deMemoria'["CPU"] = deMemoria["CPU"]
    PROVE  Contestado'
<1>1. ParteActual' = ParteActual /\ Recibido' = Recibido
  BY DEF ParteActual, LasPartes, Recibido
<1>2. GetFrame(cpu.pid, ParteActual.dir \div PageLength)'
        = GetFrame(cpu.pid, ParteActual.dir \div PageLength)
  BY <1>1 DEF GetFrame, PagesOf
<1>3. BienEscrita(Recibido)' <=> BienEscrita(Recibido)
  BY <1>1
<1> QED
  BY <1>1, <1>2, <1>3 DEF Contestado

\* A step of the kernel touches the process p0: nothing that travels is about it.
LEMMA PreguntasQuietas ==
    ASSUME AccesosInv, UNCHANGED <<aMemoria, deMemoria, cpu, registros, pageTable, interfaz>>,
           vuelve' \in {vuelve, NULL}, NEW p0 \in Pids, SoloElProceso(p0),
           \A m \in Elementos(aMemoria["CPU"]) :
             m.op \in {"MOVE_OUT", "COPY_STRING"}
               => m.pid # p0 \/ (estado'[p0] \in {"READY", "EXEC"} /\ info'[p0] = NULL),
           \A i \in Interfaces : \A p \in Atendido(i) : p # p0 \/ info'[p0] = info[p0]
    PROVE  Preguntas' /\ EnCurso'
<1>1. Preguntas /\ EnCurso /\ Lugares /\ (cpu.fase # "libre" => cpu.pid \in Pids)
  BY DEF AccesosInv, MarcosInv, Procesos
<1>2. EnCurso' /\ Contestado'
  BY <1>1, EnCursoQuieto, ContestadoQuieto DEF Preguntas
<1>3. ASSUME NEW m \in Elementos(aMemoria["CPU"]) PROVE DeLaCpu(m)'
  <2>1. DeLaCpu(m) /\ m.pid \in Pids
    BY <1>1 DEF Preguntas, DeLaCpu, BienHecho
  <2>2. m.op \in {"MOVE_OUT", "COPY_STRING"}
          => estado'[m.pid] \in {"READY", "EXEC"} /\ info'[m.pid] = NULL
    BY <2>1 DEF DeLaCpu, SoloElProceso
  <2> QED
    BY <2>1, <2>2, PedidoDeCpuQuieto
<1>4. ASSUME NEW i \in Interfaces, NEW m \in Elementos(aMemoria[i]) PROVE DeLaInterfaz(i, m)'
  <2>1. DeLaInterfaz(i, m) /\ m.pid \in Pids
    BY <1>1 DEF Preguntas, DeLaInterfaz, BienHecho
  <2>2. m.op # "FS_READ" => m.pid \in Atendido(i)
    BY <1>1, <2>1, ElBloqueado
  <2>3. m.op # "FS_READ" => info'[m.pid] = info[m.pid]
    BY <2>1, <2>2 DEF SoloElProceso
  <2> QED
    BY <2>1, <2>3, PedidoDeInterfazQuieto
<1>5. ASSUME NEW m \in Elementos(aMemoria["KERNEL"]) PROVE DelKernel(m)'
  BY <1>1, PedidoDelKernelQuieto DEF Preguntas
<1>6. SinDeudas'
  BY <1>1 DEF Preguntas, SinDeudas
<1> QED
  BY <1>2, <1>3, <1>4, <1>5, <1>6 DEF Preguntas

LEMMA AccesosDeRecibirPcb ==
    ASSUME AccesosInv, RecibirPcb
    PROVE  Preguntas' /\ EnCurso'
<1>1. /\ vuelve # NULL /\ vuelve' = NULL
      /\ UNCHANGED <<aMemoria, deMemoria, cpu, registros, pageTable, interfaz, info>>
      /\ UNCHANGED memoriaVars
  BY DEF RecibirPcb, interfazVars, memoriaVars, paginacionVars
<1>2. PICK p0 \in Pids : p0 = vuelve.pid
  BY <1>1 DEF AccesosInv, Lugares, EnLaCpu, Regresos
<1>3. /\ \E e \in {"READY", "BLOCKED", "EXIT"} : estado' = [estado EXCEPT ![p0] = e]
      /\ vuelve.reason = "QUANTUM" => estado' = [estado EXCEPT ![p0] = "READY"]
  BY <1>2 DEF RecibirPcb
<1>4. /\ \A q \in Pids \ {p0} : estado'[q] = estado[q]
      /\ vuelve.reason = "QUANTUM" => estado'[p0] = "READY"
  BY <1>2, <1>3 DEF AccesosInv, Lugares
<1>5. SoloElProceso(p0)
  BY <1>1, <1>4, PaginasIguales DEF SoloElProceso
\* If it does not go back to the queue, none of its writes is on its way.
<1>6. ASSUME NEW m \in Elementos(aMemoria["CPU"]), m.op \in {"MOVE_OUT", "COPY_STRING"},
             m.pid = p0
      PROVE  estado'[p0] \in {"READY", "EXEC"} /\ info'[p0] = NULL
  <2>1. DeLaCpu(m) /\ SinDeudas
    BY DEF AccesosInv, Preguntas
  <2>2. aMemoria["CPU"] # <<>>
    BY VaciaEsSeq DEF Elementos
  <2>3. vuelve.reason = "QUANTUM"
    BY <1>1, <2>1, <2>2 DEF SinDeudas
  <2> QED
    BY <1>1, <1>4, <1>6, <2>1, <2>3 DEF DeLaCpu
<1> QED
  BY <1>1, <1>2, <1>5, <1>6, PreguntasQuietas

\* A process that is blocked has no writes on their way.
LEMMA SinEscrituras ==
    ASSUME Preguntas, NEW p0, estado[p0] = "BLOCKED",
           NEW m \in Elementos(aMemoria["CPU"]), m.op \in {"MOVE_OUT", "COPY_STRING"}
    PROVE  m.pid # p0
  BY DEF Preguntas, DeLaCpu

LEMMA AccesosDeIoFunction ==
    ASSUME AccesosInv, IoFunction
    PROVE  Preguntas' /\ EnCurso'
<1>1. /\ paramsIo # NULL
      /\ UNCHANGED <<aMemoria, deMemoria, cpu, registros, pageTable, interfaz, vuelve>>
      /\ UNCHANGED memoriaVars
  BY DEF IoFunction, memoriaVars, paginacionVars
<1>2. PICK p0 \in Pids : p0 = paramsIo
  BY <1>1 DEF AccesosInv, Lugares, EnEspera
<1>3. estado[p0] = "BLOCKED"
  BY <1>1, <1>2 DEF AccesosInv, Lugares, EnEspera
<1>4. /\ estado' = estado \/ estado' = [estado EXCEPT ![p0] = "EXIT"]
      /\ info' = info \/ info' = [info EXCEPT ![p0] = NULL]
  BY <1>2 DEF IoFunction
<1>5. \A q \in Pids \ {p0} : estado'[q] = estado[q] /\ info'[q] = info[q]
  BY <1>4 DEF AccesosInv, Lugares
<1>6. SoloElProceso(p0)
  BY <1>1, <1>5, PaginasIguales DEF SoloElProceso
<1>7. \A i \in Interfaces : \A p \in Atendido(i) : p # p0
  BY <1>2 DEF AccesosInv, Lugares, EnEspera, EnEsperaDe, Ocupantes, EnIo
<1>8. \A m \in Elementos(aMemoria["CPU"]) : m.op \in {"MOVE_OUT", "COPY_STRING"} => m.pid # p0
  BY <1>3, SinEscrituras DEF AccesosInv
<1> QED
  BY <1>1, <1>6, <1>7, <1>8, PreguntasQuietas

LEMMA AccesosDeTerminarIo ==
    ASSUME AccesosInv, NEW i \in Interfaces, TerminarIo(i)
    PROVE  Preguntas' /\ EnCurso'
<1> DEFINE d == deInterfaz[i]
<1>1. /\ d # <<>> /\ EsSeq(d)
      /\ UNCHANGED <<aMemoria, deMemoria, cpu, registros, pageTable, interfaz, vuelve>>
      /\ UNCHANGED memoriaVars
  BY DEF TerminarIo, AccesosInv, MarcosInv, Procesos, memoriaVars, paginacionVars
<1>2. /\ Cola(aInterfaz[i], Atendido(i), d) /\ EsSeq(aInterfaz[i])
      /\ \A p \in Ocupantes(i) : EnIo(i, p)
  BY DEF AccesosInv, Lugares, EnEspera, EnEsperaDe
<1>3. Head(d) \in Elementos(d) /\ Head(d).pid \notin Atendido(i)
  BY <1>1, <1>2, ColaAlRecibir
<1>4. EnIo(i, Head(d).pid)
  BY <1>2, <1>3 DEF Ocupantes, PidsDe
<1>5. PICK p0 \in Pids : p0 = Head(d).pid
  BY <1>4 DEF EnIo
<1>6. estado[p0] = "BLOCKED" /\ info[p0].io = i
  BY <1>4, <1>5 DEF EnIo
<1>7. /\ info' = [info EXCEPT ![p0] = NULL]
      /\ \E e \in {"READY", "EXIT"} : estado' = [estado EXCEPT ![p0] = e]
  BY <1>5 DEF TerminarIo
<1>8. \A q \in Pids \ {p0} : estado'[q] = estado[q] /\ info'[q] = info[q]
  BY <1>7 DEF AccesosInv, Lugares
<1>9. SoloElProceso(p0)
  BY <1>1, <1>8, PaginasIguales DEF SoloElProceso
<1>10. ASSUME NEW j \in Interfaces, NEW p \in Atendido(j) PROVE p # p0
  <2>1. EnIo(j, p)
    BY DEF AccesosInv, Lugares, EnEspera, EnEsperaDe, Ocupantes
  <2>2. j # i => p # p0
    BY <1>6, <2>1 DEF EnIo
  <2> QED
    BY <1>3, <1>5, <2>2
<1>11. \A m \in Elementos(aMemoria["CPU"]) : m.op \in {"MOVE_OUT", "COPY_STRING"} => m.pid # p0
  BY <1>6, SinEscrituras DEF AccesosInv
<1> QED
  BY <1>1, <1>9, <1>10, <1>11, PreguntasQuietas

\* Who is not waited for has nothing to answer.
LEMMA CpuSinEspera ==
    ASSUME MarcosInv, cpu.fase \in {"libre", "pedir"}
    PROVE  /\ deMemoria["CPU"] = <<>>
           /\ \A m \in Elementos(aMemoria["CPU"]) : m.op \notin Sincronicos
<1>1. ~Espera("CPU") /\ "CPU" \in Conexiones /\ DialogoConLaMemoria
  BY LosNombres DEF Espera, MarcosInv, DialogoInv
<1>2. /\ deMemoria["CPU"] = <<>>
      /\ \A m \in Elementos(aMemoria["CPU"]) : m.op \in Asincronicos
  BY <1>1 DEF DialogoConLaMemoria, EnDialogo, Elementos
<1> QED
  BY <1>2, DosClases

LEMMA AccesosDeDespachar ==
    ASSUME AccesosInv, Despachar
    PROVE  Preguntas' /\ EnCurso'
<1>1. /\ queueReadys \in Seq(Pids) /\ queueReadys # <<>> /\ cpu.fase = "libre"
      /\ cpu' = [CpuLibre EXCEPT !.fase = "pedir", !.pid = Head(queueReadys)]
      /\ estado' = [estado EXCEPT ![Head(queueReadys)] = "EXEC"]
      /\ UNCHANGED <<aMemoria, deMemoria, registros, pageTable, interfaz, info, vuelve>>
  BY DEF Despachar, interfazVars, memoriaVars, paginacionVars, AccesosInv, MarcosInv, Procesos
<1>2. PICK p0 \in Pids : p0 = Head(queueReadys)
  BY <1>1
<1>3. /\ Preguntas /\ EnCurso /\ MarcosInv
      /\ estado'[p0] = "EXEC" /\ \A q \in Pids \ {p0} : estado'[q] = estado[q]
  BY <1>1, <1>2 DEF AccesosInv, Lugares
<1>4. cpu'.fase = "pedir" /\ cpu'.dirs = <<>> /\ cpu'.datos = <<>>
  BY <1>1 DEF CpuLibre
<1>5. EnCurso'
  BY <1>1, <1>3, <1>4, SinAcceso DEF EnCurso
<1>6. /\ deMemoria["CPU"] = <<>>
      /\ \A m \in Elementos(aMemoria["CPU"]) : m.op \notin Sincronicos
  BY <1>1, <1>3, CpuSinEspera
<1>7. ASSUME NEW m \in Elementos(aMemoria["CPU"]) PROVE DeLaCpu(m)'
  <2>1. DeLaCpu(m) /\ m.pid \in Pids
    BY <1>3 DEF Preguntas, DeLaCpu, BienHecho
  <2>2. m.op \in {"MOVE_OUT", "COPY_STRING"}
          => estado'[m.pid] \in {"READY", "EXEC"} /\ info'[m.pid] = NULL
    BY <1>1, <1>3, <2>1 DEF DeLaCpu
  <2> QED
    BY <1>1, <1>4, <1>6, <2>1, <2>2, EscrituraQuieta
<1>8. ASSUME NEW i \in Interfaces, NEW m \in Elementos(aMemoria[i]) PROVE DeLaInterfaz(i, m)'
  <2>1. DeLaInterfaz(i, m)
    BY <1>3 DEF Preguntas
  <2> QED
    BY <1>1, <2>1, PedidoDeInterfazQuieto
<1>9. ASSUME NEW m \in Elementos(aMemoria["KERNEL"]) PROVE DelKernel(m)'
  BY <1>3, PedidoDelKernelQuieto DEF Preguntas
<1>10. Contestado'
  BY <1>1, <1>6 DEF Contestado
<1>11. SinDeudas'
  BY <1>1, <1>3 DEF Preguntas, SinDeudas
<1> QED
  BY <1>1, <1>5, <1>7, <1>8, <1>9, <1>10, <1>11 DEF Preguntas

LEMMA AccesosDeEnviarPrograma ==
    ASSUME AccesosInv, EnviarPrograma
    PROVE  Preguntas' /\ EnCurso' /\ Lugares'
<1>1. /\ porEnviar # NULL /\ Preguntar("KERNEL", processToMemory(porEnviar))
      /\ UNCHANGED <<deMemoria, registros, pageTable, aInterfaz, deInterfaz, interfaz, info,
                      vuelve, cpu, estado, queueReadys, paramsIo>>
  BY DEF EnviarPrograma, interfazVars, memoriaInterna, paginacionVars
<1>2. PICK p0 \in Pids : p0 = porEnviar
  BY <1>1 DEF AccesosInv, MarcosInv, Procesos
<1>3. /\ Preguntas /\ EnCurso /\ MarcosInv /\ Forma /\ Lugares
      /\ "CPU" \in Conexiones /\ "KERNEL" \in Conexiones /\ "KERNEL" # "CPU"
      /\ \A i \in Interfaces : i \in Conexiones /\ i # "KERNEL"
  BY LosNombres DEF AccesosInv, MarcosInv, DialogoInv
<1>4. PICK n : n = processToMemory(p0)
  OBVIOUS
<1>5. n = [op |-> "PROCESSTOMEMORY", pid |-> p0, dir |-> 0, largo |-> 0, dato |-> 0,
           logica |-> 0]
  BY <1>4 DEF processToMemory, PedirSinDireccion, Pedir
<1>6. DelKernel(n)
  BY <1>5 DEF DelKernel, BienHecho, Sincronicos, Asincronicos
<1>7. aMemoria'["KERNEL"] = Append(aMemoria["KERNEL"], n) /\ OtrosPedidos("KERNEL")
  BY <1>1, <1>2, <1>3, <1>4, AlPreguntar
<1>8. Elementos(aMemoria'["KERNEL"]) \subseteq Elementos(aMemoria["KERNEL"]) \cup {n}
  BY <1>3, <1>7, ElementosAlAgregar DEF Forma
<1>9. aMemoria'["CPU"] = aMemoria["CPU"] /\ \A i \in Interfaces : aMemoria'[i] = aMemoria[i]
  BY <1>3, <1>7 DEF OtrosPedidos
<1>10. (\A m \in Elementos(aMemoria["KERNEL"]) : DelKernel(m))'
  <2>1. ASSUME NEW m \in Elementos(aMemoria'["KERNEL"]) PROVE DelKernel(m)'
    <3>1. DelKernel(m)
      BY <1>3, <1>6, <1>8 DEF Preguntas
    <3> QED
      BY <3>1, PedidoDelKernelQuieto
  <2> QED
    BY <2>1
<1>11. (\A m \in Elementos(aMemoria["CPU"]) : DeLaCpu(m))'
  <2>1. ASSUME NEW m \in Elementos(aMemoria["CPU"]) PROVE DeLaCpu(m)'
    <3>1. DeLaCpu(m)
      BY <1>3 DEF Preguntas
    <3>2. m.op \in {"MOVE_OUT", "COPY_STRING"}
            => estado'[m.pid] \in {"READY", "EXEC"} /\ info'[m.pid] = NULL
      BY <1>1, <3>1 DEF DeLaCpu
    <3> QED
      BY <1>1, <3>1, <3>2, PedidoDeCpuQuieto
  <2> QED
    BY <1>9, <2>1
<1>12. (\A i \in Interfaces : \A m \in Elementos(aMemoria[i]) : DeLaInterfaz(i, m))'
  <2>1. ASSUME NEW i \in Interfaces, NEW m \in Elementos(aMemoria[i]) PROVE DeLaInterfaz(i, m)'
    <3>1. DeLaInterfaz(i, m)
      BY <1>3 DEF Preguntas
    <3> QED
      BY <1>1, <3>1, PedidoDeInterfazQuieto
  <2> QED
    BY <1>9, <2>1
<1>13. Contestado'
  BY <1>1, <1>3, ContestadoQuieto DEF Preguntas
<1>14. SinDeudas'
  BY <1>1, <1>3, <1>9 DEF Preguntas, SinDeudas
<1>15. EnCurso'
  BY <1>1, <1>3, EnCursoQuieto DEF MarcosInv, Procesos
<1>16. Lugares'
  <2>1. SoloElProceso(NULL) /\ NULL \notin Pids
    BY <1>1, NingunProceso, ConstantesDeEjecucion
  <2>2. EnEspera' /\ Listos'
    BY <1>1, <1>3, <2>1, EsperaQuieta, ListosQuietos DEF Lugares, MarcosInv, Procesos
  <2>3. EnLaCpu'
    BY <1>1, <1>3, <2>1, EnLaCpuQuieta DEF Lugares, MarcosInv, Procesos
  <2>4. (\A p \in Pids : info[p] = NULL \/ ConPedido(p))'
    BY <1>3, <2>1, PedidosQuietos DEF Lugares
  <2> QED
    BY <1>1, <1>3, <2>2, <2>3, <2>4 DEF Lugares
<1> QED
  BY <1>10, <1>11, <1>12, <1>13, <1>14, <1>15, <1>16 DEF Preguntas

\* A text is of bytes, and so is the part of it that fits.
LEMMA UnTexto ==
    ASSUME NEW t \in Textos \cup {<<>>}, NEW n \in Nat
    PROVE  Hasta(t, n) \in Seq(Byte) /\ Len(Hasta(t, n)) \in Nat
<1>1. \A s \in Textos : s \in Seq(Byte \ {0})
  BY ConstantesDeEjecucion
<1>2. \A S : Seq(S \ {0}) \subseteq Seq(S) /\ <<>> \in Seq(S)
  <2>1. \A S : <<>> \in Seq(S)
    OBVIOUS
  <2>2. ASSUME NEW S, NEW s \in Seq(S \ {0}) PROVE s \in Seq(S)
    OBVIOUS
  <2> QED
    BY <2>1, <2>2
<1>3. t \in Seq(Byte)
  BY <1>1, <1>2
<1>4. ASSUME NEW S, NEW s \in Seq(S)
      PROVE  /\ SubSeq(s, 1, IF Len(s) <= n THEN Len(s) ELSE n) \in Seq(S)
             /\ Len(SubSeq(s, 1, IF Len(s) <= n THEN Len(s) ELSE n)) \in Nat
  <2>1. PICK k \in Nat : k = (IF Len(s) <= n THEN Len(s) ELSE n)
    OBVIOUS
  <2>2. k <= Len(s) /\ Len(s) \in Nat
    BY <2>1
  <2>3. \A j \in 1 .. k : s[j] \in S
    BY <2>2
  <2>4. SubSeq(s, 1, k) \in Seq(S) /\ Len(SubSeq(s, 1, k)) \in Nat
    BY <2>2, <2>3
  <2> QED
    BY <2>1, <2>4
<1> QED
  BY <1>3, <1>4 DEF Hasta

\* The process of the request that an interface takes.
LEMMA ElTomado ==
    ASSUME Lugares, NEW i \in Interfaces, NEW p, NEW ops, Toma(i, p, ops)
    PROVE  EnIo(i, p) /\ info[p].op \in ops /\ interfaz[i].fase = "libre"
<1>1. /\ interfaz[i].fase = "libre" /\ aInterfaz[i] # <<>> /\ Head(aInterfaz[i]) = p
      /\ info[p].op \in ops
  BY DEF Toma
<1>2. EnEsperaDe(i) /\ EsSeq(aInterfaz[i])
  BY DEF Lugares, EnEspera, EnEsperaDe
<1>3. p \in Elementos(aInterfaz[i])
  BY <1>1, <1>2, AlSacar DEF Elementos
<1> QED
  BY <1>1, <1>2, <1>3 DEF EnEsperaDe, Ocupantes

LEMMA AlOcuparPara ==
    ASSUME Forma, NEW i \in Interfaces, NEW p, NEW fase, Ocupar(i, p, fase)
    PROVE  interfaz'[i] = [fase |-> fase, pid |-> p]
  BY DEF Forma, Ocupar

\* What an interface asks the memory for.
LEMMA LoQuePide ==
    ASSUME AccesosInv, NEW i \in Interfaces, Interfaz(i)
    PROVE  \/ UNCHANGED aMemoria
           \/ \E m : Preguntar(i, m) /\ DeLaInterfaz(i, m)'
<1>1. PICK p \in Pids : \/ Rechazar(i, p) \/ HacerSinMemoria(i, p) \/ Fallar(i, p)
                        \/ LeerTeclado(i, p) \/ PedirTexto(i, p) \/ RecibirDeMemoria(i, p)
                        \/ EnviarLoLeido(i, p) \/ AvisarLoLeido(i, p)
  BY DEF Interfaz
<1>2. Lugares /\ Forma /\ info' = info
  BY DEF AccesosInv, MarcosInv, DialogoInv, Interfaz
<1>3. CASE Rechazar(i, p) \/ HacerSinMemoria(i, p) \/ Fallar(i, p)
  BY <1>3 DEF Rechazar, HacerSinMemoria, Fallar
<1>4. CASE RecibirDeMemoria(i, p) \/ AvisarLoLeido(i, p)
  BY <1>4 DEF RecibirDeMemoria, AvisarLoLeido
<1>5. CASE LeerTeclado(i, p)
  <2>1. PICK t \in Textos :
          Preguntar(i, IO_STDIN_READ_WRITE_MEMORY(p, info[p].dir, Hasta(t, info[p].largo),
                                                  info[p].logica))
    BY <1>5 DEF LeerTeclado
  <2>2. EnIo(i, p) /\ info[p].op \in {"IO_STDIN_READ"}
    <3>1. Toma(i, p, OpsDe(i) \cap {"IO_STDIN_READ"})
      BY <1>5 DEF LeerTeclado
    <3> QED
      BY <1>2, <3>1, ElTomado
  <2>3. interfaz'[i] = [fase |-> "memoria", pid |-> p]
    <3>1. Ocupar(i, p, "memoria")
      BY <1>5 DEF LeerTeclado
    <3> QED
      BY <1>2, <3>1, AlOcuparPara
  <2>4. info[p].largo \in Nat /\ info[p].logica \in Nat /\ info[p].dir \in Int
    BY <2>2 DEF EnIo, ConPedido
  <2>5. PICK s : s = Hasta(t, info[p].largo)
    OBVIOUS
  <2>6. s \in Seq(Byte) /\ Len(s) \in Nat
    BY <2>4, <2>5, UnTexto
  <2>7. PICK m : m = IO_STDIN_READ_WRITE_MEMORY(p, info[p].dir, s, info[p].logica)
    OBVIOUS
  <2>8. m = [op |-> "IO_STDIN_READ", pid |-> p, dir |-> info[p].dir, largo |-> Len(s),
             dato |-> s,
             logica |-> info[p].logica]
    BY <2>7 DEF IO_STDIN_READ_WRITE_MEMORY, Pedir
  <2>9. /\ m.op = "IO_STDIN_READ" /\ m.pid = p /\ m.dir = info[p].dir /\ m.largo \in Nat
        /\ m.dato \in Seq(Byte) /\ m.logica = info[p].logica
    BY <2>6, <2>8
  <2>10. BienHecho(m)'
    BY <2>4, <2>9 DEF BienHecho, Sincronicos
  <2>11. DeLaInterfaz(i, m)'
    BY <1>2, <2>2, <2>3, <2>9, <2>10 DEF DeLaInterfaz, OpsIoConDireccion
  <2> QED
    BY <2>1, <2>5, <2>7, <2>11
<1>6. CASE PedirTexto(i, p)
  <2>1. EnIo(i, p) /\ info[p].op \in {"IO_STDOUT_WRITE", "IO_FS_WRITE"}
    <3>1. Toma(i, p, OpsDe(i) \cap {"IO_STDOUT_WRITE", "IO_FS_WRITE"})
      BY <1>6 DEF PedirTexto
    <3> QED
      BY <1>2, <3>1, ElTomado
  <2>2. interfaz'[i] = [fase |-> "memoria", pid |-> p]
    <3>1. Ocupar(i, p, "memoria")
      BY <1>6 DEF PedirTexto
    <3> QED
      BY <1>2, <3>1, AlOcuparPara
  <2>3. info[p].largo \in Nat /\ info[p].logica \in Nat /\ info[p].dir \in Int
    BY <2>1 DEF EnIo, ConPedido
  <2>4. PICK op \in {"WRITE", "FS_WRITE"} :
          Preguntar(i, [op |-> op, pid |-> p, dir |-> info[p].dir, largo |-> info[p].largo,
                        dato |-> 0, logica |-> info[p].logica])
    BY <1>6 DEF PedirTexto, IO_STDOUT_WRITE_params, IO_FS_WRITE_params, Pedir
  <2>5. PICK m : m = [op |-> op, pid |-> p, dir |-> info[p].dir, largo |-> info[p].largo,
                      dato |-> 0, logica |-> info[p].logica]
    OBVIOUS
  <2>6. /\ m.op = op /\ m.pid = p /\ m.dir = info[p].dir /\ m.largo = info[p].largo
        /\ m.logica = info[p].logica
    BY <2>5
  <2>7. BienHecho(m)'
    BY <2>3, <2>6 DEF BienHecho, Sincronicos
  <2>8. DeLaInterfaz(i, m)'
    BY <1>2, <2>1, <2>2, <2>6, <2>7 DEF DeLaInterfaz, OpsIoConDireccion
  <2> QED
    BY <2>4, <2>5, <2>8
<1>7. CASE EnviarLoLeido(i, p)
  <2>1. PICK t \in Textos \cup {<<>>} :
          Preguntar(i, IO_FS_READ_TO_MEMORY(p, info[p].dir, info[p].largo,
                                            Hasta(t, info[p].largo + 1), info[p].logica))
    BY <1>7 DEF EnviarLoLeido
  <2>2. EnIo(i, p)
    <3>1. Toma(i, p, OpsDe(i) \cap {"IO_FS_READ"})
      BY <1>7 DEF EnviarLoLeido
    <3> QED
      BY <1>2, <3>1, ElTomado
  <2>3. info[p].largo \in Nat /\ info[p].logica \in Nat /\ info[p].dir \in Int
    BY <2>2 DEF EnIo, ConPedido
  <2>4. PICK s : s = Hasta(t, info[p].largo + 1)
    OBVIOUS
  <2>5. s \in Seq(Byte)
    BY <2>3, <2>4, UnTexto
  <2>6. PICK m : m = IO_FS_READ_TO_MEMORY(p, info[p].dir, info[p].largo, s, info[p].logica)
    OBVIOUS
  <2>7. m = [op |-> "FS_READ", pid |-> p, dir |-> info[p].dir, largo |-> info[p].largo,
             dato |-> s,
             logica |-> info[p].logica]
    BY <2>6 DEF IO_FS_READ_TO_MEMORY, Pedir
  <2>8. /\ m.op = "FS_READ" /\ m.pid = p /\ m.dir = info[p].dir /\ m.largo = info[p].largo
        /\ m.dato = s /\ m.logica = info[p].logica
    BY <2>7
  <2>9. BienHecho(m)'
    BY <2>3, <2>5, <2>8 DEF BienHecho, Asincronicos
  <2>10. DeLaInterfaz(i, m)'
    BY <2>8, <2>9 DEF DeLaInterfaz
  <2> QED
    BY <2>1, <2>4, <2>6, <2>10
<1> QED
  BY <1>1, <1>3, <1>4, <1>5, <1>6, <1>7

\* When an interface goes on, nothing that it asked for before waits for an answer.
LEMMA LosDeAntes ==
    ASSUME AccesosInv, NEW i \in Interfaces, Interfaz(i)
    PROVE  /\ \A m \in Elementos(aMemoria[i]) : m.op = "FS_READ"
           /\ OtrasRespuestas(i)
           /\ \A j \in Interfaces : j # i => interfaz'[j] = interfaz[j]
<1>1. /\ Forma /\ DialogoConLaMemoria /\ Preguntas /\ i \in Conexiones /\ i # "CPU"
      /\ interfaz = [j \in Interfaces |-> interfaz[j]]
  BY LosNombres DEF AccesosInv, MarcosInv, DialogoInv, Forma
<1>2. EnDialogo(aMemoria[i], deMemoria[i], Espera(i), TipoEsperado(i))
      \/ (Espera(i) /\ aMemoria[i] = <<>> /\ deMemoria[i] = <<>>)
  BY <1>1 DEF DialogoConLaMemoria
<1>3. \A j \in Interfaces : j # i => interfaz'[j] = interfaz[j]
  <2>1. \/ interfaz' = interfaz \/ interfaz' = [interfaz EXCEPT ![i] = InterfazLibre]
        \/ \E p \in Pids : \E fase : interfaz' = [interfaz EXCEPT ![i] = [fase |-> fase, pid |-> p]]
    BY <1>1, PasosDeInterfaz DEF Ocupar
  <2> QED
    BY <1>1, <2>1
<1>4. OtrasRespuestas(i)
  BY <1>1, PasosDeInterfaz, AlConsumir, SinConsumir
<1>5. interfaz[i].fase # "memoria" \/ deMemoria[i] # <<>>
  BY <1>1, PasosDeInterfaz
<1>6. CASE interfaz[i].fase # "memoria"
  <2>1. ~Espera(i)
    BY <1>1, <1>6 DEF Espera
  <2>2. \A m \in Elementos(aMemoria[i]) : m.op \in Asincronicos
    BY <1>2, <2>1 DEF EnDialogo, Elementos
  <2>3. \A m \in Elementos(aMemoria[i]) :
          m.op \in {"IO_STDIN_READ", "WRITE", "FS_WRITE", "FS_READ"}
    BY <1>1 DEF Preguntas, DeLaInterfaz
  <2> QED
    BY <1>3, <1>4, <2>2, <2>3 DEF Asincronicos
<1>7. CASE deMemoria[i] # <<>>
  <2>1. aMemoria[i] = <<>>
    BY <1>1, <1>2, <1>7, Respuesta DEF Forma
  <2> QED
    BY <1>3, <1>4, <2>1, SinElementos
<1> QED
  BY <1>5, <1>6, <1>7

LEMMA AccesosDeInterfaz ==
    ASSUME AccesosInv, NEW i \in Interfaces, Interfaz(i)
    PROVE  Preguntas' /\ EnCurso'
<1>1. UNCHANGED <<registros, pageTable, info, vuelve, cpu, estado>>
  BY DEF Interfaz, memoriaInterna, paginacionVars, planVars
<1>2. /\ Preguntas /\ EnCurso /\ Forma /\ Lugares
      /\ i # "CPU" /\ i # "KERNEL" /\ i \in Conexiones
      /\ "CPU" \in Conexiones /\ "KERNEL" \in Conexiones /\ Interfaces \subseteq Conexiones
  BY LosNombres DEF AccesosInv, MarcosInv, DialogoInv
<1>3. /\ \A m \in Elementos(aMemoria[i]) : m.op = "FS_READ"
      /\ OtrasRespuestas(i)
      /\ \A j \in Interfaces : j # i => interfaz'[j] = interfaz[j]
  BY LosDeAntes
<1>4. /\ OtrosPedidos(i)
      /\ \A m \in Elementos(aMemoria'[i]) : m \in Elementos(aMemoria[i]) \/ DeLaInterfaz(i, m)'
  <2>1. CASE UNCHANGED aMemoria
    BY <1>2, <2>1, SinPreguntar
  <2>2. ASSUME NEW n, Preguntar(i, n), DeLaInterfaz(i, n)'
        PROVE  /\ OtrosPedidos(i)
               /\ \A m \in Elementos(aMemoria'[i]) : m \in Elementos(aMemoria[i]) \/ m = n
    <3>1. aMemoria'[i] = Append(aMemoria[i], n) /\ OtrosPedidos(i)
      BY <1>2, <2>2, AlPreguntar
    <3>2. Elementos(aMemoria'[i]) \subseteq Elementos(aMemoria[i]) \cup {n}
      BY <1>2, <3>1, ElementosAlAgregar DEF Forma
    <3> QED
      BY <3>1, <3>2
  <2> QED
    BY <2>1, <2>2, LoQuePide
<1>5. /\ aMemoria'["CPU"] = aMemoria["CPU"] /\ aMemoria'["KERNEL"] = aMemoria["KERNEL"]
      /\ deMemoria'["CPU"] = deMemoria["CPU"]
      /\ \A j \in Interfaces : j # i => aMemoria'[j] = aMemoria[j]
  BY <1>2, <1>3, <1>4 DEF OtrosPedidos, OtrasRespuestas
<1>6. (\A m \in Elementos(aMemoria["KERNEL"]) : DelKernel(m))'
  <2>1. ASSUME NEW m \in Elementos(aMemoria["KERNEL"]) PROVE DelKernel(m)'
    BY <1>2, PedidoDelKernelQuieto DEF Preguntas
  <2> QED
    BY <1>5, <2>1
<1>7. (\A m \in Elementos(aMemoria["CPU"]) : DeLaCpu(m))'
  <2>1. ASSUME NEW m \in Elementos(aMemoria["CPU"]) PROVE DeLaCpu(m)'
    <3>1. DeLaCpu(m)
      BY <1>2 DEF Preguntas
    <3>2. m.op \in {"MOVE_OUT", "COPY_STRING"}
            => estado'[m.pid] \in {"READY", "EXEC"} /\ info'[m.pid] = NULL
      BY <1>1, <3>1 DEF DeLaCpu
    <3> QED
      BY <1>1, <3>1, <3>2, PedidoDeCpuQuieto
  <2> QED
    BY <1>5, <2>1
<1>8. (\A j \in Interfaces : \A m \in Elementos(aMemoria[j]) : DeLaInterfaz(j, m))'
  <2>1. ASSUME NEW j \in Interfaces, NEW m \in Elementos(aMemoria[j]),
               m.op # "FS_READ" => interfaz'[j] = interfaz[j]
        PROVE  DeLaInterfaz(j, m)'
    <3>1. DeLaInterfaz(j, m)
      BY <1>2 DEF Preguntas
    <3> QED
      BY <1>1, <2>1, <3>1, PedidoDeInterfazQuieto
  <2>2. ASSUME NEW m \in Elementos(aMemoria'[i]) PROVE DeLaInterfaz(i, m)'
    BY <1>3, <1>4, <2>1
  <2>3. ASSUME NEW j \in Interfaces, j # i, NEW m \in Elementos(aMemoria'[j])
        PROVE  DeLaInterfaz(j, m)'
    BY <1>3, <1>5, <2>1, <2>3
  <2> QED
    BY <2>2, <2>3
<1>9. Contestado'
  BY <1>1, <1>2, <1>5, ContestadoQuieto DEF Preguntas
<1>10. SinDeudas'
  BY <1>1, <1>2, <1>5 DEF Preguntas, SinDeudas
<1>11. EnCurso'
  BY <1>1, <1>2, EnCursoQuieto DEF AccesosInv, MarcosInv, Procesos
<1> QED
  BY <1>6, <1>7, <1>8, <1>9, <1>10, <1>11 DEF Preguntas

-------------------------------------------------------------------------------
(* The bytes. *)

\* An address of a page is an address of the memory.
LEMMA EnElMarco ==
    ASSUME NEW f \in Frames, NEW r \in 0 .. PageLength - 1
    PROVE  f * PageLength + r \in Direcciones
<1>1. PageLength \in Nat \ {0} /\ CantFrames \in Nat \ {0} /\ f \in Nat /\ f < CantFrames
  BY ConstantesDePaginacion DEF Frames
<1>2. PageLength * f + PageLength <= PageLength * CantFrames
  BY <1>1, ProductoCrece
<1>3. f * PageLength = PageLength * f /\ CantFrames * PageLength = PageLength * CantFrames
      /\ PageLength * f \in Nat /\ PageLength * CantFrames \in Nat
  BY <1>1
<1> QED
  BY <1>1, <1>2, <1>3 DEF Direcciones

\* And the frame of an address is a frame.
LEMMA ElMarcoDe ==
    ASSUME NEW d \in Direcciones
    PROVE  /\ d \in Nat /\ NumeroDeMarco(d) \in Frames
           /\ Desplazamiento(d) \in 0 .. PageLength - 1
           /\ d = NumeroDeMarco(d) * PageLength + Desplazamiento(d)
<1>1. PageLength \in Nat \ {0} /\ CantFrames \in Nat \ {0}
  BY ConstantesDePaginacion
<1>2. CantFrames * PageLength \in Int
  BY <1>1
<1>3. d \in Nat /\ d < CantFrames * PageLength
  BY <1>2 DEF Direcciones
<1>4. /\ d \div PageLength \in Nat /\ d % PageLength \in 0 .. PageLength - 1
      /\ d = PageLength * (d \div PageLength) + (d % PageLength)
  BY <1>1, <1>3, Euclides
<1>5. d \div PageLength < CantFrames
  BY <1>1, <1>3, EnLasPaginas
<1>6. PageLength * (d \div PageLength) = (d \div PageLength) * PageLength
  BY <1>1, <1>4
<1> DEFINE q == d \div PageLength
<1> DEFINE r == d % PageLength
<1>7. q \in Nat /\ r \in 0 .. PageLength - 1 /\ d = q * PageLength + r /\ q < CantFrames
  BY <1>4, <1>5, <1>6
<1> HIDE DEF q, r
<1>8. q \in Frames
  BY <1>1, <1>7 DEF Frames
<1> QED
  BY <1>3, <1>7, <1>8 DEF NumeroDeMarco, Desplazamiento, q, r

\* The place of an address in the table, and the pages that follow.
LEMMA ElLugar ==
    ASSUME PaginacionTypeOK, NEW p \in Pids, NEW dir, Lugar(p, dir) # 0
    PROVE  /\ Lugar(p, dir) \in 1 .. Len(PagesOf(p))
           /\ PagesOf(p)[Lugar(p, dir)].frame_ppal = NumeroDeMarco(dir)
<1> DEFINE Es(i) == PagesOf(p)[i].frame_ppal = NumeroDeMarco(dir)
<1>1. PICK i \in 1 .. Len(PagesOf(p)) : Es(i)
  BY DEF Lugar
<1>2. Lugar(p, dir) = CHOOSE k \in 1 .. Len(PagesOf(p)) : Es(k)
  BY <1>1 DEF Lugar
<1> QED
  BY <1>1, <1>2

LEMMA LaQueSigue ==
    ASSUME PaginacionTypeOK, NEW p \in Pids, NEW dir, NEW n \in Nat, HayPagSig(p, dir, n),
           NEW j \in 0 .. n
    PROVE  /\ PagSig(p, dir, j) \in 1 .. Len(PagesOf(p))
           /\ PagesOf(p)[PagSig(p, dir, j)].frame_ppal \in Frames
<1>1. Len(PagesOf(p)) \in Nat /\ \A k \in 1 .. Len(PagesOf(p)) : PagesOf(p)[k] \in Pagina
  BY PagesOfType
<1>2. Lugar(p, dir) \in 1 .. Len(PagesOf(p)) /\ Lugar(p, dir) + n <= Len(PagesOf(p))
  BY ElLugar DEF HayPagSig, PagSig
<1>3. Lugar(p, dir) + j \in 1 .. Len(PagesOf(p))
  BY <1>1, <1>2
<1> QED
  BY <1>1, <1>3 DEF PagSig, Pagina

\* Where each byte of a read comes from.
LEMMA LoQueSeLee ==
    ASSUME PaginacionTypeOK, NEW p \in Pids, NEW dir, NEW size \in Nat,
           ~LecturaCae(p, dir, size), NEW k \in 0 .. size - 1
    PROVE  LET l == Desplazamiento(dir) + k IN
           /\ dir \in Direcciones /\ l \in Nat
           /\ l < PageLength \/ HayPagSig(p, dir, l \div PageLength)
           /\ Origen(p, dir, k) \in Direcciones
<1> DEFINE L == PageLength
<1> DEFINE off == Desplazamiento(dir)
<1> DEFINE l == off + k
<1>1. L \in Nat \ {0} /\ dir \in Direcciones
  BY ConstantesDePaginacion DEF LecturaCae
<1>2. /\ dir \in Nat /\ NumeroDeMarco(dir) \in Frames /\ off \in 0 .. L - 1
      /\ dir = NumeroDeMarco(dir) * L + off
  BY <1>1, ElMarcoDe
<1> HIDE DEF off
<1>3. l \in Nat /\ l <= off + size - 1 /\ off + size - 1 \in Nat
  BY <1>1, <1>2
<1>4. CASE l < L
  <2>1. l \in 0 .. L - 1
    BY <1>1, <1>3, <1>4
  <2>2. NumeroDeMarco(dir) * L + l \in Direcciones
    BY <1>2, <2>1, EnElMarco
  <2>3. dir + k = NumeroDeMarco(dir) * L + l
    <3>1. NumeroDeMarco(dir) * L \in Int
      BY <1>1, <1>2 DEF Frames
    <3> QED
      BY <1>1, <1>2, <3>1
  <2>4. Origen(p, dir, k) = dir + k
    BY <1>4 DEF Origen, off
  <2> QED
    BY <1>1, <1>3, <1>4, <2>2, <2>3, <2>4 DEF off
<1>5. CASE ~(l < L)
  <2> DEFINE n == (off + size - 1) \div L
  <2> DEFINE j == l \div L
  <2>1. off + size > L
    BY <1>1, <1>2, <1>3, <1>5
  <2>2. HayPagSig(p, dir, n)
    BY <2>1 DEF LecturaCae, off
  <2>3. n \in Nat /\ j \in Nat /\ l % L \in 0 .. L - 1
    BY <1>1, <1>3, Euclides
  <2>4. j <= n
    <3>1. /\ l = L * j + (l % L)
          /\ off + size - 1 = L * n + ((off + size - 1) % L)
          /\ (off + size - 1) % L \in 0 .. L - 1
      BY <1>1, <1>3, Euclides
    <3> DEFINE a == off + size - 1
    <3> DEFINE r == l % L
    <3> DEFINE s == a % L
    <3>2. l = L * j + r /\ a = L * n + s /\ r \in 0 .. L - 1 /\ s \in 0 .. L - 1 /\ l <= a
      BY <1>3, <2>3, <3>1
    <3> HIDE DEF a, r, s, j, n, l
    <3>3. n < j => L * n + L <= L * j
      BY <1>1, <2>3, ProductoCrece
    <3>4. L * n \in Int /\ L * j \in Int
      BY <1>1, <2>3
    <3> QED
      BY <1>1, <2>3, <3>2, <3>3, <3>4
  <2>5. HayPagSig(p, dir, j) /\ PagesOf(p)[PagSig(p, dir, j)].frame_ppal \in Frames
    <3>1. j \in 0 .. n
      BY <2>3, <2>4
    <3>2. PagesOf(p)[PagSig(p, dir, j)].frame_ppal \in Frames
          /\ PagSig(p, dir, j) \in 1 .. Len(PagesOf(p))
      BY <2>2, <2>3, <3>1, LaQueSigue
    <3>3. Len(PagesOf(p)) \in Nat
      BY PagesOfType
    <3>4. PagSig(p, dir, j) <= Len(PagesOf(p))
      BY <3>2, <3>3
    <3> QED
      BY <2>2, <3>2, <3>4 DEF HayPagSig
  <2>6. Origen(p, dir, k) = PagesOf(p)[PagSig(p, dir, j)].frame_ppal * L + (l % L)
    BY <1>5 DEF Origen, off, RecalcularDireccion
  <2>7. Origen(p, dir, k) \in Direcciones
    BY <2>3, <2>5, <2>6, EnElMarco
  <2> QED
    BY <1>1, <1>3, <2>5, <2>7 DEF off
<1> QED
  BY <1>4, <1>5

LEMMA BytesLeidos ==
    ASSUME PaginacionTypeOK, mainMemory \in [Direcciones -> Byte], NEW p \in Pids, NEW dir,
           NEW size \in Nat, ~LecturaCae(p, dir, size)
    PROVE  Leida(p, dir, size) \in Seq(Byte) /\ Len(Leida(p, dir, size)) = size
<1>1. ASSUME NEW k \in 1 .. size PROVE mainMemory[Origen(p, dir, k - 1)] \in Byte
  <2>1. k - 1 \in 0 .. size - 1
    OBVIOUS
  <2> QED
    BY <2>1, LoQueSeLee
<1> DEFINE g(k) == mainMemory[Origen(p, dir, k - 1)]
<1>2. \A k \in 1 .. size : g(k) \in Byte
  BY <1>1
<1>3. Leida(p, dir, size) = [k \in 1 .. size |-> g(k)]
  BY DEF Leida
<1> HIDE DEF g
<1>4. [k \in 1 .. size |-> g(k)] \in Seq(Byte) /\ Len([k \in 1 .. size |-> g(k)]) = size
  BY <1>2
<1> QED
  BY <1>3, <1>4

LEMMA Ultimo ==
    ASSUME NEW n \in Nat, NEW T \in SUBSET (0 .. n - 1), T # {}
    PROVE  \E x \in T : \A y \in T : y <= x
<1> DEFINE U == {n - y : y \in T}
<1>1. U \in SUBSET Nat /\ U # {}
  <2>1. \A y \in T : n - y \in Nat
    OBVIOUS
  <2> QED
    BY <2>1
<1>2. PICK u \in U : \A v \in U : u <= v
  <2> HIDE DEF U
  <2> QED
    BY <1>1, MinDeNaturales
<1>3. PICK x \in T : u = n - x
  BY <1>2
<1>4. ASSUME NEW y \in T PROVE y <= x
  <2>1. n - x <= n - y
    BY <1>2, <1>3
  <2> QED
    BY <2>1
<1> QED
  BY <1>4

\* The memory holds bytes after a write of bytes.
LEMMA AlEscribirBytes ==
    ASSUME mainMemory \in [Direcciones -> Byte], NEW p, NEW dir, NEW s \in Seq(Byte)
    PROVE  Escrita(p, dir, s) \in [Direcciones -> Byte]
<1> DEFINE ks(x) == {k \in 0 .. Len(s) - 1 : Destino(p, dir, k) = x}
<1> DEFINE ult(x) == CHOOSE k \in ks(x) : \A j \in ks(x) : j <= k
<1>1. ASSUME NEW x, ks(x) # {} PROVE s[1 + ult(x)] \in Byte
  <2>1. Len(s) \in Nat /\ ks(x) \in SUBSET (0 .. Len(s) - 1)
    OBVIOUS
  <2>2. \E k \in ks(x) : \A j \in ks(x) : j <= k
    BY <1>1, <2>1, Ultimo
  <2>3. ult(x) \in ks(x)
    <3> HIDE DEF ks
    <3> QED
      BY <2>2
  <2>4. ult(x) \in 0 .. Len(s) - 1
    BY <2>1, <2>3
  <2> HIDE DEF ult
  <2>5. 1 + ult(x) \in 1 .. Len(s)
    BY <2>1, <2>4
  <2> QED
    BY <2>5, DeLaSecuencia
<1> DEFINE f(x) == IF ks(x) = {} THEN mainMemory[x] ELSE s[1 + ult(x)]
<1>2. \A x \in Direcciones : f(x) \in Byte
  BY <1>1
<1>3. Escrita(p, dir, s) = [x \in Direcciones |-> f(x)]
  BY DEF Escrita
<1> HIDE DEF f
<1> QED
  BY <1>2, <1>3

\* And what is written is bytes.
LEMMA BytesDeMas ==
    ASSUME NEW s \in Seq(Byte), NEW n \in Nat, NEW t \in Desborde(s, n)
    PROVE  t \in Seq(Byte)
<1>1. Len(s) \in Nat /\ Basura \subseteq Byte
  BY ConstantesDelEspacio
<1>2. CASE n <= Len(s)
  <2>1. t = SubSeq(s, 1, n)
    BY <1>2 DEF Desborde
  <2> HIDE DEF Byte
  <2> QED
    BY <1>1, <1>2, <2>1
<1>3. CASE ~(n <= Len(s))
  <2>1. PICK u \in [1 .. n - Len(s) -> Basura] : t = s \o u
    BY <1>3 DEF Desborde
  <2>2. n - Len(s) \in Nat
    BY <1>1, <1>3
  <2>3. u \in [1 .. n - Len(s) -> Byte]
    BY <1>1, <2>1
  <2>4. u \in Seq(Byte)
    BY <2>2, <2>3
  <2> QED
    BY <2>1, <2>4
<1> QED
  BY <1>2, <1>3

LEMMA AlLlenar ==
    ASSUME mainMemory \in [Direcciones -> Byte], NEW p, NEW bytes, LlenarPaginas(p, bytes)
    PROVE  mainMemory' \in [Direcciones -> Byte]
<1>1. Basura \subseteq Byte /\ Asterisco \in Byte
  BY ConstantesDelEspacio
<1>2. \E f : mainMemory' = [x \in Direcciones |-> f[x]]
             /\ \A x \in Direcciones : f[x] \in Byte
  <2> DEFINE nuevas == PaginasNuevas(p)
  <2> DEFINE En(x) == {i \in 1 .. Len(nuevas) : nuevas[i].frame_ppal = NumeroDeMarco(x)}
  <2> DEFINE Byte0(x) == ((CHOOSE i \in En(x) : TRUE) - 1) * PageLength + Desplazamiento(x)
  <2>1. PICK sobra \in Sobra, b \in Basura :
          mainMemory' = [x \in Direcciones |->
              IF En(x) # {} /\ Byte0(x) < Pedido(p, bytes) THEN Asterisco
              ELSE IF En(x) # {} /\ Byte0(x) < Pedido(p, bytes) + sobra THEN b
              ELSE mainMemory[x]]
    BY DEF LlenarPaginas
  <2> DEFINE A(x) == En(x) # {} /\ Byte0(x) < Pedido(p, bytes)
  <2> DEFINE B(x) == En(x) # {} /\ Byte0(x) < Pedido(p, bytes) + sobra
  <2>2. mainMemory' = [x \in Direcciones |-> IF A(x) THEN Asterisco ELSE IF B(x) THEN b
                                             ELSE mainMemory[x]]
    BY <2>1
  <2> HIDE DEF A, B
  <2>3. \A x \in Direcciones : mainMemory'[x] \in Byte
    BY <1>1, <2>2
  <2>4. mainMemory' = [x \in Direcciones |-> mainMemory'[x]]
    BY <2>2
  <2> QED
    BY <2>3, <2>4
<1> QED
  BY <1>2

-------------------------------------------------------------------------------
(* The memory attends a connection. *)

LEMMA LosQueQuedan ==
    ASSUME AccesosInv, NEW c \in Conexiones, MemoriaAtiende(c)
    PROVE  /\ UNCHANGED <<planVars, interfazVars, info, vuelve, cpu, desalojos, registros>>
           /\ \A d \in Conexiones : Elementos(aMemoria'[d]) \subseteq Elementos(aMemoria[d])
           /\ aMemoria["CPU"] = <<>> => aMemoria'["CPU"] = <<>>
           /\ c # "CPU" => deMemoria'["CPU"] = deMemoria["CPU"]
           /\ c # "CPU" => aMemoria'["CPU"] = aMemoria["CPU"]
<1>1. UNCHANGED <<planVars, interfazVars, info, vuelve, cpu, desalojos, registros>>
  BY DEF MemoriaAtiende, FueraDeLaMemoria
<1>2. Forma /\ "CPU" \in Conexiones
  BY LosNombres DEF AccesosInv, MarcosInv, DialogoInv
<1>3. Atiende(c) /\ OtrosPedidos(c) /\ OtrasRespuestas(c)
  BY <1>2, PasosDeMemoria DEF AtiendeSolo
<1>4. EsSeq(aMemoria[c])
  BY <1>2 DEF Forma
<1>5. \/ aMemoria'[c] = aMemoria[c]
      \/ aMemoria[c] # <<>> /\ aMemoria'[c] = Tail(aMemoria[c])
  BY <1>3 DEF Atiende
<1>6. Elementos(aMemoria'[c]) \subseteq Elementos(aMemoria[c])
  BY <1>4, <1>5, ElementosAlSacar
<1>7. \A d \in Conexiones : d # c => aMemoria'[d] = aMemoria[d] /\ deMemoria'[d] = deMemoria[d]
  BY <1>3 DEF OtrosPedidos, OtrasRespuestas
<1> QED
  BY <1>1, <1>2, <1>5, <1>6, <1>7

\* What is attended was well made.
LEMMA LaPrimeraEsta ==
    ASSUME AccesosInv, NEW c \in Conexiones, aMemoria[c] # <<>>
    PROVE  /\ BienHecho(Head(aMemoria[c]))
           /\ c = "CPU" => DeLaCpu(Head(aMemoria[c]))
           /\ c \in Interfaces => DeLaInterfaz(c, Head(aMemoria[c]))
<1>1. Forma /\ Preguntas
  BY DEF AccesosInv, MarcosInv, DialogoInv
<1>2. Head(aMemoria[c]) \in Elementos(aMemoria[c])
  BY <1>1, ElementosAlSacar DEF Forma
<1>3. c \in {"KERNEL", "CPU"} \cup Interfaces
  BY ConstantesDeEjecucion
<1> QED
  BY <1>1, <1>2, <1>3 DEF Preguntas, DelKernel, DeLaCpu, DeLaInterfaz

LEMMA LeidoBien ==
    ASSUME AccesosInv, NEW m, BienHecho(m), NEW dir, PuedeLeer(m, dir)
    PROVE  Leida(m.pid, dir, m.largo) \in Seq(Byte) /\ Len(Leida(m.pid, dir, m.largo)) = m.largo
<1>1. PICK p \in Pids, n \in Nat : p = m.pid /\ n = m.largo
  BY DEF BienHecho
<1>2. PaginacionTypeOK /\ mainMemory \in [Direcciones -> Byte]
  BY DEF AccesosInv, MarcosInv, IInv
<1>3. ~LecturaCae(p, dir, n)
  BY <1>1 DEF PuedeLeer
<1> QED
  BY <1>1, <1>2, <1>3, BytesLeidos

LEMMA EscritoBien ==
    ASSUME AccesosInv, NEW m, NEW s \in Seq(Byte), Escribir(m, s)
    PROVE  mainMemory' \in [Direcciones -> Byte]
<1>1. mainMemory \in [Direcciones -> Byte]
  BY DEF AccesosInv
<1>2. mainMemory' = mainMemory \/ mainMemory' = Escrita(m.pid, m.dir, s)
  BY DEF Escribir
<1>3. Escrita(m.pid, m.dir, s) \in [Direcciones -> Byte]
  BY <1>1, AlEscribirBytes
<1> QED
  BY <1>1, <1>2, <1>3

\* The memory is made of bytes.
LEMMA SigueEnBytes ==
    ASSUME AccesosInv, NEW c \in Conexiones, MemoriaAtiende(c)
    PROVE  mainMemory' \in [Direcciones -> Byte]
<1> DEFINE m == Head(aMemoria[c])
<1>1. mainMemory \in [Direcciones -> Byte] /\ Base \in Nat \ {0} /\ 0 \in Byte
      /\ \A x \in Int : x % Base \in Byte
  BY LosAnchos DEF AccesosInv, Byte
<1>2. CASE mainMemory' = mainMemory
  BY <1>1, <1>2
<1>3. CASE AtenderResize(c)
  <2>1. LlenarPaginas(m.pid, m.largo)
    BY <1>3 DEF AtenderResize, ResizeYLlenar
  <2> QED
    BY <1>1, <2>1, AlLlenar
<1>4. CASE AtenderMoveOut(c)
  <2>1. aMemoria[c] # <<>> /\ m.op = "MOVE_OUT"
    BY <1>4 DEF AtenderMoveOut, Pide
  <2>2. PICK s \in Desborde(<<m.dato % Base>>, m.largo) : Escribir(m, s)
    BY <1>4 DEF AtenderMoveOut
  <2>3. m.largo \in Nat /\ m.dato \in Int
    BY <2>1, LaPrimeraEsta DEF BienHecho
  <2>4. m.dato % Base \in Byte
    BY <1>1, <2>3
  <2>5. <<m.dato % Base>> \in Seq(Byte)
    BY <2>4
  <2>6. s \in Seq(Byte)
    BY <2>2, <2>3, <2>5, BytesDeMas
  <2> QED
    BY <2>2, <2>6, EscritoBien
<1>5. CASE AtenderCopyString(c)
  <2> DEFINE l == Leida(m.pid, m.dato, m.largo)
  <2>1. aMemoria[c] # <<>> /\ PuedeLeer(m, m.dato) /\ Escribir(m, Cadena(l))
    BY <1>5 DEF AtenderCopyString, Pide
  <2>2. l \in Seq(Byte)
    BY <2>1, LaPrimeraEsta, LeidoBien
  <2>3. Cadena(l) \in Seq(Byte)
    BY <2>2, UnaCadena
  <2> QED
    BY <2>1, <2>3, EscritoBien
<1>6. CASE AtenderStdinRead(c)
  <2>1. aMemoria[c] # <<>> /\ m.op = "IO_STDIN_READ" /\ Escribir(m, m.dato)
    BY <1>6 DEF AtenderStdinRead, Pide
  <2>2. m.dato \in Seq(Byte)
    BY <2>1, LaPrimeraEsta DEF BienHecho
  <2> QED
    BY <2>1, <2>2, EscritoBien
<1>7. CASE MemoriaEscribeLoLeido(c)
  <2>1. PICK s : AtenderFsRead(c, s)
    BY <1>7 DEF MemoriaEscribeLoLeido
  <2>2. /\ aMemoria[c] # <<>> /\ m.op = "FS_READ" /\ Escribir(m, s)
        /\ s \in Desborde(Append(m.dato, 0), m.largo)
    BY <2>1 DEF AtenderFsRead, Pide
  <2>3. m.dato \in Seq(Byte) /\ m.largo \in Nat
    BY <2>2, LaPrimeraEsta DEF BienHecho
  <2>4. Append(m.dato, 0) \in Seq(Byte)
    BY <1>1, <2>3
  <2>5. s \in Seq(Byte)
    BY <2>2, <2>3, <2>4, BytesDeMas
  <2> QED
    BY <2>2, <2>5, EscritoBien
<1>8. \/ mainMemory' = mainMemory \/ AtenderResize(c) \/ AtenderMoveOut(c)
      \/ AtenderCopyString(c) \/ AtenderStdinRead(c) \/ MemoriaEscribeLoLeido(c)
  BY DEF MemoriaAtiende, MemoriaALaCpu, MemoriaALaInterfaz, AtenderALaCpu, AtenderALaInterfaz,
     CargarPrograma, DarInstruccion, FinDelArreglo, SinArreglo, AccesoIndebido, Caida,
     AtenderSolicitudFrame, AtenderMoveIn, AtenderWrite, AtenderFsWrite, WriteSinTabla
<1> QED
  BY <1>2, <1>3, <1>4, <1>5, <1>6, <1>7, <1>8

\* A question of the CPU is the only thing on its connection, and what it waits for.
LEMMA LaPregunta ==
    ASSUME AccesosInv, aMemoria["CPU"] # <<>>, Head(aMemoria["CPU"]).op \in Sincronicos
    PROVE  /\ deMemoria["CPU"] = <<>> /\ Tail(aMemoria["CPU"]) = <<>>
           /\ DeLaCpu(Head(aMemoria["CPU"]))
           /\ Head(aMemoria["CPU"]).op =
                (CASE cpu.fase = "instruccion" -> "REQUESTINSTRUCTIONS"
                   [] cpu.fase = "frame" -> "SOLICITUD_FRAME"
                   [] cpu.fase = "dato" -> "MOVE_IN"
                   [] cpu.fase = "okey" -> "RESIZE"
                   [] OTHER -> "")
           /\ cpu.fase \in {"instruccion", "frame", "dato", "okey"}
<1> DEFINE c == "CPU"
<1> DEFINE m == Head(aMemoria[c])
<1>1. Forma /\ DialogoConLaMemoria /\ c \in Conexiones /\ c \notin Interfaces
  BY LosNombres DEF AccesosInv, MarcosInv, DialogoInv
<1>2. EsSeq(aMemoria[c]) /\ EnDialogo(aMemoria[c], deMemoria[c], Espera(c), TipoEsperado(c))
  BY <1>1 DEF DialogoConLaMemoria, Forma
<1>3. /\ Espera(c) /\ deMemoria[c] = <<>> /\ Tail(aMemoria[c]) = <<>>
      /\ Tipo(m.op) = TipoEsperado(c)
  <2> DEFINE q == aMemoria[c]
  <2> DEFINE r == deMemoria[c]
  <2> DEFINE n == [tipo |-> Tipo(Head(q).op), dato |-> 0]
  <2>1. /\ EsSeq(q) /\ q # <<>> /\ EnDialogo(q, r, Espera(c), TipoEsperado(c))
        /\ Head(q).op \in Sincronicos
    BY <1>2
  <2>2. /\ Espera(c) /\ r = <<>> /\ Tail(q) = <<>>
        /\ EnDialogo(Tail(q), Append(r, n), Espera(c), TipoEsperado(c))
    BY <2>1, Contesta
  <2>3. n.tipo = Tipo(Head(q).op)
    OBVIOUS
  <2> HIDE DEF q, r, n
  <2>4. Len(Append(r, n)) = 1 /\ Append(r, n)[1] = n /\ Append(r, n) # <<>>
    BY <2>2, VaciaEsSeq, AlAgregar
  <2>5. Append(r, n)[1].tipo = TipoEsperado(c)
    BY <2>2, <2>4 DEF EnDialogo
  <2> QED
    BY <2>2, <2>3, <2>4, <2>5 DEF q, r
<1>4. DeLaCpu(m)
  BY <1>1, LaPrimeraEsta
<1>5. cpu.fase \in {"instruccion", "frame", "dato", "okey"}
  BY <1>1, <1>3 DEF Espera
<1>6. m.op = "REQUESTINSTRUCTIONS" <=> cpu.fase = "instruccion"
  <2>1. m.op \in {"REQUESTINSTRUCTIONS", "RESIZE", "SOLICITUD_FRAME", "MOVE_IN", "MOVE_OUT",
                  "COPY_STRING"}
    BY <1>4 DEF DeLaCpu
  <2>2. Tipo(m.op) = (IF cpu.fase = "instruccion" THEN "INSTRUCCION" ELSE "NUMERO")
    BY <1>3 DEF TipoEsperado
  <2> QED
    BY <2>1, <2>2 DEF Tipo
<1>7. /\ cpu.fase = "frame" => m.op = "SOLICITUD_FRAME"
      /\ cpu.fase = "dato" => m.op = "MOVE_IN"
      /\ cpu.fase = "okey" => m.op = "RESIZE"
  BY <1>4 DEF DeLaCpu
<1> QED
  BY <1>3, <1>4, <1>5, <1>6, <1>7

\* The answer to it is what the CPU will receive.
LEMMA LaContestacion ==
    ASSUME AccesosInv, aMemoria["CPU"] # <<>>, Head(aMemoria["CPU"]).op \in Sincronicos,
           NEW d, Responder("CPU", d), mudas' = mudas
    PROVE  /\ deMemoria'["CPU"] # <<>> /\ Recibido' = d /\ aMemoria'["CPU"] = <<>>
           /\ OtrosPedidos("CPU")
<1> DEFINE c == "CPU"
<1> DEFINE n == [tipo |-> Tipo(Head(aMemoria[c]).op), dato |-> d]
<1>1. Forma /\ c \in Conexiones
  BY LosNombres DEF AccesosInv, MarcosInv, DialogoInv
<1>2. deMemoria[c] = <<>> /\ Tail(aMemoria[c]) = <<>>
  BY LaPregunta
<1>3. deMemoria'[c] = Append(deMemoria[c], n)
  BY <1>1, AlResponder
<1>4. aMemoria'[c] = Tail(aMemoria[c]) /\ OtrosPedidos(c)
  BY <1>1, AlSacarUno DEF Responder
<1>5. n.dato = d
  OBVIOUS
<1> HIDE DEF n
<1>6. Append(<<>>, n) = <<n>> /\ Head(<<n>>) = n /\ <<n>> # <<>>
  OBVIOUS
<1> QED
  BY <1>2, <1>3, <1>4, <1>5, <1>6 DEF Recibido

\* What the CPU is answered is what it asked for.
LEMMA ContestaBien ==
    ASSUME AccesosInv, MemoriaALaCpu, UNCHANGED <<cpu, registros>>
    PROVE  Contestado'
<1> DEFINE c == "CPU"
<1> DEFINE m == Head(aMemoria[c])
<1>1. /\ Preguntas /\ Contestado /\ MarcosInv /\ Mensajes
      /\ c \in Conexiones /\ PaginacionTypeOK
  BY LosNombres DEF AccesosInv, Preguntas, MarcosInv, IInv
<1>2. CASE deMemoria' = deMemoria /\ pageTable' = pageTable
  BY <1>1, <1>2, ContestadoQuieto
<1>3. CASE DarInstruccion(c)
  <2> DEFINE d == pseudocodigo[instructions][m.dato + 1]
  <2>1. /\ aMemoria[c] # <<>> /\ m.op = "REQUESTINSTRUCTIONS"
        /\ mudas' = mudas /\ Responder(c, d)
        /\ instructions # NULL /\ m.dato + 1 \in DOMAIN pseudocodigo[instructions]
    BY <1>3 DEF DarInstruccion, Pide
  <2>2. m.op \in Sincronicos
    BY <2>1 DEF Sincronicos
  <2>3. cpu.fase = "instruccion"
    BY <2>1, <2>2, LaPregunta
  <2>4. BienEscrita(d)
    BY <1>1, <2>1, ProgramasBienEscritos DEF Mensajes
  <2>5. Recibido' = d
    BY <2>1, <2>2, LaContestacion
  <2>6. BienEscrita(Recibido)'
    BY <2>4, <2>5 DEF BienEscrita
  <2> QED
    BY <2>3, <2>6 DEF Contestado
<1>4. CASE AtenderSolicitudFrame(c)
  <2> DEFINE d == GetFrame(m.pid, m.dato)
  <2>1. /\ aMemoria[c] # <<>> /\ m.op = "SOLICITUD_FRAME" /\ mudas' = mudas /\ Responder(c, d)
    BY <1>4 DEF AtenderSolicitudFrame, Pide
  <2>2. m.op \in Sincronicos
    BY <2>1 DEF Sincronicos
  <2>3. cpu.fase = "frame" /\ DeLaCpu(m)
    BY <2>1, <2>2, LaPregunta
  <2>4. m.pid = cpu.pid /\ m.dato = ParteActual.dir \div PageLength
    BY <2>2, <2>3 DEF DeLaCpu
  <2>5. Recibido' = d
    BY <2>1, <2>2, LaContestacion
  <2>6. ParteActual' = ParteActual /\ pageTable' = pageTable
    BY <1>4 DEF ParteActual, LasPartes, AtenderSolicitudFrame, SinCambiarPaginas
  <2>7. GetFrame(cpu.pid, ParteActual.dir \div PageLength)'
          = GetFrame(cpu.pid, ParteActual.dir \div PageLength)
    BY <2>6 DEF GetFrame, PagesOf
  <2>8. Recibido' = GetFrame(cpu.pid, ParteActual.dir \div PageLength)'
    BY <2>4, <2>5, <2>7
  <2> QED
    BY <2>3, <2>8 DEF Contestado
<1>5. CASE AtenderMoveIn(c)
  <2> DEFINE s == Leida(m.pid, m.dir, m.largo)
  <2> DEFINE d == CadenaANumero(s)
  <2>1. /\ aMemoria[c] # <<>> /\ m.op = "MOVE_IN" /\ mudas' = mudas /\ Responder(c, d)
        /\ PuedeLeer(m, m.dir)
    BY <1>5 DEF AtenderMoveIn, Pide
  <2>2. m.op \in Sincronicos
    BY <2>1 DEF Sincronicos
  <2>3. cpu.fase = "dato" /\ DeLaCpu(m)
    BY <2>1, <2>2, LaPregunta
  <2>4. BienHecho(m) /\ m.largo \in 1 .. 4
    BY <2>1, <2>3 DEF DeLaCpu, BienHecho
  <2>5. s \in Seq(Byte) /\ Len(s) <= 4
    BY <2>1, <2>4, LeidoBien
  <2>6. d \in 0 .. Entera - 1
    BY <2>5, NumeroDeCadena
  <2>7. Recibido' = d
    BY <2>1, <2>2, LaContestacion
  <2> HIDE DEF d
  <2> QED
    BY <2>3, <2>6, <2>7 DEF Contestado
<1>6. CASE AtenderResize(c)
  <2>1. aMemoria[c] # <<>> /\ m.op = "RESIZE" /\ mudas' = mudas
    BY <1>6 DEF AtenderResize, Pide
  <2>2. CASE deMemoria' = deMemoria
    <3>1. m.op \in Sincronicos
      BY <2>1 DEF Sincronicos
    <3>2. deMemoria[c] = <<>>
      BY <2>1, <3>1, LaPregunta
    <3> QED
      BY <2>2, <3>2 DEF Contestado
  <2>3. CASE ~crashed' /\ Responder(c, answer'.okey)
    <3>1. m.op \in Sincronicos
      BY <2>1 DEF Sincronicos
    <3>2. cpu.fase = "okey"
      BY <2>1, <3>1, LaPregunta
    <3>3. answer'.okey \in {0, 1}
      <4>1. Resize(m.pid, m.largo)
        BY <1>6 DEF AtenderResize, ResizeYLlenar
      <4>2. AnswerResize(m.pid, m.largo, 0) \/ AnswerResize(m.pid, m.largo, 1)
        BY <2>3, <4>1, Zenon DEF Resize, CreateTable, CreateNothing, CreateFromNull, SameSize,
           Enlarge, OutOfMemory, Reduce
      <4> QED
        BY <4>2 DEF AnswerResize
    <3>4. Recibido' = answer'.okey
      BY <2>1, <2>3, <3>1, LaContestacion
    <3> QED
      BY <3>2, <3>3, <3>4 DEF Contestado
  <2> QED
    BY <1>6, <2>2, <2>3 DEF AtenderResize
<1>7. \/ deMemoria' = deMemoria /\ pageTable' = pageTable
      \/ DarInstruccion(c) \/ AtenderSolicitudFrame(c) \/ AtenderMoveIn(c) \/ AtenderResize(c)
  BY DEF MemoriaALaCpu, AtenderALaCpu, FinDelArreglo, SinArreglo, AccesoIndebido, Caida,
     AtenderMoveOut, AtenderCopyString, Callar, SinCambiarPaginas
<1> QED
  BY <1>2, <1>3, <1>4, <1>5, <1>6, <1>7

\* Only the pages of the process that asks for a RESIZE change: it is the one that
\* runs, it waits for the answer, and nothing of it is left to be attended.
LEMMA SoloElQuePide ==
    ASSUME AccesosInv, AtenderResize("CPU"), UNCHANGED <<estado, info>>
    PROVE  \/ pageTable' = pageTable
           \/ /\ cpu.fase = "okey" /\ SoloElProceso(cpu.pid) /\ aMemoria'["CPU"] = <<>>
<1> DEFINE c == "CPU"
<1> DEFINE m == Head(aMemoria[c])
<1>1. /\ aMemoria[c] # <<>> /\ m.op = "RESIZE" /\ Resize(m.pid, m.largo) /\ mudas' = mudas
      /\ crashed' \/ Responder(c, answer'.okey)
  BY DEF AtenderResize, ResizeYLlenar, Pide
<1>2. m.op \in Sincronicos
  BY <1>1 DEF Sincronicos
<1>3. cpu.fase = "okey" /\ DeLaCpu(m)
  BY <1>1, <1>2, LaPregunta
<1>4. PICK p \in Pids : p = m.pid /\ p = cpu.pid
  BY <1>2, <1>3 DEF DeLaCpu, BienHecho
<1>5. CASE crashed'
  <2>1. pageTable' = pageTable
    BY <1>1, <1>5, Zenon DEF Resize, CreateTable, CreateNothing, CreateFromNull, SameSize, Enlarge,
       OutOfMemory, Reduce
  <2> QED
    BY <2>1
<1>6. CASE Responder(c, answer'.okey)
  <2>1. aMemoria'[c] = <<>>
    BY <1>1, <1>2, <1>6, LaContestacion
  <2>2. \/ pageTable' = pageTable
        \/ \E t : pageTable' = [pageTable EXCEPT ![p] = t]
    BY <1>1, <1>4, Zenon DEF Resize, CreateTable, CreateNothing, CreateFromNull, SameSize,
       Enlarge, OutOfMemory, Reduce, FreePagesFromTheEnd
  <2>3. pageTable \in [Pids -> Tabla \cup {NULL}]
    BY DEF AccesosInv, MarcosInv, IInv, PaginacionTypeOK
  <2>4. \A q \in Pids \ {p} : pageTable'[q] = pageTable[q]
    BY <2>2, <2>3
  <2>5. SoloElProceso(p)
    BY <2>4 DEF SoloElProceso, PagesOf
  <2> QED
    BY <1>3, <1>4, <2>1, <2>5
<1> QED
  BY <1>1, <1>5, <1>6

LEMMA AccesosDeMemoria ==
    ASSUME AccesosInv, NEW c \in Conexiones, MemoriaAtiende(c)
    PROVE  Preguntas' /\ EnCurso' /\ Lugares'
<1>1. /\ \A d \in Conexiones : Elementos(aMemoria'[d]) \subseteq Elementos(aMemoria[d])
      /\ aMemoria["CPU"] = <<>> => aMemoria'["CPU"] = <<>>
      /\ c # "CPU" => deMemoria'["CPU"] = deMemoria["CPU"]
      /\ c # "CPU" => aMemoria'["CPU"] = aMemoria["CPU"]
      /\ UNCHANGED <<estado, queueReadys, paramsIo, aInterfaz, deInterfaz, interfaz, info,
                      vuelve, cpu, registros>>
  BY LosQueQuedan DEF planVars, interfazVars
<1>2. /\ Preguntas /\ EnCurso /\ MarcosInv /\ Lugares
      /\ "CPU" \in Conexiones /\ "KERNEL" \in Conexiones /\ Interfaces \subseteq Conexiones
      /\ NULL \notin Pids
  BY LosNombres, ConstantesDeEjecucion DEF AccesosInv
<1>3. /\ cpu.fase # "libre" => cpu.pid \in Pids
      /\ queueReadys \in Seq(Pids)
  BY <1>2 DEF MarcosInv, Procesos
<1> DEFINE Quietas == pageTable' = pageTable
<1> DEFINE Pide0 == cpu.fase = "okey" /\ SoloElProceso(cpu.pid) /\ aMemoria'["CPU"] = <<>>
<1>4. Quietas \/ Pide0
  <2>1. pageTable' = pageTable \/ (c = "CPU" /\ AtenderResize(c))
    BY DEF MemoriaAtiende, MemoriaALaCpu, MemoriaALaInterfaz, AtenderALaCpu, AtenderALaInterfaz,
       CargarPrograma, DarInstruccion, FinDelArreglo, SinArreglo, AccesoIndebido, Caida,
       AtenderSolicitudFrame, AtenderMoveIn, AtenderMoveOut, AtenderCopyString, AtenderStdinRead,
       AtenderWrite, AtenderFsWrite, WriteSinTabla, MemoriaEscribeLoLeido, AtenderFsRead,
       SinCambiarPaginas
  <2> QED
    BY <1>1, <2>1, SoloElQuePide
<1>5. Contestado'
  <2>1. CASE c = "CPU" /\ MemoriaALaCpu
    BY <1>1, <2>1, ContestaBien
  <2>2. CASE c # "CPU"
    <3>1. Quietas
      BY <2>2 DEF MemoriaAtiende, MemoriaALaInterfaz, AtenderALaInterfaz,
       CargarPrograma, AccesoIndebido, Caida, AtenderStdinRead,
       AtenderWrite, AtenderFsWrite, WriteSinTabla, MemoriaEscribeLoLeido, AtenderFsRead,
       SinCambiarPaginas
    <3> QED
      BY <1>1, <1>2, <2>2, <3>1, ContestadoQuieto DEF Preguntas
  <2>3. c = "CPU" => MemoriaALaCpu
    BY LosNombres DEF MemoriaAtiende
  <2> QED
    BY <2>1, <2>2, <2>3
<1>6. (\A m \in Elementos(aMemoria["KERNEL"]) : DelKernel(m))'
  <2>1. ASSUME NEW m \in Elementos(aMemoria["KERNEL"]) PROVE DelKernel(m)'
    BY <1>2, PedidoDelKernelQuieto DEF Preguntas
  <2> QED
    BY <1>1, <1>2, <2>1
<1>7. (\A m \in Elementos(aMemoria["CPU"]) : DeLaCpu(m))'
  <2>1. CASE Pide0
    BY <2>1, SinElementos
  <2>2. CASE Quietas
    <3>1. ASSUME NEW m \in Elementos(aMemoria["CPU"]) PROVE DeLaCpu(m)'
      <4>1. DeLaCpu(m)
        BY <1>2 DEF Preguntas
      <4>2. m.op \in {"MOVE_OUT", "COPY_STRING"}
              => estado'[m.pid] \in {"READY", "EXEC"} /\ info'[m.pid] = NULL
        BY <1>1, <4>1 DEF DeLaCpu
      <4> QED
        BY <1>1, <2>2, <4>1, <4>2, PedidoDeCpuQuieto
    <3> QED
      BY <1>1, <1>2, <3>1
  <2> QED
    BY <1>4, <2>1, <2>2
<1>8. (\A i \in Interfaces : \A m \in Elementos(aMemoria[i]) : DeLaInterfaz(i, m))'
  <2>1. ASSUME NEW i \in Interfaces, NEW m \in Elementos(aMemoria[i]) PROVE DeLaInterfaz(i, m)'
    <3>1. DeLaInterfaz(i, m)
      BY <1>2 DEF Preguntas
    <3> QED
      BY <1>1, <3>1, PedidoDeInterfazQuieto
  <2> QED
    BY <1>1, <1>2, <2>1
<1>9. SinDeudas'
  BY <1>1, <1>2 DEF Preguntas, SinDeudas
<1>10. EnCurso'
  <2>1. CASE Pide0
    BY <1>1, <1>2, <2>1 DEF EnCurso
  <2>2. CASE Quietas
    BY <1>1, <1>2, <1>3, <2>2, EnCursoQuieto
  <2> QED
    BY <1>4, <2>1, <2>2
<1>11. CASE Quietas
  <2>1. SoloElProceso(NULL)
    BY <1>1, <1>11, NingunProceso
  <2>2. EnEspera' /\ Listos'
    BY <1>1, <1>2, <1>3, <2>1, EsperaQuieta, ListosQuietos DEF Lugares
  <2>3. EnLaCpu'
    BY <1>1, <1>2, <1>3, <2>1, EnLaCpuQuieta DEF Lugares
  <2>4. (\A p \in Pids : info[p] = NULL \/ ConPedido(p))'
    BY <1>2, <2>1, PedidosQuietos DEF Lugares
  <2>5. Lugares'
    BY <1>1, <1>2, <2>2, <2>3, <2>4 DEF Lugares
  <2> QED
    BY <1>5, <1>6, <1>7, <1>8, <1>9, <1>10, <2>5 DEF Preguntas
<1>12. CASE Pide0
  <2>1. PICK p0 \in Pids : p0 = cpu.pid
    BY <1>3, <1>12
  <2>2. SoloElProceso(p0) /\ estado[p0] = "EXEC" /\ info[p0] = NULL /\ vuelve = NULL
    BY <1>2, <1>12, <2>1 DEF Lugares, EnLaCpu
  <2>3. EnEspera' /\ Listos'
    BY <1>1, <1>2, <1>3, <2>2, EsperaQuieta, ListosQuietos DEF Lugares
  <2>4. EnLaCpu'
    BY <1>1, <1>2, <2>1, <2>2 DEF Lugares, EnLaCpu
  <2>5. (\A p \in Pids : info[p] = NULL \/ ConPedido(p))'
    BY <1>1, <1>2, <2>2, PedidosQuietos DEF Lugares
  <2>6. Lugares'
    BY <1>1, <1>2, <2>3, <2>4, <2>5 DEF Lugares
  <2> QED
    BY <1>5, <1>6, <1>7, <1>8, <1>9, <1>10, <2>6 DEF Preguntas
<1> QED
  BY <1>4, <1>11, <1>12

-------------------------------------------------------------------------------
(* The invariant is inductive. *)

LEMMA AccesosQuietos ==
    ASSUME AccesosInv, UNCHANGED ejecucionVars
    PROVE  Preguntas' /\ EnCurso' /\ Lugares'
<1>1. UNCHANGED <<aMemoria, deMemoria, pageTable, estado, queueReadys, paramsIo, aInterfaz,
                  deInterfaz, interfaz, info, vuelve, cpu, registros>>
  BY DEF ejecucionVars, memoriaVars, paginacionVars, planVars, interfazVars
<1>2. Preguntas /\ EnCurso /\ MarcosInv /\ Lugares /\ NULL \notin Pids
  BY ConstantesDeEjecucion DEF AccesosInv
<1>3. (cpu.fase # "libre" => cpu.pid \in Pids) /\ queueReadys \in Seq(Pids)
  BY <1>2 DEF MarcosInv, Procesos
<1>4. (\A m \in Elementos(aMemoria["KERNEL"]) : DelKernel(m))'
  <2>1. ASSUME NEW m \in Elementos(aMemoria["KERNEL"]) PROVE DelKernel(m)'
    BY <1>2, PedidoDelKernelQuieto DEF Preguntas
  <2> QED
    BY <1>1, <2>1
<1>5. (\A m \in Elementos(aMemoria["CPU"]) : DeLaCpu(m))'
  <2>1. ASSUME NEW m \in Elementos(aMemoria["CPU"]) PROVE DeLaCpu(m)'
    <3>1. DeLaCpu(m)
      BY <1>2 DEF Preguntas
    <3>2. m.op \in {"MOVE_OUT", "COPY_STRING"}
            => estado'[m.pid] \in {"READY", "EXEC"} /\ info'[m.pid] = NULL
      BY <1>1, <3>1 DEF DeLaCpu
    <3> QED
      BY <1>1, <3>1, <3>2, PedidoDeCpuQuieto
  <2> QED
    BY <1>1, <2>1
<1>6. (\A i \in Interfaces : \A m \in Elementos(aMemoria[i]) : DeLaInterfaz(i, m))'
  <2>1. ASSUME NEW i \in Interfaces, NEW m \in Elementos(aMemoria[i]) PROVE DeLaInterfaz(i, m)'
    <3>1. DeLaInterfaz(i, m)
      BY <1>2 DEF Preguntas
    <3> QED
      BY <1>1, <3>1, PedidoDeInterfazQuieto
  <2> QED
    BY <1>1, <2>1
<1>7. Contestado'
  BY <1>1, <1>2, ContestadoQuieto DEF Preguntas
<1>8. SinDeudas'
  BY <1>1, <1>2 DEF Preguntas, SinDeudas
<1>9. EnCurso'
  BY <1>1, <1>2, <1>3, EnCursoQuieto
<1>10. Lugares'
  <2>1. SoloElProceso(NULL)
    BY <1>1, NingunProceso
  <2>2. EnEspera' /\ Listos'
    BY <1>1, <1>2, <1>3, <2>1, EsperaQuieta, ListosQuietos DEF Lugares
  <2>3. EnLaCpu'
    BY <1>1, <1>2, <1>3, <2>1, EnLaCpuQuieta DEF Lugares
  <2>4. (\A p \in Pids : info[p] = NULL \/ ConPedido(p))'
    BY <1>2, <2>1, PedidosQuietos DEF Lugares
  <2> QED
    BY <1>1, <1>2, <2>2, <2>3, <2>4 DEF Lugares
<1> QED
  BY <1>4, <1>5, <1>6, <1>7, <1>8, <1>9, <1>10 DEF Preguntas

LEMMA AccesosAlSeguir ==
    ASSUME AccesosInv, [EjecucionNext]_ejecucionVars
    PROVE  AccesosInv'
<1>1. MarcosInv' /\ MarcosInv /\ Lugares /\ mainMemory \in [Direcciones -> Byte]
  BY MarcosAlSeguir DEF AccesosInv
<1> DEFINE Resto == Preguntas' /\ EnCurso' /\ Lugares' /\ mainMemory' \in [Direcciones -> Byte]
<1>2. SUFFICES Resto
  BY <1>1 DEF AccesosInv
<1>3. CASE Cpu
  <2>1. CpuBien /\ mainMemory' = mainMemory
    BY <1>3, CpuAnda
  <2>2. EnCurso'
    BY <2>1 DEF CpuBien
  <2> QED
    BY <1>1, <1>3, <2>1, <2>2, LugaresDeCpu, PreguntasDeCpu
<1>4. CASE Despachar
  <2>1. mainMemory' = mainMemory
    BY <1>4 DEF Despachar, memoriaVars
  <2> QED
    BY <1>1, <1>4, <2>1, LugaresDeDespachar, AccesosDeDespachar
<1>5. CASE EnviarPrograma
  <2>1. mainMemory' = mainMemory
    BY <1>5 DEF EnviarPrograma, memoriaInterna
  <2> QED
    BY <1>1, <1>5, <2>1, AccesosDeEnviarPrograma
<1>6. CASE RecibirPcb
  <2>1. mainMemory' = mainMemory
    BY <1>6 DEF RecibirPcb, memoriaVars
  <2> QED
    BY <1>1, <1>6, <2>1, LugaresDeRecibirPcb, AccesosDeRecibirPcb
<1>7. CASE IoFunction
  <2>1. mainMemory' = mainMemory
    BY <1>7 DEF IoFunction, memoriaVars
  <2> QED
    BY <1>1, <1>7, <2>1, LugaresDeIoFunction, AccesosDeIoFunction
<1>8. ASSUME NEW i \in Interfaces, TerminarIo(i) PROVE Resto
  <2>1. mainMemory' = mainMemory
    BY <1>8 DEF TerminarIo, memoriaVars
  <2> QED
    BY <1>1, <1>8, <2>1, LugaresDeTerminarIo, AccesosDeTerminarIo
<1>9. ASSUME NEW i \in Interfaces, Interfaz(i) PROVE Resto
  <2>1. mainMemory' = mainMemory
    BY <1>9 DEF Interfaz, memoriaInterna
  <2> QED
    BY <1>1, <1>9, <2>1, LugaresDeInterfaz, AccesosDeInterfaz
<1>10. ASSUME NEW c \in Conexiones, MemoriaAtiende(c) PROVE Resto
  BY <1>10, AccesosDeMemoria, SigueEnBytes
<1>11. CASE UNCHANGED ejecucionVars
  <2>1. mainMemory' = mainMemory
    BY <1>11 DEF ejecucionVars, memoriaVars
  <2> QED
    BY <1>1, <1>11, <2>1, AccesosQuietos
<1> HIDE DEF Resto
<1> QED
  BY <1>3, <1>4, <1>5, <1>6, <1>7, <1>8, <1>9, <1>10, <1>11 DEF EjecucionNext, Paso

\* As many places in the queue as processes, and all of them in it.
LEMMA ColaAlEmpezar ==
    ASSUME queueReadys \in [1 .. Cardinality(Pids) -> Pids],
           \A p \in Pids : \E i \in DOMAIN queueReadys : queueReadys[i] = p
    PROVE  SinRepetir(queueReadys)
<1> DEFINE n == Cardinality(Pids)
<1> DEFINE S == 1 .. n
<1>1. IsFiniteSet(Pids) /\ n \in Nat
  BY ConstantesDeEjecucion, FS_CardinalityType
<1>2. IsFiniteSet(S) /\ Cardinality(S) = n
  <2>1. IsFiniteSet(1 .. n) /\ Cardinality(1 .. n) = (IF 1 > n THEN 0 ELSE n - 1 + 1)
    BY <1>1, FS_Interval
  <2> QED
    BY <1>1, <2>1
<1>3. queueReadys \in Surjection(S, Pids)
  BY DEF Surjection
<1>4. queueReadys \in Injection(S, Pids)
  BY <1>1, <1>2, <1>3, FS_SurjSameCardinalityImpliesInj
<1>5. Len(queueReadys) = n
  BY <1>1
<1> QED
  BY <1>4, <1>5 DEF Injection, IsInjective, SinRepetir

LEMMA AccesosAlEmpezar ==
    ASSUME EjecucionInit
    PROVE  AccesosInv
<1>1. MarcosInv
  BY MarcosAlEmpezar
<1>2. /\ registros = [p \in Pids |-> EnCero] /\ estado = [p \in Pids |-> "READY"]
      /\ info = [p \in Pids |-> NULL] /\ cpu = CpuLibre /\ vuelve = NULL /\ paramsIo = NULL
      /\ aInterfaz = [i \in Interfaces |-> <<>>] /\ deInterfaz = [i \in Interfaces |-> <<>>]
      /\ interfaz = [i \in Interfaces |-> InterfazLibre]
      /\ queueReadys \in [1 .. Cardinality(Pids) -> Pids]
      /\ \A p \in Pids : \E i \in DOMAIN queueReadys : queueReadys[i] = p
  BY DEF EjecucionInit
<1>3. /\ aMemoria = [c \in Conexiones |-> <<>>] /\ deMemoria = [c \in Conexiones |-> <<>>]
      /\ mainMemory = [x \in Direcciones |-> 0]
  BY DEF EjecucionInit, MemoriaInit, EspacioInit
<1>4. \A c \in Conexiones : Elementos(aMemoria[c]) = {} /\ deMemoria[c] = <<>>
  BY <1>3, SinElementos
<1>5. /\ cpu.fase = "libre" /\ cpu.pid = NULL /\ cpu.dirs = <<>> /\ cpu.datos = <<>>
  BY <1>2 DEF CpuLibre
<1>6. Preguntas
  <2>1. Contestado /\ SinDeudas
    BY <1>2, <1>4, LosNombres DEF Contestado, SinDeudas
  <2> QED
    BY <1>4, <2>1, LosNombres DEF Preguntas
<1>7. EnCurso
  <2>1. EnCero \in JuegoDeRegistros
    <3>1. 0 \in 0 .. Entera - 1 /\ 0 \in Byte
      BY LosAnchos DEF Byte
    <3>2. Reg8 \subseteq Reg8 \cup Reg32
      OBVIOUS
    <3> QED
      BY <3>1, <3>2 DEF EnCero, JuegoDeRegistros
  <2>2. registros \in [Pids -> JuegoDeRegistros]
    BY <1>2, <2>1
  <2>3. <<>> \in Seq(Int) /\ <<>> \in Seq(0 .. Entera - 1)
    OBVIOUS
  <2> QED
    BY <1>5, <2>2, <2>3 DEF EnCurso, FasesCpu
<1>8. Lugares
  <2>1. Listos
    <3>1. Elementos(queueReadys) \subseteq Pids
      <4>1. Cardinality(Pids) \in Nat
        BY ConstantesDeEjecucion, FS_CardinalityType
      <4> QED
        BY <1>2, <4>1 DEF Elementos
    <3> QED
      BY <1>2, <3>1, ColaAlEmpezar DEF Listos
  <2>2. EnLaCpu
    BY <1>2, <1>5 DEF EnLaCpu
  <2>3. ASSUME NEW i \in Interfaces PROVE EnEsperaDe(i)
    <3>1. /\ aInterfaz[i] = <<>> /\ deInterfaz[i] = <<>> /\ interfaz[i].fase = "libre"
          /\ Atendido(i) = {} /\ Len(<<>>) = 0 /\ 1 .. 0 = {}
      BY <1>2 DEF InterfazLibre, Atendido
    <3>2. Elementos(<<>>) = {} /\ PidsDe(<<>>) = {} /\ EsSeq(<<>>)
      BY SinElementos, VaciaEsSeq DEF PidsDe
    <3>3. Cola(<<>>, {}, <<>>)
      BY <3>1, <3>2 DEF Cola, SinRepetir
    <3>4. Ocupantes(i) = {}
      BY <3>1, <3>2 DEF Ocupantes
    <3> QED
      BY <3>1, <3>2, <3>3, <3>4 DEF EnEsperaDe
  <2>4. EnEspera
    BY <1>2, <2>3 DEF EnEspera
  <2> QED
    BY <1>2, <2>1, <2>2, <2>4 DEF Lugares, Estados
<1>9. mainMemory \in [Direcciones -> Byte]
  BY <1>3, LosAnchos DEF Byte
<1> QED
  BY <1>1, <1>6, <1>7, <1>8, <1>9 DEF AccesosInv

-------------------------------------------------------------------------------
(* An access through the pages. *)

\* The frame of a physical address is in the table at the page of the logical one.
LEMMA ElLugarDeLaPagina ==
    ASSUME PaginacionTypeOK, MarcosExclusivos, NEW p \in Pids, NEW logica \in Nat,
           logica < CurrentSize(p), NEW dir, dir = Traducida(p, logica)
    PROVE  /\ Desplazamiento(dir) = logica % PageLength
           /\ Lugar(p, dir) = logica \div PageLength + 1
           /\ dir \in Nat
           /\ dir = PagesOf(p)[logica \div PageLength + 1].frame_ppal * PageLength
                      + (logica % PageLength)
<1> DEFINE L == PageLength
<1> DEFINE q == logica \div L
<1> DEFINE r == logica % L
<1> DEFINE f == PagesOf(p)[q + 1].frame_ppal
<1>1. L \in Nat \ {0} /\ CantFrames \in Nat \ {0}
  BY ConstantesDePaginacion
<1>2. q \in Nat /\ r \in 0 .. L - 1
  BY <1>1, Euclides
<1>3. q + 1 \in 1 .. Len(PagesOf(p)) /\ f \in Nat
  BY <1>1, LaPagina DEF Frames
<1>4. dir = f * L + r
  BY DEF Traducida
<1> HIDE DEF q, r, f
<1>5. dir \in Nat /\ dir \div L = f /\ dir % L = r
  BY <1>1, <1>2, <1>3, <1>4, EuclidesUnico
<1>6. \A i \in 1 .. Len(PagesOf(p)) : PagesOf(p)[i].frame_ppal = f <=> i = q + 1
  BY <1>3 DEF MarcosExclusivos, f
<1>7. Lugar(p, dir) = q + 1
  BY <1>3, <1>5, <1>6 DEF Lugar, NumeroDeMarco
<1> QED
  BY <1>4, <1>5, <1>7 DEF Desplazamiento, q, r, f

\* j pages after it, s bytes after its beginning.
LEMMA MasAdelante ==
    ASSUME PaginacionTypeOK, MarcosExclusivos, NEW p \in Pids, NEW logica \in Nat,
           logica < CurrentSize(p), NEW dir, dir = Traducida(p, logica), NEW k \in Nat,
           NEW j \in Nat, NEW s \in 0 .. PageLength - 1,
           (logica % PageLength) + k = PageLength * j + s,
           j = 0 \/ HayPagSig(p, dir, j)
    PROVE  /\ logica + k < CurrentSize(p)
           /\ Traducida(p, logica + k)
                = PagesOf(p)[logica \div PageLength + 1 + j].frame_ppal * PageLength + s
<1> DEFINE L == PageLength
<1> DEFINE q == logica \div L
<1> DEFINE r == logica % L
<1> DEFINE N == Len(PagesOf(p))
<1>1. L \in Nat \ {0} /\ N \in Nat
  BY ConstantesDePaginacion, PagesOfType
<1>2. q \in Nat /\ r \in 0 .. L - 1 /\ logica = L * q + r
  BY <1>1, Euclides
<1>3. q + 1 + j <= N
  <2>1. Lugar(p, dir) = q + 1
    BY ElLugarDeLaPagina
  <2>2. q + 1 \in 1 .. N
    BY LaPagina
  <2> HIDE DEF q, N
  <2> QED
    BY <1>1, <1>2, <2>1, <2>2 DEF HayPagSig, PagSig, N
<1>4. r + k = L * j + s
  OBVIOUS
<1>5. CurrentSize(p) = N * L
  BY DEF CurrentSize
<1> HIDE DEF q, r, N
<1>6. logica + k = (q + j) * L + s
  <2>1. logica + k = L * q + L * j + s
    BY <1>1, <1>2, <1>4
  <2>2. L * q + L * j = (q + j) * L
    BY <1>1, <1>2
  <2> QED
    BY <1>1, <1>2, <2>1, <2>2
<1>7. q + j \in Nat
  BY <1>2
<1>8. /\ logica + k \in Nat /\ (logica + k) \div L = q + j /\ (logica + k) % L = s
  <2> DEFINE t == q + j
  <2> DEFINE d == logica + k
  <2>1. t \in Nat /\ d = t * L + s
    BY <1>6, <1>7
  <2> HIDE DEF t, d, L
  <2>2. t * L + s \in Nat /\ (t * L + s) \div L = t /\ (t * L + s) % L = s
    BY <1>1, <2>1, EuclidesUnico DEF L
  <2> QED
    BY <2>1, <2>2 DEF t, d, L
<1>9. logica + k < N * L
  <2>1. q + j < N
    BY <1>1, <1>2, <1>3
  <2> QED
    BY <1>1, <1>8, <2>1, EnLasPaginas
<1>10. q + j + 1 = q + 1 + j
  BY <1>2
<1> QED
  BY <1>5, <1>8, <1>9, <1>10 DEF Traducida, q

LEMMA LeeLoQueNombra ==
    ASSUME PaginacionTypeOK, MarcosExclusivos, NEW p \in Pids, NEW logica \in Nat,
           logica < CurrentSize(p), NEW dir, dir = Traducida(p, logica),
           NEW n \in Nat, ~LecturaCae(p, dir, n), NEW k \in 0 .. n - 1
    PROVE  logica + k < CurrentSize(p) /\ Origen(p, dir, k) = Traducida(p, logica + k)
<1> DEFINE L == PageLength
<1> DEFINE q == logica \div L
<1> DEFINE r == logica % L
<1> DEFINE l == r + k
<1>1. L \in Nat \ {0} /\ q \in Nat /\ r \in 0 .. L - 1
  BY ConstantesDePaginacion, Euclides
<1>2. /\ Desplazamiento(dir) = r /\ Lugar(p, dir) = q + 1 /\ dir \in Nat
      /\ dir = PagesOf(p)[q + 1].frame_ppal * L + r
  BY ElLugarDeLaPagina
<1>3. PagesOf(p)[q + 1].frame_ppal \in Nat
  BY LaPagina, ConstantesDePaginacion DEF Frames
<1>4. l \in Nat /\ (l < L \/ HayPagSig(p, dir, l \div L))
  BY <1>2, LoQueSeLee
<1>5. CASE l < L
  <2>1. l \in 0 .. L - 1 /\ r + k = L * 0 + l /\ k \in Nat
    BY <1>1, <1>4, <1>5
  <2>2. /\ logica + k < CurrentSize(p)
        /\ Traducida(p, logica + k) = PagesOf(p)[q + 1 + 0].frame_ppal * L + l
    <3> HIDE DEF l
    <3> QED
      BY <2>1, MasAdelante
  <2>3. q + 1 + 0 = q + 1
    BY <1>1
  <2>4. dir + k = PagesOf(p)[q + 1].frame_ppal * L + l
    <3> DEFINE f == PagesOf(p)[q + 1].frame_ppal
    <3>1. f \in Nat /\ dir = f * L + r
      BY <1>2, <1>3
    <3> HIDE DEF f, r
    <3>2. f * L \in Nat
      BY <1>1, <3>1
    <3> QED
      BY <1>1, <3>1, <3>2 DEF f
  <2>5. Origen(p, dir, k) = dir + k
    BY <1>2, <1>5 DEF Origen
  <2> QED
    BY <2>2, <2>3, <2>4, <2>5
<1>6. CASE ~(l < L)
  <2> DEFINE j == l \div L
  <2> DEFINE s == l % L
  <2>1. HayPagSig(p, dir, j)
    BY <1>4, <1>6
  <2>2. j \in Nat /\ s \in 0 .. L - 1 /\ l = L * j + s
    <3> HIDE DEF l
    <3> QED
      BY <1>1, <1>4, Euclides
  <2> k \in Nat
    OBVIOUS
  <2>3. Origen(p, dir, k) = PagesOf(p)[q + 1 + j].frame_ppal * L + s
    BY <1>2, <1>6 DEF Origen, RecalcularDireccion, PagSig
  <2> HIDE DEF j, s
  <2>4. /\ logica + k < CurrentSize(p)
        /\ Traducida(p, logica + k) = PagesOf(p)[q + 1 + j].frame_ppal * L + s
    BY <2>1, <2>2, MasAdelante
  <2> QED
    BY <2>3, <2>4
<1> QED
  BY <1>5, <1>6

LEMMA EscribeLoQueNombra ==
    ASSUME PaginacionTypeOK, MarcosExclusivos, NEW p \in Pids, NEW logica \in Nat,
           logica < CurrentSize(p), NEW dir, dir = Traducida(p, logica),
           NEW n \in Nat, ~EscrituraCae(p, dir, n), ~EscrituraDerrama(dir, n),
           NEW k \in 0 .. n - 1
    PROVE  logica + k < CurrentSize(p) /\ Destino(p, dir, k) = Traducida(p, logica + k)
<1> DEFINE L == PageLength
<1> DEFINE q == logica \div L
<1> DEFINE r == logica % L
<1> k \in Nat
  OBVIOUS
<1>1. L \in Nat \ {0} /\ q \in Nat /\ r \in 0 .. L - 1
  BY ConstantesDePaginacion, Euclides
<1>2. /\ Desplazamiento(dir) = r /\ Lugar(p, dir) = q + 1 /\ dir \in Nat
      /\ dir = PagesOf(p)[q + 1].frame_ppal * L + r
  BY ElLugarDeLaPagina
<1>3. PagesOf(p)[q + 1].frame_ppal \in Nat
  BY LaPagina, ConstantesDePaginacion DEF Frames
<1>4. n <= L - r \/ r = 0
  BY <1>1, <1>2 DEF EscrituraDerrama, Cruza
<1>5. CASE k < L
  <2>1. r + k \in 0 .. L - 1 /\ r + k = L * 0 + (r + k)
    BY <1>1, <1>4, <1>5
  <2>2. /\ logica + k < CurrentSize(p)
        /\ Traducida(p, logica + k) = PagesOf(p)[q + 1 + 0].frame_ppal * L + (r + k)
    BY <1>1, <2>1, MasAdelante
  <2>3. q + 1 + 0 = q + 1
    BY <1>1
  <2>4. dir + k = PagesOf(p)[q + 1].frame_ppal * L + (r + k)
    <3> DEFINE f == PagesOf(p)[q + 1].frame_ppal
    <3>1. f \in Nat /\ dir = f * L + r
      BY <1>2, <1>3
    <3> HIDE DEF f, r
    <3>2. f * L \in Nat
      BY <1>1, <3>1
    <3> QED
      BY <1>1, <3>1, <3>2 DEF f
  <2>5. Destino(p, dir, k) = dir + k
    BY <1>5 DEF Destino
  <2> QED
    BY <2>2, <2>3, <2>4, <2>5
<1>6. CASE ~(k < L)
  <2> DEFINE j == k \div L
  <2> DEFINE s == k % L
  <2> DEFINE m == PaginasRestantes(n)
  <2>1. r = 0 /\ n > L /\ Cruza(dir, n)
    BY <1>1, <1>2, <1>4, <1>6 DEF Cruza
  <2>2. HayPagSig(p, dir, m)
    BY <2>1 DEF EscrituraCae
  <2>3. j \in Nat /\ s \in 0 .. L - 1 /\ k = L * j + s
    BY <1>1, Euclides
  <2>4. j <= m /\ m \in Nat
    <3>1. CASE n <= 2 * L
      <4>1. m = 1
        BY <3>1 DEF PaginasRestantes
      <4>3. k < 2 * L
        BY <1>1, <3>1
      <4>2. j < 2
        BY <1>1, <4>3, EnLasPaginas
      <4> QED
        BY <2>3, <4>1, <4>2
    <3>2. CASE ~(n <= 2 * L)
      <4> DEFINE a == n - 1
      <4>1. n - L + L - 1 = a /\ a \in Nat /\ k <= a
        BY <1>1, <2>1
      <4>2. m = a \div L
        BY <3>2, <4>1 DEF PaginasRestantes, CeilPages
      <4> DEFINE t == a % L
      <4> HIDE DEF a
      <4>3. m \in Nat /\ t \in 0 .. L - 1 /\ a = L * m + t
        BY <1>1, <4>1, <4>2, Euclides
      <4> HIDE DEF j, s, m, t
      <4>4. m < j => L * m + L <= L * j
        BY <1>1, <2>3, <4>3, ProductoCrece
      <4>5. L * m \in Int /\ L * j \in Int
        BY <1>1, <2>3, <4>3
      <4> QED
        BY <1>1, <2>3, <4>1, <4>3, <4>4, <4>5
    <3> QED
      BY <3>1, <3>2
  <2>5. HayPagSig(p, dir, j)
    <3>1. j \in 0 .. m
      BY <2>3, <2>4
    <3>2. PagSig(p, dir, j) \in 1 .. Len(PagesOf(p)) /\ Len(PagesOf(p)) \in Nat
      BY <2>2, <2>4, <3>1, LaQueSigue, PagesOfType
    <3>3. PagSig(p, dir, j) <= Len(PagesOf(p))
      BY <3>2
    <3> QED
      BY <2>2, <3>3 DEF HayPagSig
  <2>6. Destino(p, dir, k) = PagesOf(p)[q + 1 + j].frame_ppal * L + s
    BY <1>2, <1>6 DEF Destino, RecalcularDireccion, PagSig
  <2>7. r + k = L * j + s
    BY <2>1, <2>3
  <2> HIDE DEF j, s
  <2>8. /\ logica + k < CurrentSize(p)
        /\ Traducida(p, logica + k) = PagesOf(p)[q + 1 + j].frame_ppal * L + s
    BY <2>3, <2>5, <2>7, MasAdelante
  <2> QED
    BY <2>6, <2>8
<1> QED
  BY <1>5, <1>6

-------------------------------------------------------------------------------
(* What the invariant says. *)

LEMMA LasEscrituras ==
    ASSUME AccesosInv
    PROVE  EscriturasAsentadas
<1> SUFFICES ASSUME NEW k \in 1 .. Len(aMemoria["CPU"]),
                    aMemoria["CPU"][k].op \in {"MOVE_OUT", "COPY_STRING"}
             PROVE  /\ deMemoria["CPU"] = <<>>
                    /\ cpu.fase \in {"libre", "pedir", "instruccion", "frame"}
                    /\ estado[aMemoria["CPU"][k].pid] \in {"READY", "EXEC"}
                    /\ info[aMemoria["CPU"][k].pid] = NULL
  BY DEF EscriturasAsentadas
<1> DEFINE m == aMemoria["CPU"][k]
<1>1. Forma /\ DialogoConLaMemoria /\ Preguntas /\ EnCurso
  BY DEF AccesosInv, MarcosInv, DialogoInv
<1>2. DeLaCpu(m)
  BY <1>1 DEF Preguntas, Elementos
<1>3. aMemoria["CPU"] # <<>>
  BY VaciaEsSeq
<1>4. deMemoria["CPU"] = <<>>
  <2>1. EnDialogo(aMemoria["CPU"], deMemoria["CPU"], Espera("CPU"), TipoEsperado("CPU"))
    BY <1>1, <1>3, LosNombres DEF DialogoConLaMemoria
  <2> QED
    BY <1>3, <2>1, Zenon DEF EnDialogo
<1>5. cpu.fase \in {"libre", "pedir", "instruccion", "frame"}
  BY <1>1, <1>2 DEF EnCurso, FasesCpu, DeLaCpu
<1> QED
  BY <1>2, <1>4, <1>5 DEF DeLaCpu

LEMMA LasDirecciones ==
    ASSUME AccesosInv
    PROVE  DireccionesVigentes
<1>1. Forma /\ Preguntas /\ Lugares
  BY DEF AccesosInv, MarcosInv, DialogoInv
<1>2. ASSUME NEW c \in Conexiones, NEW k \in 1 .. Len(aMemoria[c]),
             aMemoria[c][k].op \in Accesos \ {"FS_READ"}
      PROVE  Corresponde(aMemoria[c][k].pid, aMemoria[c][k].dir, aMemoria[c][k].logica)
  <2> DEFINE m == aMemoria[c][k]
  <2>1. m \in Elementos(aMemoria[c]) /\ m.op \in Accesos \ {"FS_READ"}
    BY <1>2 DEF Elementos
  <2> HIDE DEF m
  <2>2. CASE c = "KERNEL"
    BY <1>1, <2>1, <2>2 DEF Preguntas, DelKernel, Accesos
  <2>3. CASE c = "CPU"
    <3>1. DeLaCpu(m)
      BY <1>1, <2>1, <2>3 DEF Preguntas
    <3> QED
      BY <2>1, <3>1 DEF DeLaCpu, Accesos, m
  <2>4. CASE c \in Interfaces
    <3>1. DeLaInterfaz(c, m)
      BY <1>1, <2>1, <2>4 DEF Preguntas
    <3>2. PICK p : p = interfaz[c].pid
      OBVIOUS
    <3>3. /\ interfaz[c].fase = "memoria" /\ m.pid = p /\ info[p].op \in OpsIoConDireccion
          /\ m.dir = info[p].dir /\ m.logica = info[p].logica
      BY <2>1, <3>1, <3>2 DEF DeLaInterfaz
    <3>4. p \in Ocupantes(c)
      BY <3>2, <3>3 DEF Ocupantes, Atendido
    <3>5. ConPedido(p)
      BY <1>1, <2>4, <3>4 DEF Lugares, EnEspera, EnEsperaDe, EnIo
    <3>6. Corresponde(p, info[p].dir, info[p].logica)
      BY <3>3, <3>5 DEF ConPedido
    <3> QED
      BY <3>3, <3>6 DEF m
  <2> QED
    BY <2>2, <2>3, <2>4, ConstantesDeEjecucion
<1>3. ASSUME NEW p \in Pids, info[p] # NULL, info[p].op \in OpsIoConDireccion
      PROVE  Corresponde(p, info[p].dir, info[p].logica)
  BY <1>1, <1>3 DEF Lugares, ConPedido
<1> QED
  BY <1>2, <1>3 DEF DireccionesVigentes

\* A process with a byte has a table.
LEMMA ConTabla ==
    ASSUME PaginacionTypeOK, NEW p \in Pids, NEW logica \in Nat, logica < CurrentSize(p)
    PROVE  pageTable[p] # NULL
<1> SUFFICES ASSUME pageTable[p] = NULL PROVE FALSE
  OBVIOUS
<1>1. PagesOf(p) = <<>>
  BY DEF PagesOf
<1>2. Len(PagesOf(p)) = 0
  BY <1>1
<1>3. CurrentSize(p) = 0
  BY <1>2, ConstantesDePaginacion DEF CurrentSize
<1> QED
  BY <1>3

LEMMA LosAccesos ==
    ASSUME AccesosInv
    PROVE  AccesosFieles
<1>1. PaginacionTypeOK /\ MarcosExclusivos
  BY DEF AccesosInv, MarcosInv, IInv
<1> SUFFICES ASSUME NEW c \in Conexiones, aMemoria[c] # <<>>
             PROVE  LET m == Head(aMemoria[c])
                        n == IF m.op = "IO_STDIN_READ" THEN Len(m.dato) ELSE m.largo
                        Dentro(k) == m.logica + k < CurrentSize(m.pid) IN
             /\ m.op \in {"MOVE_IN", "WRITE", "FS_WRITE"} /\ Vigente(m) /\ PuedeLeer(m, m.dir)
                  => \A k \in 0 .. m.largo - 1 :
                       Dentro(k) /\ Origen(m.pid, m.dir, k) = Traducida(m.pid, m.logica + k)
             /\ m.op \in {"MOVE_OUT", "IO_STDIN_READ", "FS_READ"} /\ Vigente(m)
                  /\ PuedeEscribir(m, n) /\ ~EscrituraDerrama(m.dir, n)
                  => \A k \in 0 .. n - 1 :
                       Dentro(k) /\ Destino(m.pid, m.dir, k) = Traducida(m.pid, m.logica + k)
  BY Zenon DEF AccesosFieles
<1>2. PICK m : m = Head(aMemoria[c])
  OBVIOUS
<1>3. BienHecho(m)
  BY <1>2, LaPrimeraEsta
<1>4. PICK p \in Pids, logica \in Nat, largo \in Nat, dir \in Int :
        p = m.pid /\ logica = m.logica /\ largo = m.largo /\ dir = m.dir
  BY <1>3 DEF BienHecho
<1> DEFINE n == IF m.op = "IO_STDIN_READ" THEN Len(m.dato) ELSE largo
<1>5. n \in Nat
  BY <1>3, <1>4 DEF BienHecho
<1> HIDE DEF n
<1>6. Vigente(m) => logica < CurrentSize(p) /\ dir = Traducida(p, logica)
  BY <1>4 DEF Vigente
<1>7. ASSUME Vigente(m), PuedeLeer(m, m.dir), NEW k \in 0 .. largo - 1
      PROVE  logica + k < CurrentSize(p) /\ Origen(p, dir, k) = Traducida(p, logica + k)
  <2>1. ~LecturaCae(p, dir, largo)
    BY <1>4, <1>7 DEF PuedeLeer
  <2> QED
    BY <1>1, <1>6, <1>7, <2>1, LeeLoQueNombra
<1>8. ASSUME Vigente(m), PuedeEscribir(m, n), ~EscrituraDerrama(m.dir, n), NEW k \in 0 .. n - 1
      PROVE  logica + k < CurrentSize(p) /\ Destino(p, dir, k) = Traducida(p, logica + k)
  <2>1. pageTable[p] # NULL
    BY <1>1, <1>6, <1>8, ConTabla
  <2>2. ~EscrituraCae(p, dir, n) /\ ~EscrituraDerrama(dir, n)
    BY <1>4, <1>8, <2>1 DEF PuedeEscribir
  <2> QED
    BY <1>1, <1>5, <1>6, <1>8, <2>2, EscribeLoQueNombra
<1> QED
  BY <1>2, <1>4, <1>7, <1>8 DEF n

-------------------------------------------------------------------------------
(* The types. *)

\* What the rest of the invariant does not need to know of.
Historias ==
    /\ mudas \in SUBSET Conexiones /\ derrame \in BOOLEAN /\ pisado \in BOOLEAN
    /\ ioHecha \in SUBSET Pids /\ desalojos \in 0 .. MaxDesalojos

TiposInv == AccesosInv /\ Historias

LEMMA HistoriasAlEmpezar ==
    ASSUME EjecucionInit
    PROVE  Historias
<1>1. mudas = {} /\ derrame = FALSE /\ pisado = FALSE /\ ioHecha = {} /\ desalojos = 0
  BY DEF EjecucionInit, MemoriaInit
<1>2. 0 \in 0 .. MaxDesalojos
  BY ConstantesDeEjecucion
<1> QED
  BY <1>1, <1>2 DEF Historias

\* The memory writes, or leaves an interface without an answer.
LEMMA HistoriasDeMemoria ==
    ASSUME AccesosInv, Historias, NEW c \in Conexiones, MemoriaAtiende(c)
    PROVE  Historias'
<1>1. UNCHANGED <<pisado, desalojos>>
  BY DEF MemoriaAtiende, FueraDeLaMemoria, planVars
<1>2. mudas' \in SUBSET Conexiones
  <2>1. mudas' = mudas \/ mudas' = mudas \cup {c}
    BY Zenon DEF MemoriaAtiende, MemoriaALaCpu, MemoriaALaInterfaz, AtenderALaCpu,
       AtenderALaInterfaz, CargarPrograma, DarInstruccion, FinDelArreglo, SinArreglo,
       AccesoIndebido, Caida, AtenderSolicitudFrame, AtenderMoveIn, AtenderMoveOut,
       AtenderCopyString, AtenderResize, AtenderStdinRead, AtenderWrite, AtenderFsWrite,
       WriteSinTabla, MemoriaEscribeLoLeido, AtenderFsRead
  <2> QED
    BY <2>1 DEF Historias
<1>3. derrame' \in BOOLEAN
  <2>1. ASSUME NEW m, NEW s, Escribir(m, s) PROVE derrame' \in BOOLEAN
    BY <2>1 DEF Escribir, Historias
  <2>2. derrame' = derrame \/ \E m, s : Escribir(m, s)
    BY Zenon DEF MemoriaAtiende, MemoriaALaCpu, MemoriaALaInterfaz, AtenderALaCpu,
       AtenderALaInterfaz, CargarPrograma, DarInstruccion, FinDelArreglo, SinArreglo,
       AccesoIndebido, Caida, AtenderSolicitudFrame, AtenderMoveIn, AtenderMoveOut,
       AtenderCopyString, AtenderResize, AtenderStdinRead, AtenderWrite, AtenderFsWrite,
       WriteSinTabla, MemoriaEscribeLoLeido, AtenderFsRead
  <2> QED
    BY <2>1, <2>2 DEF Historias
<1>4. ioHecha' \in SUBSET Pids
  <2>1. CASE ioHecha' = ioHecha
    BY <2>1 DEF Historias
  <2>2. CASE ioHecha' = ioHecha \cup {Head(aMemoria[c]).pid} /\ aMemoria[c] # <<>>
    BY <2>2, LaPrimeraEsta DEF BienHecho, Historias
  <2>3. AtenderALaInterfaz(c) => aMemoria[c] # <<>>
    BY Zenon DEF AtenderALaInterfaz, AtenderStdinRead, AtenderWrite, AtenderFsWrite, Pide
  <2> QED
    BY <2>1, <2>2, <2>3 DEF MemoriaAtiende, MemoriaALaCpu, MemoriaALaInterfaz,
       MemoriaEscribeLoLeido
<1> QED
  BY <1>1, <1>2, <1>3, <1>4 DEF Historias

LEMMA HistoriasAlSeguir ==
    ASSUME AccesosInv, Historias, [EjecucionNext]_ejecucionVars
    PROVE  Historias'
<1>1. CASE Cpu
  <2>1. UNCHANGED <<mudas, derrame, pisado, ioHecha>>
    BY <1>1 DEF Cpu, memoriaInterna, planVars
  <2>2. desalojos' = desalojos \/ (desalojos < MaxDesalojos /\ desalojos' = desalojos + 1)
    BY <1>1 DEF Cpu, PedirInstruccion, EjecutarLocal, SalirSinAcceso, PedirResize, RecibirOkey,
       EmpezarAcceso, RecibirFrameDeMovIn, RecibirDato, RecibirFrameDeMovOut,
       RecibirFrameDeCopyString, RecibirFrameDeIo, Terminar, Devolver, Seguir
  <2> QED
    BY <2>1, <2>2, ConstantesDeEjecucion DEF Historias
<1>2. CASE Despachar \/ EnviarPrograma \/ IoFunction
  <2>1. UNCHANGED <<mudas, derrame, pisado, ioHecha, desalojos>>
    BY <1>2 DEF Despachar, EnviarPrograma, IoFunction, memoriaInterna, memoriaVars
  <2> QED
    BY <2>1 DEF Historias
<1>3. CASE RecibirPcb
  <2>1. UNCHANGED <<mudas, derrame, ioHecha, desalojos>> /\ pisado' \in BOOLEAN
    BY <1>3 DEF RecibirPcb, memoriaVars, Historias
  <2> QED
    BY <2>1 DEF Historias
<1>4. ASSUME NEW i \in Interfaces, TerminarIo(i) PROVE Historias'
  <2>1. UNCHANGED <<mudas, derrame, pisado, desalojos>> /\ ioHecha' \subseteq ioHecha
    BY <1>4 DEF TerminarIo, memoriaVars
  <2> QED
    BY <2>1 DEF Historias
<1>5. ASSUME NEW i \in Interfaces, Interfaz(i) PROVE Historias'
  <2>1. UNCHANGED <<mudas, derrame, pisado, desalojos>>
    BY <1>5 DEF Interfaz, memoriaInterna, planVars
  <2>2. PICK p \in Pids : ioHecha' = ioHecha \/ ioHecha' = ioHecha \cup {p}
    BY <1>5, Zenon DEF Interfaz, Rechazar, HacerSinMemoria, Fallar, LeerTeclado, PedirTexto,
       RecibirDeMemoria, EnviarLoLeido, AvisarLoLeido
  <2> QED
    BY <2>1, <2>2 DEF Historias
<1>6. ASSUME NEW c \in Conexiones, MemoriaAtiende(c) PROVE Historias'
  BY <1>6, HistoriasDeMemoria
<1>7. CASE UNCHANGED ejecucionVars
  <2>1. UNCHANGED <<mudas, derrame, pisado, ioHecha, desalojos>>
    BY <1>7 DEF ejecucionVars, memoriaVars, planVars
  <2> QED
    BY <2>1 DEF Historias
<1> QED
  BY <1>1, <1>2, <1>3, <1>4, <1>5, <1>6, <1>7 DEF EjecucionNext, Paso

LEMMA LosTipos ==
    ASSUME TiposInv
    PROVE  EjecucionTypeOK
<1>1. /\ Forma /\ DialogoConLaMemoria /\ Preguntas /\ Lugares /\ EnCurso /\ Mensajes /\ Procesos
      /\ PaginacionTypeOK /\ mainMemory \in [Direcciones -> Byte] /\ Historias
  BY DEF TiposInv, AccesosInv, MarcosInv, DialogoInv, IInv
<1>2. MemoriaTypeOK
  <2>1. ASSUME NEW c \in Conexiones, NEW k \in 1 .. Len(aMemoria[c])
        PROVE  BienHecho(aMemoria[c][k])
    <3>1. aMemoria[c][k] \in Elementos(aMemoria[c])
      BY DEF Elementos
    <3>2. c \in {"KERNEL", "CPU"} \cup Interfaces
      BY ConstantesDeEjecucion
    <3> QED
      BY <1>1, <3>1, <3>2 DEF Preguntas, DelKernel, DeLaCpu, DeLaInterfaz
  <2>2. ASSUME NEW c \in Conexiones, NEW k \in 1 .. Len(deMemoria[c])
        PROVE  deMemoria[c][k].tipo \in {"INSTRUCCION", "NUMERO", "TEXTO"}
    <3>1. deMemoria[c] # <<>>
      BY VaciaEsSeq
    <3>2. EnDialogo(aMemoria[c], deMemoria[c], Espera(c), TipoEsperado(c))
      BY <1>1, <3>1 DEF DialogoConLaMemoria
    <3>3. Len(deMemoria[c]) = 1 /\ deMemoria[c][1].tipo = TipoEsperado(c)
      BY <3>1, <3>2, Zenon DEF EnDialogo
    <3>4. k = 1
      BY <3>3
    <3> QED
      BY <3>3, <3>4 DEF TipoEsperado
  <2>3. EspacioTypeOK /\ instructions \in Pids \cup {NULL}
    BY <1>1 DEF EspacioTypeOK, Mensajes
  <2>4. mudas \in SUBSET Conexiones /\ derrame \in BOOLEAN
    BY <1>1 DEF Historias
  <2> QED
    BY <2>1, <2>2, <2>3, <2>4 DEF MemoriaTypeOK, BienHecho
<1>3. EnLaCpu /\ EnEspera /\ estado \in [Pids -> Estados] /\ NULL \notin Pids
  BY <1>1, ConstantesDeEjecucion DEF Lugares
<1>4. cpu.pid \in Pids \cup {NULL} /\ queueReadys \in Seq(Pids) /\ porEnviar \in Pids \cup {NULL}
  BY <1>1, <1>3 DEF Procesos, EnLaCpu
<1>5. \A i \in Interfaces : interfaz[i].fase \in {"libre", "memoria", "avisar"}
  BY <1>3 DEF EnEspera, EnEsperaDe
<1>6. ASSUME NEW p \in Pids
      PROVE  estado[p] = "EXEC" <=> cpu.pid = p \/ (vuelve # NULL /\ vuelve.pid = p)
  BY <1>3 DEF EnLaCpu
<1>7. /\ registros \in [Pids -> JuegoDeRegistros] /\ cpu.fase \in FasesCpu
      /\ cpu.dirs \in Seq(Int) /\ cpu.datos \in Seq(0 .. Entera - 1)
  BY <1>1 DEF EnCurso
<1>8. /\ vuelve \in Regresos \cup {NULL} /\ paramsIo \in Pids \cup {NULL}
      /\ (cpu.fase = "libre" <=> cpu.pid = NULL)
  BY <1>3 DEF EnLaCpu, EnEspera
<1>9. pisado \in BOOLEAN /\ ioHecha \in SUBSET Pids /\ desalojos \in 0 .. MaxDesalojos
  BY <1>1 DEF Historias
<1> QED
  BY <1>2, <1>3, <1>4, <1>5, <1>6, <1>7, <1>8, <1>9 DEF EjecucionTypeOK

\* The words of the CPU, the kernel, the interfaces and the memory stay what they are:
\* registers as wide as those of the PCB, one process at most between executePcb and
\* sendPcb, an answer of a type that somebody waits for.
THEOREM TiposDeLaEjecucion == EjecucionSpec => []EjecucionTypeOK
<1>1. EjecucionInit => TiposInv
  BY AccesosAlEmpezar, HistoriasAlEmpezar DEF TiposInv
<1>2. TiposInv /\ [EjecucionNext]_ejecucionVars => TiposInv'
  BY AccesosAlSeguir, HistoriasAlSeguir DEF TiposInv
<1>3. TiposInv => EjecucionTypeOK
  BY LosTipos
<1> QED
  BY <1>1, <1>2, <1>3, PTL DEF EjecucionSpec

\* Where a COPY_STRING or a MOVE_OUT that nobody waits for is still to be attended, the
\* process that sent it has not been blocked, nor has ended: what it left in memory is
\* there before an interface, or nobody, looks at it.
THEOREM LasEscriturasSeAsientan == EjecucionSpec => []EscriturasAsentadas
<1>1. AccesosInv => EscriturasAsentadas
  BY LasEscrituras
<1> QED
  BY <1>1, AccesosAlEmpezar, AccesosAlSeguir, PTL DEF EjecucionSpec

\* The frame that logicalToPhysicalAddress was given is still the one of the page when
\* the memory attends the access, and while the process is blocked.
THEOREM LasDireccionesSiguenVigentes == EjecucionSpec => []DireccionesVigentes
<1>1. AccesosInv => DireccionesVigentes
  BY LasDirecciones
<1> QED
  BY <1>1, AccesosAlEmpezar, AccesosAlSeguir, PTL DEF EjecucionSpec

\* recalcularDireccion takes an access from a page to the one that follows it in the
\* table: no byte of it is of another process, nor of another address.
THEOREM LosAccesosSonFieles == EjecucionSpec => []AccesosFieles
<1>1. AccesosInv => AccesosFieles
  BY LosAccesos
<1> QED
  BY <1>1, AccesosAlEmpezar, AccesosAlSeguir, PTL DEF EjecucionSpec

===============================================================================
