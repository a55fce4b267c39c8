---------------------------- MODULE ProcesosProofs ----------------------------
(***************************************************************************)
(* Where the processes are and what each of them waits for, for any number *)
(* of processes, resources, interfaces and places, any programs and every  *)
(* algorithm.                                                              *)
(*                                                                         *)
(* That no process is lost holds whatever the operator does.  What is said *)
(* of those that wait assumes that the operator finishes none and that a   *)
(* process that uses an interface takes no resource: liberarRecursos then  *)
(* releases nothing, and checkResponseOfCpu alone writes the counts, whose *)
(* two halves no other thread can come between.                            *)
(***************************************************************************)
EXTENDS SistemaProofs

-------------------------------------------------------------------------------
(* Where the processes are. *)

Sitios == {"news", "readys", "aux", "blockeds", "cpu", "pcb", "borrar", "free"}

\* The process whose PCB checkResponseOfCpu has in its hands.
Devuelto == IF respuesta.pc = "pcb" THEN {respuesta.pid} ELSE {}

\* The processes in each place that the kernel's variables name: the CPU holds the
\* one in currentyRunningPcb.
EnSitio ==
    [s \in Sitios |->
        CASE s = "news" -> ToSet(queueNews)
          [] s = "readys" -> ToSet(queueReadys)
          [] s = "aux" -> ToSet(queueAux)
          [] s = "blockeds" -> ToSet(listBlockeds)
          [] s = "cpu" -> {currentyRunningPcb} \ {NULL}
          [] s = "pcb" -> Devuelto
          [] s = "borrar" -> {liberando[i] : i \in Borrando}
          [] s = "free" -> ToSet(freePids)]

\* The sets of S are a partition of U, some of them perhaps empty.
Reparte(S, U) ==
    /\ \A x \in Sitios : S[x] \subseteq U
    /\ \A u \in U : \E x \in Sitios : u \in S[x]
    /\ \A x, y \in Sitios : x # y => S[x] \cap S[y] = {}

SinRepetir ==
    /\ IsInjective(queueNews) /\ IsInjective(queueReadys) /\ IsInjective(queueAux)
    /\ IsInjective(listBlockeds) /\ IsInjective(freePids)
    /\ \A i, j \in Borrando : liberando[i] = liberando[j] => i = j

\* The inductive invariant of CadaPidEnUnLugar.
UbicacionInv ==
    /\ SinRepetir
    /\ Reparte(EnSitio, 1 .. nextPid - 1)
    /\ listPcbToMemory = (1 .. nextPid - 1) \ ToSet(freePids)

\* What a push, a pop and a removal do to the elements of a queue without
\* repetitions.
LEMMA ElementosTrasAppend ==
    ASSUME NEW S, NEW s \in Seq(S), NEW e \in S
    PROVE  /\ ToSet(Append(s, e)) = ToSet(s) \cup {e}
           /\ IsInjective(s) /\ e \notin ToSet(s) => IsInjective(Append(s, e))
<1>1. /\ Append(s, e) \in Seq(S) /\ Len(Append(s, e)) = Len(s) + 1
      /\ \A i \in 1 .. Len(s) : Append(s, e)[i] = s[i]
      /\ Append(s, e)[Len(s) + 1] = e
  OBVIOUS
<1> DEFINE t == Append(s, e)
<1>2. /\ DOMAIN s = 1 .. Len(s) /\ Len(s) \in Nat /\ DOMAIN t = 1 .. Len(s) + 1
  BY <1>1
<1> HIDE DEF t
<1>3. ToSet(t) = ToSet(s) \cup {e}
  BY <1>1, <1>2 DEF ToSet, t
<1>4. IsInjective(s) /\ e \notin ToSet(s) => IsInjective(t)
  BY <1>1, <1>2 DEF ToSet, IsInjective, t
<1> QED
  BY <1>3, <1>4 DEF t

\* What a pop does to them.
LEMMA ElementosTrasTail ==
    ASSUME NEW S, NEW s \in Seq(S), s # <<>>, IsInjective(s)
    PROVE  /\ Head(s) \in ToSet(s)
           /\ ToSet(Tail(s)) = ToSet(s) \ {Head(s)}
           /\ IsInjective(Tail(s))
<1> DEFINE t == Tail(s)
<1>1. /\ Len(s) \in Nat \ {0} /\ DOMAIN s = 1 .. Len(s) /\ Head(s) = s[1]
      /\ DOMAIN t = 1 .. Len(s) - 1
      /\ \A i \in 1 .. Len(s) - 1 : t[i] = s[i + 1]
  OBVIOUS
<1> HIDE DEF t
<1>2. Head(s) \in ToSet(s)
  BY <1>1 DEF ToSet
<1>3. IsInjective(t)
  BY <1>1 DEF IsInjective
<1>4. ASSUME NEW x PROVE x \in ToSet(t) <=> x \in ToSet(s) /\ x # s[1]
  <2>1. ASSUME x \in ToSet(t) PROVE x \in ToSet(s) /\ x # s[1]
    <3>1. PICK i \in 1 .. Len(s) - 1 : x = t[i]
      BY <1>1, <2>1 DEF ToSet
    <3>2. i + 1 \in 1 .. Len(s) /\ i + 1 # 1 /\ x = s[i + 1] /\ 1 \in 1 .. Len(s)
      BY <1>1, <3>1
    <3> QED
      BY <1>1, <3>2 DEF IsInjective, ToSet
  <2>2. ASSUME x \in ToSet(s), x # s[1] PROVE x \in ToSet(t)
    <3>1. PICK i \in 1 .. Len(s) : x = s[i]
      BY <1>1, <2>2 DEF ToSet
    <3>2. i - 1 \in 1 .. Len(s) - 1 /\ x = t[i - 1]
      BY <1>1, <2>2, <3>1
    <3> QED
      BY <1>1, <3>2 DEF ToSet
  <2> QED
    BY <2>1, <2>2
<1> QED
  BY <1>1, <1>2, <1>3, <1>4 DEF t

\* What a removal does to them.
LEMMA ElementosTrasQuitar ==
    ASSUME NEW S, NEW s \in Seq(S), NEW e, e \in ToSet(s), IsInjective(s)
    PROVE  /\ ToSet(RemoveFirst(s, e)) = ToSet(s) \ {e}
           /\ IsInjective(RemoveFirst(s, e))
<1> DEFINE I == {i \in 1 .. Len(s) : s[i] = e}
<1> DEFINE k == Min(I)
<1>1. DOMAIN s = 1 .. Len(s) /\ Len(s) \in Nat
  OBVIOUS
<1>2. I \in SUBSET Nat /\ I # {}
  BY <1>1 DEF ToSet
<1>3. k \in 1 .. Len(s) /\ s[k] = e
  BY <1>2, MinDeNaturales
<1>4. RemoveFirst(s, e) = SubSeq(s, 1, k - 1) \o SubSeq(s, k + 1, Len(s))
  BY <1>2, <1>3 DEF RemoveFirst, RemoveAt, SelectInSeq
<1> HIDE DEF k
<1> DEFINE t == SubSeq(s, 1, k - 1) \o SubSeq(s, k + 1, Len(s))
<1>5. /\ DOMAIN t = 1 .. Len(s) - 1
      /\ \A i \in 1 .. Len(s) - 1 : t[i] = IF i < k THEN s[i] ELSE s[i + 1]
  <2>1. /\ SubSeq(s, 1, k - 1) \in Seq(S) /\ Len(SubSeq(s, 1, k - 1)) = k - 1
        /\ \A i \in 1 .. k - 1 : SubSeq(s, 1, k - 1)[i] = s[i]
    BY <1>1, <1>3, SubSeqProperties
  <2>2. /\ SubSeq(s, k + 1, Len(s)) \in Seq(S) /\ Len(SubSeq(s, k + 1, Len(s))) = Len(s) - k
        /\ \A i \in 1 .. Len(s) - k : SubSeq(s, k + 1, Len(s))[i] = s[k + i]
    <3> DEFINE n == Len(s)
    <3>1. k + 1 \in Int /\ n \in Int /\ \A i \in k + 1 .. n : s[i] \in S
      <4>1. k \in Int /\ k >= 1 /\ n \in Nat
        BY <1>1, <1>3
      <4>2. ASSUME NEW i \in k + 1 .. n PROVE s[i] \in S
        <5>1. i \in 1 .. Len(s)
          BY <4>1
        <5> QED
          BY <5>1
      <4> QED
        BY <4>1, <4>2
    <3>2. n - (k + 1) + 1 = n - k /\ (k + 1 <= n \/ n - k = 0)
          /\ \A i \in 1 .. n - k : k + 1 + i - 1 = k + i
      <4>1. n \in Int /\ k \in Int /\ k <= n
        BY <1>1, <1>3
      <4> HIDE DEF n
      <4> QED
        BY <4>1
    <3>3. /\ SubSeq(s, k + 1, n) \in Seq(S)
          /\ Len(SubSeq(s, k + 1, n)) = IF k + 1 <= n THEN n - (k + 1) + 1 ELSE 0
          /\ \A i \in 1 .. n - (k + 1) + 1 : SubSeq(s, k + 1, n)[i] = s[k + 1 + i - 1]
      BY <3>1, SubSeqProperties
    <3> QED
      BY <3>2, <3>3
  <2> DEFINE a == SubSeq(s, 1, k - 1)
  <2> DEFINE b == SubSeq(s, k + 1, Len(s))
  <2> HIDE DEF a, b
  <2> HIDE DEF t
  <2>3. /\ t = a \o b /\ a \in Seq(S) /\ b \in Seq(S) /\ Len(a) = k - 1 /\ Len(b) = Len(s) - k
        /\ \A i \in 1 .. k - 1 : a[i] = s[i]
        /\ \A i \in 1 .. Len(s) - k : b[i] = s[k + i]
    BY <2>1, <2>2 DEF a, b, t
  <2>4. /\ t \in Seq(S) /\ Len(t) = Len(a) + Len(b)
        /\ \A i \in 1 .. Len(a) + Len(b) : t[i] = IF i <= Len(a) THEN a[i] ELSE b[i - Len(a)]
    <3>1. /\ a \o b \in Seq(S) /\ Len(a \o b) = Len(a) + Len(b)
          /\ \A i \in 1 .. Len(a) + Len(b) :
               (a \o b)[i] = IF i <= Len(a) THEN a[i] ELSE b[i - Len(a)]
      BY <2>3, ConcatProperties
    <3> QED
      BY <2>3, <3>1
  <2>5. Len(a) + Len(b) = Len(s) - 1 /\ Len(s) - 1 \in Nat
    BY <1>1, <1>3, <2>3
  <2>6. DOMAIN t = 1 .. Len(s) - 1
    BY <2>4, <2>5
  <2>7. ASSUME NEW i \in 1 .. Len(s) - 1
        PROVE  t[i] = IF i < k THEN s[i] ELSE s[i + 1]
    <3>1. t[i] = IF i <= k - 1 THEN a[i] ELSE b[i - (k - 1)]
      BY <2>3, <2>4, <2>5
    <3>2. CASE i < k
      <4>1. i \in 1 .. k - 1 /\ i <= k - 1
        BY <1>1, <1>3, <3>2
      <4> QED
        BY <2>3, <3>1, <3>2, <4>1
    <3>3. CASE ~(i < k)
      <4>1. i - (k - 1) \in 1 .. Len(s) - k /\ k + (i - (k - 1)) = i + 1 /\ ~(i <= k - 1)
        BY <1>1, <1>3, <3>3
      <4> QED
        BY <2>3, <3>1, <3>3, <4>1
    <3> QED
      BY <3>2, <3>3
  <2> QED
    BY <2>6, <2>7
<1> HIDE DEF t
<1>6. IsInjective(t)
  <2>1. SUFFICES ASSUME NEW i \in 1 .. Len(s) - 1, NEW j \in 1 .. Len(s) - 1, t[i] = t[j]
                 PROVE  i = j
    BY <1>5 DEF IsInjective
  <2> DEFINE en(x) == IF x < k THEN x ELSE x + 1
  <2>2. /\ en(i) \in 1 .. Len(s) /\ en(j) \in 1 .. Len(s)
        /\ en(i) = en(j) => i = j
    BY <1>1, <1>3
  <2>3. t[i] = s[en(i)] /\ t[j] = s[en(j)]
    BY <1>5
  <2> HIDE DEF en
  <2> QED
    BY <1>1, <2>1, <2>2, <2>3 DEF IsInjective
<1>7. ASSUME NEW x PROVE x \in ToSet(t) <=> x \in ToSet(s) /\ x # e
  <2>1. ASSUME x \in ToSet(t) PROVE x \in ToSet(s) /\ x # e
    <3>1. PICK i \in 1 .. Len(s) - 1 : x = t[i]
      BY <1>5, <2>1 DEF ToSet
    <3>2. PICK j \in 1 .. Len(s) : x = s[j] /\ j # k
      BY <1>1, <1>3, <1>5, <3>1
    <3> QED
      BY <1>1, <1>3, <3>2 DEF IsInjective, ToSet
  <2>2. ASSUME x \in ToSet(s), x # e PROVE x \in ToSet(t)
    <3>1. PICK i \in 1 .. Len(s) : x = s[i]
      BY <1>1, <2>2 DEF ToSet
    <3>2. CASE i < k
      <4>1. i \in 1 .. Len(s) - 1
        BY <1>1, <1>3, <3>2
      <4> QED
        BY <1>5, <3>1, <3>2, <4>1 DEF ToSet
    <3>3. CASE i > k
      <4>1. i - 1 \in 1 .. Len(s) - 1 /\ ~(i - 1 < k) /\ (i - 1) + 1 = i
        BY <1>1, <1>3, <3>3
      <4> QED
        BY <1>5, <3>1, <4>1 DEF ToSet
    <3> QED
      BY <1>1, <1>3, <2>2, <3>1, <3>2, <3>3
  <2> QED
    BY <2>1, <2>2
<1>8. RemoveFirst(s, e) = t
  BY <1>4 DEF t
<1> QED
  BY <1>6, <1>7, <1>8

-------------------------------------------------------------------------------

\* What the places are made of, before and after a step.
LEMMA Sitio ==
    /\ EnSitio["news"] = ToSet(queueNews) /\ EnSitio["readys"] = ToSet(queueReadys)
    /\ EnSitio["aux"] = ToSet(queueAux) /\ EnSitio["blockeds"] = ToSet(listBlockeds)
    /\ EnSitio["cpu"] = {currentyRunningPcb} \ {NULL}
    /\ EnSitio["pcb"] = Devuelto
    /\ EnSitio["borrar"] = {liberando[i] : i \in Borrando}
    /\ EnSitio["free"] = ToSet(freePids)
BY DEF EnSitio, Sitios

\* The places of the next state.
LEMMA SitioPrima ==
    /\ EnSitio'["news"] = ToSet(queueNews') /\ EnSitio'["readys"] = ToSet(queueReadys')
    /\ EnSitio'["aux"] = ToSet(queueAux') /\ EnSitio'["blockeds"] = ToSet(listBlockeds')
    /\ EnSitio'["cpu"] = {currentyRunningPcb'} \ {NULL}
    /\ EnSitio'["pcb"] = Devuelto'
    /\ EnSitio'["borrar"] = {liberando'[i] : i \in Borrando'}
    /\ EnSitio'["free"] = ToSet(freePids')
BY DEF EnSitio, Sitios

\* A place that is made of variables that do not change.
LEMMA SitioQuieto ==
    /\ UNCHANGED queueNews => EnSitio'["news"] = EnSitio["news"]
    /\ UNCHANGED queueReadys => EnSitio'["readys"] = EnSitio["readys"]
    /\ UNCHANGED queueAux => EnSitio'["aux"] = EnSitio["aux"]
    /\ UNCHANGED listBlockeds => EnSitio'["blockeds"] = EnSitio["blockeds"]
    /\ UNCHANGED currentyRunningPcb => EnSitio'["cpu"] = EnSitio["cpu"]
    /\ UNCHANGED Devuelto => EnSitio'["pcb"] = EnSitio["pcb"]
    /\ UNCHANGED respuesta => Devuelto' = Devuelto
    /\ (\A i \in Interfaces : liberando'[i] = liberando[i])
         => Borrando' = Borrando /\ EnSitio'["borrar"] = EnSitio["borrar"]
    /\ UNCHANGED freePids => EnSitio'["free"] = EnSitio["free"]
<1>1. ASSUME \A i \in Interfaces : liberando'[i] = liberando[i]
      PROVE  Borrando' = Borrando /\ EnSitio'["borrar"] = EnSitio["borrar"]
  <2>1. Borrando' = Borrando /\ \A i \in Borrando : liberando'[i] = liberando[i]
    BY <1>1 DEF Borrando
  <2>2. {liberando'[i] : i \in Borrando'} = {liberando[i] : i \in Borrando}
    BY <2>1
  <2> QED
    BY <2>1, <2>2, Sitio, SitioPrima
<1>2. UNCHANGED respuesta => Devuelto' = Devuelto
  BY DEF Devuelto
<1> QED
  BY <1>1, <1>2, Sitio, SitioPrima

\* What a step leaves alone when it moves no process.
ubicaciones == <<queueNews, queueReadys, queueAux, listBlockeds, currentyRunningPcb,
                 Devuelto, freePids, nextPid, listPcbToMemory>>

\* A step that moves nobody.
LEMMA UbicacionQuieta ==
    ASSUME UbicacionInv, UNCHANGED ubicaciones,
           \A i \in Interfaces : liberando'[i] = liberando[i]
    PROVE  UbicacionInv'
<1>1. Borrando' = Borrando /\ \A i \in Borrando : liberando'[i] = liberando[i]
  BY DEF Borrando
<1>2. \A x \in Sitios : EnSitio'[x] = EnSitio[x]
  BY SitioQuieto DEF ubicaciones, Sitios
<1>3. Reparte(EnSitio, 1 .. nextPid - 1)'
  BY <1>2 DEF UbicacionInv, Reparte, ubicaciones
<1>4. SinRepetir'
  BY <1>1 DEF UbicacionInv, SinRepetir, ubicaciones
<1> QED
  BY <1>3, <1>4 DEF UbicacionInv, ubicaciones

\* The process p goes from the place x to the place y.
Traslada(p, x, y) ==
    /\ x \in Sitios /\ y \in Sitios /\ x # y /\ p \in EnSitio[x]
    /\ EnSitio'[x] = EnSitio[x] \ {p} /\ EnSitio'[y] = EnSitio[y] \cup {p}
    /\ \A z \in Sitios \ {x, y} : EnSitio'[z] = EnSitio[z]
    /\ UNCHANGED nextPid

\* A step that moves one process: the places still are a partition.
LEMMA ElRepartoTraslada ==
    ASSUME UbicacionInv, NEW p, NEW x, NEW y, Traslada(p, x, y)
    PROVE  Reparte(EnSitio, 1 .. nextPid - 1)'
<1> DEFINE U == 1 .. nextPid - 1
<1>1. Reparte(EnSitio, U) /\ U' = U
  BY DEF UbicacionInv, Traslada
<1> HIDE DEF U
<1>2. p \in U
  BY <1>1 DEF Reparte, Traslada
<1>3. \A z \in Sitios : EnSitio'[z] \subseteq U
  BY <1>1, <1>2 DEF Reparte, Traslada
<1>4. \A u \in U : \E z \in Sitios : u \in EnSitio'[z]
  <2>1. ASSUME NEW u \in U PROVE \E z \in Sitios : u \in EnSitio'[z]
    <3>1. CASE u = p
      BY <3>1 DEF Traslada
    <3>2. CASE u # p
      <4>1. PICK z \in Sitios : u \in EnSitio[z]
        BY <1>1 DEF Reparte
      <4>2. z \in Sitios \ {x, y} \/ z = x \/ z = y
        OBVIOUS
      <4> QED
        BY <3>2, <4>1, <4>2 DEF Traslada
    <3> QED
      BY <3>1, <3>2
  <2> QED
    BY <2>1
<1>5. \A a, b \in Sitios : a # b => EnSitio'[a] \cap EnSitio'[b] = {}
  <2>1. \A a, b \in Sitios : a # b => EnSitio[a] \cap EnSitio[b] = {}
    BY <1>1 DEF Reparte
  <2>2. \A a \in Sitios : a # x => p \notin EnSitio[a]
    BY <2>1 DEF Traslada
  <2>3. \A a \in Sitios : /\ EnSitio'[a] \subseteq EnSitio[a] \cup {p}
                          /\ a # y => p \notin EnSitio'[a]
    BY <2>2 DEF Traslada
  <2> QED
    BY <2>1, <2>3
<1> QED
  BY <1>1, <1>3, <1>4, <1>5 DEF Reparte, U

\* A step that moves one process keeps the invariant.
LEMMA UbicacionTraslada ==
    ASSUME UbicacionInv, NEW p, NEW x, NEW y, Traslada(p, x, y), SinRepetir',
           x # "free",
           listPcbToMemory' = IF y = "free" THEN listPcbToMemory \ {p} ELSE listPcbToMemory
    PROVE  UbicacionInv'
<1> DEFINE U == 1 .. nextPid - 1
<1>1. U' = U /\ listPcbToMemory = U \ EnSitio["free"]
  BY Sitio DEF UbicacionInv, Traslada
<1> HIDE DEF U
<1>2. listPcbToMemory' = U \ EnSitio'["free"]
  BY <1>1 DEF Traslada, Sitios
<1>3. listPcbToMemory' = (U \ ToSet(freePids))'
  BY <1>1, <1>2, SitioPrima
<1> QED
  BY <1>3, ElRepartoTraslada DEF UbicacionInv, U

\* A process in one place is in no other.
LEMMA NoEstaEnOtro ==
    ASSUME UbicacionInv, NEW x \in Sitios, NEW p \in EnSitio[x], NEW y \in Sitios, y # x
    PROVE  p \notin EnSitio[y]
BY DEF UbicacionInv, Reparte

\* Esta, by the set of the elements.
LEMMA EstaEnElConjunto ==
    ASSUME NEW S, NEW s \in Seq(S), NEW p
    PROVE  Esta(s, p) <=> p \in ToSet(s)
BY DEF Esta, ToSet

\* A pop of one queue and a push into another.
LEMMA TrasDesblock ==
    ASSUME TypeOK, UbicacionInv, NEW p \in Pids, Esta(listBlockeds, p), DesblockPcb(p),
           UNCHANGED <<queueNews, currentyRunningPcb, Devuelto, freePids, nextPid,
                       listPcbToMemory>>,
           \A i \in Interfaces : liberando'[i] = liberando[i]
    PROVE  UbicacionInv'
<1>1. /\ queueReadys \in Seq(Pids) /\ queueAux \in Seq(Pids) /\ listBlockeds \in Seq(Pids)
  BY DEF TypeOK, KernelTypeOK, ColasTypeOK
<1>2. p \in EnSitio["blockeds"] /\ IsInjective(listBlockeds)
  BY <1>1, EstaEnElConjunto, Sitio DEF UbicacionInv, SinRepetir
<1>3. /\ EnSitio'["blockeds"] = EnSitio["blockeds"] \ {p}
      /\ IsInjective(listBlockeds')
  BY <1>1, <1>2, Sitio, SitioPrima, ElementosTrasQuitar DEF DesblockPcb
<1>4. Borrando' = Borrando /\ EnSitio'["borrar"] = EnSitio["borrar"]
  BY SitioQuieto
<1>5. /\ p \notin EnSitio["readys"] /\ p \notin EnSitio["aux"]
  BY <1>2, NoEstaEnOtro DEF Sitios
<1>6. CASE queueAux' = Append(queueAux, p) /\ queueReadys' = queueReadys
  <2>1. EnSitio'["aux"] = EnSitio["aux"] \cup {p} /\ IsInjective(queueAux')
    BY <1>1, <1>5, <1>6, Sitio, SitioPrima, ElementosTrasAppend DEF UbicacionInv, SinRepetir
  <2>2. \A z \in Sitios \ {"blockeds", "aux"} : EnSitio'[z] = EnSitio[z]
    BY <1>4, <1>6, SitioQuieto DEF Sitios
  <2>3. Traslada(p, "blockeds", "aux")
    BY <1>2, <1>3, <2>1, <2>2 DEF Traslada, Sitios
  <2>4. SinRepetir'
    BY <1>3, <1>4, <1>6, <2>1 DEF UbicacionInv, SinRepetir, Borrando
  <2> QED
    BY <2>3, <2>4, UbicacionTraslada
<1>7. CASE queueReadys' = Append(queueReadys, p) /\ queueAux' = queueAux
  <2>1. EnSitio'["readys"] = EnSitio["readys"] \cup {p} /\ IsInjective(queueReadys')
    BY <1>1, <1>5, <1>7, Sitio, SitioPrima, ElementosTrasAppend DEF UbicacionInv, SinRepetir
  <2>2. \A z \in Sitios \ {"blockeds", "readys"} : EnSitio'[z] = EnSitio[z]
    BY <1>4, <1>7, SitioQuieto DEF Sitios
  <2>3. Traslada(p, "blockeds", "readys")
    BY <1>2, <1>3, <2>1, <2>2 DEF Traslada, Sitios
  <2>4. SinRepetir'
    BY <1>3, <1>4, <1>7, <2>1 DEF UbicacionInv, SinRepetir, Borrando
  <2> QED
    BY <2>3, <2>4, UbicacionTraslada
<1> QED
  BY <1>6, <1>7 DEF DesblockPcb

\* runnerProcessNewToReady: from NEW to READY.
LEMMA UbicacionNewToReady ==
    ASSUME TypeOK, UbicacionInv, NewToReady
    PROVE  UbicacionInv'
<1>1. CASE EsperarNews \/ EsperarLugar \/ PasarPlanNews
  BY <1>1, SitioQuieto, UbicacionQuieta
     DEF EsperarNews, EsperarLugar, PasarPlanNews, ubicaciones, colas, pids, recursosVars
<1>2. CASE MoverAReady
  <2> DEFINE p == Head(queueNews)
  <2>1. /\ queueNews \in Seq(Pids) /\ queueReadys \in Seq(Pids) /\ queueNews # <<>>
        /\ p \in Pids
    BY <1>2 DEF MoverAReady, TypeOK, KernelTypeOK, ColasTypeOK
  <2>2. /\ queueNews' = Tail(queueNews) /\ queueReadys' = Append(queueReadys, p)
        /\ UNCHANGED <<queueAux, listBlockeds, currentyRunningPcb, respuesta, liberando>>
        /\ UNCHANGED <<freePids, nextPid, listPcbToMemory>>
    BY <1>2 DEF MoverAReady, pids, recursosVars
  <2> HIDE DEF p
  <2>3. /\ p \in EnSitio["news"] /\ EnSitio'["news"] = EnSitio["news"] \ {p}
        /\ IsInjective(queueNews')
    BY <2>1, <2>2, Sitio, SitioPrima, ElementosTrasTail DEF UbicacionInv, SinRepetir, p
  <2>4. p \notin EnSitio["readys"]
    BY <2>3, NoEstaEnOtro DEF Sitios
  <2>5. EnSitio'["readys"] = EnSitio["readys"] \cup {p} /\ IsInjective(queueReadys')
    BY <2>1, <2>2, <2>4, Sitio, SitioPrima, ElementosTrasAppend DEF UbicacionInv, SinRepetir
  <2>6. \A z \in Sitios \ {"news", "readys"} : EnSitio'[z] = EnSitio[z]
    BY <2>2, SitioQuieto DEF Sitios
  <2>7. Traslada(p, "news", "readys")
    BY <2>2, <2>3, <2>5, <2>6 DEF Traslada, Sitios
  <2>8. SinRepetir'
    BY <2>2, <2>3, <2>5 DEF UbicacionInv, SinRepetir, Borrando
  <2> QED
    BY <2>2, <2>7, <2>8, UbicacionTraslada
<1> QED
  BY <1>1, <1>2 DEF NewToReady

\* runnerProcessToExecute: from READY, with priority or without, to the CPU, which
\* nobody has.
LEMMA UbicacionToExecute ==
    ASSUME TypeOK, CpuExclusiva, CurrentEsElQueCorre, UbicacionInv, ToExecute
    PROVE  UbicacionInv'
<1>1. CASE PasarPlanExec \/ EsperarCpu \/ ContarQuantum \/ InterrumpirPorQuantum
  BY <1>1, SitioQuieto, UbicacionQuieta
     DEF PasarPlanExec, EsperarCpu, ContarQuantum, InterrumpirPorQuantum, ubicaciones, colas,
         pids, recursosVars
<1>2. toExecute = "listo" => EnSitio["cpu"] = {}
  <2> SUFFICES ASSUME toExecute = "listo" PROVE EnSitio["cpu"] = {}
    OBVIOUS
  <2>1. /\ socketCpuDispatch = <<>> /\ respuestasCpu = <<>> /\ esperaRecurso = NULL
        /\ sCanExecuteInstruction = 0
    BY ConFicha, FichaUnica
  <2>2. EnLaCpu = 0
    BY <2>1, PcbEnValores DEF EnLaCpu, CpuOcupada, Si
  <2>3. currentyRunningPcb = NULL
    BY <2>2 DEF CurrentEsElQueCorre, Si
  <2> QED
    BY <2>3, Sitio
<1>3. CASE DespacharConPrioridad
  <2> DEFINE p == Head(queueAux)
  <2>1. queueAux \in Seq(Pids) /\ queueAux # <<>> /\ p \in Pids
    BY <1>3 DEF DespacharConPrioridad, ConPrioridad, TypeOK, KernelTypeOK, ColasTypeOK
  <2>2. /\ queueAux' = Tail(queueAux) /\ currentyRunningPcb' = p
        /\ UNCHANGED <<queueNews, queueReadys, listBlockeds, respuesta, liberando>>
        /\ UNCHANGED <<freePids, nextPid, listPcbToMemory>> /\ toExecute = "listo"
    BY <1>3 DEF DespacharConPrioridad, PuedeDespachar, ExecutePcb, pids, recursosVars
  <2> HIDE DEF p
  <2>3. /\ p \in EnSitio["aux"] /\ EnSitio'["aux"] = EnSitio["aux"] \ {p}
        /\ IsInjective(queueAux')
    BY <2>1, <2>2, Sitio, SitioPrima, ElementosTrasTail DEF UbicacionInv, SinRepetir, p
  <2>4. EnSitio'["cpu"] = EnSitio["cpu"] \cup {p}
    BY <1>2, <2>1, <2>2, SitioPrima, ConstantesDeCanales DEF Pids
  <2>5. \A z \in Sitios \ {"aux", "cpu"} : EnSitio'[z] = EnSitio[z]
    BY <2>2, SitioQuieto DEF Sitios
  <2>6. Traslada(p, "aux", "cpu")
    BY <2>2, <2>3, <2>4, <2>5 DEF Traslada, Sitios
  <2>7. SinRepetir'
    BY <2>2, <2>3 DEF UbicacionInv, SinRepetir, Borrando
  <2> QED
    BY <2>2, <2>6, <2>7, UbicacionTraslada
<1>4. CASE Despachar
  <2> DEFINE p == Head(queueReadys)
  <2>1. queueReadys \in Seq(Pids) /\ queueReadys # <<>> /\ p \in Pids
    BY <1>4 DEF Despachar, TypeOK, KernelTypeOK, ColasTypeOK
  <2>2. /\ queueReadys' = Tail(queueReadys) /\ currentyRunningPcb' = p
        /\ UNCHANGED <<queueNews, queueAux, listBlockeds, respuesta, liberando>>
        /\ UNCHANGED <<freePids, nextPid, listPcbToMemory>> /\ toExecute = "listo"
    BY <1>4 DEF Despachar, PuedeDespachar, ExecutePcb, pids, recursosVars
  <2> HIDE DEF p
  <2>3. /\ p \in EnSitio["readys"] /\ EnSitio'["readys"] = EnSitio["readys"] \ {p}
        /\ IsInjective(queueReadys')
    BY <2>1, <2>2, Sitio, SitioPrima, ElementosTrasTail DEF UbicacionInv, SinRepetir, p
  <2>4. EnSitio'["cpu"] = EnSitio["cpu"] \cup {p}
    BY <1>2, <2>1, <2>2, SitioPrima, ConstantesDeCanales DEF Pids
  <2>5. \A z \in Sitios \ {"readys", "cpu"} : EnSitio'[z] = EnSitio[z]
    BY <2>2, SitioQuieto DEF Sitios
  <2>6. Traslada(p, "readys", "cpu")
    BY <2>2, <2>3, <2>4, <2>5 DEF Traslada, Sitios
  <2>7. SinRepetir'
    BY <2>2, <2>3 DEF UbicacionInv, SinRepetir, Borrando
  <2> QED
    BY <2>2, <2>6, <2>7, UbicacionTraslada
<1> QED
  BY <1>1, <1>3, <1>4 DEF ToExecute

\* deletePcb of a process that leaves the place x.
LEMMA TrasDelete ==
    ASSUME TypeOK, UbicacionInv, NEW p \in Pids, NEW x \in Sitios \ {"free"},
           p \in EnSitio[x], EnSitio'[x] = EnSitio[x] \ {p},
           \A z \in Sitios \ {x, "free"} : EnSitio'[z] = EnSitio[z],
           listPcbToMemory' = listPcbToMemory \ {p}, freePids' = Append(freePids, p),
           UNCHANGED nextPid,
           IsInjective(freePids') => SinRepetir'
    PROVE  UbicacionInv'
<1>1. freePids \in Seq(Pids) /\ p \notin ToSet(freePids) /\ IsInjective(freePids)
  BY NoEstaEnOtro, Sitio DEF TypeOK, KernelTypeOK, PidsTypeOK, Sitios, UbicacionInv, SinRepetir
<1>2. EnSitio'["free"] = EnSitio["free"] \cup {p} /\ IsInjective(freePids')
  BY <1>1, Sitio, SitioPrima, ElementosTrasAppend
<1>3. Traslada(p, x, "free")
  BY <1>2 DEF Traslada, Sitios
<1> QED
  BY <1>2, <1>3, UbicacionTraslada

\* checkResponseOfCpu: from the CPU to its hands, and from there to READY, to
\* listBlockeds or out.
LEMMA UbicacionCheckResponseOfCpu ==
    ASSUME TypeOK, CpuExclusiva, CurrentEsElQueCorre, UbicacionInv, CheckResponseOfCpu
    PROVE  UbicacionInv'
<1>1. CASE PcbDevuelto
  <2> DEFINE m == Head(respuestasCpu)
  <2>1. /\ respuestasCpu # <<>> /\ m.op = "PCB" /\ respuesta.pc = "recv"
        /\ currentyRunningPcb' = NULL /\ respuesta'.pid = m.pid /\ respuesta'.pc = "pcb"
        /\ UNCHANGED <<queueNews, queueReadys, queueAux, listBlockeds, liberando>>
        /\ UNCHANGED <<freePids, nextPid, listPcbToMemory>>
    BY <1>1 DEF PcbDevuelto, LeerRespuesta, EnRecv, colas, pids, recursosVars
  <2>2. m = respuestasCpu[1] /\ 1 \in DOMAIN respuestasCpu /\ m \in MensajesDeLaCpu
    BY <2>1, Dialogo, UnMensaje DEF TypeOK, CanalesTypeOK
  <2>3. m.pid \in Pids /\ m.pid # NULL
    BY <2>2, ConstantesDeCanales DEF MensajesDeLaCpu, Pcbs, Pids
  <2> DEFINE p == m.pid
  <2>4. p = currentyRunningPcb
    BY <2>1, <2>2 DEF CurrentEsElQueCorre, EsPcb
  <2>5. Devuelto = {} /\ Devuelto' = {p}
    BY <2>1 DEF Devuelto
  <2>6. /\ p \in EnSitio["cpu"] /\ EnSitio'["cpu"] = EnSitio["cpu"] \ {p}
        /\ EnSitio'["pcb"] = EnSitio["pcb"] \cup {p}
    BY <2>1, <2>3, <2>4, <2>5, Sitio, SitioPrima
  <2>7. \A z \in Sitios \ {"cpu", "pcb"} : EnSitio'[z] = EnSitio[z]
    BY <2>1, SitioQuieto DEF Sitios
  <2>8. Traslada(p, "cpu", "pcb")
    BY <2>1, <2>6, <2>7 DEF Traslada, Sitios
  <2>9. SinRepetir'
    BY <2>1 DEF UbicacionInv, SinRepetir, Borrando
  <2> QED
    BY <2>1, <2>8, <2>9, UbicacionTraslada
<1>2. CASE PcbTermina \/ PcbDesalojado \/ PcbBloqueado
  <2> DEFINE p == respuesta.pid
  <2>1. /\ respuesta.pc = "pcb" /\ respuesta' = EnRecv
        /\ UNCHANGED <<queueNews, queueAux, nextPid, liberando, currentyRunningPcb>>
    BY <1>2 DEF PcbTermina, PcbDesalojado, PcbBloqueado, CpuLibre, recursosVars
  <2>2. p \in Pids
    BY <2>1, PedidoTipo DEF TypeOK, KernelTypeOK
  <2>3. p \in EnSitio["pcb"] /\ EnSitio'["pcb"] = EnSitio["pcb"] \ {p}
    BY <2>1, Sitio, SitioPrima, CamposDeRespuesta DEF Devuelto
  <2>4. p \notin EnSitio["readys"] /\ p \notin EnSitio["blockeds"]
    BY <2>3, NoEstaEnOtro DEF Sitios
  <2>5. /\ queueReadys \in Seq(Pids) /\ listBlockeds \in Seq(Pids)
        /\ SinRepetir
    BY DEF TypeOK, KernelTypeOK, ColasTypeOK, UbicacionInv
  <2> HIDE DEF p
  <2>6. CASE PcbTermina
    <3>1. /\ UNCHANGED <<queueReadys, listBlockeds>>
          /\ listPcbToMemory' = listPcbToMemory \ {p} /\ freePids' = Append(freePids, p)
      BY <2>6 DEF PcbTermina, DeletePcb, p
    <3>2. \A z \in Sitios \ {"pcb", "free"} : EnSitio'[z] = EnSitio[z]
      BY <2>1, <3>1, SitioQuieto DEF Sitios
    <3>3. IsInjective(freePids') => SinRepetir'
      BY <2>1, <2>5, <3>1 DEF SinRepetir, Borrando
    <3> QED
      BY <2>1, <2>2, <2>3, <3>1, <3>2, <3>3, TrasDelete DEF Sitios
  <2>7. CASE PcbDesalojado
    <3>1. /\ queueReadys' = Append(queueReadys, p)
          /\ UNCHANGED <<listBlockeds, listPcbToMemory, freePids>>
      BY <2>7 DEF PcbDesalojado, p
    <3>2. EnSitio'["readys"] = EnSitio["readys"] \cup {p} /\ IsInjective(queueReadys')
      BY <2>2, <2>4, <2>5, <3>1, Sitio, SitioPrima, ElementosTrasAppend DEF SinRepetir
    <3>3. \A z \in Sitios \ {"pcb", "readys"} : EnSitio'[z] = EnSitio[z]
      BY <2>1, <3>1, SitioQuieto DEF Sitios
    <3>4. Traslada(p, "pcb", "readys")
      BY <2>1, <2>3, <3>2, <3>3 DEF Traslada, Sitios
    <3>5. SinRepetir'
      BY <2>1, <2>5, <3>1, <3>2 DEF SinRepetir, Borrando
    <3> QED
      BY <3>1, <3>4, <3>5, UbicacionTraslada
  <2>8. CASE PcbBloqueado
    <3>1. /\ listBlockeds' = Append(listBlockeds, p)
          /\ UNCHANGED <<queueReadys, listPcbToMemory, freePids>>
      BY <2>8 DEF PcbBloqueado, p
    <3>2. EnSitio'["blockeds"] = EnSitio["blockeds"] \cup {p} /\ IsInjective(listBlockeds')
      BY <2>2, <2>4, <2>5, <3>1, Sitio, SitioPrima, ElementosTrasAppend DEF SinRepetir
    <3>3. \A z \in Sitios \ {"pcb", "blockeds"} : EnSitio'[z] = EnSitio[z]
      BY <2>1, <3>1, SitioQuieto DEF Sitios
    <3>4. Traslada(p, "pcb", "blockeds")
      BY <2>1, <2>3, <3>2, <3>3 DEF Traslada, Sitios
    <3>5. SinRepetir'
      BY <2>1, <2>5, <3>1, <3>2 DEF SinRepetir, Borrando
    <3> QED
      BY <3>1, <3>4, <3>5, UbicacionTraslada
  <2> QED
    BY <1>2, <2>6, <2>7, <2>8
<1>3. CASE AtenderPedido
  <2>1. UNCHANGED Devuelto
    BY <1>3, PedidoMensajes DEF Devuelto
  <2> QED
    BY <1>3, <2>1, PedidoQuieto, SitioQuieto, UbicacionQuieta DEF ubicaciones, colas, pids
<1>4. CASE DespertarPorSignal
  <2>1. /\ respuesta.pc = "despertar" /\ respuesta' = EnRecv
        /\ UNCHANGED <<queueNews, currentyRunningPcb, freePids, nextPid, listPcbToMemory,
                       liberando>>
    BY <1>4 DEF DespertarPorSignal, pids, recursosVars
  <2>2. UNCHANGED Devuelto
    BY <2>1, CamposDeRespuesta DEF Devuelto
  <2>3. PICK p \in Pids : Esta(listBlockeds, p) /\ DesblockPcb(p)
    BY <1>4, PrimeroEsta, PrimeroTipo DEF DespertarPorSignal, TypeOK, KernelTypeOK
  <2> QED
    BY <2>1, <2>2, <2>3, SitioQuieto, TrasDesblock
<1> QED
  BY <1>1, <1>2, <1>3, <1>4 DEF CheckResponseOfCpu

\* The threads of the interfaces: out of listBlockeds.
LEMMA UbicacionInterfaces ==
    ASSUME TypeOK, UbicacionInv,
           ArrancarIo \/ (\E p \in Pids : IoFunction(p)) \/ (\E i \in Interfaces : Operate(i))
    PROVE  UbicacionInv'
<1>1. listBlockeds \in Seq(Pids) /\ SinRepetir
  BY DEF TypeOK, KernelTypeOK, ColasTypeOK, UbicacionInv
<1>2. ASSUME NEW p \in Pids, Esta(listBlockeds, p), listBlockeds' = RemoveFirst(listBlockeds, p)
      PROVE  /\ p \in EnSitio["blockeds"] /\ EnSitio'["blockeds"] = EnSitio["blockeds"] \ {p}
             /\ IsInjective(listBlockeds')
  BY <1>1, <1>2, Sitio, SitioPrima, EstaEnElConjunto, ElementosTrasQuitar DEF SinRepetir
<1>3. CASE ArrancarIo
  BY <1>3, SitioQuieto, UbicacionQuieta DEF ArrancarIo, ubicaciones, colas, pids, recursosVars
<1>4. ASSUME NEW p \in Pids, IoFunction(p) PROVE UbicacionInv'
  <2>1. /\ UNCHANGED <<queueNews, queueReadys, queueAux, nextPid, currentyRunningPcb, respuesta,
                       liberando>>
        /\ \/ UNCHANGED <<listBlockeds, listPcbToMemory, freePids>>
           \/ IoSinInterfaz(p)
    BY <1>4 DEF IoFunction, PedirIo, PerderIo, IoSinInterfaz, TerminarIo, recursosVars
  <2>2. CASE UNCHANGED <<listBlockeds, listPcbToMemory, freePids>>
    BY <2>1, <2>2, SitioQuieto, UbicacionQuieta DEF ubicaciones
  <2>3. CASE IoSinInterfaz(p)
    <3>1. /\ Esta(listBlockeds, p) /\ listBlockeds' = RemoveFirst(listBlockeds, p)
          /\ listPcbToMemory' = listPcbToMemory \ {p} /\ freePids' = Append(freePids, p)
      BY <2>3 DEF IoSinInterfaz, DeletePcb
    <3>2. \A z \in Sitios \ {"blockeds", "free"} : EnSitio'[z] = EnSitio[z]
      BY <2>1, SitioQuieto DEF Sitios
    <3>3. IsInjective(freePids') => SinRepetir'
      BY <1>1, <1>2, <2>1, <3>1 DEF SinRepetir, Borrando
    <3> QED
      BY <1>2, <2>1, <3>1, <3>2, <3>3, TrasDelete DEF Sitios
  <2> QED
    BY <2>1, <2>2, <2>3
<1>5. ASSUME NEW i \in Interfaces, Operate(i) PROVE UbicacionInv'
  <2> DEFINE p == Head(ioPedidos[i])
  <2>1. /\ ioPedidos[i] # <<>> /\ Esta(listBlockeds, p) /\ liberando[i] = NULL
        /\ UNCHANGED <<queueNews, nextPid, currentyRunningPcb, respuesta, freePids,
                       listPcbToMemory>>
    BY <1>5 DEF Operate, FinishedIo, FinishedIoError, RespuestaDeInterfaz, pids
  <2>2. p \in Pids
    BY <2>1 DEF TypeOK, KernelTypeOK, IoTypeOK
  <2> HIDE DEF p
  <2>3. CASE FinishedIo(i)
    BY <2>1, <2>2, <2>3, SitioQuieto, TrasDesblock DEF FinishedIo, recursosVars, p
  <2>4. CASE FinishedIoError(i)
    <3>1. /\ listBlockeds' = RemoveFirst(listBlockeds, p)
          /\ liberando' = [liberando EXCEPT ![i] = p]
          /\ UNCHANGED <<queueReadys, queueAux>>
      BY <2>4 DEF FinishedIoError, p
    <3>2. p # NULL /\ liberando \in [Liberadores -> Pids \cup {NULL}] /\ i \in Liberadores
      BY <2>2, ConstantesDeCanales DEF Pids, TypeOK, KernelTypeOK, RecursosTypeOK, Liberadores
    <3>3. /\ liberando'[i] = p
          /\ \A j \in Interfaces : j # i => liberando'[j] = liberando[j]
      BY <3>1, <3>2 DEF Liberadores
    <3>4. Borrando' = Borrando \cup {i} /\ i \notin Borrando
      BY <2>1, <3>2, <3>3 DEF Borrando
    <3>5. EnSitio'["borrar"] = EnSitio["borrar"] \cup {p}
      <4>1. {liberando'[j] : j \in Borrando'} = {liberando[j] : j \in Borrando} \cup {p}
        BY <3>3, <3>4 DEF Borrando
      <4> QED
        BY <4>1, Sitio, SitioPrima
    <3>6. p \notin EnSitio["borrar"]
      BY <1>2, <2>1, <2>2, <3>1, NoEstaEnOtro DEF Sitios
    <3>7. \A j, k \in Borrando' : liberando'[j] = liberando'[k] => j = k
      <4>1. \A j \in Borrando : liberando'[j] = liberando[j] /\ liberando[j] # p
        BY <3>3, <3>4, <3>6, Sitio DEF Borrando
      <4> QED
        BY <1>1, <3>3, <3>4, <4>1 DEF SinRepetir
    <3>8. \A z \in Sitios \ {"blockeds", "borrar"} : EnSitio'[z] = EnSitio[z]
      BY <2>1, <3>1, SitioQuieto DEF Sitios
    <3>9. Traslada(p, "blockeds", "borrar")
      BY <1>2, <2>1, <2>2, <3>1, <3>5, <3>8 DEF Traslada, Sitios
    <3>10. SinRepetir'
      BY <1>1, <1>2, <2>1, <2>2, <3>1, <3>7 DEF SinRepetir
    <3> QED
      BY <2>1, <3>9, <3>10, UbicacionTraslada
  <2> QED
    BY <1>5, <2>3, <2>4 DEF Operate
<1> QED
  BY <1>3, <1>4, <1>5

\* liberarRecursos wakes processes, and in the thread of an interface it ends with
\* deletePcb.
LEMMA UbicacionLiberar ==
    ASSUME TypeOK, UbicacionInv, NEW t \in Liberadores, LiberarRecursos(t)
    PROVE  UbicacionInv'
<1>1. CASE QuitarDeLaLista(t) \/ LiberarUno(t) \/ BuscarAlLiberar(t)
  BY <1>1, SitioQuieto, UbicacionQuieta
     DEF QuitarDeLaLista, LiberarUno, BuscarAlLiberar, ubicaciones, colas, pids
<1>2. CASE DespertarPorLiberar(t)
  <2>1. PICK p \in Pids : Esta(listBlockeds, p) /\ DesblockPcb(p)
    BY <1>2, PrimeroEsta, PrimeroTipo DEF DespertarPorLiberar, TypeOK, KernelTypeOK
  <2>2. UNCHANGED <<queueNews, currentyRunningPcb, respuesta, freePids, nextPid,
                    listPcbToMemory, liberando>>
    BY <1>2 DEF DespertarPorLiberar, pids
  <2> QED
    BY <2>1, <2>2, SitioQuieto, TrasDesblock
<1>3. CASE TerminarDeLiberar(t)
  <2> DEFINE p == liberando[t]
  <2>1. /\ UNCHANGED <<queueNews, queueReadys, queueAux, listBlockeds, nextPid,
                       currentyRunningPcb, respuesta>>
        /\ liberando' = [liberando EXCEPT ![t] = NULL] /\ p # NULL
    BY <1>3 DEF TerminarDeLiberar, colas
  <2>2. liberando \in [Liberadores -> Pids \cup {NULL}] /\ "consola" \notin Interfaces
    BY ConstantesDelKernel DEF TypeOK, KernelTypeOK, RecursosTypeOK
  <2>3. CASE t = "consola"
    <3>1. UNCHANGED <<listPcbToMemory, freePids>>
      BY <1>3, <2>3 DEF TerminarDeLiberar
    <3>2. \A i \in Interfaces : liberando'[i] = liberando[i]
      BY <2>1, <2>2, <2>3 DEF Liberadores
    <3> QED
      BY <2>1, <3>1, <3>2, SitioQuieto, UbicacionQuieta DEF ubicaciones
  <2>4. CASE t # "consola"
    <3>1. listPcbToMemory' = listPcbToMemory \ {p} /\ freePids' = Append(freePids, p)
      BY <1>3, <2>4 DEF TerminarDeLiberar, DeletePcb
    <3>2. /\ t \in Interfaces /\ p \in Pids /\ t \in Borrando
          /\ liberando'[t] = NULL
          /\ \A i \in Interfaces : i # t => liberando'[i] = liberando[i]
      BY <2>1, <2>2, <2>4 DEF Liberadores, Borrando
    <3> HIDE DEF p
    <3>3. Borrando' = Borrando \ {t}
      BY <3>2 DEF Borrando
    <3>4. \A i, j \in Borrando : liberando[i] = liberando[j] => i = j
      BY DEF UbicacionInv, SinRepetir
    <3>5. \A i \in Borrando' : liberando'[i] = liberando[i]
      BY <3>2, <3>3 DEF Borrando
    <3>6. p \in EnSitio["borrar"] /\ EnSitio'["borrar"] = EnSitio["borrar"] \ {p}
      <4>1. {liberando'[j] : j \in Borrando'} = {liberando[j] : j \in Borrando} \ {p}
        BY <3>2, <3>3, <3>4, <3>5 DEF p
      <4> QED
        BY <3>2, <4>1, Sitio, SitioPrima DEF p
    <3>7. \A z \in Sitios \ {"borrar", "free"} : EnSitio'[z] = EnSitio[z]
      BY <2>1, SitioQuieto DEF Sitios
    <3>8. \A i, j \in Borrando' : liberando'[i] = liberando'[j] => i = j
      BY <3>3, <3>4, <3>5
    <3>9. IsInjective(freePids') => SinRepetir'
      BY <2>1, <3>8 DEF UbicacionInv, SinRepetir
    <3> QED
      BY <2>1, <3>1, <3>2, <3>6, <3>7, <3>9, TrasDelete DEF Sitios
  <2> QED
    BY <2>3, <2>4
<1> QED
  BY <1>1, <1>2, <1>3 DEF LiberarRecursos

\* createPcb takes the oldest pid of freePids, or one that was never given out.
LEMMA UbicacionIniciarProceso ==
    ASSUME TypeOK, UbicacionInv, IniciarProceso
    PROVE  UbicacionInv'
<1> DEFINE p == PidNuevo
<1>1. /\ queueNews' = Append(queueNews, p) /\ listPcbToMemory' = listPcbToMemory \cup {p}
      /\ UNCHANGED <<queueReadys, queueAux, listBlockeds, currentyRunningPcb, respuesta,
                     liberando>>
      /\ \/ /\ freePids # <<>> /\ p = Head(freePids) /\ freePids' = Tail(freePids)
            /\ UNCHANGED nextPid
         \/ /\ p = nextPid /\ nextPid <= MaxPid /\ nextPid' = nextPid + 1 /\ UNCHANGED freePids
  BY DEF IniciarProceso, HayPid, PidNuevo, recursosVars
<1>2. /\ queueNews \in Seq(Pids) /\ freePids \in Seq(Pids) /\ nextPid \in Nat \ {0}
      /\ SinRepetir
  BY ConstantesDeCanales DEF TypeOK, KernelTypeOK, ColasTypeOK, PidsTypeOK, UbicacionInv
<1>3. \A z \in Sitios \ {"news", "free"} : EnSitio'[z] = EnSitio[z]
  BY <1>1, SitioQuieto DEF Sitios
<1> HIDE DEF p
<1>4. ASSUME p \in Pids, p \notin EnSitio["news"]
      PROVE  EnSitio'["news"] = EnSitio["news"] \cup {p} /\ IsInjective(queueNews')
  BY <1>1, <1>2, <1>4, Sitio, SitioPrima, ElementosTrasAppend DEF SinRepetir
<1>5. CASE freePids # <<>> /\ p = Head(freePids) /\ freePids' = Tail(freePids)
           /\ UNCHANGED nextPid
  <2>1. /\ p \in ToSet(freePids) /\ ToSet(freePids') = ToSet(freePids) \ {p} /\ p \in Pids
        /\ IsInjective(freePids')
    BY <1>2, <1>5, ElementosTrasTail DEF SinRepetir
  <2>2. p \in EnSitio["free"] /\ EnSitio'["free"] = EnSitio["free"] \ {p}
    BY <2>1, Sitio, SitioPrima
  <2>3. p \notin EnSitio["news"]
    BY <2>2, NoEstaEnOtro DEF Sitios
  <2>4. Traslada(p, "free", "news")
    BY <1>3, <1>4, <1>5, <2>1, <2>2, <2>3 DEF Traslada, Sitios
  <2>5. SinRepetir'
    BY <1>1, <1>2, <1>4, <2>1, <2>3 DEF SinRepetir, Borrando
  <2>6. Reparte(EnSitio, 1 .. nextPid - 1)'
    BY <2>4, ElRepartoTraslada
  <2>7. p \in 1 .. nextPid - 1
    BY <2>2 DEF UbicacionInv, Reparte, Sitios
  <2>8. listPcbToMemory' = ((1 .. nextPid - 1) \ ToSet(freePids))'
    BY <1>1, <1>5, <2>1, <2>7 DEF UbicacionInv
  <2> QED
    BY <2>5, <2>6, <2>8 DEF UbicacionInv
<1>6. CASE p = nextPid /\ nextPid <= MaxPid /\ nextPid' = nextPid + 1 /\ UNCHANGED freePids
  <2> DEFINE U == 1 .. nextPid - 1
  <2>1. p \in Pids /\ p \notin U /\ U' = U \cup {p}
    BY <1>2, <1>6, ConstantesDeCanales DEF Pids
  <2>2. Reparte(EnSitio, U) /\ listPcbToMemory = U \ ToSet(freePids)
    BY DEF UbicacionInv
  <2> HIDE DEF U
  <2>3. \A z \in Sitios : p \notin EnSitio[z]
    BY <2>1, <2>2 DEF Reparte
  <2>4. EnSitio'["news"] = EnSitio["news"] \cup {p} /\ IsInjective(queueNews')
    BY <1>4, <2>1, <2>3 DEF Sitios
  <2>5. EnSitio'["free"] = EnSitio["free"] /\ p \notin ToSet(freePids)
    BY <1>6, <2>3, Sitio, SitioQuieto DEF Sitios
  <2>6. \A z \in Sitios \ {"news"} : EnSitio'[z] = EnSitio[z]
    BY <1>3, <2>5
  <2>7. Reparte(EnSitio', U')
    <3>1. \A z \in Sitios : EnSitio'[z] \subseteq U'
      BY <2>1, <2>2, <2>4, <2>6 DEF Reparte
    <3>2. \A u \in U' : \E z \in Sitios : u \in EnSitio'[z]
      <4>1. p \in EnSitio'["news"] /\ "news" \in Sitios
        BY <2>4 DEF Sitios
      <4>2. ASSUME NEW u \in U PROVE \E z \in Sitios : u \in EnSitio'[z]
        BY <2>2, <2>4, <2>6 DEF Reparte
      <4> QED
        BY <2>1, <4>1, <4>2
    <3>3. \A x, y \in Sitios : x # y => EnSitio'[x] \cap EnSitio'[y] = {}
      BY <2>2, <2>3, <2>4, <2>6 DEF Reparte
    <3> QED
      BY <3>1, <3>2, <3>3 DEF Reparte
  <2>8. listPcbToMemory' = (U \ ToSet(freePids))'
    BY <1>1, <1>6, <2>1, <2>2, <2>5
  <2>9. SinRepetir'
    BY <1>1, <1>2, <1>6, <2>4 DEF SinRepetir, Borrando
  <2> QED
    BY <2>7, <2>8, <2>9 DEF UbicacionInv, Reparte, U
<1> QED
  BY <1>1, <1>5, <1>6

\* The rest of the console: out of its queue, when it is found there.
LEMMA UbicacionConsola ==
    ASSUME TypeOK, UbicacionInv, Consola \/ ConsolaEnCurso
    PROVE  UbicacionInv'
<1> DEFINE p == consola.pid
<1>1. /\ queueNews \in Seq(Pids) /\ queueReadys \in Seq(Pids) /\ queueAux \in Seq(Pids)
      /\ listBlockeds \in Seq(Pids) /\ SinRepetir
  BY DEF TypeOK, KernelTypeOK, ColasTypeOK, UbicacionInv
<1>2. ASSUME NEW b \in BOOLEAN, CambiarPlanificador(b) PROVE UbicacionInv'
  BY <1>2, SitioQuieto, UbicacionQuieta
     DEF CambiarPlanificador, ubicaciones, colas, pids, recursosVars
<1>3. ASSUME NEW v \in Grados, SubirGrado(v) \/ BajarGrado(v) PROVE UbicacionInv'
  BY <1>3, SitioQuieto, UbicacionQuieta
     DEF SubirGrado, BajarGrado, ubicaciones, colas, pids, recursosVars
<1>4. ASSUME NEW q \in Pids, FinalizarProceso(q) PROVE UbicacionInv'
  BY <1>4, SitioQuieto, UbicacionQuieta DEF FinalizarProceso, ubicaciones, colas, pids, recursosVars
<1>5. CASE CrearRecursosDePid \/ QuitarLugar \/ FinalizarEnEjecucion \/ SeguirBuscando
  BY <1>5, SitioQuieto, UbicacionQuieta
     DEF CrearRecursosDePid, QuitarLugar, FinalizarEnEjecucion, SeguirBuscando, Buscar,
         ubicaciones, colas, pids, recursosVars
<1> DEFINE Sale ==
             /\ p \in Pids /\ listPcbToMemory' = listPcbToMemory \ {p}
             /\ freePids' = Append(freePids, p)
             /\ UNCHANGED <<nextPid, currentyRunningPcb, respuesta>>
             /\ \A i \in Interfaces : liberando'[i] = liberando[i]
             /\ Borrando' = Borrando /\ \A i \in Borrando : liberando'[i] = liberando[i]
<1>6. ASSUME NEW pc \in BuscandoPcs, NEW cola \in Seq(Pids), NEW c, Encontrado(pc, cola, c)
      PROVE  p \in ToSet(cola) /\ Sale
  <2>1. /\ p \in Pids /\ liberando \in [Liberadores -> Pids \cup {NULL}]
        /\ "consola" \notin Interfaces
    BY <1>6, ConstantesDelKernel DEF Encontrado, TypeOK, KernelTypeOK, RecursosTypeOK,
       MandosTypeOK, ConsolaTypeOK, BuscandoPcs
  <2>2. \A i \in Interfaces : liberando'[i] = liberando[i]
    BY <1>6, <2>1 DEF Encontrado, Liberadores
  <2> QED
    BY <1>6, <2>1, <2>2, EstaEnElConjunto DEF Encontrado, DeletePcb, Borrando
<1> HIDE DEF p, Sale
<1>7. CASE FinalizarNew
  <2>1. /\ Encontrado("news", queueNews, "FINALIZAR_NEW")
        /\ queueNews' = RemoveFirst(queueNews, p)
        /\ UNCHANGED <<queueReadys, queueAux, listBlockeds>>
    BY <1>7 DEF FinalizarNew, p
  <2>2. p \in ToSet(queueNews) /\ Sale
    BY <1>1, <1>6, <2>1 DEF BuscandoPcs
  <2>3. /\ p \in EnSitio["news"] /\ EnSitio'["news"] = EnSitio["news"] \ {p}
        /\ IsInjective(queueNews')
    BY <1>1, <2>1, <2>2, Sitio, SitioPrima, ElementosTrasQuitar DEF SinRepetir
  <2>4. \A z \in Sitios \ {"news", "free"} : EnSitio'[z] = EnSitio[z]
    BY <2>1, <2>2, SitioQuieto DEF Sitios, Sale
  <2>5. IsInjective(freePids') => SinRepetir'
    BY <1>1, <2>1, <2>2, <2>3 DEF SinRepetir, Sale
  <2> QED
    BY <2>2, <2>3, <2>4, <2>5, TrasDelete DEF Sitios, Sale
<1>8. CASE FinalizarReady
  <2>1. /\ Encontrado("readys", queueReadys, "FINALIZAR_READY")
        /\ queueReadys' = RemoveFirst(queueReadys, p)
        /\ UNCHANGED <<queueNews, queueAux, listBlockeds>>
    BY <1>8 DEF FinalizarReady, p
  <2>2. p \in ToSet(queueReadys) /\ Sale
    BY <1>1, <1>6, <2>1 DEF BuscandoPcs
  <2>3. /\ p \in EnSitio["readys"] /\ EnSitio'["readys"] = EnSitio["readys"] \ {p}
        /\ IsInjective(queueReadys')
    BY <1>1, <2>1, <2>2, Sitio, SitioPrima, ElementosTrasQuitar DEF SinRepetir
  <2>4. \A z \in Sitios \ {"readys", "free"} : EnSitio'[z] = EnSitio[z]
    BY <2>1, <2>2, SitioQuieto DEF Sitios, Sale
  <2>5. IsInjective(freePids') => SinRepetir'
    BY <1>1, <2>1, <2>2, <2>3 DEF SinRepetir, Sale
  <2> QED
    BY <2>2, <2>3, <2>4, <2>5, TrasDelete DEF Sitios, Sale
<1>9. CASE FinalizarAux
  <2>1. /\ Encontrado("aux", queueAux, "FINALIZAR_READY")
        /\ queueAux' = RemoveFirst(queueAux, p)
        /\ UNCHANGED <<queueNews, queueReadys, listBlockeds>>
    BY <1>9 DEF FinalizarAux, p
  <2>2. p \in ToSet(queueAux) /\ Sale
    BY <1>1, <1>6, <2>1 DEF BuscandoPcs
  <2>3. /\ p \in EnSitio["aux"] /\ EnSitio'["aux"] = EnSitio["aux"] \ {p}
        /\ IsInjective(queueAux')
    BY <1>1, <2>1, <2>2, Sitio, SitioPrima, ElementosTrasQuitar DEF SinRepetir
  <2>4. \A z \in Sitios \ {"aux", "free"} : EnSitio'[z] = EnSitio[z]
    BY <2>1, <2>2, SitioQuieto DEF Sitios, Sale
  <2>5. IsInjective(freePids') => SinRepetir'
    BY <1>1, <2>1, <2>2, <2>3 DEF SinRepetir, Sale
  <2> QED
    BY <2>2, <2>3, <2>4, <2>5, TrasDelete DEF Sitios, Sale
<1>10. CASE FinalizarBlocked
  <2>1. /\ Encontrado("blockeds", listBlockeds, "FINALIZAR_BLOCKED")
        /\ listBlockeds' = RemoveFirst(listBlockeds, p)
        /\ UNCHANGED <<queueNews, queueReadys, queueAux>>
    BY <1>10 DEF FinalizarBlocked, p
  <2>2. p \in ToSet(listBlockeds) /\ Sale
    BY <1>1, <1>6, <2>1 DEF BuscandoPcs
  <2>3. /\ p \in EnSitio["blockeds"] /\ EnSitio'["blockeds"] = EnSitio["blockeds"] \ {p}
        /\ IsInjective(listBlockeds')
    BY <1>1, <2>1, <2>2, Sitio, SitioPrima, ElementosTrasQuitar DEF SinRepetir
  <2>4. \A z \in Sitios \ {"blockeds", "free"} : EnSitio'[z] = EnSitio[z]
    BY <2>1, <2>2, SitioQuieto DEF Sitios, Sale
  <2>5. IsInjective(freePids') => SinRepetir'
    BY <1>1, <2>1, <2>2, <2>3 DEF SinRepetir, Sale
  <2> QED
    BY <2>2, <2>3, <2>4, <2>5, TrasDelete DEF Sitios, Sale
<1>11. CASE IniciarProceso
  BY <1>11, UbicacionIniciarProceso
<1> QED
  BY <1>2, <1>3, <1>4, <1>5, <1>7, <1>8, <1>9, <1>10, <1>11 DEF Consola, ConsolaEnCurso

\* The inductive invariant holds, whatever the operator does.
LEMMA UbicacionInvariante == Spec => []UbicacionInv
<1>1. Init => UbicacionInv
  <2> SUFFICES ASSUME Init PROVE UbicacionInv
    OBVIOUS
  <2>1. /\ queueNews = <<>> /\ queueReadys = <<>> /\ queueAux = <<>> /\ listBlockeds = <<>>
        /\ freePids = <<>> /\ listPcbToMemory = {} /\ nextPid = 1
        /\ currentyRunningPcb = NULL /\ Devuelto = {} /\ Borrando = {}
    BY DEF Init, KernelInit, EnRecv, Devuelto, Borrando, Liberadores
  <2>2. ToSet(<<>>) = {} /\ IsInjective(<<>>) /\ 1 .. nextPid - 1 = {}
    BY <2>1 DEF ToSet, IsInjective
  <2>3. \A x \in Sitios : EnSitio[x] = {}
    BY <2>1, <2>2, Sitio DEF Sitios
  <2> QED
    BY <2>1, <2>2, <2>3 DEF UbicacionInv, Reparte, SinRepetir
<1>2. TypeOK /\ CpuExclusiva /\ CurrentEsElQueCorre /\ UbicacionInv /\ [Next]_vars
        => UbicacionInv'
  <2> SUFFICES ASSUME TypeOK, CpuExclusiva, CurrentEsElQueCorre, UbicacionInv, [Next]_vars
               PROVE  UbicacionInv'
    OBVIOUS
  <2>1. CASE UNCHANGED kernelVars
    BY <2>1, SitioQuieto, UbicacionQuieta DEF kernelVars, colas, pids, recursosVars, ubicaciones
  <2>2. CASE UNCHANGED vars
    BY <2>1, <2>2 DEF vars
  <2>3. CASE Caer
    BY <2>3, SitioQuieto, UbicacionQuieta DEF Caer, colas, pids, recursosVars, ubicaciones
  <2>4. CASE Next
    BY <2>1, <2>3, <2>4, UbicacionNewToReady, UbicacionToExecute, UbicacionCheckResponseOfCpu,
       UbicacionInterfaces, UbicacionLiberar, UbicacionConsola DEF Next, PasoDeKernel, PasoDeCpu
  <2> QED
    BY <2>2, <2>4
<1> QED
  BY <1>1, <1>2, TiposCorrectos, ExclusionDeLaCpu, CurrentDelQueCorre, PTL DEF Spec

\* The list of the values of f at a finite set of indices.
LEMMA ElementosDeLista ==
    ASSUME NEW S, NEW f, NEW I, IsFiniteSet(I), \A i \in I : f[i] \in S
    PROVE  /\ ListaDe(f, I) \in Seq(S)
           /\ ToSet(ListaDe(f, I)) = {f[i] : i \in I}
           /\ (\A i, j \in I : f[i] = f[j] => i = j) => IsInjective(ListaDe(f, I))
<1> DEFINE n == Cardinality(I)
<1> DEFINE s == SetToSeq(I)
<1>1. n \in Nat /\ ExistsBijection(1 .. n, I)
  BY FS_CardinalityType
<1>2. \E g \in [1 .. n -> I] : IsInjective(g)
  <2>1. PICK g \in Bijection(1 .. n, I) : TRUE
    BY <1>1 DEF ExistsBijection
  <2> QED
    BY <2>1 DEF Bijection, Injection
<1>3. s \in [1 .. n -> I] /\ IsInjective(s)
  <2>1. s = CHOOSE g \in [1 .. n -> I] : IsInjective(g)
    BY DEF SetToSeq
  <2> HIDE DEF s
  <2> QED
    BY <1>2, <2>1
<1> HIDE DEF n, s
<1>4. \A i \in I : \E k \in 1 .. n : s[k] = i
  <2>1. s \in Injection(1 .. n, I)
    BY <1>3 DEF Injection, IsInjective
  <2>2. IsFiniteSet(1 .. n) /\ Cardinality(1 .. n) = n
    BY <1>1, FS_Interval
  <2>3. s \in Surjection(1 .. n, I)
    BY <2>1, <2>2, FS_Injection DEF n
  <2> QED
    BY <2>3 DEF Surjection
<1> DEFINE l == [k \in 1 .. n |-> f[s[k]]]
<1>5. ListaDe(f, I) = l
  BY <1>3 DEF ListaDe, s
<1>6. l \in Seq(S) /\ DOMAIN l = 1 .. n
  BY <1>1, <1>3
<1>7. ToSet(l) = {f[i] : i \in I}
  BY <1>3, <1>4 DEF ToSet
<1>8. (\A i, j \in I : f[i] = f[j] => i = j) => IsInjective(l)
  BY <1>3 DEF IsInjective
<1> HIDE DEF l
<1> QED
  BY <1>5, <1>6, <1>7, <1>8

\* Two lists one after the other.
LEMMA ElementosTrasConcat ==
    ASSUME NEW S, NEW s \in Seq(S), NEW t \in Seq(S)
    PROVE  /\ s \o t \in Seq(S)
           /\ ToSet(s \o t) = ToSet(s) \cup ToSet(t)
           /\ IsInjective(s) /\ IsInjective(t) /\ ToSet(s) \cap ToSet(t) = {}
                => IsInjective(s \o t)
<1> DEFINE u == s \o t
<1>1. /\ u \in Seq(S) /\ Len(u) = Len(s) + Len(t)
      /\ \A i \in 1 .. Len(s) + Len(t) : u[i] = IF i <= Len(s) THEN s[i] ELSE t[i - Len(s)]
  BY ConcatProperties
<1>2. /\ DOMAIN s = 1 .. Len(s) /\ DOMAIN t = 1 .. Len(t) /\ Len(s) \in Nat /\ Len(t) \in Nat
  OBVIOUS
<1> HIDE DEF u
<1>3. DOMAIN u = 1 .. Len(s) + Len(t)
  BY <1>1, <1>2
<1>4. /\ \A i \in 1 .. Len(s) : i \in DOMAIN u /\ u[i] = s[i]
      /\ \A i \in 1 .. Len(t) : Len(s) + i \in DOMAIN u /\ u[Len(s) + i] = t[i]
  <2>1. ASSUME NEW i \in 1 .. Len(s) PROVE i \in DOMAIN u /\ u[i] = s[i]
    BY <1>1, <1>2, <1>3
  <2>2. ASSUME NEW i \in 1 .. Len(t) PROVE Len(s) + i \in DOMAIN u /\ u[Len(s) + i] = t[i]
    <3>1. /\ Len(s) + i \in 1 .. Len(s) + Len(t) /\ ~(Len(s) + i <= Len(s))
          /\ Len(s) + i - Len(s) = i
      BY <1>2
    <3> QED
      BY <1>1, <1>3, <3>1
  <2> QED
    BY <2>1, <2>2
<1>5. \A k \in DOMAIN u : \/ k \in 1 .. Len(s) /\ u[k] = s[k]
                          \/ /\ k - Len(s) \in 1 .. Len(t) /\ u[k] = t[k - Len(s)]
                             /\ k \in Int
  BY <1>1, <1>2, <1>3
<1>6. ToSet(u) = ToSet(s) \cup ToSet(t)
  <2>1. ASSUME NEW x \in ToSet(u) PROVE x \in ToSet(s) \cup ToSet(t)
    BY <1>2, <1>5 DEF ToSet
  <2>2. ASSUME NEW x \in ToSet(s) PROVE x \in ToSet(u)
    BY <1>2, <1>4 DEF ToSet
  <2>3. ASSUME NEW x \in ToSet(t) PROVE x \in ToSet(u)
    BY <1>2, <1>4 DEF ToSet
  <2> QED
    BY <2>1, <2>2, <2>3
<1>7. ASSUME IsInjective(s), IsInjective(t), ToSet(s) \cap ToSet(t) = {}
      PROVE  IsInjective(u)
  <2>1. SUFFICES ASSUME NEW a \in DOMAIN u, NEW b \in DOMAIN u, u[a] = u[b] PROVE a = b
    BY DEF IsInjective
  <2>2. \A i \in 1 .. Len(s), j \in 1 .. Len(t) : s[i] # t[j]
    BY <1>2, <1>7 DEF ToSet
  <2>3. CASE a \in 1 .. Len(s) /\ u[a] = s[a] /\ b \in 1 .. Len(s) /\ u[b] = s[b]
    BY <1>2, <1>7, <2>1, <2>3 DEF IsInjective
  <2>4. CASE /\ a - Len(s) \in 1 .. Len(t) /\ u[a] = t[a - Len(s)]
             /\ b - Len(s) \in 1 .. Len(t) /\ u[b] = t[b - Len(s)] /\ a \in Int /\ b \in Int
    <3>1. a - Len(s) = b - Len(s)
      BY <1>2, <1>7, <2>1, <2>4 DEF IsInjective
    <3> QED
      BY <1>2, <2>4, <3>1
  <2> QED
    BY <1>5, <2>1, <2>2, <2>3, <2>4
<1> QED
  BY <1>1, <1>6, <1>7 DEF u

\* The PCBs of a socket of the dialogue: the one at its head, or none.
LEMMA PcbsDelCanal ==
    ASSUME NEW M, NEW canal \in Seq(M), Len(canal) <= 1,
           \A m \in M : EsPcb(m) => m.pid \in Pids
    PROVE  /\ PcbsDe(canal) \in Seq(Pids) /\ IsInjective(PcbsDe(canal))
           /\ PcbEn(canal) = 0 => ToSet(PcbsDe(canal)) = {}
           /\ PcbEn(canal) = 1 => /\ 1 \in DOMAIN canal /\ EsPcb(canal[1])
                                  /\ ToSet(PcbsDe(canal)) = {canal[1].pid}
<1> DEFINE f == [i \in DOMAIN canal |-> canal[i].pid]
<1> DEFINE I == {i \in DOMAIN canal : EsPcb(canal[i])}
<1>1. Len(canal) \in Nat /\ DOMAIN canal = 1 .. Len(canal)
  OBVIOUS
<1>2. I \subseteq {1} /\ I \subseteq DOMAIN canal
  BY <1>1
<1>3. IsFiniteSet(I)
  BY <1>2, FS_Singleton, FS_Subset
<1>4. \A i \in I : f[i] \in Pids /\ f[i] = canal[i].pid
  BY <1>1
<1>5. \A i, j \in I : f[i] = f[j] => i = j
  BY <1>2
<1>6. PcbsDe(canal) = ListaDe(f, I)
  BY DEF PcbsDe
<1>7. PcbEn(canal) = Si(1 \in I)
  <2>1. CASE canal = <<>>
    BY <2>1 DEF PcbEn, Si
  <2>2. CASE canal # <<>>
    BY <1>1, <2>2, UnMensaje DEF PcbEn, Si
  <2> QED
    BY <2>1, <2>2
<1>8. 1 \in I => 1 \in DOMAIN canal /\ EsPcb(canal[1])
  OBVIOUS
<1> HIDE DEF f, I
<1>9. /\ ListaDe(f, I) \in Seq(Pids) /\ ToSet(ListaDe(f, I)) = {f[i] : i \in I}
      /\ IsInjective(ListaDe(f, I))
  <2>1. \A i \in I : f[i] \in Pids
    BY <1>4
  <2> QED
    BY <1>3, <1>5, <2>1, ElementosDeLista
<1>10. CASE 1 \in I
  <2>1. I = {1} /\ PcbEn(canal) = 1
    BY <1>2, <1>7, <1>10 DEF Si
  <2> QED
    BY <1>4, <1>6, <1>8, <1>9, <1>10, <2>1
<1>11. CASE 1 \notin I
  <2>1. I = {} /\ PcbEn(canal) = 0
    BY <1>2, <1>7, <1>11 DEF Si
  <2> QED
    BY <1>6, <1>9, <2>1
<1> QED
  BY <1>10, <1>11

\* The process of the dispatch, of the CPU or of its answer is the one in
\* currentyRunningPcb, and it is in one of the three.
LEMMA ElementosFueraDeColas ==
    ASSUME TypeOK, CpuExclusiva, CurrentEsElQueCorre,
           EnSitio["cpu"] \cap EnSitio["pcb"] = {}
    PROVE  /\ FueraDeColas \in Seq(Pids) /\ IsInjective(FueraDeColas)
           /\ ToSet(FueraDeColas) = EnSitio["cpu"] \cup EnSitio["pcb"]
<1> DEFINE a == PcbsDe(socketCpuDispatch)
<1> DEFINE b == IF CpuOcupada THEN <<pcbExecute>> ELSE <<>>
<1> DEFINE c == PcbsDe(respuestasCpu)
<1> DEFINE d == IF respuesta.pc = "pcb" THEN <<respuesta.pid>> ELSE <<>>
<1>1. ASSUME NEW p \in Pids
      PROVE  <<p>> \in Seq(Pids) /\ IsInjective(<<p>>) /\ ToSet(<<p>>) = {p}
  BY DEF IsInjective, ToSet
<1>2. <<>> \in Seq(Pids) /\ IsInjective(<<>>) /\ ToSet(<<>>) = {}
  BY DEF IsInjective, ToSet
<1>3. /\ socketCpuDispatch \in Seq(MensajesDelKernel) /\ respuestasCpu \in Seq(MensajesDeLaCpu)
      /\ Len(socketCpuDispatch) <= 1 /\ Len(respuestasCpu) <= 1
  BY Dialogo DEF TypeOK, CanalesTypeOK
<1>4. /\ \A m \in MensajesDelKernel : EsPcb(m) => m.pid \in Pids
      /\ \A m \in MensajesDeLaCpu : EsPcb(m) => m.pid \in Pids
  BY DEF MensajesDelKernel, MensajesDeLaCpu, Pcbs, EsPcb, Respuestas
<1>5. /\ a \in Seq(Pids) /\ IsInjective(a) /\ c \in Seq(Pids) /\ IsInjective(c)
      /\ ToSet(a) = IF PcbEn(socketCpuDispatch) = 1 THEN {currentyRunningPcb} ELSE {}
      /\ ToSet(c) = IF PcbEn(respuestasCpu) = 1 THEN {currentyRunningPcb} ELSE {}
  BY <1>3, <1>4, PcbsDelCanal, PcbEnValores DEF CurrentEsElQueCorre
<1>6. /\ b \in Seq(Pids) /\ IsInjective(b)
      /\ ToSet(b) = IF CpuOcupada THEN {currentyRunningPcb} ELSE {}
  <2>1. CpuOcupada => pcbExecute \in Pids /\ pcbExecute = currentyRunningPcb
    BY DEF TypeOK, CpuTypeOK, CurrentEsElQueCorre
  <2> QED
    BY <1>1, <1>2, <2>1
<1>7. /\ d \in Seq(Pids) /\ IsInjective(d) /\ ToSet(d) = EnSitio["pcb"]
  <2>1. respuesta.pc = "pcb" => respuesta.pid \in Pids
    BY PedidoTipo DEF TypeOK, KernelTypeOK
  <2> QED
    BY <1>1, <1>2, <2>1, Sitio DEF Devuelto
<1>8. FueraDeColas = a \o b \o c \o d
  BY DEF FueraDeColas
<1> HIDE DEF a, b, c, d
<1>9. /\ ToSet(a) \cap ToSet(b) = {} /\ (ToSet(a) \cup ToSet(b)) \cap ToSet(c) = {}
      /\ ToSet(a) \cup ToSet(b) \cup ToSet(c) = EnSitio["cpu"]
  <2>1. /\ PcbEn(socketCpuDispatch) + Si(CpuOcupada) + PcbEn(respuestasCpu)
             = Si(currentyRunningPcb # NULL)
        /\ PcbEn(socketCpuDispatch) \in {0, 1} /\ PcbEn(respuestasCpu) \in {0, 1}
    BY PcbEnValores DEF CurrentEsElQueCorre, EnLaCpu
  <2>2. CASE currentyRunningPcb = NULL
    <3>1. PcbEn(socketCpuDispatch) = 0 /\ PcbEn(respuestasCpu) = 0 /\ ~CpuOcupada
      BY <2>1, <2>2 DEF Si
    <3> QED
      BY <1>5, <1>6, <2>2, <3>1, Sitio
  <2>3. CASE currentyRunningPcb # NULL
    <3>1. \/ PcbEn(socketCpuDispatch) = 1 /\ PcbEn(respuestasCpu) = 0 /\ ~CpuOcupada
          \/ PcbEn(socketCpuDispatch) = 0 /\ PcbEn(respuestasCpu) = 1 /\ ~CpuOcupada
          \/ PcbEn(socketCpuDispatch) = 0 /\ PcbEn(respuestasCpu) = 0 /\ CpuOcupada
      BY <2>1, <2>3 DEF Si
    <3> QED
      BY <1>5, <1>6, <2>3, <3>1, Sitio
  <2> QED
    BY <2>2, <2>3
<1>10. /\ a \o b \in Seq(Pids) /\ IsInjective(a \o b) /\ ToSet(a \o b) = ToSet(a) \cup ToSet(b)
  BY <1>5, <1>6, <1>9, ElementosTrasConcat
<1> DEFINE ab == a \o b
<1> HIDE DEF ab
<1>11. /\ ab \o c \in Seq(Pids) /\ IsInjective(ab \o c) /\ ToSet(ab \o c) = EnSitio["cpu"]
  <2>1. ab \in Seq(Pids) /\ IsInjective(ab) /\ ToSet(ab) = ToSet(a) \cup ToSet(b)
    BY <1>10 DEF ab
  <2>2. /\ c \in Seq(Pids) /\ IsInjective(c) /\ ToSet(ab) \cap ToSet(c) = {}
        /\ ToSet(ab) \cup ToSet(c) = EnSitio["cpu"]
    BY <1>5, <1>9, <2>1
  <2>3. /\ ab \o c \in Seq(Pids) /\ ToSet(ab \o c) = ToSet(ab) \cup ToSet(c)
        /\ IsInjective(ab) /\ IsInjective(c) /\ ToSet(ab) \cap ToSet(c) = {}
             => IsInjective(ab \o c)
    BY <2>1, <2>2, ElementosTrasConcat
  <2> QED
    BY <2>1, <2>2, <2>3
<1> DEFINE abc == ab \o c
<1> HIDE DEF abc
<1>12. /\ abc \o d \in Seq(Pids) /\ IsInjective(abc \o d)
       /\ ToSet(abc \o d) = EnSitio["cpu"] \cup EnSitio["pcb"]
  <2>1. abc \in Seq(Pids) /\ IsInjective(abc) /\ ToSet(abc) = EnSitio["cpu"]
    BY <1>11 DEF abc
  <2> QED
    BY <1>7, <2>1, ElementosTrasConcat
<1> QED
  BY <1>8, <1>12 DEF abc, ab

\* Ubicados lists the processes of every place but free, each of them once.
LEMMA ElementosUbicados ==
    ASSUME TypeOK, CpuExclusiva, CurrentEsElQueCorre, UbicacionInv
    PROVE  /\ IsInjective(Ubicados)
           /\ ToSet(Ubicados) = UNION {EnSitio[x] : x \in Sitios \ {"free"}}
<1> DEFINE e(x) == EnSitio[x]
<1>1. \A x, y \in Sitios : x # y => e(x) \cap e(y) = {}
  BY DEF UbicacionInv, Reparte
<1>2. /\ queueNews \in Seq(Pids) /\ queueReadys \in Seq(Pids) /\ queueAux \in Seq(Pids)
      /\ listBlockeds \in Seq(Pids)
      /\ IsInjective(queueNews) /\ IsInjective(queueReadys) /\ IsInjective(queueAux)
      /\ IsInjective(listBlockeds)
      /\ ToSet(queueNews) = e("news") /\ ToSet(queueReadys) = e("readys")
      /\ ToSet(queueAux) = e("aux") /\ ToSet(listBlockeds) = e("blockeds")
  BY Sitio DEF TypeOK, KernelTypeOK, ColasTypeOK, UbicacionInv, SinRepetir
<1>3. /\ FueraDeColas \in Seq(Pids) /\ IsInjective(FueraDeColas)
      /\ ToSet(FueraDeColas) = e("cpu") \cup e("pcb")
  BY <1>1, ElementosFueraDeColas DEF Sitios
<1>4. /\ PorBorrar \in Seq(Pids) /\ IsInjective(PorBorrar) /\ ToSet(PorBorrar) = e("borrar")
  <2>1. IsFiniteSet(Borrando)
    BY ConstantesDelKernel, FS_Subset DEF Borrando
  <2>2. \A i \in Borrando : liberando[i] \in Pids
    BY DEF Borrando, TypeOK, KernelTypeOK, RecursosTypeOK, Liberadores
  <2>3. \A i, j \in Borrando : liberando[i] = liberando[j] => i = j
    BY DEF UbicacionInv, SinRepetir
  <2>4. PorBorrar = ListaDe(liberando, Borrando)
    BY DEF PorBorrar, Borrando
  <2> DEFINE I == Borrando
  <2> HIDE DEF I
  <2>5. /\ ListaDe(liberando, I) \in Seq(Pids) /\ IsInjective(ListaDe(liberando, I))
        /\ ToSet(ListaDe(liberando, I)) = {liberando[i] : i \in I}
    BY <2>1, <2>2, <2>3, ElementosDeLista DEF I
  <2> QED
    BY <2>4, <2>5, Sitio DEF I
<1> HIDE DEF e
<1>5. Ubicados = queueNews \o queueReadys \o queueAux \o listBlockeds \o FueraDeColas \o PorBorrar
  BY DEF Ubicados
<1>6. ASSUME NEW l1 \in Seq(Pids), NEW l2 \in Seq(Pids), IsInjective(l1), IsInjective(l2),
             ToSet(l1) \cap ToSet(l2) = {}
      PROVE  /\ l1 \o l2 \in Seq(Pids) /\ IsInjective(l1 \o l2)
             /\ ToSet(l1 \o l2) = ToSet(l1) \cup ToSet(l2)
  BY <1>6, ElementosTrasConcat
<1> DEFINE a == queueNews \o queueReadys
<1> DEFINE b == a \o queueAux
<1> DEFINE c == b \o listBlockeds
<1> DEFINE d == c \o FueraDeColas
<1>7. Ubicados = d \o PorBorrar
  BY <1>5
<1>8. a \in Seq(Pids) /\ IsInjective(a) /\ ToSet(a) = e("news") \cup e("readys")
  BY <1>1, <1>2, <1>6 DEF Sitios
<1> HIDE DEF a
<1>9. /\ b \in Seq(Pids) /\ IsInjective(b)
      /\ ToSet(b) = e("news") \cup e("readys") \cup e("aux")
  <2>1. ToSet(a) \cap ToSet(queueAux) = {}
    BY <1>1, <1>2, <1>8 DEF Sitios
  <2> QED
    BY <1>2, <1>6, <1>8, <2>1
<1> HIDE DEF b
<1>10. /\ c \in Seq(Pids) /\ IsInjective(c)
       /\ ToSet(c) = e("news") \cup e("readys") \cup e("aux") \cup e("blockeds")
  <2>1. ToSet(b) \cap ToSet(listBlockeds) = {}
    BY <1>1, <1>2, <1>9 DEF Sitios
  <2> QED
    BY <1>2, <1>6, <1>9, <2>1
<1> HIDE DEF c
<1>11. /\ d \in Seq(Pids) /\ IsInjective(d)
       /\ ToSet(d) = e("news") \cup e("readys") \cup e("aux") \cup e("blockeds")
                      \cup e("cpu") \cup e("pcb")
  <2>1. ToSet(c) \cap ToSet(FueraDeColas) = {}
    BY <1>1, <1>3, <1>10 DEF Sitios
  <2> QED
    BY <1>3, <1>6, <1>10, <2>1
<1> HIDE DEF d
<1>12. ToSet(d) \cap ToSet(PorBorrar) = {}
  BY <1>1, <1>4, <1>11 DEF Sitios
<1>13. /\ IsInjective(Ubicados)
       /\ ToSet(Ubicados) = e("news") \cup e("readys") \cup e("aux") \cup e("blockeds")
                             \cup e("cpu") \cup e("pcb") \cup e("borrar")
  BY <1>4, <1>6, <1>7, <1>11, <1>12
<1>14. UNION {EnSitio[x] : x \in Sitios \ {"free"}}
         = e("news") \cup e("readys") \cup e("aux") \cup e("blockeds")
             \cup e("cpu") \cup e("pcb") \cup e("borrar")
  BY DEF Sitios, e
<1> QED
  BY <1>13, <1>14

\* Every pid that was ever given out is in one place, whatever the interleaving of
\* the planners, the CPU's answers, the interfaces and FINALIZAR_PROCESO: see
\* CadaPidEnUnLugar.
THEOREM CadaPidUbicado == Spec => []CadaPidEnUnLugar
<1>1. TypeOK /\ CpuExclusiva /\ CurrentEsElQueCorre /\ UbicacionInv => CadaPidEnUnLugar
  <2> SUFFICES ASSUME TypeOK, CpuExclusiva, CurrentEsElQueCorre, UbicacionInv
               PROVE  CadaPidEnUnLugar
    OBVIOUS
  <2> DEFINE U == 1 .. nextPid - 1
  <2>1. /\ Reparte(EnSitio, U) /\ listPcbToMemory = U \ EnSitio["free"]
        /\ ToSet(freePids) = EnSitio["free"] /\ IsInjective(freePids)
    BY Sitio DEF UbicacionInv, SinRepetir
  <2> HIDE DEF U
  <2>2. /\ IsInjective(Ubicados)
        /\ ToSet(Ubicados) = UNION {EnSitio[x] : x \in Sitios \ {"free"}}
    BY ElementosUbicados
  <2>3. ToSet(Ubicados) = U \ EnSitio["free"] /\ EnSitio["free"] \subseteq U
    <3>1. "free" \in Sitios
      BY DEF Sitios
    <3>2. ASSUME NEW x PROVE x \in ToSet(Ubicados) <=> \E z \in Sitios \ {"free"} : x \in EnSitio[z]
      BY <2>2
    <3> QED
      BY <2>1, <3>1, <3>2 DEF Reparte
  <2> QED
    BY <2>1, <2>2, <2>3 DEF CadaPidEnUnLugar, U
<1> QED
  BY <1>1, TiposCorrectos, ExclusionDeLaCpu, CurrentDelQueCorre, UbicacionInvariante, PTL

-------------------------------------------------------------------------------
(* Why a process is blocked, while the operator finishes none and the processes *)
(* that use an interface take no resource.                                      *)

\* The program of p has an instruction of kind k.
Usa(p, k) == \E n \in DOMAIN Programas[p] : k \in Programas[p][n]

\* A blocked process waits for an interface or for a resource, and its program has
\* the instruction that it waits in.
ConMotivo(c, p) ==
    /\ c.reason = "IO" => c.info = "IO" /\ Usa(p, "IO")
    /\ c.reason = "WAIT" => c.info \in Recursos /\ Usa(p, "WAIT")

Motivos == \A p \in Pids : ConMotivo(contexto[p], p)

BloqueadosConMotivo ==
    \A p \in Pids : Esta(listBlockeds, p) => contexto[p].reason \in {"IO", "WAIT"}

\* A request, what checkResponseOfCpu keeps of it and its BLOCK come from an
\* instruction of the program.
PedidosDePrograma ==
    /\ respuestasCpu # <<>> /\ Head(respuestasCpu).op \in {"WAIT", "SIGNAL"}
         => Usa(Head(respuestasCpu).pid, Head(respuestasCpu).op)
    /\ respuesta.pc = "restar" => respuesta.pid = pcbExecute
    /\ respuesta.pc \in {"restar", "responder"} => Usa(pcbExecute, "WAIT")
    /\ socketCpuDispatch # <<>> /\ Head(socketCpuDispatch).op = "BLOCK"
         => Usa(pcbExecute, "WAIT") /\ esperaRecurso \in Recursos

\* The threads of ioFunction and the requests are of processes that use IO.
DeIo == {p \in Pids : Usa(p, "IO")}

HilosDeIo ==
    /\ ioHilos > 0 => ioParams \in DeIo
    /\ \A p \in Pids : ioListos[p] > 0 => p \in DeIo
    /\ ioPedidos \in [Interfaces -> Seq(DeIo)]

\* liberarRecursos finds nothing to release, and finishProcess is not called.
NadaQueLiberar ==
    /\ consola.pc \notin BuscandoPcs
    /\ \A p \in Pids : ~Usa(p, "WAIT")
         => \A r \in Recursos : recursosDePid[p][r] = 0
    /\ \A t \in Liberadores :
         /\ devolucion[t] = SinDevolucion
         /\ liberando[t] # NULL => t \in Interfaces /\ liberando[t] \in DeIo

MotivosInv ==
    Motivos /\ BloqueadosConMotivo /\ PedidosDePrograma /\ HilosDeIo /\ NadaQueLiberar

\* What the CPU executes but for an EXIT is in the program.
LEMMA LoQueEjecuta ==
    ASSUME NEW k, PuedeEjecutar(k), k # "EXIT"
    PROVE  Usa(pcbExecute, k)
  BY DEF PuedeEjecutar, Usa

IoSinRecursos == \A p \in DeIo : ~Usa(p, "WAIT")

\* What a step of the kernel's planners, console and interfaces does to it.
LEMMA PasosDelKernel ==
    ASSUME TypeOK, MaxFinalizar = 0, IoSinRecursos, NadaQueLiberar, [Next]_vars
    PROVE  \/ UNCHANGED <<recursos, recursosDePid, liberando, devolucion, listBlockeds,
                          ioParams, ioHilos, ioListos, ioPedidos, contexto, respuesta,
                          respuestasCpu, socketCpuDispatch, esperaRecurso, pcbExecute>>
                /\ consola'.pc \notin BuscandoPcs
           \/ /\ ~crashed /\ UNCHANGED cpuVars
              /\ \/ toExecute = "listo" /\ \E p \in Pids : ExecutePcb(p)
                 \/ IniciarProceso \/ CheckResponseOfCpu \/ ArrancarIo
                 \/ \E p \in Pids : IoFunction(p)
                 \/ \E i \in Interfaces : Operate(i) \/ TerminarDeLiberar(i)
           \/ /\ UNCHANGED kernelVars
              /\ RecibirPcb \/ EjecutarInstruccion \/ RecibirRespuesta
<1> DEFINE Igual == UNCHANGED <<recursos, recursosDePid, liberando, devolucion, listBlockeds,
                                ioParams, ioHilos, ioListos, ioPedidos, contexto, respuesta,
                                respuestasCpu, socketCpuDispatch, esperaRecurso, pcbExecute>>
                    /\ consola'.pc \notin BuscandoPcs
<1> DEFINE Despacho == toExecute = "listo" /\ \E p \in Pids : ExecutePcb(p)
<1> USE DEF recursosVars, ioVars, canales, cpuVars, mandos, colas
<1>0. consola.pc \notin BuscandoPcs
  BY DEF NadaQueLiberar
<1>1. NewToReady /\ UNCHANGED cpuVars => Igual
  BY <1>0 DEF NewToReady, EsperarNews, EsperarLugar, PasarPlanNews, MoverAReady
<1>2. ToExecute /\ UNCHANGED cpuVars => Igual \/ Despacho
  <2>1. PasarPlanExec \/ EsperarCpu \/ ContarQuantum \/ InterrumpirPorQuantum
          => (UNCHANGED cpuVars => Igual)
    BY <1>0 DEF PasarPlanExec, EsperarCpu, ContarQuantum, InterrumpirPorQuantum
  <2>2. ASSUME DespacharConPrioridad PROVE Despacho
    <3>1. Head(queueAux) \in Pids /\ ExecutePcb(Head(queueAux)) /\ toExecute = "listo"
      BY <2>2 DEF DespacharConPrioridad, PuedeDespachar, ConPrioridad, TypeOK, KernelTypeOK,
         ColasTypeOK
    <3> QED
      BY <3>1
  <2>3. ASSUME Despachar PROVE Despacho
    <3>1. Head(queueReadys) \in Pids /\ ExecutePcb(Head(queueReadys)) /\ toExecute = "listo"
      BY <2>3 DEF Despachar, PuedeDespachar, TypeOK, KernelTypeOK, ColasTypeOK
    <3> QED
      BY <3>1
  <2> HIDE DEF Igual, Despacho
  <2> QED
    BY <2>1, <2>2, <2>3 DEF ToExecute
<1>3. ConsolaEnCurso /\ UNCHANGED cpuVars => Igual
  <2>1. ASSUME ConsolaEnCurso PROVE QuitarLugar \/ CrearRecursosDePid
    BY <1>0, <2>1 DEF ConsolaEnCurso, FinalizarEnEjecucion, SeguirBuscando, Buscar,
       FinalizarNew, FinalizarReady, FinalizarAux, FinalizarBlocked, Encontrado, BuscandoPcs
  <2>2. ASSUME QuitarLugar PROVE consola'.pc \notin BuscandoPcs
    <3>1. consola'.pc = consola.pc \/ consola' = ConsolaLibre
      BY <2>2 DEF QuitarLugar, TypeOK, KernelTypeOK, MandosTypeOK, ConsolaTypeOK, BuscandoPcs
    <3> QED
      BY <1>0, <3>1 DEF ConsolaLibre, EnConsola, BuscandoPcs
  <2>3. CrearRecursosDePid => consola'.pc \notin BuscandoPcs
    BY DEF CrearRecursosDePid, ConsolaLibre, EnConsola, BuscandoPcs
  <2> QED
    BY <2>1, <2>2, <2>3 DEF QuitarLugar, CrearRecursosDePid
<1>4. Consola /\ UNCHANGED cpuVars => Igual \/ IniciarProceso
  <2>1. ASSUME NEW b \in BOOLEAN, CambiarPlanificador(b), UNCHANGED cpuVars PROVE Igual
    BY <1>0, <2>1 DEF CambiarPlanificador
  <2>2. ASSUME NEW v \in Grados, SubirGrado(v), UNCHANGED cpuVars PROVE Igual
    BY <1>0, <2>2 DEF SubirGrado
  <2>3. ASSUME NEW v \in Grados, BajarGrado(v), UNCHANGED cpuVars PROVE Igual
    BY <1>0, <2>3 DEF BajarGrado, ConsolaLibre, EnConsola, BuscandoPcs
  <2>4. ASSUME NEW p \in Pids, FinalizarProceso(p) PROVE FALSE
    BY <2>4 DEF FinalizarProceso, TypeOK, KernelTypeOK, MandosTypeOK
  <2> HIDE DEF Igual
  <2> QED
    BY <2>1, <2>2, <2>3, <2>4 DEF Consola
<1>5. Caer /\ UNCHANGED cpuVars => Igual
  BY <1>0 DEF Caer
<1>6. ASSUME NEW t \in Liberadores, LiberarRecursos(t)
      PROVE  t \in Interfaces /\ TerminarDeLiberar(t)
  <2>1. devolucion[t].pc = "nada"
    BY DEF NadaQueLiberar, SinDevolucion
  <2>2. liberando[t] # NULL
    BY <1>6, <2>1 DEF LiberarRecursos, QuitarDeLaLista, LiberarUno, BuscarAlLiberar,
       DespertarPorLiberar, TerminarDeLiberar
  <2>3. t \in Interfaces /\ liberando[t] \in DeIo /\ liberando[t] \in Pids
    BY <2>2 DEF NadaQueLiberar, DeIo
  <2>4. \A r \in Recursos : recursosDePid[liberando[t]][r] = 0
    BY <2>3 DEF NadaQueLiberar, IoSinRecursos
  <2>5. \A r \in Recursos : ~(recursosDePid[liberando[t]][r] > 0)
    BY <2>4
  <2>6. ~QuitarDeLaLista(t)
    BY <2>5, Zenon DEF QuitarDeLaLista
  <2> QED
    BY <1>6, <2>1, <2>3, <2>6 DEF LiberarRecursos, LiberarUno, BuscarAlLiberar,
       DespertarPorLiberar
<1>7. RecibirInterrupcion /\ UNCHANGED kernelVars => Igual
  BY <1>0 DEF RecibirInterrupcion, kernelVars
<1>8. UNCHANGED vars => Igual
  BY <1>0 DEF vars, kernelVars
<1> HIDE DEF Igual, Despacho
<1> DEFINE K == \/ Despacho \/ IniciarProceso \/ CheckResponseOfCpu \/ ArrancarIo
                \/ \E p \in Pids : IoFunction(p)
                \/ \E i \in Interfaces : Operate(i) \/ TerminarDeLiberar(i)
<1> HIDE DEF K
<1>10. CASE UNCHANGED vars
  BY <1>8, <1>10 DEF Igual
<1>11. CASE Next
  <2>1. CASE /\ ~crashed /\ UNCHANGED cpuVars
             /\ \/ Consola \/ ConsolaEnCurso \/ NewToReady \/ ToExecute \/ CheckResponseOfCpu
                \/ ArrancarIo \/ Caer \/ \E p \in Pids : IoFunction(p)
                \/ \E i \in Interfaces : Operate(i)
                \/ \E t \in Liberadores : LiberarRecursos(t)
    <3>1. ASSUME NEW t \in Liberadores, LiberarRecursos(t) PROVE K
      BY <1>6, <3>1, Zenon DEF K
    <3>2. CheckResponseOfCpu \/ ArrancarIo \/ (\E p \in Pids : IoFunction(p))
            \/ (\E i \in Interfaces : Operate(i)) => K
      BY Zenon DEF K
    <3>3. Despacho \/ IniciarProceso => K
      BY DEF K
    <3>4. Igual \/ K
      BY <1>1, <1>2, <1>3, <1>4, <1>5, <2>1, <3>1, <3>2, <3>3
    <3> QED
      BY <2>1, <3>4 DEF Igual, K, Despacho
  <2>2. CASE /\ UNCHANGED kernelVars
             /\ RecibirPcb \/ RecibirInterrupcion \/ EjecutarInstruccion \/ RecibirRespuesta
    BY <1>7, <2>2 DEF Igual
  <2> QED
    BY <1>11, <2>1, <2>2 DEF Next, PasoDeKernel, PasoDeCpu
<1> QED
  BY <1>10, <1>11

\* The threads and the requests of the interfaces.
LEMMA HilosSiguenSiendoDeIo ==
    ASSUME TypeOK, MaxFinalizar = 0, IoSinRecursos, MotivosInv, [Next]_vars
    PROVE  HilosDeIo'
<1>1. HilosDeIo /\ Motivos /\ NadaQueLiberar
  BY DEF MotivosInv
<1>2. /\ ioListos \in [Pids -> Nat] /\ ioHilos \in Nat
      /\ ioPedidos \in [Interfaces -> Seq(DeIo)]
  BY <1>1 DEF HilosDeIo, TypeOK, KernelTypeOK, IoTypeOK
<1>3. ASSUME UNCHANGED <<ioParams, ioHilos, ioListos, ioPedidos>> PROVE HilosDeIo'
  BY <1>1, <1>3 DEF HilosDeIo
<1>4. ASSUME NEW p \in Pids, ExecutePcb(p) PROVE HilosDeIo'
  BY <1>3, <1>4 DEF ExecutePcb, ioVars
<1>5. CASE IniciarProceso
  BY <1>3, <1>5 DEF IniciarProceso, ioVars
<1>6. CASE CheckResponseOfCpu
  <2>1. CASE PcbBloqueado
    <3>1. UNCHANGED <<ioListos, ioPedidos>>
      BY <2>1 DEF PcbBloqueado, CpuLibre
    <3>2. respuesta.pid \in Pids
      BY <2>1, PedidoTipo DEF PcbBloqueado, TypeOK, KernelTypeOK
    <3>3. CASE contexto[respuesta.pid].reason = "IO" /\ ioParams' = respuesta.pid
      BY <1>1, <3>1, <3>2, <3>3 DEF HilosDeIo, Motivos, ConMotivo, DeIo
    <3>4. CASE UNCHANGED <<ioParams, ioHilos>>
      BY <1>3, <3>1, <3>4
    <3> QED
      BY <2>1, <3>3, <3>4 DEF PcbBloqueado
  <2>2. CASE ~PcbBloqueado
    <3>1. UNCHANGED <<ioParams, ioHilos, ioListos, ioPedidos>>
      BY <1>6, <2>2, PedidoQuieto DEF CheckResponseOfCpu, PcbDevuelto, PcbTermina, PcbDesalojado,
         CpuLibre, DespertarPorSignal, ioVars
    <3> QED
      BY <1>3, <3>1
  <2> QED
    BY <2>1, <2>2
<1>7. CASE ArrancarIo
  <2>1. ioParams \in DeIo /\ ioHilos' = ioHilos - 1 /\ UNCHANGED <<ioParams, ioPedidos>>
        /\ ioListos' = [ioListos EXCEPT ![ioParams] = @ + 1]
    BY <1>1, <1>7 DEF ArrancarIo, HilosDeIo
  <2>2. \A p \in Pids : p # ioParams => ioListos'[p] = ioListos[p]
    BY <1>2, <2>1
  <2> QED
    BY <1>1, <2>1, <2>2 DEF HilosDeIo
<1>8. ASSUME NEW p \in Pids, IoFunction(p) PROVE HilosDeIo'
  <2>1. TerminarIo(p)
    BY <1>8 DEF IoFunction, PedirIo, PerderIo, IoSinInterfaz
  <2>2. /\ ioListos[p] > 0 /\ ioListos' = [ioListos EXCEPT ![p] = @ - 1] /\ p \in DeIo
        /\ UNCHANGED <<ioParams, ioHilos>>
    BY <1>1, <2>1 DEF TerminarIo, HilosDeIo
  <2>3. \A q \in Pids : q # p => ioListos'[q] = ioListos[q]
    BY <1>2, <2>2
  <2>4. ioPedidos' \in [Interfaces -> Seq(DeIo)]
    <3>1. CASE UNCHANGED ioPedidos
      BY <1>2, <3>1
    <3>2. ASSUME NEW i \in Interfaces, ioPedidos' = [ioPedidos EXCEPT ![i] = Append(@, p)]
          PROVE  ioPedidos' \in [Interfaces -> Seq(DeIo)]
      BY <1>2, <2>2, <3>2
    <3> QED
      BY <1>8, <3>1, <3>2 DEF IoFunction, PedirIo, PerderIo, IoSinInterfaz
  <2> QED
    BY <1>1, <2>2, <2>3, <2>4 DEF HilosDeIo
<1>9. ASSUME NEW i \in Interfaces, Operate(i) PROVE HilosDeIo'
  <2>1. /\ ioPedidos[i] # <<>> /\ ioPedidos' = [ioPedidos EXCEPT ![i] = Tail(@)]
        /\ UNCHANGED <<ioParams, ioHilos, ioListos>>
    BY <1>9 DEF Operate, FinishedIo, FinishedIoError, RespuestaDeInterfaz
  <2>2. ioPedidos' \in [Interfaces -> Seq(DeIo)]
    BY <1>2, <2>1
  <2> QED
    BY <1>1, <2>1, <2>2 DEF HilosDeIo
<1>10. ASSUME NEW i \in Interfaces, TerminarDeLiberar(i) PROVE HilosDeIo'
  BY <1>3, <1>10 DEF TerminarDeLiberar, ioVars
<1>11. UNCHANGED kernelVars => HilosDeIo'
  BY <1>3 DEF kernelVars, ioVars
<1> QED
  BY <1>1, <1>3, <1>4, <1>5, <1>6, <1>7, <1>8, <1>9, <1>10, <1>11, PasosDelKernel

\* Only a process that uses no interface takes a resource, so that liberarRecursos
\* has nothing to release and wakes nobody.
LEMMA SigueSinLiberar ==
    ASSUME TypeOK, MaxFinalizar = 0, IoSinRecursos, MotivosInv, [Next]_vars
    PROVE  NadaQueLiberar'
<1>1. HilosDeIo /\ PedidosDePrograma /\ NadaQueLiberar
  BY DEF MotivosInv
<1>2. /\ recursosDePid \in [Pids -> [Recursos -> Nat]]
      /\ liberando \in [Liberadores -> Pids \cup {NULL}]
      /\ respuestasCpu \in Seq(MensajesDeLaCpu)
  BY DEF TypeOK, KernelTypeOK, RecursosTypeOK, CanalesTypeOK
<1>3. ASSUME UNCHANGED <<recursosDePid, devolucion, liberando>>,
             consola'.pc \notin BuscandoPcs
      PROVE  NadaQueLiberar'
  BY <1>1, <1>3 DEF NadaQueLiberar
<1>4. consola' = consola => consola'.pc \notin BuscandoPcs
  BY <1>1 DEF NadaQueLiberar
<1>5. ASSUME NEW p \in Pids, ExecutePcb(p) PROVE NadaQueLiberar'
  BY <1>3, <1>4, <1>5 DEF ExecutePcb, recursosVars, mandos
<1>6. CASE IniciarProceso
  BY <1>3, <1>6 DEF IniciarProceso, recursosVars, EnConsola, BuscandoPcs
<1>7. CASE AnotarWait \/ QuitarSignal
  <2>1. /\ UNCHANGED <<devolucion, liberando>> /\ consola' = consola
        /\ respuesta.pid \in Pids /\ respuesta.res \in Recursos
        /\ respuesta.pc = "restar" => Usa(respuesta.pid, "WAIT")
        /\ \/ respuesta.pc = "restar"
                /\ recursosDePid' = [recursosDePid EXCEPT ![respuesta.pid][respuesta.res] =
                                       IF respuesta.pid \in listResourcesPcbs THEN @ + 1 ELSE @]
           \/ recursosDePid' = [recursosDePid EXCEPT ![respuesta.pid][respuesta.res] =
                                  IF @ > 0 THEN @ - 1 ELSE 0]
    BY <1>1, <1>7, PedidoTipo DEF AnotarWait, QuitarSignal, PedidosDePrograma, mandos, TypeOK,
       KernelTypeOK
  <2>2. ASSUME NEW p \in Pids, ~Usa(p, "WAIT"), NEW r \in Recursos
        PROVE  recursosDePid'[p][r] = 0
    <3>1. recursosDePid[p][r] = 0
      BY <1>1, <2>2 DEF NadaQueLiberar
    <3>2. CASE /\ respuesta.pc = "restar"
               /\ recursosDePid' = [recursosDePid EXCEPT ![respuesta.pid][respuesta.res] =
                                      IF respuesta.pid \in listResourcesPcbs THEN @ + 1 ELSE @]
      <4>1. p # respuesta.pid
        BY <2>1, <2>2, <3>2
      <4> QED
        BY <1>2, <2>1, <3>1, <3>2, <4>1
    <3>3. CASE recursosDePid' = [recursosDePid EXCEPT ![respuesta.pid][respuesta.res] =
                                   IF @ > 0 THEN @ - 1 ELSE 0]
      BY <1>2, <2>1, <3>1, <3>3
    <3> QED
      BY <2>1, <3>2, <3>3
  <2> QED
    BY <1>1, <1>4, <2>1, <2>2 DEF NadaQueLiberar
<1>8. CASE CheckResponseOfCpu
  <2>1. CASE AtenderPedido /\ ~(AnotarWait \/ QuitarSignal)
    <3>1. UNCHANGED <<recursosDePid, devolucion, liberando, consola>>
      BY <2>1, PedidoQuieto DEF AtenderPedido, RecursoDesconocido, RecibirPedido, ResponderWait,
         ProbarSignal, BuscarEnEspera, recursosVars, mandos
    <3> QED
      BY <1>3, <1>4, <3>1
  <2>2. CASE ~AtenderPedido
    <3>1. UNCHANGED <<recursosDePid, devolucion, liberando, consola>>
      BY <1>8, <2>2 DEF CheckResponseOfCpu, PcbDevuelto, PcbTermina, PcbDesalojado, PcbBloqueado,
         CpuLibre, DespertarPorSignal, recursosVars, mandos
    <3> QED
      BY <1>3, <1>4, <3>1
  <2> QED
    BY <1>7, <2>1, <2>2
<1>9. CASE ArrancarIo
  BY <1>3, <1>4, <1>9 DEF ArrancarIo, recursosVars, mandos
<1>10. ASSUME NEW p \in Pids, IoFunction(p) PROVE NadaQueLiberar'
  BY <1>3, <1>4, <1>10 DEF IoFunction, PedirIo, PerderIo, IoSinInterfaz, TerminarIo,
     recursosVars, mandos
<1>11. ASSUME NEW i \in Interfaces, FinishedIo(i) PROVE NadaQueLiberar'
  BY <1>3, <1>4, <1>11 DEF FinishedIo, recursosVars, mandos
<1>12. ASSUME NEW i \in Interfaces, FinishedIoError(i) PROVE NadaQueLiberar'
  <2>1. PICK p \in DeIo : p = Head(ioPedidos[i])
    BY <1>1, <1>12 DEF FinishedIoError, RespuestaDeInterfaz, HilosDeIo
  <2>2. /\ liberando' = [liberando EXCEPT ![i] = p]
        /\ UNCHANGED <<recursosDePid, devolucion, consola>>
    BY <1>12, <2>1 DEF FinishedIoError, mandos
  <2>3. \A t \in Liberadores : t # i => liberando'[t] = liberando[t]
    BY <1>2, <2>2
  <2>4. liberando'[i] = p
    BY <1>2, <2>2 DEF Liberadores
  <2> QED
    BY <1>1, <1>4, <2>2, <2>3, <2>4 DEF NadaQueLiberar
<1>13. ASSUME NEW i \in Interfaces, TerminarDeLiberar(i) PROVE NadaQueLiberar'
  <2>1. /\ liberando' = [liberando EXCEPT ![i] = NULL] /\ i # "consola"
        /\ UNCHANGED <<recursosDePid, devolucion, consola>>
    BY <1>13, ConstantesDelKernel DEF TerminarDeLiberar
  <2>2. \A t \in Liberadores : liberando'[t] = IF t = i THEN NULL ELSE liberando[t]
    BY <1>2, <2>1
  <2> QED
    BY <1>1, <1>4, <2>1, <2>2 DEF NadaQueLiberar
<1>14. UNCHANGED kernelVars => NadaQueLiberar'
  BY <1>3, <1>4 DEF kernelVars, recursosVars, mandos
<1> QED
  BY <1>1, <1>3, <1>5, <1>6, <1>8, <1>9, <1>10, <1>11, <1>12, <1>13, <1>14, PasosDelKernel
     DEF Operate

\* What the CPU's socket carries after a step of the CPU that answers or asks.
LEMMA PedidosSiguenSiendoDePrograma ==
    ASSUME TypeOK, CpuExclusiva, MaxFinalizar = 0, IoSinRecursos, MotivosInv, [Next]_vars
    PROVE  PedidosDePrograma'
<1>1. PedidosDePrograma /\ NadaQueLiberar
  BY DEF MotivosInv
<1>2. /\ respuestasCpu \in Seq(MensajesDeLaCpu)
      /\ socketCpuDispatch \in Seq(MensajesDelKernel)
  BY DEF TypeOK, CanalesTypeOK
<1>3. ASSUME UNCHANGED <<respuestasCpu, socketCpuDispatch, esperaRecurso, pcbExecute>>,
             respuesta' = respuesta \/ respuesta'.pc \notin {"restar", "responder"}
      PROVE  PedidosDePrograma'
  BY <1>1, <1>3 DEF PedidosDePrograma
<1>4. ASSUME respuestasCpu' = <<>> \/ Head(respuestasCpu').op = "PCB",
             socketCpuDispatch' = <<>> \/ Head(socketCpuDispatch').op # "BLOCK",
             respuesta'.pc \notin {"restar", "responder"}
      PROVE  PedidosDePrograma'
  BY <1>4 DEF PedidosDePrograma
<1>5. \A m : Head(Append(<<>>, m)) = m
  OBVIOUS
<1>6. ASSUME NEW p \in Pids, toExecute = "listo", ExecutePcb(p) PROVE PedidosDePrograma'
  <2>1. /\ socketCpuDispatch = <<>> /\ respuestasCpu = <<>>
    BY <1>6, ConFicha
  <2>2. /\ respuestasCpu' = <<>> /\ socketCpuDispatch' = Append(<<>>, Mensaje("PCB", p, NULL))
        /\ respuesta'.pc = "recv"
    BY <1>6, <2>1, ConFicha DEF ExecutePcb
  <2>3. Head(socketCpuDispatch').op = "PCB"
    BY <1>5, <2>2 DEF Mensaje
  <2> QED
    BY <1>4, <2>2, <2>3
<1>7. CASE CheckResponseOfCpu /\ UNCHANGED cpuVars
  <2>1. ASSUME NEW op \in Respuestas, Responder(op), socketCpuDispatch = <<>>
        PROVE  Head(socketCpuDispatch').op = op
    BY <1>5, <2>1 DEF Responder, Mensaje
  <2>2. CASE PcbTermina \/ PcbDesalojado \/ PcbBloqueado
    BY <1>3, <1>7, <2>2, CamposDeRespuesta DEF PcbTermina, PcbDesalojado, PcbBloqueado, CpuLibre,
       canales, cpuVars
  <2>3. CASE PcbDevuelto
    <3>1. /\ respuestasCpu' = <<>> /\ socketCpuDispatch' = <<>>
          /\ respuesta'.pc \notin {"restar", "responder"}
      BY <2>3, ConRespuesta DEF PcbDevuelto, LeerRespuesta, EnRecv
    <3> QED
      BY <1>4, <3>1
  <2>4. ASSUME AtenderPedido \/ DespertarPorSignal
        PROVE  /\ respuestasCpu' = <<>> /\ socketCpuDispatch = <<>>
               /\ respuesta.pc # "recv" => esperaRecurso = respuesta.res
    BY <2>4, PedidoMensajes, EnManos DEF DespertarPorSignal
  <2>5. ASSUME NEW op \in {"WAIT", "SIGNAL"}, RecursoDesconocido(op), AtenderPedido
        PROVE  PedidosDePrograma'
    BY <1>4, <2>1, <2>4, <2>5 DEF RecursoDesconocido, LeerRespuesta, Respuestas
  <2>6. ASSUME NEW op \in {"WAIT", "SIGNAL"}, RecibirPedido(op), AtenderPedido
        PROVE  PedidosDePrograma'
    <3>1. PICK m \in MensajesDeLaCpu : m = Head(respuestasCpu)
      BY <1>2, <2>6 DEF RecibirPedido, LeerRespuesta
    <3>2. /\ respuestasCpu # <<>> /\ 1 \in DOMAIN respuestasCpu /\ m = respuestasCpu[1]
          /\ m.op = op /\ socketCpuDispatch' = <<>>
          /\ respuesta' = [pc |-> IF op = "WAIT" THEN "restar" ELSE "sumar",
                           pid |-> m.pid, res |-> m.res, leida |-> recursos[m.res]]
      BY <1>2, <2>4, <2>6, <3>1 DEF RecibirPedido, LeerRespuesta
    <3>3. Usa(m.pid, op) /\ m.pid = pcbExecute
      BY <1>1, <3>1, <3>2 DEF PedidosDePrograma, CpuExclusiva
    <3>4. /\ respuesta'.pc = (IF op = "WAIT" THEN "restar" ELSE "sumar")
          /\ respuesta'.pid = pcbExecute
      BY <3>2, <3>3
    <3>5. pcbExecute' = pcbExecute
      BY <1>7 DEF cpuVars
    <3> QED
      BY <2>4, <2>6, <3>2, <3>3, <3>4, <3>5 DEF PedidosDePrograma
  <2>7. CASE AnotarWait
    <3>1. /\ respuesta'.pc = "responder" /\ Usa(pcbExecute, "WAIT")
          /\ UNCHANGED <<respuestasCpu, socketCpuDispatch, pcbExecute, esperaRecurso>>
      BY <1>1, <1>7, <2>7, CamposDeRespuesta DEF AnotarWait, PedidosDePrograma, canales, cpuVars
    <3> QED
      BY <1>1, <3>1 DEF PedidosDePrograma
  <2>8. ASSUME ResponderWait, AtenderPedido PROVE PedidosDePrograma'
    <3>1. /\ Usa(pcbExecute, "WAIT") /\ esperaRecurso \in Recursos
          /\ UNCHANGED <<pcbExecute, esperaRecurso>>
      BY <1>1, <1>7, <2>4, <2>8, PedidoTipo DEF ResponderWait, PedidosDePrograma, cpuVars, TypeOK,
         KernelTypeOK, DialogoPcs
    <3>2. respuestasCpu' = <<>> /\ respuesta'.pc = "recv"
      BY <2>4, <2>8, CamposDeRespuesta DEF ResponderWait
    <3> QED
      BY <3>1, <3>2 DEF PedidosDePrograma
  <2>9. CASE QuitarSignal \/ ProbarSignal
    <3>1. respuesta'.pc \in {"probar", "buscar", "recv"}
      BY <2>9, CamposDeRespuesta DEF QuitarSignal, ProbarSignal
    <3> QED
      BY <1>3, <1>7, <2>9, <3>1 DEF QuitarSignal, ProbarSignal, canales, cpuVars
  <2>10. ASSUME BuscarEnEspera \/ DespertarPorSignal, AtenderPedido \/ DespertarPorSignal
         PROVE  PedidosDePrograma'
    <3>1. respuesta'.pc \in {"recv", "despertar"}
      BY <2>10, CamposDeRespuesta DEF BuscarEnEspera, DespertarPorSignal
    <3>2. Responder("CONTINUE") \/ socketCpuDispatch' = socketCpuDispatch
      BY <2>10 DEF BuscarEnEspera, DespertarPorSignal
    <3> QED
      BY <1>4, <2>1, <2>4, <2>10, <3>1, <3>2 DEF Respuestas
  <2>11. CASE AtenderPedido
    BY <2>5, <2>6, <2>7, <2>8, <2>9, <2>10, <2>11 DEF AtenderPedido
  <2> QED
    BY <1>7, <2>2, <2>3, <2>10, <2>11 DEF CheckResponseOfCpu
<1>8. UNCHANGED cpuVars /\ (IniciarProceso \/ ArrancarIo) => PedidosDePrograma'
  BY <1>3 DEF IniciarProceso, ArrancarIo, canales, cpuVars
<1>9. ASSUME NEW p \in Pids, IoFunction(p), UNCHANGED cpuVars PROVE PedidosDePrograma'
  BY <1>3, <1>9 DEF IoFunction, PedirIo, PerderIo, IoSinInterfaz, TerminarIo, canales, cpuVars
<1>10. ASSUME NEW i \in Interfaces, Operate(i) \/ TerminarDeLiberar(i), UNCHANGED cpuVars
       PROVE  PedidosDePrograma'
  BY <1>3, <1>10 DEF Operate, FinishedIo, FinishedIoError, TerminarDeLiberar, canales, cpuVars
<1>11. CASE RecibirPcb /\ UNCHANGED kernelVars
  <2>1. respuestasCpu' = <<>> /\ socketCpuDispatch' = <<>> /\ respuesta'.pc = "recv"
    BY <1>11, ConMensaje DEF RecibirPcb, kernelVars
  <2> QED
    BY <1>4, <2>1
<1>12. ASSUME NEW c, DevolverPcb(c), respuestasCpu = <<>>, socketCpuDispatch' = <<>>,
              respuesta'.pc = "recv"
       PROVE  PedidosDePrograma'
  <2>1. Head(respuestasCpu').op = "PCB"
    BY <1>5, <1>12 DEF DevolverPcb, Mensaje
  <2> QED
    BY <1>4, <1>12, <2>1
<1>13. ASSUME NEW c, NEW n, Sondear(c, n), respuestasCpu = <<>>, socketCpuDispatch' = <<>>,
              respuesta'.pc = "recv"
       PROVE  PedidosDePrograma'
  <2>1. CASE sInterrupt > 0
    <3>1. PICK d : DevolverPcb(d)
      BY <1>13, <2>1 DEF Sondear
    <3> QED
      BY <1>12, <1>13, <3>1
  <2>2. CASE UNCHANGED respuestasCpu
    BY <1>4, <1>13, <2>2
  <2> QED
    BY <1>13, <2>1, <2>2 DEF Sondear
<1>14. CASE EjecutarInstruccion /\ UNCHANGED kernelVars
  <2>1. /\ respuestasCpu = <<>> /\ socketCpuDispatch = <<>> /\ UNCHANGED socketCpuDispatch
        /\ respuesta'.pc = "recv"
    BY <1>14, ConFicha DEF EjecutarInstruccion, EjecutarComun, EjecutarYSalir, PedirRecurso,
       PuedeEjecutar, kernelVars
  <2>2. CASE EjecutarComun
    BY <1>13, <2>1, <2>2 DEF EjecutarComun
  <2>3. ASSUME NEW k, EjecutarYSalir(k) PROVE PedidosDePrograma'
    BY <1>12, <2>1, <2>3 DEF EjecutarYSalir
  <2>4. ASSUME NEW k \in {"WAIT", "SIGNAL"}, NEW r \in NombresRecursos, PedirRecurso(k, r)
        PROVE  PedidosDePrograma'
    <3>1. /\ respuestasCpu' = Append(<<>>, Mensaje(k, pcbExecute, r))
          /\ Usa(pcbExecute, k)
      BY <2>1, <2>4, LoQueEjecuta DEF PedirRecurso
    <3>2. Head(respuestasCpu').op = k /\ Head(respuestasCpu').pid = pcbExecute
      BY <1>5, <3>1 DEF Mensaje
    <3>3. Usa(Head(respuestasCpu').pid, Head(respuestasCpu').op)
      BY <3>1, <3>2
    <3> QED
      BY <2>1, <3>3 DEF PedidosDePrograma
  <2> QED
    BY <1>14, <2>2, <2>3, <2>4 DEF EjecutarInstruccion
<1>15. CASE RecibirRespuesta /\ UNCHANGED kernelVars
  <2>1. respuestasCpu = <<>> /\ socketCpuDispatch' = <<>> /\ respuesta'.pc = "recv"
    BY <1>15, ConMensaje DEF RecibirRespuesta, kernelVars
  <2> QED
    BY <1>12, <1>13, <1>15, <2>1, FinDeRespuesta
<1> QED
  BY <1>1, <1>3, <1>6, <1>7, <1>8, <1>9, <1>10, <1>11, <1>14, <1>15, PasosDelKernel

\* A process leaves the CPU blocked only by an instruction of its program.
LEMMA MotivosTrasContexto ==
    ASSUME Motivos, contexto \in [Pids -> Contextos], NEW p \in Pids, NEW c, ConMotivo(c, p),
           contexto' = [contexto EXCEPT ![p] = c]
    PROVE  Motivos'
<1>1. \A q \in Pids : contexto'[q] = IF q = p THEN c ELSE contexto[q]
  OBVIOUS
<1> QED
  BY <1>1 DEF Motivos, ConMotivo

\* The steps that write a context, and those that do not.
LEMMA MotivosSiguen ==
    ASSUME TypeOK, CpuExclusiva, MaxFinalizar = 0, IoSinRecursos, MotivosInv, [Next]_vars
    PROVE  Motivos'
<1>1. Motivos /\ PedidosDePrograma /\ NadaQueLiberar
  BY DEF MotivosInv
<1>2. contexto \in [Pids -> Contextos]
  BY DEF TypeOK, CanalesTypeOK
<1>3. UNCHANGED contexto => Motivos'
  BY <1>1 DEF Motivos, ConMotivo
<1>4. CASE IniciarProceso
  <2>1. PidNuevo \in Pids
    BY <1>4, ConstantesDeCanales DEF IniciarProceso, PidNuevo, HayPid, TypeOK, KernelTypeOK,
       PidsTypeOK, Pids
  <2>2. PICK p \in Pids : p = PidNuevo
    BY <2>1
  <2>3. contexto' = [contexto EXCEPT ![p] = ContextoInicial]
    BY <1>4, <2>2 DEF IniciarProceso
  <2>4. ConMotivo(ContextoInicial, p)
    BY ConstantesDeCanales DEF ConMotivo, ContextoInicial
  <2> QED
    BY <1>1, <1>2, <2>3, <2>4, MotivosTrasContexto
<1>5. ASSUME \/ CheckResponseOfCpu \/ ArrancarIo
             \/ \E p \in Pids : ExecutePcb(p) \/ IoFunction(p)
             \/ \E i \in Interfaces : Operate(i) \/ TerminarDeLiberar(i)
      PROVE  UNCHANGED contexto
  BY <1>5, PedidoQuieto, Zenon DEF CheckResponseOfCpu, PcbDevuelto, PcbTermina, PcbDesalojado,
     PcbBloqueado, CpuLibre, DespertarPorSignal, ArrancarIo, ExecutePcb, IoFunction,
     PedirIo, PerderIo, IoSinInterfaz, TerminarIo, Operate, FinishedIo, FinishedIoError,
     TerminarDeLiberar, canales
<1>6. RecibirPcb => UNCHANGED contexto
  BY DEF RecibirPcb
<1>7. ASSUME EjecutarInstruccion \/ RecibirRespuesta PROVE Motivos'
  <2>1. PICK p \in Pids : p = pcbExecute
    BY <1>7 DEF EjecutarInstruccion, EjecutarComun, EjecutarYSalir, PedirRecurso, PuedeEjecutar,
       RecibirRespuesta, TypeOK, CpuTypeOK, CpuOcupada
  <2>2. ConMotivo(contexto[p], p) /\ contexto[p] \in Contextos
    BY <1>1, <1>2 DEF Motivos
  <2>3. ASSUME NEW c, ConMotivo(c, p), DevolverPcb(c) PROVE Motivos'
    <3>1. contexto' = [contexto EXCEPT ![p] = c]
      BY <2>1, <2>3 DEF DevolverPcb
    <3> QED
      BY <1>1, <1>2, <2>3, <3>1, MotivosTrasContexto
  <2>4. ASSUME NEW c \in Contextos, NEW n, ConMotivo(c, p), Sondear(c, n) PROVE Motivos'
    <3>1. CASE contexto' = [contexto EXCEPT ![pcbExecute] = c]
      BY <1>1, <1>2, <2>1, <2>4, <3>1, MotivosTrasContexto
    <3>2. CASE sInterrupt > 0
      <4> DEFINE d == [c EXCEPT !.reason = reasonForInterruption,
                                !.quantum = IF reasonForInterruption = "QUANTUM"
                                              THEN 0 ELSE @]
      <4>1. d.reason = reasonForInterruption
        BY DEF Contextos
      <4>2. reasonForInterruption \notin {"IO", "WAIT"}
        BY ConstantesDeCanales DEF TypeOK, CpuTypeOK
      <4>3. DevolverPcb(d)
        BY <2>4, <3>2 DEF Sondear
      <4> HIDE DEF d
      <4>4. PICK e : e = d
        OBVIOUS
      <4>5. ConMotivo(e, p) /\ DevolverPcb(e)
        BY <4>1, <4>2, <4>3, <4>4 DEF ConMotivo
      <4> QED
        BY <2>3, <4>5
    <3> QED
      BY <2>4, <3>1, <3>2 DEF Sondear
  <2>5. PICK t \in Contextos : t = TrasIncrementarPc
    BY <2>1, <2>2, ContextoTipo DEF TypeOK
  <2>6. t = [contexto[p] EXCEPT !.pc = @ + 1]
    BY <2>1, <2>5 DEF TrasIncrementarPc
  <2>7. t.reason = contexto[p].reason /\ t.info = contexto[p].info
    BY <2>2, <2>6 DEF Contextos
  <2>8. ConMotivo(t, p)
    BY <2>2, <2>7 DEF ConMotivo
  <2>9. CASE EjecutarComun
    <3>1. PICK n : Sondear(t, n)
      BY <2>5, <2>9 DEF EjecutarComun
    <3> QED
      BY <2>4, <2>8, <3>1
  <2>10. ASSUME NEW k \in {"EXIT", "IO", "ERROR"}, EjecutarYSalir(k) PROVE Motivos'
    <3> DEFINE d == [t EXCEPT !.reason = k, !.info = IF k = "IO" THEN "IO" ELSE NULL]
    <3>1. DevolverPcb(d) /\ (k = "IO" => Usa(p, k))
      BY <2>1, <2>5, <2>10, LoQueEjecuta DEF EjecutarYSalir
    <3>2. d.reason = k /\ (k = "IO" => d.info = "IO")
      BY DEF Contextos
    <3> HIDE DEF d
    <3>3. ConMotivo(d, p)
      BY <3>1, <3>2 DEF ConMotivo
    <3> QED
      BY <2>3, <3>1, <3>3
  <2>11. ASSUME NEW k \in {"WAIT", "SIGNAL"}, NEW r \in NombresRecursos, PedirRecurso(k, r)
         PROVE  Motivos'
    <3>1. contexto' = [contexto EXCEPT ![p] = t]
      BY <2>1, <2>5, <2>11 DEF PedirRecurso
    <3> QED
      BY <1>1, <1>2, <2>8, <3>1, MotivosTrasContexto
  <2>12. CASE RecibirRespuesta
    <3> DEFINE c == contexto[p]
    <3>1. CASE Sondear(contexto[pcbExecute], sCanExecuteInstruction)
      BY <2>1, <2>2, <2>4, <3>1
    <3>2. CASE /\ Head(socketCpuDispatch).op = "BLOCK"
               /\ DevolverPcb([c EXCEPT !.reason = "WAIT", !.info = esperaRecurso])
      <4> DEFINE d == [c EXCEPT !.reason = "WAIT", !.info = esperaRecurso]
      <4>1. Usa(p, "WAIT") /\ esperaRecurso \in Recursos
        BY <1>1, <2>1, <2>12, <3>2 DEF PedidosDePrograma, RecibirRespuesta
      <4>2. d.reason = "WAIT" /\ d.info = esperaRecurso
        BY <2>2 DEF Contextos
      <4> HIDE DEF d
      <4>3. ConMotivo(d, p)
        BY <4>1, <4>2 DEF ConMotivo
      <4>4. DevolverPcb(d)
        BY <3>2 DEF d
      <4> QED
        BY <2>3, <4>3, <4>4
    <3>3. CASE DevolverPcb([c EXCEPT !.reason = "EXIT", !.info = NULL])
      <4> DEFINE d == [c EXCEPT !.reason = "EXIT", !.info = NULL]
      <4>1. d.reason = "EXIT"
        BY <2>2 DEF Contextos
      <4> HIDE DEF d
      <4>2. ConMotivo(d, p)
        BY <4>1 DEF ConMotivo
      <4>3. DevolverPcb(d)
        BY <3>3 DEF d
      <4> QED
        BY <2>3, <4>2, <4>3
    <3> QED
      BY <2>1, <2>12, <3>1, <3>2, <3>3 DEF RecibirRespuesta
  <2> QED
    BY <1>7, <2>9, <2>10, <2>11, <2>12 DEF EjecutarInstruccion
<1> QED
  BY <1>1, <1>3, <1>4, <1>5, <1>6, <1>7, PasosDelKernel

\* Who is in a queue after a removal.
LEMMA EstaTrasQuitar ==
    ASSUME NEW S, NEW s \in Seq(S), IsInjective(s), NEW p, Esta(s, p)
    PROVE  \A q : Esta(RemoveFirst(s, p), q) <=> Esta(s, q) /\ q # p
<1>1. p \in ToSet(s) /\ RemoveFirst(s, p) \in Seq(S)
  BY EstaEnElConjunto, RemoveFirstTipo
<1>2. ToSet(RemoveFirst(s, p)) = ToSet(s) \ {p}
  BY <1>1, ElementosTrasQuitar
<1> DEFINE t == RemoveFirst(s, p)
<1>3. t \in Seq(S) /\ ToSet(t) = ToSet(s) \ {p}
  BY <1>1, <1>2
<1> HIDE DEF t
<1>4. ASSUME NEW q PROVE Esta(t, q) <=> Esta(s, q) /\ q # p
  BY <1>3, EstaEnElConjunto
<1> QED
  BY <1>4 DEF t

\* Who is in a queue after a push.
LEMMA EstaTrasAgregar ==
    ASSUME NEW S, NEW s \in Seq(S), NEW p \in S
    PROVE  \A q : Esta(Append(s, p), q) <=> Esta(s, q) \/ q = p
<1> DEFINE t == Append(s, p)
<1>1. t \in Seq(S) /\ ToSet(t) = ToSet(s) \cup {p}
  BY ElementosTrasAppend
<1> HIDE DEF t
<1>2. ASSUME NEW q PROVE Esta(t, q) <=> Esta(s, q) \/ q = p
  BY <1>1, EstaEnElConjunto
<1> QED
  BY <1>2 DEF t

\* The process of the CPU, the one that came back from it and a pid that is given
\* out are not in listBlockeds.
LEMMA NoEstaBloqueado ==
    ASSUME TypeOK, CurrentEsElQueCorre, UbicacionInv
    PROVE  /\ CpuOcupada => ~Esta(listBlockeds, pcbExecute)
           /\ respuesta.pc = "pcb" => ~Esta(listBlockeds, respuesta.pid)
           /\ HayPid => ~Esta(listBlockeds, PidNuevo)
<1>1. /\ listBlockeds \in Seq(Pids) /\ freePids \in Seq(Pids) /\ nextPid \in Nat
      /\ NULL \notin Pids
  BY ConstantesDeCanales DEF TypeOK, KernelTypeOK, ColasTypeOK, PidsTypeOK, Pids
<1>2. ASSUME NEW x \in Sitios, x # "blockeds", NEW p \in EnSitio[x]
      PROVE  ~Esta(listBlockeds, p)
  <2>1. p \notin EnSitio["blockeds"]
    BY <1>2, NoEstaEnOtro DEF Sitios
  <2> QED
    BY <1>1, <2>1, Sitio, EstaEnElConjunto
<1>3. CpuOcupada => ~Esta(listBlockeds, pcbExecute)
  <2>1. CpuOcupada => pcbExecute \in EnSitio["cpu"]
    BY <1>1, Sitio DEF TypeOK, CpuTypeOK, CurrentEsElQueCorre
  <2> QED
    BY <1>2, <2>1 DEF Sitios
<1>4. respuesta.pc = "pcb" => ~Esta(listBlockeds, respuesta.pid)
  <2>1. respuesta.pc = "pcb" => respuesta.pid \in EnSitio["pcb"]
    BY Sitio DEF Devuelto
  <2> QED
    BY <1>2, <2>1 DEF Sitios
<1>5. HayPid => ~Esta(listBlockeds, PidNuevo)
  <2>1. CASE freePids # <<>>
    <3>1. 1 \in DOMAIN freePids /\ PidNuevo = freePids[1]
      BY <1>1, <2>1 DEF PidNuevo
    <3>2. PidNuevo \in EnSitio["free"]
      BY <3>1, Sitio DEF ToSet
    <3> QED
      BY <1>2, <3>2 DEF Sitios
  <2>2. CASE freePids = <<>>
    <3>1. PidNuevo = nextPid
      BY <2>2 DEF PidNuevo
    <3>2. nextPid \notin EnSitio["blockeds"]
      BY <1>1 DEF UbicacionInv, Reparte, Sitios
    <3> QED
      BY <1>1, <3>1, <3>2, Sitio, EstaEnElConjunto
  <2> QED
    BY <2>1, <2>2
<1> QED
  BY <1>3, <1>4, <1>5

\* Of the blocked processes nobody touches the PCB.
LEMMA ContextoDeBloqueados ==
    ASSUME TypeOK, CpuExclusiva, CurrentEsElQueCorre, UbicacionInv, MaxFinalizar = 0,
           IoSinRecursos, MotivosInv, [Next]_vars
    PROVE  \A p \in Pids : Esta(listBlockeds, p) => contexto'[p] = contexto[p]
<1>1. NadaQueLiberar /\ contexto \in [Pids -> Contextos]
  BY DEF MotivosInv, TypeOK, CanalesTypeOK
<1>2. ASSUME NEW q, NEW c, contexto' = [contexto EXCEPT ![q] = c], ~Esta(listBlockeds, q)
      PROVE  \A p \in Pids : Esta(listBlockeds, p) => contexto'[p] = contexto[p]
  BY <1>1, <1>2
<1>3. IniciarProceso => ~Esta(listBlockeds, PidNuevo)
                        /\ contexto' = [contexto EXCEPT ![PidNuevo] = ContextoInicial]
  BY NoEstaBloqueado DEF IniciarProceso
<1>4. ASSUME \/ CheckResponseOfCpu \/ ArrancarIo
             \/ \E p \in Pids : ExecutePcb(p) \/ IoFunction(p)
             \/ \E i \in Interfaces : Operate(i) \/ TerminarDeLiberar(i)
      PROVE  UNCHANGED contexto
  BY <1>4, PedidoQuieto, Zenon DEF CheckResponseOfCpu, PcbDevuelto, PcbTermina, PcbDesalojado,
     PcbBloqueado, CpuLibre, DespertarPorSignal, ArrancarIo, ExecutePcb,
     IoFunction, PedirIo, PerderIo, IoSinInterfaz, TerminarIo, Operate, FinishedIo,
     FinishedIoError, TerminarDeLiberar, canales
<1>5. RecibirPcb => UNCHANGED contexto
  BY DEF RecibirPcb
<1>6. ASSUME EjecutarInstruccion \/ RecibirRespuesta
      PROVE  ~Esta(listBlockeds, pcbExecute)
  BY <1>6, NoEstaBloqueado DEF EjecutarInstruccion, EjecutarComun, EjecutarYSalir, PedirRecurso,
     PuedeEjecutar, RecibirRespuesta, CpuOcupada
<1>7. ASSUME NEW c, NEW n, Sondear(c, n) PROVE \E d : DevolverPcb(d) \/
                                          contexto' = [contexto EXCEPT ![pcbExecute] = d]
  BY <1>7, Zenon DEF Sondear
<1>8. ASSUME EjecutarInstruccion \/ RecibirRespuesta
      PROVE  \E d : DevolverPcb(d) \/ contexto' = [contexto EXCEPT ![pcbExecute] = d]
  BY <1>7, <1>8, FinDeRespuesta, Zenon DEF EjecutarInstruccion, EjecutarComun, EjecutarYSalir,
     PedirRecurso
<1>9. ASSUME EjecutarInstruccion \/ RecibirRespuesta
      PROVE  \E d : contexto' = [contexto EXCEPT ![pcbExecute] = d]
  BY <1>8, <1>9 DEF DevolverPcb
<1> QED
  BY <1>1, <1>2, <1>3, <1>4, <1>5, <1>6, <1>9, PasosDelKernel

\* Only checkResponseOfCpu blocks a process, and then for its reason.
LEMMA BloqueadosSiguenConMotivo ==
    ASSUME TypeOK, CpuExclusiva, CurrentEsElQueCorre, UbicacionInv, MaxFinalizar = 0,
           IoSinRecursos, MotivosInv, [Next]_vars
    PROVE  BloqueadosConMotivo'
<1>1. /\ NadaQueLiberar /\ BloqueadosConMotivo
      /\ listBlockeds \in Seq(Pids) /\ IsInjective(listBlockeds)
  BY DEF MotivosInv, TypeOK, KernelTypeOK, ColasTypeOK, UbicacionInv, SinRepetir
<1>2. \A p \in Pids : Esta(listBlockeds, p) => contexto'[p] = contexto[p]
  BY ContextoDeBloqueados
<1>3. ASSUME \A p \in Pids : Esta(listBlockeds', p) => Esta(listBlockeds, p)
      PROVE  BloqueadosConMotivo'
  BY <1>1, <1>2, <1>3 DEF BloqueadosConMotivo
<1>4. UNCHANGED listBlockeds => BloqueadosConMotivo'
  BY <1>3
<1>5. ASSUME NEW p, Esta(listBlockeds, p), listBlockeds' = RemoveFirst(listBlockeds, p)
      PROVE  BloqueadosConMotivo'
  <2>1. \A q : Esta(RemoveFirst(listBlockeds, p), q) <=> Esta(listBlockeds, q) /\ q # p
    BY <1>1, <1>5, EstaTrasQuitar
  <2>2. \A q : Esta(listBlockeds', q) => Esta(listBlockeds, q)
    BY <1>5, <2>1
  <2> QED
    BY <1>3, <2>2
<1>6. CASE CheckResponseOfCpu
  <2>1. CASE PcbBloqueado
    <3>1. PICK p \in Pids : p = respuesta.pid
      BY <2>1, PedidoTipo DEF PcbBloqueado, TypeOK, KernelTypeOK
    <3>2. /\ listBlockeds' = Append(listBlockeds, p) /\ UNCHANGED contexto
          /\ contexto[p].reason \in {"IO", "WAIT"}
      BY <2>1, <3>1 DEF PcbBloqueado, CpuLibre, canales
    <3>3. \A q : Esta(Append(listBlockeds, p), q) <=> Esta(listBlockeds, q) \/ q = p
      BY <1>1, EstaTrasAgregar
    <3>4. \A q : Esta(listBlockeds', q) => Esta(listBlockeds, q) \/ q = p
      BY <3>2, <3>3
    <3> QED
      BY <1>1, <3>2, <3>4 DEF BloqueadosConMotivo
  <2>2. CASE DespertarPorSignal
    <3>1. PICK p : /\ Esta(listBlockeds, p) /\ listBlockeds' = RemoveFirst(listBlockeds, p)
      BY <2>2, PrimeroEsta DEF DespertarPorSignal, DesblockPcb, TypeOK, KernelTypeOK
    <3> QED
      BY <1>5, <3>1
  <2>3. CASE ~(PcbBloqueado \/ DespertarPorSignal)
    <3>1. UNCHANGED listBlockeds
      BY <1>6, <2>3, PedidoQuieto DEF CheckResponseOfCpu, PcbDevuelto, PcbTermina, PcbDesalojado,
         CpuLibre, colas
    <3> QED
      BY <1>4, <3>1
  <2> QED
    BY <2>1, <2>2, <2>3
<1>7. ASSUME NEW p \in Pids, IoFunction(p) PROVE BloqueadosConMotivo'
  <2>1. \/ UNCHANGED listBlockeds
        \/ Esta(listBlockeds, p) /\ listBlockeds' = RemoveFirst(listBlockeds, p)
    BY <1>7 DEF IoFunction, PedirIo, PerderIo, IoSinInterfaz
  <2> QED
    BY <1>4, <1>5, <2>1
<1>8. ASSUME NEW i \in Interfaces, Operate(i) PROVE BloqueadosConMotivo'
  <2>1. PICK p : /\ Esta(listBlockeds, p) /\ listBlockeds' = RemoveFirst(listBlockeds, p)
    BY <1>8 DEF Operate, FinishedIo, FinishedIoError, DesblockPcb
  <2> QED
    BY <1>5, <2>1
<1>9. ASSUME NEW p \in Pids, ExecutePcb(p) PROVE BloqueadosConMotivo'
  BY <1>4, <1>9 DEF ExecutePcb
<1>10. ASSUME NEW i \in Interfaces, TerminarDeLiberar(i) PROVE BloqueadosConMotivo'
  BY <1>4, <1>10 DEF TerminarDeLiberar, colas
<1>11. IniciarProceso \/ ArrancarIo \/ UNCHANGED kernelVars => BloqueadosConMotivo'
  BY <1>4 DEF IniciarProceso, ArrancarIo, kernelVars, colas
<1> QED
  BY <1>1, <1>4, <1>6, <1>7, <1>8, <1>9, <1>10, <1>11, PasosDelKernel

\* The inductive invariant of why a process is blocked.
LEMMA MotivosInvariante ==
    ASSUME MaxFinalizar = 0, IoSinRecursos
    PROVE  Spec => []MotivosInv
<1>1. Init => MotivosInv
  <2> SUFFICES ASSUME Init PROVE MotivosInv
    OBVIOUS
  <2> USE DEF Init, KernelInit, CpuInit, CanalesInit
  <2>1. Motivos
    BY ConstantesDeCanales DEF Motivos, ConMotivo, ContextoInicial
  <2>2. BloqueadosConMotivo /\ PedidosDePrograma
    BY CamposDeRespuesta DEF BloqueadosConMotivo, PedidosDePrograma, Esta
  <2>3. HilosDeIo
    BY DEF HilosDeIo
  <2>4. NadaQueLiberar
    BY DEF NadaQueLiberar, ConsolaLibre, EnConsola, BuscandoPcs
  <2> QED
    BY <2>1, <2>2, <2>3, <2>4 DEF MotivosInv
<1>2. TypeOK /\ CpuExclusiva /\ CurrentEsElQueCorre /\ UbicacionInv /\ MotivosInv /\ [Next]_vars
        => MotivosInv'
  BY HilosSiguenSiendoDeIo, SigueSinLiberar, PedidosSiguenSiendoDePrograma, MotivosSiguen,
     BloqueadosSiguenConMotivo DEF MotivosInv
<1> QED
  BY <1>1, <1>2, TiposCorrectos, ExclusionDeLaCpu, CurrentDelQueCorre, UbicacionInvariante, PTL
     DEF Spec

-------------------------------------------------------------------------------
(* EsperasExactas: the count of a resource and the processes that wait for it. *)

Esperando(r) == {p \in Pids : Esta(listBlockeds, p) /\ contexto[p].info = r}

PorEsperar(p, r) == contexto[p].reason = "WAIT" /\ contexto[p].info = r

\* A WAIT of r has turned the count negative, and its process is not blocked yet.
EnCamino(r) ==
    \/ respuesta.pc = "responder" /\ respuesta.res = r /\ recursos[r] < 0
    \/ /\ socketCpuDispatch # <<>> /\ Head(socketCpuDispatch).op = "BLOCK"
       /\ esperaRecurso = r
    \/ /\ respuestasCpu # <<>> /\ Head(respuestasCpu).op = "PCB"
       /\ PorEsperar(Head(respuestasCpu).pid, r)
    \/ respuesta.pc = "pcb" /\ PorEsperar(respuesta.pid, r)

\* What the count of r owes.
Deuda(n) == IF n < 0 THEN -n ELSE 0

\* The blocked processes are those that the count owes, less the one on its way,
\* and one more while a SIGNAL that has been counted wakes nobody.
EsperasDe(r) ==
    Cardinality(Esperando(r)) + Si(EnCamino(r))
      = Deuda(recursos[r]) + Si(SignalEnCurso(r)) + Si(SinRespuesta(r))

\* Between the two halves of instancia-- and of instancia++ nobody writes it.
LecturaAlDia ==
    respuesta.pc \in {"restar", "sumar"} => respuesta.leida = recursos[respuesta.res]

EsperasInv == LecturaAlDia /\ \A r \in Recursos : EsperasDe(r)

\* There are finitely many pids.
LEMMA EsperandoFinito == \A r : IsFiniteSet(Esperando(r)) /\ Cardinality(Esperando(r)) \in Nat
<1>1. ASSUME NEW r PROVE IsFiniteSet(Esperando(r))
  <2>1. IsFiniteSet(1 .. MaxPid) /\ Esperando(r) \subseteq 1 .. MaxPid
    BY FS_Interval, ConstantesDeCanales DEF Esperando, Pids
  <2> QED
    BY <2>1, FS_Subset
<1> QED
  BY <1>1, FS_CardinalityType

\* The blocked processes of a resource change only when checkResponseOfCpu blocks
\* one or wakes one for a SIGNAL.
LEMMA EsperandoIgual ==
    ASSUME TypeOK, CpuExclusiva, CurrentEsElQueCorre, UbicacionInv, MaxFinalizar = 0,
           IoSinRecursos, MotivosInv, [Next]_vars, ~PcbBloqueado, ~DespertarPorSignal,
           NEW r \in Recursos
    PROVE  Esperando(r)' = Esperando(r)
<1>1. /\ NadaQueLiberar /\ BloqueadosConMotivo /\ HilosDeIo /\ Motivos
      /\ listBlockeds \in Seq(Pids) /\ IsInjective(listBlockeds)
      /\ r # "IO"
  BY ConstantesDeCanales DEF MotivosInv, TypeOK, KernelTypeOK, ColasTypeOK, UbicacionInv, SinRepetir
<1>2. \A p \in Pids : Esta(listBlockeds, p) => contexto'[p] = contexto[p]
  BY ContextoDeBloqueados
<1>3. ASSUME \A p \in Pids : Esta(listBlockeds', p) <=> Esta(listBlockeds, p)
      PROVE  Esperando(r)' = Esperando(r)
  BY <1>2, <1>3 DEF Esperando
<1>4. UNCHANGED listBlockeds => Esperando(r)' = Esperando(r)
  BY <1>3
<1>5. ASSUME NEW p \in DeIo, Esta(listBlockeds, p), listBlockeds' = RemoveFirst(listBlockeds, p)
      PROVE  Esperando(r)' = Esperando(r)
  <2>1. \A q : Esta(RemoveFirst(listBlockeds, p), q) <=> Esta(listBlockeds, q) /\ q # p
    BY <1>1, <1>5, EstaTrasQuitar
  <2>2. \A q : Esta(listBlockeds', q) <=> Esta(listBlockeds, q) /\ q # p
    BY <1>5, <2>1
  <2>3. contexto[p].info = "IO"
    BY <1>1, <1>5 DEF BloqueadosConMotivo, Motivos, ConMotivo, IoSinRecursos, DeIo
  <2>4. \A q \in Pids : Esta(listBlockeds', q) /\ contexto'[q].info = r
                          <=> Esta(listBlockeds, q) /\ contexto[q].info = r
    BY <1>1, <1>2, <2>2, <2>3
  <2> QED
    BY <2>4 DEF Esperando
<1>6. CASE CheckResponseOfCpu
  <2>1. UNCHANGED listBlockeds
    BY <1>6, PedidoQuieto DEF CheckResponseOfCpu, PcbDevuelto, PcbTermina, PcbDesalojado,
       CpuLibre, colas
  <2> QED
    BY <1>4, <2>1
<1>7. ASSUME NEW p \in Pids, IoFunction(p) PROVE Esperando(r)' = Esperando(r)
  <2>1. \/ UNCHANGED listBlockeds
        \/ Esta(listBlockeds, p) /\ listBlockeds' = RemoveFirst(listBlockeds, p)
    BY <1>7 DEF IoFunction, PedirIo, PerderIo, IoSinInterfaz
  <2>2. p \in DeIo
    BY <1>1, <1>7 DEF IoFunction, PedirIo, PerderIo, IoSinInterfaz, TerminarIo, HilosDeIo
  <2> QED
    BY <1>4, <1>5, <2>1, <2>2
<1>8. ASSUME NEW i \in Interfaces, Operate(i) PROVE Esperando(r)' = Esperando(r)
  <2>1. PICK p \in DeIo : p = Head(ioPedidos[i])
    BY <1>1, <1>8 DEF Operate, FinishedIo, FinishedIoError, RespuestaDeInterfaz, HilosDeIo
  <2>2. Esta(listBlockeds, p) /\ listBlockeds' = RemoveFirst(listBlockeds, p)
    BY <1>8, <2>1 DEF Operate, FinishedIo, FinishedIoError, DesblockPcb
  <2> QED
    BY <1>5, <2>2
<1>9. ASSUME NEW p \in Pids, ExecutePcb(p) PROVE Esperando(r)' = Esperando(r)
  BY <1>4, <1>9 DEF ExecutePcb
<1>10. ASSUME NEW i \in Interfaces, TerminarDeLiberar(i) PROVE Esperando(r)' = Esperando(r)
  BY <1>4, <1>10 DEF TerminarDeLiberar, colas
<1>11. IniciarProceso \/ ArrancarIo \/ UNCHANGED kernelVars => Esperando(r)' = Esperando(r)
  BY <1>4 DEF IniciarProceso, ArrancarIo, kernelVars, colas
<1> QED
  BY <1>1, <1>4, <1>6, <1>7, <1>8, <1>9, <1>10, <1>11, PasosDelKernel

\* blockPcb and desblockPcb: one process more, and one less.
LEMMA EsperandoTrasBloquear ==
    ASSUME TypeOK, CurrentEsElQueCorre, UbicacionInv, Motivos, PcbBloqueado,
           NEW r \in Recursos
    PROVE  Cardinality(Esperando(r)') = Cardinality(Esperando(r)) + Si(PorEsperar(respuesta.pid, r))
<1>1. PICK p \in Pids : p = respuesta.pid
  BY PedidoTipo DEF PcbBloqueado, TypeOK, KernelTypeOK
<1>2. /\ listBlockeds' = Append(listBlockeds, p) /\ UNCHANGED contexto
      /\ contexto[p].reason \in {"IO", "WAIT"} /\ ~Esta(listBlockeds, p)
      /\ listBlockeds \in Seq(Pids) /\ r # "IO"
  BY <1>1, NoEstaBloqueado, ConstantesDeCanales
     DEF PcbBloqueado, CpuLibre, canales, TypeOK, KernelTypeOK, ColasTypeOK
<1>3. \A q : Esta(Append(listBlockeds, p), q) <=> Esta(listBlockeds, q) \/ q = p
  BY <1>2, EstaTrasAgregar
<1>4. \A q : Esta(listBlockeds', q) <=> Esta(listBlockeds, q) \/ q = p
  BY <1>2, <1>3
<1>5. CASE PorEsperar(p, r)
  <2>1. Esperando(r)' = Esperando(r) \cup {p} /\ p \notin Esperando(r)
    BY <1>2, <1>4, <1>5 DEF Esperando, PorEsperar
  <2>2. Cardinality(Esperando(r)') = Cardinality(Esperando(r)) + 1
    BY <2>1, EsperandoFinito, FS_AddElement
  <2> QED
    BY <1>1, <1>5, <2>2 DEF Si
<1>6. CASE ~PorEsperar(p, r)
  <2>1. contexto[p].info # r
    BY <1>2, <1>6 DEF PorEsperar, Motivos, ConMotivo
  <2>2. Esperando(r)' = Esperando(r)
    BY <1>2, <1>4, <2>1 DEF Esperando
  <2> QED
    BY <1>1, <1>6, <2>2, EsperandoFinito DEF Si
<1> QED
  BY <1>5, <1>6

\* desblockPcb: one process less waits for the resource.
LEMMA EsperandoTrasDespertar ==
    ASSUME TypeOK, UbicacionInv, DespertarPorSignal, NEW r \in Recursos
    PROVE  Cardinality(Esperando(r)') = Cardinality(Esperando(r)) - Si(respuesta.res = r)
<1> DEFINE s == respuesta.res
<1>1. /\ respuesta.pc = "despertar" /\ Esperan(s) # {} /\ DesblockPcb(PrimeroQueEspera(s))
      /\ UNCHANGED contexto
  BY DEF DespertarPorSignal
<1>2. listBlockeds \in Seq(Pids) /\ IsInjective(listBlockeds)
  BY DEF TypeOK, KernelTypeOK, ColasTypeOK, UbicacionInv, SinRepetir
<1> HIDE DEF s
<1>3. PICK i \in Esperan(s) : i = Min(Esperan(s))
  <2>1. Esperan(s) \in SUBSET Nat
    BY <1>2 DEF Esperan
  <2> QED
    BY <1>1, <2>1, MinDeNaturales
<1>4. PICK p \in Pids : p = listBlockeds[i]
  BY <1>2 DEF Esperan
<1>5. /\ Esta(listBlockeds, p) /\ contexto[p].info = s
      /\ listBlockeds' = RemoveFirst(listBlockeds, p)
  BY <1>1, <1>3, <1>4 DEF Esperan, Esta, PrimeroQueEspera, DesblockPcb
<1>6. \A q : Esta(RemoveFirst(listBlockeds, p), q) <=> Esta(listBlockeds, q) /\ q # p
  BY <1>2, <1>5, EstaTrasQuitar
<1>7. \A q : Esta(listBlockeds', q) <=> Esta(listBlockeds, q) /\ q # p
  BY <1>5, <1>6
<1>8. CASE r = s
  <2>1. Esperando(r)' = Esperando(r) \ {p} /\ p \in Esperando(r)
    BY <1>1, <1>4, <1>5, <1>7, <1>8 DEF Esperando
  <2>2. Cardinality(Esperando(r)') = Cardinality(Esperando(r)) - 1
    BY <2>1, EsperandoFinito, FS_RemoveElement
  <2>3. Si(respuesta.res = r) = 1
    BY <1>8 DEF Si, s
  <2> QED
    BY <2>2, <2>3
<1>9. CASE r # s
  <2>1. Esperando(r)' = Esperando(r)
    BY <1>1, <1>5, <1>7, <1>9 DEF Esperando
  <2>2. Si(respuesta.res = r) = 0
    BY <1>9 DEF Si, s
  <2> QED
    BY <2>1, <2>2, EsperandoFinito
<1> QED
  BY <1>8, <1>9

\* A new process is none of those that come back from the CPU.
LEMMA NoEsElNuevo ==
    ASSUME TypeOK, CpuExclusiva, CurrentEsElQueCorre, UbicacionInv, HayPid
    PROVE  /\ respuestasCpu # <<>> /\ Head(respuestasCpu).op = "PCB"
                => Head(respuestasCpu).pid # PidNuevo
           /\ respuesta.pc = "pcb" => respuesta.pid # PidNuevo
<1>1. /\ freePids \in Seq(Pids) /\ nextPid \in Nat /\ NULL \notin Pids
      /\ respuestasCpu \in Seq(MensajesDeLaCpu)
  BY ConstantesDeCanales DEF TypeOK, KernelTypeOK, PidsTypeOK, CanalesTypeOK, Pids
<1>2. ASSUME NEW x \in Sitios, x # "free", NEW p \in EnSitio[x]
      PROVE  p # PidNuevo
  <2>1. CASE freePids # <<>>
    <3>1. 1 \in DOMAIN freePids /\ PidNuevo = freePids[1]
      BY <1>1, <2>1 DEF PidNuevo
    <3>2. PidNuevo \in EnSitio["free"]
      BY <3>1, Sitio DEF ToSet
    <3> QED
      BY <1>2, <3>2, NoEstaEnOtro DEF Sitios
  <2>2. CASE freePids = <<>>
    <3>1. PidNuevo = nextPid
      BY <2>2 DEF PidNuevo
    <3>2. nextPid \notin EnSitio[x]
      BY <1>1 DEF UbicacionInv, Reparte, Sitios
    <3> QED
      BY <1>2, <3>1, <3>2
  <2> QED
    BY <2>1, <2>2
<1>3. ASSUME respuestasCpu # <<>>, Head(respuestasCpu).op = "PCB"
      PROVE  Head(respuestasCpu).pid # PidNuevo
  <2>1. PICK m \in MensajesDeLaCpu : m = Head(respuestasCpu) /\ m = respuestasCpu[1]
    BY <1>1, <1>3
  <2>2. 1 \in DOMAIN respuestasCpu
    BY <1>1, <1>3
  <2>3. m.pid = currentyRunningPcb /\ m.pid # NULL
    BY <1>1, <1>3, <2>1, <2>2 DEF CurrentEsElQueCorre, EsPcb, MensajesDeLaCpu, Pcbs
  <2>4. m.pid \in EnSitio["cpu"]
    BY <2>3, Sitio
  <2> QED
    BY <1>2, <2>1, <2>4 DEF Sitios
<1>4. ASSUME respuesta.pc = "pcb" PROVE respuesta.pid # PidNuevo
  <2>1. respuesta.pid \in EnSitio["pcb"]
    BY <1>4, Sitio DEF Devuelto
  <2> QED
    BY <1>2, <2>1 DEF Sitios
<1> QED
  BY <1>3, <1>4

\* The count changes only by a WAIT or a SIGNAL.
LEMMA CuentaIgual ==
    ASSUME TypeOK, MaxFinalizar = 0, IoSinRecursos, MotivosInv, [Next]_vars,
           ~AnotarWait, ~QuitarSignal
    PROVE  UNCHANGED recursos
<1> USE DEF recursosVars
<1>1. NadaQueLiberar
  BY DEF MotivosInv
<1>2. ASSUME CheckResponseOfCpu PROVE UNCHANGED recursos
  <2>1. AtenderPedido => UNCHANGED recursos
    BY DEF AtenderPedido, RecursoDesconocido, RecibirPedido, ResponderWait, ProbarSignal,
       BuscarEnEspera
  <2>2. PcbDevuelto \/ PcbTermina \/ PcbDesalojado \/ PcbBloqueado \/ DespertarPorSignal
          => UNCHANGED recursos
    BY DEF PcbDevuelto, PcbTermina, PcbDesalojado, PcbBloqueado, CpuLibre, DespertarPorSignal
  <2> QED
    BY <1>2, <2>1, <2>2 DEF CheckResponseOfCpu
<1>3. ASSUME \/ IniciarProceso \/ ArrancarIo
             \/ \E p \in Pids : ExecutePcb(p) \/ IoFunction(p)
             \/ \E i \in Interfaces : Operate(i) \/ TerminarDeLiberar(i)
      PROVE  UNCHANGED recursos
  BY <1>3, Zenon DEF IniciarProceso, ArrancarIo, ExecutePcb, IoFunction, PedirIo, PerderIo,
     IoSinInterfaz, TerminarIo, Operate, FinishedIo, FinishedIoError, TerminarDeLiberar
<1>4. UNCHANGED kernelVars => UNCHANGED recursos
  BY DEF kernelVars
<1> QED
  BY <1>1, <1>2, <1>3, <1>4, PasosDelKernel

\* The signs of what is on its way, of the next state, by what is there.
LEMMA SinNadieEnCamino ==
    ASSUME NEW r \in NombresRecursos, NEW d, NEW a, d = socketCpuDispatch', a = respuestasCpu',
           respuesta'.pc = "recv", d # <<>> => Head(d).op # "BLOCK", a # <<>> => Head(a).op # "PCB",
           d # <<>> \/ a # <<>> \/ esperaRecurso' = NULL
    PROVE  ~EnCamino(r)' /\ ~SignalEnCurso(r)' /\ ~SinRespuesta(r)'
<1>1. r # NULL
  BY ConstantesDeCanales
<1> QED
  BY <1>1 DEF EnCamino, SignalEnCurso, SinRespuesta

\* A PCB that comes back is on its way to listBlockeds when it waits.
LEMMA VuelveUnPcb ==
    ASSUME NEW r \in NombresRecursos, NEW p, socketCpuDispatch' = <<>>, esperaRecurso' = NULL,
           \/ /\ respuestasCpu' = Append(<<>>, Mensaje("PCB", p, NULL))
              /\ respuesta'.pc = "recv"
           \/ respuestasCpu' = <<>> /\ respuesta'.pc = "pcb" /\ respuesta'.pid = p
    PROVE  (EnCamino(r)' <=> PorEsperar(p, r)') /\ ~SignalEnCurso(r)' /\ ~SinRespuesta(r)'
<1>1. r # NULL
  BY ConstantesDeCanales
<1>2. ASSUME respuestasCpu' = Append(<<>>, Mensaje("PCB", p, NULL))
      PROVE  /\ respuestasCpu' # <<>>
             /\ Head(respuestasCpu').op = "PCB" /\ Head(respuestasCpu').pid = p
  BY <1>2 DEF Mensaje
<1> QED
  BY <1>1, <1>2 DEF EnCamino, SignalEnCurso, SinRespuesta, PorEsperar

\* The steps of the CPU: who leaves it to wait for r is who had its BLOCK.
LEMMA FaseDeLaCpu ==
    ASSUME TypeOK, CpuExclusiva, MotivosInv, NEW r \in NombresRecursos, UNCHANGED kernelVars,
           RecibirPcb \/ EjecutarInstruccion \/ RecibirRespuesta
    PROVE  /\ EnCamino(r)' <=> EnCamino(r)
           /\ ~SignalEnCurso(r)' /\ ~SignalEnCurso(r) /\ ~SinRespuesta(r)' /\ ~SinRespuesta(r)
<1>1. r # NULL /\ UNCHANGED respuesta /\ reasonForInterruption # "WAIT"
      /\ contexto \in [Pids -> Contextos]
  BY ConstantesDeCanales DEF kernelVars, TypeOK, CpuTypeOK, CanalesTypeOK
<1>2. CASE RecibirPcb
  <2>1. /\ socketCpuDispatch # <<>> /\ Head(socketCpuDispatch).op = "PCB"
        /\ respuestasCpu = <<>> /\ respuesta.pc = "recv" /\ esperaRecurso = NULL
        /\ socketCpuDispatch' = <<>> /\ respuestasCpu' = <<>> /\ esperaRecurso' = NULL
    BY <1>2, ConMensaje DEF RecibirPcb
  <2>2. ~EnCamino(r)' /\ ~SignalEnCurso(r)' /\ ~SinRespuesta(r)'
    BY <1>1, <2>1, SinNadieEnCamino
  <2> QED
    BY <2>1, <2>2 DEF EnCamino, SignalEnCurso, SinRespuesta
<1>3. ASSUME NEW p, p = pcbExecute, NEW c, c.reason # "WAIT" \/ c.info # r,
             p \in Pids, DevolverPcb(c), respuestasCpu = <<>>,
             socketCpuDispatch' = <<>>, esperaRecurso' = NULL,
             respuesta.pc = "recv"
      PROVE  ~EnCamino(r)' /\ ~SignalEnCurso(r)' /\ ~SinRespuesta(r)'
  <2>1. contexto'[p] = c /\ respuestasCpu' = Append(<<>>, Mensaje("PCB", p, NULL))
    BY <1>1, <1>3 DEF DevolverPcb
  <2>2. EnCamino(r)' <=> PorEsperar(p, r)'
    BY <1>1, <1>3, <2>1, VuelveUnPcb
  <2>3. ~PorEsperar(p, r)'
    BY <1>3, <2>1 DEF PorEsperar
  <2> QED
    BY <1>1, <1>3, <2>1, <2>2, <2>3, VuelveUnPcb
<1>4. ASSUME NEW c \in Contextos, NEW n, Sondear(c, n), pcbExecute \in Pids,
             respuestasCpu = <<>>, socketCpuDispatch' = <<>>, esperaRecurso' = NULL,
             respuesta.pc = "recv"
      PROVE  ~EnCamino(r)' /\ ~SignalEnCurso(r)' /\ ~SinRespuesta(r)'
  <2>1. CASE sInterrupt > 0
    <3> DEFINE d == [c EXCEPT !.reason = reasonForInterruption,
                              !.quantum = IF reasonForInterruption = "QUANTUM"
                                            THEN 0 ELSE @]
    <3>1. d.reason = reasonForInterruption
      BY DEF Contextos
    <3>2. DevolverPcb(d)
      BY <1>4, <2>1 DEF Sondear
    <3> HIDE DEF d
    <3>3. d.reason # "WAIT"
      BY <1>1, <3>1
    <3> QED
      BY <1>3, <1>4, <3>2, <3>3
  <2>2. CASE UNCHANGED respuestasCpu
    BY <1>1, <1>4, <2>2, SinNadieEnCamino
  <2> QED
    BY <1>4, <2>1, <2>2 DEF Sondear
<1>5. CASE EjecutarInstruccion
  <2>1. /\ sCanExecuteInstruction > 0 /\ UNCHANGED socketCpuDispatch
        /\ pcbExecute \in Pids
    BY <1>5 DEF EjecutarInstruccion, EjecutarComun, EjecutarYSalir, PedirRecurso, PuedeEjecutar,
       TypeOK, CpuTypeOK, CpuOcupada
  <2>2. /\ socketCpuDispatch = <<>> /\ respuestasCpu = <<>> /\ respuesta.pc = "recv"
        /\ esperaRecurso = NULL /\ socketCpuDispatch' = <<>>
    BY <2>1, ConFicha
  <2>3. ~EnCamino(r) /\ ~SignalEnCurso(r) /\ ~SinRespuesta(r)
    BY <1>1, <2>2 DEF EnCamino, SignalEnCurso, SinRespuesta
  <2>4. PICK t \in Contextos : t = TrasIncrementarPc
    BY <2>1, ContextoTipo DEF TypeOK
  <2>5. CASE EjecutarComun
    <3>1. Sondear(t, sCanExecuteInstruction - 1) /\ esperaRecurso' = NULL
      BY <2>2, <2>4, <2>5 DEF EjecutarComun
    <3>2. ~EnCamino(r)' /\ ~SignalEnCurso(r)' /\ ~SinRespuesta(r)'
      BY <1>4, <2>1, <2>2, <3>1
    <3> QED
      BY <2>3, <3>2
  <2>6. ASSUME NEW k \in {"EXIT", "IO", "ERROR"}, EjecutarYSalir(k)
        PROVE  ~EnCamino(r)' /\ ~SignalEnCurso(r)' /\ ~SinRespuesta(r)'
    <3> DEFINE d == [t EXCEPT !.reason = k, !.info = IF k = "IO" THEN "IO" ELSE NULL]
    <3>1. DevolverPcb(d) /\ esperaRecurso' = NULL
      BY <2>2, <2>4, <2>6 DEF EjecutarYSalir
    <3>2. d.reason = k
      BY DEF Contextos
    <3> HIDE DEF d
    <3>3. d.reason # "WAIT"
      BY <3>2
    <3> QED
      BY <1>3, <2>1, <2>2, <3>1, <3>3
  <2>7. ASSUME NEW k \in {"WAIT", "SIGNAL"}, NEW q \in NombresRecursos, PedirRecurso(k, q)
        PROVE  ~EnCamino(r)' /\ ~SignalEnCurso(r)' /\ ~SinRespuesta(r)'
    <3>1. respuestasCpu' = Append(<<>>, Mensaje(k, pcbExecute, q))
      BY <2>2, <2>7 DEF PedirRecurso
    <3>2. respuestasCpu' # <<>> /\ Head(respuestasCpu').op # "PCB"
      BY <3>1 DEF Mensaje
    <3> QED
      BY <1>1, <2>2, <3>2, SinNadieEnCamino
  <2> QED
    BY <1>5, <2>3, <2>5, <2>6, <2>7 DEF EjecutarInstruccion
<1>6. CASE RecibirRespuesta
  <2>1. /\ socketCpuDispatch # <<>> /\ esperaRecurso # NULL /\ pcbExecute \in Pids
        /\ Head(socketCpuDispatch).op \in Respuestas
        /\ respuestasCpu = <<>> /\ respuesta.pc = "recv"
        /\ socketCpuDispatch' = <<>> /\ esperaRecurso' = NULL
    BY <1>6, ConMensaje DEF RecibirRespuesta, TypeOK, CpuTypeOK, CpuOcupada
  <2>2. /\ EnCamino(r) <=> Head(socketCpuDispatch).op = "BLOCK" /\ esperaRecurso = r
        /\ ~SignalEnCurso(r) /\ ~SinRespuesta(r)
    BY <2>1 DEF EnCamino, SignalEnCurso, SinRespuesta
  <2>3. PICK c \in Contextos : c = contexto[pcbExecute]
    BY <1>1, <2>1
  <2>4. CASE Head(socketCpuDispatch).op = "CONTINUE"
    <3>1. Sondear(c, sCanExecuteInstruction)
      BY <1>6, <2>3, <2>4 DEF RecibirRespuesta
    <3>2. ~EnCamino(r)' /\ ~SignalEnCurso(r)' /\ ~SinRespuesta(r)'
      BY <1>4, <2>1, <3>1
    <3> QED
      BY <2>2, <2>4, <3>2
  <2>5. CASE Head(socketCpuDispatch).op = "BLOCK"
    <3> DEFINE d == [c EXCEPT !.reason = "WAIT", !.info = esperaRecurso]
    <3>1. DevolverPcb(d)
      BY <1>6, <2>3, <2>5 DEF RecibirRespuesta
    <3>2. d.reason = "WAIT" /\ d.info = esperaRecurso
      BY DEF Contextos
    <3> HIDE DEF d
    <3>3. PICK p \in Pids : p = pcbExecute
      BY <2>1
    <3>4. contexto'[p] = d /\ respuestasCpu' = Append(<<>>, Mensaje("PCB", p, NULL))
      BY <1>1, <2>1, <3>1, <3>3 DEF DevolverPcb
    <3>5. (EnCamino(r)' <=> PorEsperar(p, r)') /\ ~SignalEnCurso(r)' /\ ~SinRespuesta(r)'
      BY <1>1, <2>1, <3>4, VuelveUnPcb
    <3>6. PorEsperar(p, r)' <=> esperaRecurso = r
      BY <3>2, <3>4 DEF PorEsperar
    <3> QED
      BY <2>2, <2>5, <3>5, <3>6
  <2>6. CASE Head(socketCpuDispatch).op = "EMPTY_INSTANCE"
    <3> DEFINE d == [c EXCEPT !.reason = "EXIT", !.info = NULL]
    <3>1. DevolverPcb(d)
      BY <1>6, <2>3, <2>6 DEF RecibirRespuesta
    <3>2. d.reason = "EXIT"
      BY DEF Contextos
    <3> HIDE DEF d
    <3>3. ~EnCamino(r)' /\ ~SignalEnCurso(r)' /\ ~SinRespuesta(r)'
      BY <1>3, <2>1, <3>1, <3>2
    <3> QED
      BY <2>2, <2>6, <3>3
  <2> QED
    BY <2>1, <2>4, <2>5, <2>6 DEF Respuestas
<1> QED
  BY <1>2, <1>5, <1>6

\* The steps of the kernel that write no count, block nobody and neither look for
\* nor wake one for a SIGNAL.
LEMMA FaseDelKernel ==
    ASSUME TypeOK, CpuExclusiva, CurrentEsElQueCorre, UbicacionInv, MaxFinalizar = 0,
           IoSinRecursos, MotivosInv, [Next]_vars, NEW r \in NombresRecursos,
           ~AnotarWait, ~QuitarSignal, ~ProbarSignal, ~BuscarEnEspera, ~PcbBloqueado,
           ~DespertarPorSignal
    PROVE  /\ EnCamino(r)' <=> EnCamino(r)
           /\ SignalEnCurso(r)' <=> SignalEnCurso(r)
           /\ SinRespuesta(r)' <=> SinRespuesta(r)
<1> DEFINE Igual == /\ EnCamino(r)' <=> EnCamino(r)
                    /\ SignalEnCurso(r)' <=> SignalEnCurso(r)
                    /\ SinRespuesta(r)' <=> SinRespuesta(r)
<1>1. /\ r # NULL /\ NadaQueLiberar /\ contexto \in [Pids -> Contextos]
      /\ recursos' = recursos
  BY CuentaIgual, ConstantesDeCanales DEF MotivosInv, TypeOK, CanalesTypeOK
<1>2. ASSUME UNCHANGED <<socketCpuDispatch, respuestasCpu, respuesta, esperaRecurso, contexto>>
      PROVE  Igual
  BY <1>1, <1>2 DEF EnCamino, SignalEnCurso, SinRespuesta, PorEsperar
<1>3. ASSUME NEW p \in Pids, toExecute = "listo", ExecutePcb(p), UNCHANGED cpuVars
      PROVE  Igual
  <2>1. /\ socketCpuDispatch = <<>> /\ respuestasCpu = <<>> /\ respuesta.pc = "recv"
        /\ esperaRecurso = NULL
    BY <1>3, ConFicha
  <2>2. /\ socketCpuDispatch' = Append(<<>>, Mensaje("PCB", p, NULL))
        /\ respuestasCpu' = <<>> /\ respuesta'.pc = "recv"
    BY <1>3, <2>1 DEF ExecutePcb
  <2>3. socketCpuDispatch' # <<>> /\ Head(socketCpuDispatch').op # "BLOCK"
    BY <2>2 DEF Mensaje
  <2>4. ~EnCamino(r)' /\ ~SignalEnCurso(r)' /\ ~SinRespuesta(r)'
    BY <2>2, <2>3, SinNadieEnCamino
  <2> QED
    BY <1>1, <2>1, <2>4 DEF EnCamino, SignalEnCurso, SinRespuesta
<1>4. ASSUME IniciarProceso /\ UNCHANGED cpuVars PROVE Igual
  <2>1. PidNuevo \in Pids /\ HayPid
    BY <1>4, ConstantesDeCanales DEF IniciarProceso, PidNuevo, HayPid, TypeOK, KernelTypeOK,
       PidsTypeOK, Pids
  <2>2. PICK p \in Pids : p = PidNuevo
    BY <2>1
  <2>3. /\ contexto' = [contexto EXCEPT ![p] = ContextoInicial]
        /\ UNCHANGED <<socketCpuDispatch, respuestasCpu, respuesta, esperaRecurso>>
    BY <1>4, <2>2 DEF IniciarProceso, cpuVars
  <2>4. \A q \in Pids : q # p => contexto'[q] = contexto[q]
    BY <1>1, <2>3
  <2>5. /\ respuestasCpu # <<>> /\ Head(respuestasCpu).op = "PCB"
             => Head(respuestasCpu).pid # p /\ Head(respuestasCpu).pid \in Pids
        /\ respuesta.pc = "pcb" => respuesta.pid # p /\ respuesta.pid \in Pids
    <3>1. respuestasCpu # <<>> => Head(respuestasCpu).pid \in Pids
      BY DEF TypeOK, CanalesTypeOK, MensajesDeLaCpu, Pcbs
    <3>2. respuesta.pc = "pcb" => respuesta.pid \in Pids
      BY PedidoTipo DEF TypeOK, KernelTypeOK
    <3> QED
      BY <2>1, <2>2, <3>1, <3>2, NoEsElNuevo
  <2>6. EnCamino(r)' <=> EnCamino(r)
    BY <1>1, <2>3, <2>4, <2>5 DEF EnCamino, PorEsperar
  <2> QED
    BY <1>1, <2>3, <2>6 DEF SignalEnCurso, SinRespuesta
<1>5. ASSUME CheckResponseOfCpu /\ UNCHANGED cpuVars PROVE Igual
  <2>1. UNCHANGED <<esperaRecurso, contexto>>
    BY <1>5, PedidoQuieto, Zenon DEF CheckResponseOfCpu, PcbDevuelto, PcbTermina, PcbDesalojado,
       PcbBloqueado, CpuLibre, DespertarPorSignal, canales, cpuVars
  <2>2. ASSUME PcbDevuelto PROVE Igual
    <3>1. /\ respuestasCpu # <<>> /\ Head(respuestasCpu).op = "PCB"
          /\ socketCpuDispatch = <<>> /\ respuesta.pc = "recv" /\ esperaRecurso = NULL
          /\ respuestasCpu' = <<>> /\ socketCpuDispatch' = <<>>
          /\ respuesta' = [EnRecv EXCEPT !.pc = "pcb", !.pid = Head(respuestasCpu).pid]
      BY <2>2, ConRespuesta DEF PcbDevuelto, LeerRespuesta
    <3>2. PICK p : p = Head(respuestasCpu).pid
      OBVIOUS
    <3>3. respuesta'.pc = "pcb" /\ respuesta'.pid = p
      BY <3>1, <3>2 DEF EnRecv
    <3>4. (EnCamino(r)' <=> PorEsperar(p, r)') /\ ~SignalEnCurso(r)' /\ ~SinRespuesta(r)'
      BY <2>1, <3>1, <3>3, VuelveUnPcb
    <3>5. (EnCamino(r) <=> PorEsperar(p, r)) /\ ~SignalEnCurso(r) /\ ~SinRespuesta(r)
      BY <1>1, <3>1, <3>2 DEF EnCamino, SignalEnCurso, SinRespuesta
    <3>6. PorEsperar(p, r)' <=> PorEsperar(p, r)
      BY <2>1 DEF PorEsperar
    <3> QED
      BY <3>4, <3>5, <3>6
  <2>3. ASSUME PcbTermina \/ PcbDesalojado PROVE Igual
    <3>1. /\ respuesta.pc = "pcb" /\ contexto[respuesta.pid].reason # "WAIT"
          /\ respuesta' = EnRecv /\ UNCHANGED <<socketCpuDispatch, respuestasCpu>>
      BY <2>3 DEF PcbTermina, PcbDesalojado, CpuLibre, canales
    <3>2. socketCpuDispatch = <<>> /\ respuestasCpu = <<>> /\ esperaRecurso = NULL
      BY <3>1, EnManos
    <3>3. ~EnCamino(r) /\ ~SignalEnCurso(r) /\ ~SinRespuesta(r)
      BY <1>1, <3>1, <3>2 DEF EnCamino, SignalEnCurso, SinRespuesta, PorEsperar
    <3>4. respuesta'.pc = "recv"
      BY <3>1 DEF EnRecv
    <3>5. ~EnCamino(r)' /\ ~SignalEnCurso(r)' /\ ~SinRespuesta(r)'
      BY <2>1, <3>1, <3>2, <3>4, SinNadieEnCamino
    <3> QED
      BY <3>3, <3>5
  <2>4. ASSUME NEW op \in {"WAIT", "SIGNAL"}, RecursoDesconocido(op) PROVE Igual
    <3>1. /\ respuestasCpu # <<>> /\ Head(respuestasCpu).op = op
          /\ socketCpuDispatch = <<>> /\ respuesta.pc = "recv"
          /\ respuestasCpu' = <<>> /\ UNCHANGED respuesta
          /\ socketCpuDispatch' = Append(<<>>, Mensaje("EMPTY_INSTANCE", NULL, NULL))
      BY <2>4, ConRespuesta DEF RecursoDesconocido, LeerRespuesta, Responder
    <3>2. socketCpuDispatch' # <<>> /\ Head(socketCpuDispatch').op # "BLOCK"
      BY <3>1 DEF Mensaje
    <3>3. ~EnCamino(r)' /\ ~SignalEnCurso(r)' /\ ~SinRespuesta(r)'
      BY <3>1, <3>2, SinNadieEnCamino
    <3>4. ~EnCamino(r) /\ ~SignalEnCurso(r) /\ ~SinRespuesta(r)
      BY <3>1 DEF EnCamino, SignalEnCurso, SinRespuesta
    <3> QED
      BY <3>3, <3>4
  <2>5. ASSUME NEW op \in {"WAIT", "SIGNAL"}, RecibirPedido(op) PROVE Igual
    <3>1. /\ respuestasCpu # <<>> /\ Head(respuestasCpu).op = op
          /\ respuesta.pc = "recv" /\ socketCpuDispatch = <<>>
          /\ respuestasCpu' = <<>> /\ socketCpuDispatch' = <<>>
          /\ respuesta'.pc \in {"restar", "sumar"}
      BY <2>5, ConRespuesta DEF RecibirPedido, LeerRespuesta
    <3>2. ~EnCamino(r)' /\ ~SignalEnCurso(r)' /\ ~SinRespuesta(r)'
      BY <3>1 DEF EnCamino, SignalEnCurso, SinRespuesta
    <3>3. ~EnCamino(r) /\ ~SignalEnCurso(r) /\ ~SinRespuesta(r)
      BY <3>1 DEF EnCamino, SignalEnCurso, SinRespuesta
    <3> QED
      BY <3>2, <3>3
  <2>6. ASSUME ResponderWait PROVE Igual
    <3> DEFINE op == IF recursos[respuesta.res] < 0 THEN "BLOCK" ELSE "CONTINUE"
    <3>1. /\ respuesta.pc = "responder" /\ esperaRecurso = respuesta.res
          /\ socketCpuDispatch = <<>> /\ respuestasCpu = <<>> /\ respuestasCpu' = <<>>
          /\ socketCpuDispatch' = Append(<<>>, Mensaje(op, NULL, NULL))
          /\ respuesta'.pc = "recv"
      BY <2>6, EnManos, CamposDeRespuesta DEF ResponderWait, Responder
    <3> HIDE DEF op
    <3>2. socketCpuDispatch' # <<>> /\ Head(socketCpuDispatch').op = op
      BY <3>1 DEF Mensaje
    <3>3. op = "BLOCK" <=> recursos[respuesta.res] < 0
      BY DEF op
    <3>4. (EnCamino(r) <=> respuesta.res = r /\ recursos[r] < 0)
          /\ ~SignalEnCurso(r) /\ ~SinRespuesta(r)
      BY <3>1 DEF EnCamino, SignalEnCurso, SinRespuesta
    <3>5. (EnCamino(r)' <=> op = "BLOCK" /\ esperaRecurso = r)
          /\ ~SignalEnCurso(r)' /\ ~SinRespuesta(r)'
      BY <2>1, <3>1, <3>2 DEF EnCamino, SignalEnCurso, SinRespuesta
    <3> QED
      BY <3>1, <3>3, <3>4, <3>5
  <2> QED
    BY <1>5, <2>2, <2>3, <2>4, <2>5, <2>6 DEF CheckResponseOfCpu, AtenderPedido
<1>6. ASSUME UNCHANGED cpuVars,
             \/ ArrancarIo \/ \E p \in Pids : IoFunction(p)
             \/ \E i \in Interfaces : Operate(i) \/ TerminarDeLiberar(i)
      PROVE  Igual
  <2>1. UNCHANGED <<canales, respuesta>>
    BY <1>6, Zenon DEF ArrancarIo, IoFunction, PedirIo, PerderIo, IoSinInterfaz, TerminarIo,
       Operate, FinishedIo, FinishedIoError, TerminarDeLiberar
  <2> QED
    BY <1>2, <1>6, <2>1 DEF canales, cpuVars
<1>7. ASSUME UNCHANGED kernelVars, RecibirPcb \/ EjecutarInstruccion \/ RecibirRespuesta
      PROVE  Igual
  BY <1>7, FaseDeLaCpu
<1> HIDE DEF Igual
<1>8. Igual
  BY <1>1, <1>2, <1>3, <1>4, <1>5, <1>6, <1>7, PasosDelKernel
<1> QED
  BY <1>8 DEF Igual

\* checkResponseOfCpu blocks a process and wakes one.
LEMMA FaseAlBloquear ==
    ASSUME TypeOK, CpuExclusiva, NEW r \in NombresRecursos, PcbBloqueado, UNCHANGED esperaRecurso
    PROVE  /\ EnCamino(r) <=> PorEsperar(respuesta.pid, r)
           /\ ~EnCamino(r)' /\ ~SignalEnCurso(r)' /\ ~SignalEnCurso(r)
           /\ ~SinRespuesta(r)' /\ ~SinRespuesta(r)
<1>1. /\ respuesta.pc = "pcb" /\ respuesta' = EnRecv
      /\ UNCHANGED <<socketCpuDispatch, respuestasCpu, esperaRecurso>>
  BY DEF PcbBloqueado, CpuLibre, canales
<1>2. socketCpuDispatch = <<>> /\ respuestasCpu = <<>> /\ esperaRecurso = NULL /\ r # NULL
  BY <1>1, EnManos, ConstantesDeCanales
<1>3. respuesta'.pc = "recv"
  BY <1>1 DEF EnRecv
<1>4. ~EnCamino(r)' /\ ~SignalEnCurso(r)' /\ ~SinRespuesta(r)'
  BY <1>1, <1>2, <1>3, SinNadieEnCamino
<1> QED
  BY <1>1, <1>2, <1>4 DEF EnCamino, SignalEnCurso, SinRespuesta

\* checkResponseOfCpu wakes one for a SIGNAL, and answers.
LEMMA FaseAlDespertar ==
    ASSUME TypeOK, CpuExclusiva, NEW r \in NombresRecursos, DespertarPorSignal,
           UNCHANGED esperaRecurso
    PROVE  /\ ~EnCamino(r)' /\ ~EnCamino(r)
           /\ ~SignalEnCurso(r)'
           /\ SignalEnCurso(r) <=> respuesta.res = r /\ recursos[r] <= 0
           /\ ~SinRespuesta(r)' /\ ~SinRespuesta(r)
<1>1. /\ respuesta.pc = "despertar" /\ respuesta' = EnRecv
      /\ socketCpuDispatch = <<>> /\ respuestasCpu = <<>> /\ respuestasCpu' = <<>>
      /\ socketCpuDispatch' = Append(<<>>, Mensaje("CONTINUE", NULL, NULL))
  BY EnManos DEF DespertarPorSignal, Responder
<1>2. /\ socketCpuDispatch' # <<>> /\ Head(socketCpuDispatch').op # "BLOCK"
      /\ respuesta'.pc = "recv"
  BY <1>1 DEF Mensaje, EnRecv
<1>3. ~EnCamino(r)' /\ ~SignalEnCurso(r)' /\ ~SinRespuesta(r)'
  BY <1>1, <1>2, SinNadieEnCamino
<1> QED
  BY <1>1, <1>3 DEF EnCamino, SignalEnCurso, SinRespuesta

\* checkResponseOfCpu in a dialogue: the sockets are empty and the CPU waits.
LEMMA EnElDialogo ==
    ASSUME TypeOK, CpuExclusiva, respuesta.pc \notin {"recv", "pcb"}
    PROVE  /\ respuesta.res \in Recursos /\ esperaRecurso = respuesta.res
           /\ socketCpuDispatch = <<>> /\ respuestasCpu = <<>>
           /\ \A r : /\ EnCamino(r) <=> /\ respuesta.pc = "responder" /\ respuesta.res = r
                                        /\ recursos[r] < 0
                     /\ ~SinRespuesta(r)
<1>1. socketCpuDispatch = <<>> /\ respuestasCpu = <<>> /\ esperaRecurso = respuesta.res
  BY EnManos
<1>2. respuesta.pc \in {"restar", "sumar"} \cup DialogoPcs
  BY DEF TypeOK, KernelTypeOK, RespuestaTypeOK
<1>3. respuesta.res \in Recursos
  BY <1>2, PedidoTipo DEF TypeOK, KernelTypeOK
<1> QED
  BY <1>1, <1>3 DEF EnCamino, SinRespuesta

\* A step that leaves it there.
LEMMA SigueElDialogo ==
    ASSUME socketCpuDispatch' = <<>>, respuestasCpu' = <<>>,
           respuesta'.pc \notin {"recv", "pcb"}, NEW r
    PROVE  /\ EnCamino(r)' <=> /\ respuesta'.pc = "responder" /\ respuesta'.res = r
                               /\ recursos'[r] < 0
           /\ ~SinRespuesta(r)'
BY DEF EnCamino, SinRespuesta

\* What is owed is a natural.
LEMMA DeudaTipo == \A n \in Int : Deuda(n) \in Nat
BY DEF Deuda

\* Who waits, whom the count owes and the signs, as numbers.
LEMMA EsperasEnNumeros ==
    ASSUME TypeOK, EsperasInv, NEW r \in Recursos
    PROVE  /\ recursos[r] \in Int /\ Deuda(recursos[r]) \in Nat
           /\ Cardinality(Esperando(r)) \in Nat
           /\ Cardinality(Esperando(r)) + Si(EnCamino(r))
                = Deuda(recursos[r]) + Si(SignalEnCurso(r)) + Si(SinRespuesta(r))
<1>1. recursos[r] \in Int
  BY DEF TypeOK, KernelTypeOK, RecursosTypeOK
<1> QED
  BY <1>1, EsperandoFinito, DeudaTipo DEF EsperasInv, EsperasDe

\* WAIT: the count owes one more exactly when it turns negative.
LEMMA EsperasTrasWait ==
    ASSUME TypeOK, CpuExclusiva, EsperasInv, AnotarWait,
           \A r \in Recursos : Esperando(r)' = Esperando(r)
    PROVE  \A r \in Recursos : EsperasDe(r)'
<1>1. PICK q \in Recursos : q = respuesta.res
  BY EnElDialogo DEF AnotarWait
<1>2. PICK n \in Int : n = recursos[q]
  BY <1>1, EsperasEnNumeros
<1>3. recursos' = [recursos EXCEPT ![q] = n - 1] /\ recursos \in [Recursos -> Int]
  BY <1>1, <1>2 DEF AnotarWait, EsperasInv, LecturaAlDia, TypeOK, KernelTypeOK, RecursosTypeOK
<1>4. /\ respuesta.pc = "restar" /\ respuesta'.pc = "responder" /\ respuesta'.res = q
      /\ socketCpuDispatch' = <<>> /\ respuestasCpu' = <<>>
  BY <1>1, EnElDialogo, CamposDeRespuesta DEF AnotarWait, canales
<1>5. ASSUME NEW r \in Recursos PROVE EsperasDe(r)'
  <2>1. ~EnCamino(r) /\ ~SignalEnCurso(r) /\ ~SinRespuesta(r)
    BY <1>4, EnElDialogo DEF SignalEnCurso
  <2>2. (EnCamino(r)' <=> r = q /\ n - 1 < 0) /\ ~SignalEnCurso(r)' /\ ~SinRespuesta(r)'
    BY <1>2, <1>3, <1>4, SigueElDialogo DEF SignalEnCurso
  <2>3. Deuda(recursos'[r]) = Deuda(recursos[r]) + Si(EnCamino(r)')
    <3>1. CASE r = q
      BY <1>2, <1>3, <2>2, <3>1 DEF Deuda, Si
    <3>2. CASE r # q
      <4>1. recursos'[r] = recursos[r] /\ ~EnCamino(r)'
        BY <1>3, <2>2, <3>2
      <4> QED
        BY <4>1, EsperasEnNumeros DEF Si
    <3> QED
      BY <3>1, <3>2
  <2>4. Cardinality(Esperando(r))' = Cardinality(Esperando(r))
    OBVIOUS
  <2> QED
    BY <2>1, <2>2, <2>3, <2>4, EsperasEnNumeros DEF EsperasDe, Si
<1> QED
  BY <1>5

\* SIGNAL: the count owes one less, and one is to be woken or the answer will not
\* come.
LEMMA EsperasTrasSignal ==
    ASSUME TypeOK, CpuExclusiva, EsperasInv, QuitarSignal,
           \A r \in Recursos : Esperando(r)' = Esperando(r)
    PROVE  \A r \in Recursos : EsperasDe(r)'
<1>1. PICK q \in Recursos : q = respuesta.res
  BY EnElDialogo DEF QuitarSignal
<1>2. PICK n \in Int : n = recursos[q]
  BY <1>1, EsperasEnNumeros
<1>3. recursos' = [recursos EXCEPT ![q] = n + 1] /\ recursos \in [Recursos -> Int]
  BY <1>1, <1>2 DEF QuitarSignal, EsperasInv, LecturaAlDia, TypeOK, KernelTypeOK, RecursosTypeOK
<1>4. /\ respuesta.pc = "sumar" /\ respuesta'.pc = "probar" /\ respuesta'.res = q
      /\ socketCpuDispatch' = <<>> /\ respuestasCpu' = <<>>
  BY <1>1, EnElDialogo, CamposDeRespuesta DEF QuitarSignal, canales
<1>5. ASSUME NEW r \in Recursos PROVE EsperasDe(r)'
  <2>1. ~EnCamino(r) /\ ~SignalEnCurso(r) /\ ~SinRespuesta(r)
    BY <1>4, EnElDialogo DEF SignalEnCurso
  <2>2. ~EnCamino(r)' /\ (SignalEnCurso(r)' <=> r = q /\ n + 1 <= 0) /\ ~SinRespuesta(r)'
    BY <1>2, <1>3, <1>4, SigueElDialogo DEF SignalEnCurso
  <2>3. /\ Deuda(recursos[r]) = Deuda(recursos'[r]) + Si(SignalEnCurso(r)')
        /\ Deuda(recursos'[r]) \in Nat
    <3>1. CASE r = q
      BY <1>2, <1>3, <2>2, <3>1 DEF Deuda, Si
    <3>2. CASE r # q
      <4>1. recursos'[r] = recursos[r] /\ ~SignalEnCurso(r)'
        BY <1>3, <2>2, <3>2
      <4> QED
        BY <4>1, EsperasEnNumeros DEF Si
    <3> QED
      BY <3>1, <3>2
  <2>4. Cardinality(Esperando(r))' = Cardinality(Esperando(r))
    OBVIOUS
  <2> QED
    BY <2>1, <2>2, <2>3, <2>4, EsperasEnNumeros DEF EsperasDe, Si
<1> QED
  BY <1>5

\* A count that is still negative: the SIGNAL that had been counted is without answer.
LEMMA EsperasTrasProbar ==
    ASSUME TypeOK, CpuExclusiva, EsperasInv, ProbarSignal, UNCHANGED esperaRecurso,
           \A r \in Recursos : Esperando(r)' = Esperando(r)
    PROVE  \A r \in Recursos : EsperasDe(r)'
<1>1. PICK q \in Recursos : q = respuesta.res
  BY EnElDialogo DEF ProbarSignal
<1>2. /\ respuesta.pc = "probar" /\ recursos' = recursos /\ esperaRecurso' = q
      /\ socketCpuDispatch' = <<>> /\ respuestasCpu' = <<>>
      /\ \/ recursos[q] >= 0 /\ respuesta'.pc = "buscar" /\ respuesta'.res = q
         \/ ~(recursos[q] >= 0) /\ respuesta'.pc = "recv"
  BY <1>1, EnElDialogo, CamposDeRespuesta DEF ProbarSignal, canales, recursosVars
<1>3. ASSUME NEW r \in Recursos PROVE EsperasDe(r)'
  <2>1. ~EnCamino(r) /\ (SignalEnCurso(r) <=> r = q /\ recursos[r] <= 0) /\ ~SinRespuesta(r)
    BY <1>1, <1>2, EnElDialogo DEF SignalEnCurso
  <2>2. ~EnCamino(r)'
    BY <1>2 DEF EnCamino
  <2>3. Si(SignalEnCurso(r)') + Si(SinRespuesta(r)') = Si(SignalEnCurso(r))
    <3>1. CASE recursos[q] >= 0
      BY <1>2, <2>1, <3>1 DEF SignalEnCurso, SinRespuesta, Si
    <3>2. CASE ~(recursos[q] >= 0)
      <4>1. recursos[q] \in Int
        BY EsperasEnNumeros
      <4> QED
        BY <1>2, <2>1, <3>2, <4>1 DEF SignalEnCurso, SinRespuesta, Si
    <3> QED
      BY <3>1, <3>2
  <2>4. Cardinality(Esperando(r))' = Cardinality(Esperando(r))
    OBVIOUS
  <2> QED
    BY <1>2, <2>1, <2>2, <2>3, <2>4, EsperasEnNumeros DEF EsperasDe, Si
<1> QED
  BY <1>3

\* Nobody waits in the list when nobody waits.
LEMMA EsperanEsperando ==
    ASSUME TypeOK, NEW r
    PROVE  Esperan(r) = {} <=> Esperando(r) = {}
<1>1. listBlockeds \in Seq(Pids)
  BY DEF TypeOK, KernelTypeOK, ColasTypeOK
<1>2. ASSUME NEW i \in Esperan(r) PROVE listBlockeds[i] \in Esperando(r)
  BY <1>1, <1>2 DEF Esperan, Esperando, Esta
<1>3. ASSUME NEW p \in Esperando(r) PROVE \E i : i \in Esperan(r)
  BY <1>1, <1>3 DEF Esperan, Esperando, Esta
<1> QED
  BY <1>2, <1>3

\* The search finds one that waits whenever the SIGNAL is owed to one.
LEMMA EsperasTrasBuscar ==
    ASSUME TypeOK, CpuExclusiva, EsperasInv, BuscarEnEspera,
           \A r \in Recursos : Esperando(r)' = Esperando(r)
    PROVE  \A r \in Recursos : EsperasDe(r)'
<1>1. PICK q \in Recursos : q = respuesta.res
  BY EnElDialogo DEF BuscarEnEspera
<1>2. /\ respuesta.pc = "buscar" /\ recursos' = recursos /\ respuestasCpu' = <<>>
      /\ \/ /\ Esperan(q) = {} /\ respuesta'.pc = "recv"
            /\ socketCpuDispatch' = Append(<<>>, Mensaje("CONTINUE", NULL, NULL))
         \/ /\ Esperan(q) # {} /\ respuesta'.pc = "despertar" /\ respuesta'.res = q
            /\ socketCpuDispatch' = <<>>
  BY <1>1, EnElDialogo, CamposDeRespuesta DEF BuscarEnEspera, Responder, recursosVars
<1>3. ASSUME NEW r \in Recursos PROVE EsperasDe(r)'
  <2>1. ~EnCamino(r) /\ (SignalEnCurso(r) <=> r = q /\ recursos[r] <= 0) /\ ~SinRespuesta(r)
    BY <1>1, <1>2, EnElDialogo DEF SignalEnCurso
  <2>2. ~EnCamino(r)' /\ (SignalEnCurso(r)' <=> SignalEnCurso(r)) /\ ~SinRespuesta(r)'
    <3>1. CASE Esperan(q) # {}
      BY <1>2, <2>1, <3>1, SigueElDialogo DEF SignalEnCurso
    <3>2. CASE Esperan(q) = {}
      <4>1. Cardinality(Esperando(q)) = 0
        BY <3>2, EsperanEsperando, FS_EmptySet
      <4>2. ~SignalEnCurso(r)
        BY <2>1, <4>1, EsperasEnNumeros DEF Si
      <4>3. socketCpuDispatch' # <<>> /\ Head(socketCpuDispatch').op # "BLOCK"
        BY <1>2, <3>2 DEF Mensaje
      <4> QED
        BY <1>2, <3>2, <4>2, <4>3, SinNadieEnCamino, ConstantesDeCanales
    <3> QED
      BY <3>1, <3>2
  <2>3. Cardinality(Esperando(r))' = Cardinality(Esperando(r))
    OBVIOUS
  <2> QED
    BY <1>2, <2>1, <2>2, <2>3, EsperasEnNumeros DEF EsperasDe, Si
<1> QED
  BY <1>3

\* Only checkResponseOfCpu moves its locals, and the CPU's thread waits meanwhile.
LEMMA SoloCheckResponseOfCpu ==
    ASSUME TypeOK, MaxFinalizar = 0, IoSinRecursos, MotivosInv, [Next]_vars,
           respuesta' # respuesta
    PROVE  CheckResponseOfCpu /\ UNCHANGED cpuVars
<1>1. NadaQueLiberar
  BY DEF MotivosInv
<1>2. ASSUME \/ IniciarProceso \/ ArrancarIo
             \/ \E p \in Pids : ExecutePcb(p) \/ IoFunction(p)
             \/ \E i \in Interfaces : Operate(i) \/ TerminarDeLiberar(i)
      PROVE  UNCHANGED respuesta
  BY <1>2, Zenon DEF IniciarProceso, ArrancarIo, ExecutePcb, IoFunction, PedirIo, PerderIo,
     IoSinInterfaz, TerminarIo, Operate, FinishedIo, FinishedIoError, TerminarDeLiberar
<1>3. UNCHANGED kernelVars => UNCHANGED respuesta
  BY DEF kernelVars
<1> QED
  BY <1>1, <1>2, <1>3, PasosDelKernel

\* What was read of the count is what the count is, while nothing is released.
LEMMA LecturaSigueAlDia ==
    ASSUME TypeOK, MaxFinalizar = 0, IoSinRecursos, MotivosInv, LecturaAlDia, [Next]_vars
    PROVE  LecturaAlDia'
<1>1. CASE respuesta' = respuesta
  <2>1. ~AnotarWait /\ ~QuitarSignal
    BY <1>1, CamposDeRespuesta DEF AnotarWait, QuitarSignal
  <2>2. recursos' = recursos
    BY <2>1, CuentaIgual
  <2> QED
    BY <1>1, <2>2 DEF LecturaAlDia
<1>2. CASE respuesta' # respuesta
  <2>1. CheckResponseOfCpu
    BY <1>2, SoloCheckResponseOfCpu
  <2>2. ASSUME NEW op \in {"WAIT", "SIGNAL"}, RecibirPedido(op) PROVE LecturaAlDia'
    BY <2>2 DEF RecibirPedido, LecturaAlDia, recursosVars
  <2>3. respuesta'.pc \notin {"restar", "sumar"} => LecturaAlDia'
    BY DEF LecturaAlDia
  <2>4. \/ respuesta'.pc \notin {"restar", "sumar"}
        \/ \E op \in {"WAIT", "SIGNAL"} : RecibirPedido(op)
    <3>1. ASSUME AtenderPedido, ~\E op \in {"WAIT", "SIGNAL"} : RecibirPedido(op)
          PROVE  respuesta'.pc \notin {"restar", "sumar"}
      <4>1. AnotarWait \/ ResponderWait \/ QuitarSignal \/ ProbarSignal \/ BuscarEnEspera
        BY <1>2, <3>1 DEF AtenderPedido, RecursoDesconocido
      <4> QED
        BY <4>1, CamposDeRespuesta DEF AnotarWait, ResponderWait, QuitarSignal, ProbarSignal,
           BuscarEnEspera
    <3>2. PcbDevuelto => respuesta'.pc = "pcb"
      BY DEF PcbDevuelto, EnRecv
    <3>3. PcbTermina \/ PcbDesalojado \/ PcbBloqueado \/ DespertarPorSignal
            => respuesta'.pc = "recv"
      BY CamposDeRespuesta DEF PcbTermina, PcbDesalojado, PcbBloqueado, CpuLibre,
         DespertarPorSignal
    <3> QED
      BY <2>1, <3>1, <3>2, <3>3 DEF CheckResponseOfCpu
  <2> QED
    BY <2>2, <2>3, <2>4
<1> QED
  BY <1>1, <1>2

\* The step.
LEMMA EsperasSiguenExactas ==
    ASSUME TypeOK, CpuExclusiva, CurrentEsElQueCorre, UbicacionInv, MaxFinalizar = 0,
           IoSinRecursos, MotivosInv, EsperasInv, [Next]_vars
    PROVE  EsperasInv'
<1>1. Motivos /\ LecturaAlDia
  BY DEF MotivosInv, EsperasInv
<1>2. LecturaAlDia'
  BY <1>1, LecturaSigueAlDia
<1> SUFFICES \A r \in Recursos : EsperasDe(r)'
  BY <1>2 DEF EsperasInv
<1>3. ASSUME ProbarSignal \/ PcbBloqueado \/ DespertarPorSignal
      PROVE  UNCHANGED esperaRecurso
  <2>1. respuesta' # respuesta
    BY <1>3, CamposDeRespuesta DEF ProbarSignal, PcbBloqueado, CpuLibre, DespertarPorSignal
  <2> QED
    BY <2>1, SoloCheckResponseOfCpu DEF cpuVars
<1>4. ~PcbBloqueado /\ ~DespertarPorSignal => \A r \in Recursos : Esperando(r)' = Esperando(r)
  BY EsperandoIgual
<1>5. AnotarWait \/ QuitarSignal \/ ProbarSignal \/ BuscarEnEspera
        => ~PcbBloqueado /\ ~DespertarPorSignal
  BY DEF AnotarWait, QuitarSignal, ProbarSignal, BuscarEnEspera, PcbBloqueado, DespertarPorSignal
<1>6. CASE AnotarWait
  BY <1>4, <1>5, <1>6, EsperasTrasWait
<1>7. CASE QuitarSignal
  BY <1>4, <1>5, <1>7, EsperasTrasSignal
<1>8. CASE ProbarSignal
  BY <1>3, <1>4, <1>5, <1>8, EsperasTrasProbar
<1>9. CASE BuscarEnEspera
  BY <1>4, <1>5, <1>9, EsperasTrasBuscar
<1>10. CASE PcbBloqueado
  <2>1. recursos' = recursos
    BY <1>10 DEF PcbBloqueado, CpuLibre, recursosVars
  <2>2. ASSUME NEW r \in Recursos PROVE EsperasDe(r)'
    <3>1. /\ EnCamino(r) <=> PorEsperar(respuesta.pid, r)
          /\ ~EnCamino(r)' /\ ~SignalEnCurso(r)' /\ ~SignalEnCurso(r)
          /\ ~SinRespuesta(r)' /\ ~SinRespuesta(r)
      BY <1>3, <1>10, FaseAlBloquear, ConstantesDeCanales
    <3>2. Cardinality(Esperando(r)') = Cardinality(Esperando(r)) + Si(PorEsperar(respuesta.pid, r))
      BY <1>1, <1>10, EsperandoTrasBloquear
    <3> QED
      BY <2>1, <3>1, <3>2, EsperasEnNumeros DEF EsperasDe, Si
  <2> QED
    BY <2>2
<1>11. CASE DespertarPorSignal
  <2>1. recursos' = recursos /\ Esperan(respuesta.res) # {}
    BY <1>11 DEF DespertarPorSignal, recursosVars
  <2>2. ASSUME NEW r \in Recursos PROVE EsperasDe(r)'
    <3>1. /\ ~EnCamino(r)' /\ ~EnCamino(r) /\ ~SignalEnCurso(r)'
          /\ SignalEnCurso(r) <=> respuesta.res = r /\ recursos[r] <= 0
          /\ ~SinRespuesta(r)' /\ ~SinRespuesta(r)
      BY <1>3, <1>11, FaseAlDespertar, ConstantesDeCanales
    <3>2. Cardinality(Esperando(r)') = Cardinality(Esperando(r)) - Si(respuesta.res = r)
      BY <1>11, EsperandoTrasDespertar
    <3>3. respuesta.res = r => SignalEnCurso(r)
      <4>1. respuesta.res = r => Cardinality(Esperando(r)) # 0
        BY <2>1, EsperanEsperando, EsperandoFinito, FS_EmptySet
      <4> QED
        BY <3>1, <4>1, EsperasEnNumeros DEF Deuda, Si
    <3> QED
      BY <2>1, <3>1, <3>2, <3>3, EsperasEnNumeros DEF EsperasDe, Si
  <2> QED
    BY <2>2
<1>12. CASE /\ ~AnotarWait /\ ~QuitarSignal /\ ~ProbarSignal /\ ~BuscarEnEspera
            /\ ~PcbBloqueado /\ ~DespertarPorSignal
  <2>1. ASSUME NEW r \in Recursos PROVE EsperasDe(r)'
    <3>1. /\ EnCamino(r)' <=> EnCamino(r)
          /\ SignalEnCurso(r)' <=> SignalEnCurso(r)
          /\ SinRespuesta(r)' <=> SinRespuesta(r)
      BY <1>12, FaseDelKernel, ConstantesDeCanales
    <3>2. Esperando(r)' = Esperando(r) /\ recursos' = recursos
      BY <1>4, <1>12, CuentaIgual
    <3> QED
      BY <3>1, <3>2, EsperasEnNumeros DEF EsperasDe, Si
  <2> QED
    BY <2>1
<1> QED
  BY <1>6, <1>7, <1>8, <1>9, <1>10, <1>11, <1>12

\* BloqueadosPor, counted in listBlockeds and on the way.
LEMMA BloqueadosPorFase ==
    ASSUME TypeOK, CpuExclusiva, NEW r
    PROVE  BloqueadosPor(r) = Cardinality(Esperando(r)) + Si(EnCamino(r))
<1>1. /\ socketCpuDispatch \in Seq(MensajesDelKernel) /\ respuestasCpu \in Seq(MensajesDeLaCpu)
      /\ Len(socketCpuDispatch) <= 1 /\ Len(respuestasCpu) <= 1
  BY Dialogo DEF TypeOK, CanalesTypeOK
<1> DEFINE D == \E i \in DOMAIN socketCpuDispatch :
                  socketCpuDispatch[i].op = "BLOCK" /\ esperaRecurso = r
           P == \E p \in Pids : /\ \/ \E i \in DOMAIN respuestasCpu :
                                        EsPcb(respuestasCpu[i]) /\ respuestasCpu[i].pid = p
                                   \/ respuesta.pc = "pcb" /\ respuesta.pid = p
                                /\ contexto[p].reason = "WAIT" /\ contexto[p].info = r
           A == respuestasCpu # <<>> /\ Head(respuestasCpu).op = "PCB"
                  /\ PorEsperar(Head(respuestasCpu).pid, r)
           B == respuesta.pc = "pcb" /\ PorEsperar(respuesta.pid, r)
<1> DEFINE R == respuesta.pc = "responder" /\ respuesta.res = r /\ recursos[r] < 0
<1>2. D <=> socketCpuDispatch # <<>> /\ Head(socketCpuDispatch).op = "BLOCK" /\ esperaRecurso = r
  <2>1. CASE socketCpuDispatch = <<>>
    BY <2>1
  <2>2. CASE socketCpuDispatch # <<>>
    <3>1. Head(socketCpuDispatch) = socketCpuDispatch[1] /\ Len(socketCpuDispatch) = 1
      BY <1>1, <2>2, UnMensaje
    <3>2. \A i \in DOMAIN socketCpuDispatch : i = 1
      BY <1>1, <3>1
    <3>3. 1 \in DOMAIN socketCpuDispatch
      BY <1>1, <2>2, UnMensaje
    <3> QED
      BY <2>2, <3>1, <3>2, <3>3
  <2> QED
    BY <2>1, <2>2
<1>3. P <=> A \/ B
  <2>1. respuesta.pc = "pcb" => respuesta.pid \in Pids
    BY PedidoTipo DEF TypeOK, KernelTypeOK
  <2>2. CASE respuestasCpu = <<>>
    BY <2>1, <2>2 DEF PorEsperar
  <2>3. CASE respuestasCpu # <<>>
    <3>1. Head(respuestasCpu) = respuestasCpu[1] /\ Len(respuestasCpu) = 1
          /\ 1 \in DOMAIN respuestasCpu
      BY <1>1, <2>3, UnMensaje
    <3>2. \A i \in DOMAIN respuestasCpu : i = 1
      BY <1>1, <3>1
    <3>3. respuestasCpu[1].pid \in Pids
      BY <1>1, <3>1 DEF MensajesDeLaCpu, Pcbs
    <3> QED
      BY <2>1, <2>3, <3>1, <3>2, <3>3 DEF PorEsperar, EsPcb
  <2> QED
    BY <2>2, <2>3
<1>4. (D => ~P) /\ (R => ~D /\ ~P)
  BY <1>2, <1>3, Dialogo, EnManos
<1>5. EnCamino(r) <=> R \/ D \/ P
  BY <1>2, <1>3 DEF EnCamino
<1>6. BloqueadosPor(r) = Cardinality(Esperando(r)) + Si(R) + Si(D) + Si(P)
  BY DEF BloqueadosPor, Esperando
<1> HIDE DEF D, P, R
<1>7. Cardinality(Esperando(r)) \in Nat
  BY EsperandoFinito
<1> QED
  BY <1>4, <1>5, <1>6, <1>7 DEF Si

\* The inductive invariant of EsperasExactas.
LEMMA EsperasInvariante ==
    ASSUME MaxFinalizar = 0, IoSinRecursos
    PROVE  Spec => []EsperasInv
<1>1. Init => EsperasInv
  <2>5. Init => LecturaAlDia
    BY CamposDeRespuesta DEF Init, KernelInit, LecturaAlDia
  <2> SUFFICES ASSUME Init, NEW r \in Recursos PROVE EsperasDe(r)
    BY <2>5 DEF EsperasInv
  <2>1. Esperando(r) = {}
    BY DEF Init, KernelInit, Esperando, Esta
  <2>2. Cardinality(Esperando(r)) = 0
    BY <2>1, FS_EmptySet
  <2>3. ~EnCamino(r) /\ ~SignalEnCurso(r) /\ ~SinRespuesta(r)
    BY ConstantesDeCanales DEF Init, KernelInit, CpuInit, CanalesInit, EnRecv, EnCamino,
       SignalEnCurso, SinRespuesta
  <2>4. Deuda(recursos[r]) = 0
    BY ConstantesDelKernel DEF Init, KernelInit, Deuda
  <2> QED
    BY <2>2, <2>3, <2>4 DEF EsperasDe, Si
<1> QED
  BY <1>1, EsperasSiguenExactas, TiposCorrectos, ExclusionDeLaCpu, CurrentDelQueCorre,
     UbicacionInvariante, MotivosInvariante, PTL DEF Spec

\* The count of a resource and the processes that wait for it agree: see
\* EsperasExactas.
THEOREM EsperasContadas ==
    ASSUME MaxFinalizar = 0, IoSinRecursos
    PROVE  Spec => []EsperasExactas
<1>1. ASSUME TypeOK, CpuExclusiva, EsperasInv PROVE EsperasExactas
  BY <1>1, BloqueadosPorFase DEF EsperasInv, EsperasDe, EsperasExactas, Deuda
<1> QED
  BY <1>1, TiposCorrectos, ExclusionDeLaCpu, EsperasInvariante, PTL

-------------------------------------------------------------------------------
(* PedidoEnCurso: which request gets no answer.                                *)

\* The only request that nobody answers is of a resource that exists and whose
\* count a SIGNAL left negative.
SoloNegativos == \A r \in NombresRecursos : SinRespuesta(r) => r \in Recursos /\ recursos[r] < 0

\* Only ProbarSignal leaves a request without answer, and the count stays as it is.
LEMMA SiguenSoloNegativos ==
    ASSUME TypeOK, CpuExclusiva, CurrentEsElQueCorre, UbicacionInv, MaxFinalizar = 0,
           IoSinRecursos, MotivosInv, SoloNegativos, [Next]_vars
    PROVE  SoloNegativos'
<1> SUFFICES ASSUME NEW r \in NombresRecursos
             PROVE  SinRespuesta(r)' => r \in Recursos /\ recursos'[r] < 0
  BY DEF SoloNegativos
<1>1. SinRespuesta(r) => r \in Recursos /\ recursos[r] < 0
  BY DEF SoloNegativos
<1>2. CASE AnotarWait \/ QuitarSignal
  BY <1>2, CamposDeRespuesta DEF AnotarWait, QuitarSignal, SinRespuesta
<1>3. CASE ProbarSignal
  <2>1. /\ respuesta.res \in Recursos /\ esperaRecurso = respuesta.res
        /\ recursos' = recursos /\ recursos[respuesta.res] \in Int
        /\ recursos[respuesta.res] >= 0 => respuesta'.pc = "buscar"
        /\ respuesta' # respuesta
    BY <1>3, EnElDialogo, CamposDeRespuesta DEF ProbarSignal, recursosVars, TypeOK, KernelTypeOK,
       RecursosTypeOK
  <2>2. UNCHANGED esperaRecurso
    BY <2>1, SoloCheckResponseOfCpu DEF cpuVars
  <2> QED
    BY <2>1, <2>2 DEF SinRespuesta
<1>4. CASE BuscarEnEspera
  <2>1. socketCpuDispatch = <<>>
    BY <1>4, EnElDialogo DEF BuscarEnEspera
  <2>2. respuesta'.pc = "despertar" \/ socketCpuDispatch' # <<>>
    BY <1>4, <2>1, CamposDeRespuesta DEF BuscarEnEspera, Responder
  <2> QED
    BY <2>2 DEF SinRespuesta
<1>5. CASE PcbBloqueado \/ DespertarPorSignal
  <2>1. respuesta' # respuesta
    BY <1>5, CamposDeRespuesta DEF PcbBloqueado, CpuLibre, DespertarPorSignal
  <2>2. UNCHANGED esperaRecurso
    BY <2>1, SoloCheckResponseOfCpu DEF cpuVars
  <2> QED
    BY <1>5, <2>2, FaseAlBloquear, FaseAlDespertar
<1>6. CASE /\ ~AnotarWait /\ ~QuitarSignal /\ ~ProbarSignal /\ ~BuscarEnEspera
           /\ ~PcbBloqueado /\ ~DespertarPorSignal
  BY <1>1, <1>6, FaseDelKernel, CuentaIgual
<1> QED
  BY <1>2, <1>3, <1>4, <1>5, <1>6

\* Every WAIT and every SIGNAL has its answer on the way but the SIGNAL that leaves
\* two processes or more waiting for the resource: see PedidoEnCurso.
THEOREM PedidosConRespuesta ==
    ASSUME MaxFinalizar = 0, IoSinRecursos
    PROVE  Spec => []PedidoEnCurso
<1>1. Init => SoloNegativos
  BY ConstantesDeCanales DEF Init, CpuInit, SoloNegativos, SinRespuesta
<1>2. ASSUME TypeOK, CpuExclusiva, EsperasInv, SoloNegativos PROVE PedidoEnCurso
  <2> SUFFICES ASSUME esperaRecurso # NULL
               PROVE  \/ PasosDelPedido = 1
                      \/ /\ PasosDelPedido = 0 /\ esperaRecurso \in Recursos
                         /\ BloqueadosPor(esperaRecurso) >= 2
    BY DEF PedidoEnCurso
  <2>1. esperaRecurso \in NombresRecursos
    BY <1>2 DEF TypeOK, CpuTypeOK
  <2>2. /\ socketCpuDispatch \in Seq(MensajesDelKernel)
        /\ respuestasCpu \in Seq(MensajesDeLaCpu)
    BY <1>2 DEF TypeOK, CanalesTypeOK
  <2>3. CASE SinRespuesta(esperaRecurso)
    <3>1. PICK r \in Recursos : r = esperaRecurso /\ recursos[r] < 0
      BY <1>2, <2>1, <2>3 DEF SoloNegativos
    <3>2. PasosDelPedido = 0 /\ ~EnCamino(r) /\ ~SignalEnCurso(r) /\ SinRespuesta(r)
      BY <2>3, <3>1 DEF SinRespuesta, PasosDelPedido, EnCamino, SignalEnCurso, Si
    <3>3. Cardinality(Esperando(r)) >= 2
      BY <1>2, <3>1, <3>2, EsperasEnNumeros DEF Deuda, Si
    <3>4. BloqueadosPor(r) >= 2
      BY <1>2, <3>2, <3>3, BloqueadosPorFase, EsperandoFinito DEF Si
    <3> QED
      BY <3>1, <3>2, <3>4
  <2>4. CASE ~SinRespuesta(esperaRecurso)
    <3>1. socketCpuDispatch # <<>> \/ respuestasCpu # <<>> \/ respuesta.pc # "recv"
      BY <2>4 DEF SinRespuesta
    <3>2. Len(socketCpuDispatch) \in Nat /\ Len(respuestasCpu) \in Nat
          /\ (socketCpuDispatch # <<>> => Len(socketCpuDispatch) > 0)
          /\ (respuestasCpu # <<>> => Len(respuestasCpu) > 0)
      BY <2>2
    <3>3. Len(socketCpuDispatch) + Len(respuestasCpu) + Si(respuesta.pc # "recv") <= 1
      BY <1>2 DEF CpuExclusiva
    <3> QED
      BY <3>1, <3>2, <3>3 DEF PasosDelPedido, Si
  <2> QED
    BY <2>3, <2>4
<1> QED
  BY <1>1, <1>2, SiguenSoloNegativos, TiposCorrectos, ExclusionDeLaCpu, CurrentDelQueCorre,
     UbicacionInvariante, MotivosInvariante, EsperasInvariante, PTL DEF Spec

===============================================================================
