--------------------------- MODULE EjecucionProofs ----------------------------
(***************************************************************************)
(* Theorems about Ejecucion, for any number of processes, interfaces and   *)
(* frames, any size of a page and any programs.                            *)
(***************************************************************************)
EXTENDS Ejecucion, PaginacionProofs, SequenceTheorems

-------------------------------------------------------------------------------
(* Sequences of messages, whatever the messages are. *)

EsSeq(s) == s \in Seq({s[k] : k \in 1 .. Len(s)})

\* Any sequence is one.
LEMMA SonSeq ==
    ASSUME NEW R, NEW t \in Seq(R)
    PROVE  EsSeq(t)
<1> DEFINE n == Len(t)
<1> DEFINE E == {t[k] : k \in 1 .. n}
<1>1. n \in Nat /\ t = [k \in 1 .. n |-> t[k]]
  OBVIOUS
<1> HIDE DEF n
<1>2. t \in [1 .. n -> E]
  <2>1. \A k \in 1 .. n : t[k] \in E
    OBVIOUS
  <2> HIDE DEF E
  <2> QED
    BY <1>1, <2>1
<1> HIDE DEF E
<1>3. t \in Seq(E)
  BY <1>1, <1>2
<1> QED
  BY <1>3 DEF EsSeq, E, n

\* What Append does to a sequence of anything.
LEMMA AlAgregar ==
    ASSUME NEW s, EsSeq(s), NEW e
    PROVE  /\ EsSeq(Append(s, e))
           /\ Len(s) \in Nat
           /\ Len(Append(s, e)) = Len(s) + 1
           /\ Append(s, e)[Len(s) + 1] = e
           /\ \A k \in 1 .. Len(s) : Append(s, e)[k] = s[k]
           /\ Append(s, e) # <<>>
<1> DEFINE R == {s[k] : k \in 1 .. Len(s)} \cup {e}
<1> DEFINE t == Append(s, e)
<1>1. s \in Seq(R) /\ Len(s) \in Nat
  BY DEF EsSeq
<1>2. t \in Seq(R) /\ Len(t) = Len(s) + 1 /\ t[Len(s) + 1] = e
  BY <1>1
<1>3. \A k \in 1 .. Len(s) : t[k] = s[k]
  BY <1>1
<1>4. t # <<>>
  BY <1>1, <1>2
<1> HIDE DEF t, R
<1>5. EsSeq(t)
  BY <1>2, SonSeq
<1> QED
  BY <1>1, <1>2, <1>3, <1>4, <1>5 DEF t

\* What Tail does to one that is not empty.
LEMMA AlSacar ==
    ASSUME NEW s, EsSeq(s), s # <<>>
    PROVE  /\ EsSeq(Tail(s))
           /\ Len(s) \in Nat \ {0}
           /\ Head(s) = s[1]
           /\ Len(Tail(s)) = Len(s) - 1
           /\ \A k \in 1 .. Len(s) - 1 : Tail(s)[k] = s[k + 1]
           /\ Len(s) = 1 => Tail(s) = <<>>
<1> DEFINE R == {s[k] : k \in 1 .. Len(s)}
<1> DEFINE t == Tail(s)
<1>1. s \in Seq(R) /\ Len(s) \in Nat \ {0} /\ Head(s) = s[1]
  BY DEF EsSeq
<1>2. t \in Seq(R) /\ Len(t) = Len(s) - 1
  BY <1>1
<1>3. \A k \in 1 .. Len(s) - 1 : t[k] = s[k + 1]
  BY <1>1
<1> HIDE DEF t, R
<1>4. Len(s) = 1 => t = <<>>
  BY <1>1, <1>2, EmptySeq
<1>5. EsSeq(t)
  BY <1>2, SonSeq
<1> QED
  BY <1>1, <1>2, <1>3, <1>4, <1>5 DEF t

\* The empty sequence is one.
LEMMA VaciaEsSeq == EsSeq(<<>>) /\ Len(<<>>) = 0
<1>1. <<>> \in Seq({})
  OBVIOUS
<1> QED
  BY <1>1, SonSeq

\* What EXCEPT does to a function, of which only the domain is known.
LEMMA AlCambiar ==
    ASSUME NEW D, NEW f, NEW g, NEW c \in D, NEW e,
           f = [x \in D |-> f[x]],
           g = [f EXCEPT ![c] = e]
    PROVE  /\ g = [x \in D |-> g[x]]
           /\ g[c] = e
           /\ \A d \in D : d # c => g[d] = f[d]
  OBVIOUS

-------------------------------------------------------------------------------
(* What a step does to a dialogue. *)

\* No request is both answered and not.
LEMMA DosClases == Sincronicos \cap Asincronicos = {}
  BY DEF Sincronicos, Asincronicos

\* Who waits for nothing is in dialogue whatever it would wait for.
LEMMA SinEsperar ==
    ASSUME NEW q, NEW r, NEW t, NEW u, EnDialogo(q, r, FALSE, t)
    PROVE  EnDialogo(q, r, FALSE, u)
  BY DEF EnDialogo

\* A request that nothing answers.
LEMMA PedidoSinRespuesta ==
    ASSUME NEW q, EsSeq(q), NEW r, NEW t, NEW m,
           EnDialogo(q, r, FALSE, t), m.op \in Asincronicos
    PROVE  EnDialogo(Append(q, m), r, FALSE, t)
<1> DEFINE a == Append(q, m)
<1>1. /\ Len(q) \in Nat /\ Len(a) = Len(q) + 1 /\ a[Len(q) + 1] = m
      /\ \A k \in 1 .. Len(q) : a[k] = q[k]
  BY AlAgregar
<1>2. r = <<>> /\ \A k \in 1 .. Len(q) : q[k].op \in Asincronicos
  BY DEF EnDialogo
<1> HIDE DEF a
<1>3. ASSUME NEW k \in 1 .. Len(a) PROVE a[k].op \in Asincronicos
  <2>1. k \in 1 .. Len(q) \/ k = Len(q) + 1
    BY <1>1
  <2> QED
    BY <1>1, <1>2, <2>1
<1> QED
  BY <1>2, <1>3 DEF EnDialogo, a

\* A question.
LEMMA Pregunta ==
    ASSUME NEW q, EsSeq(q), NEW r, NEW t, NEW u, NEW m,
           EnDialogo(q, r, FALSE, t), m.op \in Sincronicos, Tipo(m.op) = u
    PROVE  EnDialogo(Append(q, m), r, TRUE, u)
<1> DEFINE a == Append(q, m)
<1>1. /\ Len(q) \in Nat /\ Len(a) = Len(q) + 1 /\ a[Len(q) + 1] = m /\ a # <<>>
      /\ \A k \in 1 .. Len(q) : a[k] = q[k]
  BY AlAgregar
<1>2. r = <<>> /\ \A k \in 1 .. Len(q) : q[k].op \in Asincronicos
  BY DEF EnDialogo
<1> HIDE DEF a
<1>3. \A k \in 1 .. Len(a) - 1 : a[k].op \in Asincronicos
  BY <1>1, <1>2
<1>4. a[Len(a)] = m
  BY <1>1
<1> QED
  BY <1>1, <1>2, <1>3, <1>4 DEF EnDialogo, a

\* Who receives an answer was waiting for it, and there was nothing else.
LEMMA Respuesta ==
    ASSUME NEW q, NEW r, EsSeq(r), NEW e, NEW t, NEW u, EnDialogo(q, r, e, t), r # <<>>
    PROVE  /\ e /\ q = <<>> /\ Tail(r) = <<>> /\ Head(r).tipo = t
           /\ EnDialogo(q, Tail(r), FALSE, u)
<1>1. e /\ q = <<>> /\ Len(r) = 1 /\ r[1].tipo = t
  BY DEF EnDialogo
<1>2. Head(r) = r[1] /\ Tail(r) = <<>>
  BY <1>1, AlSacar
<1>3. Len(q) = 0
  BY <1>1, VaciaEsSeq
<1>4. \A k \in 1 .. Len(q) : q[k].op \in Asincronicos
  BY <1>3
<1> QED
  BY <1>1, <1>2, <1>4 DEF EnDialogo

\* The memory takes a request that it does not answer.
LEMMA SeCalla ==
    ASSUME NEW q, EsSeq(q), q # <<>>, NEW r, NEW e \in BOOLEAN, NEW t,
           EnDialogo(q, r, e, t), Head(q).op \in Asincronicos
    PROVE  EnDialogo(Tail(q), r, e, t)
<1> DEFINE a == Tail(q)
<1>1. /\ Len(q) \in Nat \ {0} /\ Head(q) = q[1] /\ Len(a) = Len(q) - 1 /\ EsSeq(a)
      /\ \A k \in 1 .. Len(q) - 1 : a[k] = q[k + 1]
  BY AlSacar
<1>2. Len(a) \in Nat
  BY <1>1
<1> HIDE DEF a
<1>3. CASE ~e
  <2>1. r = <<>> /\ \A k \in 1 .. Len(q) : q[k].op \in Asincronicos
    BY <1>3 DEF EnDialogo
  <2>2. ASSUME NEW k \in 1 .. Len(a) PROVE a[k].op \in Asincronicos
    <3>1. a[k] = q[k + 1] /\ k + 1 \in 1 .. Len(q)
      BY <1>1
    <3> QED
      BY <2>1, <3>1
  <2> QED
    BY <1>3, <2>1, <2>2 DEF EnDialogo, a
<1>4. CASE e
  <2>1. /\ r = <<>>
        /\ \A k \in 1 .. Len(q) - 1 : q[k].op \in Asincronicos
        /\ q[Len(q)].op \in Sincronicos /\ Tipo(q[Len(q)].op) = t
    BY <1>4 DEF EnDialogo
  <2>2. Len(q) # 1
    BY <1>1, <2>1, DosClases
  <2>3. a # <<>>
    BY <1>1, <2>2, VaciaEsSeq
  <2>4. a[Len(a)] = q[Len(q)]
    BY <1>1, <2>2
  <2>5. ASSUME NEW k \in 1 .. Len(a) - 1 PROVE a[k].op \in Asincronicos
    <3>1. a[k] = q[k + 1] /\ k + 1 \in 1 .. Len(q) - 1
      BY <1>1
    <3> QED
      BY <2>1, <3>1
  <2> QED
    BY <1>4, <2>1, <2>3, <2>4, <2>5 DEF EnDialogo, a
<1> QED
  BY <1>3, <1>4

\* The memory answers a question, that was the only request.
LEMMA Contesta ==
    ASSUME NEW q, EsSeq(q), q # <<>>, NEW r, NEW e, NEW t, NEW d,
           EnDialogo(q, r, e, t), Head(q).op \in Sincronicos
    PROVE  /\ e /\ r = <<>> /\ Tail(q) = <<>>
           /\ EnDialogo(Tail(q), Append(r, [tipo |-> Tipo(Head(q).op), dato |-> d]), e, t)
<1>1. Len(q) \in Nat \ {0} /\ Head(q) = q[1] /\ (Len(q) = 1 => Tail(q) = <<>>)
  BY AlSacar
<1>2. q[1].op \notin Asincronicos
  BY <1>1, DosClases
<1>3. e
  BY <1>1, <1>2 DEF EnDialogo
<1>4. /\ r = <<>>
      /\ \A k \in 1 .. Len(q) - 1 : q[k].op \in Asincronicos
      /\ Tipo(q[Len(q)].op) = t
  BY <1>3 DEF EnDialogo
<1>5. Len(q) = 1
  <2>1. \A n \in Nat \ {0} : n # 1 => 1 \in 1 .. n - 1
    OBVIOUS
  <2> QED
    BY <1>1, <1>2, <1>4, <2>1
<1> DEFINE m == [tipo |-> Tipo(Head(q).op), dato |-> d]
<1>6. m.tipo = t
  BY <1>1, <1>4, <1>5
<1> HIDE DEF m
<1>7. Len(Append(r, m)) = 1 /\ Append(r, m)[1] = m
  BY <1>4, VaciaEsSeq, AlAgregar
<1>8. Tail(q) = <<>>
  BY <1>1, <1>5
<1> QED
  BY <1>3, <1>4, <1>6, <1>7, <1>8 DEF EnDialogo, m

\* A request that nothing answers, and a question behind it.
LEMMA PedidoYPregunta ==
    ASSUME NEW q, EsSeq(q), NEW r, NEW t, NEW u, NEW m, NEW n,
           EnDialogo(q, r, FALSE, t), m.op \in Asincronicos,
           n.op \in Sincronicos, Tipo(n.op) = u
    PROVE  EnDialogo(Append(Append(q, m), n), r, TRUE, u)
<1>1. EsSeq(Append(q, m))
  BY AlAgregar
<1>2. EnDialogo(Append(q, m), r, FALSE, t)
  BY PedidoSinRespuesta
<1> QED
  BY <1>1, <1>2, Pregunta

\* Two messages that are sent together are two messages.
LEMMA DosMensajes ==
    ASSUME NEW q, EsSeq(q), NEW m, NEW n
    PROVE  q \o <<m, n>> = Append(Append(q, m), n)
<1> DEFINE R == {q[k] : k \in 1 .. Len(q)} \cup {m, n}
<1>1. q \in Seq(R) /\ m \in R /\ n \in R
  BY DEF EsSeq
<1> HIDE DEF R
<1> QED
  BY <1>1

-------------------------------------------------------------------------------
(* What a step does to a connection. *)

\* What is known of the variables that carry messages, whatever these say.
Forma ==
    /\ aMemoria = [c \in Conexiones |-> aMemoria[c]]
    /\ deMemoria = [c \in Conexiones |-> deMemoria[c]]
    /\ \A c \in Conexiones : EsSeq(aMemoria[c]) /\ EsSeq(deMemoria[c])
    /\ interfaz = [i \in Interfaces |-> interfaz[i]]
    /\ cpu = [fase |-> cpu.fase, pid |-> cpu.pid, inst |-> cpu.inst, dirs |-> cpu.dirs,
              datos |-> cpu.datos]

\* The connection c, that the memory has left without an answer or not.
Dialogo(c) ==
    IF c \in mudas THEN Espera(c) /\ aMemoria[c] = <<>> /\ deMemoria[c] = <<>>
    ELSE EnDialogo(aMemoria[c], deMemoria[c], Espera(c), TipoEsperado(c))

\* The client had nothing to receive, or receives it.
DejaDeEsperar(c) ==
    \/ ~Espera(c) /\ deMemoria'[c] = deMemoria[c]
    \/ deMemoria[c] # <<>> /\ deMemoria'[c] = Tail(deMemoria[c])

\* What a client does next: nothing, a request without answer, a question, or both.
Manda(c) ==
    \/ aMemoria'[c] = aMemoria[c] /\ ~Espera(c)'
    \/ /\ ~Espera(c)'
       /\ \E m : aMemoria'[c] = Append(aMemoria[c], m) /\ m.op \in Asincronicos
    \/ /\ Espera(c)'
       /\ \E m : /\ aMemoria'[c] = Append(aMemoria[c], m)
                 /\ m.op \in Sincronicos /\ Tipo(m.op) = TipoEsperado(c)'
    \/ /\ Espera(c)'
       /\ \E m, n : /\ aMemoria'[c] = Append(Append(aMemoria[c], m), n)
                    /\ m.op \in Asincronicos
                    /\ n.op \in Sincronicos /\ Tipo(n.op) = TipoEsperado(c)'

\* What the memory does with the request at the head of c.
Atiende(c) ==
    \/ aMemoria'[c] = aMemoria[c] /\ deMemoria'[c] = deMemoria[c] /\ mudas' = mudas
    \/ /\ aMemoria[c] # <<>> /\ aMemoria'[c] = Tail(aMemoria[c])
       /\ \/ /\ Head(aMemoria[c]).op \in Asincronicos
             /\ deMemoria'[c] = deMemoria[c] /\ mudas' = mudas
          \/ /\ Head(aMemoria[c]).op \in Sincronicos /\ mudas' = mudas
             /\ \E d : deMemoria'[c] = Append(deMemoria[c],
                                              [tipo |-> Tipo(Head(aMemoria[c]).op), dato |-> d])
          \/ /\ Head(aMemoria[c]).op \in Sincronicos /\ mudas' = mudas \cup {c}
             /\ deMemoria'[c] = deMemoria[c]

\* Nothing of the other connections changes.
SoloCambia(c) ==
    \A d \in Conexiones \ {c} :
        /\ aMemoria'[d] = aMemoria[d] /\ deMemoria'[d] = deMemoria[d]
        /\ d \in mudas' <=> d \in mudas
        /\ Espera(d)' <=> Espera(d)
        /\ TipoEsperado(d)' = TipoEsperado(d)

LEMMA LasOtras ==
    ASSUME DialogoConLaMemoria, NEW c, SoloCambia(c), c \in Conexiones => Dialogo(c)'
    PROVE  DialogoConLaMemoria'
<1> SUFFICES ASSUME NEW d \in Conexiones PROVE Dialogo(d)'
  BY DEF DialogoConLaMemoria, Dialogo
<1>1. CASE d = c
  BY <1>1
<1>2. CASE d # c
  <2>1. Dialogo(d)
    BY DEF DialogoConLaMemoria, Dialogo
  <2>2. /\ aMemoria'[d] = aMemoria[d] /\ deMemoria'[d] = deMemoria[d]
        /\ d \in mudas' <=> d \in mudas
        /\ Espera(d)' <=> Espera(d)
        /\ TipoEsperado(d)' = TipoEsperado(d)
    BY <1>2 DEF SoloCambia
  <2>3. Espera(d) \in BOOLEAN /\ Espera(d)' \in BOOLEAN
    BY DEF Espera
  <2>4. Espera(d)' = Espera(d)
    BY <2>2, <2>3
  <2> QED
    BY <2>1, <2>2, <2>4, Zenon DEF Dialogo
<1> QED
  BY <1>1, <1>2

\* A client that receives what it waited for, if it waited, and goes on.
LEMMA PasoDelCliente ==
    ASSUME NEW c, EsSeq(aMemoria[c]), EsSeq(deMemoria[c]), Dialogo(c),
           mudas' = mudas, DejaDeEsperar(c), Manda(c)
    PROVE  Dialogo(c)' /\ EsSeq(aMemoria'[c]) /\ EsSeq(deMemoria'[c])
<1> DEFINE q == aMemoria[c]
<1> DEFINE r == deMemoria'[c]
<1> DEFINE u == TipoEsperado(c)'
<1>1. c \notin mudas /\ c \notin mudas'
  BY DEF Dialogo, DejaDeEsperar
<1>2. EnDialogo(q, deMemoria[c], Espera(c), TipoEsperado(c))
  BY <1>1 DEF Dialogo
<1>3. EnDialogo(q, r, FALSE, u) /\ EsSeq(r)
  <2>1. CASE ~Espera(c) /\ r = deMemoria[c]
    <3>1. Espera(c) \in BOOLEAN
      BY DEF Espera
    <3>2. Espera(c) = FALSE
      BY <2>1, <3>1
    <3>3. EnDialogo(q, deMemoria[c], FALSE, TipoEsperado(c))
      BY <1>2, <3>2
    <3>4. EnDialogo(q, deMemoria[c], FALSE, u)
      BY <3>3, SinEsperar
    <3> QED
      BY <2>1, <3>4
  <2>2. CASE deMemoria[c] # <<>> /\ r = Tail(deMemoria[c])
    <3>1. EnDialogo(q, Tail(deMemoria[c]), FALSE, u)
      BY <1>2, <2>2, Respuesta
    <3>2. EsSeq(Tail(deMemoria[c]))
      BY <2>2, AlSacar
    <3> QED
      BY <2>2, <3>1, <3>2
  <2> QED
    BY <2>1, <2>2 DEF DejaDeEsperar
<1>4. Espera(c)' \in BOOLEAN
  BY DEF Espera
<1>5. EnDialogo(aMemoria'[c], r, Espera(c)', u) /\ EsSeq(aMemoria'[c])
  <2> HIDE DEF r, u
  <2>1. CASE aMemoria'[c] = q /\ ~Espera(c)'
    <3>1. Espera(c)' = FALSE
      BY <1>4, <2>1
    <3> QED
      BY <1>3, <2>1, <3>1
  <2>2. CASE ~Espera(c)' /\ \E m : aMemoria'[c] = Append(q, m) /\ m.op \in Asincronicos
    <3>1. Espera(c)' = FALSE
      BY <1>4, <2>2
    <3>2. PICK m : aMemoria'[c] = Append(q, m) /\ m.op \in Asincronicos
      BY <2>2
    <3>3. EnDialogo(Append(q, m), r, FALSE, u) /\ EsSeq(Append(q, m))
      BY <1>3, <3>2, PedidoSinRespuesta, AlAgregar
    <3> QED
      BY <3>1, <3>2, <3>3
  <2>3. CASE Espera(c)' /\ \E m : /\ aMemoria'[c] = Append(q, m)
                                  /\ m.op \in Sincronicos /\ Tipo(m.op) = u
    <3>1. Espera(c)' = TRUE
      BY <1>4, <2>3
    <3>2. PICK m : aMemoria'[c] = Append(q, m) /\ m.op \in Sincronicos /\ Tipo(m.op) = u
      BY <2>3
    <3>3. EnDialogo(Append(q, m), r, TRUE, u) /\ EsSeq(Append(q, m))
      BY <1>3, <3>2, Pregunta, AlAgregar
    <3> QED
      BY <3>1, <3>2, <3>3
  <2>4. CASE Espera(c)' /\ \E m, n : /\ aMemoria'[c] = Append(Append(q, m), n)
                                     /\ m.op \in Asincronicos
                                     /\ n.op \in Sincronicos /\ Tipo(n.op) = u
    <3>1. Espera(c)' = TRUE
      BY <1>4, <2>4
    <3>2. PICK m, n : /\ aMemoria'[c] = Append(Append(q, m), n)
                      /\ m.op \in Asincronicos /\ n.op \in Sincronicos /\ Tipo(n.op) = u
      BY <2>4
    <3>3. EnDialogo(Append(Append(q, m), n), r, TRUE, u)
      BY <1>3, <3>2, PedidoYPregunta
    <3>4. EsSeq(Append(Append(q, m), n))
      <4>1. EsSeq(Append(q, m))
        BY AlAgregar
      <4> QED
        BY <4>1, AlAgregar
    <3> QED
      BY <3>1, <3>2, <3>3, <3>4
  <2> QED
    BY <2>1, <2>2, <2>3, <2>4 DEF Manda, u
<1> QED
  BY <1>1, <1>3, <1>5 DEF Dialogo

\* The memory, that attends the request at the head of a connection.
LEMMA PasoDeLaMemoria ==
    ASSUME NEW c, EsSeq(aMemoria[c]), EsSeq(deMemoria[c]), Dialogo(c), Atiende(c),
           Espera(c)' <=> Espera(c), TipoEsperado(c)' = TipoEsperado(c)
    PROVE  Dialogo(c)' /\ EsSeq(aMemoria'[c]) /\ EsSeq(deMemoria'[c])
<1> DEFINE q == aMemoria[c]
<1> DEFINE r == deMemoria[c]
<1>1. Espera(c)' = Espera(c) /\ Espera(c) \in BOOLEAN
  BY DEF Espera
<1>2. CASE aMemoria'[c] = q /\ deMemoria'[c] = r /\ mudas' = mudas
  BY <1>1, <1>2, Zenon DEF Dialogo
<1>3. ASSUME q # <<>>, aMemoria'[c] = Tail(q),
             ~(aMemoria'[c] = q /\ deMemoria'[c] = r /\ mudas' = mudas)
      PROVE  Dialogo(c)' /\ EsSeq(aMemoria'[c]) /\ EsSeq(deMemoria'[c])
  <2>1. c \notin mudas
    BY <1>3 DEF Dialogo
  <2>2. EnDialogo(q, r, Espera(c), TipoEsperado(c)) /\ EsSeq(Tail(q))
    BY <1>3, <2>1, AlSacar DEF Dialogo
  <2>3. CASE Head(q).op \in Asincronicos /\ deMemoria'[c] = r /\ mudas' = mudas
    <3>1. EnDialogo(Tail(q), r, Espera(c), TipoEsperado(c))
      BY <1>1, <1>3, <2>2, <2>3, SeCalla
    <3> QED
      BY <1>1, <1>3, <2>1, <2>2, <2>3, <3>1, Zenon DEF Dialogo
  <2>4. CASE /\ Head(q).op \in Sincronicos /\ mudas' = mudas
             /\ \E d : deMemoria'[c] = Append(r, [tipo |-> Tipo(Head(q).op), dato |-> d])
    <3>1. PICK d : deMemoria'[c] = Append(r, [tipo |-> Tipo(Head(q).op), dato |-> d])
      BY <2>4
    <3>2. EnDialogo(Tail(q), deMemoria'[c], Espera(c), TipoEsperado(c))
      BY <1>3, <2>2, <2>4, <3>1, Contesta
    <3>3. EsSeq(deMemoria'[c])
      BY <3>1, AlAgregar
    <3> QED
      BY <1>1, <1>3, <2>1, <2>2, <2>4, <3>2, <3>3, Zenon DEF Dialogo
  <2>5. CASE Head(q).op \in Sincronicos /\ mudas' = mudas \cup {c} /\ deMemoria'[c] = r
    <3>1. Espera(c) /\ r = <<>> /\ Tail(q) = <<>>
      BY <1>3, <2>2, <2>5, Contesta
    <3>2. c \in mudas'
      BY <2>5
    <3> QED
      BY <1>1, <1>3, <2>2, <2>5, <3>1, <3>2 DEF Dialogo
  <2> QED
    BY <1>3, <2>3, <2>4, <2>5 DEF Atiende
<1> QED
  BY <1>2, <1>3 DEF Atiende

-------------------------------------------------------------------------------
(* The steps of the CPU. *)

\* Nobody else's requests, or answers, change.
OtrosPedidos(c) ==
    /\ aMemoria' = [d \in Conexiones |-> aMemoria'[d]]
    /\ \A d \in Conexiones : d # c => aMemoria'[d] = aMemoria[d]

OtrasRespuestas(c) ==
    /\ deMemoria' = [d \in Conexiones |-> deMemoria'[d]]
    /\ \A d \in Conexiones : d # c => deMemoria'[d] = deMemoria[d]

LEMMA AlPreguntar ==
    ASSUME Forma, NEW c \in Conexiones, NEW m, Preguntar(c, m)
    PROVE  aMemoria'[c] = Append(aMemoria[c], m) /\ OtrosPedidos(c)
<1> DEFINE e == Append(aMemoria[c], m)
<1>1. aMemoria = [d \in Conexiones |-> aMemoria[d]] /\ aMemoria' = [aMemoria EXCEPT ![c] = e]
  BY DEF Forma, Preguntar
<1> HIDE DEF e
<1>2. /\ aMemoria' = [d \in Conexiones |-> aMemoria'[d]]
      /\ aMemoria'[c] = e
      /\ \A d \in Conexiones : d # c => aMemoria'[d] = aMemoria[d]
  BY <1>1, AlCambiar
<1> QED
  BY <1>2 DEF OtrosPedidos, e

LEMMA AlConsumir ==
    ASSUME Forma, NEW c \in Conexiones, Consumir(c)
    PROVE  deMemoria'[c] = Tail(deMemoria[c]) /\ OtrasRespuestas(c)
<1> DEFINE e == Tail(deMemoria[c])
<1>1. deMemoria = [d \in Conexiones |-> deMemoria[d]] /\ deMemoria' = [deMemoria EXCEPT ![c] = e]
  BY DEF Forma, Consumir
<1> HIDE DEF e
<1>2. /\ deMemoria' = [d \in Conexiones |-> deMemoria'[d]]
      /\ deMemoria'[c] = e
      /\ \A d \in Conexiones : d # c => deMemoria'[d] = deMemoria[d]
  BY <1>1, AlCambiar
<1> QED
  BY <1>2 DEF OtrasRespuestas, e

LEMMA SinPreguntar ==
    ASSUME Forma, UNCHANGED aMemoria, NEW c
    PROVE  OtrosPedidos(c)
  BY DEF Forma, OtrosPedidos

LEMMA SinConsumir ==
    ASSUME Forma, UNCHANGED deMemoria, NEW c
    PROVE  OtrasRespuestas(c)
  BY DEF Forma, OtrasRespuestas

\* The thread of the CPU goes on with the process that it had, or gives it back.
CpuSigue ==
    /\ cpu' = [fase |-> cpu'.fase, pid |-> cpu'.pid, inst |-> cpu'.inst, dirs |-> cpu'.dirs,
               datos |-> cpu'.datos]
    /\ \/ cpu'.fase = "libre" /\ cpu'.pid = NULL
       \/ cpu'.fase # "libre" /\ cpu'.pid = cpu.pid
    /\ vuelve' = vuelve \/ vuelve'.pid = cpu.pid

CpuDeja == CpuSigue /\ cpu'.fase \in {"libre", "pedir"}

LEMMA AlTerminar ==
    ASSUME NEW regs, Terminar(regs)
    PROVE  CpuDeja
<1>1. CASE cpu' = [CpuLibre EXCEPT !.fase = "pedir", !.pid = cpu.pid] /\ vuelve' = vuelve
  <2>1. cpu' = [fase |-> "pedir", pid |-> cpu.pid, inst |-> NULL, dirs |-> <<>>, datos |-> <<>>]
    BY <1>1 DEF CpuLibre
  <2> QED
    BY <1>1, <2>1 DEF CpuDeja, CpuSigue
<1>2. CASE cpu' = CpuLibre /\ vuelve' = [pid |-> cpu.pid, reason |-> "QUANTUM"]
  <2>1. cpu' = [fase |-> "libre", pid |-> NULL, inst |-> NULL, dirs |-> <<>>, datos |-> <<>>]
    BY <1>2 DEF CpuLibre
  <2> QED
    BY <1>2, <2>1 DEF CpuDeja, CpuSigue
<1> QED
  BY <1>1, <1>2 DEF Terminar

LEMMA AlDevolver ==
    ASSUME NEW regs, NEW reason, NEW operacion, Devolver(regs, reason, operacion)
    PROVE  CpuDeja
<1>1. cpu' = CpuLibre /\ vuelve' = [pid |-> cpu.pid, reason |-> reason]
  BY DEF Devolver
<1>2. cpu' = [fase |-> "libre", pid |-> NULL, inst |-> NULL, dirs |-> <<>>, datos |-> <<>>]
  BY <1>1 DEF CpuLibre
<1> QED
  BY <1>1, <1>2 DEF CpuDeja, CpuSigue

LEMMA AlSeguir ==
    ASSUME Forma, NEW fase, fase # "libre", NEW dirs, NEW datos, Seguir(fase, dirs, datos)
    PROVE  CpuSigue /\ cpu'.fase = fase
<1>1. cpu' = [cpu EXCEPT !.fase = fase, !.dirs = dirs, !.datos = datos] /\ vuelve' = vuelve
  BY DEF Seguir
<1>2. cpu = [fase |-> cpu.fase, pid |-> cpu.pid, inst |-> cpu.inst, dirs |-> cpu.dirs,
             datos |-> cpu.datos]
  BY DEF Forma
<1>3. cpu' = [fase |-> fase, pid |-> cpu.pid, inst |-> cpu.inst, dirs |-> dirs, datos |-> datos]
  BY <1>1, <1>2
<1> QED
  BY <1>1, <1>3 DEF CpuSigue

\* The CPU sends what it receives nothing for, or a question, and then waits.
Sigue ==
    \/ aMemoria' = aMemoria /\ CpuDeja
    \/ CpuDeja /\ \E m : Preguntar("CPU", m) /\ m.op \in Asincronicos
    \/ /\ CpuSigue /\ cpu'.fase \in {"frame", "dato", "okey"}
       /\ \E m : /\ Preguntar("CPU", m) /\ m.op \in {"SOLICITUD_FRAME", "MOVE_IN", "RESIZE"}
                 /\ m.op = "RESIZE" => /\ cpu.fase = "instruccion" 
                                       /\ Recibido.op = "RESIZE"
                                       /\ m.pid = cpu.pid /\ m.largo = Recibido.n
    \/ /\ CpuSigue /\ cpu'.fase = "frame"
       /\ \E m, n : /\ aMemoria' = [aMemoria EXCEPT !["CPU"] = @ \o <<m, n>>]
                    /\ m.op \in Asincronicos /\ n.op = "SOLICITUD_FRAME"

LEMMA PasosDeCpu ==
    ASSUME Forma, Cpu
    PROVE  /\ cpu.fase # "libre"
           /\ \/ /\ cpu.fase = "pedir" /\ deMemoria' = deMemoria
                 /\ CpuSigue /\ cpu'.fase = "instruccion"
                 /\ \E m : Preguntar("CPU", m) /\ m.op = "REQUESTINSTRUCTIONS"
              \/ /\ deMemoria["CPU"] # <<>> /\ Consumir("CPU")
                 /\ Sigue
<1>0. cpu = [fase |-> cpu.fase, pid |-> cpu.pid, inst |-> cpu.inst, dirs |-> cpu.dirs,
             datos |-> cpu.datos]
  BY DEF Forma
<1>1. CASE PedirInstruccion
  <2>1. /\ cpu.fase = "pedir" /\ deMemoria' = deMemoria /\ vuelve' = vuelve
        /\ cpu' = [cpu EXCEPT !.fase = "instruccion"]
        /\ Preguntar("CPU", instReqToMemory(cpu.pid, registros[cpu.pid]["PC"]))
    BY <1>1 DEF PedirInstruccion
  <2>2. cpu' = [fase |-> "instruccion", pid |-> cpu.pid, inst |-> cpu.inst, dirs |-> cpu.dirs,
                datos |-> cpu.datos]
    BY <1>0, <2>1
  <2>3. instReqToMemory(cpu.pid, registros[cpu.pid]["PC"]).op = "REQUESTINSTRUCTIONS"
    BY DEF instReqToMemory, PedirSinDireccion, Pedir
  <2>4. CpuSigue /\ cpu'.fase = "instruccion"
    BY <2>1, <2>2 DEF CpuSigue
  <2> QED
    BY <2>1, <2>3, <2>4
<1>2. CASE EjecutarLocal
  BY <1>2, AlTerminar DEF EjecutarLocal, Recibe, Sigue
<1>3. CASE SalirSinAcceso
  BY <1>3, AlDevolver DEF SalirSinAcceso, Recibe, Sigue
<1>4. CASE PedirResize
  <2>1. /\ cpu.fase = "instruccion" /\ deMemoria["CPU"] # <<>> /\ Consumir("CPU")
        /\ Recibido.op = "RESIZE" /\ vuelve' = vuelve
        /\ cpu' = [cpu EXCEPT !.fase = "okey", !.inst = Recibido]
        /\ Preguntar("CPU", RESIZE_params(cpu.pid, Recibido.n))
    BY <1>4 DEF PedirResize, Recibe
  <2>2. cpu' = [fase |-> "okey", pid |-> cpu.pid, inst |-> Recibido, dirs |-> cpu.dirs,
                datos |-> cpu.datos]
    BY <1>0, <2>1
  <2>3. /\ RESIZE_params(cpu.pid, Recibido.n).op = "RESIZE"
        /\ RESIZE_params(cpu.pid, Recibido.n).pid = cpu.pid
        /\ RESIZE_params(cpu.pid, Recibido.n).largo = Recibido.n
    BY DEF RESIZE_params, PedirSinDireccion, Pedir
  <2>4. CpuSigue /\ cpu'.fase = "okey"
    BY <2>1, <2>2 DEF CpuSigue
  <2> QED
    BY <2>1, <2>3, <2>4 DEF Sigue
<1>5. CASE RecibirOkey
  BY <1>5, AlTerminar, AlDevolver DEF RecibirOkey, Recibe, Sigue
<1>6. CASE EmpezarAcceso
  <2> DEFINE dir == PartesDe(Recibido, RegsTrasPc)[1].dir
  <2>1. /\ cpu.fase = "instruccion" /\ deMemoria["CPU"] # <<>> /\ Consumir("CPU")
        /\ vuelve' = vuelve
        /\ cpu' = [cpu EXCEPT !.fase = "frame", !.inst = Recibido]
        /\ Preguntar("CPU", SolicitudFrame(dir))
    BY <1>6 DEF EmpezarAcceso, Recibe
  <2>2. cpu' = [fase |-> "frame", pid |-> cpu.pid, inst |-> Recibido, dirs |-> cpu.dirs,
                datos |-> cpu.datos]
    BY <1>0, <2>1
  <2> HIDE DEF dir
  <2>3. SolicitudFrame(dir).op = "SOLICITUD_FRAME"
    BY DEF SolicitudFrame, solicitudFrameMemoria, PedirSinDireccion, Pedir
  <2>4. CpuSigue /\ cpu'.fase = "frame"
    BY <2>1, <2>2 DEF CpuSigue
  <2> QED
    BY <2>1, <2>3, <2>4 DEF Sigue
<1>7. CASE RecibirFrameDeMovIn
  <2> DEFINE m == MOVE_IN_TO_MEMORY(cpu.pid, Fisica, ParteActual.largo, ParteActual.dir)
  <2>1. /\ cpu.fase = "frame" /\ deMemoria["CPU"] # <<>> /\ Consumir("CPU")
        /\ Preguntar("CPU", m) /\ Seguir("dato", Append(cpu.dirs, Fisica), cpu.datos)
    BY <1>7 DEF RecibirFrameDeMovIn, Recibe
  <2>2. m.op = "MOVE_IN"
    BY DEF MOVE_IN_TO_MEMORY, Pedir
  <2> HIDE DEF m
  <2>3. CpuSigue /\ cpu'.fase = "dato"
    BY <2>1, AlSeguir
  <2> QED
    BY <2>1, <2>2, <2>3 DEF Sigue
<1>8. CASE RecibirDato
  <2>1. cpu.fase = "dato" /\ deMemoria["CPU"] # <<>> /\ Consumir("CPU")
    BY <1>8 DEF RecibirDato, Recibe
  <2>2. CASE /\ Preguntar("CPU", SolicitudFrame(ParteActual.dir))
             /\ Seguir("frame", cpu.dirs, Append(cpu.datos, Recibido))
    <3> DEFINE m == SolicitudFrame(ParteActual.dir)
    <3>1. m.op = "SOLICITUD_FRAME"
      BY DEF SolicitudFrame, solicitudFrameMemoria, PedirSinDireccion, Pedir
    <3>2. Preguntar("CPU", m)
      BY <2>2
    <3> HIDE DEF m
    <3>3. CpuSigue /\ cpu'.fase = "frame"
      BY <2>2, AlSeguir
    <3> QED
      BY <2>1, <3>1, <3>2, <3>3 DEF Sigue
  <2>3. CASE /\ Terminar(Set(registros[cpu.pid], cpu.inst.a,
                             Armar(Append(cpu.datos, Recibido), LasPartes[1].largo)))
             /\ UNCHANGED aMemoria
    BY <2>1, <2>3, AlTerminar DEF Sigue
  <2> QED
    BY <1>8, <2>2, <2>3 DEF RecibirDato
<1>9. CASE RecibirFrameDeMovOut
  <2> DEFINE m == MoveOut
  <2> DEFINE n == SolicitudFrame(LasPartes[Len(cpu.dirs) + 2].dir)
  <2>1. cpu.fase = "frame" /\ deMemoria["CPU"] # <<>> /\ Consumir("CPU")
    BY <1>9 DEF RecibirFrameDeMovOut, Recibe
  <2>2. m.op \in Asincronicos
    BY DEF MoveOut, MOVE_OUT_TO_MEMORY, Pedir, Asincronicos
  <2>3. n.op = "SOLICITUD_FRAME"
    BY DEF SolicitudFrame, solicitudFrameMemoria, PedirSinDireccion, Pedir
  <2>4. \/ Preguntar("CPU", m) /\ Terminar(registros[cpu.pid])
        \/ /\ aMemoria' = [aMemoria EXCEPT !["CPU"] = @ \o <<m, n>>]
           /\ Seguir("frame", Append(cpu.dirs, Fisica), <<>>)
    BY <1>9 DEF RecibirFrameDeMovOut
  <2> HIDE DEF m, n
  <2>5. CASE Preguntar("CPU", m) /\ Terminar(registros[cpu.pid])
    BY <2>1, <2>2, <2>5, AlTerminar DEF Sigue
  <2>6. CASE /\ aMemoria' = [aMemoria EXCEPT !["CPU"] = @ \o <<m, n>>]
             /\ Seguir("frame", Append(cpu.dirs, Fisica), <<>>)
    <3>1. CpuSigue /\ cpu'.fase = "frame"
      BY <2>6, AlSeguir
    <3> QED
      BY <2>1, <2>2, <2>3, <2>6, <3>1 DEF Sigue
  <2> QED
    BY <2>4, <2>5, <2>6
<1>10. CASE RecibirFrameDeCopyString
  <2> DEFINE m == SolicitudFrame(LasPartes[2].dir)
  <2> DEFINE n == COPY_STRING_params(cpu.pid, cpu.dirs[1], Fisica, cpu.inst.n, LasPartes[1].dir)
  <2>1. cpu.fase = "frame" /\ deMemoria["CPU"] # <<>> /\ Consumir("CPU")
    BY <1>10 DEF RecibirFrameDeCopyString, Recibe
  <2>2. m.op = "SOLICITUD_FRAME"
    BY DEF SolicitudFrame, solicitudFrameMemoria, PedirSinDireccion, Pedir
  <2>3. n.op \in Asincronicos
    BY DEF COPY_STRING_params, Pedir, Asincronicos
  <2>4. \/ Preguntar("CPU", m) /\ Seguir("frame", Append(cpu.dirs, Fisica), <<>>)
        \/ Preguntar("CPU", n) /\ Terminar(registros[cpu.pid])
    BY <1>10 DEF RecibirFrameDeCopyString
  <2> HIDE DEF m, n
  <2>5. CASE Preguntar("CPU", m) /\ Seguir("frame", Append(cpu.dirs, Fisica), <<>>)
    <3>1. CpuSigue /\ cpu'.fase = "frame"
      BY <2>5, AlSeguir
    <3> QED
      BY <2>1, <2>2, <2>5, <3>1 DEF Sigue
  <2>6. CASE Preguntar("CPU", n) /\ Terminar(registros[cpu.pid])
    BY <2>1, <2>3, <2>6, AlTerminar DEF Sigue
  <2> QED
    BY <2>4, <2>5, <2>6
<1>11. CASE RecibirFrameDeIo
  BY <1>11, AlDevolver DEF RecibirFrameDeIo, Recibe, Sigue
<1> QED
  BY <1>1, <1>2, <1>3, <1>4, <1>5, <1>6, <1>7, <1>8, <1>9, <1>10, <1>11 DEF Cpu

\* The names of the connections are different.
LEMMA LosNombres ==
    /\ "CPU" \in Conexiones /\ "KERNEL" \in Conexiones
    /\ "CPU" # "KERNEL"
    /\ \A i \in Interfaces : i \in Conexiones /\ i # "CPU" /\ i # "KERNEL"
  BY ConstantesDeEjecucion

\* A step of who attends a connection keeps the form of the variables.
LEMMA FormaDeUna ==
    ASSUME Forma, NEW c \in Conexiones, OtrosPedidos(c), OtrasRespuestas(c),
           EsSeq(aMemoria'[c]), EsSeq(deMemoria'[c]),
           interfaz' = [i \in Interfaces |-> interfaz'[i]],
           cpu' = [fase |-> cpu'.fase, pid |-> cpu'.pid, inst |-> cpu'.inst,
                   dirs |-> cpu'.dirs, datos |-> cpu'.datos]
    PROVE  Forma'
<1>1. ASSUME NEW d \in Conexiones PROVE EsSeq(aMemoria'[d]) /\ EsSeq(deMemoria'[d])
  <2>1. CASE d = c
    BY <2>1
  <2>2. CASE d # c
    BY <2>2 DEF Forma, OtrosPedidos, OtrasRespuestas
  <2> QED
    BY <2>1, <2>2
<1> QED
  BY <1>1 DEF Forma, OtrosPedidos, OtrasRespuestas

\* What the invariant of the dialogue is made of.
DialogoInv == Forma /\ DialogoConLaMemoria

LEMMA DialogoDeCpu ==
    ASSUME DialogoInv, Cpu
    PROVE  DialogoInv'
<1> DEFINE c == "CPU"
<1>1. Forma /\ DialogoConLaMemoria /\ c \in Conexiones
  BY LosNombres DEF DialogoInv
<1>2. mudas' = mudas /\ interfaz' = interfaz
  BY DEF Cpu, memoriaInterna, interfazVars
<1>3. EsSeq(aMemoria[c]) /\ EsSeq(deMemoria[c]) /\ Dialogo(c)
  BY <1>1 DEF Forma, DialogoConLaMemoria, Dialogo
<1>4. c \notin Interfaces
  BY ConstantesDeEjecucion
<1>5. /\ CpuSigue /\ OtrosPedidos(c) /\ OtrasRespuestas(c)
      /\ DejaDeEsperar(c) /\ Manda(c)
  <2>1. CASE /\ cpu.fase = "pedir" /\ deMemoria' = deMemoria
             /\ CpuSigue /\ cpu'.fase = "instruccion"
             /\ \E m : Preguntar("CPU", m) /\ m.op = "REQUESTINSTRUCTIONS"
    <3>1. PICK m : Preguntar("CPU", m) /\ m.op = "REQUESTINSTRUCTIONS"
      BY <2>1
    <3>2. aMemoria'[c] = Append(aMemoria[c], m) /\ OtrosPedidos(c) /\ OtrasRespuestas(c)
      BY <1>1, <2>1, <3>1, AlPreguntar, SinConsumir
    <3>3. ~Espera(c) /\ Espera(c)' /\ TipoEsperado(c)' = "INSTRUCCION"
      BY <1>4, <2>1 DEF Espera, TipoEsperado
    <3>4. m.op \in Sincronicos /\ Tipo(m.op) = "INSTRUCCION"
      BY <3>1 DEF Sincronicos, Tipo
    <3> QED
      BY <2>1, <3>2, <3>3, <3>4 DEF DejaDeEsperar, Manda
  <2>2. CASE deMemoria["CPU"] # <<>> /\ Consumir("CPU") /\ Sigue
    <3>1. DejaDeEsperar(c) /\ OtrasRespuestas(c)
      BY <1>1, <2>2, AlConsumir DEF DejaDeEsperar
    <3>2. ASSUME CpuDeja PROVE ~Espera(c)'
      BY <1>4, <3>2 DEF CpuDeja, Espera
    <3>3. ASSUME cpu'.fase \in {"frame", "dato", "okey"}
          PROVE  Espera(c)' /\ TipoEsperado(c)' = "NUMERO"
      BY <3>3 DEF Espera, TipoEsperado
    <3>4. CASE aMemoria' = aMemoria /\ CpuDeja
      BY <1>1, <3>1, <3>2, <3>4, SinPreguntar DEF Manda, CpuDeja
    <3>5. CASE CpuDeja /\ \E m : Preguntar("CPU", m) /\ m.op \in Asincronicos
      <4>1. PICK m : Preguntar("CPU", m) /\ m.op \in Asincronicos
        BY <3>5
      <4>2. aMemoria'[c] = Append(aMemoria[c], m) /\ OtrosPedidos(c)
        BY <1>1, <4>1, AlPreguntar
      <4> QED
        BY <3>1, <3>2, <3>5, <4>1, <4>2 DEF Manda, CpuDeja
    <3>6. CASE /\ CpuSigue /\ cpu'.fase \in {"frame", "dato", "okey"}
               /\ \E m : Preguntar("CPU", m) /\ m.op \in {"SOLICITUD_FRAME", "MOVE_IN", "RESIZE"}
      <4>1. PICK m : Preguntar("CPU", m) /\ m.op \in {"SOLICITUD_FRAME", "MOVE_IN", "RESIZE"}
        BY <3>6
      <4>2. aMemoria'[c] = Append(aMemoria[c], m) /\ OtrosPedidos(c)
        BY <1>1, <4>1, AlPreguntar
      <4>3. m.op \in Sincronicos /\ Tipo(m.op) = "NUMERO"
        BY <4>1 DEF Sincronicos, Tipo
      <4> QED
        BY <3>1, <3>3, <3>6, <4>2, <4>3 DEF Manda
    <3>7. CASE /\ CpuSigue /\ cpu'.fase = "frame"
               /\ \E m, n : /\ aMemoria' = [aMemoria EXCEPT !["CPU"] = @ \o <<m, n>>]
                            /\ m.op \in Asincronicos /\ n.op = "SOLICITUD_FRAME"
      <4>1. PICK m, n : /\ aMemoria' = [aMemoria EXCEPT !["CPU"] = @ \o <<m, n>>]
                        /\ m.op \in Asincronicos /\ n.op = "SOLICITUD_FRAME"
        BY <3>7
      <4> DEFINE e == aMemoria[c] \o <<m, n>>
      <4>2. e = Append(Append(aMemoria[c], m), n)
        BY <1>3, DosMensajes
      <4>3. aMemoria = [d \in Conexiones |-> aMemoria[d]] /\ aMemoria' = [aMemoria EXCEPT ![c] = e]
        BY <1>1, <4>1 DEF Forma
      <4> HIDE DEF e
      <4>4. aMemoria'[c] = e /\ OtrosPedidos(c)
        BY <1>1, <4>3, AlCambiar DEF OtrosPedidos
      <4>5. n.op \in Sincronicos /\ Tipo(n.op) = "NUMERO"
        BY <4>1 DEF Sincronicos, Tipo
      <4> QED
        BY <3>1, <3>3, <3>7, <4>1, <4>2, <4>4, <4>5 DEF Manda
    <3> QED
      BY <2>2, <3>4, <3>5, <3>6, <3>7 DEF Sigue
  <2> QED
    BY <1>1, <2>1, <2>2, PasosDeCpu
<1>6. Dialogo(c)' /\ EsSeq(aMemoria'[c]) /\ EsSeq(deMemoria'[c])
  BY <1>2, <1>3, <1>5, PasoDelCliente
<1>7. SoloCambia(c)
  <2>1. ASSUME NEW d \in Conexiones, d # c
        PROVE  /\ aMemoria'[d] = aMemoria[d] /\ deMemoria'[d] = deMemoria[d]
               /\ Espera(d)' <=> Espera(d)
               /\ TipoEsperado(d)' = TipoEsperado(d)
    BY <1>2, <1>5, <2>1 DEF OtrosPedidos, OtrasRespuestas, Espera, TipoEsperado
  <2> QED
    BY <1>2, <2>1 DEF SoloCambia
<1>8. Forma'
  BY <1>1, <1>2, <1>5, <1>6, FormaDeUna DEF CpuSigue, Forma
<1>9. DialogoConLaMemoria'
  BY <1>1, <1>6, <1>7, LasOtras
<1> QED
  BY <1>8, <1>9 DEF DialogoInv

-------------------------------------------------------------------------------
(* The steps of the interfaces. *)

LEMMA AlOcupar ==
    ASSUME Forma, NEW i \in Interfaces, NEW w, interfaz' = [interfaz EXCEPT ![i] = w]
    PROVE  /\ interfaz' = [j \in Interfaces |-> interfaz'[j]]
           /\ interfaz'[i] = w
           /\ \A j \in Interfaces : j # i => interfaz'[j] = interfaz[j]
<1>1. interfaz = [j \in Interfaces |-> interfaz[j]]
  BY DEF Forma
<1> QED
  BY <1>1, AlCambiar

\* An interface takes what it can do.
LEMMA AlTomar ==
    ASSUME NEW i \in Interfaces, NEW p, NEW ops, Toma(i, p, ops)
    PROVE  interfaz[i].fase = "libre" /\ info[p].op \in ops
  BY DEF Toma

LEMMA QuienLeeElTeclado ==
    ASSUME NEW i \in Interfaces, OpsDe(i) \cap {"IO_STDIN_READ"} # {}
    PROVE  TipoInterfaz[i] = "STDIN"
  BY ConstantesDeEjecucion DEF OpsDe

LEMMA QuienPideTexto ==
    ASSUME NEW i \in Interfaces, OpsDe(i) \cap {"IO_STDOUT_WRITE", "IO_FS_WRITE"} # {}
    PROVE  TipoInterfaz[i] # "STDIN"
  BY ConstantesDeEjecucion DEF OpsDe

\* The phases and the messages of a step of an interface.
LEMMA PasosDeInterfaz ==
    ASSUME Forma, NEW i \in Interfaces, Interfaz(i)
    PROVE  \/ /\ UNCHANGED <<aMemoria, deMemoria>>
              /\ interfaz[i].fase # "memoria"
              /\ \/ interfaz' = interfaz
                 \/ interfaz' = [interfaz EXCEPT ![i] = InterfazLibre]
           \/ /\ UNCHANGED deMemoria
              /\ interfaz[i].fase = "libre"
              /\ \E p \in Pids : Ocupar(i, p, "memoria")
              /\ \E m : /\ Preguntar(i, m) /\ m.op \in Sincronicos
                        /\ Tipo(m.op) = TipoEsperado(i)
           \/ /\ UNCHANGED deMemoria
              /\ interfaz[i].fase = "libre"
              /\ \E p \in Pids : Ocupar(i, p, "avisar")
              /\ \E m : Preguntar(i, m) /\ m.op \in Asincronicos
           \/ /\ UNCHANGED aMemoria
              /\ deMemoria[i] # <<>> /\ Consumir(i)
              /\ interfaz' = [interfaz EXCEPT ![i] = InterfazLibre]
<1>1. PICK p \in Pids :
         \/ Rechazar(i, p) \/ HacerSinMemoria(i, p) \/ Fallar(i, p) \/ LeerTeclado(i, p)
         \/ PedirTexto(i, p) \/ RecibirDeMemoria(i, p) \/ EnviarLoLeido(i, p)
         \/ AvisarLoLeido(i, p)
  BY DEF Interfaz
<1>2. i # "CPU"
  BY LosNombres
<1>3. CASE Rechazar(i, p)
  <2>1. interfaz[i].fase = "libre" /\ UNCHANGED <<aMemoria, deMemoria, interfaz>>
    BY <1>3, AlTomar DEF Rechazar
  <2> QED
    BY <2>1
<1>4. CASE HacerSinMemoria(i, p)
  <2>1. interfaz[i].fase = "libre" /\ UNCHANGED <<aMemoria, deMemoria, interfaz>>
    BY <1>4, AlTomar DEF HacerSinMemoria
  <2> QED
    BY <2>1
<1>5. CASE Fallar(i, p)
  <2>1. interfaz[i].fase = "libre" /\ UNCHANGED <<aMemoria, deMemoria, interfaz>>
    BY <1>5, AlTomar DEF Fallar
  <2> QED
    BY <2>1
<1>6. CASE LeerTeclado(i, p)
  <2>1. PICK t \in Textos :
          Preguntar(i, IO_STDIN_READ_WRITE_MEMORY(p, info[p].dir, Hasta(t, info[p].largo),
                                                  info[p].logica))
    BY <1>6 DEF LeerTeclado
  <2> DEFINE m == IO_STDIN_READ_WRITE_MEMORY(p, info[p].dir, Hasta(t, info[p].largo),
                                             info[p].logica)
  <2>2. m.op = "IO_STDIN_READ"
    BY DEF IO_STDIN_READ_WRITE_MEMORY, Pedir
  <2>3. Preguntar(i, m)
    BY <2>1
  <2> HIDE DEF m
  <2>4. interfaz[i].fase = "libre" /\ info[p].op \in OpsDe(i) \cap {"IO_STDIN_READ"}
    BY <1>6, AlTomar DEF LeerTeclado
  <2>5. TipoEsperado(i) = "NUMERO"
    BY <1>2, <2>4, QuienLeeElTeclado DEF TipoEsperado
  <2>6. m.op \in Sincronicos /\ Tipo(m.op) = "NUMERO"
    BY <2>2 DEF Sincronicos, Tipo
  <2>7. deMemoria' = deMemoria /\ Ocupar(i, p, "memoria")
    BY <1>6 DEF LeerTeclado
  <2> QED
    BY <2>3, <2>4, <2>5, <2>6, <2>7
<1>7. CASE PedirTexto(i, p)
  <2> DEFINE m == IF info[p].op = "IO_STDOUT_WRITE"
                    THEN IO_STDOUT_WRITE_params(p, info[p].dir, info[p].largo, info[p].logica)
                    ELSE IO_FS_WRITE_params(p, info[p].dir, info[p].largo, info[p].logica)
  <2>1. Preguntar(i, m) /\ deMemoria' = deMemoria /\ Ocupar(i, p, "memoria")
    BY <1>7 DEF PedirTexto
  <2>2. m.op \in {"WRITE", "FS_WRITE"}
    BY DEF IO_STDOUT_WRITE_params, IO_FS_WRITE_params, Pedir
  <2> HIDE DEF m
  <2>3. /\ interfaz[i].fase = "libre"
        /\ info[p].op \in OpsDe(i) \cap {"IO_STDOUT_WRITE", "IO_FS_WRITE"}
    BY <1>7, AlTomar DEF PedirTexto
  <2>4. TipoEsperado(i) = "TEXTO"
    BY <1>2, <2>3, QuienPideTexto DEF TipoEsperado
  <2>5. m.op \in Sincronicos /\ Tipo(m.op) = "TEXTO"
    BY <2>2 DEF Sincronicos, Tipo
  <2> QED
    BY <2>1, <2>3, <2>4, <2>5
<1>8. CASE RecibirDeMemoria(i, p)
  BY <1>8 DEF RecibirDeMemoria
<1>9. CASE EnviarLoLeido(i, p)
  <2>1. PICK t \in Textos \cup {<<>>} :
          Preguntar(i, IO_FS_READ_TO_MEMORY(p, info[p].dir, info[p].largo,
                                            Hasta(t, info[p].largo + 1), info[p].logica))
    BY <1>9 DEF EnviarLoLeido
  <2> DEFINE m == IO_FS_READ_TO_MEMORY(p, info[p].dir, info[p].largo,
                                       Hasta(t, info[p].largo + 1), info[p].logica)
  <2>2. m.op \in Asincronicos
    BY DEF IO_FS_READ_TO_MEMORY, Pedir, Asincronicos
  <2>3. Preguntar(i, m)
    BY <2>1
  <2> HIDE DEF m
  <2>4. interfaz[i].fase = "libre" /\ deMemoria' = deMemoria /\ Ocupar(i, p, "avisar")
    BY <1>9, AlTomar DEF EnviarLoLeido
  <2> QED
    BY <2>2, <2>3, <2>4
<1>10. CASE AvisarLoLeido(i, p)
  <2>1. /\ interfaz[i] = [fase |-> "avisar", pid |-> p]
        /\ UNCHANGED <<aMemoria, deMemoria>>
        /\ interfaz' = [interfaz EXCEPT ![i] = InterfazLibre]
    BY <1>10 DEF AvisarLoLeido
  <2>2. interfaz[i].fase # "memoria"
    BY <2>1
  <2> QED
    BY <2>1, <2>2
<1> QED
  BY <1>1, <1>3, <1>4, <1>5, <1>6, <1>7, <1>8, <1>9, <1>10

LEMMA DialogoDeInterfaz ==
    ASSUME DialogoInv, NEW i \in Interfaces, Interfaz(i)
    PROVE  DialogoInv'
<1>1. Forma /\ DialogoConLaMemoria /\ i \in Conexiones /\ i # "CPU"
  BY LosNombres DEF DialogoInv
<1>2. mudas' = mudas /\ cpu' = cpu
  BY DEF Interfaz, memoriaInterna
<1>3. EsSeq(aMemoria[i]) /\ EsSeq(deMemoria[i]) /\ Dialogo(i)
  BY <1>1 DEF Forma, DialogoConLaMemoria, Dialogo
<1> DEFINE Ocupada == /\ interfaz' = [j \in Interfaces |-> interfaz'[j]]
                      /\ \A j \in Interfaces : j # i => interfaz'[j] = interfaz[j]
<1>4. /\ Ocupada /\ OtrosPedidos(i) /\ OtrasRespuestas(i)
      /\ DejaDeEsperar(i) /\ Manda(i)
  <2>0. TipoEsperado(i)' = TipoEsperado(i)
    BY <1>1 DEF TipoEsperado
  <2>1. CASE /\ UNCHANGED <<aMemoria, deMemoria>>
             /\ interfaz[i].fase # "memoria"
             /\ \/ interfaz' = interfaz
                \/ interfaz' = [interfaz EXCEPT ![i] = InterfazLibre]
    <3>1. Ocupada /\ interfaz'[i].fase # "memoria"
      <4>1. CASE interfaz' = interfaz
        BY <1>1, <2>1, <4>1 DEF Forma
      <4>2. CASE interfaz' = [interfaz EXCEPT ![i] = InterfazLibre]
        <5>1. Ocupada /\ interfaz'[i] = InterfazLibre
          BY <1>1, <4>2, AlOcupar
        <5> HIDE DEF Ocupada
        <5> QED
          BY <5>1 DEF InterfazLibre
      <4> QED
        BY <2>1, <4>1, <4>2
    <3> HIDE DEF Ocupada
    <3>2. ~Espera(i) /\ ~Espera(i)'
      BY <1>1, <2>1, <3>1 DEF Espera
    <3> QED
      BY <1>1, <2>1, <3>1, <3>2, SinPreguntar, SinConsumir DEF DejaDeEsperar, Manda
  <2>2. CASE /\ UNCHANGED deMemoria
             /\ interfaz[i].fase = "libre"
             /\ \E p \in Pids : Ocupar(i, p, "memoria")
             /\ \E m : /\ Preguntar(i, m) /\ m.op \in Sincronicos
                       /\ Tipo(m.op) = TipoEsperado(i)
    <3>1. PICK p \in Pids : Ocupar(i, p, "memoria")
      BY <2>2
    <3>2. PICK m : Preguntar(i, m) /\ m.op \in Sincronicos /\ Tipo(m.op) = TipoEsperado(i)
      BY <2>2
    <3>3. Ocupada /\ interfaz'[i] = [fase |-> "memoria", pid |-> p]
      BY <1>1, <3>1, AlOcupar DEF Ocupar
    <3> HIDE DEF Ocupada
    <3>4. ~Espera(i) /\ Espera(i)'
      BY <1>1, <2>2, <3>3 DEF Espera
    <3>5. aMemoria'[i] = Append(aMemoria[i], m) /\ OtrosPedidos(i) /\ OtrasRespuestas(i)
      BY <1>1, <2>2, <3>2, AlPreguntar, SinConsumir
    <3> QED
      BY <2>0, <2>2, <3>2, <3>3, <3>4, <3>5 DEF DejaDeEsperar, Manda
  <2>3. CASE /\ UNCHANGED deMemoria
             /\ interfaz[i].fase = "libre"
             /\ \E p \in Pids : Ocupar(i, p, "avisar")
             /\ \E m : Preguntar(i, m) /\ m.op \in Asincronicos
    <3>1. PICK p \in Pids : Ocupar(i, p, "avisar")
      BY <2>3
    <3>2. PICK m : Preguntar(i, m) /\ m.op \in Asincronicos
      BY <2>3
    <3>3. Ocupada /\ interfaz'[i] = [fase |-> "avisar", pid |-> p]
      BY <1>1, <3>1, AlOcupar DEF Ocupar
    <3> HIDE DEF Ocupada
    <3>4. ~Espera(i) /\ ~Espera(i)'
      BY <1>1, <2>3, <3>3 DEF Espera
    <3>5. aMemoria'[i] = Append(aMemoria[i], m) /\ OtrosPedidos(i) /\ OtrasRespuestas(i)
      BY <1>1, <2>3, <3>2, AlPreguntar, SinConsumir
    <3> QED
      BY <2>3, <3>2, <3>3, <3>4, <3>5 DEF DejaDeEsperar, Manda
  <2>4. CASE /\ UNCHANGED aMemoria
             /\ deMemoria[i] # <<>> /\ Consumir(i)
             /\ interfaz' = [interfaz EXCEPT ![i] = InterfazLibre]
    <3>1. Ocupada /\ interfaz'[i] = InterfazLibre
      BY <1>1, <2>4, AlOcupar
    <3> HIDE DEF Ocupada
    <3>2. ~Espera(i)'
      BY <1>1, <3>1 DEF Espera, InterfazLibre
    <3>3. deMemoria'[i] = Tail(deMemoria[i]) /\ OtrasRespuestas(i) /\ OtrosPedidos(i)
      BY <1>1, <2>4, AlConsumir, SinPreguntar
    <3> QED
      BY <2>4, <3>1, <3>2, <3>3 DEF DejaDeEsperar, Manda
  <2> HIDE DEF Ocupada
  <2> QED
    BY <1>1, <2>1, <2>2, <2>3, <2>4, PasosDeInterfaz
<1>5. Dialogo(i)' /\ EsSeq(aMemoria'[i]) /\ EsSeq(deMemoria'[i])
  BY <1>2, <1>3, <1>4, PasoDelCliente
<1>6. SoloCambia(i)
  <2>1. ASSUME NEW d \in Conexiones, d # i
        PROVE  /\ aMemoria'[d] = aMemoria[d] /\ deMemoria'[d] = deMemoria[d]
               /\ Espera(d)' <=> Espera(d)
               /\ TipoEsperado(d)' = TipoEsperado(d)
    BY <1>2, <1>4, <2>1 DEF OtrosPedidos, OtrasRespuestas, Espera, TipoEsperado
  <2> QED
    BY <1>2, <2>1 DEF SoloCambia
<1>7. Forma'
  BY <1>1, <1>2, <1>4, <1>5, FormaDeUna DEF Forma
<1>8. DialogoConLaMemoria'
  BY <1>1, <1>5, <1>6, LasOtras
<1> QED
  BY <1>7, <1>8 DEF DialogoInv

-------------------------------------------------------------------------------
(* The steps of the memory. *)

\* The request at the head of c is attended, and no other.
AtiendeSolo(c) == Atiende(c) /\ OtrosPedidos(c) /\ OtrasRespuestas(c)

LEMMA AlSacarUno ==
    ASSUME Forma, NEW c \in Conexiones, aMemoria' = [aMemoria EXCEPT ![c] = Tail(@)]
    PROVE  aMemoria'[c] = Tail(aMemoria[c]) /\ OtrosPedidos(c)
<1> DEFINE e == Tail(aMemoria[c])
<1>1. aMemoria = [d \in Conexiones |-> aMemoria[d]] /\ aMemoria' = [aMemoria EXCEPT ![c] = e]
  BY DEF Forma
<1> HIDE DEF e
<1>2. /\ aMemoria' = [d \in Conexiones |-> aMemoria'[d]]
      /\ aMemoria'[c] = e
      /\ \A d \in Conexiones : d # c => aMemoria'[d] = aMemoria[d]
  BY <1>1, AlCambiar
<1> QED
  BY <1>2 DEF OtrosPedidos, e

LEMMA AlCallar ==
    ASSUME Forma, NEW c \in Conexiones, aMemoria[c] # <<>>,
           Head(aMemoria[c]).op \in Asincronicos, Callar(c), mudas' = mudas
    PROVE  AtiendeSolo(c)
<1>1. aMemoria' = [aMemoria EXCEPT ![c] = Tail(@)] /\ deMemoria' = deMemoria
  BY DEF Callar
<1>2. aMemoria'[c] = Tail(aMemoria[c]) /\ OtrosPedidos(c) /\ OtrasRespuestas(c)
  BY <1>1, AlSacarUno, SinConsumir
<1> QED
  BY <1>1, <1>2 DEF AtiendeSolo, Atiende

LEMMA AlEnmudecer ==
    ASSUME Forma, NEW c \in Conexiones, aMemoria[c] # <<>>,
           Head(aMemoria[c]).op \in Sincronicos, Callar(c), mudas' = mudas \cup {c}
    PROVE  AtiendeSolo(c)
<1>1. aMemoria' = [aMemoria EXCEPT ![c] = Tail(@)] /\ deMemoria' = deMemoria
  BY DEF Callar
<1>2. aMemoria'[c] = Tail(aMemoria[c]) /\ OtrosPedidos(c) /\ OtrasRespuestas(c)
  BY <1>1, AlSacarUno, SinConsumir
<1> QED
  BY <1>1, <1>2 DEF AtiendeSolo, Atiende

LEMMA AlResponder ==
    ASSUME Forma, NEW c \in Conexiones, NEW d, aMemoria[c] # <<>>,
           Head(aMemoria[c]).op \in Sincronicos, Responder(c, d), mudas' = mudas
    PROVE  /\ AtiendeSolo(c)
           /\ deMemoria'[c] = Append(deMemoria[c],
                                     [tipo |-> Tipo(Head(aMemoria[c]).op), dato |-> d])
<1> DEFINE e == Append(deMemoria[c], [tipo |-> Tipo(Head(aMemoria[c]).op), dato |-> d])
<1>1. /\ aMemoria' = [aMemoria EXCEPT ![c] = Tail(@)]
      /\ deMemoria' = [deMemoria EXCEPT ![c] = e]
  BY DEF Responder
<1>2. aMemoria'[c] = Tail(aMemoria[c]) /\ OtrosPedidos(c)
  BY <1>1, AlSacarUno
<1>3. deMemoria = [x \in Conexiones |-> deMemoria[x]]
  BY DEF Forma
<1>4. deMemoria'[c] = e /\ OtrasRespuestas(c)
  <2> HIDE DEF e
  <2>1. /\ deMemoria' = [x \in Conexiones |-> deMemoria'[x]]
        /\ deMemoria'[c] = e
        /\ \A x \in Conexiones : x # c => deMemoria'[x] = deMemoria[x]
    BY <1>1, <1>3, AlCambiar
  <2> QED
    BY <2>1 DEF OtrasRespuestas
<1> QED
  BY <1>2, <1>4 DEF AtiendeSolo, Atiende

LEMMA AlCaer ==
    ASSUME Forma, NEW c \in Conexiones, UNCHANGED <<aMemoria, deMemoria, mudas>>
    PROVE  AtiendeSolo(c)
  BY SinPreguntar, SinConsumir DEF AtiendeSolo, Atiende

\* What the memory does with the CPU.
LEMMA PasosDeMemoriaALaCpu ==
    ASSUME Forma, MemoriaALaCpu
    PROVE  AtiendeSolo("CPU")
<1> DEFINE c == "CPU"
<1>0. c \in Conexiones
  BY LosNombres
<1> HIDE DEF c
<1>1. \/ DarInstruccion(c) \/ FinDelArreglo(c) \/ SinArreglo(c) \/ AccesoIndebido(c)
      \/ AtenderResize(c) \/ AtenderSolicitudFrame(c) \/ AtenderMoveIn(c)
      \/ AtenderMoveOut(c) \/ AtenderCopyString(c)
  BY DEF MemoriaALaCpu, AtenderALaCpu, c
<1>2. CASE DarInstruccion(c)
  <2>1. /\ aMemoria[c] # <<>> /\ Head(aMemoria[c]).op = "REQUESTINSTRUCTIONS" /\ mudas' = mudas
        /\ Responder(c, pseudocodigo[instructions][Head(aMemoria[c]).dato + 1])
    BY <1>2 DEF DarInstruccion, Pide
  <2> QED
    BY <1>0, <2>1, AlResponder DEF Sincronicos, c
<1>3. CASE FinDelArreglo(c)
  <2>1. /\ aMemoria[c] # <<>> /\ Head(aMemoria[c]).op = "REQUESTINSTRUCTIONS"
        /\ mudas' = mudas \cup {c} /\ Callar(c)
    BY <1>3 DEF FinDelArreglo, Pide
  <2> QED
    BY <1>0, <2>1, AlEnmudecer DEF Sincronicos, c
<1>4. CASE SinArreglo(c) \/ AccesoIndebido(c)
  BY <1>0, <1>4, AlCaer DEF SinArreglo, AccesoIndebido, Caida, c
<1>5. CASE AtenderResize(c)
  <2>1. aMemoria[c] # <<>> /\ Head(aMemoria[c]).op = "RESIZE" /\ mudas' = mudas
    BY <1>5 DEF AtenderResize, Pide
  <2>2. UNCHANGED <<aMemoria, deMemoria>> \/ Responder(c, answer'.okey)
    BY <1>5 DEF AtenderResize
  <2> QED
    BY <1>0, <2>1, <2>2, AlResponder, AlCaer DEF Sincronicos, c
<1>6. CASE AtenderSolicitudFrame(c)
  <2>1. /\ aMemoria[c] # <<>> /\ Head(aMemoria[c]).op = "SOLICITUD_FRAME" /\ mudas' = mudas
        /\ Responder(c, GetFrame(Head(aMemoria[c]).pid, Head(aMemoria[c]).dato))
    BY <1>6 DEF AtenderSolicitudFrame, Pide
  <2> QED
    BY <1>0, <2>1, AlResponder DEF Sincronicos, c
<1>7. CASE AtenderMoveIn(c)
  <2> DEFINE m == Head(aMemoria[c])
  <2>1. /\ aMemoria[c] # <<>> /\ m.op = "MOVE_IN" /\ mudas' = mudas
        /\ Responder(c, CadenaANumero(Leida(m.pid, m.dir, m.largo)))
    BY <1>7 DEF AtenderMoveIn, Pide
  <2> QED
    BY <1>0, <2>1, AlResponder DEF Sincronicos, c
<1>8. CASE AtenderMoveOut(c)
  <2>1. aMemoria[c] # <<>> /\ Head(aMemoria[c]).op = "MOVE_OUT" /\ mudas' = mudas /\ Callar(c)
    BY <1>8 DEF AtenderMoveOut, Pide
  <2> QED
    BY <1>0, <2>1, AlCallar DEF Asincronicos, c
<1>9. CASE AtenderCopyString(c)
  <2>1. aMemoria[c] # <<>> /\ Head(aMemoria[c]).op = "COPY_STRING" /\ mudas' = mudas /\ Callar(c)
    BY <1>9 DEF AtenderCopyString, Pide
  <2> QED
    BY <1>0, <2>1, AlCallar DEF Asincronicos, c
<1> QED
  BY <1>1, <1>2, <1>3, <1>4, <1>5, <1>6, <1>7, <1>8, <1>9 DEF c

\* And with an interface.
LEMMA PasosDeMemoriaALaInterfaz ==
    ASSUME Forma, NEW c \in Conexiones, MemoriaALaInterfaz(c) \/ MemoriaEscribeLoLeido(c)
    PROVE  AtiendeSolo(c)
<1> DEFINE m == Head(aMemoria[c])
<1>1. CASE AtenderStdinRead(c)
  <2>1. /\ aMemoria[c] # <<>> /\ m.op = "IO_STDIN_READ" /\ mudas' = mudas /\ Responder(c, 1)
    BY <1>1 DEF AtenderStdinRead, Pide
  <2> QED
    BY <2>1, AlResponder DEF Sincronicos
<1>2. CASE AtenderWrite(c)
  <2>1. /\ aMemoria[c] # <<>> /\ m.op = "WRITE" /\ mudas' = mudas
        /\ Responder(c, Leida(m.pid, m.dir, m.largo))
    BY <1>2 DEF AtenderWrite, Pide
  <2> QED
    BY <2>1, AlResponder DEF Sincronicos
<1>3. CASE AtenderFsWrite(c)
  <2>1. /\ aMemoria[c] # <<>> /\ m.op = "FS_WRITE" /\ mudas' = mudas
        /\ Responder(c, Cadena(Leida(m.pid, m.dir, m.largo)))
    BY <1>3 DEF AtenderFsWrite, Pide
  <2> QED
    BY <2>1, AlResponder DEF Sincronicos
<1>4. CASE WriteSinTabla(c)
  <2>1. aMemoria[c] # <<>> /\ m.op = "WRITE" /\ mudas' = mudas \cup {c} /\ Callar(c)
    BY <1>4 DEF WriteSinTabla, Pide
  <2> QED
    BY <2>1, AlEnmudecer DEF Sincronicos
<1>5. CASE AccesoIndebido(c)
  BY <1>5, AlCaer DEF AccesoIndebido, Caida
<1>6. CASE MemoriaEscribeLoLeido(c)
  <2>1. PICK s : AtenderFsRead(c, s)
    BY <1>6 DEF MemoriaEscribeLoLeido
  <2>2. aMemoria[c] # <<>> /\ m.op = "FS_READ" /\ mudas' = mudas /\ Callar(c)
    BY <2>1 DEF AtenderFsRead, Pide
  <2> QED
    BY <2>2, AlCallar DEF Asincronicos
<1> QED
  BY <1>1, <1>2, <1>3, <1>4, <1>5, <1>6 DEF MemoriaALaInterfaz, AtenderALaInterfaz

LEMMA PasosDeMemoria ==
    ASSUME Forma, NEW c \in Conexiones, MemoriaAtiende(c)
    PROVE  AtiendeSolo(c)
<1>1. CASE c = "KERNEL" /\ CargarPrograma(c)
  <2>1. /\ aMemoria[c] # <<>> /\ Head(aMemoria[c]).op = "PROCESSTOMEMORY" /\ mudas' = mudas
        /\ Callar(c)
    BY <1>1 DEF CargarPrograma, Pide
  <2> QED
    BY <2>1, AlCallar DEF Asincronicos
<1> QED
  BY <1>1, PasosDeMemoriaALaCpu, PasosDeMemoriaALaInterfaz DEF MemoriaAtiende

LEMMA DialogoDeMemoria ==
    ASSUME DialogoInv, NEW c \in Conexiones, MemoriaAtiende(c)
    PROVE  DialogoInv'
<1>1. Forma /\ DialogoConLaMemoria
  BY DEF DialogoInv
<1>2. cpu' = cpu /\ interfaz' = interfaz
  BY DEF MemoriaAtiende, FueraDeLaMemoria, interfazVars
<1>3. Atiende(c) /\ OtrosPedidos(c) /\ OtrasRespuestas(c)
  BY <1>1, PasosDeMemoria DEF AtiendeSolo
<1>4. EsSeq(aMemoria[c]) /\ EsSeq(deMemoria[c]) /\ Dialogo(c)
  BY <1>1 DEF Forma, DialogoConLaMemoria, Dialogo
<1>5. \A d : (Espera(d)' <=> Espera(d)) /\ TipoEsperado(d)' = TipoEsperado(d)
  BY <1>2 DEF Espera, TipoEsperado
<1>6. Dialogo(c)' /\ EsSeq(aMemoria'[c]) /\ EsSeq(deMemoria'[c])
  BY <1>3, <1>4, <1>5, PasoDeLaMemoria
<1>7. SoloCambia(c)
  <2>1. ASSUME NEW d \in Conexiones, d # c
        PROVE  /\ aMemoria'[d] = aMemoria[d] /\ deMemoria'[d] = deMemoria[d]
               /\ d \in mudas' <=> d \in mudas
    BY <1>3, <2>1 DEF OtrosPedidos, OtrasRespuestas, Atiende
  <2> QED
    BY <1>5, <2>1 DEF SoloCambia
<1>8. Forma'
  BY <1>1, <1>2, <1>3, <1>6, FormaDeUna DEF Forma
<1>9. DialogoConLaMemoria'
  BY <1>1, <1>6, <1>7, LasOtras
<1> QED
  BY <1>8, <1>9 DEF DialogoInv

-------------------------------------------------------------------------------
(* The steps of the kernel. *)

LEMMA DialogoDeEnviarPrograma ==
    ASSUME DialogoInv, EnviarPrograma
    PROVE  DialogoInv'
<1> DEFINE c == "KERNEL"
<1> DEFINE m == processToMemory(porEnviar)
<1>1. Forma /\ DialogoConLaMemoria /\ c \in Conexiones /\ c # "CPU" /\ c \notin Interfaces
  BY LosNombres DEF DialogoInv
<1>2. /\ cpu' = cpu /\ interfaz' = interfaz /\ mudas' = mudas /\ deMemoria' = deMemoria
      /\ Preguntar(c, m)
  BY DEF EnviarPrograma, interfazVars, memoriaInterna
<1>3. EsSeq(aMemoria[c]) /\ EsSeq(deMemoria[c]) /\ Dialogo(c)
  BY <1>1 DEF Forma, DialogoConLaMemoria, Dialogo
<1>4. m.op \in Asincronicos
  BY DEF processToMemory, PedirSinDireccion, Pedir, Asincronicos
<1> HIDE DEF m
<1>5. aMemoria'[c] = Append(aMemoria[c], m) /\ OtrosPedidos(c) /\ OtrasRespuestas(c)
  BY <1>1, <1>2, AlPreguntar, SinConsumir
<1>6. DejaDeEsperar(c) /\ Manda(c)
  BY <1>1, <1>2, <1>4, <1>5 DEF DejaDeEsperar, Manda, Espera
<1>7. Dialogo(c)' /\ EsSeq(aMemoria'[c]) /\ EsSeq(deMemoria'[c])
  BY <1>2, <1>3, <1>6, PasoDelCliente
<1>8. SoloCambia(c)
  BY <1>2, <1>5 DEF SoloCambia, OtrosPedidos, OtrasRespuestas, Espera, TipoEsperado
<1>9. Forma'
  BY <1>1, <1>2, <1>5, <1>7, FormaDeUna DEF Forma
<1>10. DialogoConLaMemoria'
  BY <1>1, <1>7, <1>8, LasOtras
<1> QED
  BY <1>9, <1>10 DEF DialogoInv

\* The steps that send and receive nothing of the memory.
LEMMA DialogoDeLosDemas ==
    ASSUME DialogoInv, UNCHANGED <<aMemoria, deMemoria, mudas, interfaz>>,
           \/ cpu' = cpu
           \/ cpu.fase = "libre" /\ \E p : cpu' = [CpuLibre EXCEPT !.fase = "pedir", !.pid = p]
    PROVE  DialogoInv'
<1>1. Forma /\ DialogoConLaMemoria
  BY DEF DialogoInv
<1>2. /\ cpu' = [fase |-> cpu'.fase, pid |-> cpu'.pid, inst |-> cpu'.inst,
                 dirs |-> cpu'.dirs, datos |-> cpu'.datos]
      /\ cpu' = cpu \/ (cpu.fase = "libre" /\ cpu'.fase = "pedir")
  <2>1. CASE cpu' = cpu
    BY <1>1, <2>1 DEF Forma
  <2>2. CASE cpu.fase = "libre" /\ \E p : cpu' = [CpuLibre EXCEPT !.fase = "pedir", !.pid = p]
    <3>1. PICK p : cpu' = [CpuLibre EXCEPT !.fase = "pedir", !.pid = p]
      BY <2>2
    <3>2. cpu' = [fase |-> "pedir", pid |-> p, inst |-> NULL, dirs |-> <<>>, datos |-> <<>>]
      BY <3>1 DEF CpuLibre
    <3> QED
      BY <2>2, <3>2
  <2> QED
    BY <2>1, <2>2
<1>3. Forma'
  BY <1>1, <1>2 DEF Forma
<1>4. ASSUME NEW c \in Conexiones PROVE Dialogo(c)'
  <2>1. Dialogo(c)
    BY <1>1 DEF DialogoConLaMemoria, Dialogo
  <2>2. Espera(c)' <=> Espera(c)
    BY <1>2 DEF Espera
  <2>3. Espera(c) \in BOOLEAN /\ Espera(c)' \in BOOLEAN
    BY DEF Espera
  <2>4. Espera(c)' = Espera(c)
    BY <2>2, <2>3
  <2>5. Espera(c) => TipoEsperado(c)' = TipoEsperado(c)
    BY <1>2 DEF Espera, TipoEsperado
  <2>6. CASE Espera(c)
    <3>1. TipoEsperado(c)' = TipoEsperado(c)
      BY <2>5, <2>6
    <3> QED
      BY <2>1, <2>4, <3>1, Zenon DEF Dialogo
  <2>7. CASE ~Espera(c)
    <3>1. Espera(c) = FALSE /\ c \notin mudas
      BY <2>1, <2>3, <2>7 DEF Dialogo
    <3>2. EnDialogo(aMemoria[c], deMemoria[c], FALSE, TipoEsperado(c))
      BY <2>1, <3>1, Zenon DEF Dialogo
    <3>3. EnDialogo(aMemoria[c], deMemoria[c], FALSE, TipoEsperado(c)')
      BY <3>2, SinEsperar
    <3> QED
      BY <2>4, <3>1, <3>3, Zenon DEF Dialogo
  <2> QED
    BY <2>6, <2>7
<1> QED
  BY <1>3, <1>4 DEF DialogoInv, DialogoConLaMemoria, Dialogo

-------------------------------------------------------------------------------
(* The dialogue. *)

LEMMA DialogoAlEmpezar ==
    ASSUME EjecucionInit
    PROVE  DialogoInv
<1>1. /\ aMemoria = [c \in Conexiones |-> <<>>] /\ deMemoria = [c \in Conexiones |-> <<>>]
      /\ mudas = {} /\ cpu = CpuLibre
      /\ interfaz = [i \in Interfaces |-> InterfazLibre]
  BY DEF EjecucionInit, MemoriaInit
<1>2. cpu = [fase |-> "libre", pid |-> NULL, inst |-> NULL, dirs |-> <<>>, datos |-> <<>>]
  BY <1>1 DEF CpuLibre
<1>3. \A c \in Conexiones : aMemoria[c] = <<>> /\ deMemoria[c] = <<>>
  BY <1>1
<1>4. Forma
  BY <1>1, <1>2, <1>3, VaciaEsSeq DEF Forma
<1>5. ASSUME NEW c \in Conexiones PROVE Dialogo(c)
  <2>1. ~Espera(c)
    BY <1>1, <1>2 DEF Espera, InterfazLibre
  <2>2. Espera(c) \in BOOLEAN
    BY DEF Espera
  <2>3. Espera(c) = FALSE /\ c \notin mudas
    BY <1>1, <2>1, <2>2
  <2>4. \A k \in 1 .. Len(<<>>) : <<>>[k].op \in Asincronicos
    BY VaciaEsSeq
  <2>5. EnDialogo(<<>>, <<>>, FALSE, TipoEsperado(c))
    BY <2>4 DEF EnDialogo
  <2> QED
    BY <1>3, <2>3, <2>5, Zenon DEF Dialogo
<1> QED
  BY <1>4, <1>5 DEF DialogoInv, DialogoConLaMemoria, Dialogo

LEMMA DialogoAlSeguir ==
    ASSUME DialogoInv, [EjecucionNext]_ejecucionVars
    PROVE  DialogoInv'
<1>1. CASE Cpu
  BY <1>1, DialogoDeCpu
<1>2. CASE Despachar
  BY <1>2, DialogoDeLosDemas DEF Despachar, memoriaVars, interfazVars
<1>3. CASE EnviarPrograma
  BY <1>3, DialogoDeEnviarPrograma
<1>4. CASE RecibirPcb
  BY <1>4, DialogoDeLosDemas DEF RecibirPcb, memoriaVars, interfazVars
<1>5. CASE IoFunction
  BY <1>5, DialogoDeLosDemas DEF IoFunction, memoriaVars
<1>6. CASE \E i \in Interfaces : TerminarIo(i)
  BY <1>6, DialogoDeLosDemas DEF TerminarIo, memoriaVars
<1>7. CASE \E i \in Interfaces : Interfaz(i)
  BY <1>7, DialogoDeInterfaz
<1>8. CASE \E c \in Conexiones : MemoriaAtiende(c)
  BY <1>8, DialogoDeMemoria
<1>9. CASE UNCHANGED ejecucionVars
  BY <1>9, DialogoDeLosDemas DEF ejecucionVars, memoriaVars, interfazVars
<1> QED
  BY <1>1, <1>2, <1>3, <1>4, <1>5, <1>6, <1>7, <1>8, <1>9 DEF EjecucionNext, Paso

\* On each connection of the memory a client that waits has one question or one answer of
\* what it waits for, and one that does not has neither, whatever the programs are.
THEOREM CadaRespuestaEsDeSuPregunta == EjecucionSpec => []DialogoConLaMemoria
<1>1. EjecucionInit => DialogoInv
  BY DialogoAlEmpezar
<1>2. DialogoInv /\ [EjecucionNext]_ejecucionVars => DialogoInv'
  BY DialogoAlSeguir
<1>3. DialogoInv => DialogoConLaMemoria
  BY DEF DialogoInv
<1> QED
  BY <1>1, <1>2, <1>3, PTL DEF EjecucionSpec

-------------------------------------------------------------------------------
(* The program that is loaded. *)

\* CargadoElQueCorre, and what leads to it: the process that has still to be sent is
\* the one that runs, and if there are some on their way the last is.
Carga ==
    /\ porEnviar # NULL => cpu.pid \in {porEnviar, NULL}
    /\ porEnviar = NULL /\ cpu.pid # NULL
         => \/ aMemoria["KERNEL"] = <<>> /\ instructions \in {cpu.pid, NULL}
            \/ /\ aMemoria["KERNEL"] # <<>>
               /\ aMemoria["KERNEL"][Len(aMemoria["KERNEL"])].pid = cpu.pid

\* Who changes the program that is loaded.
LEMMA ProgramaCargado ==
    ASSUME NEW c, MemoriaAtiende(c)
    PROVE  \/ c = "KERNEL" /\ CargarPrograma(c)
           \/ c # "KERNEL" /\ instructions' \in {instructions, NULL}
<1>1. CASE c = "CPU" /\ MemoriaALaCpu
  <2>1. c # "KERNEL"
    BY <1>1
  <2>2. instructions' = instructions \/ instructions' = NULL
    BY <1>1 DEF MemoriaALaCpu, AtenderALaCpu, DarInstruccion, FinDelArreglo, SinArreglo,
       AccesoIndebido, Caida, AtenderResize, AtenderSolicitudFrame, AtenderMoveIn,
       AtenderMoveOut, AtenderCopyString
  <2> QED
    BY <2>1, <2>2
<1>2. CASE c \in Interfaces /\ (MemoriaALaInterfaz(c) \/ MemoriaEscribeLoLeido(c))
  <2>1. c # "KERNEL"
    BY <1>2, LosNombres
  <2>2. instructions' = instructions
    BY <1>2 DEF MemoriaALaInterfaz, MemoriaEscribeLoLeido, AtenderALaInterfaz,
       AtenderStdinRead, AtenderWrite, AtenderFsWrite, WriteSinTabla, AtenderFsRead,
       AccesoIndebido, Caida
  <2> QED
    BY <2>1, <2>2
<1> QED
  BY <1>1, <1>2 DEF MemoriaAtiende

LEMMA CargaDeLaMemoria ==
    ASSUME DialogoInv, Carga, NEW c \in Conexiones, MemoriaAtiende(c)
    PROVE  Carga'
<1> DEFINE q == aMemoria["KERNEL"]
<1>1. Forma /\ "KERNEL" \in Conexiones
  BY LosNombres DEF DialogoInv
<1>2. cpu' = cpu /\ porEnviar' = porEnviar
  BY DEF MemoriaAtiende, FueraDeLaMemoria, planVars
<1>3. OtrosPedidos(c)
  BY <1>1, PasosDeMemoria DEF AtiendeSolo
<1>4. CASE c # "KERNEL" /\ instructions' \in {instructions, NULL}
  <2>1. aMemoria'["KERNEL"] = q
    BY <1>1, <1>3, <1>4 DEF OtrosPedidos
  <2> QED
    BY <1>2, <1>4, <2>1 DEF Carga
<1>5. CASE c = "KERNEL" /\ CargarPrograma(c)
  <2>1. q # <<>> /\ instructions' = Head(q).pid /\ Callar("KERNEL")
    BY <1>5 DEF CargarPrograma, Pide
  <2>2. aMemoria'["KERNEL"] = Tail(q)
    BY <1>1, <2>1, AlSacarUno DEF Callar
  <2>3. EsSeq(q)
    BY <1>1 DEF Forma
  <2>4. /\ Len(q) \in Nat \ {0} /\ Head(q) = q[1] /\ Len(Tail(q)) = Len(q) - 1
        /\ \A k \in 1 .. Len(q) - 1 : Tail(q)[k] = q[k + 1]
        /\ Len(q) = 1 => Tail(q) = <<>>
    BY <2>1, <2>3, AlSacar
  <2>5. ASSUME porEnviar = NULL, cpu.pid # NULL
        PROVE  \/ Tail(q) = <<>> /\ instructions' \in {cpu.pid, NULL}
               \/ Tail(q) # <<>> /\ Tail(q)[Len(Tail(q))].pid = cpu.pid
    <3>1. q[Len(q)].pid = cpu.pid
      BY <2>1, <2>5 DEF Carga
    <3>2. CASE Len(q) = 1
      BY <2>1, <2>4, <3>1, <3>2
    <3>3. CASE Len(q) # 1
      <4>1. \A n \in Nat \ {0} : n # 1 => n - 1 \in 1 .. n - 1 /\ n - 1 + 1 = n /\ n - 1 # 0
        OBVIOUS
      <4>2. Len(Tail(q)) # 0 /\ Tail(q)[Len(Tail(q))] = q[Len(q)]
        BY <2>4, <3>3, <4>1
      <4>3. Tail(q) # <<>>
        BY <4>2, VaciaEsSeq
      <4> QED
        BY <3>1, <4>2, <4>3
    <3> QED
      BY <3>2, <3>3
  <2> QED
    BY <1>2, <2>2, <2>5 DEF Carga
<1> QED
  BY <1>4, <1>5, ProgramaCargado

LEMMA CargaDeCpu ==
    ASSUME DialogoInv, Carga, Cpu
    PROVE  Carga'
<1>1. Forma /\ "KERNEL" \in Conexiones /\ "CPU" \in Conexiones /\ "KERNEL" # "CPU"
  BY LosNombres DEF DialogoInv
<1>2. porEnviar' = porEnviar /\ instructions' = instructions
  BY DEF Cpu, memoriaInterna, planVars
<1>3. cpu'.pid \in {cpu.pid, NULL}
  BY <1>1, PasosDeCpu DEF Sigue, CpuDeja, CpuSigue
<1>4. aMemoria'["KERNEL"] = aMemoria["KERNEL"]
  <2>1. CASE aMemoria' = aMemoria
    BY <2>1
  <2>2. CASE \E m : Preguntar("CPU", m)
    BY <1>1, <2>2, AlPreguntar DEF OtrosPedidos
  <2>3. CASE \E m, n : aMemoria' = [aMemoria EXCEPT !["CPU"] = @ \o <<m, n>>]
    <3>1. PICK m, n : aMemoria' = [aMemoria EXCEPT !["CPU"] = @ \o <<m, n>>]
      BY <2>3
    <3> DEFINE e == aMemoria["CPU"] \o <<m, n>>
    <3>2. aMemoria = [d \in Conexiones |-> aMemoria[d]] /\ aMemoria' = [aMemoria EXCEPT !["CPU"] = e]
      BY <1>1, <3>1 DEF Forma
    <3> HIDE DEF e
    <3> QED
      BY <1>1, <3>2, AlCambiar
  <2> QED
    BY <1>1, <2>1, <2>2, <2>3, PasosDeCpu DEF Sigue
<1> QED
  BY <1>2, <1>3, <1>4 DEF Carga

LEMMA CargaDeInterfaz ==
    ASSUME DialogoInv, Carga, NEW i \in Interfaces, Interfaz(i)
    PROVE  Carga'
<1>1. Forma /\ "KERNEL" \in Conexiones /\ i \in Conexiones /\ "KERNEL" # i
  BY LosNombres DEF DialogoInv
<1>2. cpu' = cpu /\ porEnviar' = porEnviar /\ instructions' = instructions
  BY DEF Interfaz, memoriaInterna, planVars
<1>3. aMemoria'["KERNEL"] = aMemoria["KERNEL"]
  <2>1. CASE aMemoria' = aMemoria
    BY <2>1
  <2>2. CASE \E m : Preguntar(i, m)
    BY <1>1, <2>2, AlPreguntar DEF OtrosPedidos
  <2> QED
    BY <1>1, <2>1, <2>2, PasosDeInterfaz
<1> QED
  BY <1>2, <1>3 DEF Carga

LEMMA CargaDeEnviarPrograma ==
    ASSUME DialogoInv, Carga, EnviarPrograma
    PROVE  Carga'
<1> DEFINE q == aMemoria["KERNEL"]
<1> DEFINE m == processToMemory(porEnviar)
<1>1. Forma /\ "KERNEL" \in Conexiones
  BY LosNombres DEF DialogoInv
<1>2. porEnviar # NULL /\ porEnviar' = NULL /\ cpu' = cpu /\ Preguntar("KERNEL", m)
  BY DEF EnviarPrograma
<1>3. m.pid = porEnviar
  BY DEF processToMemory, PedirSinDireccion, Pedir
<1> HIDE DEF m
<1>4. aMemoria'["KERNEL"] = Append(q, m) /\ EsSeq(q)
  BY <1>1, <1>2, AlPreguntar DEF Forma
<1>5. Append(q, m) # <<>> /\ Append(q, m)[Len(Append(q, m))] = m
  BY <1>4, AlAgregar
<1>6. cpu.pid \in {porEnviar, NULL}
  BY <1>2 DEF Carga
<1> QED
  BY <1>2, <1>3, <1>4, <1>5, <1>6 DEF Carga

LEMMA CargaDeDespachar ==
    ASSUME Carga, Despachar
    PROVE  Carga'
<1>1. /\ cpu' = [CpuLibre EXCEPT !.fase = "pedir", !.pid = Head(queueReadys)]
      /\ porEnviar' = Head(queueReadys)
  BY DEF Despachar
<1>2. cpu'.pid = Head(queueReadys)
  BY <1>1 DEF CpuLibre
<1> QED
  BY <1>1, <1>2 DEF Carga

LEMMA CargaDeLosDemas ==
    ASSUME Carga, UNCHANGED <<cpu, porEnviar, aMemoria, instructions>>
    PROVE  Carga'
  BY DEF Carga

LEMMA CargaAlSeguir ==
    ASSUME DialogoInv, Carga, [EjecucionNext]_ejecucionVars
    PROVE  Carga'
<1>1. CASE Cpu
  BY <1>1, CargaDeCpu
<1>2. CASE Despachar
  BY <1>2, CargaDeDespachar
<1>3. CASE EnviarPrograma
  BY <1>3, CargaDeEnviarPrograma
<1>4. CASE RecibirPcb
  BY <1>4, CargaDeLosDemas DEF RecibirPcb, memoriaVars
<1>5. CASE IoFunction
  BY <1>5, CargaDeLosDemas DEF IoFunction, memoriaVars
<1>6. CASE \E i \in Interfaces : TerminarIo(i)
  BY <1>6, CargaDeLosDemas DEF TerminarIo, memoriaVars
<1>7. CASE \E i \in Interfaces : Interfaz(i)
  BY <1>7, CargaDeInterfaz
<1>8. CASE \E c \in Conexiones : MemoriaAtiende(c)
  BY <1>8, CargaDeLaMemoria
<1>9. CASE UNCHANGED ejecucionVars
  BY <1>9, CargaDeLosDemas DEF ejecucionVars, memoriaVars, planVars
<1> QED
  BY <1>1, <1>2, <1>3, <1>4, <1>5, <1>6, <1>7, <1>8, <1>9 DEF EjecucionNext, Paso

\* When nothing is on its way from the kernel to the memory, the program that is loaded
\* is that of the process that the CPU runs, or none, although the program is sent
\* after the PCB and on another connection.
THEOREM SeCargaElQueCorre == EjecucionSpec => []CargadoElQueCorre
<1>1. EjecucionInit => DialogoInv /\ Carga
  <2>1. EjecucionInit => Carga
    BY DEF EjecucionInit, Carga, CpuLibre
  <2> QED
    BY <2>1, DialogoAlEmpezar
<1>2. DialogoInv /\ Carga /\ [EjecucionNext]_ejecucionVars => DialogoInv' /\ Carga'
  BY DialogoAlSeguir, CargaAlSeguir
<1>3. Carga => CargadoElQueCorre
  BY DEF Carga, CargadoElQueCorre
<1> QED
  BY <1>1, <1>2, <1>3, PTL DEF EjecucionSpec

-------------------------------------------------------------------------------
(* The types of what the RESIZE requests carry, from where they come. *)

Elementos(s) == {s[k] : k \in 1 .. Len(s)}

LEMMA ElementosAlAgregar ==
    ASSUME NEW s, EsSeq(s), NEW e
    PROVE  Elementos(Append(s, e)) \subseteq Elementos(s) \cup {e}
<1>1. /\ Len(s) \in Nat /\ Len(Append(s, e)) = Len(s) + 1 /\ Append(s, e)[Len(s) + 1] = e
      /\ \A k \in 1 .. Len(s) : Append(s, e)[k] = s[k]
  BY AlAgregar
<1>2. ASSUME NEW k \in 1 .. Len(Append(s, e)) PROVE Append(s, e)[k] \in Elementos(s) \cup {e}
  <2>1. k \in 1 .. Len(s) \/ k = Len(s) + 1
    BY <1>1
  <2> QED
    BY <1>1, <2>1 DEF Elementos
<1> QED
  BY <1>2 DEF Elementos

LEMMA ElementosAlSacar ==
    ASSUME NEW s, EsSeq(s), s # <<>>
    PROVE  Elementos(Tail(s)) \subseteq Elementos(s) /\ Head(s) \in Elementos(s)
<1>1. /\ Len(s) \in Nat \ {0} /\ Head(s) = s[1] /\ Len(Tail(s)) = Len(s) - 1
      /\ \A k \in 1 .. Len(s) - 1 : Tail(s)[k] = s[k + 1]
  BY AlSacar
<1>2. \A n \in Nat \ {0} : 1 \in 1 .. n /\ \A k \in 1 .. n - 1 : k + 1 \in 1 .. n
  OBVIOUS
<1> QED
  BY <1>1, <1>2 DEF Elementos

LEMMA SinElementos == Elementos(<<>>) = {}
  BY VaciaEsSeq DEF Elementos

\* What travels to the memory and back, as far as RESIZE needs it.
Mensajes ==
    /\ pseudocodigo \in Pseudocodigos
    /\ instructions \in Pids \cup {NULL}
    /\ \A m \in Elementos(aMemoria["KERNEL"]) : m.pid \in Pids
    /\ \A m \in Elementos(aMemoria["CPU"]) : m.op = "RESIZE" => m.pid \in Pids /\ m.largo \in Nat
    /\ \A m \in Elementos(deMemoria["CPU"]) : m.tipo = "INSTRUCCION" => m.dato.n \in Nat

\* The processes go round between the queue, the CPU, the kernel and the interfaces.
Procesos ==
    /\ porEnviar \in Pids \cup {NULL}
    /\ cpu.fase # "libre" => cpu.pid \in Pids
    /\ vuelve # NULL => vuelve.pid \in Pids
    /\ queueReadys \in Seq(Pids)
    /\ deInterfaz = [i \in Interfaces |-> deInterfaz[i]]
    /\ \A i \in Interfaces : /\ EsSeq(deInterfaz[i])
                             /\ \A m \in Elementos(deInterfaz[i]) : m.pid \in Pids

MarcosInv == DialogoInv /\ Mensajes /\ Procesos /\ IInv

LEMMA MensajesQuietos ==
    ASSUME Mensajes, UNCHANGED <<pseudocodigo, instructions, aMemoria, deMemoria>>
    PROVE  Mensajes'
  BY DEF Mensajes

LEMMA ProcesosQuietos ==
    ASSUME Procesos, UNCHANGED <<porEnviar, cpu, vuelve, queueReadys, deInterfaz>>
    PROVE  Procesos'
  BY DEF Procesos

\* Who touches neither bitmap nor tables, the memory fallen or not.
LEMMA PaginasQuietas ==
    ASSUME IInv, UNCHANGED <<bitArrayOcupiedFrames, pageTable, idGlobal, answer>>,
           crashed' \in BOOLEAN
    PROVE  IInv'
<1>1. TamanioPedido'
  BY DEF IInv, TamanioPedido, CurrentSize, PagesOf
<1>2. answer' \in Answer \cup {NULL}
  BY DEF IInv, PaginacionTypeOK
<1> QED
  BY <1>1, <1>2, AnswerStep

\* And who does not touch the memory at all.
LEMMA MemoriaQuieta ==
    ASSUME IInv, UNCHANGED paginacionVars
    PROVE  IInv'
<1>1. UNCHANGED <<bitArrayOcupiedFrames, pageTable, idGlobal, answer, crashed>>
  BY DEF paginacionVars
<1>2. crashed' \in BOOLEAN
  BY <1>1 DEF IInv, PaginacionTypeOK
<1> QED
  BY <1>1, <1>2, PaginasQuietas

LEMMA MarcosDeCpu ==
    ASSUME MarcosInv, Cpu
    PROVE  Mensajes' /\ Procesos' /\ IInv'
<1> DEFINE q == aMemoria["CPU"]
<1> DEFINE r == deMemoria["CPU"]
<1>1. /\ DialogoInv /\ Forma /\ Mensajes /\ Procesos /\ IInv
      /\ "KERNEL" \in Conexiones /\ "CPU" \in Conexiones /\ "KERNEL" # "CPU"
  BY LosNombres DEF MarcosInv, DialogoInv
<1>2. /\ UNCHANGED <<pseudocodigo, instructions, porEnviar, queueReadys, deInterfaz>>
      /\ UNCHANGED paginacionVars
  BY DEF Cpu, memoriaInterna, planVars, interfazVars
<1>3. IInv'
  BY <1>1, <1>2, MemoriaQuieta
<1>4. cpu.fase # "libre" /\ CpuSigue
  BY <1>1, PasosDeCpu DEF Sigue, CpuDeja
<1>5. cpu.pid \in Pids
  BY <1>1, <1>4 DEF Procesos
<1>6. Procesos'
  <2>1. cpu'.fase # "libre" => cpu'.pid \in Pids
    BY <1>4, <1>5 DEF CpuSigue
  <2>2. vuelve' # NULL => vuelve'.pid \in Pids
    BY <1>1, <1>4, <1>5 DEF CpuSigue, Procesos
  <2> QED
    BY <1>1, <1>2, <2>1, <2>2 DEF Procesos
<1>7. EsSeq(q) /\ EsSeq(r)
  BY <1>1 DEF Forma
<1>8. Elementos(deMemoria'["CPU"]) \subseteq Elementos(r)
  <2>1. CASE deMemoria' = deMemoria
    BY <2>1
  <2>2. CASE r # <<>> /\ Consumir("CPU")
    <3>1. deMemoria'["CPU"] = Tail(r)
      BY <1>1, <2>2, AlConsumir
    <3> QED
      BY <1>7, <2>2, <3>1, ElementosAlSacar
  <2> QED
    BY <1>1, <2>1, <2>2, PasosDeCpu
\* The number of bytes is that of an instruction, since it answers a fetch.
<1>9. cpu.fase = "instruccion" /\ r # <<>> => Recibido.n \in Nat
  <2> SUFFICES ASSUME cpu.fase = "instruccion", r # <<>> PROVE Recibido.n \in Nat
    OBVIOUS
  <2>1. "CPU" \notin mudas /\ TipoEsperado("CPU") = "INSTRUCCION"
    BY <1>1 DEF DialogoInv, DialogoConLaMemoria, TipoEsperado
  <2>2. EnDialogo(q, r, Espera("CPU"), "INSTRUCCION")
    BY <1>1, <2>1 DEF DialogoInv, DialogoConLaMemoria
  <2>3. Head(r).tipo = "INSTRUCCION"
    BY <1>7, <2>2, Respuesta
  <2>4. Head(r) \in Elementos(r)
    BY <1>7, ElementosAlSacar
  <2> QED
    BY <1>1, <2>3, <2>4 DEF Mensajes, Recibido
<1> DEFINE Bien(m) == m.op = "RESIZE" => m.pid \in Pids /\ m.largo \in Nat
<1> DEFINE Bienes == /\ aMemoria'["KERNEL"] = aMemoria["KERNEL"]
                     /\ \A m \in Elementos(aMemoria'["CPU"]) : Bien(m)
<1>10. \A m \in Elementos(q) : Bien(m)
  BY <1>1 DEF Mensajes
<1>11. ASSUME NEW m, Preguntar("CPU", m), Bien(m) PROVE Bienes
  <2>1. aMemoria'["KERNEL"] = aMemoria["KERNEL"] /\ aMemoria'["CPU"] = Append(q, m)
    BY <1>1, <1>11, AlPreguntar DEF OtrosPedidos
  <2>2. Elementos(aMemoria'["CPU"]) \subseteq Elementos(q) \cup {m}
    BY <1>7, <2>1, ElementosAlAgregar
  <2> HIDE DEF Bien
  <2> QED
    BY <1>10, <1>11, <2>1, <2>2
<1>12. Bienes
  <2>1. CASE aMemoria' = aMemoria
    BY <1>10, <2>1
  <2>2. CASE \E m : Preguntar("CPU", m) /\ m.op = "REQUESTINSTRUCTIONS"
    BY <1>11, <2>2
  <2>3. CASE \E m : Preguntar("CPU", m) /\ m.op \in Asincronicos
    BY <1>11, <2>3 DEF Asincronicos
  <2>4. CASE /\ r # <<>>
             /\ \E m : /\ Preguntar("CPU", m) /\ m.op \in {"SOLICITUD_FRAME", "MOVE_IN", "RESIZE"}
                       /\ m.op = "RESIZE" => /\ cpu.fase = "instruccion" 
                                             /\ m.pid = cpu.pid /\ m.largo = Recibido.n
    <3>1. PICK m : /\ Preguntar("CPU", m)
                   /\ m.op = "RESIZE" => /\ cpu.fase = "instruccion"
                                         /\ m.pid = cpu.pid /\ m.largo = Recibido.n
      BY <2>4
    <3>2. Bien(m)
      BY <1>5, <1>9, <2>4, <3>1
    <3> HIDE DEF Bien, Bienes
    <3> QED
      BY <1>11, <3>1, <3>2
  <2>5. CASE \E m, n : /\ aMemoria' = [aMemoria EXCEPT !["CPU"] = @ \o <<m, n>>]
                       /\ m.op \in Asincronicos /\ n.op = "SOLICITUD_FRAME"
    <3>1. PICK m, n : /\ aMemoria' = [aMemoria EXCEPT !["CPU"] = @ \o <<m, n>>]
                      /\ m.op \in Asincronicos /\ n.op = "SOLICITUD_FRAME"
      BY <2>5
    <3> DEFINE e == q \o <<m, n>>
    <3>2. e = Append(Append(q, m), n)
      BY <1>7, DosMensajes
    <3>3. aMemoria = [d \in Conexiones |-> aMemoria[d]] /\ aMemoria' = [aMemoria EXCEPT !["CPU"] = e]
      BY <1>1, <3>1 DEF Forma
    <3> HIDE DEF e
    <3>4. aMemoria'["CPU"] = e /\ aMemoria'["KERNEL"] = aMemoria["KERNEL"]
      BY <1>1, <3>3, AlCambiar
    <3>5. Elementos(e) \subseteq Elementos(q) \cup {m, n}
      <4>1. EsSeq(Append(q, m)) /\ Elementos(Append(q, m)) \subseteq Elementos(q) \cup {m}
        BY <1>7, AlAgregar, ElementosAlAgregar
      <4>2. Elementos(e) \subseteq Elementos(Append(q, m)) \cup {n}
        BY <3>2, <4>1, ElementosAlAgregar
      <4> QED
        BY <4>1, <4>2
    <3>6. Bien(m) /\ Bien(n)
      BY <3>1 DEF Asincronicos
    <3> HIDE DEF Bien
    <3> QED
      BY <1>10, <3>4, <3>5, <3>6
  <2> HIDE DEF Bienes
  <2> QED
    BY <1>1, <2>1, <2>2, <2>3, <2>4, <2>5, PasosDeCpu DEF Sigue
<1>13. Mensajes'
  BY <1>1, <1>2, <1>8, <1>12 DEF Mensajes
<1> QED
  BY <1>3, <1>6, <1>13

LEMMA MarcosDeInterfaz ==
    ASSUME MarcosInv, NEW i \in Interfaces, Interfaz(i)
    PROVE  Mensajes' /\ Procesos' /\ IInv'
<1>1. /\ DialogoInv /\ Forma /\ Mensajes /\ Procesos /\ IInv
      /\ "KERNEL" \in Conexiones /\ "CPU" \in Conexiones /\ i \in Conexiones
      /\ i # "KERNEL" /\ i # "CPU"
  BY LosNombres DEF MarcosInv, DialogoInv
<1>2. /\ UNCHANGED <<pseudocodigo, instructions, porEnviar, queueReadys, cpu, vuelve>>
      /\ UNCHANGED paginacionVars
  BY DEF Interfaz, memoriaInterna, planVars
<1>3. IInv'
  BY <1>1, <1>2, MemoriaQuieta
<1>4. Mensajes'
  <2>1. aMemoria' = aMemoria \/ \E m : Preguntar(i, m)
    BY <1>1, PasosDeInterfaz
  <2>2. OtrosPedidos(i)
    BY <1>1, <2>1, AlPreguntar, SinPreguntar
  <2>3. deMemoria' = deMemoria \/ Consumir(i)
    BY <1>1, PasosDeInterfaz
  <2>4. OtrasRespuestas(i)
    BY <1>1, <2>3, AlConsumir, SinConsumir
  <2>5. /\ aMemoria'["CPU"] = aMemoria["CPU"] /\ aMemoria'["KERNEL"] = aMemoria["KERNEL"]
        /\ deMemoria'["CPU"] = deMemoria["CPU"]
    BY <1>1, <2>2, <2>4 DEF OtrosPedidos, OtrasRespuestas
  <2> QED
    BY <1>1, <1>2, <2>5 DEF Mensajes
<1>5. Procesos'
  <2>1. deInterfaz' = deInterfaz \/ \E p \in Pids, op \in {"FINISHED_IO", "FINISHED_IO_ERROR"} : Avisar(i, p, op)
    BY DEF Interfaz, Rechazar, HacerSinMemoria, Fallar, LeerTeclado, PedirTexto,
       RecibirDeMemoria, EnviarLoLeido, AvisarLoLeido
  <2>2. CASE deInterfaz' = deInterfaz
    BY <1>1, <1>2, <2>2, ProcesosQuietos
  <2>3. CASE \E p \in Pids, op \in {"FINISHED_IO", "FINISHED_IO_ERROR"} : Avisar(i, p, op)
    <3>1. PICK p \in Pids, op \in {"FINISHED_IO", "FINISHED_IO_ERROR"} : Avisar(i, p, op)
      BY <2>3
    <3> DEFINE m == [op |-> op, pid |-> p]
    <3> DEFINE e == Append(deInterfaz[i], m)
    <3>2. /\ deInterfaz = [j \in Interfaces |-> deInterfaz[j]]
          /\ deInterfaz' = [deInterfaz EXCEPT ![i] = e]
          /\ EsSeq(deInterfaz[i])
          /\ \A x \in Elementos(deInterfaz[i]) : x.pid \in Pids
      BY <1>1, <3>1 DEF Avisar, Procesos
    <3>3. m.pid \in Pids
      OBVIOUS
    <3> HIDE DEF m
    <3>4. EsSeq(e) /\ \A x \in Elementos(e) : x.pid \in Pids
      BY <3>2, <3>3, AlAgregar, ElementosAlAgregar
    <3> HIDE DEF e
    <3>5. /\ deInterfaz' = [j \in Interfaces |-> deInterfaz'[j]]
          /\ deInterfaz'[i] = e
          /\ \A j \in Interfaces : j # i => deInterfaz'[j] = deInterfaz[j]
      BY <3>2, AlCambiar
    <3>6. \A j \in Interfaces : /\ EsSeq(deInterfaz'[j])
                                /\ \A x \in Elementos(deInterfaz'[j]) : x.pid \in Pids
      BY <1>1, <3>4, <3>5 DEF Procesos
    <3> QED
      BY <1>1, <1>2, <3>5, <3>6 DEF Procesos
  <2> QED
    BY <2>1, <2>2, <2>3
<1> QED
  BY <1>3, <1>4, <1>5

\* What the memory tells the CPU of a program is one of its instructions.
LEMMA InstruccionesBienEscritas ==
    ASSUME Mensajes, instructions # NULL,
           NEW k \in DOMAIN pseudocodigo[instructions]
    PROVE  pseudocodigo[instructions][k].n \in Nat
<1>1. pseudocodigo \in Pseudocodigos /\ instructions \in Pids
  BY DEF Mensajes
<1>2. BienEscrita(pseudocodigo[instructions][k])
  BY <1>1, ProgramasBienEscritos
<1> QED
  BY <1>2 DEF BienEscrita

\* What a step for the CPU does to the pages, to the program and to the answers.
LEMMA AlAtenderALaCpu ==
    ASSUME MarcosInv, MemoriaALaCpu
    PROVE  /\ pseudocodigo' = pseudocodigo
           /\ IInv'
           /\ \A m \in Elementos(deMemoria'["CPU"]) \ Elementos(deMemoria["CPU"]) :
                m.tipo = "INSTRUCCION" => m.dato.n \in Nat
<1> DEFINE c == "CPU"
<1> DEFINE q == aMemoria[c]
<1> DEFINE r == deMemoria[c]
<1>0. Forma /\ Mensajes /\ IInv /\ c \in Conexiones /\ EsSeq(q) /\ EsSeq(r)
  BY LosNombres DEF MarcosInv, DialogoInv, Forma
<1> DEFINE Nuevas == \A m \in Elementos(deMemoria'[c]) \ Elementos(r) :
                       m.tipo = "INSTRUCCION" => m.dato.n \in Nat
<1> SUFFICES pseudocodigo' = pseudocodigo /\ IInv' /\ Nuevas
  OBVIOUS
<1>a. ASSUME deMemoria' = deMemoria PROVE Nuevas
  BY <1>a
\* An answer to a request that is not a fetch is not an instruction.
<1>b. ASSUME NEW d, q # <<>>, Head(q).op \in {"RESIZE", "SOLICITUD_FRAME", "MOVE_IN"},
             Responder(c, d), mudas' = mudas
      PROVE  Nuevas
  <2> DEFINE m == [tipo |-> Tipo(Head(q).op), dato |-> d]
  <2>1. deMemoria'[c] = Append(r, m)
    BY <1>0, <1>b, AlResponder DEF Sincronicos
  <2>2. m.tipo = "NUMERO"
    BY <1>b DEF Tipo
  <2> HIDE DEF m
  <2>3. Elementos(deMemoria'[c]) \subseteq Elementos(r) \cup {m}
    BY <1>0, <2>1, ElementosAlAgregar
  <2> QED
    BY <2>2, <2>3
<1>c. ASSUME SinCambiarPaginas PROVE IInv'
  <2>1. UNCHANGED <<bitArrayOcupiedFrames, pageTable, idGlobal, answer, crashed>>
    BY <1>c DEF SinCambiarPaginas
  <2>2. crashed' \in BOOLEAN
    BY <1>0, <2>1 DEF IInv, PaginacionTypeOK
  <2> QED
    BY <1>0, <2>1, <2>2, PaginasQuietas
<1>1. CASE DarInstruccion(c)
  <2> DEFINE pc == Head(q).dato
  <2> DEFINE d == pseudocodigo[instructions][pc + 1]
  <2> DEFINE m == [tipo |-> Tipo(Head(q).op), dato |-> d]
  <2>1. /\ q # <<>> /\ Head(q).op = "REQUESTINSTRUCTIONS" /\ mudas' = mudas
        /\ instructions # NULL /\ pc + 1 \in DOMAIN pseudocodigo[instructions]
        /\ Responder(c, d) /\ pseudocodigo' = pseudocodigo /\ SinCambiarPaginas
    BY <1>1 DEF DarInstruccion, Pide
  <2>2. d.n \in Nat
    BY <1>0, <2>1, InstruccionesBienEscritas
  <2> HIDE DEF d
  <2>3. deMemoria'[c] = Append(r, m) /\ m.dato = d
    BY <1>0, <2>1, AlResponder DEF Sincronicos
  <2> HIDE DEF m
  <2>4. Elementos(deMemoria'[c]) \subseteq Elementos(r) \cup {m}
    BY <1>0, <2>3, ElementosAlAgregar
  <2>5. Nuevas
    BY <2>2, <2>3, <2>4
  <2> HIDE DEF Nuevas
  <2> QED
    BY <1>c, <2>1, <2>5
<1>2. CASE FinDelArreglo(c)
  <2>1. deMemoria' = deMemoria /\ pseudocodigo' = pseudocodigo /\ SinCambiarPaginas
    BY <1>2 DEF FinDelArreglo, Callar
  <2> HIDE DEF Nuevas
  <2> QED
    BY <1>a, <1>c, <2>1
<1>3. CASE SinArreglo(c) \/ AccesoIndebido(c)
  <2>1. Caida(c)
    BY <1>3 DEF SinArreglo, AccesoIndebido
  <2>2. /\ UNCHANGED <<bitArrayOcupiedFrames, pageTable, idGlobal, answer>> /\ crashed' = TRUE
        /\ deMemoria' = deMemoria /\ pseudocodigo' = pseudocodigo
    BY <2>1 DEF Caida
  <2>3. IInv'
    BY <1>0, <2>2, PaginasQuietas
  <2> HIDE DEF Nuevas
  <2> QED
    BY <1>a, <2>2, <2>3
<1>4. CASE AtenderResize(c)
  <2> DEFINE m == Head(q)
  <2>1. /\ q # <<>> /\ m.op = "RESIZE" /\ mudas' = mudas /\ pseudocodigo' = pseudocodigo
        /\ Resize(m.pid, m.largo)
        /\ deMemoria' = deMemoria \/ Responder(c, answer'.okey)
    BY <1>4 DEF AtenderResize, Pide, ResizeYLlenar
  <2>2. m \in Elementos(q)
    BY <1>0, <2>1, ElementosAlSacar
  <2>3. m.pid \in Pids /\ m.largo \in Nat
    BY <1>0, <2>1, <2>2 DEF Mensajes
  <2> HIDE DEF m
  <2>4. IInv'
    BY <1>0, <2>1, <2>3, ResizeStep
  <2> HIDE DEF Nuevas
  <2> QED
    BY <1>a, <1>b, <2>1, <2>4 DEF m
<1>5. CASE AtenderSolicitudFrame(c)
  <2>1. /\ q # <<>> /\ Head(q).op = "SOLICITUD_FRAME" /\ mudas' = mudas
        /\ Responder(c, GetFrame(Head(q).pid, Head(q).dato))
        /\ pseudocodigo' = pseudocodigo /\ SinCambiarPaginas
    BY <1>5 DEF AtenderSolicitudFrame, Pide
  <2> HIDE DEF Nuevas
  <2> QED
    BY <1>b, <1>c, <2>1
<1>6. CASE AtenderMoveIn(c)
  <2> DEFINE m == Head(q)
  <2>1. /\ q # <<>> /\ m.op = "MOVE_IN" /\ mudas' = mudas
        /\ Responder(c, CadenaANumero(Leida(m.pid, m.dir, m.largo)))
        /\ pseudocodigo' = pseudocodigo /\ SinCambiarPaginas
    BY <1>6 DEF AtenderMoveIn, Pide
  <2> HIDE DEF Nuevas
  <2> QED
    BY <1>b, <1>c, <2>1
<1>7. CASE AtenderMoveOut(c) \/ AtenderCopyString(c)
  <2>1. deMemoria' = deMemoria /\ pseudocodigo' = pseudocodigo /\ SinCambiarPaginas
    BY <1>7 DEF AtenderMoveOut, AtenderCopyString, Callar
  <2> HIDE DEF Nuevas
  <2> QED
    BY <1>a, <1>c, <2>1
<1> HIDE DEF Nuevas
<1> QED
  BY <1>1, <1>2, <1>3, <1>4, <1>5, <1>6, <1>7 DEF MemoriaALaCpu, AtenderALaCpu

LEMMA AlAtenderALaInterfaz ==
    ASSUME MarcosInv, NEW c, MemoriaALaInterfaz(c) \/ MemoriaEscribeLoLeido(c)
    PROVE  pseudocodigo' = pseudocodigo /\ IInv'
<1>1. IInv
  BY DEF MarcosInv
<1>2. CASE AccesoIndebido(c)
  <2>1. /\ UNCHANGED <<bitArrayOcupiedFrames, pageTable, idGlobal, answer>> /\ crashed' = TRUE
        /\ pseudocodigo' = pseudocodigo
    BY <1>2 DEF AccesoIndebido, Caida
  <2> QED
    BY <1>1, <2>1, PaginasQuietas
<1>3. CASE ~AccesoIndebido(c)
  <2>1. pseudocodigo' = pseudocodigo /\ SinCambiarPaginas
    BY <1>3 DEF MemoriaALaInterfaz, MemoriaEscribeLoLeido, AtenderALaInterfaz,
       AtenderStdinRead, AtenderWrite, AtenderFsWrite, WriteSinTabla, AtenderFsRead
  <2>2. UNCHANGED paginacionVars
    BY <2>1 DEF SinCambiarPaginas, paginacionVars
  <2> QED
    BY <1>1, <2>1, <2>2, MemoriaQuieta
<1> QED
  BY <1>2, <1>3

LEMMA MarcosDeMemoria ==
    ASSUME MarcosInv, NEW c \in Conexiones, MemoriaAtiende(c)
    PROVE  Mensajes' /\ Procesos' /\ IInv'
<1>1. /\ Forma /\ Mensajes /\ Procesos /\ IInv
      /\ "KERNEL" \in Conexiones /\ "CPU" \in Conexiones /\ "KERNEL" # "CPU"
  BY LosNombres DEF MarcosInv, DialogoInv
<1>2. Procesos'
  <2>1. UNCHANGED <<porEnviar, cpu, vuelve, queueReadys, deInterfaz>>
    BY DEF MemoriaAtiende, FueraDeLaMemoria, planVars, interfazVars
  <2> QED
    BY <1>1, <2>1, ProcesosQuietos
<1>3. Atiende(c) /\ OtrosPedidos(c) /\ OtrasRespuestas(c)
  BY <1>1, PasosDeMemoria DEF AtiendeSolo
<1>4. ASSUME NEW d \in Conexiones
      PROVE  Elementos(aMemoria'[d]) \subseteq Elementos(aMemoria[d])
  <2>1. CASE d # c
    BY <1>3, <2>1 DEF OtrosPedidos
  <2>2. CASE d = c
    <3>1. EsSeq(aMemoria[c])
      BY <1>1 DEF Forma
    <3>2. \/ aMemoria'[c] = aMemoria[c]
          \/ aMemoria[c] # <<>> /\ aMemoria'[c] = Tail(aMemoria[c])
      BY <1>3 DEF Atiende
    <3> QED
      BY <2>2, <3>1, <3>2, ElementosAlSacar
  <2> QED
    BY <2>1, <2>2
<1> DEFINE Bien(m) == m.tipo = "INSTRUCCION" => m.dato.n \in Nat
<1>5. \A m \in Elementos(deMemoria["CPU"]) : Bien(m)
  BY <1>1 DEF Mensajes
<1>6. CASE c = "KERNEL" /\ CargarPrograma(c)
  <2>1. /\ aMemoria[c] # <<>> /\ instructions' = Head(aMemoria[c]).pid
        /\ pseudocodigo' = pseudocodigo /\ SinCambiarPaginas
    BY <1>6 DEF CargarPrograma, Pide
  <2>2. EsSeq(aMemoria[c])
    BY <1>1 DEF Forma
  <2>3. Head(aMemoria[c]) \in Elementos(aMemoria[c])
    BY <2>1, <2>2, ElementosAlSacar
  <2>4. instructions' \in Pids
    BY <1>1, <1>6, <2>1, <2>3 DEF Mensajes
  <2>5. deMemoria'["CPU"] = deMemoria["CPU"]
    BY <1>1, <1>3, <1>6 DEF OtrasRespuestas
  <2>6. Mensajes'
    BY <1>1, <1>4, <2>1, <2>4, <2>5 DEF Mensajes
  <2>7. UNCHANGED paginacionVars
    BY <2>1 DEF SinCambiarPaginas, paginacionVars
  <2> QED
    BY <1>1, <1>2, <2>6, <2>7, MemoriaQuieta
<1>7. CASE c = "CPU" /\ MemoriaALaCpu
  <2>1. /\ pseudocodigo' = pseudocodigo /\ IInv'
        /\ \A m \in Elementos(deMemoria'["CPU"]) \ Elementos(deMemoria["CPU"]) : Bien(m)
    BY <1>7, AlAtenderALaCpu
  <2>2. \A m \in Elementos(deMemoria'["CPU"]) : Bien(m)
    <3> HIDE DEF Bien
    <3> QED
      BY <1>5, <2>1
  <2>3. instructions' \in {instructions, NULL}
    BY <1>1, <1>7, ProgramaCargado
  <2>4. Mensajes'
    BY <1>1, <1>4, <2>1, <2>2, <2>3 DEF Mensajes
  <2> QED
    BY <1>2, <2>1, <2>4
<1>8. CASE c \in Interfaces /\ (MemoriaALaInterfaz(c) \/ MemoriaEscribeLoLeido(c))
  <2>1. pseudocodigo' = pseudocodigo /\ IInv'
    BY <1>8, AlAtenderALaInterfaz
  <2>2. deMemoria'["CPU"] = deMemoria["CPU"] /\ c # "KERNEL"
    BY <1>1, <1>3, <1>8, LosNombres DEF OtrasRespuestas
  <2>3. instructions' \in {instructions, NULL}
    BY <2>2, ProgramaCargado
  <2>4. Mensajes'
    BY <1>1, <1>4, <2>1, <2>2, <2>3 DEF Mensajes
  <2> QED
    BY <1>2, <2>1, <2>4
<1> QED
  BY <1>6, <1>7, <1>8 DEF MemoriaAtiende

LEMMA MarcosDeDespachar ==
    ASSUME MarcosInv, Despachar
    PROVE  Mensajes' /\ Procesos' /\ IInv'
<1>1. Mensajes /\ Procesos /\ IInv
  BY DEF MarcosInv
<1>2. /\ queueReadys # <<>> /\ queueReadys' = Tail(queueReadys)
      /\ porEnviar' = Head(queueReadys)
      /\ cpu' = [CpuLibre EXCEPT !.fase = "pedir", !.pid = Head(queueReadys)]
      /\ UNCHANGED <<vuelve, deInterfaz, pseudocodigo, instructions, aMemoria, deMemoria>>
      /\ UNCHANGED paginacionVars
  BY DEF Despachar, memoriaVars, interfazVars
<1>3. Head(queueReadys) \in Pids /\ Tail(queueReadys) \in Seq(Pids)
  BY <1>1, <1>2 DEF Procesos
<1>4. cpu'.pid = Head(queueReadys)
  BY <1>2 DEF CpuLibre
<1>5. Procesos'
  BY <1>1, <1>2, <1>3, <1>4 DEF Procesos
<1> QED
  BY <1>1, <1>2, <1>5, MensajesQuietos, MemoriaQuieta

LEMMA MarcosDeEnviarPrograma ==
    ASSUME MarcosInv, EnviarPrograma
    PROVE  Mensajes' /\ Procesos' /\ IInv'
<1> DEFINE q == aMemoria["KERNEL"]
<1> DEFINE m == processToMemory(porEnviar)
<1>1. /\ Forma /\ Mensajes /\ Procesos /\ IInv
      /\ "KERNEL" \in Conexiones /\ "CPU" \in Conexiones /\ "KERNEL" # "CPU"
  BY LosNombres DEF MarcosInv, DialogoInv
<1>2. /\ porEnviar # NULL /\ porEnviar' = NULL /\ Preguntar("KERNEL", m)
      /\ UNCHANGED <<cpu, vuelve, queueReadys, deInterfaz, pseudocodigo, instructions, deMemoria>>
      /\ UNCHANGED paginacionVars
  BY DEF EnviarPrograma, memoriaInterna, interfazVars
<1>3. m.pid \in Pids
  BY <1>1, <1>2 DEF Procesos, processToMemory, PedirSinDireccion, Pedir
<1> HIDE DEF m
<1>4. /\ aMemoria'["KERNEL"] = Append(q, m) /\ aMemoria'["CPU"] = aMemoria["CPU"]
      /\ EsSeq(q)
  BY <1>1, <1>2, AlPreguntar DEF Forma, OtrosPedidos
<1>5. Elementos(aMemoria'["KERNEL"]) \subseteq Elementos(q) \cup {m}
  BY <1>4, ElementosAlAgregar
<1>6. Mensajes'
  BY <1>1, <1>2, <1>3, <1>4, <1>5 DEF Mensajes
<1>7. Procesos'
  BY <1>1, <1>2 DEF Procesos
<1> QED
  BY <1>1, <1>2, <1>6, <1>7, MemoriaQuieta

LEMMA MarcosDeRecibirPcb ==
    ASSUME MarcosInv, RecibirPcb
    PROVE  Mensajes' /\ Procesos' /\ IInv'
<1>1. Mensajes /\ Procesos /\ IInv
  BY DEF MarcosInv
<1>2. /\ vuelve # NULL /\ vuelve' = NULL
      /\ queueReadys' = queueReadys \/ queueReadys' = Append(queueReadys, vuelve.pid)
      /\ UNCHANGED <<cpu, porEnviar, deInterfaz, pseudocodigo, instructions, aMemoria, deMemoria>>
      /\ UNCHANGED paginacionVars
  BY DEF RecibirPcb, memoriaVars, interfazVars
<1>3. vuelve.pid \in Pids
  BY <1>1, <1>2 DEF Procesos
<1>4. queueReadys' \in Seq(Pids)
  BY <1>1, <1>2, <1>3 DEF Procesos
<1>5. Procesos'
  BY <1>1, <1>2, <1>4 DEF Procesos
<1> QED
  BY <1>1, <1>2, <1>5, MensajesQuietos, MemoriaQuieta

LEMMA MarcosDeTerminarIo ==
    ASSUME MarcosInv, NEW i \in Interfaces, TerminarIo(i)
    PROVE  Mensajes' /\ Procesos' /\ IInv'
<1> DEFINE s == deInterfaz[i]
<1> DEFINE e == Tail(s)
<1>1. Mensajes /\ Procesos /\ IInv
  BY DEF MarcosInv
<1>2. /\ s # <<>> /\ deInterfaz' = [deInterfaz EXCEPT ![i] = e]
      /\ queueReadys' = queueReadys \/ queueReadys' = Append(queueReadys, Head(s).pid)
      /\ UNCHANGED <<cpu, porEnviar, vuelve, pseudocodigo, instructions, aMemoria, deMemoria>>
      /\ UNCHANGED paginacionVars
  BY DEF TerminarIo, memoriaVars
<1>3. /\ deInterfaz = [j \in Interfaces |-> deInterfaz[j]]
      /\ EsSeq(s) /\ \A m \in Elementos(s) : m.pid \in Pids
  BY <1>1 DEF Procesos
<1>4. EsSeq(e) /\ Elementos(e) \subseteq Elementos(s) /\ Head(s) \in Elementos(s)
  BY <1>2, <1>3, ElementosAlSacar, AlSacar
<1>5. queueReadys' \in Seq(Pids)
  BY <1>1, <1>2, <1>3, <1>4 DEF Procesos
<1> HIDE DEF e
<1>6. /\ deInterfaz' = [j \in Interfaces |-> deInterfaz'[j]]
      /\ deInterfaz'[i] = e
      /\ \A j \in Interfaces : j # i => deInterfaz'[j] = deInterfaz[j]
  BY <1>2, <1>3, AlCambiar
<1>7. ASSUME NEW j \in Interfaces
      PROVE  EsSeq(deInterfaz'[j]) /\ \A m \in Elementos(deInterfaz'[j]) : m.pid \in Pids
  BY <1>1, <1>3, <1>4, <1>6 DEF Procesos
<1>8. Procesos'
  BY <1>1, <1>2, <1>5, <1>6, <1>7 DEF Procesos
<1> QED
  BY <1>1, <1>2, <1>8, MensajesQuietos, MemoriaQuieta

LEMMA MarcosDeLosDemas ==
    ASSUME MarcosInv, UNCHANGED memoriaVars,
           UNCHANGED <<porEnviar, cpu, vuelve, queueReadys, deInterfaz>>
    PROVE  Mensajes' /\ Procesos' /\ IInv'
<1>1. Mensajes /\ Procesos /\ IInv
  BY DEF MarcosInv
<1>2. UNCHANGED <<pseudocodigo, instructions, aMemoria, deMemoria>> /\ UNCHANGED paginacionVars
  BY DEF memoriaVars
<1> QED
  BY <1>1, <1>2, MensajesQuietos, ProcesosQuietos, MemoriaQuieta

LEMMA MarcosAlEmpezar ==
    ASSUME EjecucionInit
    PROVE  MarcosInv
<1>1. DialogoInv
  BY DialogoAlEmpezar
<1>2. IInv
  BY InitIInv DEF EjecucionInit, MemoriaInit, EspacioInit
<1>3. Mensajes
  <2>1. /\ pseudocodigo \in Pseudocodigos /\ instructions = NULL
        /\ aMemoria = [c \in Conexiones |-> <<>>] /\ deMemoria = [c \in Conexiones |-> <<>>]
    BY DEF EjecucionInit, MemoriaInit
  <2>2. aMemoria["KERNEL"] = <<>> /\ aMemoria["CPU"] = <<>> /\ deMemoria["CPU"] = <<>>
    BY <2>1, LosNombres
  <2> QED
    BY <2>1, <2>2, SinElementos DEF Mensajes
<1>4. Procesos
  <2>1. /\ porEnviar = NULL /\ vuelve = NULL /\ cpu.fase = "libre"
        /\ queueReadys \in [1 .. Cardinality(Pids) -> Pids]
        /\ deInterfaz = [i \in Interfaces |-> <<>>]
    BY DEF EjecucionInit, CpuLibre
  <2>2. queueReadys \in Seq(Pids)
    <3>1. Cardinality(Pids) \in Nat
      BY ConstantesDeEjecucion, FS_CardinalityType
    <3> QED
      BY <2>1, <3>1
  <2>3. \A i \in Interfaces : deInterfaz[i] = <<>>
    BY <2>1
  <2> QED
    BY <2>1, <2>2, <2>3, SinElementos, VaciaEsSeq DEF Procesos
<1> QED
  BY <1>1, <1>2, <1>3, <1>4 DEF MarcosInv

LEMMA MarcosAlSeguir ==
    ASSUME MarcosInv, [EjecucionNext]_ejecucionVars
    PROVE  MarcosInv'
<1>1. DialogoInv'
  BY DialogoAlSeguir DEF MarcosInv
<1>2. CASE Cpu
  BY <1>1, <1>2, MarcosDeCpu DEF MarcosInv
<1>3. CASE Despachar
  BY <1>1, <1>3, MarcosDeDespachar DEF MarcosInv
<1>4. CASE EnviarPrograma
  BY <1>1, <1>4, MarcosDeEnviarPrograma DEF MarcosInv
<1>5. CASE RecibirPcb
  BY <1>1, <1>5, MarcosDeRecibirPcb DEF MarcosInv
<1>6. CASE IoFunction
  <2>1. Mensajes' /\ Procesos' /\ IInv'
    BY <1>6, MarcosDeLosDemas DEF IoFunction
  <2> QED
    BY <1>1, <2>1 DEF MarcosInv
<1>7. CASE \E i \in Interfaces : TerminarIo(i)
  BY <1>1, <1>7, MarcosDeTerminarIo DEF MarcosInv
<1>8. CASE \E i \in Interfaces : Interfaz(i)
  BY <1>1, <1>8, MarcosDeInterfaz DEF MarcosInv
<1>9. CASE \E c \in Conexiones : MemoriaAtiende(c)
  BY <1>1, <1>9, MarcosDeMemoria DEF MarcosInv
<1>10. CASE UNCHANGED ejecucionVars
  <2>1. UNCHANGED memoriaVars /\ UNCHANGED <<porEnviar, cpu, vuelve, queueReadys, deInterfaz>>
    BY <1>10 DEF ejecucionVars, planVars, interfazVars
  <2>2. Mensajes' /\ Procesos' /\ IInv'
    BY <2>1, MarcosDeLosDemas
  <2> QED
    BY <1>1, <2>2 DEF MarcosInv
<1> QED
  BY <1>2, <1>3, <1>4, <1>5, <1>6, <1>7, <1>8, <1>9, <1>10 DEF EjecucionNext, Paso

\* With any programs, any interleaving of the CPU with the interfaces and the memory
\* fallen or not, a frame belongs to one page of one process, as the bitmap says: the
\* RESIZE that the CPU asks for are those that Paginacion proves it of.
THEOREM LosMarcosSiguenSiendoExclusivos == EjecucionSpec => []MarcosExclusivos
<1>1. EjecucionInit => MarcosInv
  BY MarcosAlEmpezar
<1>2. MarcosInv /\ [EjecucionNext]_ejecucionVars => MarcosInv'
  BY MarcosAlSeguir
<1>3. MarcosInv => MarcosExclusivos
  BY DEF MarcosInv, IInv
<1> QED
  BY <1>1, <1>2, <1>3, PTL DEF EjecucionSpec

===============================================================================
