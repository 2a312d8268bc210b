-------------------------- MODULE EchoServerProofs --------------------------
(***************************************************************************)
(* Proofs about EchoServer and EchoParser, for every pool, window, send    *)
(* buffer and size of segments.                                            *)
(***************************************************************************)
EXTENDS EchoParser, SequenceTheorems, TLAPS

Pbuf == [byte : Bytes, ref : Nat]
Alive(c) == \A i \in 1..Len(c) : c[i].ref >= 1

(* There is no pbuf before the first segment, and none without an es.      *)
IInv ==
  /\ TypeOK
  /\ state \in {"none", "ES_ACCEPTED"} => p = <<>>
  /\ WindowMatches
  /\ ChainAlive

-----------------------------------------------------------------------------
(* What the operations on the reference counts return.                     *)

LEMMA RefSet ==
  ASSUME NEW b \in Pbuf, NEW n \in Nat
  PROVE  [b EXCEPT !.ref = n] \in Pbuf /\ [b EXCEPT !.ref = n].ref = n
BY DEF Pbuf

LEMMA AddRefType ==
  ASSUME NEW c \in Seq(Pbuf), Alive(c)
  PROVE  /\ AddRef(c) \in Seq(Pbuf)
         /\ Len(AddRef(c)) = Len(c)
         /\ Alive(AddRef(c))
         /\ c # <<>> => AddRef(c)[1].ref >= 2
<1>1. CASE c = <<>>
  BY <1>1 DEF AddRef
<1>2. CASE c # <<>>
  <2> DEFINE b == [c[1] EXCEPT !.ref = @ + 1]
             d == [c EXCEPT ![1] = b]
  <2> HIDE DEF b, d
  <2>0. 1 \in 1..Len(c) /\ c[1] \in Pbuf /\ c[1].ref >= 1
    BY <1>2 DEF Alive
  <2>1. c[1].ref \in Nat /\ c[1].ref + 1 \in Nat
    BY <2>0 DEF Pbuf
  <2>2. b \in Pbuf /\ b.ref >= 2
    BY <2>0, <2>1, RefSet DEF b
  <2>3. /\ d \in Seq(Pbuf) /\ Len(d) = Len(c)
        /\ \A i \in 1..Len(c) : d[i] = IF i = 1 THEN b ELSE c[i]
    BY <2>0, <2>2 DEF d
  <2>4. AddRef(c) = d
    BY <1>2 DEF AddRef, b, d
  <2>5. Alive(d) /\ d[1].ref >= 2
    <3>1. ASSUME NEW i \in 1..Len(c) PROVE d[i].ref >= 1
      <4>1. CASE i = 1
        <5>1. d[i] = b
          BY <4>1, <2>3
        <5>2. QED
          BY <5>1, <2>2 DEF Pbuf
      <4>2. CASE i # 1
        <5>1. d[i] = c[i]
          BY <4>2, <2>3
        <5>2. QED
          BY <5>1 DEF Alive
      <4>3. QED
        BY <4>1, <4>2
    <3>2. d[1] = b
      BY <2>0, <2>3
    <3>3. QED
      BY <3>1, <3>2, <2>2, <2>3 DEF Alive
  <2>6. QED
    BY <2>3, <2>4, <2>5
<1>3. QED
  BY <1>1, <1>2

(* pbuf_free stops at the first pbuf that is referenced otherwise.         *)
LEMMA FreedFirst ==
  ASSUME NEW c \in Seq(Pbuf), NEW k \in 1..Len(c), c[k].ref # 1,
         \A j \in 1..k-1 : c[j].ref = 1
  PROVE  Freed(c) = k - 1
<1> DEFINE Stops(i) == c[i].ref # 1 /\ \A j \in 1..i-1 : c[j].ref = 1
<1>1. \A i \in 1..Len(c) : Stops(i) => i = k
  OBVIOUS
<1>2. (CHOOSE i \in 1..Len(c) : Stops(i)) = k
  BY <1>1
<1>3. QED
  BY <1>2 DEF Freed

(* Sending the head of a chain: the pbufs behind it stay, whether the      *)
(* head is freed or is referenced once too often and left over.            *)
LEMMA SendKeepsRest ==
  ASSUME NEW h \in Pbuf, NEW t \in Seq(Pbuf), h.ref >= 1, Alive(t)
  PROVE  LET c == Free(<<h>> \o AddRef(t))
         IN  /\ Tail(c) \in Seq(Pbuf)
             /\ Len(Tail(c)) = Len(t)
             /\ Alive(Tail(c))
<1> DEFINE c == <<h>> \o AddRef(t)
           d == Free(c)
<1>1. /\ AddRef(t) \in Seq(Pbuf)
      /\ Len(AddRef(t)) = Len(t)
      /\ Alive(AddRef(t))
      /\ t # <<>> => AddRef(t)[1].ref >= 2
  BY AddRefType
<1>2. /\ c \in Seq(Pbuf)
      /\ Len(c) = Len(t) + 1
      /\ c[1] = h
      /\ \A i \in 1..Len(t) : c[i + 1] = AddRef(t)[i]
  BY <1>1
<1> HIDE DEF c
<1>3. \A i \in 1..Len(c) : c[i] \in Pbuf /\ c[i].ref >= 1
  <2> TAKE i \in 1..Len(c)
  <2>1. CASE i = 1
    BY <2>1, <1>2
  <2>2. CASE i # 1
    <3>1. i - 1 \in 1..Len(t) /\ c[i] = AddRef(t)[i - 1]
      BY <2>2, <1>2
    <3>2. QED
      BY <3>1, <1>1 DEF Alive
  <2>3. QED
    BY <2>1, <2>2
<1>4. /\ Freed(c) \in Nat
      /\ Freed(c) >= 1 /\ t # <<>> => Freed(c) = 1 /\ c[2].ref >= 2
  <2>1. CASE h.ref # 1
    <3>1. 1 \in 1..Len(c) /\ c[1].ref # 1 /\ \A j \in 1..1-1 : c[j].ref = 1
      BY <2>1, <1>2
    <3>2. Freed(c) = 0
      BY <3>1, <1>2, FreedFirst
    <3>3. QED
      BY <3>2
  <2>2. CASE h.ref = 1 /\ t # <<>>
    <3>1. c[2].ref >= 2 /\ 2 \in 1..Len(c)
      BY <2>2, <1>1, <1>2
    <3>2. c[2].ref # 1 /\ \A j \in 1..2-1 : c[j].ref = 1
      BY <2>2, <3>1, <1>2, <1>3 DEF Pbuf
    <3>3. Freed(c) = 1
      BY <3>1, <3>2, <1>2, FreedFirst
    <3>4. QED
      BY <3>1, <3>3
  <2>3. CASE h.ref = 1 /\ t = <<>>
    BY <2>3, <1>2 DEF Freed
  <2>4. QED
    BY <2>1, <2>2, <2>3 DEF Pbuf
<1>5. \A i \in 2..Len(c) : i <= Freed(c) + 1 => c[i].ref >= 2
  BY <1>2, <1>4
<1>6. d = [i \in 1..Len(c) |->
             IF i <= Freed(c) + 1 THEN [c[i] EXCEPT !.ref = @ - 1] ELSE c[i]]
  BY DEF Free
<1> HIDE DEF d
<1>7. \A i \in 1..Len(c) :
        /\ d[i] \in Pbuf
        /\ i >= 2 => d[i].ref >= 1
  <2> TAKE i \in 1..Len(c)
  <2>1. c[i] \in Pbuf /\ c[i].ref >= 1 /\ c[i].ref - 1 \in Nat
    BY <1>3 DEF Pbuf
  <2>2. CASE i <= Freed(c) + 1
    <3>1. d[i] = [c[i] EXCEPT !.ref = c[i].ref - 1]
      BY <2>2, <1>6
    <3>2. d[i] \in Pbuf /\ d[i].ref = c[i].ref - 1
      BY <3>1, <2>1, RefSet
    <3>3. i >= 2 => c[i].ref >= 2
      BY <2>2, <1>5
    <3>4. QED
      BY <3>2, <3>3, <2>1 DEF Pbuf
  <2>3. CASE ~(i <= Freed(c) + 1)
    BY <2>1, <2>3, <1>6
  <2>4. QED
    BY <2>2, <2>3
<1>8. d \in Seq(Pbuf) /\ Len(d) = Len(c)
  BY <1>2, <1>6, <1>7
<1>9. /\ Tail(d) \in Seq(Pbuf)
      /\ Len(Tail(d)) = Len(t)
      /\ \A i \in 1..Len(t) : Tail(d)[i] = d[i + 1]
  BY <1>2, <1>8
<1>10. Alive(Tail(d))
  BY <1>2, <1>7, <1>8, <1>9 DEF Alive
<1>11. QED
  BY <1>9, <1>10 DEF c, d

-----------------------------------------------------------------------------
(* The inductive invariant.                                                *)

LEMMA InitIInv == Init => IInv
<1> SUFFICES ASSUME Init PROVE IInv
  OBVIOUS
<1>1. Len(p) = 0 /\ p \in Seq([byte : Bytes, ref : Nat]) /\ unacked \in Seq(Bytes)
  BY DEF Init
<1>2. sending \in BOOLEAN /\ spoiled \in BOOLEAN
  BY DEF Init
<1>3. /\ rcv_wnd \in 0..Window /\ leaked \in 0..Pool
      /\ Len(p) + leaked <= Pool
  BY <1>1, PoolAssumption DEF Init, PoolAssumption
<1>4. TypeOK
  BY <1>1, <1>2, <1>3 DEF Init, TypeOK, Pcbs, EsStates
<1>5. QED
  BY <1>1, <1>3, <1>4 DEF Init, IInv, WindowMatches, ChainAlive

(* A segment, and pbuf_chain of one.                                       *)
LEMMA FreshAlive ==
  ASSUME NEW n \in 1..Burst, NEW s \in [1..n -> Bytes]
  PROVE  /\ s \in Seq(Bytes) /\ Len(s) = n
         /\ Fresh(s) \in Seq(Pbuf) /\ Len(Fresh(s)) = n
         /\ Alive(Fresh(s))
<1>1. s \in Seq(Bytes) /\ Len(s) = n
  BY PoolAssumption DEF PoolAssumption
<1>2. Fresh(s) \in [1..n -> Pbuf]
  BY <1>1 DEF Fresh, Pbuf
<1>3. Fresh(s) \in Seq(Pbuf) /\ Len(Fresh(s)) = n
  BY <1>1, <1>2 DEF Fresh
<1>4. Alive(Fresh(s))
  BY <1>1, <1>3 DEF Fresh, Alive
<1>5. QED
  BY <1>1, <1>3, <1>4

LEMMA ChainedAlive ==
  ASSUME NEW c \in Seq(Pbuf), NEW q \in Seq(Pbuf), Alive(c), Alive(q)
  PROVE  /\ c \o AddRef(q) \in Seq(Pbuf)
         /\ Len(c \o AddRef(q)) = Len(c) + Len(q)
         /\ Alive(c \o AddRef(q))
<1> DEFINE r == AddRef(q)
           e == c \o r
<1>1. r \in Seq(Pbuf) /\ Len(r) = Len(q) /\ Alive(r)
  BY AddRefType
<1> HIDE DEF r
<1>2. /\ e \in Seq(Pbuf)
      /\ Len(e) = Len(c) + Len(q)
      /\ \A i \in 1..Len(e) : e[i] = IF i <= Len(c) THEN c[i] ELSE r[i - Len(c)]
  BY <1>1
<1> HIDE DEF e
<1>3. ASSUME NEW i \in 1..Len(e) PROVE e[i].ref >= 1
  <2>1. CASE i <= Len(c)
    BY <2>1, <1>2 DEF Alive
  <2>2. CASE ~(i <= Len(c))
    <3>1. i - Len(c) \in 1..Len(r) /\ e[i] = r[i - Len(c)]
      BY <2>2, <1>1, <1>2
    <3>2. QED
      BY <3>1, <1>1 DEF Alive
  <2>3. QED
    BY <2>1, <2>2
<1>4. QED
  BY <1>2, <1>3 DEF Alive, e, r

LEMMA StepIInv == IInv /\ [Next]_vars => IInv'
<1> SUFFICES ASSUME IInv, [Next]_vars PROVE IInv'
  OBVIOUS
<1> USE PoolAssumption DEF PoolAssumption, EsStates, Pcbs
<1>0. /\ p \in Seq(Pbuf)
      /\ Alive(p)
      /\ Len(p) \in Nat
      /\ leaked \in Nat
      /\ rcv_wnd \in Nat
      /\ state # "none" => rcv_wnd = Window - Len(p)
  <2>1. p \in Seq(Pbuf) /\ Alive(p)
    BY DEF IInv, TypeOK, ChainAlive, Alive, Pbuf
  <2>2. Len(p) \in Nat
    BY <2>1
  <2>3. leaked \in Nat /\ rcv_wnd \in Nat
    BY DEF IInv, TypeOK
  <2>4. state # "none" => rcv_wnd = Window - Len(p)
    BY <2>2, <2>3 DEF IInv, WindowMatches
  <2>5. QED
    BY <2>1, <2>2, <2>3, <2>4
<1>1. CASE Accept
  BY <1>1 DEF Accept, IInv, TypeOK, WindowMatches, ChainAlive
<1>2. ASSUME NEW n \in 1..Burst, NEW s \in [1..n -> Bytes], Recv(s)
      PROVE  IInv'
  <2>1. /\ Len(s) = n
        /\ Fresh(s) \in Seq(Pbuf) /\ Len(Fresh(s)) = n
        /\ Alive(Fresh(s))
    BY FreshAlive
  <2>2. /\ p' \in Seq(Pbuf)
        /\ Len(p') = Len(p) + n
        /\ Alive(p')
    <3>1. CASE p = <<>>
      <4>1. p' = Fresh(s)
        BY <1>2, <3>1 DEF Recv
      <4>2. QED
        BY <4>1, <2>1, <3>1
    <3>2. CASE p # <<>>
      <4>1. p' = p \o AddRef(Fresh(s))
        BY <1>2, <3>2 DEF Recv, Chained, IInv
      <4>2. QED
        BY <4>1, <1>0, <2>1, ChainedAlive
    <3>3. QED
      BY <3>1, <3>2
  <2>3. /\ pcb' = pcb /\ pcb = "open"
        /\ state' = "ES_RECEIVED"
        /\ sending' \in BOOLEAN /\ spoiled' \in BOOLEAN
        /\ unacked' = unacked /\ leaked' = leaked
        /\ rcv_wnd' = rcv_wnd - n
        /\ n <= rcv_wnd /\ Len(p) + leaked + n <= Pool
        /\ state # "none"
    BY <1>2, <2>1 DEF Recv, IInv, TypeOK
  <2>4. TypeOK'
    BY <1>0, <2>2, <2>3 DEF IInv, TypeOK, Pbuf
  <2>5. WindowMatches'
    BY <1>0, <2>2, <2>3 DEF WindowMatches
  <2>6. ChainAlive'
    BY <2>2 DEF ChainAlive, Alive
  <2>7. QED
    BY <2>3, <2>4, <2>5, <2>6 DEF IInv
<1>3. CASE RecvFin
  BY <1>0, <1>3
  DEF RecvFin, ConnectionClose, IInv, TypeOK, WindowMatches, ChainAlive
<1>4. CASE SendNext
  <2> DEFINE c == Free(<<Head(p)>> \o AddRef(Tail(p)))
  <2>1. /\ p # <<>> /\ Head(p) \in Pbuf /\ Head(p).byte \in Bytes
        /\ Head(p).ref >= 1
        /\ Tail(p) \in Seq(Pbuf) /\ Len(Tail(p)) = Len(p) - 1
    <3>1. p # <<>>
      BY <1>4 DEF SendNext, Loops
    <3>2. Head(p) = p[1] /\ 1 \in 1..Len(p)
      BY <1>0, <3>1
    <3>3. Head(p) \in Pbuf /\ Head(p).ref >= 1
      BY <1>0, <3>2 DEF Alive
    <3>4. QED
      BY <1>0, <3>1, <3>3 DEF Pbuf
  <2>2. Alive(Tail(p))
    BY <1>0, <2>1 DEF Alive
  <2>3. /\ Tail(c) \in Seq(Pbuf)
        /\ Len(Tail(c)) = Len(p) - 1
        /\ Alive(Tail(c))
    BY <2>1, <2>2, SendKeepsRest
  <2> HIDE DEF c
  <2>4. /\ p' = Tail(c)
        /\ leaked' \in {leaked, leaked + 1}
        /\ rcv_wnd' = rcv_wnd + 1
        /\ unacked' = Append(unacked, Head(p).byte)
        /\ UNCHANGED <<pcb, state, sending, spoiled>>
    BY <1>4 DEF SendNext, Recved, c
  <2>5. state # "none"
    BY <2>1 DEF IInv
  <2>6. Len(p) >= 1 /\ Len(p') = Len(p) - 1 /\ p' \in Seq(Pbuf) /\ Alive(p')
    BY <1>0, <2>1, <2>3, <2>4
  <2>7. unacked' \in Seq(Bytes)
    BY <2>1, <2>4 DEF IInv, TypeOK
  <2>8. state \notin {"none", "ES_ACCEPTED"}
    BY <2>1 DEF IInv
  <2>9. TypeOK'
    BY <1>0, <2>4, <2>5, <2>6, <2>7 DEF IInv, TypeOK, Pbuf
  <2>10. WindowMatches'
    BY <1>0, <2>4, <2>5, <2>6 DEF WindowMatches
  <2>11. ChainAlive'
    BY <2>6 DEF ChainAlive, Alive
  <2>12. QED
    BY <2>4, <2>8, <2>9, <2>10, <2>11 DEF IInv
<1>5. CASE SendFails \/ SendEnds
  BY <1>5 DEF SendFails, SendEnds, IInv, TypeOK, WindowMatches, ChainAlive
<1>6. ASSUME NEW n \in 1..SndBuf, Sent(n) PROVE IInv'
  <2>1. unacked' \in Seq(Bytes)
    BY <1>6 DEF Sent, IInv, TypeOK
  <2>2. QED
    BY <1>6, <2>1
    DEF Sent, Resume, ConnectionClose, IInv, TypeOK, WindowMatches, ChainAlive
<1>7. CASE Poll
  BY <1>7
  DEF Poll, Resume, ConnectionClose, IInv, TypeOK, WindowMatches, ChainAlive
<1>8. CASE Error
  BY <1>0, <1>8 DEF Error, IInv, TypeOK, WindowMatches, ChainAlive
<1>9. CASE UNCHANGED vars
  BY <1>9 DEF vars, IInv, TypeOK, WindowMatches, ChainAlive
<1>10. QED
  BY <1>1, <1>2, <1>3, <1>4, <1>5, <1>6, <1>7, <1>8, <1>9 DEF Next, Segments

LEMMA IInvHolds == Spec => []IInv
BY InitIInv, StepIInv, PTL DEF Spec

-----------------------------------------------------------------------------
(* The variables keep their types, the chain and the leaked pbufs never    *)
(* exceed the pool, and an es exists exactly while lwIP can call back.     *)
THEOREM TypeCorrect == Spec => []TypeOK
<1>1. IInv => TypeOK
  BY DEF IInv
<1>2. QED
  BY <1>1, IInvHolds, PTL

(* No pbuf that es->p reaches has been given back to the pool.             *)
THEOREM ChainIsAlive == Spec => []ChainAlive
<1>1. IInv => ChainAlive
  BY DEF IInv
<1>2. QED
  BY <1>1, IInvHolds, PTL

(* The window lacks exactly what is queued.                                *)
THEOREM WindowIsKept == Spec => []WindowMatches
<1>1. IInv => WindowMatches
  BY DEF IInv
<1>2. QED
  BY <1>1, IInvHolds, PTL

-----------------------------------------------------------------------------
(* Why nothing is lost from a chain that is one segment: every count is 1  *)
(* between two callbacks, so that freeing the head takes its count to 0.   *)

Single(c) == \A i \in 1..Len(c) : c[i].ref = 1

LEMMA SendFreesHead ==
  ASSUME NEW h \in Pbuf, NEW t \in Seq(Pbuf), h.ref = 1, Single(t)
  PROVE  LET c == Free(<<h>> \o AddRef(t))
         IN  Head(c).ref = 0 /\ Single(Tail(c))
<1> DEFINE c == <<h>> \o AddRef(t)
           d == Free(c)
<1>1. CASE t = <<>>
  <2>1. c = <<h>> /\ Len(c) = 1 /\ c[1] = h
    BY <1>1 DEF AddRef
  <2> HIDE DEF c
  <2>2. Freed(c) = 1
    BY <2>1 DEF Freed
  <2>3. Len(d) = 1 /\ d \in Seq(Pbuf) /\ d[1] = [h EXCEPT !.ref = h.ref - 1]
    <3>0. h.ref - 1 = 0
      OBVIOUS
    <3>1. [h EXCEPT !.ref = h.ref - 1] \in Pbuf
      BY <3>0, RefSet
    <3>2. d = [i \in 1..1 |-> [h EXCEPT !.ref = h.ref - 1]]
      BY <2>1, <2>2 DEF Free
    <3>3. QED
      BY <3>1, <3>2
  <2>4. d[1].ref = 0
    BY <2>3, RefSet
  <2> HIDE DEF d
  <2>5. Head(d) = d[1] /\ Len(Tail(d)) = 0
    BY <2>3
  <2>6. Head(d).ref = 0 /\ Single(Tail(d))
    BY <2>4, <2>5 DEF Single
  <2>7. QED
    BY <2>6 DEF c, d
<1>2. CASE t # <<>>
  <2> DEFINE r == AddRef(t)
  <2>1. /\ r \in Seq(Pbuf) /\ Len(r) = Len(t) /\ 1 \in 1..Len(r)
        /\ r[1].ref = 2
        /\ \A i \in 2..Len(r) : r[i] = t[i]
    <3>1. Alive(t)
      BY DEF Alive, Single
    <3>2. 1 \in 1..Len(t) /\ t[1] \in Pbuf /\ t[1].ref = 1
      BY <1>2 DEF Single
    <3>3. [t[1] EXCEPT !.ref = t[1].ref + 1].ref = 2
      BY <3>2, RefSet
    <3>4. r = [t EXCEPT ![1] = [t[1] EXCEPT !.ref = t[1].ref + 1]]
      BY <1>2 DEF AddRef
    <3>5. r \in Seq(Pbuf) /\ Len(r) = Len(t)
      BY <3>1, AddRefType
    <3> HIDE DEF r
    <3>6. QED
      BY <3>2, <3>3, <3>4, <3>5
  <2> HIDE DEF r
  <2>2. /\ c \in Seq(Pbuf) /\ Len(c) = Len(t) + 1
        /\ c[1] = h /\ \A i \in 1..Len(t) : c[i + 1] = r[i]
    <3>1. c = <<h>> \o r
      BY DEF r
    <3> HIDE DEF c
    <3>2. QED
      BY <3>1, <2>1
  <2> HIDE DEF c
  <2>3. 2 \in 1..Len(c) /\ c[2].ref = 2 /\ c[2] \in Pbuf
    BY <2>1, <2>2
  <2>4. Freed(c) = 1
    <3>1. c[2].ref # 1 /\ \A j \in 1..2-1 : c[j].ref = 1
      BY <2>2, <2>3
    <3>2. QED
      BY <2>2, <2>3, <3>1, FreedFirst
  <2>5. \A i \in 3..Len(c) : c[i].ref = 1
    <3> TAKE i \in 3..Len(c)
    <3>1. PICK k \in 2..Len(t) : i = k + 1
      <4>1. i - 1 \in 2..Len(t) /\ i = (i - 1) + 1
        BY <2>2
      <4>2. QED
        BY <4>1
    <3>2. c[i] = r[k] /\ r[k] = t[k] /\ k \in 1..Len(t)
      BY <2>1, <2>2, <3>1
    <3>3. QED
      BY <3>2 DEF Single
  <2>6. d = [i \in 1..Len(c) |->
               IF i <= 2 THEN [c[i] EXCEPT !.ref = @ - 1] ELSE c[i]]
    BY <2>4 DEF Free
  <2> HIDE DEF d
  <2>7. d[1].ref = 0 /\ d[2].ref = 1
    <3>1. d[1] = [h EXCEPT !.ref = h.ref - 1]
      BY <2>2, <2>3, <2>6
    <3>2. d[2] = [c[2] EXCEPT !.ref = c[2].ref - 1]
      BY <2>2, <2>3, <2>6
    <3>3. QED
      BY <3>1, <3>2, <2>3, RefSet
  <2>8. \A i \in 3..Len(c) : d[i].ref = 1
    BY <2>2, <2>5, <2>6
  <2>9. d \in Seq(Pbuf) /\ Len(d) = Len(c)
    <3>1. ASSUME NEW i \in 1..Len(c) PROVE d[i] \in Pbuf
      <4>1. c[i] \in Pbuf
        BY <2>2
      <4>2. CASE i > 2
        BY <4>1, <4>2, <2>6
      <4>3. CASE i <= 2
        <5>1. d[i] = [c[i] EXCEPT !.ref = c[i].ref - 1]
          BY <4>3, <2>6
        <5>2. c[i].ref - 1 \in Nat
          BY <4>3, <2>2, <2>3
        <5>3. QED
          BY <5>1, <5>2, <4>1, RefSet
      <4>4. QED
        BY <4>2, <4>3
    <3>2. QED
      BY <3>1, <2>2, <2>6
  <2>10. /\ Head(d) = d[1] /\ Len(Tail(d)) = Len(t)
         /\ \A i \in 1..Len(t) : Tail(d)[i] = d[i + 1]
    BY <2>2, <2>9
  <2>11. ASSUME NEW i \in 1..Len(t) PROVE d[i + 1].ref = 1
    BY <2>2, <2>7, <2>8
  <2>12. Single(Tail(d))
    BY <2>10, <2>11 DEF Single
  <2>13. QED
    BY <2>7, <2>10, <2>12 DEF c, d
<1>3. QED
  BY <1>1, <1>2

LEMMA FreshSingle ==
  ASSUME NEW n \in 1..Burst, NEW s \in [1..n -> Bytes]
  PROVE  Single(Fresh(s))
BY FreshAlive DEF Fresh, Single

PInv == ~spoiled => leaked = 0 /\ Single(p)

LEMMA StepPInv == IInv /\ PInv /\ [Next]_vars => PInv'
<1> SUFFICES ASSUME IInv, PInv, [Next]_vars, ~spoiled'
             PROVE  leaked' = 0 /\ Single(p')
  BY DEF PInv
<1>1. ASSUME NEW n \in 1..Burst, NEW s \in [1..n -> Bytes], Recv(s)
      PROVE  leaked' = 0 /\ Single(p')
  <2>1. p' = Fresh(s) /\ leaked' = leaked /\ ~spoiled
    BY <1>1 DEF Recv
  <2>2. QED
    BY <2>1, FreshSingle DEF PInv
<1>2. CASE SendNext
  <2>1. ~spoiled /\ p # <<>>
    BY <1>2 DEF SendNext, Loops
  <2>2. /\ Head(p) \in Pbuf /\ Head(p).ref = 1
        /\ Tail(p) \in Seq(Pbuf) /\ Single(Tail(p))
    <3>1. p \in Seq(Pbuf) /\ Single(p)
      BY <2>1 DEF IInv, TypeOK, PInv, Pbuf
    <3>2. /\ Head(p) = p[1] /\ 1 \in 1..Len(p) /\ p[1] \in Pbuf
          /\ Tail(p) \in Seq(Pbuf) /\ Len(Tail(p)) = Len(p) - 1
          /\ \A i \in 1..Len(p) - 1 : Tail(p)[i] = p[i + 1]
      BY <2>1, <3>1
    <3>3. Head(p).ref = 1
      BY <3>1, <3>2 DEF Single
    <3>4. ASSUME NEW i \in 1..Len(Tail(p)) PROVE Tail(p)[i].ref = 1
      <4>1. i + 1 \in 1..Len(p) /\ Tail(p)[i] = p[i + 1]
        BY <3>1, <3>2
      <4>2. QED
        BY <4>1, <3>1 DEF Single
    <3>5. QED
      BY <3>2, <3>3, <3>4 DEF Single
  <2> DEFINE c == Free(<<Head(p)>> \o AddRef(Tail(p)))
  <2>3. Head(c).ref = 0 /\ Single(Tail(c))
    BY <2>2, SendFreesHead
  <2> HIDE DEF c
  <2>4. p' = Tail(c) /\ leaked' = IF Head(c).ref = 0 THEN leaked ELSE leaked + 1
    BY <1>2 DEF SendNext, c
  <2>5. QED
    BY <2>1, <2>3, <2>4 DEF PInv
<1>3. CASE Error
  <2>1. ~spoiled /\ p = <<>> /\ p' = <<>>
    BY <1>3 DEF Error
  <2>2. leaked' = leaked
    BY <1>3, <2>1 DEF Error, IInv, TypeOK
  <2>3. QED
    BY <2>1, <2>2 DEF PInv, Single
<1>4. CASE UNCHANGED <<p, leaked, spoiled>>
  BY <1>4 DEF PInv, Single
<1>5. QED
  BY <1>1, <1>2, <1>3, <1>4
  DEF Next, Segments, Accept, RecvFin, SendFails, SendEnds, Sent, Poll, vars

(* Unless a segment was chained behind another one or a connection was     *)
(* reset with data queued, no pbuf is lost.                                *)
THEOREM PoolIsIntact == Spec => []PoolIntact
<1>1. Init => PInv
  BY DEF Init, PInv, Single
<1>2. PInv => PoolIntact
  BY DEF PInv, PoolIntact
<1>3. QED
  BY <1>1, <1>2, StepPInv, IInvHolds, PTL DEF Spec

-----------------------------------------------------------------------------
(* Every step of the server is a step of Echo or none.  Counts do not      *)
(* touch the bytes.                                                        *)

LEMMA BytesSet ==
  ASSUME NEW b \in Pbuf, NEW n PROVE [b EXCEPT !.ref = n].byte = b.byte
BY DEF Pbuf

LEMMA PayloadType ==
  ASSUME NEW c \in Seq(Pbuf)
  PROVE  /\ Payload(c) \in Seq(Bytes)
         /\ Len(Payload(c)) = Len(c)
         /\ \A i \in 1..Len(c) : Payload(c)[i] = c[i].byte
<1>1. ASSUME NEW i \in 1..Len(c) PROVE c[i].byte \in Bytes
  <2>1. c[i] \in Pbuf
    OBVIOUS
  <2>2. QED
    BY <2>1 DEF Pbuf
<1>2. QED
  BY <1>1 DEF Payload

LEMMA AddRefBytes ==
  ASSUME NEW c \in Seq(Pbuf), NEW i \in 1..Len(c)
  PROVE  AddRef(c)[i].byte = c[i].byte
<1>1. c[i] \in Pbuf /\ c # <<>> /\ 1 \in 1..Len(c) /\ c[1] \in Pbuf
  OBVIOUS
<1>2. AddRef(c) = [c EXCEPT ![1] = [c[1] EXCEPT !.ref = c[1].ref + 1]]
  BY <1>1 DEF AddRef
<1>3. CASE i = 1
  <2>1. AddRef(c)[i] = [c[1] EXCEPT !.ref = c[1].ref + 1]
    BY <1>1, <1>2, <1>3
  <2>2. QED
    BY <2>1, <1>1, <1>3, BytesSet
<1>4. CASE i # 1
  BY <1>1, <1>2, <1>4
<1>5. QED
  BY <1>3, <1>4

LEMMA FreeBytes ==
  ASSUME NEW c \in Seq(Pbuf), NEW i \in 1..Len(c)
  PROVE  Free(c)[i].byte = c[i].byte
<1>1. c[i] \in Pbuf
  OBVIOUS
<1>2. Free(c)[i] \in {c[i], [c[i] EXCEPT !.ref = c[i].ref - 1]}
  BY DEF Free
<1>3. QED
  BY <1>1, <1>2, BytesSet

(* What is left after the head was sent is the payload behind it.          *)
LEMMA SendRepliesHead ==
  ASSUME NEW h \in Pbuf, NEW t \in Seq(Pbuf), h.ref >= 1, Alive(t)
  PROVE  Payload(Tail(Free(<<h>> \o AddRef(t)))) = Payload(t)
<1> DEFINE r == AddRef(t)
           c == <<h>> \o r
           d == Free(c)
<1>1. r \in Seq(Pbuf) /\ Len(r) = Len(t)
  BY AddRefType
<1>2. \A i \in 1..Len(t) : r[i].byte = t[i].byte
  BY AddRefBytes
<1>3. Tail(d) \in Seq(Pbuf) /\ Len(Tail(d)) = Len(t)
  BY SendKeepsRest
<1> HIDE DEF r
<1>4. /\ c \in Seq(Pbuf) /\ Len(c) = Len(t) + 1
      /\ \A i \in 1..Len(t) : c[i + 1] = r[i]
  BY <1>1
<1> HIDE DEF c
<1>5. d \in [1..Len(t) + 1 -> {d[j] : j \in 1..Len(t) + 1}]
  BY <1>4 DEF Free
<1>6. \A i \in 1..Len(t) + 1 : d[i].byte = c[i].byte
  BY <1>4, FreeBytes
<1> HIDE DEF d
<1>7. \A i \in 1..Len(t) : Tail(d)[i] = d[i + 1]
  <2>1. d \in Seq({d[j] : j \in 1..Len(t) + 1}) /\ Len(d) = Len(t) + 1
    BY <1>5
  <2>2. QED
    BY <2>1
<1>8. ASSUME NEW i \in 1..Len(t) PROVE Tail(d)[i].byte = t[i].byte
  <2>0. Len(t) \in Nat
    OBVIOUS
  <2>1. i + 1 \in 1..Len(t) + 1
    BY <2>0
  <2>2. Tail(d)[i].byte = c[i + 1].byte
    BY <2>1, <1>6, <1>7
  <2>3. c[i + 1] = r[i]
    BY <1>4
  <2>4. QED
    BY <2>2, <2>3, <1>2
<1>9. /\ Payload(Tail(d)) \in Seq(Bytes) /\ Len(Payload(Tail(d))) = Len(t)
      /\ \A i \in 1..Len(t) : Payload(Tail(d))[i] = Tail(d)[i].byte
  BY <1>3, PayloadType
<1>10. /\ Payload(t) \in Seq(Bytes) /\ Len(Payload(t)) = Len(t)
       /\ \A i \in 1..Len(t) : Payload(t)[i] = t[i].byte
  BY PayloadType
<1>11. Payload(Tail(d)) = Payload(t)
  BY <1>8, <1>9, <1>10, SeqEqual
<1>12. QED
  BY <1>11 DEF d, c, r

(* A segment arrives behind what is queued.                                *)
LEMMA RecvQueues ==
  ASSUME NEW n \in 1..Burst, NEW s \in [1..n -> Bytes], NEW c \in Seq(Pbuf),
         NEW q \in {Fresh(s), AddRef(Fresh(s))}
  PROVE  Payload(c \o q) = Payload(c) \o s
<1>1. /\ s \in Seq(Bytes) /\ Len(s) = n
      /\ Fresh(s) \in Seq(Pbuf) /\ Len(Fresh(s)) = n /\ Alive(Fresh(s))
  BY FreshAlive
<1>2. \A i \in 1..n : Fresh(s)[i].byte = s[i]
  BY <1>1 DEF Fresh
<1>3. q \in Seq(Pbuf) /\ Len(q) = n
  BY <1>1, AddRefType
<1>4. \A i \in 1..n : q[i].byte = s[i]
  BY <1>1, <1>2, AddRefBytes
<1>5. /\ c \o q \in Seq(Pbuf) /\ Len(c \o q) = Len(c) + n
      /\ \A i \in 1..Len(c) + n :
           (c \o q)[i] = IF i <= Len(c) THEN c[i] ELSE q[i - Len(c)]
  BY <1>3, ConcatProperties
<1> DEFINE u == Payload(c)
<1>6. /\ u \in Seq(Bytes) /\ Len(u) = Len(c)
      /\ \A i \in 1..Len(c) : u[i] = c[i].byte
  BY PayloadType
<1> HIDE DEF u
<1>7. /\ u \o s \in Seq(Bytes) /\ Len(u \o s) = Len(c) + n
      /\ \A i \in 1..Len(c) + n :
           (u \o s)[i] = IF i <= Len(c) THEN u[i] ELSE s[i - Len(c)]
  <2>1. /\ u \o s \in Seq(Bytes) /\ Len(u \o s) = Len(u) + Len(s)
        /\ \A i \in 1..Len(u) + Len(s) :
             (u \o s)[i] = IF i <= Len(u) THEN u[i] ELSE s[i - Len(u)]
    <3>1. s \in Seq(Bytes) /\ u \in Seq(Bytes)
      BY <1>1, <1>6
    <3>2. QED
      BY <3>1, ConcatProperties
  <2>2. QED
    BY <2>1, <1>1, <1>6
<1>8. /\ Payload(c \o q) \in Seq(Bytes) /\ Len(Payload(c \o q)) = Len(c) + n
      /\ \A i \in 1..Len(c) + n : Payload(c \o q)[i] = (c \o q)[i].byte
  BY <1>5, PayloadType
<1>9. ASSUME NEW i \in 1..Len(c) + n PROVE Payload(c \o q)[i] = (u \o s)[i]
  <2>1. CASE i <= Len(c)
    <3>1. i \in 1..Len(c)
      BY <2>1
    <3>2. (c \o q)[i] = c[i] /\ (u \o s)[i] = u[i]
      BY <2>1, <1>5, <1>7
    <3>3. Payload(c \o q)[i] = c[i].byte
      BY <3>2, <1>8
    <3>4. QED
      BY <3>1, <3>2, <3>3, <1>6
  <2>2. CASE ~(i <= Len(c))
    <3>1. i - Len(c) \in 1..n
      BY <2>2
    <3>2. (c \o q)[i] = q[i - Len(c)] /\ (u \o s)[i] = s[i - Len(c)]
      BY <2>2, <1>5, <1>7
    <3>3. Payload(c \o q)[i] = q[i - Len(c)].byte
      BY <3>2, <1>8
    <3>4. QED
      BY <3>1, <3>2, <3>3, <1>4
  <2>3. QED
    BY <2>1, <2>2
<1>10. Payload(c \o q) = u \o s
  BY <1>7, <1>8, <1>9, SeqEqual
<1>11. QED
  BY <1>10 DEF u

LEMMA StepEchoes == IInv /\ [Next]_vars => [E!Next]_(E!vars)
<1> SUFFICES ASSUME IInv, [Next]_vars PROVE E!Next \/ UNCHANGED E!vars
  OBVIOUS
<1> DEFINE Phase == IF pcb = "stuck" THEN "left" ELSE pcb
           Same == pcb' = pcb /\ p' = p /\ unacked' = unacked
<1>0. p \in Seq(Pbuf) /\ unacked \in Seq(Bytes) /\ Alive(p)
  BY DEF IInv, TypeOK, ChainAlive, Alive, Pbuf
<1>1. p = <<>> <=> Payload(p) = <<>>
  <2>1. Len(Payload(p)) = Len(p) /\ Payload(p) \in Seq(Bytes)
    BY <1>0, PayloadType
  <2>2. QED
    BY <1>0, <2>1, EmptySeq
<1>2. Same => UNCHANGED E!vars
  BY DEF E!vars
<1>3. CASE Accept
  <2>1. Phase = "none" /\ Phase' = "open" /\ p' = p /\ unacked' = unacked
    BY <1>3 DEF Accept
  <2>2. E!Connect
    BY <2>1 DEF E!Connect
  <2>3. QED
    BY <2>2 DEF E!Next
<1>4. ASSUME NEW n \in 1..Burst, NEW s \in [1..n -> Bytes], Recv(s)
      PROVE  E!Next
  <2>1. /\ Phase = "open" /\ Phase' = "open" /\ unacked' = unacked
        /\ \/ p = <<>> /\ p' = Fresh(s)
           \/ p' = p \o AddRef(Fresh(s))
    BY <1>4 DEF Recv, Chained, IInv
  <2>2. Payload(p') = Payload(p) \o s
    <3>1. CASE p = <<>> /\ p' = Fresh(s)
      <4>1. p' = p \o Fresh(s)
        BY <3>1, FreshAlive, ConcatEmptySeq
      <4>2. QED
        BY <4>1, <1>0, RecvQueues
    <3>2. CASE p' = p \o AddRef(Fresh(s))
      BY <3>2, <1>0, RecvQueues
    <3>3. QED
      BY <2>1, <3>1, <3>2
  <2>3. E!Receive(s)
    BY <2>1, <2>2 DEF E!Receive
  <2>4. QED
    BY <2>3 DEF E!Next
<1>5. CASE RecvFin
  <2>1. /\ Phase = "open" /\ p' = p /\ unacked' = unacked
        /\ IF p = <<>> THEN Phase' \in {"closed", "left"} ELSE Phase' = "fin"
    BY <1>5 DEF RecvFin, ConnectionClose
  <2>2. E!ClientCloses
    BY <1>1, <2>1 DEF E!ClientCloses, E!Ended
  <2>3. QED
    BY <2>2 DEF E!Next
<1>6. CASE SendNext
  <2>1. /\ p # <<>> /\ pcb' = pcb
        /\ unacked' = Append(unacked, Head(p).byte)
        /\ p' = Tail(Free(<<Head(p)>> \o AddRef(Tail(p))))
    BY <1>6 DEF SendNext, Loops
  <2>2. /\ Head(p) = p[1] /\ 1 \in 1..Len(p) /\ Head(p) \in Pbuf
        /\ Tail(p) \in Seq(Pbuf) /\ Len(Tail(p)) = Len(p) - 1
        /\ \A i \in 1..Len(p) - 1 : Tail(p)[i] = p[i + 1]
    BY <1>0, <2>1, HeadTailProperties
  <2>3. Head(p).ref >= 1
    BY <1>0, <2>2 DEF Alive
  <2>4. Alive(Tail(p))
    BY <1>0, <2>2 DEF Alive
  <2>5. Payload(p') = Payload(Tail(p))
    BY <2>1, <2>2, <2>3, <2>4, SendRepliesHead
  <2>6. Payload(Tail(p)) = Tail(Payload(p)) /\ Head(Payload(p)) = Head(p).byte
    <3> DEFINE u == Payload(p)
               v == Payload(Tail(p))
    <3>1. /\ u \in Seq(Bytes) /\ Len(u) = Len(p)
          /\ \A i \in 1..Len(p) : u[i] = p[i].byte
      BY <1>0, PayloadType
    <3>2. /\ v \in Seq(Bytes) /\ Len(v) = Len(p) - 1
          /\ \A i \in 1..Len(p) - 1 : v[i] = Tail(p)[i].byte
      BY <2>2, PayloadType
    <3> HIDE DEF u, v
    <3>3. u # <<>>
      BY <2>2, <3>1
    <3>4. /\ Tail(u) \in Seq(Bytes) /\ Len(Tail(u)) = Len(p) - 1
          /\ \A i \in 1..Len(p) - 1 : Tail(u)[i] = u[i + 1]
      BY <3>1, <3>3, HeadTailProperties
    <3>5. ASSUME NEW i \in 1..Len(p) - 1 PROVE v[i] = Tail(u)[i]
      <4>0. Len(p) \in Nat
        BY <1>0
      <4>1. i + 1 \in 1..Len(p)
        BY <4>0
      <4>2. QED
        BY <4>1, <2>2, <3>1, <3>2, <3>4
    <3>6. v = Tail(u)
      BY <3>2, <3>4, <3>5, SeqEqual
    <3>7. Head(u) = p[1].byte
      BY <2>2, <3>1, <3>3
    <3>8. QED
      BY <3>6, <3>7, <2>2 DEF u, v
  <2>7. E!Reply
    BY <1>1, <2>1, <2>5, <2>6 DEF E!Reply
  <2>8. QED
    BY <2>7 DEF E!Next
<1>7. CASE SendFails \/ SendEnds
  BY <1>2, <1>7 DEF SendFails, SendEnds
<1>8. ASSUME NEW n \in 1..SndBuf, Sent(n) PROVE E!Next
  <2>1. /\ n \in 1..Len(unacked) /\ unacked # <<>>
        /\ unacked' = SubSeq(unacked, n + 1, Len(unacked))
        /\ p' = p
    BY <1>0, <1>8 DEF Sent
  <2>2. \/ Phase' = Phase
        \/ Phase = "fin" /\ p = <<>> /\ Phase' \in {"closed", "left"}
    BY <1>8 DEF Sent, Resume, ConnectionClose, IInv, TypeOK
  <2>3. E!Acknowledge
    BY <1>1, <2>1, <2>2 DEF E!Acknowledge, E!Ended
  <2>4. QED
    BY <2>3 DEF E!Next
<1>9. CASE Poll
  <2>1. /\ p' = p /\ unacked' = unacked
        /\ \/ pcb' = pcb
           \/ Phase = "fin" /\ p = <<>> /\ Phase' \in {"closed", "left"}
    BY <1>9 DEF Poll, Resume, ConnectionClose, IInv, TypeOK
  <2>2. CASE pcb' = pcb
    BY <1>2, <2>1, <2>2
  <2>3. CASE pcb' # pcb
    <3>1. E!Close
      BY <1>1, <2>1, <2>3 DEF E!Close, E!Ended
    <3>2. QED
      BY <3>1 DEF E!Next
  <2>4. QED
    BY <2>2, <2>3
<1>10. CASE Error
  <2>1. Phase # "none" /\ Phase' = "none" /\ p' = <<>> /\ unacked' = <<>>
    BY <1>10 DEF Error
  <2>2. Payload(p') = <<>>
    <3>1. <<>> \in Seq(Pbuf) /\ Len(<<>>) = 0
      BY EmptySeq
    <3>2. Payload(<<>>) \in Seq(Bytes) /\ Len(Payload(<<>>)) = 0
      BY <3>1, PayloadType
    <3>3. QED
      BY <2>1, <3>2, EmptySeq
  <2>3. E!Over
    BY <2>1, <2>2 DEF E!Over
  <2>4. QED
    BY <2>3 DEF E!Next
<1>11. CASE UNCHANGED vars
  BY <1>2, <1>11 DEF vars
<1>12. QED
  BY <1>3, <1>4, <1>5, <1>6, <1>7, <1>8, <1>9, <1>10, <1>11
  DEF Next, Segments

(* The server implements the safety part of Echo: every byte that it sends *)
(* was received, none is sent twice, out of order or left out, and it      *)
(* closes only after the peer did and after the last byte.                 *)
THEOREM EchoesSafely == Spec => E!SafeSpec
<1>1. Init => E!Init
  <2> SUFFICES ASSUME Init PROVE E!Init
    OBVIOUS
  <2>1. pcb = "none" /\ p = <<>> /\ unacked = <<>>
    BY DEF Init
  <2>2. p \in Seq(Pbuf) /\ Len(p) = 0
    BY <2>1, EmptySeq
  <2>3. Payload(p) \in Seq(Bytes) /\ Len(Payload(p)) = 0
    BY <2>2, PayloadType
  <2>4. Payload(p) = <<>>
    BY <2>3, EmptySeq
  <2>5. QED
    BY <2>1, <2>4 DEF E!Init
<1>2. QED
  BY <1>1, StepEchoes, IInvHolds, PTL DEF Spec, E!SafeSpec
-----------------------------------------------------------------------------
(* The commands in the chain, EchoParser.  How long the chain is after a   *)
(* segment came, and after a pbuf was sent.                                *)

LEMMA RecvLengthens ==
  ASSUME IInv, NEW s \in Segments, Recv(s)
  PROVE  /\ Len(s) \in Nat \ {0}
         /\ Len(p') = Len(p) + Len(s) /\ Len(p) + Len(s) <= Window
<1>1. PICK n \in 1..Burst : s \in [1..n -> Bytes]
  BY DEF Segments
<1>2. /\ Len(s) = n
      /\ Fresh(s) \in Seq(Pbuf) /\ Len(Fresh(s)) = n /\ Alive(Fresh(s))
  BY <1>1, FreshAlive
<1>3. p \in Seq(Pbuf) /\ Alive(p)
  BY DEF IInv, TypeOK, ChainAlive, Alive, Pbuf
<1>4. Len(p') = Len(p) + n
  <2>1. CASE p = <<>>
    BY <1>2, <2>1 DEF Recv, IInv
  <2>2. CASE p # <<>>
    <3>1. p' = p \o AddRef(Fresh(s))
      BY <2>2 DEF Recv, Chained, IInv
    <3>2. QED
      BY <1>2, <1>3, <3>1, ChainedAlive
  <2>3. QED
    BY <2>1, <2>2
<1>5. Len(s) <= rcv_wnd /\ rcv_wnd + Len(p) = Window
  BY DEF Recv, IInv, WindowMatches
<1>6. rcv_wnd \in Nat /\ Window \in Nat /\ Burst \in Nat /\ Len(p) \in Nat
  BY <1>3, PoolAssumption DEF PoolAssumption, IInv, TypeOK
<1>7. QED
  BY <1>2, <1>4, <1>5, <1>6

LEMMA SendShortens ==
  ASSUME IInv, SendNext
  PROVE  Len(p) >= 1 /\ Len(p') = Len(p) - 1
<1> DEFINE c == Free(<<Head(p)>> \o AddRef(Tail(p)))
<1>1. p \in Seq(Pbuf) /\ Alive(p) /\ p # <<>>
  BY DEF IInv, TypeOK, ChainAlive, Alive, Pbuf, SendNext, Loops
<1>2. /\ Head(p) = p[1] /\ 1 \in 1..Len(p)
      /\ Tail(p) \in Seq(Pbuf) /\ Len(Tail(p)) = Len(p) - 1
      /\ \A i \in 1..Len(p) - 1 : Tail(p)[i] = p[i + 1]
  BY <1>1
<1>3. Head(p) \in Pbuf /\ Head(p).ref >= 1 /\ Alive(Tail(p))
  BY <1>1, <1>2 DEF Alive
<1>4. Len(Tail(c)) = Len(p) - 1
  BY <1>2, <1>3, SendKeepsRest
<1> HIDE DEF c
<1>5. p' = Tail(c)
  BY DEF SendNext, c
<1>6. QED
  BY <1>1, <1>2, <1>4, <1>5

(* Each pbuf of the chain has its two counts; none stood beyond the window;*)
(* a pbuf was not parsed more often than one before it; and without        *)
(* failing writes once for each place that it moved up.                    *)
InStep ==
  /\ times \in Seq(0..Window) /\ stood \in Seq(Nat)
  /\ Len(times) = Len(p) /\ Len(stood) = Len(p)

NoneAhead == \A i, j \in 1..Len(p) : i < j => times[i] >= times[j]

OncePerPlace ==
  clean => \A i \in 1..Len(p) : stood[i] \in i..Window /\ times[i] = stood[i] - i

CommandInv == InStep /\ NoneAhead /\ OncePerPlace

LEMMA ParsedTimes ==
  ASSUME Window \in Nat, times \in Seq(0..Window)
  PROVE  /\ Parsed \in Seq(0..Window) /\ Len(Parsed) = Len(times)
         /\ \A i \in 1..Len(times) :
              Parsed[i] = IF times[i] = Window THEN Window ELSE times[i] + 1
<1>1. DOMAIN times = 1..Len(times) /\ Len(times) \in Nat
  OBVIOUS
<1>2. \A i \in 1..Len(times) : times[i] \in 0..Window
  OBVIOUS
<1>3. Parsed \in [1..Len(times) -> 0..Window]
  BY <1>1, <1>2 DEF Parsed
<1>4. Parsed \in Seq(0..Window) /\ Len(Parsed) = Len(times)
  BY <1>1, <1>3
<1>5. QED
  BY <1>1, <1>4 DEF Parsed

LEMMA ParserRefines == [ParserNext]_parserVars => [Next]_vars
BY DEF ParserNext, parserVars, Next, ParserRecv, ParserSendNext,
       ParserSendFails, ParserError, ParserOther

LEMMA StepCommandInv ==
  IInv /\ CommandInv /\ [ParserNext]_parserVars => CommandInv'
<1> SUFFICES ASSUME IInv, CommandInv, [ParserNext]_parserVars
             PROVE  CommandInv'
  OBVIOUS
<1>1. /\ times \in Seq(0..Window) /\ stood \in Seq(Nat)
      /\ Len(times) = Len(p) /\ Len(stood) = Len(p)
  BY DEF CommandInv, InStep
<1>2. Window \in Nat /\ Len(p) \in Nat
  BY <1>1, PoolAssumption DEF PoolAssumption
<1>3. \A i \in 1..Len(p) : times[i] \in 0..Window
  BY <1>1, ElementOfSeq
<1>4. Parsed \in Seq(0..Window) /\ Len(Parsed) = Len(p)
  BY <1>1, <1>2, ParsedTimes
<1>5. \A i \in 1..Len(p) :
        Parsed[i] = IF times[i] = Window THEN Window ELSE times[i] + 1
  BY <1>1, <1>2, ParsedTimes
<1>6. ASSUME NEW i \in 1..Len(p), NEW j \in 1..Len(p), i < j
      PROVE  Parsed[i] >= Parsed[j]
  <2>1. times[i] \in 0..Window /\ times[j] \in 0..Window
    BY <1>3
  <2>2. times[i] >= times[j]
    BY <1>6 DEF CommandInv, NoneAhead
  <2>3. QED
    BY <1>2, <1>5, <2>1, <2>2
<1>7. ASSUME NEW s \in Segments, ParserRecv(s) PROVE CommandInv'
  <2> DEFINE zeros == [i \in 1..Len(s) |-> 0]
             places == [i \in 1..Len(s) |-> Len(p) + i]
  <2>1. /\ Len(s) \in Nat \ {0}
        /\ Len(p') = Len(p) + Len(s) /\ Len(p) + Len(s) <= Window
    BY <1>7, RecvLengthens DEF ParserRecv
  <2>2. /\ zeros \in Seq(0..Window) /\ Len(zeros) = Len(s)
        /\ \A i \in 1..Len(s) : zeros[i] = 0
    <3>1. zeros \in [1..Len(s) -> 0..Window]
      BY <1>2
    <3>2. QED
      BY <2>1, <3>1
  <2>3. /\ places \in Seq(Nat) /\ Len(places) = Len(s)
        /\ \A i \in 1..Len(s) : places[i] = Len(p) + i
    <3>1. places \in [1..Len(s) -> Nat]
      BY <1>2, <2>1
    <3>2. QED
      BY <2>1, <3>1
  <2> HIDE DEF zeros, places
  <2>4. times' = times \o zeros /\ stood' = stood \o places
        /\ clean' = (clean \/ p = <<>>)
    BY <1>7 DEF ParserRecv, zeros, places
  <2>5. times' \in Seq(0..Window) /\ Len(times') = Len(p')
    <3>1. /\ times \o zeros \in Seq(0..Window)
          /\ Len(times \o zeros) = Len(times) + Len(zeros)
      BY <1>1, <2>2, ConcatProperties
    <3>2. QED
      BY <1>1, <2>1, <2>2, <2>4, <3>1
  <2>6. stood' \in Seq(Nat) /\ Len(stood') = Len(p')
    <3>1. /\ stood \o places \in Seq(Nat)
          /\ Len(stood \o places) = Len(stood) + Len(places)
      BY <1>1, <2>3, ConcatProperties
    <3>2. QED
      BY <1>1, <2>1, <2>3, <2>4, <3>1
  <2>7. ASSUME NEW i \in 1..Len(p'), i <= Len(p)
        PROVE  i \in 1..Len(p) /\ times'[i] = times[i] /\ stood'[i] = stood[i]
    <3>1. i \in 1..Len(p)
      BY <1>2, <2>1, <2>7
    <3>2. QED
      BY <1>1, <2>2, <2>3, <2>4, <3>1
  <2>8. ASSUME NEW i \in 1..Len(p'), ~(i <= Len(p))
        PROVE  i \in Nat /\ times'[i] = 0 /\ stood'[i] = i
    <3>1. i \in Nat /\ i - Len(p) \in 1..Len(s) /\ Len(p) + (i - Len(p)) = i
      BY <1>2, <2>1, <2>8
    <3>2. times'[i] = zeros[i - Len(p)] /\ stood'[i] = places[i - Len(p)]
      BY <1>1, <2>1, <2>2, <2>3, <2>4, <2>8
    <3>3. QED
      BY <2>2, <2>3, <3>1, <3>2
  <2>9. ASSUME NEW i \in 1..Len(p'), NEW j \in 1..Len(p'), i < j
        PROVE  times'[i] >= times'[j]
    <3>1. CASE j <= Len(p)
      <4>1. i <= Len(p)
        BY <1>2, <2>1, <2>9, <3>1
      <4>2. times[i] >= times[j]
        BY <2>7, <2>9, <3>1, <4>1 DEF CommandInv, NoneAhead
      <4>3. QED
        BY <2>7, <3>1, <4>1, <4>2
    <3>2. CASE ~(j <= Len(p))
      <4>1. times'[i] \in 0..Window
        BY <2>5, ElementOfSeq
      <4>2. QED
        BY <1>2, <2>8, <3>2, <4>1
    <3>3. QED
      BY <3>1, <3>2
  <2>10. ASSUME clean', NEW i \in 1..Len(p')
         PROVE  stood'[i] \in i..Window /\ times'[i] = stood'[i] - i
    <3>1. CASE i <= Len(p)
      <4>1. p # <<>>
        <5>1. Len(p) # 0
          BY <1>2, <2>1, <3>1
        <5>2. QED
          BY <5>1
      <4>2. clean
        BY <2>4, <2>10, <4>1
      <4>3. stood[i] \in i..Window /\ times[i] = stood[i] - i
        BY <2>7, <3>1, <4>2 DEF CommandInv, OncePerPlace
      <4>4. QED
        BY <2>7, <3>1, <4>3
    <3>2. CASE ~(i <= Len(p))
      <4>1. i \in i..Window
        BY <1>2, <2>1
      <4>2. QED
        BY <2>8, <3>2, <4>1
    <3>3. QED
      BY <3>1, <3>2
  <2>11. QED
    BY <2>5, <2>6, <2>9, <2>10 DEF CommandInv, InStep, NoneAhead, OncePerPlace
<1>8. CASE ParserSendNext
  <2>1. Len(p) >= 1 /\ Len(p') = Len(p) - 1
    BY <1>8, SendShortens DEF ParserSendNext
  <2>2. times' = Tail(Parsed) /\ stood' = Tail(stood) /\ clean' = clean
    BY <1>8 DEF ParserSendNext
  <2>3. times' \in Seq(0..Window) /\ Len(times') = Len(p')
    BY <1>2, <1>4, <2>1, <2>2
  <2>4. stood' \in Seq(Nat) /\ Len(stood') = Len(p')
    BY <1>1, <1>2, <2>1, <2>2
  <2>5. ASSUME NEW i \in 1..Len(p')
        PROVE  /\ i \in Nat /\ i + 1 \in 1..Len(p)
               /\ times'[i] = Parsed[i + 1] /\ stood'[i] = stood[i + 1]
    <3>1. i \in Nat /\ i + 1 \in 1..Len(p)
      BY <1>2, <2>1
    <3>2. times'[i] = Parsed[i + 1]
      BY <1>2, <1>4, <2>1, <2>2
    <3>3. stood'[i] = stood[i + 1]
      BY <1>1, <1>2, <2>1, <2>2
    <3>4. QED
      BY <3>1, <3>2, <3>3
  <2>6. ASSUME NEW i \in 1..Len(p'), NEW j \in 1..Len(p'), i < j
        PROVE  times'[i] >= times'[j]
    <3>1. i + 1 < j + 1
      BY <2>5, <2>6
    <3>2. Parsed[i + 1] >= Parsed[j + 1]
      BY <1>6, <2>5, <3>1
    <3>3. QED
      BY <2>5, <3>2
  <2>7. ASSUME clean', NEW i \in 1..Len(p')
        PROVE  stood'[i] \in i..Window /\ times'[i] = stood'[i] - i
    <3>1. /\ stood[i + 1] \in (i + 1)..Window
          /\ times[i + 1] = stood[i + 1] - (i + 1)
      BY <2>2, <2>5, <2>7 DEF CommandInv, OncePerPlace
    <3>2. i \in Nat /\ stood[i + 1] \in i..Window /\ times[i + 1] # Window
          /\ times[i + 1] + 1 = stood[i + 1] - i
      BY <1>2, <2>5, <3>1
    <3>3. Parsed[i + 1] = stood[i + 1] - i
      BY <1>5, <2>5, <3>2
    <3>4. QED
      BY <2>5, <3>2, <3>3
  <2>8. QED
    BY <2>3, <2>4, <2>6, <2>7 DEF CommandInv, InStep, NoneAhead, OncePerPlace
<1>9. CASE ParserSendFails
  <2>1. times' = Parsed /\ stood' = stood /\ p' = p /\ ~clean'
    BY <1>9 DEF ParserSendFails, SendFails
  <2>2. QED
    BY <1>1, <1>4, <1>6, <2>1
       DEF CommandInv, InStep, NoneAhead, OncePerPlace
<1>10. CASE ParserError
  <2>1. p' = <<>> /\ times' = <<>> /\ stood' = <<>>
    BY <1>10 DEF ParserError, Error
  <2>2. QED
    BY <2>1 DEF CommandInv, InStep, NoneAhead, OncePerPlace
<1>11. CASE ParserOther \/ UNCHANGED parserVars
  <2>1. UNCHANGED <<p, times, stood, clean>>
    BY <1>11 DEF ParserOther, parserVars, vars, Accept, RecvFin, SendEnds, Poll,
                 Sent
  <2>2. QED
    BY <2>1 DEF CommandInv, InStep, NoneAhead, OncePerPlace
<1>12. QED
  BY <1>7, <1>8, <1>9, <1>10, <1>11 DEF ParserNext

(* A pbuf is parsed no more often than one before it, and without failing  *)
(* writes as often as it stood back in the chain when it came: however the *)
(* chain was cut into segments, acknowledged and sent on, and for any      *)
(* window and send buffer.                                                 *)
THEOREM CommandsAreRepeated == ParserSpec => []CommandsRepeat
<1>1. ParserInit => Init /\ CommandInv
  <2>1. ParserInit => p = <<>> /\ times = <<>> /\ stood = <<>> /\ Init
    BY DEF ParserInit, Init
  <2>2. QED
    BY <2>1 DEF CommandInv, InStep, NoneAhead, OncePerPlace
<1>2. IInv /\ CommandInv => CommandsRepeat
  <2> SUFFICES ASSUME IInv, CommandInv PROVE CommandsRepeat
    OBVIOUS
  <2>1. /\ times \in Seq(0..Window) /\ Len(times) = Len(p)
        /\ DOMAIN times = 1..Len(p)
    BY DEF CommandInv, InStep
  <2>2. ASSUME clean
        PROVE  times = [i \in DOMAIN p |-> stood[i] - i]
    <3>1. DOMAIN p = 1..Len(p)
      BY DEF IInv, TypeOK
    <3>2. \A i \in 1..Len(p) : times[i] = stood[i] - i
      BY <2>2 DEF CommandInv, OncePerPlace
    <3>3. QED
      BY <2>1, <3>1, <3>2
  <2>3. QED
    BY <2>1, <2>2 DEF CommandsRepeat, CommandInv, NoneAhead
<1>3. QED
  BY <1>1, <1>2, InitIInv, StepIInv, StepCommandInv, ParserRefines, PTL
     DEF ParserSpec

=============================================================================
