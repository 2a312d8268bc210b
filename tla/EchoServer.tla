----------------------------- MODULE EchoServer -----------------------------
(***************************************************************************)
(* The TCP echo server: the callbacks that lwIP makes for one connection,  *)
(* the state in struct tcp_echoserver_struct, the chain of received pbufs  *)
(* es->p with their reference counts, and the pool they come from.         *)
(*                                                                         *)
(* lwIP runs in the main loop and makes one callback at a time, so a       *)
(* callback is atomic; the loop of tcp_echoserver_send, which ends every   *)
(* callback that enters it, takes one step per pbuf (sending).  A pbuf     *)
(* counts as one unit of payload, of the window and of the send buffer.    *)
(* Which pbuf of the pool is used does not matter: the chain holds their   *)
(* counts, and the pool is what is neither in the chain nor leaked.        *)
(***************************************************************************)
EXTENDS Naturals, Sequences

CONSTANTS
  Pool,      \* PBUF_POOL_SIZE
  Burst,     \* pbufs of one segment: TCP_MSS over PBUF_POOL_BUFSIZE
  Window,    \* TCP_WND, in pbufs
  SndBuf,    \* TCP_SND_BUF, in pbufs
  Bytes      \* what a pbuf may hold

ASSUME PoolAssumption ==
  /\ Pool \in Nat /\ Burst \in Nat \ {0}
  /\ Window \in Nat /\ SndBuf \in Nat \ {0}

VARIABLES
  pcb,       \* "none", "open", "fin": CLOSE_WAIT, "closed": tcp_close was
             \* done, "stuck": tcp_close failed and its result was ignored
  state,     \* es->state, "none" without an es
  p,         \* es->p: the chain, each with its payload and count
  sending,   \* in the loop of tcp_echoserver_send
  unacked,   \* what tcp_write copied and the peer has not acknowledged
  rcv_wnd,
  leaked,    \* pbufs with a count above 0 that nothing points to
  spoiled    \* history: a segment was chained behind another one, or a
             \* connection was reset while data were queued

vars == <<pcb, state, p, sending, unacked, rcv_wnd, leaked, spoiled>>

Pcbs == {"none", "open", "fin", "closed", "stuck"}
EsStates == {"none", "ES_ACCEPTED", "ES_RECEIVED", "ES_CLOSING"}

(* There is an es exactly while lwIP can call back.                        *)
TypeOK ==
  /\ pcb \in Pcbs
  /\ state \in EsStates
  /\ state # "none" <=> pcb \in {"open", "fin"}
  /\ state = "ES_CLOSING" <=> pcb = "fin"
  /\ p \in Seq([byte : Bytes, ref : Nat])
  /\ sending \in BOOLEAN
  /\ unacked \in Seq(Bytes)
  /\ rcv_wnd \in 0..Window
  /\ leaked \in 0..Pool
  /\ Len(p) + leaked <= Pool
  /\ spoiled \in BOOLEAN

Init ==
  /\ pcb = "none"
  /\ state = "none"
  /\ p = <<>>
  /\ sending = FALSE
  /\ unacked = <<>>
  /\ rcv_wnd = Window
  /\ leaked = 0
  /\ spoiled = FALSE

-----------------------------------------------------------------------------
(* tcp_echoserver_accept, with memory for an es; without, lwIP aborts the  *)
(* connection.                                                             *)
Accept ==
  /\ pcb = "none"
  /\ pcb' = "open"
  /\ state' = "ES_ACCEPTED"
  /\ rcv_wnd' = Window
  /\ UNCHANGED <<p, sending, unacked, leaked, spoiled>>

(* Mutant of AddRef: pbuf_ref is missing. *)
AddRefNot(c) == c

(* pbuf_ref of the head of a chain that is not empty. *)
AddRef(c) == IF c = <<>> THEN c ELSE [c EXCEPT ![1].ref = @ + 1]

(* How many pbufs pbuf_free takes from the head of the chain: those whose  *)
(* count gets 0, up to the first one that is referenced otherwise.         *)
Freed(c) ==
  IF \E i \in 1..Len(c) : c[i].ref # 1
    THEN (CHOOSE i \in 1..Len(c) :
            c[i].ref # 1 /\ \A j \in 1..i-1 : c[j].ref = 1) - 1
    ELSE Len(c)

(* Mutant of Free: the pbuf that was sent is not freed. *)
FreeNot(c) == c

(* The chain with the counts that pbuf_free leaves. *)
Free(c) ==
  [i \in 1..Len(c) |->
     IF i <= Freed(c) + 1 THEN [c[i] EXCEPT !.ref = @ - 1] ELSE c[i]]

(* A segment that was just received: a chain of pbufs with one reference.  *)
Fresh(s) == [i \in 1..Len(s) |-> [byte |-> s[i], ref |-> 1]]

(* pbuf_chain(es->p, p): p is appended and gets one more reference.        *)
Chained(q) == p \o AddRef(q)

(* tcp_echoserver_recv with data. *)
Recv(s) ==
  /\ pcb = "open"
  /\ ~sending
  /\ Len(s) <= rcv_wnd
  /\ Len(p) + leaked + Len(s) <= Pool
  /\ rcv_wnd' = rcv_wnd - Len(s)
  /\ \/ /\ state = "ES_ACCEPTED"
        /\ state' = "ES_RECEIVED"
        /\ p' = Fresh(s)
        /\ sending' = TRUE
        /\ UNCHANGED spoiled
     \/ /\ state = "ES_RECEIVED"
        /\ p = <<>>
        /\ p' = Fresh(s)
        /\ sending' = TRUE
        /\ UNCHANGED <<state, spoiled>>
     \/ /\ state = "ES_RECEIVED"
        /\ p # <<>>
        /\ p' = Chained(Fresh(s))
        /\ spoiled' = TRUE
        /\ UNCHANGED <<state, sending>>
  /\ UNCHANGED <<pcb, unacked, leaked>>

(* tcp_echoserver_connection_close: the callbacks are removed and es is    *)
(* freed, whatever tcp_close answers.                                      *)
ConnectionClose ==
  /\ state' = "none"
  /\ pcb' \in {"closed", "stuck"}
  /\ UNCHANGED sending

(* tcp_echoserver_recv with NULL: the peer closed. *)
RecvFin ==
  /\ pcb = "open"
  /\ ~sending
  /\ \/ /\ p = <<>>
        /\ ConnectionClose
     \/ /\ p # <<>>
        /\ state' = "ES_CLOSING"
        /\ pcb' = "fin"
        /\ sending' = TRUE
  /\ UNCHANGED <<p, unacked, rcv_wnd, leaked, spoiled>>

-----------------------------------------------------------------------------
(* tcp_echoserver_send.                                                    *)
Loops == sending /\ p # <<>> /\ Len(unacked) < SndBuf

(* Mutant of Recved: tcp_recved is missing. *)
RecvedNot == rcv_wnd

(* tcp_recved of one pbuf. *)
Recved == rcv_wnd + 1

(* tcp_write accepted the head: the next pbuf gets a reference, the head   *)
(* is freed, and only the head leaves es->p.                               *)
SendNext ==
  /\ Loops
  /\ unacked' = Append(unacked, Head(p).byte)
  /\ LET c == Free(<<Head(p)>> \o AddRef(Tail(p)))
     IN  /\ p' = Tail(c)
         /\ leaked' = IF Head(c).ref = 0 THEN leaked ELSE leaked + 1
  /\ rcv_wnd' = Recved
  /\ UNCHANGED <<pcb, state, sending, spoiled>>

(* tcp_write had no memory (or no place in its queue); es->p is kept.      *)
SendFails ==
  /\ Loops
  /\ sending' = FALSE
  /\ UNCHANGED <<pcb, state, p, unacked, rcv_wnd, leaked, spoiled>>

SendEnds ==
  /\ sending
  /\ p = <<>> \/ Len(unacked) >= SndBuf
  /\ sending' = FALSE
  /\ UNCHANGED <<pcb, state, p, unacked, rcv_wnd, leaked, spoiled>>

(* What tcp_echoserver_sent and tcp_echoserver_poll do: go on sending, or  *)
(* close if the peer has closed and nothing is left.                       *)
Resume ==
  \/ /\ p # <<>>
     /\ sending' = TRUE
     /\ UNCHANGED <<pcb, state>>
  \/ /\ p = <<>>
     /\ state = "ES_CLOSING"
     /\ ConnectionClose
  \/ /\ p = <<>>
     /\ state # "ES_CLOSING"
     /\ UNCHANGED <<pcb, state, sending>>

(* The peer acknowledges n pbufs: tcp_echoserver_sent, unless removed.     *)
Sent(n) ==
  /\ ~sending
  /\ n <= Len(unacked)
  /\ unacked' = SubSeq(unacked, n + 1, Len(unacked))
  /\ IF state = "none" THEN UNCHANGED <<pcb, state, sending>> ELSE Resume
  /\ UNCHANGED <<p, rcv_wnd, leaked, spoiled>>

(* Mutant of Poll: a remaining chain is not sent. *)
PollOnlyCloses ==
  /\ ~sending
  /\ state # "none"
  /\ p = <<>>
  /\ Resume
  /\ UNCHANGED <<p, unacked, rcv_wnd, leaked, spoiled>>

(* tcp_echoserver_poll, from the timer of lwIP. *)
Poll ==
  /\ ~sending
  /\ state # "none"
  /\ Resume
  /\ UNCHANGED <<p, unacked, rcv_wnd, leaked, spoiled>>

(* The pcb ends, by a reset, a timeout or its last acknowledgement: while  *)
(* there is an es, tcp_echoserver_error frees it, and es->p is lost.       *)
Error ==
  /\ pcb # "none"
  /\ ~sending
  /\ pcb' = "none"
  /\ state' = "none"
  /\ leaked' = leaked + Len(p)
  /\ spoiled' = (spoiled \/ p # <<>>)
  /\ p' = <<>>
  /\ unacked' = <<>>
  /\ UNCHANGED <<sending, rcv_wnd>>

Segments == UNION {[1..n -> Bytes] : n \in 1..Burst}

Next ==
  \/ Accept
  \/ \E s \in Segments : Recv(s)
  \/ RecvFin
  \/ SendNext \/ SendFails \/ SendEnds
  \/ \E n \in 1..SndBuf : Sent(n)
  \/ Poll
  \/ Error

Spec == Init /\ [][Next]_vars

(* The loop comes to its end; the timer of lwIP runs; a peer that stays    *)
(* connected acknowledges, which lwIP sees between two callbacks; and      *)
(* tcp_write does not fail for ever.                                       *)
FairSpec ==
  /\ Spec
  /\ WF_vars(SendFails \/ SendNext \/ SendEnds)
  /\ WF_vars(Poll)
  /\ SF_vars(\E n \in 1..SndBuf : Sent(n))
  /\ SF_vars(SendNext)

-----------------------------------------------------------------------------
(* Properties. *)

(* No pbuf of es->p is back in the pool, where lwIP would fill it with     *)
(* another frame: the references that the loop of tcp_echoserver_send      *)
(* takes and gives back, and those of pbuf_chain, never fall short.        *)
ChainAlive == \A i \in 1..Len(p) : p[i].ref >= 1

(* The window that the peer sees lacks exactly what is queued: no way      *)
(* through the callbacks forgets a tcp_recved or makes one too many, so a  *)
(* peer is neither throttled for good nor lets lwIP overrun.               *)
WindowMatches == state # "none" => rcv_wnd + Len(p) = Window

(* As long as no segment was chained behind another one and no connection  *)
(* was reset with data queued, every pbuf goes back to the pool.           *)
PoolIntact == ~spoiled => leaked = 0

(* "free pbuf": the pbuf whose data went into the send queue is freed.     *)
SentIsFreed == [][SendNext => leaked' = leaked]_vars

(* The server implements Echo: every byte once, in order, and a close only *)
(* after the last one, which does come; with memory shortages, any size of *)
(* acknowledgement, resets, and a peer that closes with data under way.    *)
Payload(c) == [i \in 1..Len(c) |-> c[i].byte]
E == INSTANCE Echo WITH
       phase <- IF pcb = "stuck" THEN "left" ELSE pcb,
       owed <- Payload(p),
       back <- unacked
IsEcho == E!Spec

=============================================================================
