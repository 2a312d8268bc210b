----------------------------- MODULE EchoParser -----------------------------
(***************************************************************************)
(* The commands in what the TCP echo server receives.  Every entry of the  *)
(* loop of tcp_echoserver_send parses the whole chain es->p from its head, *)
(* and only then tries to write the head.  So a pbuf is parsed once for    *)
(* every entry between its arrival and its own write, and the commands it  *)
(* holds are carried out as often.                                         *)
(***************************************************************************)
EXTENDS EchoServer

VARIABLES
  times,   \* how often each pbuf of the chain was parsed, Window at most
  stood,   \* history: its place in the chain when it arrived
  clean    \* history: no tcp_write has failed since the chain was empty

parserVars == <<vars, times, stood, clean>>

ParserInit == Init /\ times = <<>> /\ stood = <<>> /\ clean = TRUE

(* Mutant of Parsed: only the head is parsed. *)
ParsedHead == [i \in DOMAIN times |-> IF i > 1 \/ times[i] = Window
                                        THEN times[i] ELSE times[i] + 1]

(* parce_incoming_buf on the head and, as long as tot_len counts more, on  *)
(* the pbufs behind it.                                                    *)
Parsed == [i \in DOMAIN times |-> IF times[i] = Window
                                    THEN Window ELSE times[i] + 1]

ParserRecv(s) ==
  /\ Recv(s)
  /\ times' = times \o [i \in 1..Len(s) |-> 0]
  /\ stood' = stood \o [i \in 1..Len(s) |-> Len(p) + i]
  /\ clean' = (clean \/ p = <<>>)

ParserSendNext ==
  /\ SendNext
  /\ times' = Tail(Parsed)
  /\ stood' = Tail(stood)
  /\ UNCHANGED clean

ParserSendFails ==
  /\ SendFails
  /\ times' = Parsed
  /\ clean' = FALSE
  /\ UNCHANGED stood

ParserError == Error /\ times' = <<>> /\ stood' = <<>> /\ clean' = TRUE

(* The other callbacks parse nothing. *)
ParserOther ==
  /\ Accept \/ RecvFin \/ SendEnds \/ Poll \/ \E n \in 1..SndBuf : Sent(n)
  /\ UNCHANGED <<times, stood, clean>>

ParserNext ==
  \/ \E s \in Segments : ParserRecv(s)
  \/ ParserSendNext \/ ParserSendFails \/ ParserError \/ ParserOther

ParserSpec ==
  /\ ParserInit /\ [][ParserNext]_parserVars
  /\ WF_vars(SendFails \/ SendNext \/ SendEnds)
  /\ WF_vars(Poll)
  /\ SF_vars(\E n \in 1..SndBuf : Sent(n))
  /\ SF_vars(SendNext)

-----------------------------------------------------------------------------
(* Properties. *)

(* How often a command is carried out, and in what order: no pbuf is       *)
(* parsed more often than one before it, so none while one before it has   *)
(* not been; and without failing writes each is parsed as often as it      *)
(* stood back in the chain, that is more than once for all but the head.   *)
(* Whether the chain came as one segment or as several, and whether the    *)
(* send buffer was full in between, makes no difference.                   *)
CommandsRepeat ==
  /\ \A i, j \in DOMAIN times : i < j => times[i] >= times[j]
  /\ clean => times = [i \in DOMAIN p |-> stood[i] - i]

=============================================================================
