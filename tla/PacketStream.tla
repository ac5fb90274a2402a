---------------------------- MODULE PacketStream ----------------------------
(***************************************************************************)
(* SendPacket and RecvPacket of CBinProtocol, CJsonProtocol and            *)
(* CUBJsonProtocol (Src/400_Server) over one TCP connection: framing of    *)
(* packets on a byte stream that moves in pieces, with timeouts, several   *)
(* sending threads and a connection that may break.                        *)
(*                                                                         *)
(* A unit is a run of bytes, <<p, k>> the k-th of packet p: HeaderLen units *)
(* of ST_PACKET_HEADER, then BodyLen[p] of body.  One action is one call   *)
(* of send or recv, or one look at the clock.                              *)
(***************************************************************************)
EXTENDS Integers, SequencesExt

CONSTANTS Senders,      (* threads that call SendPacket on the socket; one   *)
                        (* receives at the other end                         *)
          Packets, NoPacket,   (* packets, each sent once                    *)
          BodyLen,      (* units of body of each packet                      *)
          Ids, NoId,    (* values of dwID                                    *)
          IdOf,         (* dwID of each packet                               *)
          MaxLen,       (* bound of dwLen in a header that is not one        *)
          Room,         (* units the buffers of the connection hold          *)
          Protocols,    (* subset of {"bin", "json"}                         *)
          TimeOuts      (* values of dwTimeOut                               *)

ASSUME PacketAssumption ==
  /\ NoPacket \notin Packets /\ NoId \notin Ids
  /\ BodyLen \in [Packets -> Nat \ {0}] /\ IdOf \in [Packets -> Ids]
  /\ MaxLen \in Nat /\ Room \in Nat \ {0}
  /\ Protocols \subseteq {"bin", "json"} /\ TimeOuts \subseteq Nat \ {0}

HeaderLen == 2
NoFault == "none"

VARIABLES protocol, dwTimeOut,   (* of the behaviour                         *)
          open,         (* the connection has not been broken                *)
          wire,         (* units sent and not received, oldest first         *)
          packet, tTotalSent,    (* of each sender in SendPacket             *)
          stage,        (* where RecvPacket is                               *)
          asked, headerID,       (* its dwID, header.dwID                    *)
          got, want,    (* units it has read; how many it is reading up to   *)
          seen,         (* what PeekHeader showed the receiver               *)
          sent, answers, fault   (* history: packets in the order they       *)
                        (* reached the stream, outcomes of RecvPacket up to  *)
                        (* the first fault, that fault                       *)

setting == <<protocol, dwTimeOut>>
sending == <<packet, tTotalSent>>
receiving == <<stage, asked, headerID, got, want, seen>>
history == <<sent, answers, fault>>
vars == <<protocol, dwTimeOut, open, wire, packet, tTotalSent,
          stage, asked, headerID, got, want, seen, sent, answers, fault>>

Size(p) == HeaderLen + BodyLen[p]
Bytes(p) == [k \in 1 .. Size(p) |-> <<p, k>>]
Piece(s, from, n) == SubSeq(s, from + 1, from + n)
Smaller(a, b) == IF a < b THEN a ELSE b

\* What the bytes in a ST_PACKET_HEADER say.  Bytes that are no header, or that were
\* not all read, say anything: the structure has no constructor.
Headers(s) == IF \E p \in Packets : s = Piece(Bytes(p), 0, HeaderLen)
              THEN LET p == s[1][1] IN {[dwID |-> IdOf[p], dwLen |-> BodyLen[p]]}
              ELSE [dwID : Ids, dwLen : 0 .. MaxLen]

\* The packet a RecvPacket that has read s holds, if it holds one.
Held(s) == IF \E p \in Packets : s = Bytes(p) THEN s[1][1] ELSE NoPacket

\* What is first to go wrong with the stream is remembered.
Record(happened, what) == fault' = IF fault = NoFault /\ happened THEN what ELSE fault

dwTimeOutFraction == dwTimeOut \div 2

Init == /\ protocol \in Protocols /\ dwTimeOut \in TimeOuts
        /\ open = TRUE /\ wire = <<>>
        /\ packet = [s \in Senders |-> NoPacket]
        /\ tTotalSent = [s \in Senders |-> 0]
        /\ stage = "none" /\ asked = NoId /\ headerID = NoId
        /\ got = <<>> /\ want = 0 /\ seen = NoId
        /\ sent = <<>> /\ answers = <<>> /\ fault = NoFault

-----------------------------------------------------------------------------
(* SendPacket: the packet is laid out, then CSyncTCPSocket::Send           *)

SendPacket(s, p) ==
  /\ packet[s] = NoPacket
  /\ p \notin Range(sent) \cup Range(packet)
  /\ packet' = [packet EXCEPT ![s] = p]
  /\ UNCHANGED <<setting, open, wire, tTotalSent, receiving, history>>

SendReturns(s) == /\ packet' = [packet EXCEPT ![s] = NoPacket]
                  /\ tTotalSent' = [tTotalSent EXCEPT ![s] = 0]

MidPacket(s) == tTotalSent[s] > 0
OthersMidPacket(s) == \E u \in Senders \ {s} : MidPacket(u)

\* (Variants named Bug... are what a slip in the definition after them would be.)
\* Each piece is taken from the start of the buffer.
BugNextPiece(s, n) == Piece(Bytes(packet[s]), 0, n)

NextPiece(s, n) == Piece(Bytes(packet[s]), tTotalSent[s], n)

\* send takes what the buffers have room for, and still does for a while when the
\* other end is gone and nothing will arrive.  Two senders whose sends are not taken
\* in one piece mix their bytes; a Send that finds dwTimeOutTick passed returns
\* EC_TIMEOUT and leaves what was sent of the packet in the stream.
SendSome(s) ==
  /\ packet[s] # NoPacket
  /\ \E n \in 1 .. Smaller(Size(packet[s]) - tTotalSent[s], Room - Len(wire)) :
       /\ wire' = IF open THEN wire \o NextPiece(s, n) ELSE wire
       /\ \/ /\ tTotalSent[s] + n = Size(packet[s])
             /\ SendReturns(s)
             /\ Record(OthersMidPacket(s), "mixed")
          \/ /\ tTotalSent[s] + n < Size(packet[s])
             /\ tTotalSent' = [tTotalSent EXCEPT ![s] = @ + n]
             /\ Record(OthersMidPacket(s), "mixed")
             /\ UNCHANGED packet
          \/ /\ tTotalSent[s] + n < Size(packet[s])
             /\ SendReturns(s)
             /\ Record(TRUE, "cut")
  /\ sent' = IF MidPacket(s) THEN sent ELSE Append(sent, packet[s])
  /\ UNCHANGED <<setting, open, receiving, answers>>

\* SO_SNDTIMEO (0 means to wait for ever), and dwTimeOutTick has passed as well.
SendTimesOut(s) ==
  /\ packet[s] # NoPacket /\ dwTimeOutFraction > 0
  /\ SendReturns(s)
  /\ Record(MidPacket(s), "cut")
  /\ UNCHANGED <<setting, open, wire, receiving, sent, answers>>

SendFails(s) ==
  /\ packet[s] # NoPacket /\ ~open
  /\ SendReturns(s)
  /\ UNCHANGED <<setting, open, wire, receiving, history>>

Send(s) == SendSome(s) \/ SendTimesOut(s) \/ SendFails(s)

-----------------------------------------------------------------------------
(* PeekHeader, RecvPacket                                                  *)

\* A caller that looks before it receives asks for the packet it was shown.  A peek
\* that finds less than a header, or nothing, changes nothing.
PeekHeader ==
  /\ stage = "none" /\ Len(wire) >= HeaderLen
  /\ \E h \in Headers(Piece(wire, 0, HeaderLen)) : seen' = h.dwID
  /\ UNCHANGED <<setting, open, wire, sending, stage, asked, headerID, got, want, history>>

RecvPacket(id) ==
  /\ stage = "none"
  /\ seen # NoId => id = seen
  /\ asked' = id
  /\ IF protocol = "bin" THEN stage' = "peek" /\ want' = 0
                         ELSE stage' = "header" /\ want' = HeaderLen
  /\ UNCHANGED <<setting, open, wire, sending, headerID, got, seen, history>>

RecvReturns == /\ stage' = "none" /\ asked' = NoId /\ headerID' = NoId
               /\ got' = <<>> /\ want' = 0 /\ seen' = NoId

\* CBinProtocol takes what one recv with MSG_PEEK shows for a header.
BinPeek ==
  /\ stage = "peek"
  /\ \E n \in 1 .. Smaller(HeaderLen, Len(wire)) :
       /\ \E h \in Headers(Piece(wire, 0, n)) : want' = HeaderLen + h.dwLen
       /\ Record(n < HeaderLen, "short")
  /\ stage' = "body"
  /\ UNCHANGED <<setting, open, wire, sending, asked, headerID, got, seen, sent, answers>>

BinPeekTimesOut ==
  /\ stage = "peek"
  /\ RecvReturns
  /\ UNCHANGED <<setting, open, wire, sending, history>>

Reading == stage \in {"header", "body"}
Complete == IF stage = "header" THEN "headerRead" ELSE "bodyRead"

\* Asks recv for tBufSize instead of tRemained bytes.
BugRemained == want

Remained == want - Len(got)

\* recv gives what has arrived; a Recv that finds dwTimeOutTick passed returns
\* EC_TIMEOUT, and what it read of the packet is gone.
RecvSome ==
  /\ Reading
  /\ \E n \in 1 .. Smaller(Remained, Len(wire)) :
       /\ wire' = Piece(wire, n, Len(wire) - n)
       /\ \/ /\ n = Remained
             /\ stage' = Complete /\ got' = got \o Piece(wire, 0, n)
             /\ UNCHANGED <<asked, headerID, want, seen, fault>>
          \/ /\ n < Remained
             /\ got' = got \o Piece(wire, 0, n)
             /\ UNCHANGED <<stage, asked, headerID, want, seen, fault>>
          \/ /\ n < Remained
             /\ RecvReturns
             /\ Record(TRUE, "cut")
  /\ UNCHANGED <<setting, open, sending, sent, answers>>

\* The body is waited for without looking at the clock.
BugRecvTimesOut ==
  /\ stage = "header" /\ dwTimeOutFraction > 0
  /\ RecvReturns
  /\ Record(got # <<>>, "cut")
  /\ UNCHANGED <<setting, open, wire, sending, sent, answers>>

RecvTimesOut ==
  /\ Reading /\ dwTimeOutFraction > 0
  /\ RecvReturns
  /\ Record(got # <<>>, "cut")
  /\ UNCHANGED <<setting, open, wire, sending, sent, answers>>

\* The other end is gone and everything that arrived has been read: recv says
\* EC_DISCONNECTED, or that the connection was reset.
RecvFails ==
  /\ Reading \/ stage = "peek"
  /\ ~open /\ wire = <<>>
  /\ RecvReturns
  /\ UNCHANGED <<setting, open, wire, sending, history>>

Answer(p, ok) ==
  /\ RecvReturns
  /\ answers' = IF fault # NoFault THEN answers
                ELSE Append(answers, [packet |-> p, asked |-> asked, ok |-> ok])
  /\ UNCHANGED <<setting, open, wire, sending, sent, fault>>

\* Compares the ID before it reads the body.
BugJsonHeader ==
  /\ stage = "headerRead"
  /\ \E h \in Headers(got) :
       \/ /\ h.dwLen = 0
          /\ Answer(NoPacket, TRUE)
       \/ /\ h.dwLen > 0 /\ h.dwID # asked
          /\ Answer(got[1][1], FALSE)
       \/ /\ h.dwLen > 0 /\ h.dwID = asked
          /\ stage' = "body" /\ headerID' = h.dwID /\ want' = HeaderLen + h.dwLen
          /\ UNCHANGED <<setting, open, wire, sending, asked, got, seen, history>>

\* The header of CJsonProtocol and CUBJsonProtocol; without a body nothing is checked.
JsonHeader ==
  /\ stage = "headerRead"
  /\ \E h \in Headers(got) :
       \/ /\ h.dwLen = 0
          /\ Answer(NoPacket, TRUE)
       \/ /\ h.dwLen > 0
          /\ stage' = "body" /\ headerID' = h.dwID /\ want' = HeaderLen + h.dwLen
          /\ UNCHANGED <<setting, open, wire, sending, asked, got, seen, history>>

\* Bytes that are no body may pass for one.
JsonBody ==
  /\ stage = "bodyRead" /\ protocol = "json"
  /\ \/ headerID # asked /\ Answer(Held(got), FALSE)
     \/ headerID = asked /\ Answer(Held(got), TRUE)
     \/ Held(got) = NoPacket /\ Answer(NoPacket, FALSE)

\* Unpacketize looks at the ID only: the deserializer takes any bytes.
BinBody ==
  /\ stage = "bodyRead" /\ protocol = "bin"
  /\ \E h \in Headers(Piece(got, 0, HeaderLen)) : Answer(Held(got), h.dwID = asked)

Recv == \/ BinPeek \/ BinPeekTimesOut \/ RecvSome \/ RecvTimesOut \/ RecvFails
        \/ JsonHeader \/ JsonBody \/ BinBody

-----------------------------------------------------------------------------
(* The environment                                                         *)

\* One end closes its socket or dies: what has not arrived may be lost.
Break == /\ open /\ open' = FALSE
         /\ \E n \in 0 .. Len(wire) : wire' = Piece(wire, 0, n)
         /\ UNCHANGED <<setting, sending, receiving, history>>

Next == \/ \E s \in Senders : Send(s) \/ \E p \in Packets : SendPacket(s, p)
        \/ Recv \/ PeekHeader \/ \E id \in Ids : RecvPacket(id)
        \/ Break

Spec == Init /\ [][Next]_vars

\* Callers in a call are scheduled, and a worker that waits comes back after its fraction
\* of the time until the clock has passed the deadline; nobody has to call, and the
\* connection need not break.
FairSpec == /\ Spec
            /\ \A s \in Senders : WF_vars(Send(s)) /\ WF_vars(SendTimesOut(s))
            /\ WF_vars(Recv) /\ WF_vars(RecvTimesOut)

-----------------------------------------------------------------------------
(* Properties                                                              *)

\* Types; a Recv never writes past its buffer, a Send never reads past its own.
TypeOK ==
  /\ protocol \in Protocols /\ dwTimeOut \in TimeOuts /\ open \in BOOLEAN
  /\ wire \in Seq(Packets \X Nat) /\ Len(wire) <= Room
  /\ packet \in [Senders -> Packets \cup {NoPacket}]
  /\ tTotalSent \in [Senders -> Nat]
  /\ \A s \in Senders : packet[s] # NoPacket => tTotalSent[s] < Size(packet[s])
  /\ stage \in {"none", "peek", "header", "headerRead", "body", "bodyRead"}
  /\ asked \in Ids \cup {NoId} /\ headerID \in Ids \cup {NoId} /\ seen \in Ids \cup {NoId}
  /\ got \in Seq(Packets \X Nat) /\ want \in Nat /\ Len(got) <= want
  /\ sent \in Seq(Packets)
  /\ answers \in Seq([packet : Packets \cup {NoPacket}, asked : Ids, ok : BOOLEAN])
  /\ fault \in {NoFault, "cut", "mixed", "short"}

\* As long as no call was cut short in the middle of a packet, no two senders mixed
\* their pieces and CBinProtocol saw whole headers, what lies between the ends is
\* exactly the packets sent and not yet answered, in order (their tail is missing
\* once the connection broke, and while a sender is in the middle of one).
Laid(ps) == FlattenSeq([i \in 1 .. Len(ps) |-> Bytes(ps[i])])
Unanswered == SubSeq(sent, Len(answers) + 1, Len(sent))
ToCome == LET mid == {s \in Senders : MidPacket(s)}
          IN IF mid = {} THEN <<>>
             ELSE LET s == CHOOSE s \in mid : TRUE
                  IN Piece(Bytes(packet[s]), tTotalSent[s], Size(packet[s]) - tTotalSent[s])

Aligned == fault = NoFault =>
             /\ IsPrefix(got \o wire, Laid(Unanswered))
             /\ open => got \o wire \o ToCome = Laid(Unanswered)

\* Under the same condition every packet is answered at most once and in order, it
\* is delivered if and only if its ID is the one asked for, and PeekHeader shows
\* the ID of the packet the next RecvPacket takes: a call that timed out before
\* anything moved can be repeated, on either end.
InOrder == fault = NoFault =>
             /\ Len(answers) <= Len(sent)
             /\ \A i \in DOMAIN answers :
                  /\ answers[i].packet = sent[i]
                  /\ answers[i].ok <=> IdOf[sent[i]] = answers[i].asked
             /\ seen # NoId => /\ Len(answers) < Len(sent)
                               /\ seen = IdOf[sent[Len(answers) + 1]]

\* Every call returns, whatever the other end does: with a timeout of 2 or more,
\* since a fraction of 0 means to wait for ever.
CallsReturn ==
  /\ \A s \in Senders : packet[s] # NoPacket /\ dwTimeOut >= 2 ~> packet[s] = NoPacket
  /\ stage # "none" /\ dwTimeOut >= 2 ~> stage = "none"
=============================================================================
