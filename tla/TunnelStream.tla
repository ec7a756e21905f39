---------------------------- MODULE TunnelStream ----------------------------
(***************************************************************************)
(* One tunnel stream, from end to end: handle, pipe, handleStream,         *)
(* handleProbeStream and streamWithPrefix of internal/yggss/tunnel.go, and *)
(* serveDirectConn of direct.go, which does the same on the direct path.   *)
(*                                                                         *)
(*   local app --conn-- client ==QUIC stream== server --upstream-- dst     *)
(*                                                                         *)
(* Bytes are tokens.  A stream has one channel per direction on each leg;  *)
(* a QUIC channel holds at most Window bytes nobody has read (flow         *)
(* control), and closing a QUIC stream ends only its sending direction.    *)
(***************************************************************************)
EXTENDS Naturals, Sequences, SequencesExt

CONSTANTS Kinds,     \* what the stream may be opened for: "user", "probe"
          Byte,      \* the bytes
          Request,   \* the bytes the local application sends
          Reply,     \* the bytes the Shadowsocks server sends
          Window     \* receive window of a QUIC stream, in bytes

probePing == <<"Y", "!">>

ASSUME KindsAssumption == Kinds \subseteq {"user", "probe"}
ASSUME WindowAssumption == Window \in Nat /\ Window >= Len(probePing)
ASSUME ByteAssumption == {Request, Reply, probePing} \subseteq Seq(Byte)
ASSUME RequestAssumption == ~IsPrefix(probePing, Request) /\ ~IsPrefix(probePing, Reply)

Sides == {"client", "server"}
Copiers == {"cUp", "cDown", "sUp", "sDown"}   \* the two copyCount loops of each pipe
Nets == {"netUp", "netDown"}
Chans == Nets \cup {"appOut", "dstIn", "dstOut", "appIn"}

Side(c) == IF c \in {"cUp", "cDown"} THEN "client" ELSE "server"
From == [cUp |-> "appOut", sUp |-> "netUp", sDown |-> "dstOut", cDown |-> "netDown"]
To == [cUp |-> "netUp", sUp |-> "dstIn", sDown |-> "netDown", cDown |-> "appIn"]
StreamOut == [client |-> "netUp", server |-> "netDown"]
SocketOut == [client |-> "appIn", server |-> "dstIn"]
SocketIn == [client |-> "appOut", server |-> "dstOut"]

VARIABLES
  kind,    \* what the stream was opened for
  quic,    \* the QUIC connection: "open" or "dead"
  q,       \* per channel, the bytes under way; for appIn and dstIn, all that arrived
  fin,     \* per channel, whether its writer has closed it
  socket,  \* per side, whether the plugin holds its TCP connection open
  gone,    \* per side, whether the TCP peer (application, dst) has gone
  stalled, \* per side, whether the TCP peer's buffers are full and it does not read
  left,    \* per side, what the TCP peer has still to send
  handler, \* per side, where handle / handleStream is
  peeked,  \* server: the bytes read by handleProbeStream, still to be forwarded
  loop,    \* per copier, where its loop is
  buf,     \* per copier, the byte it has read and not yet written
  count,   \* client.rx and client.tx, each with its two counters
  echo     \* the probe's outcome

streamVars == <<quic, q, fin, socket, gone, stalled, left>>
vars == <<kind, streamVars, handler, peeked, loop, buf, count, echo>>

Init ==
  /\ kind \in Kinds /\ quic = "open"
  /\ q = [ch \in Chans |-> IF kind = "probe" /\ ch = "netUp" THEN probePing ELSE << >>]
  /\ fin = [ch \in Chans |-> FALSE]
  /\ socket = [s \in Sides |-> s = "client" /\ kind = "user"]
  /\ gone = [s \in Sides |-> FALSE] /\ stalled = [s \in Sides |-> FALSE]
  /\ left = [client |-> Request, server |-> Reply]
  /\ handler = [client |-> IF kind = "user" THEN "pipe" ELSE "probe", server |-> "accept"]
  /\ peeked = << >>
  /\ loop = [c \in Copiers |-> IF kind = "user" /\ Side(c) = "client" THEN "read" ELSE "off"]
  /\ buf = [c \in Copiers |-> "none"]
  /\ count = [rx |-> [rx |-> 0, tx |-> 0], tx |-> [rx |-> 0, tx |-> 0]]
  /\ echo = "none"

Broken(s, ch) == IF ch \in Nets THEN quic = "dead" ELSE ~socket[s]

\* The reader sees the end: everything written before the close has arrived.
AtEnd(ch) == /\ fin[ch] /\ q[ch] = << >>
             /\ \A c \in Copiers : ~(To[c] = ch /\ loop[c] = "sending")

Loop(c, p) == loop' = [loop EXCEPT ![c] = p]
Handler(s, p) == handler' = [handler EXCEPT ![s] = p]

-----------------------------------------------------------------------------
(* pipe: the copyCount loops *)

\* copyCount adds to the tx counter of whichever tunnelCounters it was given:
\* the loop that reads conn got &c.rx, the one that reads the stream &c.tx.
Count(c) == IF c = "cUp" THEN [count EXCEPT !.rx.tx = @ + 1]
            ELSE IF c = "cDown" THEN [count EXCEPT !.tx.tx = @ + 1] ELSE count

HasPrefix(c) == c = "sUp" /\ peeked # << >>

Take(c, b) == buf' = [buf EXCEPT ![c] = b] /\ count' = Count(c) /\ Loop(c, "write")

\* src.Read returns a byte: of the peeked prefix first, then of the channel.
CopyRead(c) ==
  /\ loop[c] = "read"
  /\ \/ HasPrefix(c) /\ Take(c, Head(peeked)) /\ peeked' = Tail(peeked) /\ UNCHANGED q
     \/ /\ ~HasPrefix(c) /\ ~Broken(Side(c), From[c]) /\ q[From[c]] # << >>
        /\ Take(c, Head(q[From[c]]))
        /\ q' = [q EXCEPT ![From[c]] = Tail(@)] /\ UNCHANGED peeked
  /\ UNCHANGED <<kind, quic, fin, socket, gone, stalled, left, handler, echo>>

\* The reader is at its end, or broken.  Faulty variant: it stops at a close
\* although bytes that came before it are still unread.
StopsAtClose(c) == Broken(Side(c), From[c]) \/ fin[From[c]]
ReadFails(c) == Broken(Side(c), From[c]) \/ AtEnd(From[c])

\* src.Read returns EOF or an error.
CopyEnds(c) ==
  /\ loop[c] = "read" /\ ~HasPrefix(c) /\ ReadFails(c)
  /\ Loop(c, "done")
  /\ UNCHANGED <<kind, streamVars, handler, peeked, buf, count, echo>>

\* dst.Write is called.  On a closed or dead endpoint it fails; a socket whose
\* peer has gone takes the byte, for nothing, or fails; a socket whose peer does not
\* read takes bytes until its buffers are full, and then waits; a stream waits for
\* its window.
CopyWrite(c) ==
  LET ch == To[c] failing == Broken(Side(c), ch) \/ fin[ch] IN
  /\ loop[c] = "write"
  /\ \/ failing /\ Loop(c, "done") /\ UNCHANGED <<q, stalled>>
     \/ ~failing /\ ch \in Nets /\ Loop(c, "sending") /\ UNCHANGED <<q, stalled>>
     \/ ~failing /\ ch \notin Nets /\ gone[Side(c)]
          /\ loop' \in {[loop EXCEPT ![c] = p] : p \in {"read", "done"}} /\ UNCHANGED <<q, stalled>>
     \/ ~failing /\ ch \notin Nets /\ ~gone[Side(c)] /\ ~stalled[Side(c)]
          /\ Loop(c, "read") /\ q' = [q EXCEPT ![ch] = Append(@, buf[c])]
          /\ \E full \in BOOLEAN : stalled' = [stalled EXCEPT ![Side(c)] = full]
  /\ UNCHANGED <<kind, quic, fin, socket, gone, left, handler, peeked, buf, count, echo>>

\* The stream write gets through, or the connection dies under it.  Close of
\* the stream meanwhile does not end it.
CopySent(c) ==
  /\ loop[c] = "sending"
  /\ \/ quic = "dead" /\ Loop(c, "done") /\ UNCHANGED q
     \/ /\ quic = "open" /\ Len(q[To[c]]) < Window
        /\ Loop(c, "read") /\ q' = [q EXCEPT ![To[c]] = Append(@, buf[c])]
  /\ UNCHANGED <<kind, quic, fin, socket, gone, stalled, left, handler, peeked, buf, count, echo>>

CloseBoth(s) == /\ fin' = [fin EXCEPT ![StreamOut[s]] = TRUE, ![SocketOut[s]] = TRUE]
                /\ socket' = [socket EXCEPT ![s] = FALSE]

OfSide(s) == {c \in Copiers : Side(c) = s}

\* The condition to close; the faulty variant waits for both directions.
BothDone(s) == \A c \in OfSide(s) : loop[c] = "done"
OneDone(s) == \E c \in OfSide(s) : loop[c] = "done"

\* pipe: one direction is done, both endpoints are closed, ...
PipeCloses(s) ==
  /\ handler[s] = "pipe" /\ OneDone(s)
  /\ CloseBoth(s) /\ Handler(s, "closing")
  /\ UNCHANGED <<kind, quic, q, gone, stalled, left, peeked, loop, buf, count, echo>>

\* ... and the handler returns when the other direction is done too.
PipeReturns(s) ==
  /\ handler[s] = "closing" /\ \A c \in OfSide(s) : loop[c] = "done"
  /\ Handler(s, "done")
  /\ UNCHANGED <<kind, streamVars, peeked, loop, buf, count, echo>>

-----------------------------------------------------------------------------
(* The server's handler *)

\* AcceptStream: possible before any byte of the stream arrives, since a
\* frame of a later stream opens the earlier ones.
AcceptStream ==
  /\ handler["server"] = "accept" /\ quic = "open"
  /\ Handler("server", "peek")
  /\ UNCHANGED <<kind, streamVars, peeked, loop, buf, count, echo>>

\* The peek reads len(probePing) bytes; the faulty variant, one too many.
PeekOneMore == Len(probePing) + 1
PeekSize == Len(probePing)

\* handleProbeStream: ReadFull of two bytes.
Peek ==
  /\ handler["server"] = "peek" /\ Len(peeked) < PeekSize
  /\ quic = "open" /\ q["netUp"] # << >>
  /\ peeked' = Append(peeked, Head(q["netUp"]))
  /\ q' = [q EXCEPT !["netUp"] = Tail(@)]
  /\ UNCHANGED <<kind, quic, fin, socket, gone, stalled, left, handler, loop, buf, count, echo>>

\* The signature is echoed and the handler returns, closing the stream.
EchoProbe ==
  /\ handler["server"] = "peek" /\ peeked = probePing
  /\ q' = IF quic = "open" THEN [q EXCEPT !["netDown"] = @ \o probePing] ELSE q
  /\ fin' = [fin EXCEPT !["netDown"] = TRUE] /\ Handler("server", "done")
  /\ UNCHANGED <<kind, quic, socket, gone, stalled, left, peeked, loop, buf, count, echo>>

\* What the peek consumed is forwarded first; the faulty variant drops it.
DropPeeked == << >>
Prefix == peeked

\* ReadFull is over without the signature (two other bytes, the 2 s deadline,
\* EOF or an error), and dst is dialled: the pipe starts with the consumed
\* bytes in front, or the handler returns.
DialDst ==
  /\ handler["server"] = "peek" /\ peeked # probePing
  /\ \/ /\ Handler("server", "pipe") /\ peeked' = Prefix
        /\ socket' = [socket EXCEPT !["server"] = TRUE]
        /\ loop' = [loop EXCEPT !["sUp"] = "read", !["sDown"] = "read"]
        /\ UNCHANGED fin
     \/ /\ Handler("server", "done")
        /\ fin' = [fin EXCEPT !["netDown"] = TRUE]
        /\ UNCHANGED <<peeked, socket, loop>>
  /\ UNCHANGED <<kind, quic, q, gone, stalled, left, buf, count, echo>>

\* The answer the prober reads is its ping; the faulty variant takes any answer.
AnyAnswer == Len(q["netDown"]) >= Len(probePing)
EchoMatches == IsPrefix(probePing, q["netDown"])

\* The prober reads the echo, or its deadline passes; it closes the stream.
ProbeEnds ==
  /\ handler["client"] = "probe"
  /\ echo' \in {"failed"} \cup (IF quic = "open" /\ EchoMatches THEN {"ok"} ELSE {})
  /\ fin' = [fin EXCEPT !["netUp"] = TRUE] /\ Handler("client", "done")
  /\ UNCHANGED <<kind, quic, q, socket, gone, stalled, left, peeked, loop, buf, count>>

-----------------------------------------------------------------------------
(* The application, dst and the network *)

\* The TCP peer of a side sends a byte, ...
PeerSends(s) ==
  /\ socket[s] /\ ~fin[SocketIn[s]] /\ left[s] # << >>
  /\ q' = [q EXCEPT ![SocketIn[s]] = Append(@, Head(left[s]))]
  /\ left' = [left EXCEPT ![s] = Tail(@)]
  /\ UNCHANGED <<kind, quic, fin, socket, gone, stalled, handler, peeked, loop, buf, count, echo>>

\* ... shuts down its sending direction, or closes altogether.
PeerCloses(s) ==
  /\ socket[s] /\ ~gone[s]
  /\ \/ ~fin[SocketIn[s]] /\ UNCHANGED gone
     \/ gone' = [gone EXCEPT ![s] = TRUE]
  /\ fin' = [fin EXCEPT ![SocketIn[s]] = TRUE]
  /\ UNCHANGED <<kind, quic, q, socket, stalled, left, handler, peeked, loop, buf, count, echo>>

\* A peer that stays connected and does not read, until it reads again and the
\* write may go on.
Stuck(s) == socket[s] /\ ~gone[s] /\ stalled[s]

PeerReads(s) ==
  /\ Stuck(s) /\ stalled' = [stalled EXCEPT ![s] = FALSE]
  /\ UNCHANGED <<kind, quic, q, fin, socket, gone, left, handler, peeked, loop, buf, count, echo>>

QuicDies ==
  /\ quic = "open" /\ quic' = "dead"
  /\ UNCHANGED <<kind, q, fin, socket, gone, stalled, left, handler, peeked, loop, buf, count, echo>>

-----------------------------------------------------------------------------
CopyStep(c) == CopyRead(c) \/ CopyEnds(c) \/ CopyWrite(c) \/ CopySent(c)
PipeStep(s) == PipeCloses(s) \/ PipeReturns(s)
ServerStep == AcceptStream \/ Peek \/ EchoProbe \/ DialDst

Next == \/ \E c \in Copiers : CopyStep(c)
        \/ \E s \in Sides : PipeStep(s) \/ PeerSends(s) \/ PeerCloses(s) \/ PeerReads(s)
        \/ ServerStep \/ ProbeEnds \/ QuicDies

Spec == Init /\ [][Next]_vars

\* Goroutines run, the dial and the reads with a deadline return.  Nothing is
\* assumed of the application, of dst or of the connection, not that a peer reads
\* either: the property that needs it says so.
Fairness == /\ \A c \in Copiers : WF_vars(CopyStep(c))
            /\ \A s \in Sides : WF_vars(PipeStep(s))
            /\ WF_vars(ServerStep) /\ WF_vars(ProbeEnds)

FairSpec == Spec /\ Fairness

-----------------------------------------------------------------------------
(* Properties *)

TypeOK ==
  /\ kind \in Kinds /\ quic \in {"open", "dead"}
  /\ DOMAIN q = Chans /\ \A ch \in Nets : Len(q[ch]) <= Window
  /\ fin \in [Chans -> BOOLEAN]
  /\ {socket, gone, stalled} \subseteq [Sides -> BOOLEAN]
  /\ IsSuffix(left["client"], Request) /\ IsSuffix(left["server"], Reply)
  /\ handler \in [Sides -> {"accept", "peek", "pipe", "probe", "closing", "done"}]
  /\ Len(peeked) <= Len(probePing)
  /\ loop \in [Copiers -> {"off", "read", "write", "sending", "done"}]
  /\ echo \in {"none", "ok", "failed"}

\* Whatever is peeked, timed out, half-closed or cut off, dst and the
\* application receive a prefix of what the other end sent: nothing is lost
\* in the middle, repeated or reordered (tunnel.go:221-223, 122-124).
Intact ==
  /\ kind = "user" => IsPrefix(q["dstIn"], Request)
  /\ IsPrefix(q["appIn"], Reply)

\* An application that has not closed, on a connection that stays up, whose
\* whole request arrived, gets all that dst sent before its own connection is
\* closed: the end of one direction does not truncate the other one.
ReplyComplete ==
  (/\ kind = "user" /\ ~socket["client"] /\ ~fin["appOut"] /\ quic = "open"
   /\ q["dstIn"] = Request)
     => q["appIn"] \o left["server"] = Reply

\* A probe that arrives too late for the peek is forwarded and may be answered by
\* dst; the path is verified only by a probe that the plugin itself answered and
\* that never reached dst (direct.go:141-143, 729-735; tunnel.go:204-220).
VerifiedByPlugin == echo = "ok" => q["dstIn"] = << >> /\ ~socket["server"]

\* When one end of a user stream goes (application, dst, or the connection
\* under it), both machines close what they hold of it: no application is
\* left hanging on a stream that is gone (tunnel.go:126-130).  Only for peers that
\* do not stop reading for good: behind one that stays and never reads again, its
\* loop waits in Write and may notice nothing.
BothEndsClose ==
  (\A s \in Sides : []<>(~Stuck(s))) =>
    ((kind = "user" /\ (fin["appOut"] \/ fin["dstOut"] \/ quic = "dead"))
       ~> \A s \in Sides : handler[s] \in {"closing", "done"} \/ (handler[s] = "accept" /\ quic = "dead"))

-----------------------------------------------------------------------------
(* What the comments promise and the code does not keep *)

\* What report prints as rx covers what reached the application, and what it
\* prints as tx is no more than the application sent ("rx = from server to
\* local apps, tx = to server", stats.go:21-22).
TrafficReported == /\ Len(q["appIn"]) <= count.rx.rx
                   /\ count.tx.tx + Len(left["client"]) <= Len(Request)

\* "As soon as ONE direction finishes (EOF or error), both endpoints are
\* closed" (tunnel.go:126-127), so the other direction finishes as well and
\* pipe returns.
PipesReturn ==
  \A s \in Sides : handler[s] = "closing" ~> handler[s] = "done"
=============================================================================
