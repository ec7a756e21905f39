------------------------- MODULE TunnelStreamProofs -------------------------
(***************************************************************************)
(* Machine-checked proofs about TunnelStream, for any request, any reply   *)
(* and any receive window.                                                 *)
(***************************************************************************)
EXTENDS TunnelStream, SequenceTheorems, TLAPS

-----------------------------------------------------------------------------
(* Sequences of bytes.                                                     *)

Bytes == Seq(Byte)

(* s followed by t. *)
s ++ t == s \o t

(* s is what t begins with, and what t ends with. *)
Begins(s, t) == \E r \in Bytes : s ++ r = t
Ends(s, t) == \E r \in Bytes : r ++ s = t

(* A single byte, the ping and nothing are byte sequences. *)
LEMMA Bits ==
  /\ << >> \in Bytes /\ probePing \in Bytes /\ Len(probePing) = 2
  /\ Request \in Bytes /\ Reply \in Bytes
  /\ \A x \in Byte : <<x>> \in Bytes
<1>1. << >> \in Bytes
  BY EmptySeq DEF Bytes
<1>2. \A x : Append(<< >>, x) = <<x>>
  OBVIOUS
<1>3. \A x \in Byte : <<x>> \in Bytes
  BY <1>1, <1>2, AppendProperties DEF Bytes
<1>4. probePing \in Bytes /\ Len(probePing) = 2
  BY ByteAssumption DEF probePing, Bytes
<1> QED
  BY <1>1, <1>3, <1>4, ByteAssumption DEF Bytes

(* Concatenation yields bytes. *)
LEMMA Joins == \A s, t \in Bytes : s ++ t \in Bytes
BY ConcatProperties DEF Bytes, ++

(* It is associative. *)
LEMMA Assoc == \A s, t, u \in Bytes : (s ++ t) ++ u = s ++ (t ++ u)
BY ConcatAssociative DEF Bytes, ++

(* Nothing is its unit. *)
LEMMA Unit == \A s \in Bytes : s ++ << >> = s /\ << >> ++ s = s
BY ConcatEmptySeq DEF Bytes, ++

(* Reading a byte takes it off the front, writing puts it at the back. *)
LEMMA ReadWrite ==
  /\ \A s \in Bytes : s # << >> =>
       Head(s) \in Byte /\ Tail(s) \in Bytes /\ s = <<Head(s)>> ++ Tail(s)
  /\ \A s \in Bytes, x \in Byte : Append(s, x) \in Bytes /\ Append(s, x) = s ++ <<x>>
<1>1. ASSUME NEW s \in Bytes, s # << >>
      PROVE  Head(s) \in Byte /\ Tail(s) \in Bytes /\ s = <<Head(s)>> ++ Tail(s)
  <2>1. Head(s) \in Byte /\ Tail(s) \in Bytes /\ Len(Tail(s)) = Len(s) - 1
    BY <1>1, HeadTailProperties DEF Bytes
  <2>2. Len(s) \in Nat /\ 1 <= Len(s) /\ s[1] = Head(s) /\ SubSeq(s, 1, Len(s)) = s
    BY <1>1, EmptySeq, SubSeqFull DEF Bytes
  <2>3. Tail(s) = SubSeq(s, 2, Len(s))
    BY <1>1, TailIsSubSeq DEF Bytes
  <2>4. SubSeq(s, 1, Len(s)) = <<s[1]>> ++ SubSeq(s, 2, Len(s))
    BY <2>2, SubSeqRecursiveFirst DEF Bytes, ++
  <2> QED
    BY <2>1, <2>2, <2>3, <2>4
<1>2. ASSUME NEW s \in Bytes, NEW x \in Byte
      PROVE  Append(s, x) \in Bytes /\ Append(s, x) = s ++ <<x>>
  BY AppendIsConcat, AppendProperties DEF Bytes, ++
<1> QED
  BY <1>1, <1>2

(* What begins with a sequence has it as a prefix, and the other way round. *)
LEMMA PrefixOf ==
  ASSUME NEW s \in Bytes, NEW t \in Bytes
  PROVE  Begins(s, t) <=> IsPrefix(s, t)
<1>1. ASSUME Begins(s, t) PROVE IsPrefix(s, t)
  <2>1. PICK r \in Bytes : s ++ r = t
    BY <1>1 DEF Begins
  <2>2. Len(s) \in Nat /\ Len(t) = Len(s) + Len(r) /\ Len(r) \in Nat
    BY <2>1, ConcatProperties, LenProperties DEF Bytes, ++
  <2>3. SubSeq(t, 1, Len(s)) = SubSeq(s, 1, Len(s))
    <3>1. CASE Len(s) = 0
      BY <3>1, SubSeqEmpty
    <3>2. CASE Len(s) # 0
      BY <2>1, <2>2, <3>2, SubSeqOfConcat1 DEF Bytes, ++
    <3> QED
      BY <3>1, <3>2
  <2> QED
    BY <2>2, <2>3 DEF IsPrefix
<1>2. ASSUME IsPrefix(s, t) PROVE Begins(s, t)
  <2>1. /\ Len(s) \in Nat /\ Len(t) \in Nat /\ Len(s) <= Len(t)
        /\ SubSeq(s, 1, Len(s)) = SubSeq(t, 1, Len(s))
    BY <1>2, LenProperties DEF Bytes, IsPrefix
  <2>2. SubSeq(t, 1, Len(s)) ++ SubSeq(t, Len(s) + 1, Len(t)) = SubSeq(t, 1, Len(t))
    <3>1. /\ 1 \in 1..(Len(t) + 1) /\ Len(s) \in (1 - 1)..Len(t)
          /\ Len(t) \in Len(s)..Len(t)
      BY <2>1
    <3> QED
      BY <3>1, ConcatAdjacentSubSeq DEF Bytes, ++
  <2>3. SubSeq(t, Len(s) + 1, Len(t)) \in Bytes
    BY <2>1, SubSeqProperties, ElementOfSeq DEF Bytes
  <2>4. SubSeq(t, 1, Len(t)) = t /\ SubSeq(s, 1, Len(s)) = s
    BY SubSeqFull DEF Bytes
  <2> QED
    BY <2>1, <2>2, <2>3, <2>4 DEF Begins
<1> QED
  BY <1>1, <1>2

(* What ends with a sequence has it as a suffix. *)
LEMMA SuffixOf ==
  ASSUME NEW s \in Bytes, NEW t \in Bytes, Ends(s, t)
  PROVE  IsSuffix(s, t)
<1>1. PICK r \in Bytes : r ++ s = t
  BY DEF Ends
<1>2. /\ Len(s) \in Nat /\ Len(r) \in Nat /\ Len(t) = Len(r) + Len(s)
      /\ \A i \in 1..Len(t) : t[i] = IF i <= Len(r) THEN r[i] ELSE s[i - Len(r)]
  BY <1>1, ConcatProperties, LenProperties DEF Bytes, ++
<1>3. /\ Reverse(s) \in Bytes /\ Len(Reverse(s)) = Len(s)
      /\ \A i \in 1..Len(s) : Reverse(s)[i] = s[Len(s) - i + 1]
  BY <1>2, LenProperties DEF Reverse, Bytes
<1>4. /\ Reverse(t) \in Bytes /\ Len(Reverse(t)) = Len(t)
      /\ \A i \in 1..Len(t) : Reverse(t)[i] = t[Len(t) - i + 1]
  BY <1>2, LenProperties DEF Reverse, Bytes
<1>5. ASSUME NEW i \in 1..Len(s) PROVE Reverse(s)[i] = Reverse(t)[i]
  <2>0. Len(s) \in Nat /\ Len(r) \in Nat /\ Len(t) = Len(r) + Len(s)
    BY <1>2
  <2>1. PICK j \in Int : j = Len(t) - i + 1
    BY <2>0
  <2>2. i \in 1..Len(t) /\ j \in 1..Len(t) /\ ~(j <= Len(r)) /\ j - Len(r) = Len(s) - i + 1
    BY <2>0, <2>1
  <2>3. Reverse(t)[i] = t[j] /\ t[j] = s[j - Len(r)]
    BY <1>2, <1>4, <2>1, <2>2
  <2> QED
    BY <1>3, <2>2, <2>3
<1>6. SubSeq(Reverse(s), 1, Len(s)) = SubSeq(Reverse(t), 1, Len(s))
  BY <1>2, <1>3, <1>4, <1>5, SubSeqProperties, SeqEqual DEF Bytes
<1> QED
  BY <1>2, <1>3, <1>4, <1>6 DEF IsSuffix, IsPrefix

-----------------------------------------------------------------------------
(* The invariant.                                                          *)

Types ==
  /\ kind \in {"user", "probe"} \cap Kinds /\ quic \in {"open", "dead"}
  /\ q \in [Chans -> Bytes] /\ fin \in [Chans -> BOOLEAN]
  /\ socket \in [Sides -> BOOLEAN] /\ gone \in [Sides -> BOOLEAN] /\ stalled \in [Sides -> BOOLEAN]
  /\ left \in [Sides -> Bytes]
  /\ handler \in [Sides -> {"accept", "peek", "pipe", "probe", "closing", "done"}]
  /\ peeked \in Bytes
  /\ loop \in [Copiers -> {"off", "read", "write", "sending", "done"}]
  /\ buf \in [Copiers -> Byte \cup {"none"}]
  /\ \A c \in Copiers : loop[c] \in {"write", "sending"} => buf[c] \in Byte
  /\ echo \in {"none", "ok", "failed"}

(* What the peers have still to send is the end of what they wanted to send, and
   no channel exceeds its window, nor the peek its buffer. *)
Limits ==
  /\ Ends(left["client"], Request) /\ Ends(left["server"], Reply)
  /\ Len(q["netUp"]) <= Window /\ Len(q["netDown"]) <= Window
  /\ Len(peeked) <= 2

(* What the handlers hold, by where they are. *)
ClientShape ==
  /\ kind = "user" => /\ handler["client"] \in {"pipe", "closing", "done"}
                      /\ handler["client"] = "pipe" <=> socket["client"]
                      /\ fin["netUp"] => ~socket["client"]
                      /\ fin["appIn"] => ~socket["client"]
  /\ kind = "probe" => /\ handler["client"] \in {"probe", "done"} /\ ~socket["client"]
                       /\ loop["cUp"] = "off" /\ loop["cDown"] = "off" /\ q["appIn"] = << >>
  /\ gone["client"] => fin["appOut"] /\ kind = "user"
  /\ loop["cDown"] # "sending"

ServerShape ==
  /\ handler["server"] # "probe"
  /\ handler["server"] = "pipe" <=> socket["server"]
  /\ fin["netDown"] <=> handler["server"] \in {"closing", "done"}
  /\ handler["server"] \in {"accept", "peek"} =>
       /\ loop["sUp"] = "off" /\ loop["sDown"] = "off" /\ ~gone["server"]
       /\ q["dstIn"] = << >> /\ q["netDown"] = << >>
  /\ loop["sUp"] # "sending"
  /\ socket["server"] => loop["sDown"] # "off"
  /\ loop["sDown"] = "off" => q["dstOut"] = << >>

(* The byte a copier has read and not written. *)
Hand(c) == IF loop[c] \in {"write", "sending"} THEN <<buf[c]>> ELSE << >>

(* What the last copier of a direction has delivered or can still get hold of, and
   what the first one has not sent yet. *)
Held(a, b, c, d) == a ++ (b ++ (c ++ d))
Ahead(e, f, g) == e ++ (f ++ g)

HeldUp == Held(q["dstIn"], Hand("sUp"), peeked, q["netUp"])
AheadUp == Ahead(Hand("cUp"), q["appOut"], left["client"])
HeldDown == Held(q["appIn"], Hand("cDown"), << >>, q["netDown"])
AheadDown == Ahead(Hand("sDown"), q["dstOut"], left["server"])

(* The request: until the last copier loses a byte, what it has delivered and can
   get hold of begins the request; until the first one does, nothing is missing. *)
LastUp == loop["sUp"] # "done" /\ (gone["server"] => q["dstIn"] = Request)
FirstUp == loop["cUp"] # "done"

Up ==
  kind = "user" => /\ Begins(q["dstIn"], Request)
                   /\ LastUp => Begins(HeldUp, Request)
                   /\ LastUp /\ FirstUp => HeldUp ++ AheadUp = Request

(* Neither the application nor the connection has ended the stream. *)
Undisturbed == kind = "user" /\ ~fin["appOut"] /\ quic = "open"

(* The server has not closed its ends because of the request. *)
Clean == Undisturbed /\ (socket["server"] \/ q["dstIn"] = Request)

(* The reply: the same, and a copier that ended cleanly has lost nothing either. *)
LastDown == ~gone["client"] /\ (loop["cDown"] # "done" \/ Undisturbed)
FirstDown == loop["sDown"] # "done" \/ Clean

Down ==
  /\ Begins(q["appIn"], Reply)
  /\ LastDown => Begins(HeldDown, Reply)
  /\ LastDown /\ FirstDown => HeldDown ++ AheadDown = Reply

(* The plugin answered the probe itself. *)
Answered ==
  /\ kind = "probe" /\ handler["server"] = "done" /\ ~socket["server"]
  /\ loop["sUp"] = "off" /\ loop["sDown"] = "off"
  /\ q["dstIn"] = << >> /\ q["appIn"] = << >> /\ q["netDown"] = probePing

Answers == (Answered \/ Down) /\ (echo = "ok" => Answered)

(* In what order an undisturbed stream is taken down: dst first, then the server's
   ends, then the client's. *)
TakenDown ==
  /\ Undisturbed /\ loop["cUp"] = "done" => ~socket["client"]
  /\ Undisturbed /\ ~socket["client"] => loop["cDown"] = "done"
  /\ Undisturbed /\ loop["cDown"] = "done" =>
       fin["netDown"] /\ q["netDown"] = << >> /\ loop["sDown"] # "sending"
  /\ Clean /\ fin["netDown"] => loop["sDown"] \in {"off", "done"}
  /\ Clean /\ loop["sDown"] = "done" => q["dstOut"] = << >> /\ fin["dstOut"]
  /\ kind = "user" /\ loop["sUp"] = "done" /\ q["dstIn"] = Request =>
       quic = "dead" \/ fin["netUp"]

Inv == Types /\ Limits /\ ClientShape /\ ServerShape /\ Up /\ Answers /\ TakenDown

-----------------------------------------------------------------------------
(* How bytes move.                                                         *)

USE DEF Sides, Copiers, Nets, Chans

(* Who reads and writes what. *)
LEMMA Wires ==
  /\ From["cUp"] = "appOut" /\ From["sUp"] = "netUp"
  /\ From["sDown"] = "dstOut" /\ From["cDown"] = "netDown"
  /\ To["cUp"] = "netUp" /\ To["sUp"] = "dstIn" /\ To["sDown"] = "netDown" /\ To["cDown"] = "appIn"
  /\ Side("cUp") = "client" /\ Side("cDown") = "client"
  /\ Side("sUp") = "server" /\ Side("sDown") = "server"
  /\ StreamOut["client"] = "netUp" /\ StreamOut["server"] = "netDown"
  /\ SocketOut["client"] = "appIn" /\ SocketOut["server"] = "dstIn"
  /\ SocketIn["client"] = "appOut" /\ SocketIn["server"] = "dstOut"
BY DEF From, To, Side, StreamOut, SocketOut, SocketIn

(* Reading and writing on the way to the receiver loses nothing. *)
LEMMA HeldSized ==
  ASSUME NEW a \in Bytes, NEW b \in Bytes, NEW c \in Bytes, NEW d \in Bytes
  PROVE  Held(a, b, c, d) \in Bytes
BY Joins DEF Held

(* The receiver gets a byte. *)
LEMMA HeldWrite ==
  ASSUME NEW a \in Bytes, NEW c \in Bytes, NEW d \in Bytes, NEW x \in Byte
  PROVE  Held(Append(a, x), << >>, c, d) = Held(a, <<x>>, c, d)
<1>1. Append(a, x) = a ++ <<x>> /\ <<x>> \in Bytes /\ c ++ d \in Bytes
  BY ReadWrite, Bits, Joins, Assoc
<1>2. << >> ++ (c ++ d) = c ++ d /\ (a ++ <<x>>) ++ (c ++ d) = a ++ (<<x>> ++ (c ++ d))
  BY <1>1, Unit, Assoc
<1> QED
  BY <1>1, <1>2 DEF Held

(* The last copier reads the peeked bytes first, ... *)
LEMMA HeldFirst ==
  ASSUME NEW a \in Bytes, NEW c \in Bytes, NEW d \in Bytes, c # << >>
  PROVE  Held(a, <<Head(c)>>, Tail(c), d) = Held(a, << >>, c, d)
<1>1. c = <<Head(c)>> ++ Tail(c) /\ <<Head(c)>> \in Bytes /\ Tail(c) \in Bytes
  BY ReadWrite, Bits
<1>2. (<<Head(c)>> ++ Tail(c)) ++ d = <<Head(c)>> ++ (Tail(c) ++ d)
  BY <1>1, Assoc
<1>3. c ++ d \in Bytes /\ << >> ++ (c ++ d) = c ++ d
  BY Joins, Unit, Assoc
<1> QED
  BY <1>1, <1>2, <1>3 DEF Held

(* ... then the stream. *)
LEMMA HeldRead ==
  ASSUME NEW a \in Bytes, NEW d \in Bytes, d # << >>
  PROVE  Held(a, <<Head(d)>>, << >>, Tail(d)) = Held(a, << >>, << >>, d)
<1>1. d = <<Head(d)>> ++ Tail(d) /\ Tail(d) \in Bytes
  BY ReadWrite
<1>2. << >> ++ Tail(d) = Tail(d) /\ << >> ++ d = d
  BY <1>1, Unit, Assoc
<1> QED
  BY <1>1, <1>2 DEF Held

(* The peek takes a byte off the stream. *)
LEMMA HeldPeek ==
  ASSUME NEW a \in Bytes, NEW b \in Bytes, NEW c \in Bytes, NEW d \in Bytes, d # << >>
  PROVE  Held(a, b, Append(c, Head(d)), Tail(d)) = Held(a, b, c, d)
<1>1. d = <<Head(d)>> ++ Tail(d) /\ <<Head(d)>> \in Bytes /\ Tail(d) \in Bytes
      /\ Append(c, Head(d)) = c ++ <<Head(d)>>
  BY ReadWrite, Bits
<1>2. (c ++ <<Head(d)>>) ++ Tail(d) = c ++ (<<Head(d)>> ++ Tail(d))
  BY <1>1, Assoc
<1> QED
  BY <1>1, <1>2 DEF Held

(* The same on the way from the sender. *)
LEMMA AheadMoves ==
  /\ \A e, f, g \in Bytes : Ahead(e, f, g) \in Bytes
  /\ \A f, g \in Bytes : f # << >> => Ahead(<<Head(f)>>, Tail(f), g) = Ahead(<< >>, f, g)
  /\ \A e, f, g \in Bytes : g # << >> => Ahead(e, Append(f, Head(g)), Tail(g)) = Ahead(e, f, g)
<1>1. \A e, f, g \in Bytes : Ahead(e, f, g) \in Bytes
  BY Joins DEF Ahead
<1>2. ASSUME NEW f \in Bytes, NEW g \in Bytes, f # << >>
      PROVE  Ahead(<<Head(f)>>, Tail(f), g) = Ahead(<< >>, f, g)
  <2>1. f = <<Head(f)>> ++ Tail(f) /\ <<Head(f)>> \in Bytes /\ Tail(f) \in Bytes
    BY <1>2, ReadWrite, Bits
  <2>2. (<<Head(f)>> ++ Tail(f)) ++ g = <<Head(f)>> ++ (Tail(f) ++ g)
    BY <2>1, Assoc
  <2>3. f ++ g \in Bytes /\ << >> ++ (f ++ g) = f ++ g
    BY Joins, Unit, Assoc
  <2> QED
    BY <2>1, <2>2, <2>3 DEF Ahead
<1>3. ASSUME NEW e \in Bytes, NEW f \in Bytes, NEW g \in Bytes, g # << >>
      PROVE  Ahead(e, Append(f, Head(g)), Tail(g)) = Ahead(e, f, g)
  <2>1. g = <<Head(g)>> ++ Tail(g) /\ <<Head(g)>> \in Bytes /\ Tail(g) \in Bytes
        /\ Append(f, Head(g)) = f ++ <<Head(g)>>
    BY <1>3, ReadWrite, Bits
  <2>2. (f ++ <<Head(g)>>) ++ Tail(g) = f ++ (<<Head(g)>> ++ Tail(g))
    BY <2>1, Assoc
  <2> QED
    BY <2>1, <2>2 DEF Ahead
<1> QED
  BY <1>1, <1>2, <1>3

(* A byte that gets through the QUIC stream arrives behind what is held ... *)
LEMMA HeldSent ==
  ASSUME NEW a \in Bytes, NEW b \in Bytes, NEW c \in Bytes, NEW d \in Bytes, NEW y \in Bytes
  PROVE  Held(a, b, c, d ++ y) = Held(a, b, c, d) ++ y
<1>1. PICK h \in Bytes : h = c ++ d
  BY Joins
<1>2. c ++ (d ++ y) = h ++ y
  BY <1>1, Assoc
<1>3. PICK k \in Bytes : k = b ++ h
  BY Joins
<1>4. (b ++ h) ++ y = b ++ (h ++ y)
  BY Assoc
<1>5. a ++ (k ++ y) = (a ++ k) ++ y
  BY Assoc
<1> QED
  BY <1>1, <1>2, <1>3, <1>4, <1>5 DEF Held

(* ... and was at the front of what was ahead. *)
LEMMA AheadSent ==
  ASSUME NEW f \in Bytes, NEW g \in Bytes, NEW x \in Byte
  PROVE  Ahead(<<x>>, f, g) = <<x>> ++ Ahead(<< >>, f, g)
BY Joins, Unit DEF Ahead

(* So nothing is lost on the way. *)
LEMMA Crosses ==
  ASSUME NEW h \in Bytes, NEW r \in Bytes, NEW x \in Byte
  PROVE  (h ++ <<x>>) ++ r = h ++ (<<x>> ++ r)
BY Assoc, Bits

(* What was delivered begins what is held. *)
LEMMA DeliveredFirst ==
  ASSUME NEW a \in Bytes, NEW b \in Bytes, NEW c \in Bytes, NEW d \in Bytes, NEW t \in Bytes,
         Begins(Held(a, b, c, d), t)
  PROVE  Begins(a, t)
<1>1. PICK r \in Bytes : Held(a, b, c, d) ++ r = t
  BY DEF Begins
<1>2. b ++ (c ++ d) \in Bytes /\ (b ++ (c ++ d)) ++ r \in Bytes
  BY Joins, Assoc
<1>3. a ++ ((b ++ (c ++ d)) ++ r) = t
  BY <1>1, <1>2, Assoc DEF Held
<1> QED
  BY <1>2, <1>3 DEF Begins

(* Lengths, as reading and writing change them. *)
LEMMA Lengths ==
  /\ \A s \in Bytes : Len(s) \in Nat /\ (s # << >> => Len(Tail(s)) + 1 = Len(s))
  /\ \A s \in Bytes, x \in Byte : Len(Append(s, x)) = Len(s) + 1
  /\ Len(<< >>) = 0
<1>1. ASSUME NEW s \in Bytes PROVE Len(s) \in Nat /\ (s # << >> => Len(Tail(s)) + 1 = Len(s))
  <2>1. Len(s) \in Nat
    BY LenProperties DEF Bytes
  <2>2. s # << >> => Len(Tail(s)) = Len(s) - 1
    BY HeadTailProperties DEF Bytes
  <2> QED
    BY <2>1, <2>2
<1>2. \A s \in Bytes, x \in Byte : Len(Append(s, x)) = Len(s) + 1
  BY AppendProperties DEF Bytes
<1> QED
  BY <1>1, <1>2, EmptySeq

(* Every variable keeps its type, step by step. *)
THEOREM Typing == Spec => []Types
<1> USE Bits
<1>1. Init => Types
  BY KindsAssumption DEF Init, Types
<1>2. Types /\ [Next]_vars => Types'
  <2> SUFFICES ASSUME Types, [Next]_vars PROVE Types'
    OBVIOUS
  <2> USE DEF Types
  <2>1. ASSUME NEW c \in Copiers, CopyRead(c) PROVE Types'
    <3>1. From[c] \in Chans
      BY Wires
    <3>2. ASSUME NEW b \in Byte, Take(c, b)
          PROVE  /\ buf' \in [Copiers -> Byte \cup {"none"}]
                 /\ loop' \in [Copiers -> {"off", "read", "write", "sending", "done"}]
                 /\ \A d \in Copiers : loop'[d] \in {"write", "sending"} => buf'[d] \in Byte
      BY <3>2 DEF Take, Loop
    <3>3. CASE HasPrefix(c)
      <4>1. Head(peeked) \in Byte /\ Tail(peeked) \in Bytes
        BY <3>3, ReadWrite DEF HasPrefix
      <4> QED
        BY <2>1, <3>2, <3>3, <4>1 DEF CopyRead
    <3>4. CASE ~HasPrefix(c)
      <4>1. q[From[c]] \in Bytes /\ q[From[c]] # << >> /\ Take(c, Head(q[From[c]]))
            /\ q' = [q EXCEPT ![From[c]] = Tail(@)]
        BY <2>1, <3>1, <3>4 DEF CopyRead
      <4>2. Head(q[From[c]]) \in Byte /\ Tail(q[From[c]]) \in Bytes
        BY <4>1, ReadWrite
      <4>3. q' \in [Chans -> Bytes]
        BY <3>1, <4>1, <4>2
      <4> QED
        BY <2>1, <3>2, <3>4, <4>1, <4>2, <4>3 DEF CopyRead
    <3> QED
      BY <3>3, <3>4
  <2>2. ASSUME NEW c \in Copiers, CopyEnds(c) PROVE Types'
    BY <2>2 DEF CopyEnds, Loop, streamVars
  <2>3. ASSUME NEW c \in Copiers, CopyWrite(c) \/ CopySent(c) PROVE Types'
    <3>1. To[c] \in Chans /\ buf[c] \in Byte
      BY <2>3, Wires DEF CopyWrite, CopySent
    <3>2. Append(q[To[c]], buf[c]) \in Bytes
      BY <3>1, ReadWrite
    <3>3. q' \in [Chans -> Bytes]
      BY <2>3, <3>1, <3>2 DEF CopyWrite, CopySent
    <3>4. /\ loop' \in [Copiers -> {"off", "read", "write", "sending", "done"}]
          /\ \A d \in Copiers : loop'[d] \in {"write", "sending"} =>
                                  d = c \/ loop[d] \in {"write", "sending"}
      BY <2>3 DEF CopyWrite, CopySent, Loop
    <3> QED
      BY <2>3, <3>1, <3>3, <3>4 DEF CopyWrite, CopySent
  <2>4. ASSUME NEW s \in Sides, PipeCloses(s) \/ PipeReturns(s) PROVE Types'
    <3>1. StreamOut[s] \in Chans /\ SocketOut[s] \in Chans
      BY Wires
    <3>2. CASE PipeCloses(s)
      <4>1. fin' \in [Chans -> BOOLEAN] /\ socket' \in [Sides -> BOOLEAN]
        BY <3>1, <3>2 DEF PipeCloses, CloseBoth
      <4> QED
        BY <3>2, <4>1 DEF PipeCloses, Handler
    <3>3. CASE PipeReturns(s)
      BY <3>3 DEF PipeReturns, Handler, streamVars
    <3> QED
      BY <2>4, <3>2, <3>3
  <2>5. ASSUME NEW s \in Sides, PeerSends(s) PROVE Types'
    <3>1. SocketIn[s] \in Chans /\ Head(left[s]) \in Byte /\ Tail(left[s]) \in Bytes
      BY <2>5, Wires, ReadWrite DEF PeerSends
    <3>2. Append(q[SocketIn[s]], Head(left[s])) \in Bytes
      BY <3>1, ReadWrite
    <3> QED
      BY <2>5, <3>1, <3>2 DEF PeerSends
  <2>6. ASSUME NEW s \in Sides, PeerCloses(s) PROVE Types'
    <3>1. SocketIn[s] \in Chans /\ fin' = [fin EXCEPT ![SocketIn[s]] = TRUE]
          /\ UNCHANGED <<kind, quic, q, socket, stalled, left, handler, peeked, loop, buf, echo>>
          /\ (UNCHANGED gone \/ gone' = [gone EXCEPT ![s] = TRUE])
      BY <2>6, Wires DEF PeerCloses
    <3>2. fin' \in [Chans -> BOOLEAN] /\ gone' \in [Sides -> BOOLEAN]
      BY <3>1
    <3> QED
      BY <3>1, <3>2
  <2>7. CASE AcceptStream
    BY <2>7 DEF AcceptStream, Handler, streamVars
  <2>8. CASE Peek
    <3>1. Head(q["netUp"]) \in Byte /\ Tail(q["netUp"]) \in Bytes
      BY <2>8, ReadWrite DEF Peek
    <3>2. Append(peeked, Head(q["netUp"])) \in Bytes
      BY <3>1, ReadWrite
    <3> QED
      BY <2>8, <3>1, <3>2 DEF Peek
  <2>9. CASE EchoProbe
    <3>1. q["netDown"] \o probePing \in Bytes
      BY Joins DEF ++
    <3> QED
      BY <2>9, <3>1 DEF EchoProbe, Handler
  <2>10. CASE DialDst
    <3>1. /\ loop' \in [Copiers -> {"off", "read", "write", "sending", "done"}]
          /\ \A d \in Copiers : loop'[d] \in {"write", "sending"} => loop[d] \in {"write", "sending"}
      BY <2>10 DEF DialDst
    <3>2. socket' \in [Sides -> BOOLEAN] /\ fin' \in [Chans -> BOOLEAN]
      BY <2>10 DEF DialDst
    <3> QED
      BY <2>10, <3>1, <3>2 DEF DialDst, Handler, Prefix
  <2>11. CASE ProbeEnds
    BY <2>11 DEF ProbeEnds, Handler
  <2>12. CASE QuicDies
    BY <2>12 DEF QuicDies
  <2>13. CASE UNCHANGED vars
    BY <2>13 DEF vars, streamVars
  <2>14. ASSUME NEW s \in Sides, PeerReads(s) PROVE Types'
    BY <2>14 DEF PeerReads
  <2> QED
    BY <2>1, <2>2, <2>3, <2>4, <2>5, <2>6, <2>7, <2>8, <2>9, <2>10, <2>11, <2>12, <2>13, <2>14
       DEF Next, CopyStep, PipeStep, ServerStep
<1> QED
  BY <1>1, <1>2, PTL DEF Spec

(* Everything but whether a peer reads, on which the rest of the invariant does not
   depend. *)
Others == <<kind, quic, q, fin, socket, gone, left, handler, peeked, loop, buf, count, echo>>

(* A peer that reads changes nothing else. *)
LEMMA Reads == UNCHANGED vars \/ (\E s \in Sides : PeerReads(s)) => UNCHANGED Others
BY DEF vars, streamVars, Others, PeerReads

(* What each handler holds at each of its places: handle and handleStream close
   what they opened when they return, pipe before it returns. *)
LEMMA Shapes == Spec => [](ClientShape /\ ServerShape)
<1>1. Init => ClientShape /\ ServerShape
  <2> SUFFICES ASSUME Init PROVE ClientShape /\ ServerShape
    OBVIOUS
  <2>1. /\ kind = "user" => handler["client"] = "pipe" /\ socket["client"]
        /\ kind = "probe" => handler["client"] = "probe" /\ ~socket["client"]
        /\ handler["server"] = "accept" /\ ~socket["server"] /\ ~gone["client"] /\ ~gone["server"]
    BY DEF Init
  <2>2. /\ ~fin["netUp"] /\ ~fin["appIn"] /\ ~fin["netDown"]
        /\ q["appIn"] = << >> /\ q["dstIn"] = << >> /\ q["netDown"] = << >> /\ q["dstOut"] = << >>
    BY DEF Init
  <2>3. /\ loop["sUp"] = "off" /\ loop["sDown"] = "off" /\ loop["cDown"] # "sending"
        /\ kind = "probe" => loop["cUp"] = "off" /\ loop["cDown"] = "off"
    BY Wires DEF Init
  <2>4. ClientShape
    BY <2>1, <2>2, <2>3 DEF ClientShape
  <2>5. ServerShape
    BY <2>1, <2>2, <2>3 DEF ServerShape
  <2> QED
    BY <2>4, <2>5
<1>2. Types /\ Types' /\ ClientShape /\ ServerShape /\ [Next]_vars => ClientShape' /\ ServerShape'
  <2> SUFFICES ASSUME Types, Types', ClientShape, ServerShape, [Next]_vars
               PROVE  ClientShape' /\ ServerShape'
    OBVIOUS
  <2> USE DEF Types
  <2>1. ASSUME NEW c \in Copiers, CopyRead(c) PROVE ClientShape' /\ ServerShape'
    <3>1. /\ loop[c] = "read" /\ loop' = [loop EXCEPT ![c] = "write"]
          /\ UNCHANGED <<kind, fin, socket, gone, handler>>
          /\ \A ch \in {"appIn", "dstIn"} : q'[ch] = q[ch]
          /\ \A ch \in Chans : q[ch] = << >> => q'[ch] = << >>
      <4>1. From[c] \in Chans \ {"appIn", "dstIn"}
        BY Wires
      <4> QED
        BY <2>1, <4>1 DEF CopyRead, Take, Loop
    <3>2. ClientShape'
      BY <3>1 DEF ClientShape
    <3>3. ServerShape'
      BY <3>1 DEF ServerShape
    <3> QED
      BY <3>2, <3>3
  <2>2. ASSUME NEW c \in Copiers, CopyEnds(c) PROVE ClientShape' /\ ServerShape'
    <3>1. /\ loop[c] = "read" /\ loop' = [loop EXCEPT ![c] = "done"]
          /\ UNCHANGED <<kind, fin, socket, gone, handler, q>>
      BY <2>2 DEF CopyEnds, Loop, streamVars
    <3> QED
      BY <3>1 DEF ClientShape, ServerShape
  <2>3. ASSUME NEW c \in Copiers, CopyWrite(c) \/ CopySent(c) PROVE ClientShape' /\ ServerShape'
    <3>1. /\ loop[c] \in {"write", "sending"}
          /\ \E p \in {"read", "done", "sending"} :
               loop' = [loop EXCEPT ![c] = p] /\ (p = "sending" => c \in {"cUp", "sDown"})
          /\ UNCHANGED <<kind, fin, socket, gone, handler>>
          /\ \A ch \in Chans \ {To[c]} : q'[ch] = q[ch]
      <4>1. To[c] \in Chans /\ (To[c] \in Nets => c \in {"cUp", "sDown"})
        BY Wires
      <4> QED
        BY <2>3, <4>1 DEF CopyWrite, CopySent, Loop
    <3>2. ClientShape'
      <4>1. c # "cDown" => q'["appIn"] = q["appIn"]
        BY <3>1, Wires
      <4> QED
        BY <3>1, <4>1 DEF ClientShape
    <3>3. ServerShape'
      <4>1. /\ c # "sUp" => q'["dstIn"] = q["dstIn"]
            /\ c # "sDown" => q'["netDown"] = q["netDown"]
            /\ q'["dstOut"] = q["dstOut"]
        BY <3>1, Wires
      <4> QED
        BY <3>1, <4>1 DEF ServerShape
    <3> QED
      BY <3>2, <3>3
  <2>4. ASSUME NEW s \in Sides, PipeCloses(s) PROVE ClientShape' /\ ServerShape'
    <3>1. CASE s = "client"
      BY <2>4, <3>1, Wires DEF PipeCloses, CloseBoth, Handler, ClientShape, ServerShape
    <3>2. CASE s = "server"
      BY <2>4, <3>2, Wires DEF PipeCloses, CloseBoth, Handler, ClientShape, ServerShape
    <3> QED
      BY <3>1, <3>2
  <2>5. ASSUME NEW s \in Sides, PipeReturns(s) PROVE ClientShape' /\ ServerShape'
    BY <2>5 DEF PipeReturns, Handler, streamVars, ClientShape, ServerShape
  <2>6. ASSUME NEW s \in Sides, PeerSends(s) PROVE ClientShape' /\ ServerShape'
    <3>1. CASE s = "client"
      BY <2>6, <3>1, Wires DEF PeerSends, ClientShape, ServerShape
    <3>2. CASE s = "server"
      BY <2>6, <3>2, Wires DEF PeerSends, ClientShape, ServerShape
    <3> QED
      BY <3>1, <3>2
  <2>7. ASSUME NEW s \in Sides, PeerCloses(s) PROVE ClientShape' /\ ServerShape'
    <3>1. CASE s = "client"
      BY <2>7, <3>1, Wires DEF PeerCloses, ClientShape, ServerShape
    <3>2. CASE s = "server"
      BY <2>7, <3>2, Wires DEF PeerCloses, ClientShape, ServerShape
    <3> QED
      BY <3>1, <3>2
  <2>8. CASE AcceptStream
    BY <2>8 DEF AcceptStream, Handler, streamVars, ClientShape, ServerShape
  <2>9. CASE Peek
    BY <2>9 DEF Peek, ClientShape, ServerShape
  <2>10. CASE EchoProbe
    BY <2>10 DEF EchoProbe, Handler, ClientShape, ServerShape
  <2>11. CASE DialDst
    BY <2>11 DEF DialDst, Handler, ClientShape, ServerShape
  <2>12. CASE ProbeEnds
    BY <2>12 DEF ProbeEnds, Handler, ClientShape, ServerShape
  <2>13. CASE QuicDies
    BY <2>13 DEF QuicDies, ClientShape, ServerShape
  <2>14. CASE UNCHANGED Others
    BY <2>14 DEF Others, ClientShape, ServerShape
  <2> QED
    BY Reads, <2>1, <2>2, <2>3, <2>4, <2>5, <2>6, <2>7, <2>8, <2>9, <2>10, <2>11, <2>12, <2>13, <2>14
       DEF Next, CopyStep, PipeStep, ServerStep
<1> QED
  BY <1>1, <1>2, Typing, PTL DEF Spec

(* The peers send what is left of what they want to send, from its front, and the
   windows and the peek's two bytes bound what is under way. *)
LEMMA Limited == Spec => []Limits
<1> USE Bits
<1>1. Init => Limits
  <2> SUFFICES ASSUME Init PROVE Limits
    OBVIOUS
  <2>1. left["client"] = Request /\ left["server"] = Reply /\ peeked = << >>
        /\ q["netDown"] = << >> /\ q["netUp"] \in {<< >>, probePing}
    BY DEF Init
  <2>2. \A s \in Bytes : Ends(s, s)
    BY Unit DEF Ends
  <2>3. Len(<< >>) <= Window /\ Len(probePing) <= Window /\ Len(<< >>) <= 2
    BY Lengths, WindowAssumption
  <2> QED
    BY <2>1, <2>2, <2>3 DEF Limits
<1>2. Types /\ ServerShape /\ Limits /\ [Next]_vars => Limits'
  <2> SUFFICES ASSUME Types, ServerShape, Limits, [Next]_vars PROVE Limits'
    OBVIOUS
  <2> USE WindowAssumption DEF Types
  <2>1. ASSUME NEW s \in Bytes, s # << >>, NEW n \in Nat, Len(s) <= n PROVE Len(Tail(s)) <= n
    <3>1. Len(s) \in Nat /\ Len(Tail(s)) \in Nat /\ Len(Tail(s)) + 1 = Len(s)
      BY <2>1, Lengths, ReadWrite
    <3> QED
      BY <2>1, <3>1
  <2>2. ASSUME NEW s \in Bytes, NEW x \in Byte, NEW n \in Nat, Len(s) < n PROVE Len(Append(s, x)) <= n
    <3>1. Len(s) \in Nat /\ Len(Append(s, x)) = Len(s) + 1
      BY Lengths
    <3> QED
      BY <2>2, <3>1
  <2>3. ASSUME NEW s \in Bytes, s # << >>, NEW t \in Bytes, Ends(s, t) PROVE Ends(Tail(s), t)
    <3>1. PICK r \in Bytes : r ++ s = t
      BY <2>3 DEF Ends
    <3>2. PICK y \in Bytes, z \in Bytes : z = Tail(s) /\ s = y ++ z
      <4>1. Head(s) \in Byte /\ Tail(s) \in Bytes /\ s = <<Head(s)>> ++ Tail(s)
        BY <2>3, ReadWrite
      <4>2. <<Head(s)>> \in Bytes
        BY <4>1
      <4> QED
        BY <4>1, <4>2, Zenon
    <3>3. r ++ y \in Bytes /\ (r ++ y) ++ z = r ++ (y ++ z)
      BY Joins, Assoc
    <3> QED
      BY <3>1, <3>2, <3>3 DEF Ends
  <2>4. ASSUME NEW c \in Copiers, CopyRead(c) PROVE Limits'
    <3>1. CASE HasPrefix(c)
      <4>1. peeked # << >> /\ peeked' = Tail(peeked) /\ UNCHANGED <<q, left>>
        BY <2>4, <3>1 DEF CopyRead, HasPrefix
      <4> QED
        BY <2>1, <4>1 DEF Limits
    <3>2. CASE ~HasPrefix(c)
      <4>1. /\ From[c] \in Chans /\ q[From[c]] # << >> /\ q' = [q EXCEPT ![From[c]] = Tail(@)]
            /\ UNCHANGED <<peeked, left>>
        BY <2>4, <3>2, Wires DEF CopyRead
      <4>2. Len(q'["netUp"]) <= Window /\ Len(q'["netDown"]) <= Window
        BY <2>1, <4>1 DEF Limits
      <4> QED
        BY <4>1, <4>2 DEF Limits
    <3> QED
      BY <3>1, <3>2
  <2>5. ASSUME NEW c \in Copiers, CopyEnds(c) PROVE Limits'
    BY <2>5 DEF CopyEnds, streamVars, Limits
  <2>6. ASSUME NEW c \in Copiers, CopyWrite(c) PROVE Limits'
    <3>1. UNCHANGED <<peeked, left>> /\ q'["netUp"] = q["netUp"] /\ q'["netDown"] = q["netDown"]
      BY <2>6 DEF CopyWrite
    <3> QED
      BY <3>1 DEF Limits
  <2>7. ASSUME NEW c \in Copiers, CopySent(c) PROVE Limits'
    <3>1. /\ UNCHANGED <<peeked, left>> /\ To[c] \in Chans /\ buf[c] \in Byte
          /\ \/ UNCHANGED q
             \/ Len(q[To[c]]) < Window /\ q' = [q EXCEPT ![To[c]] = Append(@, buf[c])]
      BY <2>7, Wires DEF CopySent
    <3>2. Len(q'["netUp"]) <= Window /\ Len(q'["netDown"]) <= Window
      <4>1. CASE UNCHANGED q
        BY <4>1 DEF Limits
      <4>2. CASE Len(q[To[c]]) < Window /\ q' = [q EXCEPT ![To[c]] = Append(@, buf[c])]
        <5>1. q[To[c]] \in Bytes /\ Len(Append(q[To[c]], buf[c])) <= Window
          BY <2>2, <3>1, <4>2
        <5>2. \A ch \in Nets : q'[ch] = q[ch] \/ q'[ch] = Append(q[To[c]], buf[c])
          BY <3>1, <4>2 DEF Nets, Chans
        <5> QED
          BY <5>1, <5>2 DEF Limits, Nets
      <4> QED
        BY <3>1, <4>1, <4>2
    <3> QED
      BY <3>1, <3>2 DEF Limits
  <2>8. ASSUME NEW s \in Sides, PipeCloses(s) \/ PipeReturns(s) \/ PeerCloses(s) PROVE Limits'
    BY <2>8 DEF PipeCloses, PipeReturns, PeerCloses, streamVars, Limits
  <2>9. ASSUME NEW s \in Sides, PeerSends(s) PROVE Limits'
    <3>1. q'["netUp"] = q["netUp"] /\ q'["netDown"] = q["netDown"] /\ UNCHANGED peeked
      BY <2>9, Wires DEF PeerSends
    <3>2. left[s] # << >> /\ left' = [left EXCEPT ![s] = Tail(@)]
      BY <2>9 DEF PeerSends
    <3>3. Ends(left'["client"], Request) /\ Ends(left'["server"], Reply)
      BY <2>3, <3>2 DEF Limits
    <3> QED
      BY <3>1, <3>3 DEF Limits
  <2>10. CASE AcceptStream
    BY <2>10 DEF AcceptStream, streamVars, Limits
  <2>11. CASE Peek
    <3>1. /\ q["netUp"] # << >> /\ q' = [q EXCEPT !["netUp"] = Tail(@)] /\ UNCHANGED left
          /\ peeked' = Append(peeked, Head(q["netUp"])) /\ Len(peeked) < 2
      BY <2>11 DEF Peek, PeekSize
    <3>2. Len(q'["netUp"]) <= Window /\ q'["netDown"] = q["netDown"]
      BY <2>1, <3>1 DEF Limits
    <3>3. Len(peeked') <= 2
      BY <2>2, <3>1, ReadWrite
    <3> QED
      BY <3>1, <3>2, <3>3 DEF Limits
  <2>12. CASE EchoProbe
    <3>1. q["netDown"] = << >> /\ << >> \o probePing = probePing
      BY <2>12, Unit DEF EchoProbe, ServerShape, ++
    <3>2. q'["netUp"] = q["netUp"] /\ q'["netDown"] \in {<< >>, probePing} /\ UNCHANGED <<peeked, left>>
      BY <2>12, <3>1 DEF EchoProbe
    <3>3. Len(<< >>) <= Window /\ Len(probePing) <= Window
      BY Lengths
    <3> QED
      BY <3>2, <3>3 DEF Limits
  <2>13. CASE DialDst
    BY <2>13 DEF DialDst, Prefix, Limits
  <2>14. CASE ProbeEnds \/ QuicDies
    BY <2>14 DEF ProbeEnds, QuicDies, Limits
  <2>15. CASE UNCHANGED Others
    BY <2>15 DEF Others, Limits
  <2> QED
    BY Reads, <2>4, <2>5, <2>6, <2>7, <2>8, <2>9, <2>10, <2>11, <2>12, <2>13, <2>14, <2>15
       DEF Next, CopyStep, PipeStep, ServerStep
<1> QED
  BY <1>1, <1>2, Typing, Shapes, PTL DEF Spec

(* The type invariant as the run checks it: no stream holds more than its window
   and the peek never more than its two bytes (handleProbeStream, pipe). *)
THEOREM TypeCorrect == Spec => []TypeOK
<1>1. Types /\ Limits => TypeOK
  <2> SUFFICES ASSUME Types, Limits PROVE TypeOK
    OBVIOUS
  <2>1. IsSuffix(left["client"], Request) /\ IsSuffix(left["server"], Reply)
    BY Bits, SuffixOf DEF Types, Limits
  <2> QED
    BY <2>1, Bits DEF Types, Limits, TypeOK
<1> QED
  BY <1>1, Typing, Limited, PTL

(* The sequences the directions are made of. *)
Sizes ==
  /\ \A c \in Copiers : Hand(c) \in Bytes
  /\ HeldUp \in Bytes /\ AheadUp \in Bytes /\ HeldDown \in Bytes /\ AheadDown \in Bytes

(* They are sequences of bytes. *)
LEMMA Sized == Types => Sizes
<1> SUFFICES ASSUME Types PROVE Sizes
  OBVIOUS
<1>1. \A c \in Copiers : Hand(c) \in Bytes
  BY Bits DEF Hand, Types
<1>2. /\ \A ch \in Chans : q[ch] \in Bytes
      /\ left["client"] \in Bytes /\ left["server"] \in Bytes /\ peeked \in Bytes
  BY DEF Types
<1> QED
  BY <1>1, <1>2, HeldSized, AheadMoves, Bits DEF Sizes, HeldUp, AheadUp, HeldDown, AheadDown

(* The same in the state a step leads to. *)
LEMMA SizedNext == Types' => Sizes'
BY Sized, PTL

(* A byte that has crossed the stream is behind all that was held before. *)
LEMMA UpSent ==
  ASSUME q["dstIn"] \in Bytes, Hand("sUp") \in Bytes, peeked \in Bytes, q["netUp"] \in Bytes,
         NEW y \in Bytes
  PROVE  Held(q["dstIn"], Hand("sUp"), peeked, q["netUp"] ++ y) = HeldUp ++ y
BY HeldSent DEF HeldUp

(* The same for the reply. *)
LEMMA DownSent ==
  ASSUME q["appIn"] \in Bytes, Hand("cDown") \in Bytes, q["netDown"] \in Bytes, NEW y \in Bytes
  PROVE  Held(q["appIn"], Hand("cDown"), << >>, q["netDown"] ++ y) = HeldDown ++ y
<1>1. PICK c \in Bytes : c = << >>
  BY Bits
<1>2. Held(q["appIn"], Hand("cDown"), c, q["netDown"] ++ y)
        = Held(q["appIn"], Hand("cDown"), c, q["netDown"]) ++ y
  BY HeldSent
<1> QED
  BY <1>1, <1>2 DEF HeldDown

(* A byte the last copier writes stays where it was in the request, ... *)
LEMMA UpWritten ==
  ASSUME Types, buf["sUp"] \in Byte
  PROVE  Held(Append(q["dstIn"], buf["sUp"]), << >>, peeked, q["netUp"])
           = Held(q["dstIn"], <<buf["sUp"]>>, peeked, q["netUp"])
<1>1. q["dstIn"] \in Bytes /\ peeked \in Bytes /\ q["netUp"] \in Bytes
  BY DEF Types
<1> QED
  BY <1>1, HeldWrite

(* ... and in the reply; *)
LEMMA DownWritten ==
  ASSUME Types, buf["cDown"] \in Byte
  PROVE  Held(Append(q["appIn"], buf["cDown"]), << >>, << >>, q["netDown"])
           = Held(q["appIn"], <<buf["cDown"]>>, << >>, q["netDown"])
<1>1. q["appIn"] \in Bytes /\ << >> \in Bytes /\ q["netDown"] \in Bytes
  BY Bits DEF Types
<1> QED
  BY <1>1, HeldWrite

(* and so does one that the first copier reads. *)
LEMMA FirstReads ==
  ASSUME Types
  PROVE  /\ q["appOut"] # << >> =>
              Ahead(<<Head(q["appOut"])>>, Tail(q["appOut"]), left["client"])
                = Ahead(<< >>, q["appOut"], left["client"])
         /\ q["dstOut"] # << >> =>
              Ahead(<<Head(q["dstOut"])>>, Tail(q["dstOut"]), left["server"])
                = Ahead(<< >>, q["dstOut"], left["server"])
<1>1. /\ q["appOut"] \in Bytes /\ left["client"] \in Bytes
      /\ q["dstOut"] \in Bytes /\ left["server"] \in Bytes
  BY DEF Types
<1> QED
  BY <1>1, AheadMoves, Zenon

(* What begins with a sequence begins with the front of it. *)
LEMMA FrontBegins ==
  ASSUME NEW s \in Bytes, NEW t \in Bytes, NEW w \in Bytes, Begins(s ++ t, w)
  PROVE  Begins(s, w)
<1>1. PICK r \in Bytes : (s ++ t) ++ r = w
  BY DEF Begins
<1>2. s ++ (t ++ r) = w /\ t ++ r \in Bytes
  BY <1>1, Assoc, Joins
<1> QED
  BY <1>2 DEF Begins

(* What begins with the whole of a sequence begins with its front. *)
LEMMA StartsIt == \A s, t, w \in Bytes : s ++ t = w => Begins(s, w)
BY DEF Begins

(* A copier that has delivered all there is has nothing more to deliver. *)
LEMMA NoMore ==
  ASSUME NEW a \in Bytes, NEW b \in Bytes, NEW c \in Bytes, NEW d \in Bytes,
         Begins(Held(a, b, c, d), a)
  PROVE  b = << >> /\ c = << >> /\ d = << >>
<1>1. PICK r \in Bytes : Held(a, b, c, d) ++ r = a
  BY DEF Begins
<1>2. PICK h \in Bytes : h = b ++ (c ++ d)
  BY Joins
<1>3. (a ++ h) ++ r = a ++ (h ++ r) /\ h ++ r \in Bytes
  BY Assoc, Joins
<1>4. a ++ (h ++ r) = a
  BY <1>1, <1>2, <1>3 DEF Held
<1>5. \A s, t \in Bytes : s ++ t = << >> => s = << >> /\ t = << >>
  BY ConcatEqualIffEmpty DEF Bytes, ++
<1>6. h ++ r = << >>
  BY <1>3, <1>4, ConcatEqualIffEmpty DEF Bytes, ++
<1>7. b ++ (c ++ d) = << >>
  BY <1>2, <1>5, <1>6
<1>8. c ++ d \in Bytes
  BY Joins
<1> QED
  BY <1>5, <1>7, <1>8

(* A step that moves bytes of the request on, or gives up a copier, keeps what is
   known of the request. *)
LEMMA UpKept ==
  ASSUME Types, Types', Up, kind' = kind,
         q'["dstIn"] = q["dstIn"] \/ LastUp',
         LastUp' => LastUp,
         LastUp' => HeldUp' = HeldUp \/ (FirstUp /\ HeldUp' ++ AheadUp' = HeldUp ++ AheadUp),
         LastUp' /\ FirstUp' => FirstUp /\ HeldUp' ++ AheadUp' = HeldUp ++ AheadUp
  PROVE  Up'
<1> SUFFICES ASSUME kind = "user"
             PROVE  /\ Begins(q["dstIn"], Request)'
                    /\ LastUp' => Begins(HeldUp', Request)
                    /\ LastUp' /\ FirstUp' => HeldUp' ++ AheadUp' = Request
  BY DEF Up
<1>1. LastUp' => Begins(HeldUp', Request)
  <2> SUFFICES ASSUME LastUp' PROVE Begins(HeldUp', Request)
    OBVIOUS
  <2>1. CASE HeldUp' = HeldUp
    BY <2>1 DEF Up
  <2>2. CASE FirstUp /\ HeldUp' ++ AheadUp' = HeldUp ++ AheadUp
    <3>1. HeldUp' ++ AheadUp' = Request
      BY <2>2 DEF Up
    <3> QED
      BY <3>1, SizedNext, StartsIt, Bits DEF Sizes
  <2> QED
    BY <2>1, <2>2
<1>2. LastUp' /\ FirstUp' => HeldUp' ++ AheadUp' = Request
  BY DEF Up
<1>3. Begins(q'["dstIn"], Request)
  <2>1. CASE q'["dstIn"] = q["dstIn"]
    BY <2>1 DEF Up
  <2>2. CASE LastUp'
    <3>1. Begins(Held(q'["dstIn"], Hand("sUp")', peeked', q'["netUp"]), Request)
      BY <1>1, <2>2 DEF HeldUp
    <3>2. q'["dstIn"] \in Bytes /\ Hand("sUp")' \in Bytes /\ peeked' \in Bytes /\ q'["netUp"] \in Bytes
      BY SizedNext DEF Types, Sizes
    <3> QED
      BY <3>1, <3>2, DeliveredFirst, Bits
  <2> QED
    BY <2>1, <2>2
<1> QED
  BY <1>1, <1>2, <1>3

(* The same for the reply. *)
LEMMA DownKept ==
  ASSUME Types, Types', Down,
         q'["appIn"] = q["appIn"] \/ LastDown',
         LastDown' => LastDown,
         LastDown' => HeldDown' = HeldDown
                        \/ (FirstDown /\ HeldDown' ++ AheadDown' = HeldDown ++ AheadDown),
         LastDown' /\ FirstDown' => FirstDown /\ HeldDown' ++ AheadDown' = HeldDown ++ AheadDown
  PROVE  Down'
<1>1. LastDown' => Begins(HeldDown', Reply)
  <2> SUFFICES ASSUME LastDown' PROVE Begins(HeldDown', Reply)
    OBVIOUS
  <2>1. CASE HeldDown' = HeldDown
    BY <2>1 DEF Down
  <2>2. CASE FirstDown /\ HeldDown' ++ AheadDown' = HeldDown ++ AheadDown
    <3>1. HeldDown' ++ AheadDown' = Reply
      BY <2>2 DEF Down
    <3> QED
      BY <3>1, SizedNext, StartsIt, Bits DEF Sizes
  <2> QED
    BY <2>1, <2>2
<1>2. LastDown' /\ FirstDown' => HeldDown' ++ AheadDown' = Reply
  BY DEF Down
<1>3. Begins(q'["appIn"], Reply)
  <2>1. CASE q'["appIn"] = q["appIn"]
    BY <2>1 DEF Down
  <2>2. CASE LastDown'
    <3>1. Begins(Held(q'["appIn"], Hand("cDown")', << >>, q'["netDown"]), Reply)
      BY <1>1, <2>2 DEF HeldDown
    <3>2. q'["appIn"] \in Bytes /\ Hand("cDown")' \in Bytes /\ q'["netDown"] \in Bytes
      BY SizedNext DEF Types, Sizes
    <3> QED
      BY <3>1, <3>2, DeliveredFirst, Bits
  <2> QED
    BY <2>1, <2>2
<1> QED
  BY <1>1, <1>2, <1>3 DEF Down

(* The request on its way: whatever the peek consumes, whatever ends early and
   wherever it ends, nothing is lost before the end of what was delivered
   (copyCount, handleProbeStream, streamWithPrefix). *)
LEMMA RequestFlows == Spec => []Up
<1> USE Bits
<1>1. Init => Up
  <2> SUFFICES ASSUME Init, kind = "user"
               PROVE  /\ Begins(q["dstIn"], Request)
                      /\ Begins(HeldUp, Request) /\ HeldUp ++ AheadUp = Request
    BY DEF Up
  <2>1. /\ q["dstIn"] = << >> /\ q["netUp"] = << >> /\ q["appOut"] = << >>
        /\ peeked = << >> /\ left["client"] = Request
    BY DEF Init
  <2>2. Hand("sUp") = << >> /\ Hand("cUp") = << >>
    BY DEF Init, Hand
  <2>3. HeldUp = << >> /\ AheadUp = Request
    BY <2>1, <2>2, Unit DEF HeldUp, AheadUp, Held, Ahead
  <2>4. << >> ++ Request = Request
    BY Unit
  <2>5. Begins(<< >>, Request)
    BY <2>4 DEF Begins
  <2> QED
    BY <2>1, <2>3, <2>4, <2>5
<1>2. Types /\ Types' /\ ServerShape /\ Up /\ [Next]_vars => Up'
  <2> SUFFICES ASSUME Types, Types', ServerShape, Up, [Next]_vars PROVE Up'
    OBVIOUS
  <2> USE DEF Types
  <2>1. ASSUME UNCHANGED <<kind, peeked>>,
               q'["dstIn"] = q["dstIn"], q'["netUp"] = q["netUp"], q'["appOut"] = q["appOut"],
               left'["client"] = left["client"],
               LastUp' => LastUp /\ Hand("sUp")' = Hand("sUp"),
               FirstUp' => FirstUp /\ Hand("cUp")' = Hand("cUp")
        PROVE  Up'
    <3>1. LastUp' => HeldUp' = HeldUp
      BY <2>1 DEF HeldUp
    <3>2. FirstUp' => AheadUp' = AheadUp
      BY <2>1 DEF AheadUp
    <3> QED
      BY <2>1, <3>1, <3>2, UpKept
  <2>2. ASSUME UNCHANGED <<kind, gone, peeked, loop, buf>>,
               q'["dstIn"] = q["dstIn"], q'["netUp"] = q["netUp"], q'["appOut"] = q["appOut"],
               left'["client"] = left["client"]
        PROVE  Up'
    BY <2>1, <2>2 DEF LastUp, FirstUp, Hand
  <2>3. CASE CopyRead("sUp")
    <3>1. /\ loop["sUp"] = "read" /\ loop' = [loop EXCEPT !["sUp"] = "write"]
          /\ UNCHANGED <<kind, gone, left>>
          /\ \/ /\ peeked # << >> /\ buf' = [buf EXCEPT !["sUp"] = Head(peeked)]
                /\ peeked' = Tail(peeked) /\ q' = q
             \/ /\ peeked = << >> /\ q["netUp"] # << >> /\ UNCHANGED peeked
                /\ buf' = [buf EXCEPT !["sUp"] = Head(q["netUp"])]
                /\ q' = [q EXCEPT !["netUp"] = Tail(@)]
      BY <2>3, Wires DEF CopyRead, HasPrefix, Take, Loop
    <3>2. q'["dstIn"] = q["dstIn"] /\ q'["appOut"] = q["appOut"]
      BY <3>1
    <3>3. LastUp' = LastUp /\ FirstUp' = FirstUp
      BY <3>1, <3>2 DEF LastUp, FirstUp
    <3>4. AheadUp' = AheadUp
      BY <3>1, <3>2 DEF AheadUp, Hand
    <3>5. Hand("sUp") = << >> /\ Hand("sUp")' = <<buf'["sUp"]>>
      BY <3>1 DEF Hand
    <3>6. HeldUp' = HeldUp
      <4>1. q["dstIn"] \in Bytes /\ peeked \in Bytes /\ q["netUp"] \in Bytes
        OBVIOUS
      <4>2. CASE peeked # << >>
        <5>1. buf'["sUp"] = Head(peeked) /\ peeked' = Tail(peeked) /\ q'["netUp"] = q["netUp"]
          BY <3>1, <4>2
        <5>2. /\ HeldUp' = Held(q["dstIn"], <<Head(peeked)>>, Tail(peeked), q["netUp"])
              /\ HeldUp = Held(q["dstIn"], << >>, peeked, q["netUp"])
          BY <3>2, <3>5, <5>1 DEF HeldUp
        <5>3. Held(q["dstIn"], <<Head(peeked)>>, Tail(peeked), q["netUp"])
                = Held(q["dstIn"], << >>, peeked, q["netUp"])
          BY <4>1, <4>2, HeldFirst
        <5> QED
          BY <5>2, <5>3, Zenon
      <4>3. CASE peeked = << >>
        <5>1. buf'["sUp"] = Head(q["netUp"]) /\ peeked' = << >> /\ q'["netUp"] = Tail(q["netUp"])
              /\ q["netUp"] # << >>
          BY <3>1, <4>3
        <5>2. /\ HeldUp' = Held(q["dstIn"], <<Head(q["netUp"])>>, << >>, Tail(q["netUp"]))
              /\ HeldUp = Held(q["dstIn"], << >>, << >>, q["netUp"])
          BY <3>2, <3>5, <4>3, <5>1 DEF HeldUp
        <5> QED
          BY <4>1, <5>1, <5>2, HeldRead
      <4> QED
        BY <4>2, <4>3
    <3> QED
      BY <3>1, <3>2, <3>3, <3>4, <3>6, UpKept
  <2>4. CASE CopyRead("cUp")
    <3>1. /\ loop["cUp"] = "read" /\ loop' = [loop EXCEPT !["cUp"] = "write"]
          /\ UNCHANGED <<kind, gone, left, peeked>> /\ q["appOut"] # << >>
          /\ buf' = [buf EXCEPT !["cUp"] = Head(q["appOut"])]
          /\ q' = [q EXCEPT !["appOut"] = Tail(@)]
      BY <2>4, Wires DEF CopyRead, HasPrefix, Take, Loop
    <3>2. q'["dstIn"] = q["dstIn"] /\ q'["netUp"] = q["netUp"] /\ q'["appOut"] = Tail(q["appOut"])
      BY <3>1
    <3>3. LastUp' = LastUp /\ FirstUp' = FirstUp
      BY <3>1, <3>2 DEF LastUp, FirstUp
    <3>4. HeldUp' = HeldUp
      BY <3>1, <3>2 DEF HeldUp, Hand
    <3>5. Hand("cUp") = << >> /\ Hand("cUp")' = <<Head(q["appOut"])>>
      BY <3>1 DEF Hand
    <3>7. AheadUp' = AheadUp
      <4>1. AheadUp' = Ahead(<<Head(q["appOut"])>>, Tail(q["appOut"]), left["client"])
        BY <3>1, <3>2, <3>5 DEF AheadUp
      <4>2. AheadUp = Ahead(<< >>, q["appOut"], left["client"])
        BY <3>5 DEF AheadUp
      <4>3. Ahead(<<Head(q["appOut"])>>, Tail(q["appOut"]), left["client"])
              = Ahead(<< >>, q["appOut"], left["client"])
        BY <3>1, FirstReads
      <4> QED
        BY <4>1, <4>2, <4>3, Zenon
    <3> QED
      BY <3>1, <3>2, <3>3, <3>4, <3>7, UpKept
  <2>5. ASSUME NEW c \in {"cDown", "sDown"}, CopyRead(c) PROVE Up'
    <3>1. /\ loop' = [loop EXCEPT ![c] = "write"] /\ UNCHANGED <<kind, gone, left, peeked>>
          /\ \E b : buf' = [buf EXCEPT ![c] = b]
          /\ q'["dstIn"] = q["dstIn"] /\ q'["netUp"] = q["netUp"] /\ q'["appOut"] = q["appOut"]
      BY <2>5, Wires DEF CopyRead, HasPrefix, Take, Loop
    <3>2. Hand("sUp")' = Hand("sUp") /\ Hand("cUp")' = Hand("cUp")
      BY <3>1 DEF Hand
    <3>3. LastUp' = LastUp /\ FirstUp' = FirstUp
      BY <3>1 DEF LastUp, FirstUp
    <3> QED
      BY <2>1, <3>1, <3>2, <3>3
  <2>6. ASSUME NEW c \in Copiers, CopyEnds(c) PROVE Up'
    <3>1. /\ loop[c] = "read" /\ loop' = [loop EXCEPT ![c] = "done"]
          /\ UNCHANGED <<kind, gone, left, peeked, q, buf>>
      BY <2>6 DEF CopyEnds, Loop, streamVars
    <3>2. LastUp' => LastUp /\ Hand("sUp")' = Hand("sUp")
      BY <3>1 DEF LastUp, Hand
    <3>3. FirstUp' => FirstUp /\ Hand("cUp")' = Hand("cUp")
      BY <3>1 DEF FirstUp, Hand
    <3> QED
      BY <2>1, <3>1, <3>2, <3>3
  <2>7. CASE CopyWrite("sUp")
    <3>1. /\ loop["sUp"] = "write" /\ UNCHANGED <<kind, gone, left, peeked, buf>>
          /\ \/ loop' = [loop EXCEPT !["sUp"] = "done"] /\ q' = q
             \/ gone["server"] /\ loop' = [loop EXCEPT !["sUp"] = "read"] /\ q' = q
             \/ /\ ~gone["server"] /\ loop' = [loop EXCEPT !["sUp"] = "read"]
                /\ q' = [q EXCEPT !["dstIn"] = Append(@, buf["sUp"])]
      BY <2>7, Wires DEF CopyWrite, Loop
    <3>2. buf["sUp"] \in Byte /\ Hand("sUp") = <<buf["sUp"]>> /\ Hand("cUp")' = Hand("cUp")
      BY <3>1 DEF Hand
    <3>3. /\ q["dstIn"] \in Bytes /\ peeked \in Bytes /\ q["netUp"] \in Bytes
          /\ Hand("sUp") \in Bytes
      BY Sized DEF Sizes
    <3>4. CASE loop' = [loop EXCEPT !["sUp"] = "done"] /\ q' = q
      <4>1. ~LastUp' /\ FirstUp' = FirstUp
        BY <3>4 DEF LastUp, FirstUp
      <4> QED
        BY <2>1, <3>1, <3>2, <3>4, <4>1
    <3>5. CASE gone["server"] /\ loop' = [loop EXCEPT !["sUp"] = "read"] /\ q' = q
      <4>1. FirstUp' = FirstUp
        BY <3>5 DEF FirstUp
      <4>2. ASSUME kind = "user" PROVE ~LastUp'
        <5>1. ASSUME LastUp' PROVE FALSE
          <6>1. q["dstIn"] = Request /\ LastUp
            BY <3>1, <3>5, <5>1 DEF LastUp
          <6>2. Begins(Held(q["dstIn"], Hand("sUp"), peeked, q["netUp"]), q["dstIn"])
            BY <4>2, <6>1 DEF Up, HeldUp
          <6>3. Hand("sUp") = << >>
            BY <3>3, <6>2, NoMore
          <6> QED
            BY <3>2, <6>3
        <5> QED
          BY <5>1
      <4>3. CASE kind = "user"
        BY <2>1, <3>1, <3>2, <3>5, <4>1, <4>2, <4>3
      <4>4. CASE kind # "user"
        BY <3>1, <4>4 DEF Up
      <4> QED
        BY <4>3, <4>4
    <3>6. CASE /\ ~gone["server"] /\ loop' = [loop EXCEPT !["sUp"] = "read"]
               /\ q' = [q EXCEPT !["dstIn"] = Append(@, buf["sUp"])]
      <4>1. /\ q'["dstIn"] = Append(q["dstIn"], buf["sUp"]) /\ q'["netUp"] = q["netUp"]
            /\ q'["appOut"] = q["appOut"]
        BY <3>6
      <4>2. LastUp' /\ LastUp /\ FirstUp' = FirstUp /\ Hand("sUp")' = << >>
        BY <3>1, <3>6 DEF LastUp, FirstUp, Hand
      <4>3. HeldUp' = HeldUp
        <5>1. /\ HeldUp' = Held(Append(q["dstIn"], buf["sUp"]), << >>, peeked, q["netUp"])
              /\ HeldUp = Held(q["dstIn"], <<buf["sUp"]>>, peeked, q["netUp"])
          BY <3>1, <3>2, <4>1, <4>2 DEF HeldUp
        <5>2. Held(Append(q["dstIn"], buf["sUp"]), << >>, peeked, q["netUp"])
                = Held(q["dstIn"], <<buf["sUp"]>>, peeked, q["netUp"])
          BY <3>2, UpWritten
        <5> QED
          BY <5>1, <5>2, Zenon
      <4>4. AheadUp' = AheadUp
        BY <3>1, <3>2, <4>1 DEF AheadUp
      <4> QED
        BY <3>1, <4>2, <4>3, <4>4, UpKept
    <3> QED
      BY <3>1, <3>4, <3>5, <3>6
  <2>8. CASE CopyWrite("cUp")
    <3>1. /\ loop["cUp"] = "write" /\ UNCHANGED <<kind, gone, left, peeked, buf, q>>
          /\ \E p \in {"done", "sending"} : loop' = [loop EXCEPT !["cUp"] = p]
      BY <2>8, Wires DEF CopyWrite, Loop
    <3>2. LastUp' = LastUp /\ Hand("sUp")' = Hand("sUp")
      BY <3>1 DEF LastUp, Hand
    <3>3. FirstUp' => FirstUp /\ Hand("cUp")' = Hand("cUp")
      BY <3>1 DEF FirstUp, Hand
    <3> QED
      BY <2>1, <3>1, <3>2, <3>3
  <2>9. ASSUME NEW c \in {"cDown", "sDown"}, CopyWrite(c) \/ CopySent(c) PROVE Up'
    <3>1. /\ \E p \in {"read", "done", "sending"} : loop' = [loop EXCEPT ![c] = p]
          /\ UNCHANGED <<kind, gone, left, peeked, buf>>
          /\ q'["dstIn"] = q["dstIn"] /\ q'["netUp"] = q["netUp"] /\ q'["appOut"] = q["appOut"]
      BY <2>9, Wires DEF CopyWrite, CopySent, Loop
    <3>2. Hand("sUp")' = Hand("sUp") /\ Hand("cUp")' = Hand("cUp")
      BY <3>1 DEF Hand
    <3>3. LastUp' = LastUp /\ FirstUp' = FirstUp
      BY <3>1 DEF LastUp, FirstUp
    <3> QED
      BY <2>1, <3>1, <3>2, <3>3
  <2>10. CASE CopySent("cUp")
    <3>1. /\ loop["cUp"] = "sending" /\ UNCHANGED <<kind, gone, left, peeked, buf>>
          /\ \/ loop' = [loop EXCEPT !["cUp"] = "done"] /\ q' = q
             \/ /\ loop' = [loop EXCEPT !["cUp"] = "read"]
                /\ q' = [q EXCEPT !["netUp"] = Append(@, buf["cUp"])]
      BY <2>10, Wires DEF CopySent, Loop
    <3>2. /\ buf["cUp"] \in Byte /\ Hand("cUp") = <<buf["cUp"]>> /\ Hand("sUp")' = Hand("sUp")
          /\ Hand("cUp")' = << >>
      BY <3>1 DEF Hand
    <3>3. q'["dstIn"] = q["dstIn"] /\ q'["appOut"] = q["appOut"]
      BY <3>1
    <3>4. LastUp' = LastUp /\ FirstUp
      BY <3>1, <3>3 DEF LastUp, FirstUp
    <3>5. CASE loop' = [loop EXCEPT !["cUp"] = "done"] /\ q' = q
      <4>1. ~FirstUp'
        BY <3>5 DEF FirstUp
      <4> QED
        BY <2>1, <3>1, <3>2, <3>4, <3>5, <4>1
    <3>6. CASE /\ loop' = [loop EXCEPT !["cUp"] = "read"]
               /\ q' = [q EXCEPT !["netUp"] = Append(@, buf["cUp"])]
      <4>1. q'["netUp"] = Append(q["netUp"], buf["cUp"])
        BY <3>6
      <4>2. /\ q["dstIn"] \in Bytes /\ Hand("sUp") \in Bytes /\ peeked \in Bytes
            /\ q["netUp"] \in Bytes /\ q["appOut"] \in Bytes /\ left["client"] \in Bytes
        BY Sized DEF Sizes
      <4>3. /\ HeldUp' = Held(q["dstIn"], Hand("sUp"), peeked, Append(q["netUp"], buf["cUp"]))
            /\ AheadUp' = Ahead(<< >>, q["appOut"], left["client"])
        BY <3>1, <3>2, <3>3, <4>1 DEF HeldUp, AheadUp
      <4>4. /\ HeldUp = Held(q["dstIn"], Hand("sUp"), peeked, q["netUp"])
            /\ AheadUp = Ahead(<<buf["cUp"]>>, q["appOut"], left["client"])
        BY <3>2 DEF HeldUp, AheadUp
      <4>5. HeldUp' ++ AheadUp' = HeldUp ++ AheadUp
        <5>1. HeldUp' = HeldUp ++ <<buf["cUp"]>>
          <6>1. PICK y \in Bytes : y = <<buf["cUp"]>> /\ Append(q["netUp"], buf["cUp"]) = q["netUp"] ++ y
            BY <3>2, <4>2, ReadWrite
          <6>2. Held(q["dstIn"], Hand("sUp"), peeked, q["netUp"] ++ y) = HeldUp ++ y
            BY <4>2, UpSent
          <6> QED
            BY <4>3, <6>1, <6>2
        <5>2. AheadUp = <<buf["cUp"]>> ++ AheadUp'
          BY <3>2, <4>2, <4>3, <4>4, AheadSent
        <5>3. HeldUp \in Bytes /\ AheadUp' \in Bytes
          BY Sized, SizedNext DEF Sizes
        <5> QED
          BY <3>2, <5>1, <5>2, <5>3, Crosses
      <4> QED
        BY <3>1, <3>3, <3>4, <4>5, UpKept
    <3> QED
      BY <3>1, <3>5, <3>6
  <2>11. ~CopySent("sUp")
    BY DEF CopySent, ServerShape
  <2>12. ASSUME NEW s \in Sides, PipeCloses(s) \/ PipeReturns(s) PROVE Up'
    BY <2>2, <2>12 DEF PipeCloses, PipeReturns, streamVars
  <2>13. CASE PeerSends("client")
    <3>1. /\ left["client"] # << >> /\ UNCHANGED <<kind, gone, peeked, loop, buf>>
          /\ q' = [q EXCEPT !["appOut"] = Append(@, Head(left["client"]))]
          /\ left' = [left EXCEPT !["client"] = Tail(@)]
      BY <2>13, Wires DEF PeerSends
    <3>2. /\ q'["dstIn"] = q["dstIn"] /\ q'["netUp"] = q["netUp"]
          /\ q'["appOut"] = Append(q["appOut"], Head(left["client"]))
          /\ left'["client"] = Tail(left["client"])
      BY <3>1
    <3>3. LastUp' = LastUp /\ FirstUp' = FirstUp /\ Hand("cUp")' = Hand("cUp") /\ HeldUp' = HeldUp
      BY <3>1, <3>2 DEF LastUp, FirstUp, Hand, HeldUp
    <3>4. q["appOut"] \in Bytes /\ left["client"] \in Bytes /\ Hand("cUp") \in Bytes
      BY Sized DEF Sizes
    <3>5. AheadUp' = AheadUp
      <4>1. AheadUp' = Ahead(Hand("cUp"), Append(q["appOut"], Head(left["client"])),
                             Tail(left["client"]))
        BY <3>2, <3>3 DEF AheadUp
      <4> QED
        BY <3>1, <3>4, <4>1, AheadMoves DEF AheadUp
    <3> QED
      BY <3>1, <3>2, <3>3, <3>5, UpKept
  <2>14. CASE PeerSends("server")
    BY <2>2, <2>14, Wires DEF PeerSends
  <2>15. ASSUME NEW s \in Sides, PeerCloses(s) PROVE Up'
    <3>1. /\ UNCHANGED <<kind, q, left, peeked, loop, buf>>
          /\ gone["server"] => gone'["server"]
      BY <2>15 DEF PeerCloses
    <3>2. (LastUp' => LastUp) /\ FirstUp' = FirstUp /\ Hand("sUp")' = Hand("sUp")
          /\ Hand("cUp")' = Hand("cUp")
      BY <3>1 DEF LastUp, FirstUp, Hand
    <3> QED
      BY <2>1, <3>1, <3>2
  <2>16. CASE AcceptStream
    BY <2>2, <2>16 DEF AcceptStream, streamVars
  <2>17. CASE Peek
    <3>1. /\ q["netUp"] # << >> /\ UNCHANGED <<kind, gone, left, loop, buf>>
          /\ peeked' = Append(peeked, Head(q["netUp"])) /\ q' = [q EXCEPT !["netUp"] = Tail(@)]
      BY <2>17 DEF Peek
    <3>2. q'["dstIn"] = q["dstIn"] /\ q'["netUp"] = Tail(q["netUp"]) /\ q'["appOut"] = q["appOut"]
      BY <3>1
    <3>3. LastUp' = LastUp /\ FirstUp' = FirstUp /\ Hand("sUp")' = Hand("sUp") /\ AheadUp' = AheadUp
      BY <3>1, <3>2 DEF LastUp, FirstUp, Hand, AheadUp
    <3>4. q["dstIn"] \in Bytes /\ Hand("sUp") \in Bytes /\ peeked \in Bytes /\ q["netUp"] \in Bytes
      BY Sized DEF Sizes
    <3>5. HeldUp' = HeldUp
      <4>1. HeldUp' = Held(q["dstIn"], Hand("sUp"), Append(peeked, Head(q["netUp"])),
                           Tail(q["netUp"]))
        BY <3>1, <3>2, <3>3 DEF HeldUp
      <4> QED
        BY <3>1, <3>4, <4>1, HeldPeek DEF HeldUp
    <3> QED
      BY <3>1, <3>2, <3>3, <3>5, UpKept
  <2>18. CASE EchoProbe
    BY <2>2, <2>18 DEF EchoProbe
  <2>19. CASE DialDst
    <3>1. /\ UNCHANGED <<kind, q, gone, left, buf, peeked>> /\ loop["sUp"] = "off"
          /\ loop'["sUp"] \in {"off", "read"} /\ loop'["cUp"] = loop["cUp"]
      BY <2>19 DEF DialDst, Prefix, ServerShape
    <3>2. LastUp' = LastUp /\ FirstUp' = FirstUp /\ Hand("sUp")' = Hand("sUp")
          /\ Hand("cUp")' = Hand("cUp")
      BY <3>1 DEF LastUp, FirstUp, Hand
    <3> QED
      BY <2>1, <3>1, <3>2
  <2>20. CASE ProbeEnds \/ QuicDies
    BY <2>2, <2>20 DEF ProbeEnds, QuicDies
  <2>21. CASE UNCHANGED Others
    BY <2>2, <2>21 DEF Others
  <2>22. ASSUME NEW c \in Copiers, CopyStep(c) PROVE Up'
    BY <2>3, <2>4, <2>5, <2>6, <2>7, <2>8, <2>9, <2>10, <2>11, <2>22 DEF CopyStep
  <2> QED
    BY Reads, <2>12, <2>13, <2>14, <2>15, <2>16, <2>17, <2>18, <2>19, <2>20, <2>21, <2>22
       DEF Next, PipeStep, ServerStep
<1> QED
  BY <1>1, <1>2, Typing, Shapes, PTL DEF Spec

(* What ends does not begin again: a loop that has returned, a direction that was
   closed, a peer or a connection that has gone. *)
LEMMA Ending ==
  ASSUME Types, ServerShape, [Next]_vars
  PROVE  /\ kind' = kind
         /\ \A c \in Copiers : loop[c] = "done" => loop'[c] = "done"
         /\ \A s \in Sides : gone[s] => gone'[s]
         /\ Undisturbed' => Undisturbed
<1> USE DEF Types, Undisturbed
<1>1. ASSUME NEW c \in Copiers, CopyStep(c)
      PROVE  /\ UNCHANGED <<kind, quic, fin, gone>>
             /\ \A d \in Copiers : loop[d] = "done" => loop'[d] = "done"
  <2>1. CASE CopyRead(c)
    BY <2>1 DEF CopyRead, Take, Loop
  <2>2. CASE CopyEnds(c)
    BY <2>2 DEF CopyEnds, Loop, streamVars
  <2>3. CASE CopyWrite(c)
    BY <2>3 DEF CopyWrite, Loop
  <2>4. CASE CopySent(c)
    BY <2>4 DEF CopySent, Loop
  <2> QED
    BY <1>1, <2>1, <2>2, <2>3, <2>4 DEF CopyStep
<1>2. ASSUME NEW s \in Sides, PipeStep(s) \/ PeerSends(s)
      PROVE  UNCHANGED <<kind, quic, gone, loop>> /\ fin'["appOut"] = fin["appOut"]
  BY <1>2, Wires DEF PipeStep, PipeCloses, PipeReturns, CloseBoth, PeerSends, streamVars
<1>3. ASSUME NEW s \in Sides, PeerCloses(s)
      PROVE  /\ UNCHANGED <<kind, quic, loop>> /\ \A r \in Sides : gone[r] => gone'[r]
             /\ fin["appOut"] => fin'["appOut"]
  BY <1>3, Wires DEF PeerCloses
<1>4. CASE ServerStep
  <2>1. UNCHANGED <<kind, quic, gone>> /\ fin'["appOut"] = fin["appOut"]
    BY <1>4 DEF ServerStep, AcceptStream, Peek, EchoProbe, DialDst, streamVars
  <2>2. \A c \in Copiers : loop[c] = "done" => loop'[c] = "done"
    BY <1>4 DEF ServerStep, AcceptStream, Peek, EchoProbe, DialDst, ServerShape
  <2> QED
    BY <2>1, <2>2
<1>5. CASE ProbeEnds
  BY <1>5 DEF ProbeEnds
<1>6. CASE QuicDies
  BY <1>6 DEF QuicDies
<1>7. CASE UNCHANGED Others
  BY <1>7 DEF Others
<1> QED
  BY Reads, <1>1, <1>2, <1>3, <1>4, <1>5, <1>6, <1>7 DEF Next

(* A last copier that has a byte in its hand has not delivered everything. *)
LEMMA NotAll ==
  ASSUME Types, Up, kind = "user", loop["sUp"] = "write"
  PROVE  q["dstIn"] # Request
<1> SUFFICES ASSUME q["dstIn"] = Request PROVE FALSE
  OBVIOUS
<1>1. LastUp
  BY DEF LastUp
<1>2. Begins(Held(q["dstIn"], Hand("sUp"), peeked, q["netUp"]), q["dstIn"])
  BY <1>1 DEF Up, HeldUp
<1>3. q["dstIn"] \in Bytes /\ Hand("sUp") \in Bytes /\ peeked \in Bytes /\ q["netUp"] \in Bytes
  BY Sized DEF Sizes, Types
<1>4. Hand("sUp") = << >>
  BY <1>2, <1>3, NoMore
<1> QED
  BY <1>4 DEF Hand

(* The order in which pipe takes an undisturbed stream down on both machines. *)
LEMMA Ordered == Spec => []TakenDown
<1>1. Init => TakenDown
  <2> SUFFICES ASSUME Init PROVE TakenDown
    OBVIOUS
  <2>1. /\ \A c \in Copiers : loop[c] # "done"
        /\ ~fin["netDown"] /\ (kind = "user" => socket["client"])
    BY Wires DEF Init
  <2> QED
    BY <2>1 DEF TakenDown, Undisturbed, Clean
<1>2. Types /\ Types' /\ ClientShape /\ ServerShape /\ Up /\ TakenDown /\ [Next]_vars => TakenDown'
  <2> SUFFICES ASSUME Types, Types', ClientShape, ServerShape, Up, TakenDown, [Next]_vars
               PROVE  TakenDown'
    OBVIOUS
  <2> USE DEF Types
  <2>1. kind' = kind /\ (Undisturbed' => Undisturbed)
    BY Ending
  <2>2. ASSUME UNCHANGED <<fin, socket, quic, loop>>,
               q'["dstIn"] = q["dstIn"], q'["netDown"] = q["netDown"],
               q'["dstOut"] = q["dstOut"] \/ ~fin["dstOut"]
        PROVE  TakenDown'
    BY <2>1, <2>2 DEF TakenDown, Undisturbed, Clean
  <2>3. ASSUME NEW c \in Copiers, CopyRead(c) PROVE TakenDown'
    <3>1. /\ loop[c] = "read" /\ loop' = [loop EXCEPT ![c] = "write"]
          /\ UNCHANGED <<fin, socket, quic>> /\ q'["dstIn"] = q["dstIn"]
          /\ \A ch \in Chans : q[ch] = << >> => q'[ch] = << >>
      BY <2>3, Wires DEF CopyRead, Take, Loop
    <3> QED
      BY <2>1, <3>1 DEF TakenDown, Undisturbed, Clean
  <2>4. ASSUME NEW c \in Copiers, CopyEnds(c) PROVE TakenDown'
    <3>1. /\ loop[c] = "read" /\ loop' = [loop EXCEPT ![c] = "done"] /\ ReadFails(c)
          /\ UNCHANGED <<fin, socket, quic, q>>
      BY <2>4 DEF CopyEnds, Loop, streamVars
    <3>2. CASE c = "cUp"
      <4>1. Undisturbed => ~socket["client"]
        BY <3>1, <3>2, Wires DEF ReadFails, Broken, AtEnd, Undisturbed
      <4> QED
        BY <2>1, <3>1, <3>2, <4>1 DEF TakenDown, Undisturbed, Clean
    <3>3. CASE c = "cDown"
      <4>1. Undisturbed => fin["netDown"] /\ q["netDown"] = << >> /\ loop["sDown"] # "sending"
        BY <3>1, <3>3, Wires DEF ReadFails, Broken, AtEnd, Undisturbed
      <4> QED
        BY <2>1, <3>1, <3>3, <4>1 DEF TakenDown, Undisturbed, Clean
    <3>4. CASE c = "sDown"
      <4>1. Clean => socket["server"]
        BY <3>1, <3>4 DEF TakenDown, ServerShape
      <4>2. Clean => q["dstOut"] = << >> /\ fin["dstOut"]
        BY <3>1, <3>4, <4>1, Wires DEF ReadFails, Broken, AtEnd
      <4> QED
        BY <2>1, <3>1, <3>4, <4>2 DEF TakenDown, Undisturbed, Clean
    <3>5. CASE c = "sUp"
      <4>1. quic = "dead" \/ fin["netUp"]
        BY <3>1, <3>5, Wires DEF ReadFails, Broken, AtEnd
      <4> QED
        BY <2>1, <3>1, <3>5, <4>1 DEF TakenDown, Undisturbed, Clean
    <3> QED
      BY <3>2, <3>3, <3>4, <3>5
  <2>5. CASE CopyWrite("cUp")
    <3>1. /\ loop["cUp"] = "write" /\ UNCHANGED <<fin, socket, quic, q>>
          /\ \/ loop' = [loop EXCEPT !["cUp"] = "sending"]
             \/ loop' = [loop EXCEPT !["cUp"] = "done"] /\ (quic = "dead" \/ fin["netUp"])
      BY <2>5, Wires DEF CopyWrite, Loop, Broken
    <3> QED
      BY <2>1, <3>1 DEF TakenDown, Undisturbed, Clean, ClientShape
  <2>6. CASE CopyWrite("cDown")
    <3>1. /\ loop["cDown"] = "write" /\ UNCHANGED <<fin, socket, quic>>
          /\ q'["dstIn"] = q["dstIn"] /\ q'["netDown"] = q["netDown"] /\ q'["dstOut"] = q["dstOut"]
          /\ \/ loop' = [loop EXCEPT !["cDown"] = "read"]
             \/ /\ loop' = [loop EXCEPT !["cDown"] = "done"]
                /\ ~socket["client"] \/ fin["appIn"] \/ gone["client"]
      BY <2>6, Wires DEF CopyWrite, Loop, Broken
    <3>2. Undisturbed /\ loop["cDown"] = "write" => socket["client"] /\ ~gone["client"]
      BY DEF TakenDown, Undisturbed, ClientShape
    <3>3. Undisturbed => loop' = [loop EXCEPT !["cDown"] = "read"]
      BY <3>1, <3>2 DEF Undisturbed, ClientShape
    <3> QED
      BY <2>1, <3>1, <3>2, <3>3 DEF TakenDown, Undisturbed, Clean
  <2>7. CASE CopyWrite("sDown")
    <3>1. /\ loop["sDown"] = "write" /\ UNCHANGED <<fin, socket, quic, q>>
          /\ \/ ~fin["netDown"] /\ loop' = [loop EXCEPT !["sDown"] = "sending"]
             \/ loop' = [loop EXCEPT !["sDown"] = "done"] /\ (quic = "dead" \/ fin["netDown"])
      BY <2>7, Wires DEF CopyWrite, Loop, Broken
    <3> QED
      BY <2>1, <3>1 DEF TakenDown, Undisturbed, Clean
  <2>8. CASE CopyWrite("sUp")
    <3>1. /\ loop["sUp"] = "write" /\ UNCHANGED <<fin, socket, quic>>
          /\ q'["netDown"] = q["netDown"] /\ q'["dstOut"] = q["dstOut"]
          /\ \/ /\ \E p \in {"read", "done"} : loop' = [loop EXCEPT !["sUp"] = p]
                /\ q'["dstIn"] = q["dstIn"]
             \/ loop' = [loop EXCEPT !["sUp"] = "read"] /\ socket["server"]
      BY <2>8, Wires DEF CopyWrite, Loop, Broken
    <3>2. kind = "user" => q["dstIn"] # Request
      BY <3>1, NotAll
    <3>3. Clean' => Clean
      BY <2>1, <3>1 DEF Clean
    <3>4. kind = "user" /\ loop'["sUp"] = "done" => q'["dstIn"] # Request
      BY <3>1, <3>2
    <3> QED
      BY <2>1, <3>1, <3>3, <3>4 DEF TakenDown, Undisturbed
  <2>9. CASE CopySent("cUp")
    <3>1. /\ loop["cUp"] = "sending" /\ UNCHANGED <<fin, socket, quic>>
          /\ q'["dstIn"] = q["dstIn"] /\ q'["netDown"] = q["netDown"] /\ q'["dstOut"] = q["dstOut"]
          /\ \/ loop' = [loop EXCEPT !["cUp"] = "read"]
             \/ loop' = [loop EXCEPT !["cUp"] = "done"] /\ quic = "dead"
      BY <2>9, Wires DEF CopySent, Loop
    <3> QED
      BY <2>1, <3>1 DEF TakenDown, Undisturbed, Clean
  <2>10. CASE CopySent("sDown")
    <3>1. /\ loop["sDown"] = "sending" /\ UNCHANGED <<fin, socket, quic>>
          /\ q'["dstIn"] = q["dstIn"] /\ q'["dstOut"] = q["dstOut"]
          /\ \/ loop' = [loop EXCEPT !["sDown"] = "read"]
             \/ loop' = [loop EXCEPT !["sDown"] = "done"] /\ quic = "dead"
      BY <2>10, Wires DEF CopySent, Loop
    <3> QED
      BY <2>1, <3>1 DEF TakenDown, Undisturbed, Clean
  <2>11. ~CopySent("cDown") /\ ~CopySent("sUp")
    BY DEF CopySent, ClientShape, ServerShape
  <2>12. CASE PipeCloses("client")
    <3>1. /\ handler["client"] = "pipe" /\ UNCHANGED <<quic, q, loop>>
          /\ fin' = [fin EXCEPT !["netUp"] = TRUE, !["appIn"] = TRUE]
          /\ socket' = [socket EXCEPT !["client"] = FALSE]
          /\ loop["cUp"] = "done" \/ loop["cDown"] = "done"
      BY <2>12, Wires DEF PipeCloses, CloseBoth, OneDone, OfSide
    <3>2. Undisturbed => loop["cDown"] = "done"
      BY <3>1 DEF TakenDown, Undisturbed, ClientShape
    <3> QED
      BY <2>1, <3>1, <3>2 DEF TakenDown, Undisturbed, Clean
  <2>13. CASE PipeCloses("server")
    <3>1. /\ handler["server"] = "pipe" /\ UNCHANGED <<quic, q, loop>>
          /\ fin' = [fin EXCEPT !["netDown"] = TRUE, !["dstIn"] = TRUE]
          /\ socket' = [socket EXCEPT !["server"] = FALSE]
          /\ loop["sUp"] = "done" \/ loop["sDown"] = "done"
      BY <2>13, Wires DEF PipeCloses, CloseBoth, OneDone, OfSide
    <3>2. ~fin["netDown"]
      BY <3>1 DEF ServerShape
    <3>3. Undisturbed => ~fin["netUp"]
      BY <3>2 DEF TakenDown, Undisturbed, ClientShape
    <3>4. Clean' => Clean /\ loop["sDown"] = "done"
      BY <2>1, <3>1, <3>3 DEF TakenDown, Undisturbed, Clean, ServerShape
    <3> QED
      BY <2>1, <3>1, <3>4 DEF TakenDown, Undisturbed
  <2>14. ASSUME NEW s \in Sides, PipeReturns(s) PROVE TakenDown'
    BY <2>2, <2>14 DEF PipeReturns, streamVars
  <2>15. ASSUME NEW s \in Sides, PeerSends(s) PROVE TakenDown'
    <3>1. q'["dstOut"] = q["dstOut"] \/ ~fin["dstOut"]
      BY <2>15, Wires DEF PeerSends
    <3> QED
      BY <2>2, <2>15, <3>1, Wires DEF PeerSends
  <2>16. ASSUME NEW s \in Sides, PeerCloses(s) PROVE TakenDown'
    <3>1. /\ UNCHANGED <<quic, q, socket, loop>> /\ \A ch \in Chans : fin[ch] => fin'[ch]
          /\ fin'["netDown"] = fin["netDown"]
      BY <2>16, Wires DEF PeerCloses
    <3> QED
      BY <2>1, <3>1 DEF TakenDown, Undisturbed, Clean
  <2>17. CASE AcceptStream
    BY <2>2, <2>17 DEF AcceptStream, streamVars
  <2>18. CASE Peek
    BY <2>2, <2>18 DEF Peek
  <2>19. CASE EchoProbe \/ DialDst
    <3>1. /\ ~fin["netDown"] /\ loop["sUp"] = "off" /\ loop["sDown"] = "off"
      BY <2>19 DEF EchoProbe, DialDst, ServerShape
    <3>2. Undisturbed => socket["client"] /\ loop["cDown"] # "done" /\ loop["cUp"] # "done"
      BY <3>1 DEF TakenDown
    <3>3. /\ UNCHANGED quic /\ socket'["client"] = socket["client"]
          /\ loop'["cUp"] = loop["cUp"] /\ loop'["cDown"] = loop["cDown"]
          /\ loop'["sUp"] # "done" /\ loop'["sDown"] # "done"
          /\ fin'["netDown"] => loop'["sDown"] = "off"
      BY <2>19, <3>1 DEF EchoProbe, DialDst
    <3> QED
      BY <2>1, <3>2, <3>3 DEF TakenDown
  <2>20. CASE ProbeEnds
    <3>1. kind # "user"
      BY <2>20 DEF ProbeEnds, ClientShape
    <3> QED
      BY <2>1, <3>1 DEF TakenDown, Undisturbed, Clean
  <2>21. CASE QuicDies
    BY <2>21 DEF QuicDies, TakenDown, Undisturbed, Clean
  <2>22. CASE UNCHANGED Others
    BY <2>2, <2>22 DEF Others
  <2>23. ASSUME NEW c \in Copiers, CopyStep(c) PROVE TakenDown'
    BY <2>3, <2>4, <2>5, <2>6, <2>7, <2>8, <2>9, <2>10, <2>11, <2>23 DEF CopyStep
  <2> QED
    BY Reads, <2>12, <2>13, <2>14, <2>15, <2>16, <2>17, <2>18, <2>19, <2>20, <2>21, <2>22, <2>23
       DEF Next, PipeStep, ServerStep
<1> QED
  BY <1>1, <1>2, Typing, Shapes, RequestFlows, PTL DEF Spec

(* The reply on its way, and the answer to a probe: the path is verified by the
   plugin's own echo or not at all (handleProbeStream, startProber). *)
LEMMA ReplyFlows == Spec => []Answers
<1> USE Bits
<1>1. Init => Answers
  <2> SUFFICES ASSUME Init PROVE Down /\ echo # "ok"
    BY DEF Answers
  <2>1. /\ q["appIn"] = << >> /\ q["netDown"] = << >> /\ q["dstOut"] = << >>
        /\ left["server"] = Reply /\ echo # "ok"
    BY DEF Init
  <2>2. Hand("cDown") = << >> /\ Hand("sDown") = << >>
    BY DEF Init, Hand
  <2>3. HeldDown = << >> /\ AheadDown = Reply
    BY <2>1, <2>2, Unit DEF HeldDown, AheadDown, Held, Ahead
  <2>4. << >> ++ Reply = Reply
    BY Unit
  <2>5. Begins(<< >>, Reply)
    BY <2>4 DEF Begins
  <2> QED
    BY <2>1, <2>3, <2>4, <2>5 DEF Down
<1>2. Types /\ Types' /\ ClientShape /\ ServerShape /\ Up /\ TakenDown /\ Answers /\ [Next]_vars => Answers'
  <2> SUFFICES ASSUME Types, Types', ClientShape, ServerShape, Up, TakenDown, Answers, [Next]_vars
               PROVE  Answers'
    OBVIOUS
  <2>1. Answered => Answered'
    <3> SUFFICES ASSUME Answered PROVE Answered'
      OBVIOUS
    <3>1. /\ \A c \in Copiers : loop[c] = "off" /\ \A s \in Sides : ~socket[s]
          /\ handler["server"] = "done" /\ handler["client"] \in {"probe", "done"}
      BY DEF Answered, ClientShape
    <3>2. \A c \in Copiers : ~CopyStep(c)
      BY <3>1 DEF CopyStep, CopyRead, CopyEnds, CopyWrite, CopySent
    <3>3. \A s \in Sides : ~PipeStep(s) /\ ~PeerSends(s) /\ ~PeerCloses(s)
      BY <3>1 DEF PipeStep, PipeCloses, PipeReturns, PeerSends, PeerCloses
    <3>4. ~ServerStep
      BY <3>1 DEF ServerStep, AcceptStream, Peek, EchoProbe, DialDst
    <3>5. CASE ProbeEnds
      BY <3>5 DEF ProbeEnds, Handler, Answered, Types
    <3>6. CASE QuicDies
      BY <3>6 DEF QuicDies, Answered
    <3>7. CASE UNCHANGED Others
      BY <3>7 DEF Others, Answered
    <3> QED
      BY Reads, <3>2, <3>3, <3>4, <3>5, <3>6, <3>7 DEF Next
  <2>2. echo' = "ok" => Answered
    <3> SUFFICES ASSUME echo' = "ok", echo # "ok", Down PROVE FALSE
      BY DEF Answers
    <3>1. ProbeEnds
      <4>1. \A c \in Copiers : ~CopyStep(c)
        BY DEF CopyStep, CopyRead, CopyEnds, CopyWrite, CopySent
      <4>2. \A s \in Sides : ~PipeStep(s) /\ ~PeerSends(s) /\ ~PeerCloses(s)
        BY DEF PipeStep, PipeCloses, PipeReturns, PeerSends, PeerCloses
      <4>3. ~ServerStep /\ ~QuicDies
        BY DEF ServerStep, AcceptStream, Peek, EchoProbe, DialDst, QuicDies
      <4>4. ~UNCHANGED Others
        BY DEF Others
      <4> QED
        BY Reads, <4>1, <4>2, <4>3, <4>4 DEF Next
    <3>2. IsPrefix(probePing, q["netDown"]) /\ handler["client"] = "probe"
      BY <3>1 DEF ProbeEnds, EchoMatches
    <3>3. kind = "probe" /\ loop["cDown"] = "off" /\ q["appIn"] = << >> /\ ~gone["client"]
      BY <3>2 DEF ClientShape, Types
    <3>4. Begins(HeldDown, Reply) /\ Hand("cDown") = << >>
      BY <3>3 DEF Down, LastDown, Hand
    <3>5. q["netDown"] \in Bytes
      BY DEF Types
    <3>6. HeldDown = q["netDown"]
      BY <3>3, <3>4, <3>5, Unit DEF HeldDown, Held
    <3>7. PICK r \in Bytes, t \in Bytes : probePing ++ r = q["netDown"] /\ q["netDown"] ++ t = Reply
      BY <3>2, <3>4, <3>5, <3>6, PrefixOf DEF Begins
    <3>8. (probePing ++ r) ++ t = probePing ++ (r ++ t) /\ r ++ t \in Bytes
      BY Assoc, Joins
    <3>9. Begins(probePing, Reply)
      BY <3>7, <3>8 DEF Begins
    <3> QED
      BY <3>9, PrefixOf, RequestAssumption
  <2>3. ASSUME Down PROVE Down' \/ Answered'
    <3> USE <2>3 DEF Types
    <3>1. kind' = kind /\ (LastDown' => LastDown)
      BY Ending DEF LastDown
    <3>2. ASSUME q'["dstIn"] = q["dstIn"] \/ socket["server"] \/ loop["sDown"] # "done",
                 socket'["server"] => socket["server"] \/ loop["sDown"] # "done"
          PROVE  FirstDown' => FirstDown
      BY <3>2, Ending DEF FirstDown, Clean
    <3>3. ASSUME q'["appIn"] = q["appIn"], q'["netDown"] = q["netDown"], q'["dstOut"] = q["dstOut"],
                 left'["server"] = left["server"],
                 LastDown' => Hand("cDown")' = Hand("cDown"),
                 FirstDown' => FirstDown /\ Hand("sDown")' = Hand("sDown")
          PROVE  Down'
      <4>1. LastDown' => HeldDown' = HeldDown
        BY <3>3 DEF HeldDown
      <4>2. FirstDown' => AheadDown' = AheadDown
        BY <3>3 DEF AheadDown
      <4> QED
        BY <3>1, <3>3, <4>1, <4>2, DownKept
    <3>4. ASSUME UNCHANGED <<loop, buf>>, q'["appIn"] = q["appIn"], q'["netDown"] = q["netDown"],
                 q'["dstOut"] = q["dstOut"], q'["dstIn"] = q["dstIn"],
                 left'["server"] = left["server"], socket'["server"] => socket["server"]
          PROVE  Down'
      <4>1. FirstDown' => FirstDown
        BY <3>2, <3>4
      <4>2. Hand("cDown")' = Hand("cDown") /\ Hand("sDown")' = Hand("sDown")
        BY <3>4 DEF Hand
      <4> QED
        BY <3>3, <3>4, <4>1, <4>2
    <3>5. CASE CopyRead("cDown")
      <4>1. /\ loop["cDown"] = "read" /\ loop' = [loop EXCEPT !["cDown"] = "write"]
            /\ q["netDown"] # << >> /\ UNCHANGED <<left, socket>>
            /\ buf' = [buf EXCEPT !["cDown"] = Head(q["netDown"])]
            /\ q' = [q EXCEPT !["netDown"] = Tail(@)]
        BY <3>5, Wires DEF CopyRead, HasPrefix, Take, Loop
      <4>2. /\ q'["appIn"] = q["appIn"] /\ q'["netDown"] = Tail(q["netDown"])
            /\ q'["dstOut"] = q["dstOut"] /\ q'["dstIn"] = q["dstIn"]
        BY <4>1
      <4>3. FirstDown' => FirstDown
        BY <3>2, <4>1, <4>2
      <4>4. AheadDown' = AheadDown
        BY <4>1, <4>2 DEF AheadDown, Hand
      <4>5. Hand("cDown") = << >> /\ Hand("cDown")' = <<Head(q["netDown"])>>
        BY <4>1 DEF Hand
      <4>6. /\ HeldDown' = Held(q["appIn"], <<Head(q["netDown"])>>, << >>, Tail(q["netDown"]))
            /\ HeldDown = Held(q["appIn"], << >>, << >>, q["netDown"])
        BY <4>2, <4>5 DEF HeldDown
      <4>7. q["appIn"] \in Bytes /\ q["netDown"] \in Bytes
        OBVIOUS
      <4>8. HeldDown' = HeldDown
        BY <4>1, <4>6, <4>7, HeldRead
      <4> QED
        BY <3>1, <4>2, <4>3, <4>4, <4>8, DownKept
    <3>6. CASE CopyRead("sDown")
      <4>1. /\ loop["sDown"] = "read" /\ loop' = [loop EXCEPT !["sDown"] = "write"]
            /\ q["dstOut"] # << >> /\ UNCHANGED <<left, socket>>
            /\ buf' = [buf EXCEPT !["sDown"] = Head(q["dstOut"])]
            /\ q' = [q EXCEPT !["dstOut"] = Tail(@)]
        BY <3>6, Wires DEF CopyRead, HasPrefix, Take, Loop
      <4>2. /\ q'["appIn"] = q["appIn"] /\ q'["netDown"] = q["netDown"]
            /\ q'["dstOut"] = Tail(q["dstOut"]) /\ q'["dstIn"] = q["dstIn"]
        BY <4>1
      <4>3. FirstDown' => FirstDown
        BY <3>2, <4>1, <4>2
      <4>4. HeldDown' = HeldDown
        BY <4>1, <4>2 DEF HeldDown, Hand
      <4>5. Hand("sDown") = << >> /\ Hand("sDown")' = <<Head(q["dstOut"])>>
        BY <4>1 DEF Hand
      <4>6. /\ AheadDown' = Ahead(<<Head(q["dstOut"])>>, Tail(q["dstOut"]), left["server"])
            /\ AheadDown = Ahead(<< >>, q["dstOut"], left["server"])
        BY <4>1, <4>2, <4>5 DEF AheadDown
      <4>8. Ahead(<<Head(q["dstOut"])>>, Tail(q["dstOut"]), left["server"])
              = Ahead(<< >>, q["dstOut"], left["server"])
        BY <4>1, FirstReads
      <4>9. AheadDown' = AheadDown
        BY <4>6, <4>8, Zenon
      <4> QED
        BY <3>1, <4>2, <4>3, <4>4, <4>9, DownKept
    <3>7. ASSUME NEW c \in {"cUp", "sUp"}, CopyRead(c) PROVE Down'
      <4>1. /\ loop' = [loop EXCEPT ![c] = "write"] /\ UNCHANGED <<left, socket>>
            /\ \E b : buf' = [buf EXCEPT ![c] = b]
            /\ q'["appIn"] = q["appIn"] /\ q'["netDown"] = q["netDown"]
            /\ q'["dstOut"] = q["dstOut"] /\ q'["dstIn"] = q["dstIn"]
        <5>1. From[c] \in {"appOut", "netUp"}
          BY Wires
        <5> QED
          BY <3>7, <5>1 DEF CopyRead, Take, Loop
      <4>2. Hand("cDown")' = Hand("cDown") /\ Hand("sDown")' = Hand("sDown")
        BY <4>1 DEF Hand
      <4>3. FirstDown' => FirstDown
        BY <3>2, <4>1
      <4> QED
        BY <3>3, <4>1, <4>2, <4>3
    <3>8. ASSUME NEW c \in Copiers, CopyEnds(c) PROVE Down'
      <4>1. /\ loop[c] = "read" /\ loop' = [loop EXCEPT ![c] = "done"]
            /\ UNCHANGED <<left, socket, q, buf>>
        BY <3>8 DEF CopyEnds, Loop, streamVars
      <4>2. Hand("cDown")' = Hand("cDown") /\ Hand("sDown")' = Hand("sDown")
        BY <4>1 DEF Hand
      <4>3. FirstDown' => FirstDown
        BY <3>2, <4>1
      <4> QED
        BY <3>3, <4>1, <4>2, <4>3
    <3>9. CASE CopyWrite("cDown")
      <4>1. /\ loop["cDown"] = "write" /\ UNCHANGED <<kind, quic, fin, gone, left, socket, buf>>
            /\ \/ /\ loop' = [loop EXCEPT !["cDown"] = "done"] /\ q' = q
                  /\ ~socket["client"] \/ fin["appIn"] \/ gone["client"]
               \/ gone["client"] /\ loop' = [loop EXCEPT !["cDown"] = "read"] /\ q' = q
               \/ /\ ~gone["client"] /\ loop' = [loop EXCEPT !["cDown"] = "read"]
                  /\ q' = [q EXCEPT !["appIn"] = Append(@, buf["cDown"])]
        BY <3>9, Wires DEF CopyWrite, Loop, Broken
      <4>2. /\ buf["cDown"] \in Byte /\ Hand("cDown") = <<buf["cDown"]>>
            /\ Hand("sDown")' = Hand("sDown")
        BY <4>1 DEF Hand
      <4>3. q'["netDown"] = q["netDown"] /\ q'["dstOut"] = q["dstOut"] /\ q'["dstIn"] = q["dstIn"]
        BY <4>1
      <4>4. FirstDown' => FirstDown
        BY <3>2, <4>1, <4>3
      <4>5. CASE q' = q
        <5>1. Undisturbed => socket["client"] /\ ~gone["client"] /\ ~fin["appIn"]
          BY <4>1 DEF TakenDown, Undisturbed, ClientShape
        <5>2. loop'["cDown"] = "done" => ~Undisturbed' \/ gone'["client"]
          BY <4>1, <4>5, <5>1 DEF Undisturbed
        <5>3. q["appIn"] # Append(q["appIn"], buf["cDown"])
          BY <4>2, AppendProperties DEF Bytes
        <5>4. loop'["cDown"] # "done" => gone'["client"]
          BY <4>1, <4>5, <5>3
        <5>5. ~LastDown'
          BY <5>2, <5>4 DEF LastDown
        <5> QED
          BY <3>3, <4>1, <4>2, <4>3, <4>4, <4>5, <5>5
      <4>6. CASE /\ ~gone["client"] /\ loop' = [loop EXCEPT !["cDown"] = "read"]
                 /\ q' = [q EXCEPT !["appIn"] = Append(@, buf["cDown"])]
        <5>1. q'["appIn"] = Append(q["appIn"], buf["cDown"])
          BY <4>6
        <5>2. LastDown' /\ Hand("cDown")' = << >>
          BY <4>1, <4>6 DEF LastDown, Hand
        <5>4. HeldDown' = HeldDown
          <6>1. /\ HeldDown' = Held(Append(q["appIn"], buf["cDown"]), << >>, << >>, q["netDown"])
                /\ HeldDown = Held(q["appIn"], <<buf["cDown"]>>, << >>, q["netDown"])
            BY <4>2, <4>3, <5>1, <5>2 DEF HeldDown
          <6>2. Held(Append(q["appIn"], buf["cDown"]), << >>, << >>, q["netDown"])
                  = Held(q["appIn"], <<buf["cDown"]>>, << >>, q["netDown"])
            BY <4>2, DownWritten
          <6> QED
            BY <6>1, <6>2, Zenon
        <5>5. AheadDown' = AheadDown
          BY <4>1, <4>2, <4>3 DEF AheadDown
        <5> QED
          BY <3>1, <4>4, <5>2, <5>4, <5>5, DownKept
      <4> QED
        BY <4>1, <4>5, <4>6
    <3>10. CASE CopyWrite("sDown")
      <4>1. /\ loop["sDown"] = "write" /\ UNCHANGED <<kind, quic, fin, left, socket, q, buf>>
            /\ \/ loop' = [loop EXCEPT !["sDown"] = "sending"]
               \/ loop' = [loop EXCEPT !["sDown"] = "done"] /\ (quic = "dead" \/ fin["netDown"])
        BY <3>10, Wires DEF CopyWrite, Loop, Broken
      <4>2. Hand("cDown")' = Hand("cDown")
        BY <4>1 DEF Hand
      <4>3. Clean => quic = "open" /\ ~fin["netDown"]
        BY <4>1 DEF TakenDown, Clean, Undisturbed
      <4>4. Clean' = Clean
        BY <4>1 DEF Clean, Undisturbed
      <4>5. FirstDown' => loop' = [loop EXCEPT !["sDown"] = "sending"]
        BY <4>1, <4>3, <4>4 DEF FirstDown
      <4>6. FirstDown' => FirstDown /\ Hand("sDown")' = Hand("sDown")
        BY <4>1, <4>5 DEF FirstDown, Hand
      <4> QED
        BY <3>3, <4>1, <4>2, <4>6
    <3>11. ASSUME NEW c \in {"cUp", "sUp"}, CopyWrite(c) \/ CopySent(c) PROVE Down'
      <4>1. /\ \E p \in {"read", "done", "sending"} : loop' = [loop EXCEPT ![c] = p]
            /\ UNCHANGED <<left, socket, buf>>
            /\ q'["appIn"] = q["appIn"] /\ q'["netDown"] = q["netDown"]
            /\ q'["dstOut"] = q["dstOut"] /\ (q'["dstIn"] = q["dstIn"] \/ socket["server"])
        <5>1. loop["sUp"] # "sending"
          BY DEF ServerShape
        <5> QED
          BY <3>11, <5>1, Wires DEF CopyWrite, CopySent, Loop, Broken
      <4>2. Hand("cDown")' = Hand("cDown") /\ Hand("sDown")' = Hand("sDown")
        BY <4>1 DEF Hand
      <4>3. FirstDown' => FirstDown
        BY <3>2, <4>1
      <4> QED
        BY <3>3, <4>1, <4>2, <4>3
    <3>12. CASE CopySent("sDown")
      <4>1. /\ loop["sDown"] = "sending" /\ UNCHANGED <<kind, quic, fin, left, socket, buf>>
            /\ \/ loop' = [loop EXCEPT !["sDown"] = "done"] /\ q' = q /\ quic = "dead"
               \/ /\ loop' = [loop EXCEPT !["sDown"] = "read"]
                  /\ q' = [q EXCEPT !["netDown"] = Append(@, buf["sDown"])]
        BY <3>12, Wires DEF CopySent, Loop
      <4>2. /\ buf["sDown"] \in Byte /\ Hand("sDown") = <<buf["sDown"]>>
            /\ Hand("cDown")' = Hand("cDown") /\ Hand("sDown")' = << >>
        BY <4>1 DEF Hand
      <4>3. q'["appIn"] = q["appIn"] /\ q'["dstOut"] = q["dstOut"]
        BY <4>1
      <4>4. FirstDown
        BY <4>1 DEF FirstDown
      <4>5. CASE loop' = [loop EXCEPT !["sDown"] = "done"] /\ q' = q /\ quic = "dead"
        <5>1. ~FirstDown'
          BY <4>1, <4>5 DEF FirstDown, Clean, Undisturbed
        <5> QED
          BY <3>3, <4>1, <4>2, <4>5, <5>1
      <4>6. CASE /\ loop' = [loop EXCEPT !["sDown"] = "read"]
                 /\ q' = [q EXCEPT !["netDown"] = Append(@, buf["sDown"])]
        <5>1. q'["netDown"] = Append(q["netDown"], buf["sDown"])
          BY <4>6
        <5>2. /\ q["appIn"] \in Bytes /\ Hand("cDown") \in Bytes /\ q["netDown"] \in Bytes
              /\ q["dstOut"] \in Bytes /\ left["server"] \in Bytes
          BY Sized DEF Sizes
        <5>3. /\ HeldDown' = Held(q["appIn"], Hand("cDown"), << >>, Append(q["netDown"], buf["sDown"]))
              /\ AheadDown' = Ahead(<< >>, q["dstOut"], left["server"])
          BY <4>1, <4>2, <4>3, <5>1 DEF HeldDown, AheadDown
        <5>4. AheadDown = Ahead(<<buf["sDown"]>>, q["dstOut"], left["server"])
          BY <4>2 DEF AheadDown
        <5>5. HeldDown' = HeldDown ++ <<buf["sDown"]>>
          <6>1. PICK y \in Bytes : y = <<buf["sDown"]>>
                                   /\ Append(q["netDown"], buf["sDown"]) = q["netDown"] ++ y
            BY <4>2, <5>2, ReadWrite
          <6>2. Held(q["appIn"], Hand("cDown"), << >>, q["netDown"] ++ y) = HeldDown ++ y
            BY <5>2, DownSent
          <6> QED
            BY <5>3, <6>1, <6>2
        <5>6. AheadDown = <<buf["sDown"]>> ++ AheadDown'
          BY <4>2, <5>2, <5>3, <5>4, AheadSent
        <5>7. HeldDown \in Bytes /\ AheadDown' \in Bytes
          BY Sized, SizedNext DEF Sizes
        <5>8. HeldDown' ++ AheadDown' = HeldDown ++ AheadDown
          BY <4>2, <5>5, <5>6, <5>7, Crosses
        <5> QED
          BY <3>1, <4>3, <4>4, <5>8, DownKept
      <4> QED
        BY <4>1, <4>5, <4>6
    <3>13. ~CopySent("cDown")
      BY DEF CopySent, ClientShape
    <3>14. ASSUME NEW s \in Sides, PipeCloses(s) \/ PipeReturns(s) PROVE Down'
      <4>1. socket'["server"] => socket["server"]
        BY <3>14 DEF PipeCloses, PipeReturns, CloseBoth, streamVars
      <4> QED
        BY <3>4, <3>14, <4>1 DEF PipeCloses, PipeReturns, streamVars
    <3>15. CASE PeerSends("server")
      <4>1. /\ left["server"] # << >> /\ UNCHANGED <<loop, buf, socket>>
            /\ q' = [q EXCEPT !["dstOut"] = Append(@, Head(left["server"]))]
            /\ left' = [left EXCEPT !["server"] = Tail(@)]
        BY <3>15, Wires DEF PeerSends
      <4>2. /\ q'["appIn"] = q["appIn"] /\ q'["netDown"] = q["netDown"] /\ q'["dstIn"] = q["dstIn"]
            /\ q'["dstOut"] = Append(q["dstOut"], Head(left["server"]))
            /\ left'["server"] = Tail(left["server"])
        BY <4>1
      <4>3. FirstDown' => FirstDown
        BY <3>2, <4>1, <4>2
      <4>4. Hand("sDown")' = Hand("sDown") /\ HeldDown' = HeldDown
        BY <4>1, <4>2 DEF Hand, HeldDown
      <4>5. q["dstOut"] \in Bytes /\ left["server"] \in Bytes /\ Hand("sDown") \in Bytes
        BY Sized DEF Sizes
      <4>6. AheadDown' = Ahead(Hand("sDown"), Append(q["dstOut"], Head(left["server"])),
                               Tail(left["server"]))
        BY <4>2, <4>4 DEF AheadDown
      <4>7. AheadDown' = AheadDown
        BY <4>1, <4>5, <4>6, AheadMoves DEF AheadDown
      <4> QED
        BY <3>1, <4>2, <4>3, <4>4, <4>7, DownKept
    <3>16. CASE PeerSends("client")
      BY <3>4, <3>16, Wires DEF PeerSends
    <3>17. ASSUME NEW s \in Sides, PeerCloses(s) PROVE Down'
      BY <3>4, <3>17 DEF PeerCloses
    <3>18. CASE AcceptStream
      BY <3>4, <3>18 DEF AcceptStream, streamVars
    <3>19. CASE Peek
      BY <3>4, <3>19 DEF Peek
    <3>20. CASE EchoProbe
      <4>1. /\ peeked = probePing /\ handler["server"] = "peek" /\ handler'["server"] = "done"
            /\ UNCHANGED <<loop, buf, left, socket, gone, kind>>
            /\ q' = IF quic = "open" THEN [q EXCEPT !["netDown"] = @ \o probePing] ELSE q
        BY <3>20 DEF EchoProbe, Handler
      <4>2. /\ loop["sUp"] = "off" /\ loop["sDown"] = "off" /\ ~gone["server"] /\ ~socket["server"]
            /\ q["dstIn"] = << >> /\ q["netDown"] = << >>
        BY <4>1 DEF ServerShape
      <4>3. kind = "probe"
        <5> SUFFICES ASSUME kind = "user" PROVE FALSE
          OBVIOUS
        <5>1. Begins(HeldUp, Request) /\ Hand("sUp") = << >>
          BY <4>2 DEF Up, LastUp, Hand
        <5>2. PICK n \in Bytes : n = q["netUp"]
          OBVIOUS
        <5>3. probePing ++ n \in Bytes
          BY Joins
        <5>4. HeldUp = probePing ++ n
          BY <4>1, <4>2, <5>1, <5>2, <5>3, Unit DEF HeldUp, Held
        <5>5. Begins(probePing ++ n, Request)
          BY <5>1, <5>4
        <5>6. Begins(probePing, Request)
          BY <5>2, <5>5, FrontBegins
        <5> QED
          BY <5>6, PrefixOf, RequestAssumption
      <4>4. CASE quic = "open"
        <5>1. << >> \o probePing = probePing
          BY Unit DEF ++
        <5>2. q'["netDown"] = probePing /\ q'["dstIn"] = << >> /\ q'["appIn"] = << >>
          BY <4>1, <4>2, <4>3, <4>4, <5>1 DEF ClientShape
        <5>3. Answered'
          BY <4>1, <4>2, <4>3, <5>2 DEF Answered
        <5> QED
          BY <5>3
      <4>5. CASE quic # "open"
        BY <3>4, <4>1, <4>5
      <4> QED
        BY <4>4, <4>5
    <3>21. CASE DialDst
      <4>1. /\ UNCHANGED <<q, left, buf>> /\ loop["sDown"] = "off"
            /\ loop'["sDown"] \in {"off", "read"} /\ loop'["cDown"] = loop["cDown"]
        BY <3>21 DEF DialDst, ServerShape
      <4>2. Hand("cDown")' = Hand("cDown") /\ Hand("sDown")' = Hand("sDown")
        BY <4>1 DEF Hand
      <4>3. FirstDown' => FirstDown
        BY <3>2, <4>1
      <4> QED
        BY <3>3, <4>1, <4>2, <4>3
    <3>22. CASE ProbeEnds \/ QuicDies
      BY <3>4, <3>22 DEF ProbeEnds, QuicDies
    <3>23. CASE UNCHANGED Others
      BY <3>4, <3>23 DEF Others
    <3>24. ASSUME NEW c \in Copiers, CopyStep(c) PROVE Down' \/ Answered'
      BY <3>5, <3>6, <3>7, <3>8, <3>9, <3>10, <3>11, <3>12, <3>13, <3>24 DEF CopyStep
    <3> QED
      BY Reads, <3>14, <3>15, <3>16, <3>17, <3>18, <3>19, <3>20, <3>21, <3>22, <3>23, <3>24
         DEF Next, PipeStep, ServerStep
  <2> QED
    BY <2>1, <2>2, <2>3 DEF Answers
<1> QED
  BY <1>1, <1>2, Typing, Shapes, RequestFlows, Ordered, PTL DEF Spec

(* What pipe promises of a stream, for any request, reply and window: the bytes dst
   and the application read are a beginning of what the other end sent, in order and
   without a gap or a repetition, however the copiers, the closes and the death of
   the connection interleave. *)
THEOREM StreamIntact == Spec => []Intact
<1>1. Types /\ ClientShape /\ Up /\ Answers => Intact
  <2> SUFFICES ASSUME Types, ClientShape, Up, Answers PROVE Intact
    OBVIOUS
  <2>1. q["dstIn"] \in Bytes /\ q["appIn"] \in Bytes
    BY DEF Types
  <2>2. kind = "user" => IsPrefix(q["dstIn"], Request)
    BY <2>1, Bits, PrefixOf DEF Up
  <2>3. Begins(q["appIn"], Reply)
    <3>1. CASE Down
      BY <3>1 DEF Down
    <3>2. CASE Answered
      <4>1. << >> ++ Reply = Reply /\ q["appIn"] = << >>
        BY <3>2, Bits, Unit DEF Answered
      <4> QED
        BY <4>1, Bits DEF Begins
    <3> QED
      BY <3>1, <3>2 DEF Answers
  <2>4. IsPrefix(q["appIn"], Reply)
    BY <2>1, <2>3, Bits, PrefixOf
  <2> QED
    BY <2>2, <2>4 DEF Intact
<1> QED
  BY <1>1, Typing, Shapes, RequestFlows, ReplyFlows, PTL

(* The prober's verdict is the plugin's: a probe stream counts as echoed only when
   handleProbeStream recognised it and wrote the ping back itself, so nothing of it
   went to dst and no connection to dst is open, whatever but the ping dst would answer. *)
THEOREM OwnEcho == Spec => []VerifiedByPlugin
<1>1. Answers => VerifiedByPlugin
  BY DEF Answers, Answered, VerifiedByPlugin
<1> QED
  BY <1>1, ReplyFlows, PTL

(* pipe closes both ends as soon as one direction ends and still truncates nothing
   that was not disturbed: when the client's socket is closed although the application
   closed nothing, the connection is up and the whole request arrived, the application
   has all that dst sent. *)
THEOREM NothingTruncated == Spec => []ReplyComplete
<1>1. Types /\ ClientShape /\ ServerShape /\ Answers /\ TakenDown => ReplyComplete
  <2> SUFFICES ASSUME Types, ClientShape, ServerShape, Answers, TakenDown,
                      kind = "user", ~socket["client"], ~fin["appOut"], quic = "open",
                      q["dstIn"] = Request
               PROVE  q["appIn"] \o left["server"] = Reply
    BY DEF ReplyComplete
  <2>1. Undisturbed /\ Clean
    BY DEF Undisturbed, Clean
  <2>2. loop["cDown"] = "done" /\ q["netDown"] = << >> /\ fin["netDown"]
    BY <2>1 DEF TakenDown
  <2>3. loop["sDown"] \in {"off", "done"}
    BY <2>1, <2>2 DEF TakenDown
  <2>4. q["dstOut"] = << >>
    BY <2>1, <2>3 DEF TakenDown, ServerShape
  <2>5. ~gone["client"]
    BY DEF ClientShape
  <2>6. HeldDown ++ AheadDown = Reply
    <3>1. LastDown /\ FirstDown
      BY <2>1, <2>5 DEF LastDown, FirstDown
    <3>2. Down
      BY DEF Answers, Answered
    <3> QED
      BY <3>1, <3>2 DEF Down
  <2>7. Hand("cDown") = << >> /\ Hand("sDown") = << >>
    BY <2>2, <2>3 DEF Hand
  <2>8. q["appIn"] \in Bytes /\ left["server"] \in Bytes
    BY DEF Types
  <2>9. HeldDown = q["appIn"]
    BY <2>2, <2>7, <2>8, Bits, Unit DEF HeldDown, Held
  <2>10. AheadDown = left["server"]
    BY <2>4, <2>7, <2>8, Unit DEF AheadDown, Ahead
  <2> QED
    BY <2>6, <2>9, <2>10 DEF ++
<1> QED
  BY <1>1, Typing, Shapes, Ordered, ReplyFlows, PTL

(* The whole invariant of a stream (pipe and the two handlers around it): each part
   needs the ones above it, and together they are inductive. *)
THEOREM StreamInvariant == Spec => []Inv
BY Typing, Limited, Shapes, RequestFlows, ReplyFlows, Ordered, PTL DEF Inv
=============================================================================
