----------------------------- MODULE H2Conn_proofs ----------------------------
(***************************************************************************)
(* Proofs about H2Conn, for every set of statuses, every window and any    *)
(* number of frames that are no part of the response.                      *)
(***************************************************************************)
EXTENDS H2Conn, FiniteSetTheorems, TLAPS

-----------------------------------------------------------------------------
(* Sequences *)

\* A sequence with one more element.
LEMMA AppendOne ==
    ASSUME NEW S, NEW s \in Seq(S), NEW e \in S
    PROVE  /\ Append(s, e) \in Seq(S) /\ Len(s) \in Nat /\ Len(Append(s, e)) = Len(s) + 1
           /\ DOMAIN s = 1 .. Len(s) /\ DOMAIN Append(s, e) = 1 .. (Len(s) + 1)
           /\ \A i \in 1 .. Len(s) : Append(s, e)[i] = s[i] /\ s[i] \in S
           /\ Append(s, e)[Len(s) + 1] = e
OBVIOUS

\* A sequence without its first element.
LEMMA TailOne ==
    ASSUME NEW S, NEW s \in Seq(S), s # << >>
    PROVE  /\ Tail(s) \in Seq(S) /\ Len(s) \in Nat \ {0} /\ Len(Tail(s)) = Len(s) - 1
           /\ DOMAIN Tail(s) = 1 .. (Len(s) - 1) /\ DOMAIN s = 1 .. Len(s)
           /\ \A i \in 1 .. (Len(s) - 1) : Tail(s)[i] = s[i + 1] /\ s[i + 1] \in S
           /\ Head(s) = s[1] /\ s[1] \in S
OBVIOUS

\* One and two frames at the end.
LEMMA Concatenate ==
    ASSUME NEW S, NEW s \in Seq(S), NEW a \in S, NEW b \in S
    PROVE  /\ s \o <<a>> = Append(s, a)
           /\ s \o <<a, b>> = Append(Append(s, a), b)
           /\ s \o << >> = s
OBVIOUS

\* The frame that is in the channel comes first.
LEMMA Prepended ==
    ASSUME NEW S, NEW s \in Seq(S), NEW f \in S
    PROVE  /\ <<f>> \o s \in Seq(S) /\ <<f>> \o s # << >>
           /\ Head(<<f>> \o s) = f /\ Tail(<<f>> \o s) = s
           /\ \A a \in S : <<f>> \o Append(s, a) = Append(<<f>> \o s, a)
OBVIOUS

\* What has been read and what has not is the same as before.
LEMMA Reassembled ==
    ASSUME NEW S, NEW s \in Seq(S), s # << >>
    PROVE  Head(s) \in S /\ Tail(s) \in Seq(S) /\ <<Head(s)>> \o Tail(s) = s
OBVIOUS

-----------------------------------------------------------------------------
(* Frames *)

Types == {"settings", "early", "ping", "reset", "headers", "data"}

\* The parts of a frame.
LEMMA FrameParts ==
    ASSUME NEW f \in Frames
    PROVE  /\ f.type \in Types /\ f.stream \in {"conn", "own", "other"}
           /\ f.ack \in BOOLEAN /\ f.end \in BOOLEAN /\ f.status \in Nat /\ f.piece \in Nat
           /\ f # None /\ f # Error
BY DEF Frames, Types, None, Error

\* The frames that the server sends are frames.
LEMMA AreFrames ==
    /\ \A t \in Types, s \in {"conn", "own", "other"}, a, e \in BOOLEAN, n, p \in Nat :
          [type |-> t, stream |-> s, ack |-> a, end |-> e, status |-> n, piece |-> p] \in Frames
    /\ None \notin Frames /\ Error \notin Frames
BY DEF Frames, Types, None, Error

\* A frame of the response; the DATA among them; and the HEADERS that open it.
Own(f) == f.stream = "own" /\ f.type \in {"headers", "data"}
Data(f) == Own(f) /\ f.type = "data"
Opening(f) == Own(f) /\ f.type = "headers" /\ f.status # 0

\* A frame with one of its parts replaced.
LEMMA OnlyPieceReplaced ==
    ASSUME NEW f \in Frames, NEW n \in Nat
    PROVE  LET g == [f EXCEPT !.piece = n]
           IN  g \in Frames /\ g.type = f.type /\ g.stream = f.stream
BY DEF Frames

\* The same for the flag that ends the stream.
LEMMA OnlyEndReplaced ==
    ASSUME NEW f \in Frames
    PROVE  LET g == [f EXCEPT !.end = TRUE]
           IN  /\ g \in Frames /\ g.type = f.type /\ g.stream = f.stream
               /\ g.status = f.status /\ g.end = TRUE
BY DEF Frames

\* A frame without anything particular.
LEMMA FrameIs ==
    ASSUME NEW t \in Types, NEW s \in {"conn", "own", "other"}
    PROVE  /\ Frame(t, s) \in Frames /\ Frame(t, s).type = t /\ Frame(t, s).stream = s
           /\ Frame(t, s).status = 0
BY AreFrames DEF Frame

\* Other frames are no part of the response.
LEMMA OthersAre ==
    ASSUME NEW f \in OtherFrames PROVE f \in Frames /\ ~Own(f)
<1>1. Window + 1 \in Nat
  BY H2ConnAssumption
<1>2. /\ Frame("data", "other") \in Frames /\ Frame("data", "other").stream = "other"
      /\ Settings \in Frames /\ Settings.stream = "conn"
      /\ Frame("ping", "conn") \in Frames /\ Frame("ping", "conn").stream = "conn"
      /\ Frame("reset", "own") \in Frames /\ Frame("reset", "own").type = "reset"
      /\ Frame("headers", "other") \in Frames /\ Frame("headers", "other").stream = "other"
  BY FrameIs DEF Settings, Types
<1>3. /\ [Frame("data", "other") EXCEPT !.piece = Window + 1] \in Frames
      /\ [Frame("data", "other") EXCEPT !.piece = Window + 1].stream = "other"
  BY <1>1, <1>2, OnlyPieceReplaced
<1> QED
  BY <1>2, <1>3 DEF OtherFrames, Own

\* What the server greets and acknowledges with is no part of it either.
LEMMA GreetingsAre ==
    /\ Early \in Frames /\ Settings \in Frames /\ SettingsAck \in Frames
    /\ ~Own(Early) /\ ~Own(Settings) /\ ~Own(SettingsAck)
BY DEF Early, Settings, SettingsAck, Frame, Frames, Own

-----------------------------------------------------------------------------
(***************************************************************************)
(* The frames under way, s, from the channel to the server: the pieces of  *)
(* DATA after the n that were taken, up to d, in order and all of them;    *)
(* nothing of the response after its end; and the HEADERS first.           *)
(***************************************************************************)
DataFlow(s, n, d) ==
    /\ \A i \in DOMAIN s : Data(s[i]) => s[i].piece \in (n + 1) .. d
    /\ \A i, j \in DOMAIN s : i < j /\ Data(s[i]) /\ Data(s[j]) => s[i].piece < s[j].piece
    /\ \A k \in (n + 1) .. d : \E i \in DOMAIN s : Data(s[i]) /\ s[i].piece = k

EndFlow(s, ended) ==
    \A i \in DOMAIN s : Own(s[i]) /\ s[i].end =>
        ended /\ \A j \in DOMAIN s : j > i => ~Own(s[j])

HeadFlow(s, sent) ==
    \A i \in DOMAIN s : Own(s[i]) => sent # 0 /\ (Opening(s[i]) => s[i].status = sent)

FirstFlow(s, st, sent) ==
    /\ st \in {0, sent}
    /\ st = 0 /\ sent # 0 =>
          \E j \in DOMAIN s : Opening(s[j]) /\ \A i \in 1 .. (j - 1) : ~Own(s[i])

\* Without the first frame.
LEMMA FlowTail ==
    ASSUME NEW s \in Seq(Frames), s # << >>,
           NEW n \in Nat, NEW d \in Nat, NEW e \in BOOLEAN, NEW st \in Nat, NEW sent \in Nat
    PROVE  /\ DataFlow(s, n, d) /\ ~Data(Head(s)) => DataFlow(Tail(s), n, d)
           /\ EndFlow(s, e) => EndFlow(Tail(s), e)
           /\ HeadFlow(s, sent) => HeadFlow(Tail(s), sent)
           /\ FirstFlow(s, st, sent) /\ ~Own(Head(s)) => FirstFlow(Tail(s), st, sent)
<1> DEFINE t == Tail(s)
<1>0. /\ Len(s) \in Nat \ {0} /\ DOMAIN t = 1 .. (Len(s) - 1) /\ DOMAIN s = 1 .. Len(s)
      /\ \A i \in DOMAIN t : i + 1 \in DOMAIN s /\ t[i] = s[i + 1] /\ i \in Nat
      /\ Head(s) = s[1]
  BY TailOne
<1>a. \A i \in DOMAIN s : i # 1 => i - 1 \in DOMAIN t /\ s[i] = t[i - 1]
  BY <1>0
<1> HIDE DEF t
<1>1. ASSUME DataFlow(s, n, d), ~Data(Head(s)) PROVE DataFlow(t, n, d)
  <2>1. \A i \in DOMAIN t : Data(t[i]) => t[i].piece \in (n + 1) .. d
    BY <1>0, <1>1 DEF DataFlow
  <2>2. \A i, j \in DOMAIN t : i < j /\ Data(t[i]) /\ Data(t[j]) => t[i].piece < t[j].piece
    <3> SUFFICES ASSUME NEW i \in DOMAIN t, NEW j \in DOMAIN t, i < j, Data(t[i]), Data(t[j])
                 PROVE  t[i].piece < t[j].piece
      OBVIOUS
    <3>1. i + 1 \in DOMAIN s /\ j + 1 \in DOMAIN s /\ i + 1 < j + 1
      BY <1>0
    <3> QED
      BY <1>0, <1>1, <3>1 DEF DataFlow
  <2>3. \A k \in (n + 1) .. d : \E i \in DOMAIN t : Data(t[i]) /\ t[i].piece = k
    <3> SUFFICES ASSUME NEW k \in (n + 1) .. d
                 PROVE  \E i \in DOMAIN t : Data(t[i]) /\ t[i].piece = k
      OBVIOUS
    <3>1. PICK i \in DOMAIN s : Data(s[i]) /\ s[i].piece = k
      BY <1>1 DEF DataFlow
    <3> QED
      BY <1>0, <1>a, <1>1, <3>1
  <2> QED
    BY <2>1, <2>2, <2>3 DEF DataFlow
<1>2. ASSUME EndFlow(s, e) PROVE EndFlow(t, e)
  <2> SUFFICES ASSUME NEW i \in DOMAIN t, Own(t[i]), t[i].end
               PROVE  e /\ \A j \in DOMAIN t : j > i => ~Own(t[j])
    BY DEF EndFlow
  <2>1. e /\ \A j \in DOMAIN s : j > i + 1 => ~Own(s[j])
    BY <1>0, <1>2 DEF EndFlow
  <2>2. \A j \in DOMAIN t : j > i => j + 1 > i + 1 /\ j + 1 \in DOMAIN s /\ t[j] = s[j + 1]
    BY <1>0
  <2> QED
    BY <2>1, <2>2
<1>3. ASSUME HeadFlow(s, sent) PROVE HeadFlow(t, sent)
  BY <1>0, <1>3 DEF HeadFlow
<1>4. ASSUME FirstFlow(s, st, sent), ~Own(Head(s)) PROVE FirstFlow(t, st, sent)
  <2> SUFFICES ASSUME st = 0, sent # 0
               PROVE  \E j \in DOMAIN t : Opening(t[j]) /\ \A i \in 1 .. (j - 1) : ~Own(t[i])
    BY <1>4 DEF FirstFlow
  <2>1. PICK j \in DOMAIN s : Opening(s[j]) /\ \A i \in 1 .. (j - 1) : ~Own(s[i])
    BY <1>4 DEF FirstFlow
  <2>2. j - 1 \in DOMAIN t /\ Opening(t[j - 1])
    BY <1>0, <1>a, <1>4, <2>1 DEF Opening
  <2>3. \A i \in 1 .. ((j - 1) - 1) : i \in DOMAIN t /\ i + 1 \in 1 .. (j - 1)
    BY <1>0, <2>2
  <2> QED
    BY <1>0, <2>1, <2>2, <2>3
<1> QED
  BY <1>1, <1>2, <1>3, <1>4 DEF t

\* A frame that is no part of the response comes behind the others.
LEMMA FlowOther ==
    ASSUME NEW s \in Seq(Frames), NEW f \in Frames, ~Own(f),
           NEW n \in Nat, NEW d \in Nat, NEW e \in BOOLEAN, NEW st \in Nat, NEW sent \in Nat
    PROVE  /\ DataFlow(s, n, d) => DataFlow(Append(s, f), n, d)
           /\ EndFlow(s, e) => EndFlow(Append(s, f), e)
           /\ HeadFlow(s, sent) => HeadFlow(Append(s, f), sent)
           /\ FirstFlow(s, st, sent) => FirstFlow(Append(s, f), st, sent)
<1> DEFINE t == Append(s, f)
<1>0. /\ Len(s) \in Nat /\ DOMAIN s = 1 .. Len(s) /\ DOMAIN t = 1 .. (Len(s) + 1)
      /\ \A i \in DOMAIN s : i \in DOMAIN t /\ t[i] = s[i]
      /\ \A i \in DOMAIN t : i \in Nat
      /\ t[Len(s) + 1] = f
  BY AppendOne
<1>a. \A i \in DOMAIN t : Own(t[i]) => i \in DOMAIN s
  BY <1>0
<1> HIDE DEF t
<1>1. ASSUME DataFlow(s, n, d) PROVE DataFlow(t, n, d)
  BY <1>0, <1>a, <1>1 DEF DataFlow, Data
<1>2. ASSUME EndFlow(s, e) PROVE EndFlow(t, e)
  BY <1>0, <1>a, <1>2 DEF EndFlow
<1>3. ASSUME HeadFlow(s, sent) PROVE HeadFlow(t, sent)
  BY <1>0, <1>a, <1>3 DEF HeadFlow
<1>4. ASSUME FirstFlow(s, st, sent) PROVE FirstFlow(t, st, sent)
  <2> SUFFICES ASSUME st = 0, sent # 0
               PROVE  \E j \in DOMAIN t : Opening(t[j]) /\ \A i \in 1 .. (j - 1) : ~Own(t[i])
    BY <1>4 DEF FirstFlow
  <2>1. PICK j \in DOMAIN s : Opening(s[j]) /\ \A i \in 1 .. (j - 1) : ~Own(s[i])
    BY <1>4 DEF FirstFlow
  <2>2. j \in DOMAIN t /\ Opening(t[j])
    BY <1>0, <2>1
  <2>3. \A i \in 1 .. (j - 1) : i \in DOMAIN s
    BY <1>0
  <2> QED
    BY <1>0, <2>1, <2>2, <2>3
<1> QED
  BY <1>1, <1>2, <1>3, <1>4 DEF t

\* The HEADERS that open the response, before anything else of it.
LEMMA FlowOpening ==
    ASSUME NEW s \in Seq(Frames), NEW f \in Frames, Opening(f), HeadFlow(s, 0),
           NEW n \in Nat, NEW d \in Nat, NEW st \in Nat
    PROVE  /\ DataFlow(s, n, d) => DataFlow(Append(s, f), n, d)
           /\ EndFlow(Append(s, f), f.end)
           /\ HeadFlow(Append(s, f), f.status)
           /\ FirstFlow(s, st, 0) => FirstFlow(Append(s, f), st, f.status)
<1> DEFINE t == Append(s, f)
<1>0. /\ Len(s) \in Nat /\ DOMAIN s = 1 .. Len(s) /\ DOMAIN t = 1 .. (Len(s) + 1)
      /\ \A i \in DOMAIN s : i \in DOMAIN t /\ t[i] = s[i]
      /\ \A i \in DOMAIN t : i \in Nat /\ (i \in DOMAIN s \/ i = Len(s) + 1)
      /\ t[Len(s) + 1] = f
  BY AppendOne
<1>a. \A i \in DOMAIN s : ~Own(s[i])
  BY DEF HeadFlow
<1>b. \A i \in DOMAIN t : Own(t[i]) => i = Len(s) + 1
  BY <1>0, <1>a
<1>c. ~Data(f)
  BY DEF Opening, Data
<1> HIDE DEF t
<1>1. ASSUME DataFlow(s, n, d) PROVE DataFlow(t, n, d)
  <2>1. \A i \in DOMAIN t : ~Data(t[i])
    BY <1>0, <1>b, <1>c DEF Data
  <2>2. \A k \in (n + 1) .. d : FALSE
    BY <1>1, <1>a DEF DataFlow, Data
  <2> QED
    BY <2>1, <2>2 DEF DataFlow
<1>2. EndFlow(t, f.end)
  BY <1>0, <1>b DEF EndFlow
<1>3. HeadFlow(t, f.status)
  BY <1>0, <1>b DEF HeadFlow, Opening
<1>4. ASSUME FirstFlow(s, st, 0) PROVE FirstFlow(t, st, f.status)
  <2>1. \A i \in 1 .. ((Len(s) + 1) - 1) : ~Own(t[i])
    BY <1>0, <1>a
  <2>2. Len(s) + 1 \in DOMAIN t /\ Opening(t[Len(s) + 1])
    BY <1>0
  <2> QED
    BY <1>4, <2>1, <2>2 DEF FirstFlow
<1> QED
  BY <1>1, <1>2, <1>3, <1>4 DEF t

\* A frame that goes on with the response: the next piece of DATA, or the end.
LEMMA FlowNext ==
    ASSUME NEW s \in Seq(Frames), NEW f \in Frames, Own(f), ~Opening(f),
           NEW n \in Nat, NEW d \in Nat, NEW st \in Nat, NEW sent \in Nat \ {0}, n <= d
    PROVE  /\ DataFlow(s, n, d) /\ Data(f) /\ f.piece = d + 1 => DataFlow(Append(s, f), n, d + 1)
           /\ DataFlow(s, n, d) /\ ~Data(f) => DataFlow(Append(s, f), n, d)
           /\ EndFlow(s, FALSE) => EndFlow(Append(s, f), f.end)
           /\ HeadFlow(s, sent) => HeadFlow(Append(s, f), sent)
           /\ FirstFlow(s, st, sent) => FirstFlow(Append(s, f), st, sent)
<1> DEFINE t == Append(s, f)
           l == Len(s) + 1
<1>0. /\ Len(s) \in Nat /\ l \in Nat /\ DOMAIN s = 1 .. Len(s) /\ DOMAIN t = 1 .. l
      /\ \A i \in DOMAIN s : i \in DOMAIN t /\ t[i] = s[i] /\ i < l
      /\ \A i \in DOMAIN t : i \in Nat /\ (i \in DOMAIN s \/ i = l)
      /\ l \in DOMAIN t /\ t[l] = f
  BY AppendOne
<1> HIDE DEF t, l
<1>1. ASSUME DataFlow(s, n, d), Data(f), f.piece = d + 1 PROVE DataFlow(t, n, d + 1)
  <2>1. \A i \in DOMAIN t : Data(t[i]) => t[i].piece \in (n + 1) .. (d + 1)
    <3>1. f.piece \in (n + 1) .. (d + 1)
      BY <1>1
    <3>2. \A i \in DOMAIN s : Data(s[i]) => s[i].piece \in (n + 1) .. (d + 1)
      BY <1>1 DEF DataFlow
    <3> QED
      BY <1>0, <3>1, <3>2
  <2>2. \A i, j \in DOMAIN t : i < j /\ Data(t[i]) /\ Data(t[j]) => t[i].piece < t[j].piece
    <3> SUFFICES ASSUME NEW i \in DOMAIN t, NEW j \in DOMAIN t, i < j, Data(t[i]), Data(t[j])
                 PROVE  t[i].piece < t[j].piece
      OBVIOUS
    <3>1. i \in DOMAIN s
      BY <1>0
    <3>2. t[i].piece \in (n + 1) .. d /\ t[i] = s[i]
      BY <1>0, <1>1, <3>1 DEF DataFlow
    <3>3. CASE j = l
      BY <1>0, <1>1, <3>2, <3>3
    <3>4. CASE j \in DOMAIN s
      BY <1>0, <1>1, <3>1, <3>4 DEF DataFlow
    <3> QED
      BY <1>0, <3>3, <3>4
  <2>3. \A k \in (n + 1) .. (d + 1) : \E i \in DOMAIN t : Data(t[i]) /\ t[i].piece = k
    <3> SUFFICES ASSUME NEW k \in (n + 1) .. (d + 1)
                 PROVE  \E i \in DOMAIN t : Data(t[i]) /\ t[i].piece = k
      OBVIOUS
    <3>1. CASE k = d + 1
      BY <1>0, <1>1, <3>1
    <3>2. CASE k \in (n + 1) .. d
      BY <1>0, <1>1, <3>2 DEF DataFlow
    <3> QED
      BY <3>1, <3>2
  <2> QED
    BY <2>1, <2>2, <2>3 DEF DataFlow
<1>2. ASSUME DataFlow(s, n, d), ~Data(f) PROVE DataFlow(t, n, d)
  BY <1>0, <1>2 DEF DataFlow
<1>3. ASSUME EndFlow(s, FALSE) PROVE EndFlow(t, f.end)
  BY <1>0, <1>3 DEF EndFlow
<1>4. ASSUME HeadFlow(s, sent) PROVE HeadFlow(t, sent)
  BY <1>0, <1>4 DEF HeadFlow
<1>5. ASSUME FirstFlow(s, st, sent) PROVE FirstFlow(t, st, sent)
  <2> SUFFICES ASSUME st = 0
               PROVE  \E j \in DOMAIN t : Opening(t[j]) /\ \A i \in 1 .. (j - 1) : ~Own(t[i])
    BY <1>5 DEF FirstFlow
  <2>1. PICK j \in DOMAIN s : Opening(s[j]) /\ \A i \in 1 .. (j - 1) : ~Own(s[i])
    BY <1>5 DEF FirstFlow
  <2>2. j \in DOMAIN t /\ Opening(t[j])
    BY <1>0, <2>1
  <2>3. \A i \in 1 .. (j - 1) : i \in DOMAIN s
    BY <1>0
  <2> QED
    BY <1>0, <2>1, <2>2, <2>3
<1> QED
  BY <1>1, <1>2, <1>3, <1>4, <1>5 DEF t

\* The next frame of DATA is the next piece.
LEMMA FlowTake ==
    ASSUME NEW s \in Seq(Frames), s # << >>, Data(Head(s)), NEW n \in Nat, NEW d \in Nat,
           DataFlow(s, n, d)
    PROVE  Head(s).piece = n + 1 /\ n + 1 <= d /\ DataFlow(Tail(s), n + 1, d)
<1> DEFINE t == Tail(s)
<1>0. /\ Len(s) \in Nat \ {0} /\ DOMAIN t = 1 .. (Len(s) - 1) /\ DOMAIN s = 1 .. Len(s)
      /\ \A i \in DOMAIN t : i + 1 \in DOMAIN s /\ t[i] = s[i + 1] /\ i \in Nat
      /\ Head(s) = s[1] /\ 1 \in DOMAIN s
  BY TailOne
<1>a. \A i \in DOMAIN s : i # 1 => i - 1 \in DOMAIN t /\ s[i] = t[i - 1] /\ 1 < i
  BY <1>0
<1> HIDE DEF t
<1>1. s[1].piece \in (n + 1) .. d
  BY <1>0 DEF DataFlow
<1>2. \A i \in DOMAIN s : i # 1 /\ Data(s[i]) => s[1].piece < s[i].piece
  BY <1>0, <1>a DEF DataFlow
<1>3. s[1].piece = n + 1 /\ n + 1 <= d
  <2>1. n + 1 \in (n + 1) .. d
    BY <1>1
  <2>2. PICK i \in DOMAIN s : Data(s[i]) /\ s[i].piece = n + 1
    BY <2>1 DEF DataFlow
  <2>3. i = 1
    BY <1>1, <1>2, <2>2
  <2> QED
    BY <1>1, <2>2, <2>3
<1>4. DataFlow(t, n + 1, d)
  <2>1. \A i \in DOMAIN t : Data(t[i]) => t[i].piece \in ((n + 1) + 1) .. d
    <3> SUFFICES ASSUME NEW i \in DOMAIN t, Data(t[i]) PROVE t[i].piece \in ((n + 1) + 1) .. d
      OBVIOUS
    <3>1. i + 1 \in DOMAIN s /\ t[i] = s[i + 1] /\ i + 1 # 1
      BY <1>0
    <3>2. t[i].piece \in (n + 1) .. d /\ n + 1 < t[i].piece
      BY <1>2, <1>3, <3>1 DEF DataFlow
    <3> QED
      BY <3>2
  <2>2. \A i, j \in DOMAIN t : i < j /\ Data(t[i]) /\ Data(t[j]) => t[i].piece < t[j].piece
    <3> SUFFICES ASSUME NEW i \in DOMAIN t, NEW j \in DOMAIN t, i < j, Data(t[i]), Data(t[j])
                 PROVE  t[i].piece < t[j].piece
      OBVIOUS
    <3>1. i + 1 \in DOMAIN s /\ j + 1 \in DOMAIN s /\ i + 1 < j + 1
      BY <1>0
    <3> QED
      BY <1>0, <3>1 DEF DataFlow
  <2>3. \A k \in ((n + 1) + 1) .. d : \E i \in DOMAIN t : Data(t[i]) /\ t[i].piece = k
    <3> SUFFICES ASSUME NEW k \in ((n + 1) + 1) .. d
                 PROVE  \E i \in DOMAIN t : Data(t[i]) /\ t[i].piece = k
      OBVIOUS
    <3>1. k \in (n + 1) .. d /\ k # n + 1
      OBVIOUS
    <3>2. PICK i \in DOMAIN s : Data(s[i]) /\ s[i].piece = k
      BY <3>1 DEF DataFlow
    <3>3. i # 1
      BY <1>3, <3>1, <3>2
    <3> QED
      BY <1>a, <3>2, <3>3
  <2> QED
    BY <2>1, <2>2, <2>3 DEF DataFlow
<1> QED
  BY <1>0, <1>3, <1>4 DEF t

\* When nothing of the response is under way, all DATA was taken.
LEMMA Drained ==
    ASSUME NEW s \in Seq(Frames), \A i \in DOMAIN s : ~Own(s[i]),
           NEW n \in Nat, NEW d \in Nat, n <= d, DataFlow(s, n, d)
    PROVE  n = d
<1>1. ~(n + 1 \in (n + 1) .. d)
  BY DEF DataFlow, Data
<1> QED
  BY <1>1

\* Behind the end there is nothing of the response.
LEMMA EndTaken ==
    ASSUME NEW s \in Seq(Frames), s # << >>, Own(Head(s)), Head(s).end,
           NEW e \in BOOLEAN, EndFlow(s, e)
    PROVE  e /\ \A i \in DOMAIN Tail(s) : ~Own(Tail(s)[i])
<1>0. /\ \A i \in DOMAIN Tail(s) : i + 1 \in DOMAIN s /\ Tail(s)[i] = s[i + 1] /\ i + 1 > 1
      /\ Head(s) = s[1] /\ 1 \in DOMAIN s
  BY TailOne
<1>1. e /\ \A j \in DOMAIN s : j > 1 => ~Own(s[j])
  BY <1>0 DEF EndFlow
<1> QED
  BY <1>0, <1>1

\* The first frame of the response opens it.
LEMMA FirstTaken ==
    ASSUME NEW s \in Seq(Frames), s # << >>, Own(Head(s)), NEW st \in Nat, NEW sent \in Nat,
           HeadFlow(s, sent), FirstFlow(s, st, sent)
    PROVE  /\ sent # 0 /\ st \in {0, sent} /\ (st = 0 => Opening(Head(s)))
           /\ (Opening(Head(s)) => Head(s).status = sent)
<1>0. Head(s) = s[1] /\ 1 \in DOMAIN s /\ DOMAIN s = 1 .. Len(s) /\ Len(s) \in Nat
  BY TailOne
<1>1. sent # 0 /\ (Opening(Head(s)) => Head(s).status = sent)
  BY <1>0 DEF HeadFlow
<1>2. ASSUME st = 0 PROVE Opening(Head(s))
  <2>1. PICK j \in DOMAIN s : Opening(s[j]) /\ \A i \in 1 .. (j - 1) : ~Own(s[i])
    BY <1>1, <1>2 DEF FirstFlow
  <2>2. j = 1
    BY <1>0, <2>1
  <2> QED
    BY <1>0, <2>1, <2>2
<1> QED
  BY <1>1, <1>2 DEF FirstFlow

-----------------------------------------------------------------------------
(* The invariants *)

\* TypeOK, but for what needs more than types, and the record of the server.
BaseInv ==
    /\ phase \in {"peek", "preface", "settings", "finish", "ready", "loop",
                  "select", "returned", "closed", "failed"}
    /\ first \in Frames \cup {None} /\ chan \in Frames \cup {None, Error}
    /\ reader \in {"none", "reading"} /\ deadline \in BOOLEAN /\ ctxDone \in BOOLEAN
    /\ status \in Nat /\ body \in Seq(Nat) /\ acks \in Nat
    /\ in \in Seq(Frames) /\ others \in Nat /\ skew \in BOOLEAN
    /\ reader = "reading" => phase \in {"select", "returned", "closed"} /\ chan = None
    /\ phase \notin {"select", "returned", "closed"} => chan = None
    /\ srv \in [greeted : BOOLEAN, settings : Nat, status : Nat, data : Nat,
                ended : BOOLEAN, closed : BOOLEAN]

\* Nothing has been sent, and the channel is empty.
LEMMA BaseInit == Init => BaseInv
<1> SUFFICES ASSUME Init PROVE BaseInv
  OBVIOUS
<1>1. body \in Seq(Nat) /\ in \in Seq(Frames)
  BY DEF Init
<1> QED
  BY <1>1 DEF Init, BaseInv

\* The response as far as the request has taken it.
LEMMA TakesType ==
    ASSUME BaseInv, Received, LoopFrame, chan \in Frames,
           IF chan.stream = "own" THEN TakeOwn(chan) ELSE PassOver(chan)
    PROVE  /\ phase' \in {"loop", "returned"} /\ status' \in Nat /\ body' \in Seq(Nat)
           /\ acks' \in Nat /\ skew' \in BOOLEAN
<1>1. chan.status \in Nat /\ chan.piece \in Nat /\ chan.end \in BOOLEAN
  BY FrameParts
<1>2. Statuses \subseteq Nat
  BY H2ConnAssumption
<1>3. CASE chan.stream = "own" /\ chan.type = "data" /\ TakeData(chan)
  <2>1. body' \in Seq(Nat)
    BY <1>1, <1>3 DEF TakeData, BaseInv
  <2> QED
    BY <1>3, <2>1 DEF TakeData, Answered, Return, BaseInv
<1>4. CASE chan.stream = "own" /\ chan.type = "headers" /\ TakeHeaders(chan)
  <2>1. status' \in Nat
    BY <1>1, <1>2, <1>4 DEF TakeHeaders, BaseInv
  <2> QED
    BY <1>4, <2>1 DEF TakeHeaders, Answered, Return, BaseInv
<1>5. CASE chan.stream = "own" /\ chan.type = "reset"
           /\ phase' = "loop" /\ UNCHANGED <<response, acks, result>>
  BY <1>5 DEF BaseInv, response
<1>6. CASE chan.stream # "own" /\ PassOver(chan)
  <2>1. acks' \in Nat
    BY <1>6 DEF PassOver, BaseInv
  <2> QED
    BY <1>6, <2>1 DEF PassOver, BaseInv
<1> QED
  BY <1>3, <1>4, <1>5, <1>6 DEF TakeOwn

\* Frames of the response before their parts are filled in.
LEMMA OwnFrames ==
    /\ Frame("headers", "own") \in Frames /\ Frame("headers", "own").stream = "own"
    /\ Frame("headers", "own").type = "headers" /\ Frame("headers", "own").status = 0
    /\ Frame("data", "own") \in Frames /\ Frame("data", "own").stream = "own"
    /\ Frame("data", "own").type = "data"
BY FrameIs DEF Types

\* The HEADERS of the response, behind an acknowledgement of our SETTINGS.
LEMMA HeadersSent ==
    ASSUME BaseInv, NEW s \in Statuses, NEW end \in BOOLEAN, SendHeaders(s, end)
    PROVE  \E f \in Frames :
              /\ Asked /\ srv.status = 0 /\ Opening(f)
              /\ in' = Append(Append(in, SettingsAck), f)
              /\ srv' = [srv EXCEPT !.status = f.status, !.ended = f.end]
<1>0. in \in Seq(Frames) /\ Statuses \subseteq Nat \ {0} /\ srv.data \in Nat
  BY H2ConnAssumption DEF BaseInv
<1> DEFINE f == [Frame("headers", "own") EXCEPT !.status = s, !.end = end]
<1>a. /\ f \in Frames /\ f.type = "headers" /\ f.stream = "own" /\ f.status = s
      /\ f.end = end /\ s # 0
  <2>1. s \in Nat /\ s # 0
    BY <1>0
  <2>2. f \in Frames
    BY <2>1, OwnFrames DEF Frames
  <2>3. f.type = "headers" /\ f.stream = "own" /\ f.status = s /\ f.end = end
    <3>1. f.type = "headers" /\ f.stream = "own"
      BY OwnFrames DEF Frames
    <3>2. f.status = s
      BY <2>1, OwnFrames DEF Frames
    <3>3. f.end = end
      BY OwnFrames DEF Frames
    <3> QED
      BY <3>1, <3>2, <3>3
  <2> QED
    BY <2>1, <2>2, <2>3
<1>2. in' = in \o <<SettingsAck, f>>
  BY DEF SendHeaders, Send
<1> HIDE DEF f
<1>1. f \in Frames /\ Opening(f) /\ f.status = s /\ f.end = end
  BY <1>a DEF Opening, Own
<1>3. in' = Append(Append(in, SettingsAck), f)
  BY <1>0, <1>1, <1>2, GreetingsAre, Concatenate
<1> QED
  BY <1>1, <1>3, GreetingsAre DEF SendHeaders

\* The next piece of DATA.
LEMMA DataSent ==
    ASSUME BaseInv, NEW end \in BOOLEAN, SendData(end)
    PROVE  \E f \in Frames :
              /\ srv.status # 0 /\ ~srv.ended /\ Data(f) /\ f.piece = srv.data + 1
              /\ srv.data < Window /\ in' = Append(in, f)
              /\ srv' = [srv EXCEPT !.data = srv.data + 1, !.ended = f.end]
<1>0. in \in Seq(Frames) /\ Statuses \subseteq Nat \ {0} /\ srv.data \in Nat
  BY H2ConnAssumption DEF BaseInv
<1> DEFINE f == [Frame("data", "own") EXCEPT !.piece = srv.data + 1, !.end = end]
<1>a. /\ f \in Frames /\ f.type = "data" /\ f.stream = "own"
      /\ f.piece = srv.data + 1 /\ f.end = end
  <2>1. srv.data + 1 \in Nat
    BY <1>0
  <2>2. f \in Frames
    BY <2>1, OwnFrames DEF Frames
  <2>3. f.type = "data" /\ f.stream = "own"
    BY OwnFrames DEF Frames
  <2>4. f.piece = srv.data + 1
    BY OwnFrames DEF Frames
  <2>5. f.end = end
    BY OwnFrames DEF Frames
  <2> QED
    BY <2>2, <2>3, <2>4, <2>5
<1>2. in' = in \o <<f>>
  BY DEF SendData, Send
<1> HIDE DEF f
<1>1. f \in Frames /\ Data(f) /\ f.piece = srv.data + 1 /\ f.end = end
  BY <1>a DEF Data, Own
<1>3. in' = Append(in, f)
  BY <1>0, <1>1, <1>2, Concatenate
<1> QED
  BY <1>1, <1>3 DEF SendData

\* The end without more DATA.
LEMMA TrailersSent ==
    ASSUME BaseInv, SendTrailers
    PROVE  \E f \in Frames :
              /\ srv.status # 0 /\ ~srv.ended /\ Own(f) /\ ~Data(f) /\ ~Opening(f) /\ f.end
              /\ in' = Append(in, f)
              /\ srv' = [srv EXCEPT !.ended = TRUE]
<1>0. in \in Seq(Frames) /\ Statuses \subseteq Nat \ {0} /\ srv.data \in Nat
  BY H2ConnAssumption DEF BaseInv
<1> DEFINE f == [Frame("headers", "own") EXCEPT !.end = TRUE]
<1>a. /\ f \in Frames /\ f.type = "headers" /\ f.stream = "own" /\ f.status = 0
      /\ f.end = TRUE
  BY OwnFrames, OnlyEndReplaced
<1>2. in' = in \o <<f>>
  BY DEF SendTrailers, Send
<1> HIDE DEF f
<1>1. f \in Frames /\ Own(f) /\ ~Data(f) /\ ~Opening(f) /\ f.end
  BY <1>a DEF Own, Data, Opening
<1>3. in' = Append(in, f)
  BY <1>0, <1>1, <1>2, Concatenate
<1> QED
  BY <1>1, <1>3 DEF SendTrailers

\* What a step of the server is, to the client.
LEMMA ServerSends ==
    ASSUME BaseInv, Server
    PROVE  /\ UNCHANGED <<calling, reading, ctx, response, acks, received>>
           /\ \/ in' = in /\ srv' = [srv EXCEPT !.closed = TRUE]
              \/ /\ \E a, b \in Frames :
                       /\ ~Own(a) /\ ~Own(b)
                       /\ in' = Append(in, a) \/ in' = Append(Append(in, a), b)
                 /\ \E g \in BOOLEAN, n \in Nat : srv' = [srv EXCEPT !.greeted = g, !.settings = n]
              \/ \E a, f \in Frames :
                    /\ Asked /\ srv.status = 0 /\ ~Own(a) /\ Opening(f)
                    /\ in' = Append(Append(in, a), f)
                    /\ srv' = [srv EXCEPT !.status = f.status, !.ended = f.end]
              \/ \E f \in Frames :
                    /\ srv.status # 0 /\ ~srv.ended /\ Data(f) /\ f.piece = srv.data + 1
                    /\ srv.data < Window /\ in' = Append(in, f)
                    /\ srv' = [srv EXCEPT !.data = srv.data + 1, !.ended = f.end]
              \/ \E f \in Frames :
                    /\ srv.status # 0 /\ ~srv.ended /\ Own(f) /\ ~Data(f) /\ ~Opening(f) /\ f.end
                    /\ in' = Append(in, f)
                    /\ srv' = [srv EXCEPT !.ended = TRUE]
<1>0. /\ in \in Seq(Frames) /\ Statuses \subseteq Nat \ {0}
      /\ srv.settings \in Nat /\ srv.data \in Nat /\ srv.greeted \in BOOLEAN
      /\ DOMAIN srv = {"greeted", "settings", "status", "data", "ended", "closed"}
  BY H2ConnAssumption DEF BaseInv
<1>1. CASE Greet
  <2>1. \/ in' = Append(in, Settings)
        \/ in' = Append(Append(in, Early), Settings)
    BY <1>0, <1>1, GreetingsAre, Concatenate DEF Greet, Send
  <2>2. srv' = [srv EXCEPT !.greeted = TRUE, !.settings = 1]
    BY <1>1 DEF Greet
  <2> QED
    BY <1>1, <2>1, <2>2, GreetingsAre DEF Greet, Send
<1>2. ASSUME NEW s \in Statuses, NEW end \in BOOLEAN, SendHeaders(s, end)
      PROVE  \E a, f \in Frames :
                /\ Asked /\ srv.status = 0 /\ ~Own(a) /\ Opening(f)
                /\ in' = Append(Append(in, a), f)
                /\ srv' = [srv EXCEPT !.status = f.status, !.ended = f.end]
  BY <1>2, HeadersSent, GreetingsAre
<1>5. ASSUME NEW f \in OtherFrames, SendOther(f)
      PROVE  /\ \E a, b \in Frames : /\ ~Own(a) /\ ~Own(b)
                                     /\ in' = Append(in, a) \/ in' = Append(Append(in, a), b)
             /\ \E g \in BOOLEAN, n \in Nat : srv' = [srv EXCEPT !.greeted = g, !.settings = n]
  <2>1. f \in Frames /\ ~Own(f)
    BY OthersAre
  <2>2. in' = Append(in, f)
    BY <1>0, <1>5, <2>1, Concatenate DEF SendOther, Send
  <2> DEFINE k == srv.settings + (IF f.type = "settings" THEN 1 ELSE 0)
  <2>a. k \in Nat /\ srv' = [srv EXCEPT !.settings = k]
    BY <1>0, <1>5 DEF SendOther
  <2> HIDE DEF k
  <2>3. \E n \in Nat : srv' = [srv EXCEPT !.settings = n]
    BY <2>a
  <2>4. \A n \in Nat : [srv EXCEPT !.settings = n] =
                       [srv EXCEPT !.greeted = srv.greeted, !.settings = n]
    BY DEF BaseInv
  <2> QED
    BY <1>0, <2>1, <2>2, <2>3, <2>4
<1>6. CASE ServerCloses
  BY <1>0, <1>6, Concatenate DEF ServerCloses, Send
<1>7. UNCHANGED <<calling, reading, ctx, response, acks, received>>
  BY DEF Server, Greet, SendHeaders, SendData, SendTrailers, SendOther, ServerCloses, Send
<1> QED
  BY <1>1, <1>2, <1>5, <1>6, <1>7, DataSent, TrailersSent DEF Server

\* Every step keeps types and channel.
LEMMA BaseStep == BaseInv /\ [Next]_vars => BaseInv'
<1> SUFFICES ASSUME BaseInv, [Next]_vars PROVE BaseInv'
  OBVIOUS
<1> USE DEF calling, reading, ctx, response, server
<1>1. CASE UNCHANGED vars
  BY <1>1 DEF BaseInv, vars
<1>2. CASE Peek \/ ReadSettings
  <2>1. in # << >> /\ in' = Tail(in) /\ first' \in Frames \cup {None}
    <3>1. in # << >> /\ in' = Tail(in) /\ first' \in {None, Head(in)}
      BY <1>2 DEF Peek, ReadSettings, Taken
    <3> QED
      BY <3>1, Reassembled DEF BaseInv
  <2>2. in' \in Seq(Frames)
    BY <2>1, Reassembled DEF BaseInv
  <2> QED
    BY <1>2, <2>1, <2>2 DEF Peek, ReadSettings, BaseInv
<1>3. CASE WritePreface \/ InitFails \/ SendRequest \/ CtxEnds
  BY <1>3 DEF WritePreface, InitFails, SendRequest, CtxEnds, BaseInv
<1>4. CASE FinishInit
  <2>1. acks' \in Nat
    BY <1>4 DEF FinishInit, BaseInv
  <2> QED
    BY <1>4, <2>1 DEF FinishInit, BaseInv
<1>5. CASE StartReader \/ Close
  BY <1>5 DEF StartReader, Close, BaseInv
<1>6. CASE ReaderFrame
  <2>1. Head(in) \in Frames /\ in' = Tail(in) /\ in' \in Seq(Frames)
    BY <1>6, Reassembled DEF ReaderFrame, Taken, BaseInv
  <2> QED
    BY <1>6, <2>1 DEF ReaderFrame, BaseInv
<1>7. CASE ReaderFails
  BY <1>7 DEF ReaderFails, BaseInv
<1>8. CASE SelectCtx
  BY <1>8 DEF SelectCtx, ReadError, Return, BaseInv
<1>9. CASE SelectFrame
  <2>1. Received /\ LoopFrame /\ chan \in Frames \cup {Error}
    BY <1>9 DEF SelectFrame, Received, BaseInv
  <2>2. /\ phase' \in {"loop", "returned"} /\ status' \in Nat /\ body' \in Seq(Nat)
        /\ acks' \in Nat /\ skew' \in BOOLEAN
    <3>1. CASE chan = Error /\ ReadError
      BY <3>1 DEF ReadError, Return, BaseInv
    <3>2. CASE chan # Error
      BY <1>9, <2>1, <3>2, TakesType DEF SelectFrame
    <3> QED
      BY <1>9, <3>1, <3>2 DEF SelectFrame
  <2> QED
    BY <2>1, <2>2 DEF Received, LoopFrame, BaseInv
<1>10. CASE Server
  <2>1. in' \in Seq(Frames)
    <3>1. \A a, b \in Frames :
             Append(in, a) \in Seq(Frames) /\ Append(Append(in, a), b) \in Seq(Frames)
      BY AppendOne DEF BaseInv
    <3>2. \/ in' = in
          \/ \E a \in Frames : in' = Append(in, a)
          \/ \E a, b \in Frames : in' = Append(Append(in, a), b)
      BY <1>10, ServerSends
    <3>3. in \in Seq(Frames)
      BY DEF BaseInv
    <3> QED
      BY <3>1, <3>2, <3>3, Zenon
  <2>2. srv' \in [greeted : BOOLEAN, settings : Nat, status : Nat, data : Nat,
                  ended : BOOLEAN, closed : BOOLEAN]
    <3>1. \A f \in Frames : f.status \in Nat /\ f.end \in BOOLEAN
      BY FrameParts
    <3>2. srv.data + 1 \in Nat
      BY DEF BaseInv
    <3>3. \/ srv' = [srv EXCEPT !.closed = TRUE]
          \/ \E g \in BOOLEAN, n \in Nat : srv' = [srv EXCEPT !.greeted = g, !.settings = n]
          \/ \E n \in Nat, e \in BOOLEAN : srv' = [srv EXCEPT !.status = n, !.ended = e]
          \/ \E n \in Nat, e \in BOOLEAN : srv' = [srv EXCEPT !.data = n, !.ended = e]
          \/ srv' = [srv EXCEPT !.ended = TRUE]
      BY <1>10, <3>1, <3>2, ServerSends
    <3> QED
      BY <3>3 DEF BaseInv
  <2>3. UNCHANGED <<calling, reading, ctx, response, acks>> /\ others' \in Nat
    <3>1. others' \in Nat
      <4>1. others' \in {others, others + 1}
        BY <1>10 DEF Server, Greet, SendHeaders, SendData, SendTrailers, SendOther,
           ServerCloses
      <4> QED
        BY <4>1 DEF BaseInv
    <3> QED
      BY <1>10, <3>1, ServerSends
  <2> QED
    BY <2>1, <2>2, <2>3 DEF BaseInv
<1> QED
  BY <1>1, <1>2, <1>3, <1>4, <1>5, <1>6, <1>7, <1>8, <1>9, <1>10 DEF Next, Caller, Reader

-----------------------------------------------------------------------------
(***************************************************************************)
(* ResponseIsAnswer needs to know what is under way while the request is:  *)
(* everything of the response that was sent and not taken, in order.       *)
(***************************************************************************)
Pipe == IF chan \in Frames THEN <<chan>> \o in ELSE in
Over == {"returned", "closed", "failed"}

\* The server has sent nothing of a response to what was not asked.
AskInv ==
    /\ srv.status = 0 => srv.data = 0 /\ ~srv.ended
    /\ phase \in {"peek", "preface", "settings", "finish", "ready"} => srv.status = 0

PipeInv ==
    phase \notin Over =>
        /\ body = [i \in 1 .. Len(body) |-> i] /\ Len(body) <= srv.data
        /\ DataFlow(Pipe, Len(body), srv.data) /\ EndFlow(Pipe, srv.ended)
        /\ HeadFlow(Pipe, srv.status)
        /\ ~skew => FirstFlow(Pipe, status, srv.status)

DoneInv ==
    result.ok =>
        /\ phase \in {"returned", "closed"} /\ ResponseIsAnswer
        /\ ~skew => result.status # 0

\* The request is what the steps of request() make of it.
LEMMA AskStep == BaseInv /\ AskInv /\ [Next]_vars => AskInv'
<1> SUFFICES ASSUME BaseInv, AskInv, [Next]_vars PROVE AskInv'
  OBVIOUS
<1>1. CASE UNCHANGED vars
  BY <1>1 DEF AskInv, vars
<1>2. CASE Caller \/ Reader \/ CtxEnds
  <2>1. srv' = srv
    BY <1>2 DEF Caller, Peek, WritePreface, ReadSettings, FinishInit, InitFails, SendRequest,
       StartReader, SelectFrame, LoopFrame, SelectCtx, Close, Reader, ReaderFrame,
       ReaderFails, CtxEnds, server
  <2>2. phase' \in {"peek", "preface", "settings", "finish", "ready"} =>
            phase \in {"peek", "preface", "settings", "finish", "ready"}
    BY <1>2 DEF Caller, Peek, WritePreface, ReadSettings, FinishInit, InitFails, SendRequest,
       StartReader, SelectFrame, Received, ReadError, PassOver, TakeOwn, TakeHeaders, TakeData,
       Answered, Return, SelectCtx, Close, Reader, ReaderFrame, ReaderFails, CtxEnds, calling
  <2> QED
    BY <2>1, <2>2 DEF AskInv
<1>3. CASE Server
  <2>1. /\ phase' = phase
        /\ DOMAIN srv = {"greeted", "settings", "status", "data", "ended", "closed"}
    BY <1>3, ServerSends DEF calling, BaseInv
  <2>2. \A f \in Frames : Opening(f) => f.status # 0
    BY DEF Opening
  <2>3. \/ srv'.status = srv.status /\ srv'.data = srv.data /\ srv'.ended = srv.ended
        \/ Asked /\ srv'.status # 0
        \/ srv'.status = srv.status /\ srv.status # 0
    BY <1>3, <2>1, <2>2, ServerSends DEF BaseInv
  <2> QED
    BY <2>1, <2>3 DEF AskInv, Asked
<1> QED
  BY <1>1, <1>2, <1>3 DEF Next

\* What is under way, when a frame is sent, read or taken.
LEMMA PipeSent ==
    ASSUME BaseInv, chan' = chan
    PROVE  /\ Pipe \in Seq(Frames)
           /\ in' = in => Pipe' = Pipe
           /\ \A a \in Frames : in' = Append(in, a) => Pipe' = Append(Pipe, a)
           /\ \A a, b \in Frames :
                 in' = Append(Append(in, a), b) => Pipe' = Append(Append(Pipe, a), b)
<1>1. in \in Seq(Frames) /\ \A a \in Frames : Append(in, a) \in Seq(Frames)
  BY AppendOne DEF BaseInv
<1>2. CASE chan \in Frames
  <2>1. Pipe = <<chan>> \o in /\ Pipe' = <<chan>> \o in'
    BY <1>2 DEF Pipe
  <2>2. ASSUME NEW t \in Seq(Frames), NEW a \in Frames
        PROVE  <<chan>> \o Append(t, a) = Append(<<chan>> \o t, a)
    BY <1>2, Prepended
  <2>3. <<chan>> \o in \in Seq(Frames)
    BY <1>1, <1>2, Prepended
  <2> QED
    BY <1>1, <2>1, <2>2, <2>3
<1>3. CASE chan \notin Frames
  BY <1>1, <1>3 DEF Pipe
<1> QED
  BY <1>2, <1>3

\* Taking a frame that was read leaves the others where they are.
LEMMA PipeTaken ==
    ASSUME BaseInv, chan \in Frames
    PROVE  Pipe \in Seq(Frames) /\ Pipe # << >> /\ Head(Pipe) = chan /\ Tail(Pipe) = in
BY Prepended DEF BaseInv, Pipe

\* Reading moves the first frame of the channel to the client.
LEMMA PipeRead ==
    ASSUME BaseInv, reader = "reading", Taken, chan' = Head(in)
    PROVE  Pipe' = Pipe
<1>1. chan = None /\ None \notin Frames /\ in \in Seq(Frames) /\ in # << >> /\ in' = Tail(in)
  BY AreFrames DEF BaseInv, Taken
<1>2. Pipe = in /\ Head(in) \in Frames
  BY <1>1, Reassembled DEF Pipe
<1>3. Pipe' = <<Head(in)>> \o Tail(in)
  BY <1>1, <1>2 DEF Pipe
<1> QED
  BY <1>1, <1>2, <1>3, Reassembled

\* A body that has all pieces up to a number, and one more.
LEMMA BodyGrows ==
    ASSUME NEW b \in Seq(Nat), b = [i \in 1 .. Len(b) |-> i], NEW p, p = Len(b) + 1
    PROVE  /\ Append(b, p) = [i \in 1 .. Len(Append(b, p)) |-> i]
           /\ Len(Append(b, p)) = Len(b) + 1
OBVIOUS

\* Whatever the server sends goes on with the response, or is no part of it.
LEMMA PipeServer == ASSUME BaseInv, AskInv, PipeInv, Server PROVE PipeInv'
<1> SUFFICES ASSUME phase \notin Over PROVE PipeInv'
  BY ServerSends DEF PipeInv, calling
<1> DEFINE s == Pipe
           n == Len(body)
<1>1. /\ UNCHANGED <<phase, chan, body, status, skew>>
      /\ s \in Seq(Frames) /\ n \in Nat /\ status \in Nat
      /\ srv.status \in Nat /\ srv.data \in Nat /\ srv.ended \in BOOLEAN
      /\ DOMAIN srv = {"greeted", "settings", "status", "data", "ended", "closed"}
  <2>1. UNCHANGED <<phase, chan, body, status, skew>>
    BY ServerSends DEF calling, reading, response
  <2>2. s \in Seq(Frames)
    BY <2>1, PipeSent
  <2> HIDE DEF s
  <2>3. n \in Nat
    BY DEF BaseInv
  <2> QED
    BY <2>1, <2>2, <2>3 DEF BaseInv
<1>2. /\ body = [i \in 1 .. n |-> i] /\ n <= srv.data
      /\ DataFlow(s, n, srv.data) /\ EndFlow(s, srv.ended) /\ HeadFlow(s, srv.status)
      /\ ~skew => FirstFlow(s, status, srv.status)
  BY DEF PipeInv
<1>3. /\ srv.status = 0 => srv.data = 0 /\ ~srv.ended
      /\ \A a \in Frames : Append(s, a) \in Seq(Frames)
  BY <1>1, AppendOne DEF AskInv
<1>4. ASSUME NEW t, Pipe' = t, srv'.data \in Nat, n <= srv'.data,
             DataFlow(t, n, srv'.data), EndFlow(t, srv'.ended), HeadFlow(t, srv'.status),
             ~skew => FirstFlow(t, status, srv'.status)
      PROVE  PipeInv'
  BY <1>1, <1>2, <1>4 DEF PipeInv
<1>5. CASE in' = in /\ srv' = [srv EXCEPT !.closed = TRUE]
  <2>1. Pipe' = s /\ srv'.data = srv.data /\ srv'.ended = srv.ended /\ srv'.status = srv.status
    BY <1>1, <1>5, PipeSent
  <2> HIDE DEF s, n
  <2> QED
    BY <1>1, <1>2, <1>4, <2>1
<1>6. ASSUME NEW a \in Frames, NEW b \in Frames, ~Own(a), ~Own(b),
             in' = Append(in, a) \/ in' = Append(Append(in, a), b),
             NEW g, NEW m, srv' = [srv EXCEPT !.greeted = g, !.settings = m]
      PROVE  PipeInv'
  <2>1. srv'.data = srv.data /\ srv'.ended = srv.ended /\ srv'.status = srv.status
    BY <1>1, <1>6
  <2>2. Pipe' = Append(s, a) \/ Pipe' = Append(Append(s, a), b)
    BY <1>1, <1>6, PipeSent
  <2> HIDE DEF s, n
  <2>3. /\ DataFlow(Append(s, a), n, srv.data) /\ EndFlow(Append(s, a), srv.ended)
        /\ HeadFlow(Append(s, a), srv.status)
        /\ ~skew => FirstFlow(Append(s, a), status, srv.status)
    BY <1>1, <1>2, <1>6, FlowOther
  <2>4. /\ DataFlow(Append(Append(s, a), b), n, srv.data)
        /\ EndFlow(Append(Append(s, a), b), srv.ended)
        /\ HeadFlow(Append(Append(s, a), b), srv.status)
        /\ ~skew => FirstFlow(Append(Append(s, a), b), status, srv.status)
    <3> DEFINE t == Append(s, a)
    <3>1. t \in Seq(Frames)
      BY <1>3
    <3>2. /\ DataFlow(t, n, srv.data) /\ EndFlow(t, srv.ended) /\ HeadFlow(t, srv.status)
          /\ ~skew => FirstFlow(t, status, srv.status)
      BY <2>3
    <3> HIDE DEF t
    <3>3. /\ DataFlow(Append(t, b), n, srv.data) /\ EndFlow(Append(t, b), srv.ended)
          /\ HeadFlow(Append(t, b), srv.status)
          /\ ~skew => FirstFlow(Append(t, b), status, srv.status)
      BY <1>1, <1>6, <3>1, <3>2, FlowOther
    <3> QED
      BY <3>3 DEF t
  <2> QED
    BY <1>1, <1>2, <1>4, <2>1, <2>2, <2>3, <2>4
<1>7. ASSUME NEW a \in Frames, NEW f \in Frames, srv.status = 0, ~Own(a), Opening(f),
             in' = Append(Append(in, a), f),
             srv' = [srv EXCEPT !.status = f.status, !.ended = f.end]
      PROVE  PipeInv'
  <2>1. srv'.data = srv.data /\ srv'.ended = f.end /\ srv'.status = f.status
    BY <1>1, <1>7
  <2>2. Pipe' = Append(Append(s, a), f)
    BY <1>1, <1>7, PipeSent
  <2> HIDE DEF s, n
  <2>3. /\ DataFlow(Append(s, a), n, srv.data) /\ HeadFlow(Append(s, a), 0)
        /\ ~skew => FirstFlow(Append(s, a), status, 0)
    BY <1>1, <1>2, <1>7, FlowOther
  <2>4. /\ DataFlow(Append(Append(s, a), f), n, srv.data)
        /\ EndFlow(Append(Append(s, a), f), f.end)
        /\ HeadFlow(Append(Append(s, a), f), f.status)
        /\ ~skew => FirstFlow(Append(Append(s, a), f), status, f.status)
    BY <1>1, <1>3, <1>7, <2>3, FlowOpening
  <2> QED
    BY <1>1, <1>2, <1>4, <2>1, <2>2, <2>4
<1>8. ASSUME NEW f \in Frames, srv.status # 0, ~srv.ended, Data(f), f.piece = srv.data + 1,
             in' = Append(in, f), srv' = [srv EXCEPT !.data = srv.data + 1, !.ended = f.end]
      PROVE  PipeInv'
  <2>1. srv'.data = srv.data + 1 /\ srv'.ended = f.end /\ srv'.status = srv.status
    BY <1>1, <1>8
  <2>2. Pipe' = Append(s, f) /\ Own(f) /\ ~Opening(f) /\ EndFlow(s, FALSE)
    BY <1>1, <1>2, <1>8, PipeSent DEF Data, Opening
  <2> HIDE DEF s, n
  <2>3. /\ DataFlow(Append(s, f), n, srv.data + 1) /\ EndFlow(Append(s, f), f.end)
        /\ HeadFlow(Append(s, f), srv.status)
        /\ ~skew => FirstFlow(Append(s, f), status, srv.status)
    BY <1>1, <1>2, <1>8, <2>2, FlowNext
  <2>4. n <= srv.data + 1 /\ srv.data + 1 \in Nat
    BY <1>1, <1>2
  <2> QED
    BY <1>4, <2>1, <2>2, <2>3, <2>4
<1>9. ASSUME NEW f \in Frames, srv.status # 0, ~srv.ended, Own(f), ~Data(f), ~Opening(f), f.end,
             in' = Append(in, f), srv' = [srv EXCEPT !.ended = TRUE]
      PROVE  PipeInv'
  <2>1. srv'.data = srv.data /\ srv'.ended = f.end /\ srv'.status = srv.status
    <3>1. f.end = TRUE
      BY <1>9, FrameParts
    <3> QED
      BY <1>1, <1>9, <3>1
  <2>2. Pipe' = Append(s, f) /\ EndFlow(s, FALSE)
    BY <1>1, <1>2, <1>9, PipeSent
  <2> HIDE DEF s, n
  <2>3. /\ DataFlow(Append(s, f), n, srv.data) /\ EndFlow(Append(s, f), f.end)
        /\ HeadFlow(Append(s, f), srv.status)
        /\ ~skew => FirstFlow(Append(s, f), status, srv.status)
    BY <1>1, <1>2, <1>9, <2>2, FlowNext
  <2> QED
    BY <1>1, <1>2, <1>4, <2>1, <2>2, <2>3
<1> QED
  BY <1>5, <1>6, <1>7, <1>8, <1>9, ServerSends

\* A frame that is taken brings the response on, or ends it with all of it taken.
LEMMA FrameTaken ==
    ASSUME BaseInv, AskInv, PipeInv, DoneInv, SelectFrame, chan \in Frames
    PROVE  PipeInv' /\ DoneInv'
<1> DEFINE s == Pipe
           t == in
           n == Len(body)
<1>1. /\ phase = "select" /\ ~result.ok /\ chan' = None /\ LoopFrame
      /\ srv' = srv /\ ctxDone' = ctxDone /\ in' = in
  BY DEF SelectFrame, Received, LoopFrame, DoneInv, server, ctx
<1>2. /\ s \in Seq(Frames) /\ s # << >> /\ Head(s) = chan /\ Tail(s) = t
      /\ t \in Seq(Frames) /\ Pipe' = t /\ n \in Nat /\ status \in Nat /\ body \in Seq(Nat)
      /\ srv.status \in Nat /\ srv.data \in Nat /\ srv.ended \in BOOLEAN
      /\ skew \in BOOLEAN /\ chan \in Frames /\ chan.end \in BOOLEAN
  <2>1. s \in Seq(Frames) /\ s # << >> /\ Head(s) = chan /\ Tail(s) = t
    BY PipeTaken
  <2>2. Pipe' = t
    BY <1>1, AreFrames DEF Pipe
  <2> HIDE DEF s
  <2> QED
    BY <2>1, <2>2, FrameParts DEF BaseInv
<1>3. /\ body = [i \in 1 .. n |-> i] /\ n <= srv.data
      /\ DataFlow(s, n, srv.data) /\ EndFlow(s, srv.ended) /\ HeadFlow(s, srv.status)
      /\ ~skew => FirstFlow(s, status, srv.status)
  BY <1>1 DEF PipeInv, Over
<1> HIDE DEF s, t, n
<1>4. /\ ~Data(chan) => DataFlow(t, n, srv.data)
      /\ EndFlow(t, srv.ended) /\ HeadFlow(t, srv.status)
      /\ ~skew /\ ~Own(chan) => FirstFlow(t, status, srv.status)
  <2>1. /\ ~Data(chan) => DataFlow(Tail(s), n, srv.data)
        /\ EndFlow(Tail(s), srv.ended) /\ HeadFlow(Tail(s), srv.status)
    BY <1>2, <1>3, FlowTail
  <2>2. ~skew /\ ~Own(chan) => FirstFlow(Tail(s), status, srv.status)
    BY <1>2, <1>3, FlowTail
  <2> QED
    BY <1>2, <2>1, <2>2
<1>5. ASSUME Own(chan), ~skew
      PROVE  /\ srv.status # 0 /\ status \in {0, srv.status} /\ (status = 0 => Opening(chan))
             /\ (Opening(chan) => chan.status = srv.status)
  BY <1>2, <1>3, <1>5, FirstTaken
<1>6. ASSUME ~Own(chan), phase' = "loop", result' = result, body' = body, status' = status,
             skew' => skew' \in BOOLEAN, ~skew' => ~skew
      PROVE  PipeInv' /\ DoneInv'
  <2>1. ~Data(chan)
    BY <1>6 DEF Data
  <2>2. Len(body') = n
    BY <1>6 DEF n
  <2> QED
    BY <1>1, <1>2, <1>3, <1>4, <1>6, <2>1, <2>2 DEF PipeInv, DoneInv, n
<1>7. ASSUME Own(chan), NEW m \in Nat, body' = [i \in 1 .. m |-> i], Len(body') = m,
             m <= srv.data, DataFlow(t, m, srv.data), skew' = skew,
             ~skew => status' = srv.status /\ srv.status # 0, Answered(chan)
      PROVE  PipeInv' /\ DoneInv'
  <2>1. CASE ~chan.end
    <3>1. phase' = "loop" /\ result' = result
      BY <1>7, <2>1 DEF Answered
    <3>2. ~skew => FirstFlow(t, status', srv.status)
      BY <1>7 DEF FirstFlow
    <3> QED
      BY <1>1, <1>2, <1>4, <1>7, <3>1, <3>2 DEF PipeInv, DoneInv
  <2>2. CASE chan.end
    <3>1. phase' = "returned" /\ result' = [ok |-> TRUE, status |-> status', body |-> body']
      BY <1>7, <2>2 DEF Answered, Return
    <3>2. srv.ended /\ \A i \in DOMAIN t : ~Own(t[i])
      BY <1>2, <1>3, <1>7, <2>2, EndTaken
    <3>3. m = srv.data
      BY <1>2, <1>7, <3>2, Drained
    <3>4. /\ result'.body = [i \in 1 .. Len(result'.body) |-> i]
          /\ Len(result'.body) = srv.data /\ result'.status = status'
      BY <1>7, <3>1, <3>3
    <3> QED
      BY <1>1, <1>2, <1>7, <3>1, <3>2, <3>4 DEF PipeInv, Over, DoneInv, ResponseIsAnswer
  <2> QED
    BY <2>1, <2>2
<1>8. CASE chan.stream # "own" /\ PassOver(chan)
  <2>1. ~Own(chan)
    BY <1>8 DEF Own
  <2>2. /\ phase' = "loop" /\ result' = result /\ body' = body /\ status' = status
        /\ ~skew' => ~skew
    BY <1>8 DEF PassOver
  <2> QED
    BY <1>6, <1>8, <2>1, <2>2 DEF PassOver
<1>9. CASE chan.stream = "own" /\ chan.type = "reset"
           /\ phase' = "loop" /\ UNCHANGED <<response, acks, result>>
  BY <1>2, <1>6, <1>9 DEF Own, response
<1>10. CASE chan.stream = "own" /\ chan.type = "data" /\ TakeData(chan)
  <2>1. Own(chan) /\ Data(chan) /\ ~Opening(chan)
    BY <1>10 DEF Own, Data, Opening
  <2>2. chan.piece = n + 1 /\ n + 1 <= srv.data /\ DataFlow(t, n + 1, srv.data)
    BY <1>2, <1>3, <2>1, FlowTake
  <2>3. body' = Append(body, chan.piece) /\ status' = status /\ skew' = skew /\ Answered(chan)
    BY <1>10 DEF TakeData
  <2>4. body' = [i \in 1 .. Len(body') |-> i] /\ Len(body') = n + 1
    BY <1>2, <1>3, <2>2, <2>3, BodyGrows DEF n
  <2>5. ~skew => status' = srv.status /\ srv.status # 0
    BY <1>5, <2>1, <2>3
  <2> QED
    <3> DEFINE m == n + 1
    <3>1. m \in Nat /\ m <= srv.data /\ DataFlow(t, m, srv.data)
      BY <1>2, <2>2
    <3>2. body' = [i \in 1 .. m |-> i] /\ Len(body') = m
      BY <2>4
    <3> HIDE DEF m
    <3> QED
      BY <1>7, <2>1, <2>3, <2>5, <3>1, <3>2
<1>11. CASE chan.stream = "own" /\ chan.type = "headers" /\ TakeHeaders(chan)
  <2>1. Own(chan) /\ ~Data(chan) /\ body' = body /\ skew' = skew
    BY <1>11 DEF Own, Data, TakeHeaders
  <2>2. CASE skew /\ UNCHANGED status /\ Return(Failed)
    <3>1. phase' = "returned" /\ ~result'.ok
      BY <2>2 DEF Return, Failed
    <3> QED
      BY <3>1 DEF PipeInv, Over, DoneInv
  <2>3. CASE Answered(chan) /\ (skew \/ status' = IF chan.status = 0 THEN status ELSE chan.status)
    <3>1. ~skew => status' = srv.status /\ srv.status # 0
      BY <1>5, <2>1, <2>3, <1>11 DEF Opening
    <3>2. body' = [i \in 1 .. n |-> i] /\ Len(body') = n /\ DataFlow(t, n, srv.data)
      BY <1>3, <1>4, <2>1 DEF n
    <3> QED
      BY <1>2, <1>3, <1>7, <2>1, <2>3, <3>1, <3>2
  <2> QED
    BY <1>11, <2>2, <2>3 DEF TakeHeaders
<1>12. chan # Error
  BY FrameParts
<1> QED
  BY <1>8, <1>9, <1>10, <1>11, <1>12 DEF SelectFrame, TakeOwn

\* An error ends the request with what it has, if its context has ended.
LEMMA ErrorReturned ==
    ASSUME BaseInv, PipeInv, DoneInv, phase = "select", ReadError, UNCHANGED <<ctx, server>>
    PROVE  PipeInv' /\ DoneInv'
<1>1. phase' = "returned"
  BY DEF ReadError, Return
<1>2. PipeInv'
  BY <1>1 DEF PipeInv, Over
<1>3. CASE ctxDone /\ status # 0 /\ body # << >>
  <2>1. result' = [ok |-> TRUE, status |-> status, body |-> body]
    BY <1>3 DEF ReadError, Return
  <2>2. /\ body = [i \in 1 .. Len(body) |-> i] /\ Len(body) <= srv.data
        /\ ~skew => status = srv.status
    BY <1>3 DEF PipeInv, Over, FirstFlow
  <2>3. /\ result'.body = body /\ result'.status = status
        /\ srv' = srv /\ ctxDone' = ctxDone /\ skew' = skew
    BY <2>1 DEF ReadError, ctx, server
  <2>4. ResponseIsAnswer'
    BY <1>3, <2>2, <2>3 DEF ResponseIsAnswer
  <2> QED
    BY <1>1, <1>2, <1>3, <2>3, <2>4 DEF DoneInv
<1>4. CASE ~(ctxDone /\ status # 0 /\ body # << >>)
  <2>1. ~result'.ok
    BY <1>4 DEF ReadError, Return, Failed
  <2> QED
    BY <1>2, <2>1 DEF DoneInv
<1> QED
  BY <1>3, <1>4

\* The rest of the steps.
LEMMA AnswerStep ==
    BaseInv /\ AskInv /\ PipeInv /\ DoneInv /\ [Next]_vars => PipeInv' /\ DoneInv'
<1> SUFFICES ASSUME BaseInv, AskInv, PipeInv, DoneInv, [Next]_vars PROVE PipeInv' /\ DoneInv'
  OBVIOUS
<1> USE DEF calling, reading, ctx, response, server
<1>1. ASSUME UNCHANGED <<body, status, skew, srv, result, ctxDone>>, Pipe' = Pipe,
             phase' \notin Over => phase \notin Over,
             phase \in {"returned", "closed"} => phase' \in {"returned", "closed"}
      PROVE  PipeInv' /\ DoneInv'
  BY <1>1 DEF PipeInv, DoneInv, ResponseIsAnswer
<1>2. CASE UNCHANGED vars
  BY <1>1, <1>2 DEF vars, Pipe
<1>3. CASE WritePreface \/ FinishInit \/ SendRequest \/ Close
  <2>1. Pipe' = Pipe
    BY <1>3 DEF WritePreface, FinishInit, SendRequest, Close, Pipe
  <2> QED
    BY <1>1, <1>3, <2>1 DEF WritePreface, FinishInit, SendRequest, Close, Over
<1>4. CASE StartReader
  <2>1. Pipe' = Pipe
    BY <1>4, AreFrames DEF StartReader, Pipe, BaseInv
  <2> QED
    BY <1>1, <1>4, <2>1 DEF StartReader, Over
<1>5. CASE InitFails
  <2>1. phase' = "failed" /\ ~result'.ok
    BY <1>5 DEF InitFails, Failed
  <2> QED
    BY <2>1 DEF PipeInv, DoneInv, Over
<1>6. CASE CtxEnds
  <2>1. Pipe' = Pipe
    BY <1>6 DEF CtxEnds, Pipe
  <2> QED
    BY <1>6, <2>1 DEF CtxEnds, PipeInv, DoneInv, ResponseIsAnswer
<1>7. CASE Peek \/ ReadSettings
  <2>1. /\ phase \in {"peek", "settings"} /\ phase' \in {"preface", "finish"}
        /\ UNCHANGED <<chan, body, status, skew, srv, result>>
        /\ in # << >> /\ in' = Tail(in)
    BY <1>7 DEF Peek, ReadSettings, Taken
  <2>2. chan = None /\ None \notin Frames /\ in \in Seq(Frames) /\ srv.status = 0
    BY <2>1, AreFrames DEF BaseInv, AskInv
  <2>3. Pipe = in /\ Pipe' = Tail(in)
    BY <2>1, <2>2 DEF Pipe
  <2>4. /\ DataFlow(in, Len(body), srv.data) /\ EndFlow(in, srv.ended)
        /\ HeadFlow(in, srv.status) /\ (~skew => FirstFlow(in, status, srv.status))
    BY <2>1, <2>3 DEF PipeInv, Over
  <2>5. ~Own(Head(in)) /\ ~Data(Head(in))
    BY <2>1, <2>2, <2>4, TailOne DEF HeadFlow, Data
  <2>6. /\ Len(body) \in Nat /\ srv.data \in Nat /\ srv.ended \in BOOLEAN
        /\ status \in Nat /\ srv.status \in Nat
    BY DEF BaseInv
  <2>7. /\ DataFlow(Tail(in), Len(body), srv.data) /\ EndFlow(Tail(in), srv.ended)
        /\ HeadFlow(Tail(in), srv.status)
        /\ (~skew => FirstFlow(Tail(in), status, srv.status))
    BY <2>1, <2>2, <2>4, <2>5, <2>6, FlowTail
  <2>8. PipeInv'
    BY <2>1, <2>3, <2>7 DEF PipeInv, Over
  <2>9. DoneInv'
    BY <2>1 DEF DoneInv
  <2> QED
    BY <2>8, <2>9
<1>8. CASE ReaderFrame
  <2>1. Pipe' = Pipe
    BY <1>8, PipeRead DEF ReaderFrame
  <2> QED
    BY <1>1, <1>8, <2>1 DEF ReaderFrame
<1>9. CASE ReaderFails
  <2>1. Pipe' = Pipe
    BY <1>9, AreFrames DEF ReaderFails, Pipe, BaseInv
  <2> QED
    BY <1>1, <1>9, <2>1 DEF ReaderFails
<1>10. CASE SelectCtx
  BY <1>10, ErrorReturned DEF SelectCtx
<1>11. CASE SelectFrame
  <2>1. CASE chan = Error
    BY <1>11, <2>1, ErrorReturned DEF SelectFrame, Received, LoopFrame
  <2>2. CASE chan \in Frames
    BY <1>11, <2>2, FrameTaken
  <2> QED
    BY <1>11, <2>1, <2>2 DEF SelectFrame, Received, BaseInv
<1>12. CASE Server
  <2>1. DoneInv'
    <3> SUFFICES ASSUME result'.ok PROVE DoneInv'
      BY DEF DoneInv
    <3>1. /\ UNCHANGED <<phase, result, ctxDone, skew>>
          /\ result.ok /\ ResponseIsAnswer /\ (~skew => result.status # 0)
      BY <1>12, ServerSends DEF DoneInv
    <3>2. /\ srv.data \in Nat /\ srv'.data \in {srv.data, srv.data + 1}
          /\ srv'.status = srv.status \/ srv.status = 0
          /\ srv.ended => srv'.ended /\ srv'.data = srv.data
      <4>1. /\ srv.data \in Nat
            /\ DOMAIN srv = {"greeted", "settings", "status", "data", "ended", "closed"}
        BY DEF BaseInv
      <4>2. srv.ended => srv.status # 0
        BY DEF AskInv
      <4> QED
        BY <1>12, <4>1, <4>2, ServerSends
    <3>3. /\ result.body = [i \in 1 .. Len(result.body) |-> i]
          /\ Len(result.body) <= srv.data
          /\ ~ctxDone /\ ~skew => srv.ended /\ Len(result.body) = srv.data
          /\ ~skew => result.status = srv.status
      BY <3>1 DEF ResponseIsAnswer
    <3> QED
      BY <3>1, <3>2, <3>3 DEF DoneInv, ResponseIsAnswer
  <2> QED
    BY <1>12, <2>1, PipeServer
<1> QED
  BY <1>2, <1>3, <1>4, <1>5, <1>6, <1>7, <1>8, <1>9, <1>10, <1>11, <1>12
     DEF Next, Caller, Reader

\* Before the request nothing of a response is under way.
LEMMA AnswerInit == Init => AskInv /\ PipeInv /\ DoneInv
<1> SUFFICES ASSUME Init PROVE AskInv /\ PipeInv /\ DoneInv
  OBVIOUS
<1>1. AskInv /\ ~result.ok
  BY DEF Init, AskInv, NoResult
<1>2. Pipe = << >> /\ body = << >> /\ Len(body) = 0 /\ srv.data = 0 /\ status = 0 /\ srv.status = 0
  BY AreFrames DEF Init, Pipe
<1>3. body = [i \in 1 .. Len(body) |-> i]
  BY <1>2
<1>4. DataFlow(<< >>, 0, 0) /\ EndFlow(<< >>, srv.ended) /\ HeadFlow(<< >>, 0)
      /\ FirstFlow(<< >>, 0, 0)
  BY DEF DataFlow, EndFlow, HeadFlow, FirstFlow
<1> QED
  BY <1>1, <1>2, <1>3, <1>4 DEF PipeInv, DoneInv

(***************************************************************************)
(* A response that is returned is the answer of the server, for any        *)
(* statuses, any amount of DATA, and whatever is sent in between: what is  *)
(* under way is always what is missing (PipeInv).                          *)
(***************************************************************************)
THEOREM ResponseIsAnswerCorrect == Spec => []ResponseIsAnswer
<1>1. Init => BaseInv /\ AskInv /\ PipeInv /\ DoneInv
  BY BaseInit, AnswerInit
<1>2. BaseInv /\ AskInv /\ PipeInv /\ DoneInv /\ [Next]_vars
          => (BaseInv /\ AskInv /\ PipeInv /\ DoneInv)'
  BY BaseStep, AskStep, AnswerStep
<1>3. DoneInv => ResponseIsAnswer
  BY DEF DoneInv, ResponseIsAnswer
<1> QED
  BY <1>1, <1>2, <1>3, PTL DEF Spec

-----------------------------------------------------------------------------
(***************************************************************************)
(* TypeOK counts: what was acknowledged, and what asks for it and is still *)
(* under way, is what the server has sent.                                 *)
(***************************************************************************)
Due == acks + One(first) + One(chan) + Cardinality(Asking(in))

AckInv ==
    /\ ~srv.greeted => srv.settings = 0
    /\ srv.status = 0 => \A i \in DOMAIN in : ~in[i].ack
    /\ first # None => ~first.ack
    /\ Due <= srv.settings /\ (phase # "failed" => Due = srv.settings)

\* A frame that NewH2Conn has taken is there until finishH2Init.
FirstInv == phase \notin {"preface", "finish"} => first = None

\* Only finitely many frames of a sequence ask for an acknowledgement.
LEMMA AskingFinite ==
    ASSUME NEW s \in Seq(Frames)
    PROVE  IsFiniteSet(Asking(s)) /\ Cardinality(Asking(s)) \in Nat
<1>1. Asking(s) \subseteq 1 .. Len(s) /\ Len(s) \in Nat
  BY DEF Asking
<1>2. IsFiniteSet(1 .. Len(s))
  BY <1>1, FS_Interval
<1> QED
  BY <1>1, <1>2, FS_Subset, FS_CardinalityType

\* One more frame asks for one acknowledgement more, or for none.
LEMMA AskingAppend ==
    ASSUME NEW s \in Seq(Frames), NEW f \in Frames
    PROVE  Cardinality(Asking(Append(s, f))) = Cardinality(Asking(s)) + One(f)
<1> DEFINE t == Append(s, f)
           l == Len(s) + 1
<1>1. /\ DOMAIN s = 1 .. Len(s) /\ Len(s) \in Nat /\ DOMAIN t = 1 .. l /\ t[l] = f
      /\ \A i \in 1 .. Len(s) : t[i] = s[i]
      /\ \A i \in 1 .. l : i = l \/ i \in 1 .. Len(s)
      /\ l \in 1 .. l /\ l \notin 1 .. Len(s) /\ \A i \in 1 .. Len(s) : i \in 1 .. l
  BY AppendOne
<1>2. IsFiniteSet(Asking(s)) /\ Cardinality(Asking(s)) \in Nat
  BY AskingFinite
<1> HIDE DEF t, l
<1>3. CASE Asks(f)
  <2>1. Asking(t) = Asking(s) \cup {l} /\ l \notin Asking(s)
    BY <1>1, <1>3 DEF Asking
  <2>2. Cardinality(Asking(t)) = Cardinality(Asking(s)) + 1
    BY <1>2, <2>1, FS_AddElement
  <2> QED
    BY <1>3, <2>2 DEF One, t
<1>4. CASE ~Asks(f)
  <2>1. Asking(t) = Asking(s)
    BY <1>1, <1>4 DEF Asking
  <2> QED
    BY <1>2, <1>4, <2>1 DEF One, t
<1> QED
  BY <1>3, <1>4

\* Without its first frame a sequence asks for what that one does not.
LEMMA AskingTail ==
    ASSUME NEW s \in Seq(Frames), s # << >>
    PROVE  Cardinality(Asking(Tail(s))) + One(Head(s)) = Cardinality(Asking(s))
<1> DEFINE t == Tail(s)
           A == Asking(t)
           B == Asking(s) \ {1}
           f == [i \in A |-> i + 1]
<1>1. /\ Head(s) = s[1] /\ 1 \in DOMAIN s
      /\ \A i \in DOMAIN t : i + 1 \in DOMAIN s /\ t[i] = s[i + 1] /\ i + 1 # 1 /\ i \in Nat
      /\ \A k \in DOMAIN s : k # 1 => k - 1 \in DOMAIN t /\ t[k - 1] = s[k] /\ (k - 1) + 1 = k
  BY TailOne
<1>2. IsFiniteSet(Asking(s)) /\ Cardinality(Asking(s)) \in Nat
  BY AskingFinite
<1>3. ExistsBijection(A, B)
  <2>1. \A i \in A : i + 1 \in B /\ i \in Nat
    BY <1>1 DEF Asking
  <2>2. f \in Injection(A, B)
    BY <2>1 DEF Injection, IsInjective
  <2>3. \A k \in B : k - 1 \in A /\ (k - 1) + 1 = k
    BY <1>1 DEF Asking
  <2>4. \A k \in B : \E i \in A : f[i] = k
    BY <2>3
  <2>5. f \in [A -> B]
    BY <2>1
  <2>6. f \in Bijection(A, B)
    BY <2>2, <2>4, <2>5 DEF Bijection, Surjection
  <2> QED
    BY <2>6 DEF ExistsBijection
<1>4. /\ IsFiniteSet(B)
      /\ Cardinality(B) = IF 1 \in Asking(s) THEN Cardinality(Asking(s)) - 1
                                             ELSE Cardinality(Asking(s))
  BY <1>2, FS_RemoveElement
<1>5. Tail(s) \in Seq(Frames)
  BY TailOne
<1>6. IsFiniteSet(A) /\ Cardinality(A) \in Nat
  BY <1>5, AskingFinite
<1> HIDE DEF f
<1>8. Cardinality(A) = Cardinality(B)
  BY <1>3, <1>6, FS_Bijection
<1>7. 1 \in Asking(s) <=> Asks(Head(s))
  BY <1>1 DEF Asking
<1> QED
  BY <1>2, <1>4, <1>6, <1>7, <1>8 DEF One

\* No frame asks for more than one.
LEMMA OneType == ASSUME NEW f PROVE One(f) \in {0, 1}
BY DEF One

\* No frame and a failed read ask for none.
LEMMA NothingAsks == One(None) = 0 /\ One(Error) = 0
BY DEF One, Asks, None, Error

\* The frame that NewH2Conn takes.
LEMMA FirstStep == FirstInv /\ [Next]_vars => FirstInv'
<1> SUFFICES ASSUME FirstInv, [Next]_vars PROVE FirstInv'
  OBVIOUS
<1>1. CASE UNCHANGED vars \/ CtxEnds \/ Reader
  BY <1>1 DEF FirstInv, vars, CtxEnds, Reader, ReaderFrame, ReaderFails, calling
<1>2. CASE Caller
  BY <1>2 DEF FirstInv, Caller, Peek, WritePreface, ReadSettings, FinishInit, InitFails,
     SendRequest, StartReader, SelectFrame, Received, LoopFrame, ReadError, Return, PassOver,
     TakeOwn, TakeHeaders, TakeData, Answered, SelectCtx, Close
<1>3. CASE Server
  BY <1>3 DEF FirstInv, Server, Greet, SendTrailers, ServerCloses, SendHeaders, SendData,
     SendOther, Send, calling
<1> QED
  BY <1>1, <1>2, <1>3 DEF Next

\* Neither SETTINGS nor acknowledgements have been sent.
LEMMA AckInit == Init => AckInv
<1> SUFFICES ASSUME Init PROVE AckInv
  OBVIOUS
<1>1. Asking(<< >>) = {}
  BY DEF Asking
<1>2. Cardinality(Asking(in)) = 0
  BY <1>1, FS_EmptySet DEF Init
<1> QED
  BY <1>2, NothingAsks DEF Init, AckInv, Due

\* A frame that is read moves from what is under way to the one who reads.
LEMMA AckRead ==
    ASSUME BaseInv, AckInv, Taken
    PROVE  /\ Head(in) \in Frames /\ in' \in Seq(Frames)
           /\ srv.status = 0 => ~Head(in).ack /\ \A i \in DOMAIN in' : ~in'[i].ack
           /\ acks + One(first) + One(chan) + One(Head(in)) + Cardinality(Asking(in')) = Due
<1>1. in \in Seq(Frames) /\ in # << >> /\ in' = Tail(in)
  BY DEF BaseInv, Taken
<1>2. Head(in) \in Frames /\ in' \in Seq(Frames)
  BY <1>1, Reassembled
<1>3. srv.status = 0 => ~Head(in).ack /\ \A i \in DOMAIN in' : ~in'[i].ack
  <2>1. /\ Head(in) = in[1] /\ 1 \in DOMAIN in
        /\ \A i \in DOMAIN in' : i + 1 \in DOMAIN in /\ in'[i] = in[i + 1]
    BY <1>1, TailOne
  <2> QED
    BY <2>1 DEF AckInv
<1>4. /\ Cardinality(Asking(in')) + One(Head(in)) = Cardinality(Asking(in))
      /\ Cardinality(Asking(in')) \in Nat /\ Cardinality(Asking(in)) \in Nat
  BY <1>1, <1>2, AskingTail, AskingFinite
<1>5. /\ One(first) \in {0, 1} /\ One(chan) \in {0, 1} /\ One(Head(in)) \in {0, 1}
      /\ acks \in Nat /\ srv.settings \in Nat
  BY OneType DEF BaseInv
<1> QED
  BY <1>2, <1>3, <1>4, <1>5 DEF Due

\* The server asks for what it sends of SETTINGS.
LEMMA AckServer == ASSUME BaseInv, AskInv, AckInv, Server PROVE AckInv'
<1>1. /\ UNCHANGED <<phase, first, chan, acks>> /\ in \in Seq(Frames)
      /\ acks \in Nat /\ srv.settings \in Nat /\ Cardinality(Asking(in)) \in Nat
      /\ One(first) \in {0, 1} /\ One(chan) \in {0, 1}
      /\ DOMAIN srv = {"greeted", "settings", "status", "data", "ended", "closed"}
  BY ServerSends, OneType, AskingFinite DEF BaseInv, calling, reading
<1>2. /\ ~srv.greeted => srv.settings = 0
      /\ srv.status = 0 => \A i \in DOMAIN in : ~in[i].ack
      /\ first # None => ~first.ack
      /\ Due <= srv.settings /\ (phase # "failed" => Due = srv.settings)
  BY DEF AckInv
<1>3. ASSUME NEW n \in {0, 1},
             Cardinality(Asking(in')) = Cardinality(Asking(in)) + n,
             srv'.settings = srv.settings + n,
             ~srv'.greeted => srv'.settings = 0,
             srv'.status = 0 => \A i \in DOMAIN in' : ~in'[i].ack
      PROVE  AckInv'
  <2>1. One(first)' = One(first) /\ One(chan)' = One(chan)
    BY <1>1 DEF One, Asks
  <2>2. Due' = Due + n /\ Due \in Nat
    BY <1>1, <1>3, <2>1 DEF Due
  <2> QED
    BY <1>1, <1>2, <1>3, <2>1, <2>2 DEF AckInv
<1>4. ASSUME NEW a \in Frames
      PROVE  /\ Append(in, a) \in Seq(Frames)
             /\ Cardinality(Asking(Append(in, a))) = Cardinality(Asking(in)) + One(a)
             /\ srv.status = 0 /\ ~a.ack =>
                    \A i \in DOMAIN Append(in, a) : ~Append(in, a)[i].ack
  <2>1. /\ DOMAIN in = 1 .. Len(in) /\ DOMAIN Append(in, a) = 1 .. (Len(in) + 1)
        /\ \A i \in 1 .. Len(in) : Append(in, a)[i] = in[i]
        /\ Append(in, a)[Len(in) + 1] = a /\ Len(in) \in Nat
    BY <1>1, AppendOne
  <2>2. \A i \in 1 .. (Len(in) + 1) : i \in 1 .. Len(in) \/ i = Len(in) + 1
    BY <2>1
  <2>3. srv.status = 0 /\ ~a.ack => \A i \in DOMAIN Append(in, a) : ~Append(in, a)[i].ack
    BY <1>2, <2>1, <2>2
  <2> QED
    BY <1>1, <2>3, AskingAppend, AppendOne
<1>5. CASE Greet
  <2>1. /\ Settings \in Frames /\ Early \in Frames /\ One(Settings) = 1 /\ One(Early) = 0
        /\ ~Settings.ack /\ ~Early.ack
    BY GreetingsAre DEF Settings, Early, Frame, One, Asks
  <2>2. /\ ~srv.greeted /\ srv.settings = 0 /\ srv'.settings = 1 /\ srv'.greeted
        /\ srv'.status = srv.status
    BY <1>1, <1>2, <1>5 DEF Greet
  <2>3. CASE in' = Append(in, Settings)
    BY <1>3, <1>4, <2>1, <2>2, <2>3
  <2>4. CASE in' = Append(Append(in, Early), Settings)
    <3> DEFINE u == Append(in, Early)
    <3>1. u \in Seq(Frames) /\ Cardinality(Asking(u)) = Cardinality(Asking(in))
      BY <1>1, <1>4, <2>1
    <3>2. srv.status = 0 => \A i \in DOMAIN u : ~u[i].ack
      BY <1>4, <2>1
    <3>3. in' = Append(u, Settings)
      BY <2>4
    <3> HIDE DEF u
    <3>4. Cardinality(Asking(in')) = Cardinality(Asking(in)) + 1
      BY <2>1, <3>1, <3>3, AskingAppend
    <3>5. srv.status = 0 => \A i \in DOMAIN in' : ~in'[i].ack
      <4>1. /\ DOMAIN u = 1 .. Len(u) /\ DOMAIN in' = 1 .. (Len(u) + 1)
            /\ \A i \in 1 .. Len(u) : in'[i] = u[i]
            /\ in'[Len(u) + 1] = Settings /\ Len(u) \in Nat
        BY <2>1, <3>1, <3>3, AppendOne
      <4>2. \A i \in 1 .. (Len(u) + 1) : i \in 1 .. Len(u) \/ i = Len(u) + 1
        BY <4>1
      <4> QED
        BY <2>1, <3>2, <4>1, <4>2
    <3> QED
      BY <1>1, <1>3, <2>2, <3>4, <3>5
  <2>5. in' = Append(in, Settings) \/ in' = Append(Append(in, Early), Settings)
    BY <1>1, <1>5, <2>1, Concatenate DEF Greet, Send
  <2> QED
    BY <2>3, <2>4, <2>5
<1>6. ASSUME NEW f \in OtherFrames, SendOther(f) PROVE AckInv'
  <2>1. f \in Frames /\ ~f.ack
    <3>1. f \in Frames
      BY OthersAre
    <3>2. ~[Frame("data", "other") EXCEPT !.piece = Window + 1].ack
      BY FrameIs DEF Frame
    <3>3. ~f.ack
      BY <3>2 DEF OtherFrames, Settings, Frame
    <3> QED
      BY <3>1, <3>3
  <2>2. in' = Append(in, f)
    BY <1>1, <1>6, <2>1, Concatenate DEF SendOther, Send
  <2>3. One(f) = IF f.type = "settings" THEN 1 ELSE 0
    BY <2>1 DEF One, Asks
  <2>4. /\ srv'.settings = srv.settings + One(f) /\ srv.greeted /\ srv'.greeted = srv.greeted
        /\ srv'.status = srv.status
    BY <1>1, <1>6, <2>3 DEF SendOther
  <2>5. One(f) \in {0, 1}
    BY OneType
  <2> QED
    BY <1>3, <1>4, <2>1, <2>2, <2>4, <2>5
<1>7. ASSUME NEW f \in Frames, ~Asks(f), in' = Append(in, f), srv.status # 0,
             srv'.status = srv.status, srv'.settings = srv.settings, srv'.greeted = srv.greeted
      PROVE  AckInv'
  <2>1. One(f) = 0
    BY <1>7 DEF One
  <2> QED
    BY <1>1, <1>2, <1>3, <1>4, <1>7, <2>1
<1>8. ASSUME NEW f \in Frames, Own(f) PROVE ~Asks(f)
  BY <1>8 DEF Own, Asks
<1>9. ASSUME NEW s \in Statuses, NEW end \in BOOLEAN, SendHeaders(s, end) PROVE AckInv'
  <2>1. PICK f \in Frames : /\ srv.status = 0 /\ Opening(f)
                            /\ in' = Append(Append(in, SettingsAck), f)
                            /\ srv' = [srv EXCEPT !.status = f.status, !.ended = f.end]
    BY <1>9, HeadersSent
  <2>2. One(f) = 0 /\ One(SettingsAck) = 0 /\ SettingsAck \in Frames
    <3>1. SettingsAck.ack
      BY DEF SettingsAck, Settings, Frame
    <3> QED
      BY <1>8, <2>1, <3>1, GreetingsAre DEF One, Asks, Opening
  <2>3. Cardinality(Asking(in')) = Cardinality(Asking(in)) + 0
    <3> DEFINE u == Append(in, SettingsAck)
    <3>1. u \in Seq(Frames) /\ Cardinality(Asking(u)) = Cardinality(Asking(in))
      BY <1>1, <1>4, <2>2
    <3>2. in' = Append(u, f)
      BY <2>1
    <3> HIDE DEF u
    <3> QED
      BY <1>1, <2>2, <3>1, <3>2, AskingAppend
  <2>4. /\ srv'.settings = srv.settings /\ srv'.greeted = srv.greeted /\ srv'.status # 0
    BY <1>1, <2>1 DEF Opening
  <2> QED
    BY <1>1, <1>2, <1>3, <2>3, <2>4
<1>10. ASSUME NEW end \in BOOLEAN, SendData(end) PROVE AckInv'
  <2>1. PICK f \in Frames : /\ srv.status # 0 /\ Data(f) /\ in' = Append(in, f)
                            /\ srv' = [srv EXCEPT !.data = srv.data + 1, !.ended = f.end]
    BY <1>10, DataSent
  <2> QED
    BY <1>1, <1>7, <1>8, <2>1 DEF Data
<1>11. CASE SendTrailers
  <2>1. PICK f \in Frames : /\ srv.status # 0 /\ Own(f) /\ in' = Append(in, f)
                            /\ srv' = [srv EXCEPT !.ended = TRUE]
    BY <1>11, TrailersSent
  <2> QED
    BY <1>1, <1>7, <1>8, <2>1
<1>12. CASE ServerCloses
  <2>1. in' = in
    BY <1>1, <1>12, Concatenate DEF ServerCloses, Send
  <2>2. srv'.settings = srv.settings /\ srv'.greeted = srv.greeted /\ srv'.status = srv.status
    BY <1>1, <1>12 DEF ServerCloses
  <2> QED
    BY <1>1, <1>2, <1>3, <2>1, <2>2
<1> QED
  BY <1>5, <1>6, <1>9, <1>10, <1>11, <1>12 DEF Server

\* Acknowledgements are written for what asks for them.
LEMMA AckStep == BaseInv /\ AskInv /\ FirstInv /\ AckInv /\ [Next]_vars => AckInv'
<1> SUFFICES ASSUME BaseInv, AskInv, FirstInv, AckInv, [Next]_vars PROVE AckInv'
  OBVIOUS
<1> USE DEF calling, reading, ctx, response, server
<1>0. /\ acks \in Nat /\ srv.settings \in Nat /\ Cardinality(Asking(in)) \in Nat
      /\ One(first) \in {0, 1} /\ One(chan) \in {0, 1}
      /\ Due = acks + One(first) + One(chan) + Cardinality(Asking(in))
      /\ Due <= srv.settings /\ (phase # "failed" => Due = srv.settings)
      /\ ~srv.greeted => srv.settings = 0
      /\ srv.status = 0 => \A i \in DOMAIN in : ~in[i].ack
      /\ first # None => ~first.ack
      /\ One(None) = 0 /\ One(Error) = 0
  BY OneType, AskingFinite, NothingAsks DEF BaseInv, AckInv, Due
<1>1. ASSUME UNCHANGED <<in, srv>>, first' \in {first, None}, acks' \in Nat,
             phase = "failed" => phase' = "failed",
             acks' + One(first') + One(chan') <= acks + One(first) + One(chan),
             phase' # "failed" =>
                acks' + One(first') + One(chan') = acks + One(first) + One(chan)
      PROVE  AckInv'
  <2>1. One(first') \in {0, 1} /\ One(chan') \in {0, 1}
    BY OneType
  <2>2. Due' = acks' + One(first') + One(chan') + Cardinality(Asking(in))
    BY <1>1 DEF Due, One, Asks
  <2>3. Due' <= srv'.settings /\ (phase' # "failed" => Due' = srv'.settings)
    BY <1>0, <1>1, <2>1, <2>2
  <2>4. first' # None => ~first'.ack
    BY <1>0, <1>1
  <2> QED
    BY <1>0, <1>1, <2>3, <2>4 DEF AckInv
<1>2. CASE UNCHANGED vars \/ WritePreface \/ SendRequest \/ StartReader
           \/ ReaderFails \/ SelectCtx \/ CtxEnds \/ Close
  <2>1. /\ UNCHANGED <<in, srv, acks, first>> /\ (phase = "failed" => phase' = "failed")
    BY <1>2 DEF vars, WritePreface, SendRequest, StartReader, ReaderFails, SelectCtx,
       ReadError, Return, CtxEnds, Close
  <2>2. chan' = chan \/ (chan = None /\ chan' \in {None, Error})
    BY <1>2 DEF vars, WritePreface, SendRequest, StartReader, ReaderFails, SelectCtx,
       ReadError, CtxEnds, Close, BaseInv
  <2>3. One(chan') = One(chan)
    BY <1>0, <2>2
  <2> QED
    BY <1>0, <1>1, <2>1, <2>3
<1>3. CASE InitFails
  <2>1. UNCHANGED <<in, srv, acks, chan>> /\ first' = None /\ phase' = "failed"
    BY <1>3 DEF InitFails
  <2> QED
    BY <1>0, <1>1, <2>1
<1>4. CASE FinishInit
  <2>1. /\ UNCHANGED <<in, srv, chan>> /\ first' = None /\ phase = "finish"
        /\ acks' = acks + (IF first.type = "settings" THEN 1 ELSE 0)
    BY <1>4 DEF FinishInit
  <2>2. One(first) = IF first.type = "settings" THEN 1 ELSE 0
    BY <1>0 DEF One, Asks, None
  <2>3. acks' \in Nat /\ acks' = acks + One(first)
    BY <1>0, <2>1, <2>2
  <2> QED
    BY <1>0, <1>1, <2>1, <2>3
<1>5. CASE Peek \/ ReadSettings
  <2>1. /\ Taken /\ UNCHANGED <<acks, chan, srv>> /\ srv.status = 0
        /\ first = None /\ phase # "failed" /\ phase' # "failed"
        /\ first' = Head(in) \/ (first' = None /\ Head(in).type = "early")
    BY <1>5 DEF Peek, ReadSettings, AskInv, FirstInv
  <2>2. /\ Head(in) \in Frames /\ in' \in Seq(Frames)
        /\ ~Head(in).ack /\ \A i \in DOMAIN in' : ~in'[i].ack
        /\ acks + One(first) + One(chan) + One(Head(in)) + Cardinality(Asking(in')) = Due
    BY <2>1, AckRead
  <2>3. One(first') = One(Head(in)) /\ One(Head(in)) \in {0, 1}
    BY <1>0, <2>1, OneType DEF One, Asks
  <2>4. Cardinality(Asking(in')) \in Nat
    BY <2>2, AskingFinite
  <2>5. Due' = acks + One(first') + One(chan) + Cardinality(Asking(in'))
    BY <2>1 DEF Due, One, Asks
  <2>6. Due' = Due
    BY <1>0, <2>1, <2>2, <2>3, <2>4, <2>5
  <2>7. first' # None => ~first'.ack
    BY <2>1, <2>2
  <2> QED
    BY <1>0, <2>1, <2>2, <2>6, <2>7 DEF AckInv
<1>6. CASE ReaderFrame
  <2>1. /\ Taken /\ UNCHANGED <<phase, acks, first, srv>> /\ chan' = Head(in) /\ chan = None
    BY <1>6 DEF ReaderFrame, BaseInv
  <2>2. /\ in' \in Seq(Frames)
        /\ srv.status = 0 => \A i \in DOMAIN in' : ~in'[i].ack
        /\ acks + One(first) + One(chan) + One(Head(in)) + Cardinality(Asking(in')) = Due
    BY <2>1, AckRead
  <2>3. One(Head(in)) \in {0, 1} /\ Cardinality(Asking(in')) \in Nat
    BY <2>2, OneType, AskingFinite
  <2>4. Due' = acks + One(first) + One(Head(in)) + Cardinality(Asking(in'))
    BY <2>1 DEF Due, One, Asks
  <2>5. Due' = Due
    BY <1>0, <2>1, <2>2, <2>3, <2>4
  <2> QED
    BY <1>0, <2>1, <2>2, <2>5 DEF AckInv
<1>7. CASE SelectFrame
  <2>1. /\ UNCHANGED <<in, srv, first>> /\ chan' = None /\ chan \in Frames \cup {Error}
        /\ phase = "select"
    BY <1>7 DEF SelectFrame, Received, LoopFrame, BaseInv
  <2>2. acks' \in Nat /\ acks' = acks + One(chan)
    <3>1. CASE chan = Error /\ ReadError
      BY <1>0, <3>1 DEF ReadError
    <3>2. CASE chan # Error /\ PassOver(chan)
      <4>1. chan \in Frames /\ acks' = acks + (IF chan.type = "settings" /\ ~chan.ack THEN 1 ELSE 0)
        BY <2>1, <3>2 DEF PassOver
      <4> QED
        BY <1>0, <4>1 DEF One, Asks
    <3>3. CASE chan # Error /\ TakeOwn(chan)
      <4>1. acks' = acks /\ chan.type # "settings"
        BY <3>3 DEF TakeOwn, TakeHeaders, TakeData
      <4> QED
        BY <1>0, <4>1 DEF One, Asks
    <3> QED
      BY <1>7, <3>1, <3>2, <3>3 DEF SelectFrame
  <2> QED
    BY <1>0, <1>1, <2>1, <2>2
<1>8. CASE Server
  BY <1>8, AckServer
<1> QED
  BY <1>2, <1>3, <1>4, <1>5, <1>6, <1>7, <1>8 DEF Next, Caller, Reader

\* The body is made of pieces that the server has sent, within the window.
BodyInv ==
    /\ body = [i \in 1 .. Len(body) |-> i] /\ Len(body) <= srv.data
    /\ srv.data <= Window

\* The body that is kept is made of pieces that the server has sent.
LEMMA BodyStep == BaseInv /\ PipeInv /\ BodyInv /\ [Next]_vars => BodyInv'
<1> SUFFICES ASSUME BaseInv, PipeInv, BodyInv, [Next]_vars PROVE BodyInv'
  OBVIOUS
<1> USE DEF calling, reading, ctx, response, server
<1>0. /\ body = [i \in 1 .. Len(body) |-> i] /\ Len(body) <= srv.data /\ srv.data <= Window
      /\ body \in Seq(Nat) /\ Len(body) \in Nat /\ srv.data \in Nat /\ Window \in Nat
      /\ DOMAIN srv = {"greeted", "settings", "status", "data", "ended", "closed"}
  BY H2ConnAssumption DEF BodyInv, BaseInv
<1>1. CASE UNCHANGED <<body, srv>>
  BY <1>1 DEF BodyInv
<1>2. CASE UNCHANGED vars \/ CtxEnds \/ Reader
  BY <1>1, <1>2 DEF vars, CtxEnds, Reader, ReaderFrame, ReaderFails
<1>3. CASE Caller /\ ~SelectFrame
  BY <1>1, <1>3 DEF Caller, Peek, WritePreface, ReadSettings, FinishInit, InitFails,
     SendRequest, StartReader, SelectCtx, ReadError, Close
<1>4. CASE SelectFrame
  <2>1. CASE body' = body
    BY <1>1, <1>4, <2>1 DEF SelectFrame, LoopFrame
  <2>2. CASE chan # Error /\ chan.stream = "own" /\ chan.type = "data" /\ TakeData(chan)
    <3>1. /\ chan \in Frames /\ Data(chan) /\ phase = "select" /\ srv' = srv
          /\ body' = Append(body, chan.piece)
      BY <1>4, <2>2 DEF SelectFrame, Received, LoopFrame, BaseInv, Data, Own, TakeData
    <3>2. /\ Pipe \in Seq(Frames) /\ Pipe # << >> /\ Head(Pipe) = chan
          /\ DataFlow(Pipe, Len(body), srv.data)
      BY <3>1, PipeTaken DEF PipeInv, Over
    <3>3. chan.piece = Len(body) + 1 /\ Len(body) + 1 <= srv.data
      BY <1>0, <3>1, <3>2, FlowTake
    <3>4. body' = [i \in 1 .. Len(body') |-> i] /\ Len(body') = Len(body) + 1
      BY <1>0, <3>1, <3>3, BodyGrows
    <3> QED
      BY <1>0, <3>1, <3>3, <3>4 DEF BodyInv
  <2> QED
    BY <1>4, <2>1, <2>2 DEF SelectFrame, ReadError, PassOver, TakeOwn, TakeHeaders
<1>5. CASE Server
  <2>1. body' = body /\ srv'.data \in {srv.data} \cup (IF srv.data < Window THEN {srv.data + 1} ELSE {})
    BY <1>0, <1>5, ServerSends
  <2> QED
    BY <1>0, <2>1 DEF BodyInv
<1> QED
  BY <1>2, <1>3, <1>4, <1>5 DEF Next

(***************************************************************************)
(* Types; and one acknowledgement for each SETTINGS that was taken.        *)
(***************************************************************************)
THEOREM TypeCorrect == Spec => []TypeOK
<1> DEFINE Inv == BaseInv /\ AskInv /\ FirstInv /\ PipeInv /\ DoneInv /\ AckInv /\ BodyInv
<1>1. Init => Inv
  <2> SUFFICES ASSUME Init PROVE BodyInv
    BY BaseInit, AnswerInit, AckInit DEF FirstInv, Init
  <2>1. body = << >> /\ Len(body) = 0 /\ srv.data = 0 /\ Window \in Nat
    BY H2ConnAssumption DEF Init
  <2> QED
    BY <2>1 DEF BodyInv
<1>2. Inv /\ [Next]_vars => Inv'
  BY BaseStep, AskStep, FirstStep, AnswerStep, AckStep, BodyStep
<1>3. Inv => TypeOK
  <2> SUFFICES ASSUME Inv PROVE TypeOK
    OBVIOUS
  <2>1. body \in Seq(1 .. Window)
    <3>1. /\ Len(body) \in Nat /\ Len(body) <= Window /\ Window \in Nat /\ srv.data \in Nat
          /\ body = [i \in 1 .. Len(body) |-> i]
      BY H2ConnAssumption DEF BaseInv, BodyInv
    <3>2. \A i \in 1 .. Len(body) : i \in 1 .. Window
      BY <3>1
    <3> DEFINE n == Len(body)
    <3>3. body = [i \in 1 .. n |-> i] /\ n \in Nat
      BY <3>1
    <3>4. [i \in 1 .. n |-> i] \in Seq(1 .. Window)
      BY <3>2, <3>3
    <3> QED
      BY <3>3, <3>4
  <2>2. /\ acks \in 0 .. srv.settings
        /\ phase # "failed" =>
              acks + One(first) + One(chan) + Cardinality(Asking(in)) = srv.settings
    <3>1. /\ acks \in Nat /\ srv.settings \in Nat /\ Cardinality(Asking(in)) \in Nat
          /\ One(first) \in {0, 1} /\ One(chan) \in {0, 1}
      BY OneType, AskingFinite DEF BaseInv
    <3> QED
      BY <3>1 DEF AckInv, Due
  <2> QED
    BY <2>1, <2>2 DEF TypeOK, BaseInv
<1> HIDE DEF Inv
<1> QED
  BY <1>1, <1>2, <1>3, PTL DEF Spec

=============================================================================
