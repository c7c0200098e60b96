------------------------------- MODULE H2Conn -------------------------------
(***************************************************************************)
(* The HTTP/2 client of client/noise/h2frame.go: NewH2Conn, one request,   *)
(* Close, which is what register and up do with a connection.  Each frame  *)
(* of the response is read by a goroutine of its own, and the request      *)
(* waits for its channel or for the context; when the context ends first   *)
(* the goroutine stays behind, reading.                                    *)
(*                                                                         *)
(* The server is external: it greets (with an early payload before its     *)
(* SETTINGS or not), answers on the stream of the request, may send other  *)
(* frames of HTTP/2 in between (OtherFrames; no padding and no             *)
(* CONTINUATION), and may close.  A piece of DATA is its number.  The      *)
(* client sends no WINDOW_UPDATE, so there are never more than Window      *)
(* pieces.                                                                 *)
(***************************************************************************)
EXTENDS Integers, Sequences, FiniteSets, SequencesExt

CONSTANTS Statuses,     \* what the server may answer
          Window,       \* DATA the initial window of HTTP/2 lets through
          MaxOthers     \* bound: frames that are no part of the response

ASSUME H2ConnAssumption ==
    /\ Statuses \subseteq Nat \ {0}
    /\ Window \in Nat /\ MaxOthers \in Nat

VARIABLES
    phase,      \* how far the calling goroutine is
    first,      \* the frame whose header NewH2Conn took for the preamble
    reader,     \* the goroutine of readH2FrameCtx
    chan,       \* its channel: nothing, a frame or an error
    deadline,   \* the context of the request has one (up) or not (register)
    ctxDone,    \* the context of the request has ended
    status, body, \* statusCode and body of DoRequestContext
    result,     \* what DoRequestContext returned
    acks,       \* acknowledgements of SETTINGS written
    in,         \* frames sent by the server and not read
    srv,        \* what the server has sent
    others,     \* other frames sent so far
    skew,       \* a header block was skipped: hpack's tables differ from here
    received      \* history: the pieces of DATA read before the request returned

vars == <<phase, first, reader, chan, deadline, ctxDone, status, body, result, acks, in,
          srv, others, skew, received>>
calling == <<phase, first, result>>
reading == <<reader, chan>>
ctx == <<deadline, ctxDone>>
response == <<status, body, skew>>
server == <<in, srv, others>>

-----------------------------------------------------------------------------
None == [type |-> "none"]
Error == [type |-> "error"]
Frame(type, stream) == [type |-> type, stream |-> stream, ack |-> FALSE,
                        end |-> FALSE, status |-> 0, piece |-> 0]
Settings == Frame("settings", "conn")
SettingsAck == [Settings EXCEPT !.ack = TRUE]
Early == Frame("early", "conn")

\* Frames a server may send that are no part of the response: SETTINGS, a
\* PING or the like, a reset of the stream, and frames of a pushed stream.
OtherFrames == {Settings, Frame("ping", "conn"), Frame("reset", "own"),
                Frame("headers", "other"),
                [Frame("data", "other") EXCEPT !.piece = Window + 1]}

Failed == [ok |-> FALSE, status |-> 0, body |-> << >>]
NoResult == [ok |-> FALSE, status |-> 0, body |-> <<0>>]

Init ==
    /\ phase = "peek" /\ first = None /\ reader = "none" /\ chan = None
    /\ deadline \in BOOLEAN /\ ctxDone = FALSE /\ status = 0 /\ body = << >> /\ result = NoResult
    /\ acks = 0 /\ in = << >> /\ others = 0 /\ skew = FALSE /\ received = 0
    /\ srv = [greeted |-> FALSE, settings |-> 0, status |-> 0, data |-> 0,
              ended |-> FALSE, closed |-> FALSE]

-----------------------------------------------------------------------------
(* NewH2Conn *)

Taken == in # << >> /\ in' = Tail(in)

\* Reads nine bytes before it has written any: an early payload, which is
\* thrown away, or the header of the first frame.
Peek ==
    /\ phase = "peek" /\ Taken
    /\ phase' = "preface"
    /\ first' = IF Head(in).type = "early" THEN None ELSE Head(in)
    /\ UNCHANGED <<reading, ctx, response, result, acks, srv, others, received>>

WritePreface ==
    /\ phase = "preface"
    /\ phase' = IF first = None THEN "settings" ELSE "finish"
    /\ UNCHANGED <<first, result, reading, ctx, response, acks, server, received>>

ReadSettings ==
    /\ phase = "settings" /\ Taken
    /\ phase' = "finish" /\ first' = Head(in)
    /\ UNCHANGED <<reading, ctx, response, result, acks, srv, others, received>>

\* Mutant: the SETTINGS that were waited for are not acknowledged.
FinishInitNoAck ==
    /\ phase = "finish" /\ phase' = "ready" /\ first' = None
    /\ UNCHANGED <<result, reading, ctx, response, acks, server, received>>

\* finishH2Init: acknowledge if it is SETTINGS; write our own.
FinishInit ==
    /\ phase = "finish" /\ phase' = "ready" /\ first' = None
    /\ acks' = acks + (IF first.type = "settings" THEN 1 ELSE 0)
    /\ UNCHANGED <<result, reading, ctx, response, server, received>>

\* A read of NewH2Conn, or any write, fails once the server has closed.
InitFails ==
    /\ srv.closed
    /\ \/ phase \in {"peek", "settings"} /\ in = << >>
       \/ phase \in {"preface", "finish", "ready"}
    /\ phase' = "failed" /\ first' = None /\ result' = Failed
    /\ UNCHANGED <<reading, ctx, response, acks, server, received>>

-----------------------------------------------------------------------------
(* DoRequestContext *)

SendRequest ==
    /\ phase = "ready" /\ phase' = "loop"
    /\ UNCHANGED <<first, result, reading, ctx, response, acks, server, received>>

\* readH2FrameCtx: a goroutine and a channel for the next frame.
StartReader ==
    /\ phase = "loop" /\ phase' = "select"
    /\ reader' = "reading" /\ chan' = None
    /\ UNCHANGED <<first, result, ctx, response, acks, server, received>>

\* Mutant: the channel has no room, so a send waits to be received.
ReaderFrameUnbuffered ==
    /\ reader = "reading" /\ Taken
    /\ chan' = Head(in) /\ reader' = "sending"
    /\ received' = IF Head(in).type = "data" /\ Head(in).stream = "own" /\ phase = "select"
                 THEN received + 1 ELSE received
    /\ UNCHANGED <<calling, ctx, response, acks, srv, others>>

\* The channel has room for the frame: the goroutine ends whoever waits.
ReaderFrame ==
    /\ reader = "reading" /\ Taken
    /\ chan' = Head(in) /\ reader' = "none"
    /\ received' = IF Head(in).type = "data" /\ Head(in).stream = "own" /\ phase = "select"
                 THEN received + 1 ELSE received
    /\ UNCHANGED <<calling, ctx, response, acks, srv, others>>

ReaderFails ==
    /\ reader = "reading"
    /\ phase = "closed" \/ (in = << >> /\ srv.closed)
    /\ chan' = Error /\ reader' = "none"
    /\ UNCHANGED <<calling, ctx, response, acks, server, received>>

Return(r) == phase' = "returned" /\ result' = r

\* An error of readH2FrameCtx, its own or the context's.
ReadError ==
    /\ Return(IF ctxDone /\ status # 0 /\ body # << >>
              THEN [ok |-> TRUE, status |-> status, body |-> body] ELSE Failed)
    /\ UNCHANGED <<status, body, acks, skew>>

\* A frame of another stream or of the connection.
PassOver(f) ==
    /\ phase' = "loop"
    /\ acks' = acks + (IF f.type = "settings" /\ ~f.ack THEN 1 ELSE 0)
    /\ skew' = (skew \/ f.type = "headers")
    /\ UNCHANGED <<status, body, result>>

Answered(f) ==
    IF f.end THEN Return([ok |-> TRUE, status |-> status', body |-> body'])
             ELSE phase' = "loop" /\ UNCHANGED result

\* Without the header blocks it skipped, hpack may fail or misread.
TakeHeaders(f) ==
    /\ UNCHANGED <<body, acks, skew>>
    /\ \/ /\ status' = IF f.status = 0 THEN status ELSE f.status
          /\ Answered(f)
       \/ skew /\ status' \in Statuses \cup {status} /\ Answered(f)
       \/ skew /\ UNCHANGED status /\ Return(Failed)

TakeData(f) ==
    /\ body' = Append(body, f.piece) /\ UNCHANGED <<status, acks, skew>>
    /\ Answered(f)

\* A frame of the request's own stream; a reset, for one, changes nothing.
TakeOwn(f) ==
    \/ f.type = "headers" /\ TakeHeaders(f)
    \/ f.type = "data" /\ TakeData(f)
    \/ f.type = "reset" /\ phase' = "loop" /\ UNCHANGED <<response, acks, result>>

Received == phase = "select" /\ chan # None /\ chan' = None /\ reader' = "none"
LoopFrame == UNCHANGED <<first, ctx, server, received>>

\* Mutant: a frame of any stream is taken for one of the request's.
SelectAnyStream ==
    /\ Received /\ LoopFrame
    /\ \/ chan = Error /\ ReadError
       \/ chan # Error /\ chan.stream = "conn" /\ PassOver(chan)
       \/ chan # Error /\ chan.stream # "conn" /\ TakeOwn(chan)

\* Mutant: an acknowledgement is acknowledged.
SelectAcksAcks ==
    /\ Received /\ LoopFrame
    /\ \/ chan = Error /\ ReadError
       \/ /\ chan # Error /\ chan.stream # "own"
          /\ acks' = acks + (IF chan.type = "settings" THEN 1 ELSE 0)
          /\ phase' = "loop" /\ skew' = (skew \/ chan.type = "headers")
          /\ UNCHANGED <<status, body, result>>
       \/ chan # Error /\ chan.stream = "own" /\ TakeOwn(chan)

\* Mutant: the end of the stream is not looked for in a HEADERS frame.
SelectNoTrailers ==
    /\ Received /\ LoopFrame
    /\ \/ chan = Error /\ ReadError
       \/ chan # Error /\ chan.stream # "own" /\ PassOver(chan)
       \/ /\ chan # Error /\ chan.stream = "own"
          /\ TakeOwn(IF chan.type = "headers" THEN [chan EXCEPT !.end = FALSE] ELSE chan)

\* The channel has something: select may take it.
SelectFrame ==
    /\ Received /\ LoopFrame
    /\ \/ chan = Error /\ ReadError
       \/ chan # Error /\ chan.stream # "own" /\ PassOver(chan)
       \/ chan # Error /\ chan.stream = "own" /\ TakeOwn(chan)

\* Mutant: the context is looked at only when the channel has something.
SelectCtxLate ==
    /\ phase = "select" /\ ctxDone /\ chan # None /\ ReadError
    /\ UNCHANGED <<first, reading, ctx, server, received>>

\* The context has ended: select may take that, whatever the channel has.
SelectCtx ==
    /\ phase = "select" /\ ctxDone /\ ReadError
    /\ UNCHANGED <<first, reading, ctx, server, received>>

CtxEnds ==
    /\ deadline /\ ~ctxDone /\ phase \in {"ready", "loop", "select", "returned"}
    /\ ctxDone' = TRUE
    /\ UNCHANGED <<calling, reading, deadline, response, acks, server, received>>

\* GOAWAY, and the connection is closed.
Close ==
    /\ phase = "returned" /\ phase' = "closed"
    /\ UNCHANGED <<first, result, reading, ctx, response, acks, server, received>>

-----------------------------------------------------------------------------
(* The server *)

Asked == phase \in {"loop", "select", "returned", "closed"}

Send(frames) ==
    /\ ~srv.closed /\ in' = in \o frames
    /\ UNCHANGED <<calling, reading, ctx, response, acks, received>>

Greet ==
    /\ ~srv.greeted
    /\ Send(<<Early, Settings>>) \/ Send(<<Settings>>)
    /\ srv' = [srv EXCEPT !.greeted = TRUE, !.settings = 1] /\ UNCHANGED others

SendHeaders(s, end) ==
    /\ Asked /\ srv.status = 0
    /\ Send(<<SettingsAck, [Frame("headers", "own") EXCEPT !.status = s, !.end = end]>>)
    /\ srv' = [srv EXCEPT !.status = s, !.ended = end] /\ UNCHANGED others

SendData(end) ==
    /\ srv.status # 0 /\ ~srv.ended /\ srv.data < Window
    /\ Send(<<[Frame("data", "own") EXCEPT !.piece = srv.data + 1, !.end = end]>>)
    /\ srv' = [srv EXCEPT !.data = @ + 1, !.ended = end] /\ UNCHANGED others

SendTrailers ==
    /\ srv.status # 0 /\ ~srv.ended
    /\ Send(<<[Frame("headers", "own") EXCEPT !.end = TRUE]>>)
    /\ srv' = [srv EXCEPT !.ended = TRUE] /\ UNCHANGED others

SendOther(f) ==
    /\ srv.greeted /\ Asked /\ others < MaxOthers /\ others' = others + 1
    /\ Send(<<f>>)
    /\ srv' = [srv EXCEPT !.settings = @ + (IF f.type = "settings" THEN 1 ELSE 0)]

ServerCloses ==
    /\ Send(<< >>)
    /\ srv' = [srv EXCEPT !.closed = TRUE] /\ UNCHANGED others

-----------------------------------------------------------------------------
\* What the goroutines of the client do, and the clock.
Caller ==
    \/ Peek \/ WritePreface \/ ReadSettings \/ FinishInit \/ InitFails
    \/ SendRequest \/ StartReader \/ SelectFrame \/ SelectCtx \/ Close
Reader == ReaderFrame \/ ReaderFails

Server ==
    \/ Greet \/ SendTrailers \/ ServerCloses
    \/ \E s \in Statuses, end \in BOOLEAN : SendHeaders(s, end)
    \/ \E end \in BOOLEAN : SendData(end)
    \/ \E f \in OtherFrames : SendOther(f)

Next == Caller \/ Reader \/ CtxEnds \/ Server

\* The runtime runs goroutines and fires the timer; of the server nothing.
Fairness == WF_vars(Caller) /\ WF_vars(Reader) /\ WF_vars(CtxEnds)

Spec == Init /\ [][Next]_vars
FairSpec == Spec /\ Fairness

-----------------------------------------------------------------------------
Frames == [type : {"settings", "early", "ping", "reset", "headers", "data"},
           stream : {"conn", "own", "other"}, ack : BOOLEAN, end : BOOLEAN,
           status : Nat, piece : Nat]

\* SETTINGS that ask for an acknowledgement.
Asks(f) == f.type = "settings" /\ ~f.ack
Asking(s) == {i \in DOMAIN s : Asks(s[i])}
One(f) == IF Asks(f) THEN 1 ELSE 0

\* Types; one acknowledgement for each SETTINGS but those still to be read and
\* the one in hand, unless NewH2Conn failed with it; and a reader only from the
\* first turn of the loop of a request on.
TypeOK ==
    /\ phase \in {"peek", "preface", "settings", "finish", "ready", "loop",
                  "select", "returned", "closed", "failed"}
    /\ first \in Frames \cup {None} /\ chan \in Frames \cup {None, Error}
    /\ reader \in {"none", "reading"} /\ deadline \in BOOLEAN /\ ctxDone \in BOOLEAN
    /\ status \in Nat /\ body \in Seq(1 .. Window) /\ acks \in 0 .. srv.settings
    /\ phase # "failed" =>
          acks + One(first) + One(chan) + Cardinality(Asking(in)) = srv.settings
    /\ in \in Seq(Frames) /\ others \in Nat /\ skew \in BOOLEAN
    /\ reader = "reading" => phase \in {"select", "returned", "closed"} /\ chan = None

(***************************************************************************)
(* A response that is returned is the server's answer to this request: the *)
(* status it sent, and its DATA in order with nothing left out between.    *)
(* It is the whole of it unless the context ended, and the status may be   *)
(* wrong only behind a header block that was skipped.                      *)
(***************************************************************************)
ResponseIsAnswer ==
    result.ok =>
        /\ result.body = [i \in 1 .. Len(result.body) |-> i]
        /\ Len(result.body) <= srv.data
        /\ ~ctxDone /\ ~skew => srv.ended /\ Len(result.body) = srv.data
        /\ ~skew => result.status = srv.status

(***************************************************************************)
(* A request whose context ends returns, whatever the server does or not.  *)
(***************************************************************************)
DeadlineReturns == (deadline /\ phase = "loop") ~> result # NoResult

(***************************************************************************)
(* Without a deadline a request still returns once the server has ended    *)
(* the stream or closed the connection.                                    *)
(***************************************************************************)
AnswerReturns == (phase = "loop" /\ (srv.ended \/ srv.closed)) ~> result # NoResult

(***************************************************************************)
(* No goroutine of readH2FrameCtx outlives the connection.                 *)
(***************************************************************************)
ReadersEnd == phase = "closed" ~> reader = "none"

(***************************************************************************)
(* client/noise/h2frame.go:183 says of a request whose context ends that   *)
(* it returns any data received so far.                                    *)
(***************************************************************************)
ReturnsDataReceived ==
    ctxDone /\ result # NoResult /\ ~srv.closed /\ ~skew => Len(result.body) = received
=============================================================================
