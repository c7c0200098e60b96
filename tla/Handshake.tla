------------------------------ MODULE Handshake ------------------------------
(***************************************************************************)
(* How a command gets a Noise connection: it fetches the public key of the *)
(* server (client/main.go), dials (client/noise/dialer.go), upgrades the   *)
(* HTTP connection and runs the client side of the Noise IK handshake      *)
(* (client/noise/handshake.go).                                            *)
(*                                                                         *)
(* Cryptography is symbolic.  A key stands for both its halves, and what   *)
(* two ends agree on by Diffie-Hellman is the set of the two keys.  The    *)
(* hash h is the sequence of what was mixed into it, the chaining key ck   *)
(* the sequence of agreements, and a text sealed under ck and h opens      *)
(* under the same ck and h only.                                           *)
(*                                                                         *)
(* The server is external.  It answers as the IK pattern has it, refuses   *)
(* the upgrade, answers with another message or with the answer to some-   *)
(* body else, ends the stream, or does nothing; and it may be set up anew, *)
(* with another key, at any time.                                          *)
(***************************************************************************)
EXTENDS Integers, Sequences, FiniteSets

CONSTANTS Dialers,      \* processes, each of which dials once
          MaxRekeys     \* bound: how often the server gets a new key

ASSUME HandshakeAssumption == MaxRekeys \in Nat

VARIABLES
    step,       \* per dialer: where its Dial is
    key,        \* per dialer: the control key it fetched
    hs,         \* per dialer: the symmetricState of its handshake
    sent,       \* per dialer: the initiation message in its request
    ctx,        \* per dialer: its context is running, or has expired
    conn,       \* per dialer: its TCP connection
    deadline,   \* per dialer: the connection has the deadline of the context
    wire,       \* per dialer: what the server sent and nobody has read
    ended,      \* per dialer: nothing more will come
    result,     \* per dialer: HandshakeResult
    refused,    \* history, per dialer: the response it could not open
    serverKey,  \* the key of the server
    rekeys,     \* new keys so far
    srv,        \* per dialer: what the server has done with its connection
    answered    \* history: the handshakes the server has completed

vars == <<step, key, hs, sent, ctx, conn, deadline, wire, ended, result, refused,
          serverKey, rekeys, srv, answered>>
crypto == <<key, hs, sent, result, refused>>
server == <<serverKey, rekeys, srv, answered>>

-----------------------------------------------------------------------------
(* Keys and the symmetric state *)

Machine(d) == <<"machine", d>>          \* the key in machine_key
Ephemeral(d) == <<"ephemeral", d>>      \* machineEphemeral, NewKey()
Control(n) == <<"control", n>>          \* the server's, after n times a new one
Reply(n) == <<"reply", n>>              \* the server's ephemeral for its n-th answer
Bad == <<"bad", 0>>                     \* X25519 fails with it, as with zero

CanMixDH(pub) == pub # Bad

\* Initialize, and MixHash of the prologue (protocol and version).
Initialized == [h |-> <<<<"prologue", "v138">>>>, ck |-> << >>]
MixHash(s, data) == [s EXCEPT !.h = Append(@, data)]
MixKey(s, k) == MixHash(s, <<"key", k>>)
MixDH(s, priv, pub) == [s EXCEPT !.ck = Append(@, {priv, pub})]

\* A text sealed under ck, over h; mixed in where h is its own prefix already.
Sealed(s, plain) == [ck |-> s.ck, h |-> s.h, plain |-> plain]
Opens(s, c) == c.ck = s.ck /\ c.h = s.h
DecryptAndHash(s, c) == MixHash(s, <<"sealed", c.ck, c.plain>>)
EncryptAndHash(s, plain) == DecryptAndHash(s, Sealed(s, plain))

\* Split: c1 is for what the client sends.
C1(s) == <<"c1", s.ck>>
C2(s) == <<"c2", s.ck>>

-----------------------------------------------------------------------------
(* ClientDeferred: the state before, between and after the sealed parts *)

BeforeMachine(d, control) ==
    MixDH(MixKey(MixKey(Initialized, control), Ephemeral(d)), Ephemeral(d), control)

BeforeTag(d, control) ==
    LET s == BeforeMachine(d, control)
    IN  MixDH(EncryptAndHash(s, Machine(d)), Machine(d), control)

Initiated(d, control) == EncryptAndHash(BeforeTag(d, control), << >>)

Initiation(d, control) ==
    [eph |-> Ephemeral(d),
     machine |-> Sealed(BeforeMachine(d, control), Machine(d)),
     tag |-> Sealed(BeforeTag(d, control), << >>)]

\* Mutant: ee and se are mixed in the wrong order.
BeforeResponseSwapped(s, d, pub) ==
    MixDH(MixDH(MixKey(s, pub), Machine(d), pub), Ephemeral(d), pub)

\* continueClientHandshake: ee, se, and what the response is opened with.
BeforeResponse(s, d, pub) ==
    MixDH(MixDH(MixKey(s, pub), Ephemeral(d), pub), Machine(d), pub)

-----------------------------------------------------------------------------
(* The server, by the same pattern from its own side *)

Heard(k, m) == MixDH(MixKey(MixKey(Initialized, k), m.eph), k, m.eph)
HeardMachine(k, m) == MixDH(DecryptAndHash(Heard(k, m), m.machine), k, m.machine.plain)
Accepts(k, m) == Opens(Heard(k, m), m.machine) /\ Opens(HeardMachine(k, m), m.tag)

BeforeAnswer(k, m, eph) ==
    LET s == DecryptAndHash(HeardMachine(k, m), m.tag)
    IN  MixDH(MixDH(MixKey(s, eph), eph, m.eph), eph, m.machine.plain)

Response(k, m, eph) == <<"response", eph, Sealed(BeforeAnswer(k, m, eph), << >>)>>

\* What the server keeps of a handshake with dialer d that it has completed.
Completed(d, eph) ==
    LET s == BeforeAnswer(serverKey, sent[d], eph)
    IN  [to |-> d, key |-> serverKey, peer |-> sent[d].machine.plain,
         payload |-> Response(serverKey, sent[d], eph),
         h |-> EncryptAndHash(s, << >>).h, tx |-> C2(s), rx |-> C1(s)]

-----------------------------------------------------------------------------
NoState == [h |-> << >>, ck |-> << >>]
NoMessage == [eph |-> Bad, machine |-> Sealed(NoState, << >>), tag |-> Sealed(NoState, << >>)]
NoResult == [h |-> << >>, tx |-> << >>, rx |-> << >>, peer |-> Bad]
NoPayload == <<"none">>
Status(kind) == <<"status", kind>>
Header(kind) == <<"header", kind>>      \* type and length of a message
Text == <<"text">>                      \* of an error message, or of a refusal
Garbled(pub) == <<"response", pub, Sealed(NoState, << >>)>>

Init ==
    /\ step = [d \in Dialers |-> "idle"]
    /\ key = [d \in Dialers |-> Bad] /\ hs = [d \in Dialers |-> NoState]
    /\ sent = [d \in Dialers |-> NoMessage]
    /\ ctx = [d \in Dialers |-> "running"]
    /\ conn = [d \in Dialers |-> "none"] /\ deadline = [d \in Dialers |-> FALSE]
    /\ wire = [d \in Dialers |-> << >>] /\ ended = [d \in Dialers |-> FALSE]
    /\ result = [d \in Dialers |-> NoResult]
    /\ refused = [d \in Dialers |-> NoPayload]
    /\ serverKey = Control(0) /\ rekeys = 0
    /\ srv = [d \in Dialers |-> [step |-> "none", key |-> Bad]]
    /\ answered = {}

-----------------------------------------------------------------------------
(* The dialing process *)

Goto(d, s) == step' = [step EXCEPT ![d] = s]

\* Mutant: the process takes its own machine key for the server's.
FetchKeyOwn(d) ==
    /\ step[d] = "idle" /\ Goto(d, "keyed") /\ key' = [key EXCEPT ![d] = Machine(d)]
    /\ UNCHANGED <<hs, sent, ctx, conn, deadline, wire, ended, result, refused, server>>

\* fetchServerKey: it fails, or gets the key there is, or 32 bytes that are none.
FetchKey(d) ==
    /\ step[d] = "idle"
    /\ \/ Goto(d, "failed") /\ UNCHANGED key
       \/ \E k \in {serverKey, Bad} : Goto(d, "keyed") /\ key' = [key EXCEPT ![d] = k]
    /\ UNCHANGED <<hs, sent, ctx, conn, deadline, wire, ended, result, refused, server>>

\* ClientDeferred, and the request with the initiation message.
SendInitiation(d) ==
    /\ step[d] = "keyed"
    /\ \/ /\ ~CanMixDH(key[d]) /\ Goto(d, "failed")
          /\ UNCHANGED <<hs, sent, conn>>
       \/ /\ CanMixDH(key[d]) /\ Goto(d, "roundTrip")
          /\ hs' = [hs EXCEPT ![d] = Initiated(d, key[d])]
          /\ sent' = [sent EXCEPT ![d] = Initiation(d, key[d])]
          /\ conn' = [conn EXCEPT ![d] = "open"]
    /\ UNCHANGED <<key, ctx, deadline, wire, ended, result, refused, server>>

\* What the next read of d returns.
Next1(d, kind) == wire[d] # << >> /\ Head(wire[d])[1] = kind
Consume(d) == wire' = [wire EXCEPT ![d] = Tail(@)]
CannotRead(d) == \/ wire[d] = << >> /\ ended[d]
                 \/ deadline[d] /\ ctx[d] = "expired"

\* Dial gives up: the response or the upgraded connection is closed.
GiveUp(d) ==
    /\ Goto(d, "failed") /\ conn' = [conn EXCEPT ![d] = "closed"]
    /\ wire' = [wire EXCEPT ![d] = << >>] /\ ended' = [ended EXCEPT ![d] = TRUE]
    /\ deadline' = [deadline EXCEPT ![d] = FALSE]

\* RoundTrip ends with a response, with the context or with the connection.
GetResponse(d) ==
    /\ step[d] = "roundTrip"
    /\ \/ /\ Next1(d, "status") /\ Consume(d) /\ UNCHANGED <<conn, deadline, ended>>
          /\ Goto(d, IF Head(wire[d]) = Status("101") THEN "upgraded" ELSE "body")
       \/ (ctx[d] = "expired" \/ CannotRead(d)) /\ GiveUp(d)
    /\ UNCHANGED <<crypto, ctx, server>>

\* The body of any other response is read to its end.
ReadBody(d) ==
    /\ step[d] = "body"
    /\ Next1(d, "text") \/ ctx[d] = "expired" \/ CannotRead(d)
    /\ GiveUp(d) /\ UNCHANGED <<crypto, ctx, server>>

\* Mutant: the handshake goes on without a deadline.
ContinueWithoutDeadline(d) ==
    /\ step[d] = "upgraded" /\ Goto(d, "header")
    /\ UNCHANGED <<deadline, crypto, ctx, conn, wire, ended, server>>

\* continueClientHandshake begins: the deadline of the context is the connection's.
SetDeadline(d) ==
    /\ step[d] = "upgraded" /\ Goto(d, "header")
    /\ deadline' = [deadline EXCEPT ![d] = TRUE]
    /\ UNCHANGED <<crypto, ctx, conn, wire, ended, server>>

\* The header: a response of the right length, an error message, or neither.
ReadHeader(d) ==
    /\ step[d] = "header" /\ Next1(d, "header")
    /\ \/ /\ \/ Head(wire[d]) = Header("response") /\ Goto(d, "payload")
             \/ Head(wire[d]) = Header("error") /\ Goto(d, "error")
          /\ Consume(d) /\ UNCHANGED <<conn, deadline, ended>>
       \/ /\ Head(wire[d]) \notin {Header("response"), Header("error")}
          /\ GiveUp(d)
    /\ UNCHANGED <<crypto, ctx, server>>

ReadErrorMessage(d) ==
    /\ step[d] = "error" /\ Next1(d, "text")
    /\ GiveUp(d) /\ UNCHANGED <<crypto, ctx, server>>

\* io.ReadFull fails, in the middle of whatever is read.
ReadFails(d) ==
    /\ step[d] \in {"header", "error", "payload"} /\ CannotRead(d)
    /\ GiveUp(d) /\ UNCHANGED <<crypto, ctx, server>>

\* The response read last cannot be used.
Refuse(d) ==
    /\ refused' = [refused EXCEPT ![d] = Head(wire[d])]
    /\ GiveUp(d) /\ UNCHANGED <<hs, result>>

\* Split, and the HandshakeResult; the deadline is taken off the connection.
Finish(d, s) ==
    /\ Consume(d) /\ hs' = [hs EXCEPT ![d] = s]
    /\ result' = [result EXCEPT ![d] = [h |-> s.h, tx |-> C1(s), rx |-> C2(s),
                                        peer |-> key[d]]]
    /\ Goto(d, "ok") /\ deadline' = [deadline EXCEPT ![d] = FALSE]
    /\ UNCHANGED <<conn, ended, refused>>

\* Mutant: nobody looks whether the tag opens.
ReadResponseUnchecked(d) ==
    /\ step[d] = "payload" /\ Next1(d, "response")
    /\ LET pub == Head(wire[d])[2]  tag == Head(wire[d])[3]
           s == BeforeResponse(hs[d], d, pub)
       IN  IF CanMixDH(pub) THEN Finish(d, DecryptAndHash(s, tag)) ELSE Refuse(d)
    /\ UNCHANGED <<key, sent, ctx, server>>

\* Mutant: the deadline stays on the connection that Dial returns.
ReadResponseKeepsDeadline(d) ==
    /\ step[d] = "payload" /\ Next1(d, "response")
    /\ LET pub == Head(wire[d])[2]  tag == Head(wire[d])[3]
           s == BeforeResponse(hs[d], d, pub)
       IN  IF CanMixDH(pub) /\ Opens(s, tag)
           THEN /\ result' = [result EXCEPT ![d] = [h |-> DecryptAndHash(s, tag).h,
                                tx |-> C1(s), rx |-> C2(s), peer |-> key[d]]]
                /\ Goto(d, "ok") /\ Consume(d) /\ UNCHANGED <<hs, conn, deadline, ended, refused>>
           ELSE Refuse(d)
    /\ UNCHANGED <<key, sent, ctx, server>>

ReadResponse(d) ==
    /\ step[d] = "payload" /\ Next1(d, "response")
    /\ LET pub == Head(wire[d])[2]  tag == Head(wire[d])[3]
           s == BeforeResponse(hs[d], d, pub)
       IN  IF CanMixDH(pub) /\ Opens(s, tag)
           THEN Finish(d, DecryptAndHash(s, tag)) ELSE Refuse(d)
    /\ UNCHANGED <<key, sent, ctx, server>>

Ended(d) == step[d] \in {"ok", "failed"}

\* The 30 seconds of the context are over; what Dial returned is past its reach.
Expire(d) ==
    /\ step[d] # "idle" /\ ~Ended(d) /\ ctx[d] = "running" /\ ctx' = [ctx EXCEPT ![d] = "expired"]
    /\ UNCHANGED <<step, crypto, conn, deadline, wire, ended, server>>

-----------------------------------------------------------------------------
(* The server and the network *)

Client == UNCHANGED <<step, crypto, ctx, conn, deadline>>
Send(d, pieces) == wire' = [wire EXCEPT ![d] = @ \o pieces]
Waiting(d, s) == srv[d].step = s /\ ~ended[d] /\ conn[d] = "open"
Serve(d, s, k) == srv' = [srv EXCEPT ![d] = [step |-> s, key |-> k]]

AnswerHTTP(d) ==
    /\ Waiting(d, "none") /\ Client /\ UNCHANGED <<ended, serverKey, rekeys, answered>>
    /\ \/ Serve(d, "upgraded", Bad) /\ Send(d, <<Status("101")>>)
       \/ Serve(d, "done", Bad) /\ Send(d, <<Status("other"), Text>>)

\* The initiation of dialer e is answered, on the connection of d.
Answer(d, e) ==
    /\ Waiting(d, "upgraded") /\ srv[e].step # "none"
    /\ Accepts(serverKey, sent[e])
    /\ LET c == Completed(e, Reply(Cardinality(answered) + 1))
       IN  /\ answered' = answered \cup {c}
           /\ Send(d, <<Header("response"), c.payload>>)
    /\ Serve(d, "done", Bad)
    /\ Client /\ UNCHANGED <<ended, serverKey, rekeys>>

\* An initiation that does not open under the key the server has now.
Reject(d) ==
    /\ Waiting(d, "upgraded") /\ ~Accepts(serverKey, sent[d])
    /\ Send(d, <<Header("error"), Text>>) /\ Serve(d, "rejected", serverKey)
    /\ Client /\ UNCHANGED <<ended, serverKey, rekeys, answered>>

\* Something else than an answer.
AnswerOther(d) ==
    /\ Waiting(d, "upgraded") /\ Serve(d, "done", Bad)
    /\ \/ Send(d, <<Header("other")>>)
       \/ \E pub \in {Bad, Reply(0)} : Send(d, <<Header("response"), Garbled(pub)>>)
    /\ Client /\ UNCHANGED <<ended, serverKey, rekeys, answered>>

\* The stream ends, and what is cut off of it is lost.
End(d) ==
    /\ conn[d] = "open" /\ ~Ended(d) /\ ~ended[d] /\ ended' = [ended EXCEPT ![d] = TRUE]
    /\ \E n \in 0 .. Len(wire[d]) : wire' = [wire EXCEPT ![d] = SubSeq(@, 1, n)]
    /\ Client /\ UNCHANGED server

Rekey ==
    /\ rekeys < MaxRekeys /\ rekeys' = rekeys + 1 /\ serverKey' = Control(rekeys')
    /\ Client /\ UNCHANGED <<wire, ended, srv, answered>>

-----------------------------------------------------------------------------
\* What Dial does by itself; before it, FetchKey has no deadline.
Dial(d) ==
    \/ SendInitiation(d) \/ GetResponse(d) \/ ReadBody(d) \/ SetDeadline(d)
    \/ ReadHeader(d) \/ ReadErrorMessage(d) \/ ReadFails(d) \/ ReadResponse(d)

Next ==
    \/ Rekey
    \/ \E d \in Dialers :
        \/ FetchKey(d) \/ Dial(d) \/ Expire(d)
        \/ AnswerHTTP(d) \/ Reject(d) \/ AnswerOther(d) \/ End(d)
        \/ \E e \in Dialers : Answer(d, e)

\* A process goes on if it can, and a context with a deadline ends.
Fairness == \A d \in Dialers : WF_vars(Dial(d)) /\ WF_vars(Expire(d))

Spec == Init /\ [][Next]_vars
FairSpec == Spec /\ Fairness

-----------------------------------------------------------------------------
Steps == {"idle", "keyed", "roundTrip", "body", "upgraded", "header", "error",
          "payload", "ok", "failed"}

\* Types, of what is not symbolic.
TypeOK ==
    /\ step \in [Dialers -> Steps]
    /\ ctx \in [Dialers -> {"running", "expired"}]
    /\ conn \in [Dialers -> {"none", "open", "closed"}]
    /\ deadline \in [Dialers -> BOOLEAN] /\ ended \in [Dialers -> BOOLEAN]
    /\ rekeys \in 0 .. MaxRekeys /\ serverKey = Control(rekeys)
    /\ \A d \in Dialers :
        /\ key[d] \in {Bad} \cup {Control(n) : n \in 0 .. MaxRekeys}
        /\ srv[d].step \in {"none", "upgraded", "done", "rejected"}

(***************************************************************************)
(* A handshake that the client takes for done is one that the server has   *)
(* completed: with the key the client meant, with this client as the peer, *)
(* over the same hash, and each sends under the key the other receives     *)
(* with -- whatever is cut, garbled, meant for another or sent under a new *)
(* key.                                                                    *)
(***************************************************************************)
Agreement ==
    \A d \in Dialers : step[d] = "ok" =>
        \E a \in answered :
            /\ a.to = d /\ a.key = key[d] /\ a.peer = Machine(d)
            /\ a.h = result[d].h /\ a.tx = result[d].rx /\ a.rx = result[d].tx

(***************************************************************************)
(* The two ends mix the same things in the same order: neither refuses a   *)
(* message the other made for it with the key they share.                  *)
(***************************************************************************)
HonestIsAccepted ==
    \A d \in Dialers :
        /\ srv[d].step = "rejected" => srv[d].key # key[d]
        /\ \A a \in answered :
              a.to = d /\ a.key = key[d] => refused[d] # a.payload

(***************************************************************************)
(* Dial ends with an open connection that has no deadline any more, or     *)
(* with an error and none open: whichever of its reads fails, and also if  *)
(* the context expires while it is reading.                                *)
(***************************************************************************)
ConnSettled ==
    \A d \in Dialers :
        /\ step[d] = "ok" => conn[d] = "open" /\ ~deadline[d]
        /\ step[d] = "failed" => conn[d] # "open"

(***************************************************************************)
(* Dial ends, also with a server that says nothing or stops half-way.      *)
(***************************************************************************)
DialEnds == \A d \in Dialers : step[d] = "keyed" ~> Ended(d)
=============================================================================
