------------------------------ MODULE NoiseConn ------------------------------
(***************************************************************************)
(* The record layer of client/noise/conn.go, in one direction: the sending *)
(* half of one Conn, the byte stream under it, and the receiving half of   *)
(* its peer, which runs the same code.                                     *)
(*                                                                         *)
(* A Write is cut into chunks, each sealed under the next nonce and sent   *)
(* as one record while the lock is held.  A Read opens records until it    *)
(* has plaintext and hands out as much of it as fits.  The cipher is       *)
(* abstract: a record opens under the nonce it was sealed with and no      *)
(* other.  Plaintext is counted in units; unit number p is the p-th that   *)
(* some Write sent, so what is read can be compared with what was written. *)
(*                                                                         *)
(* The stream is TCP: it loses and reorders nothing, but a write to it may *)
(* fail after any part of the record.  Such a failure ends the Write, not  *)
(* the Conn: the next Write goes on with the next nonce.                   *)
(***************************************************************************)
EXTENDS Integers, Sequences

CONSTANTS Writers,      \* goroutines that call Write
          Readers,      \* goroutines that call Read
          Nobody,       \* holder of a lock that is free
          NonceMod,     \* nonces are uint64: they wrap at this value
          MaxChunk,     \* maxPlaintextSize, in units
          MaxLen,       \* bound: units per Write, and per Read buffer
          MaxCalls,     \* bound: Writes
          MaxFails,     \* bound: failed writes to the stream
          MaxOthers     \* bound: messages of another type

ASSUME NoiseConnAssumption ==
    /\ Nobody \notin Writers \cup Readers
    /\ NonceMod \in Nat /\ NonceMod > 1
    /\ MaxChunk \in Nat \ {0} /\ MaxLen \in Nat \ {0}
    /\ MaxCalls \in Nat /\ MaxFails \in Nat /\ MaxOthers \in Nat

VARIABLES
    txNonce,    \* Conn.tx.nonce
    txLock,     \* holder of Conn.tx
    write,      \* per writer: where its Write is and how much is left
    wire,       \* the stream: records and other messages not yet read
    rxNonce,    \* the peer's Conn.rx.nonce
    rxLock,     \* holder of the peer's Conn.rx
    rxAlive,    \* the peer's Conn.rx.cipher is not nil
    plain,      \* the peer's Conn.rx.plaintext: units from .. to
    closed,     \* the sender has closed the stream
    calls,      \* Writes begun, which numbers them
    fails,      \* failed writes to the stream
    others,     \* messages of another type sent
    sent,       \* history: per unit, the Write that sent it
    got,        \* history: the units read, in order
    sealed,     \* history: nonces a chunk was sealed under
    resealed,   \* history: some nonce was sealed under twice
    pastEnd     \* history: a Write that began on a valid nonce went on past the last

tx == <<txNonce, txLock, write>>
rx == <<rxNonce, rxLock, rxAlive, plain, got>>
counters == <<calls, fails, others>>
seals == <<sealed, resealed, pastEnd>>
vars == <<tx, wire, rx, closed, counters, sent, seals>>

Invalid == NonceMod - 1     \* invalidNonce, ^uint64(0)
Valid(n) == n # Invalid
Increment(n) == (n + 1) % NonceMod

Least(a, b) == IF a < b THEN a ELSE b

Record(n, from, to) == [type |-> "record", nonce |-> n, from |-> from, to |-> to]
\* Nothing of the stream of units: an empty interval, where the stream has got to.
Empty(type) == [type |-> type, nonce |-> 0, from |-> Len(sent) + 1, to |-> Len(sent)]

NoPlain == [from |-> 1, to |-> 0]
NoWrite == [step |-> "idle", call |-> 0, left |-> 0]

Init ==
    /\ txNonce = 0 /\ txLock = Nobody /\ write = [w \in Writers |-> NoWrite]
    /\ wire = << >>
    /\ rxNonce = 0 /\ rxLock = Nobody /\ rxAlive = TRUE /\ plain = NoPlain
    /\ closed = FALSE
    /\ calls = 0 /\ fails = 0 /\ others = 0
    /\ sent = << >> /\ got = << >> /\ sealed = {} /\ resealed = FALSE
    /\ pastEnd = FALSE

-----------------------------------------------------------------------------
(* The sending half. *)

CallWrite(w, len) ==
    /\ write[w].step = "idle" /\ calls < MaxCalls
    /\ calls' = calls + 1
    /\ write' = [write EXCEPT ![w] = [step |-> "wait", call |-> calls', left |-> len]]
    /\ UNCHANGED <<txNonce, txLock, wire, rx, closed, fails, others, sent, seals>>

\* Mutant: Write seals without asking whether the nonce is still valid.
LockUnchecked(w) ==
    /\ write[w].step = "wait" /\ txLock = Nobody
    /\ txLock' = w /\ write' = [write EXCEPT ![w].step = "seal"]
    /\ UNCHANGED <<txNonce, wire, rx, closed, counters, sent, seals>>

\* The one place where Write looks at the nonce: before its first chunk.
LockTx(w) ==
    /\ write[w].step = "wait" /\ txLock = Nobody
    /\ \/ /\ Valid(txNonce)
          /\ txLock' = w
          /\ write' = [write EXCEPT ![w].step = "seal"]
       \/ /\ ~Valid(txNonce)            \* "cipher exhausted"
          /\ write' = [write EXCEPT ![w] = NoWrite]
          /\ UNCHANGED txLock
    /\ UNCHANGED <<txNonce, wire, rx, closed, counters, sent, seals>>

\* A Write in its loop: at its first chunk, or at a later one.
Sealing(w) == write[w].step \in {"seal", "more"} /\ txLock = w

\* The history of nonces after one more chunk of w.
SealNext(w) ==
    /\ sealed' = sealed \cup {txNonce}
    /\ resealed' = (resealed \/ txNonce \in sealed)
    /\ pastEnd' = (pastEnd \/ (write[w].step = "more" /\ ~Valid(txNonce)))

\* The chunk goes out whole, and the Write returns if it was the last.
ChunkSent(w, k) ==
    /\ ~closed
    /\ wire' = Append(wire, Record(txNonce, Len(sent) + 1, Len(sent) + k))
    /\ sent' = sent \o [i \in 1 .. k |-> write[w].call]
    /\ write' = [write EXCEPT ![w] = IF @.left = k THEN NoWrite
                                     ELSE [step |-> "more", call |-> @.call, left |-> @.left - k]]
    /\ txLock' = IF write[w].left = k THEN Nobody ELSE w
    /\ UNCHANGED fails

\* The stream takes nothing of the record, or a part of it; the Write returns.
ChunkFails(w) ==
    /\ closed \/ fails < MaxFails
    /\ fails' = IF closed THEN fails ELSE fails + 1
    /\ \/ UNCHANGED wire
       \/ ~closed /\ wire' = Append(wire, Empty("cut"))
    /\ write' = [write EXCEPT ![w] = NoWrite]
    /\ txLock' = Nobody
    /\ UNCHANGED sent

\* Mutant: the lock is given up between the chunks of a Write.
SealUnlocks(w) ==
    /\ Sealing(w)
    /\ LET k == Least(write[w].left, MaxChunk)
       IN  /\ ~closed
           /\ wire' = Append(wire, Record(txNonce, Len(sent) + 1, Len(sent) + k))
           /\ sent' = sent \o [i \in 1 .. k |-> write[w].call]
           /\ write' = [write EXCEPT ![w] = IF @.left = k THEN NoWrite
                                ELSE [@ EXCEPT !.left = @ - k, !.step = "wait"]]
    /\ txLock' = Nobody
    /\ SealNext(w) /\ txNonce' = Increment(txNonce)
    /\ UNCHANGED <<rx, closed, counters>>

\* Mutant: the last chunk is not shortened to what is left.
SealFullChunk(w) ==
    /\ Sealing(w)
    /\ SealNext(w)
    /\ txNonce' = Increment(txNonce)
    /\ ChunkSent(w, MaxChunk) \/ ChunkFails(w)
    /\ UNCHANGED <<rx, closed, calls, others>>

\* Mutant: the nonce moves on only when the record went out.
SealThenIncrement(w) ==
    /\ Sealing(w)
    /\ SealNext(w)
    /\ \/ ChunkSent(w, Least(write[w].left, MaxChunk)) /\ txNonce' = Increment(txNonce)
       \/ ChunkFails(w) /\ UNCHANGED txNonce
    /\ UNCHANGED <<rx, closed, calls, others>>

SealChunk(w) ==
    /\ Sealing(w)
    /\ SealNext(w)
    /\ txNonce' = Increment(txNonce)
    /\ \/ ChunkSent(w, Least(write[w].left, MaxChunk))
       \/ ChunkFails(w)
    /\ UNCHANGED <<rx, closed, calls, others>>

\* The control server may send a message of another type between two records.
SendOther ==
    /\ ~closed /\ others < MaxOthers
    /\ others' = others + 1
    /\ wire' = Append(wire, Empty("other"))
    /\ UNCHANGED <<tx, rx, closed, calls, fails, sent, seals>>

Close ==
    /\ ~closed /\ closed' = TRUE
    /\ UNCHANGED <<tx, wire, rx, counters, sent, seals>>

-----------------------------------------------------------------------------
(* The receiving half. *)

\* A reader whose Conn has no cipher left returns at once, and is left out.
LockRx(r) ==
    /\ rxLock = Nobody /\ rxAlive
    /\ rxLock' = r
    /\ UNCHANGED <<tx, wire, rxNonce, rxAlive, plain, got, closed, counters, sent, seals>>

\* What the receiver keeps when a message is not turned into plaintext.
Refuse(alive) ==
    /\ rxLock' = Nobody /\ rxAlive' = alive
    /\ UNCHANGED plain

\* A message of another type is skipped with an error; the Conn stays usable.
SkipOther ==
    /\ Head(wire).type = "other" /\ wire' = Tail(wire)
    /\ Refuse(TRUE) /\ UNCHANGED rxNonce

(***************************************************************************)
(* What is left of a record that was cut swallows the start of the next    *)
(* one, and does not open; alone it leaves the reader waiting.             *)
(***************************************************************************)
OpenCut ==
    /\ Head(wire).type = "cut" /\ Len(wire) > 1 /\ wire' = Tail(Tail(wire))
    /\ \/ Valid(rxNonce) /\ rxNonce' = Increment(rxNonce) /\ Refuse(FALSE)
       \/ ~Valid(rxNonce) /\ UNCHANGED rxNonce /\ Refuse(TRUE)

\* The nonce is looked at once the record is off the stream.
OpenRecord ==
    /\ Head(wire).type = "record" /\ wire' = Tail(wire)
    /\ \/ ~Valid(rxNonce) /\ UNCHANGED rxNonce /\ Refuse(TRUE)
       \/ /\ Valid(rxNonce) /\ rxNonce' = Increment(rxNonce)
          /\ \/ /\ Head(wire).nonce = rxNonce
                /\ plain' = [from |-> Head(wire).from, to |-> Head(wire).to]
                /\ UNCHANGED <<rxLock, rxAlive>>
             \/ Head(wire).nonce # rxNonce /\ Refuse(FALSE)

\* Mutant: every message moves the nonce, whatever its type.
DecryptCountsOthers(r) ==
    /\ rxLock = r /\ plain.from > plain.to /\ wire # << >>
    /\ \/ /\ Head(wire).type = "other" /\ wire' = Tail(wire)
          /\ Refuse(TRUE) /\ rxNonce' = Increment(rxNonce)
       \/ OpenCut \/ OpenRecord
    /\ UNCHANGED <<tx, got, closed, counters, sent, seals>>

DecryptOne(r) ==
    /\ rxLock = r /\ plain.from > plain.to /\ wire # << >>
    /\ SkipOther \/ OpenCut \/ OpenRecord
    /\ UNCHANGED <<tx, got, closed, counters, sent, seals>>

\* The stream has ended: io.ReadFull fails, and the Read with it.
ReadEnd(r) ==
    /\ rxLock = r /\ plain.from > plain.to
    /\ closed /\ Len(wire) <= 1 /\ (wire # << >> => Head(wire).type = "cut")
    /\ rxLock' = Nobody
    /\ UNCHANGED <<tx, wire, rxNonce, rxAlive, plain, got, closed, counters, sent, seals>>

\* Mutant: what does not fit the buffer is dropped.
ReturnDropsRest(r, size) ==
    /\ rxLock = r /\ plain.from <= plain.to /\ rxLock' = Nobody
    /\ LET n == Least(size, plain.to - plain.from + 1)
       IN  got' = got \o [i \in 1 .. n |-> plain.from + i - 1]
    /\ plain' = NoPlain
    /\ UNCHANGED <<tx, wire, rxNonce, rxAlive, closed, counters, sent, seals>>

\* Read copies what fits into the buffer and keeps the rest for the next Read.
ReturnPlain(r, size) ==
    /\ rxLock = r /\ plain.from <= plain.to /\ rxLock' = Nobody
    /\ LET n == Least(size, plain.to - plain.from + 1)
       IN  /\ got' = got \o [i \in 1 .. n |-> plain.from + i - 1]
           /\ plain' = [plain EXCEPT !.from = @ + n]
    /\ UNCHANGED <<tx, wire, rxNonce, rxAlive, closed, counters, sent, seals>>

-----------------------------------------------------------------------------
Next ==
    \/ SendOther \/ Close
    \/ \E w \in Writers : LockTx(w) \/ SealChunk(w)
    \/ \E w \in Writers, len \in 1 .. MaxLen : CallWrite(w, len)
    \/ \E r \in Readers : LockRx(r) \/ DecryptOne(r) \/ ReadEnd(r)
    \/ \E r \in Readers, size \in 1 .. MaxLen : ReturnPlain(r, size)

(***************************************************************************)
(* Goroutines that can go on do, some reader keeps reading, and sync.Mutex *)
(* lets nobody wait for ever while it is free again and again.             *)
(***************************************************************************)
Fairness ==
    /\ \A w \in Writers : SF_vars(LockTx(w)) /\ WF_vars(SealChunk(w))
    /\ \A r \in Readers :
        /\ WF_vars(LockRx(r)) /\ WF_vars(DecryptOne(r))
        /\ WF_vars(\E size \in 1 .. MaxLen : ReturnPlain(r, size))

Spec == Init /\ [][Next]_vars
FairSpec == Spec /\ Fairness

-----------------------------------------------------------------------------
Nonces == 0 .. (NonceMod - 1)

\* The state is what conn.go declares it to be.
TypeOK ==
    /\ txNonce \in Nonces /\ rxNonce \in Nonces
    /\ txLock \in Writers \cup {Nobody} /\ rxLock \in Readers \cup {Nobody}
    /\ write \in [Writers -> [step : {"idle", "wait", "seal", "more"}, call : Nat, left : Nat]]
    /\ wire \in Seq([type : {"record", "other", "cut"}, nonce : Nonces,
                     from : Nat, to : Nat])
    /\ plain \in [from : Nat, to : Nat]
    /\ rxAlive \in BOOLEAN /\ closed \in BOOLEAN /\ resealed \in BOOLEAN
    /\ pastEnd \in BOOLEAN
    /\ calls \in Nat /\ fails \in Nat /\ others \in Nat
    /\ sent \in Seq(Nat) /\ got \in Seq(Nat) /\ sealed \subseteq Nonces

(***************************************************************************)
(* What is read is what was written, in order, with nothing lost, doubled  *)
(* or moved, through chunks, short buffers, several readers, messages of   *)
(* other types and failed writes.                                          *)
(***************************************************************************)
InOrder ==
    /\ Len(got) <= Len(sent)
    /\ \A i \in 1 .. Len(got) : got[i] = i

(***************************************************************************)
(* The chunks of one Write are not mixed with those of another, since the  *)
(* lock of Conn.tx is held across the loop.                                *)
(***************************************************************************)
WritesWhole ==
    \A i, j \in 1 .. Len(sent) : i < j /\ sent[i] = sent[j] =>
        \A k \in i .. j : sent[k] = sent[i]

(***************************************************************************)
(* Only a failed write to the stream makes a record fail to open: no       *)
(* interleaving of honest calls, nor a message of another type, takes the  *)
(* receiver's cipher away.                                                 *)
(***************************************************************************)
DiesOnlyAfterFailure == ~rxAlive => fails > 0

(***************************************************************************)
(* No two chunks are sealed under one nonce, failed writes included, up to *)
(* the end of the nonces: Write asks for a valid one before its first      *)
(* chunk only, so a Write of several chunks may go past the end (and does, *)
(* against the comment of Increment, conn.go:50, that it "Must only be     *)
(* called on valid nonces").                                               *)
(***************************************************************************)
NonceUnique == resealed => pastEnd

(***************************************************************************)
(* Everything sent is read in the end, unless a write failed, the stream   *)
(* was closed or a Write went past the last nonce.                         *)
(***************************************************************************)
AllRead == <>[](fails = 0 /\ ~closed /\ ~pastEnd => Len(got) = Len(sent))
=============================================================================
