--------------------------- MODULE NoiseConn_proofs ---------------------------
(***************************************************************************)
(* Proofs about NoiseConn, for any goroutines, chunk size and range of     *)
(* nonces, and any number of Writes, failures and other messages.          *)
(***************************************************************************)
EXTENDS NoiseConn, TLAPS

Writes == [step : {"idle", "wait", "seal", "more"}, call : Nat, left : Nat]
Items == [type : {"record", "other", "cut"}, nonce : Nonces, from : Nat, to : Nat]

\* A nonce stays one, and moves on by one unless it is the last.
LEMMA Increments ==
    ASSUME NEW n \in Nonces
    PROVE  /\ Increment(n) \in Nonces
           /\ Valid(n) => Increment(n) = n + 1
           /\ NonceMod \in Nat
<1>1. NonceMod \in Nat /\ NonceMod > 1 /\ n \in 0 .. (NonceMod - 1)
  BY NoiseConnAssumption DEF Nonces
<1>2. (n + 1) % NonceMod \in 0 .. (NonceMod - 1)
  BY <1>1
<1>3. n + 1 < NonceMod => (n + 1) % NonceMod = n + 1
  BY <1>1
<1> QED
  BY <1>1, <1>2, <1>3 DEF Increment, Valid, Invalid, Nonces

\* The smaller of two numbers is one of them.
LEMMA LeastType ==
    ASSUME NEW a \in Nat, NEW b \in Nat
    PROVE  Least(a, b) \in Nat /\ Least(a, b) <= a /\ Least(a, b) <= b
BY DEF Least

\* What a run of equal values does to a sequence.
LEMMA AppendRun ==
    ASSUME NEW S, NEW s \in Seq(S), NEW k \in Nat, NEW t \in Seq(S), Len(t) = k
    PROVE  /\ s \o t \in Seq(S) /\ Len(s \o t) = Len(s) + k
           /\ DOMAIN (s \o t) = 1 .. (Len(s) + k)
           /\ \A i \in 1 .. Len(s) : (s \o t)[i] = s[i]
           /\ \A i \in (Len(s) + 1) .. (Len(s) + k) : (s \o t)[i] = t[i - Len(s)]
OBVIOUS

\* What appending an item does to the wire.
LEMMA AppendItem ==
    ASSUME NEW S, NEW s \in Seq(S), NEW e \in S
    PROVE  /\ Append(s, e) \in Seq(S) /\ Len(Append(s, e)) = Len(s) + 1
           /\ DOMAIN Append(s, e) = 1 .. (Len(s) + 1)
           /\ \A i \in 1 .. Len(s) : Append(s, e)[i] = s[i]
           /\ Append(s, e)[Len(s) + 1] = e
OBVIOUS

\* What taking the first item does to the wire.
LEMMA TailItems ==
    ASSUME NEW S, NEW s \in Seq(S), s # << >>
    PROVE  /\ Tail(s) \in Seq(S) /\ Len(s) \in Nat \ {0} /\ Len(Tail(s)) = Len(s) - 1
           /\ DOMAIN Tail(s) = 1 .. (Len(s) - 1) /\ DOMAIN s = 1 .. Len(s)
           /\ \A i \in 1 .. (Len(s) - 1) : Tail(s)[i] = s[i + 1]
           /\ Head(s) = s[1] /\ s[1] \in S
OBVIOUS

-----------------------------------------------------------------------------
\* The cases of a step.
LEMMA Cases ==
    ASSUME Next
    PROVE  \/ SendOther \/ Close
           \/ \E w \in Writers : LockTx(w) \/ SealChunk(w)
           \/ \E w \in Writers, len \in 1 .. MaxLen : CallWrite(w, len)
           \/ \E r \in Readers : LockRx(r) \/ DecryptOne(r) \/ ReadEnd(r)
           \/ \E r \in Readers, size \in 1 .. MaxLen : ReturnPlain(r, size)
BY DEF Next

\* How a chunk that goes out changes the sender.
LEMMA SentChunk ==
    ASSUME TypeOK, NEW w \in Writers, NEW k \in Nat, k = Least(write[w].left, MaxChunk),
           ChunkSent(w, k)
    PROVE  /\ Record(txNonce, Len(sent) + 1, Len(sent) + k) \in Items
           /\ wire' = Append(wire, Record(txNonce, Len(sent) + 1, Len(sent) + k))
           /\ sent' \in Seq(Nat) /\ Len(sent') = Len(sent) + k /\ Len(sent) \in Nat
           /\ \A i \in 1 .. Len(sent) : sent'[i] = sent[i]
           /\ \A i \in (Len(sent) + 1) .. (Len(sent) + k) : sent'[i] = write[w].call
           /\ write' \in [Writers -> Writes]
           /\ \A v \in Writers : v # w => write'[v] = write[v]
           /\ \/ write'[w].step = "idle" /\ txLock' = Nobody
              \/ write'[w].step = "more" /\ write'[w].call = write[w].call /\ txLock' = w
<1>1. /\ write \in [Writers -> Writes] /\ write[w] \in Writes /\ sent \in Seq(Nat)
      /\ write[w].left \in Nat /\ write[w].call \in Nat /\ MaxChunk \in Nat
  BY NoiseConnAssumption DEF TypeOK, Writes
<1>2. k <= write[w].left
  BY <1>1, LeastType
<1>3. sent' = sent \o [i \in 1 .. k |-> write[w].call]
  BY DEF ChunkSent
<1>4. /\ [i \in 1 .. k |-> write[w].call] \in Seq(Nat)
      /\ Len([i \in 1 .. k |-> write[w].call]) = k
  BY <1>1
<1>5. /\ sent' \in Seq(Nat) /\ Len(sent') = Len(sent) + k /\ Len(sent) \in Nat
      /\ \A i \in 1 .. Len(sent) : sent'[i] = sent[i]
      /\ \A i \in (Len(sent) + 1) .. (Len(sent) + k) : sent'[i] = write[w].call
  BY <1>1, <1>3, <1>4
<1>6. Record(txNonce, Len(sent) + 1, Len(sent) + k) \in Items
  BY <1>5 DEF TypeOK, Record, Items
<1>7. CASE write[w].left = k
  <2>1. write' = [write EXCEPT ![w] = NoWrite] /\ txLock' = Nobody
    BY <1>1, <1>7 DEF ChunkSent
  <2>2. NoWrite \in Writes /\ NoWrite.step = "idle"
    BY DEF NoWrite, Writes
  <2> QED
    BY <1>1, <1>5, <1>6, <2>1, <2>2 DEF ChunkSent
<1>8. CASE write[w].left # k
  <2> DEFINE new == [step |-> "more", call |-> write[w].call, left |-> write[w].left - k]
  <2>1. txLock' = w
    BY <1>8 DEF ChunkSent
  <2>4. write' = [write EXCEPT ![w] = new]
    <3>1. write' = [write EXCEPT ![w] = IF write[w].left = k THEN NoWrite ELSE new]
      BY DEF ChunkSent
    <3> QED
      BY <1>8, <3>1
  <2>2. write[w].left - k \in Nat
    BY <1>1, <1>2
  <2>3. new \in Writes /\ new.step = "more" /\ new.call = write[w].call
    BY <1>1, <2>2 DEF Writes
  <2> HIDE DEF new
  <2> QED
    BY <1>1, <1>5, <1>6, <2>1, <2>3, <2>4 DEF ChunkSent
<1> QED
  BY <1>7, <1>8

\* How a chunk that fails changes the sender.
LEMMA FailedChunk ==
    ASSUME TypeOK, NEW w \in Writers, ChunkFails(w)
    PROVE  /\ UNCHANGED sent /\ txLock' = Nobody
           /\ write' \in [Writers -> Writes] /\ write'[w].step = "idle"
           /\ \A v \in Writers : v # w => write'[v] = write[v]
           /\ Empty("cut") \in Items
           /\ wire' = wire \/ (~closed /\ wire' = Append(wire, Empty("cut")))
           /\ fails' \in Nat /\ fails' >= fails
           /\ closed \/ fails' > 0
<1>1. /\ write \in [Writers -> Writes] /\ NoWrite \in Writes /\ NoWrite.step = "idle"
  BY DEF TypeOK, Writes, NoWrite
<1>2. Empty("cut") \in Items
  <2>1. Len(sent) \in Nat /\ 0 \in Nonces
    BY NoiseConnAssumption DEF TypeOK, Nonces
  <2> QED
    BY <2>1 DEF Empty, Items
<1> QED
  BY <1>1, <1>2 DEF ChunkFails, TypeOK

-----------------------------------------------------------------------------
\* Every step keeps the types.
LEMMA TypeStep == TypeOK /\ [Next]_vars => TypeOK'
<1> SUFFICES ASSUME TypeOK, [Next]_vars PROVE TypeOK'
  OBVIOUS
<1>t. wire \in Seq(Items) /\ write \in [Writers -> Writes]
  BY DEF TypeOK, Items, Writes
<1>1. CASE UNCHANGED vars
  BY <1>1 DEF vars, tx, rx, counters, seals, TypeOK
<1>2. CASE SendOther
  <2>1. Empty("other") \in Items
    <3>1. Len(sent) \in Nat /\ 0 \in Nonces
      BY NoiseConnAssumption DEF TypeOK, Nonces
    <3> QED
      BY <3>1 DEF Empty, Items
  <2>2. wire' \in Seq(Items)
    BY <1>2, <1>t, <2>1, AppendItem DEF SendOther
  <2> QED
    BY <1>2, <2>2 DEF SendOther, tx, rx, seals, TypeOK, Items
<1>3. CASE Close
  BY <1>3 DEF Close, tx, rx, counters, seals, TypeOK
<1>4. ASSUME NEW w \in Writers, LockTx(w) PROVE TypeOK'
  <2>1. write' \in [Writers -> Writes]
    <3>1. write[w] \in Writes
      BY <1>t
    <3>2. [write[w] EXCEPT !.step = "seal"] \in Writes /\ NoWrite \in Writes
      BY <3>1 DEF Writes, NoWrite
    <3> QED
      BY <1>4, <1>t, <3>2 DEF LockTx
  <2>2. txLock' \in Writers \cup {Nobody}
    BY <1>4 DEF LockTx, TypeOK
  <2> QED
    BY <1>4, <2>1, <2>2 DEF LockTx, rx, counters, seals, TypeOK, Writes
<1>5. ASSUME NEW w \in Writers, SealChunk(w) PROVE TypeOK'
  <2>1. txNonce' \in Nonces
    BY <1>5, Increments DEF SealChunk, TypeOK
  <2>2. /\ sealed' \subseteq Nonces /\ resealed' \in BOOLEAN /\ pastEnd' \in BOOLEAN
    BY <1>5 DEF SealChunk, SealNext, TypeOK
  <2>3. /\ wire' \in Seq(Items) /\ write' \in [Writers -> Writes]
        /\ sent' \in Seq(Nat) /\ txLock' \in Writers \cup {Nobody} /\ fails' \in Nat
    <3>1. CASE ChunkSent(w, Least(write[w].left, MaxChunk))
      <4> DEFINE k == Least(write[w].left, MaxChunk)
                 e == Record(txNonce, Len(sent) + 1, Len(sent) + k)
      <4>1. k \in Nat
        BY <1>t, LeastType, NoiseConnAssumption DEF Writes
      <4>2. fails' \in Nat
        BY <3>1 DEF ChunkSent, TypeOK
      <4>3. e \in Items /\ wire' = Append(wire, e)
        BY <3>1, <4>1, SentChunk
      <4>4. wire' \in Seq(Items)
        BY <1>t, <4>3
      <4>5. /\ write' \in [Writers -> Writes]
            /\ sent' \in Seq(Nat) /\ txLock' \in Writers \cup {Nobody}
        BY <3>1, <4>1, SentChunk
      <4> QED
        BY <4>2, <4>4, <4>5
    <3>2. CASE ChunkFails(w)
      <4>1. /\ Empty("cut") \in Items
            /\ wire' = wire \/ wire' = Append(wire, Empty("cut"))
            /\ UNCHANGED sent /\ txLock' = Nobody /\ write' \in [Writers -> Writes]
            /\ fails' \in Nat
        BY <3>2, FailedChunk
      <4>2. wire' \in Seq(Items)
        BY <1>t, <4>1
      <4> QED
        BY <4>1, <4>2 DEF TypeOK
    <3> QED
      BY <1>5, <3>1, <3>2 DEF SealChunk
  <2> QED
    BY <1>5, <2>1, <2>2, <2>3 DEF SealChunk, rx, TypeOK, Items, Writes
<1>6. ASSUME NEW w \in Writers, NEW len \in 1 .. MaxLen, CallWrite(w, len) PROVE TypeOK'
  <2>1. calls' \in Nat /\ len \in Nat
    BY <1>6, NoiseConnAssumption DEF CallWrite, TypeOK
  <2>2. write' \in [Writers -> Writes]
    BY <1>6, <1>t, <2>1 DEF CallWrite, Writes
  <2> QED
    BY <1>6, <2>1, <2>2 DEF CallWrite, rx, seals, TypeOK, Writes
<1>7. ASSUME NEW r \in Readers, LockRx(r) \/ ReadEnd(r) PROVE TypeOK'
  BY <1>7 DEF LockRx, ReadEnd, tx, counters, seals, TypeOK
<1>8. ASSUME NEW r \in Readers, DecryptOne(r) PROVE TypeOK'
  <2>1. wire # << >> /\ (wire' = Tail(wire) \/ (Len(wire) > 1 /\ wire' = Tail(Tail(wire))))
    BY <1>8 DEF DecryptOne, SkipOther, OpenCut, OpenRecord
  <2>2. wire' \in Seq(Items)
    <3>1. Tail(wire) \in Seq(Items) /\ Len(Tail(wire)) = Len(wire) - 1
      BY <1>t, <2>1, TailItems
    <3>2. Len(wire) > 1 => Tail(wire) # << >>
      <4>1. Len(wire) \in Nat /\ Len(<< >>) = 0
        BY <1>t
      <4>2. Len(wire) > 1 => Len(Tail(wire)) # 0
        BY <3>1, <4>1, SMTT(30)
      <4> QED
        BY <4>1, <4>2
    <3>3. Len(wire) > 1 => Tail(Tail(wire)) \in Seq(Items)
      BY <3>1, <3>2, TailItems
    <3> QED
      BY <2>1, <3>1, <3>3
  <2>3. rxNonce' \in Nonces
    BY <1>8, Increments DEF DecryptOne, SkipOther, OpenCut, OpenRecord, TypeOK
  <2>4. Head(wire) \in Items
    BY <1>t, <2>1
  <2>5. rxAlive' \in BOOLEAN /\ rxLock' \in Readers \cup {Nobody}
    BY <1>8 DEF DecryptOne, SkipOther, OpenCut, OpenRecord, Refuse, TypeOK
  <2>6. plain' \in [from : Nat, to : Nat]
    <3>1. [from |-> Head(wire).from, to |-> Head(wire).to] \in [from : Nat, to : Nat]
      BY <2>4 DEF Items
    <3>2. plain' = plain \/ plain' = [from |-> Head(wire).from, to |-> Head(wire).to]
      BY <1>8 DEF DecryptOne, SkipOther, OpenCut, OpenRecord, Refuse
    <3> QED
      BY <3>1, <3>2 DEF TypeOK
  <2> QED
    BY <1>8, <2>2, <2>3, <2>5, <2>6 DEF DecryptOne, tx, counters, seals, TypeOK, Items
<1>9. ASSUME NEW r \in Readers, NEW size \in 1 .. MaxLen, ReturnPlain(r, size) PROVE TypeOK'
  <2> DEFINE n == Least(size, plain.to - plain.from + 1)
  <2>1. plain.from \in Nat /\ plain.to \in Nat /\ plain.from <= plain.to
    BY <1>9 DEF ReturnPlain, TypeOK
  <2>2. n \in Nat
    <3>1. size \in Nat /\ plain.to - plain.from + 1 \in Nat
      BY <2>1, NoiseConnAssumption
    <3> QED
      BY <3>1, LeastType
  <2>3. [i \in 1 .. n |-> plain.from + i - 1] \in Seq(Nat)
    BY <2>1, <2>2
  <2> HIDE DEF n
  <2>4. got' \in Seq(Nat)
    BY <1>9, <2>3 DEF ReturnPlain, TypeOK, n
  <2>5. plain' \in [from : Nat, to : Nat]
    <3>1. plain' = [plain EXCEPT !.from = plain.from + n]
      BY <1>9 DEF ReturnPlain, TypeOK, n
    <3>2. plain.from + n \in Nat
      BY <2>1, <2>2
    <3> QED
      BY <3>1, <3>2 DEF TypeOK
  <2> QED
    BY <1>9, <2>4, <2>5 DEF ReturnPlain, tx, counters, seals, TypeOK
<1> QED
  BY <1>1, <1>2, <1>3, <1>4, <1>5, <1>6, <1>7, <1>8, <1>9, Cases

\* Nothing was called or sent.
LEMMA TypeInit == Init => TypeOK
<1> SUFFICES ASSUME Init PROVE TypeOK
  OBVIOUS
<1>1. 0 \in Nonces
  BY NoiseConnAssumption DEF Nonces
<1>2. NoWrite \in Writes /\ NoPlain \in [from : Nat, to : Nat]
  BY DEF NoWrite, NoPlain, Writes
<1>3. wire \in Seq(Items) /\ sent \in Seq(Nat) /\ got \in Seq(Nat)
  BY DEF Init
<1>4. write \in [Writers -> Writes]
  BY <1>2 DEF Init
<1> QED
  BY <1>1, <1>2, <1>3, <1>4 DEF Init, TypeOK, Writes, Items

(***************************************************************************)
(* NoiseConn.TypeOK: nonces stay in their range, and what is left of a     *)
(* Write, a record or a buffer is never less than nothing.                 *)
(***************************************************************************)
THEOREM TypeCorrect == Spec => []TypeOK
BY TypeInit, TypeStep, PTL DEF Spec

-----------------------------------------------------------------------------
(***************************************************************************)
(* The sender: a Write between its chunks, and no other, has the lock.     *)
(***************************************************************************)
LockInv == \A w \in Writers : write[w].step \in {"seal", "more"} <=> txLock = w

\* Nobody has the lock at the start.
LEMMA LockInit == Init => LockInv
<1> SUFFICES ASSUME Init, NEW w \in Writers
             PROVE  write[w].step \in {"seal", "more"} <=> txLock = w
  BY DEF LockInv
<1>1. write[w].step = "idle" /\ txLock = Nobody /\ w # Nobody
  BY NoiseConnAssumption DEF Init, NoWrite
<1> QED
  BY <1>1

\* The lock is taken when free, and given back when the Write is over.
LEMMA LockStep == TypeOK /\ LockInv /\ [Next]_vars => LockInv'
<1> SUFFICES ASSUME TypeOK, LockInv, [Next]_vars PROVE LockInv'
  OBVIOUS
<1>t. write \in [Writers -> Writes]
  BY DEF TypeOK, Writes
<1>1. CASE UNCHANGED <<txLock, write>>
  BY <1>1 DEF LockInv
<1>2. CASE SendOther \/ Close \/ UNCHANGED vars
  BY <1>1, <1>2 DEF SendOther, Close, tx, vars
<1>3. ASSUME NEW w \in Writers, NEW len \in 1 .. MaxLen, CallWrite(w, len) PROVE LockInv'
  BY <1>3, <1>t DEF CallWrite, LockInv
<1>4. ASSUME NEW w \in Writers, LockTx(w) PROVE LockInv'
  BY <1>4, <1>t, NoiseConnAssumption DEF LockTx, LockInv, NoWrite, Writes
<1>5. ASSUME NEW w \in Writers, SealChunk(w) PROVE LockInv'
  <2>1. txLock = w
    BY <1>5 DEF SealChunk, Sealing
  <2>2. /\ \A v \in Writers : v # w => write'[v] = write[v]
        /\ \/ write'[w].step = "idle" /\ txLock' = Nobody
           \/ write'[w].step = "more" /\ txLock' = w
    <3>1. Least(write[w].left, MaxChunk) \in Nat
      BY <1>t, LeastType, NoiseConnAssumption DEF Writes
    <3> QED
      BY <1>5, <3>1, SentChunk, FailedChunk DEF SealChunk
  <2> QED
    BY <2>1, <2>2, NoiseConnAssumption DEF LockInv
<1>6. ASSUME NEW r \in Readers, LockRx(r) \/ DecryptOne(r) \/ ReadEnd(r) PROVE LockInv'
  BY <1>1, <1>6 DEF LockRx, DecryptOne, ReadEnd, tx
<1>7. ASSUME NEW r \in Readers, NEW size \in 1 .. MaxLen, ReturnPlain(r, size) PROVE LockInv'
  BY <1>1, <1>7 DEF ReturnPlain, tx
<1> QED
  BY <1>2, <1>3, <1>4, <1>5, <1>6, <1>7, Cases

-----------------------------------------------------------------------------
(***************************************************************************)
(* NonceUnique rests on what a Write knows of the nonce: valid before its  *)
(* first chunk, as nobody else moves it while the Write has the lock; and  *)
(* all nonces used are smaller, as long as none past the end was.          *)
(***************************************************************************)
NonceInv ==
    /\ \A w \in Writers : write[w].step = "seal" => Valid(txNonce)
    /\ ~pastEnd => ~resealed /\ \A n \in sealed : n < txNonce

\* No nonce is used at the start.
LEMMA NonceInit == Init => NonceInv
BY DEF Init, NonceInv, NoWrite

\* The next nonce is larger than the last, unless a Write is past the end.
LEMMA NonceStep == TypeOK /\ LockInv /\ NonceInv /\ [Next]_vars => NonceInv'
<1> SUFFICES ASSUME TypeOK, LockInv, NonceInv, [Next]_vars PROVE NonceInv'
  OBVIOUS
<1>t. write \in [Writers -> Writes]
  BY DEF TypeOK, Writes
<1>1. CASE UNCHANGED <<txNonce, write, seals>>
  BY <1>1 DEF NonceInv, seals
<1>2. CASE SendOther \/ Close \/ UNCHANGED vars
  BY <1>1, <1>2 DEF SendOther, Close, tx, vars
<1>3. ASSUME NEW w \in Writers, NEW len \in 1 .. MaxLen, CallWrite(w, len) PROVE NonceInv'
  BY <1>3, <1>t DEF CallWrite, NonceInv, seals
<1>4. ASSUME NEW w \in Writers, LockTx(w) PROVE NonceInv'
  BY <1>4, <1>t DEF LockTx, NonceInv, NoWrite, seals
<1>5. ASSUME NEW w \in Writers, SealChunk(w) PROVE NonceInv'
  <2>1. txLock = w /\ write[w].step \in {"seal", "more"}
    BY <1>5 DEF SealChunk, Sealing
  <2>2. /\ \A v \in Writers : v # w => write'[v] = write[v]
        /\ write'[w].step \in {"idle", "more"}
    <3>1. Least(write[w].left, MaxChunk) \in Nat
      BY <1>t, LeastType, NoiseConnAssumption DEF Writes
    <3> QED
      BY <1>5, <3>1, SentChunk, FailedChunk DEF SealChunk
  <2>3. \A v \in Writers : write'[v].step # "seal"
    BY <2>1, <2>2 DEF LockInv
  <2>4. ASSUME ~pastEnd' PROVE ~resealed' /\ \A n \in sealed' : n < txNonce'
    <3>1. ~pastEnd /\ Valid(txNonce)
      BY <1>5, <2>1, <2>4 DEF SealChunk, SealNext, NonceInv
    <3>2. txNonce' = txNonce + 1 /\ txNonce \in Nat
      BY <1>5, <3>1, Increments DEF SealChunk, TypeOK, Nonces
    <3>3. \A n \in sealed : n \in Nat /\ n < txNonce
      BY <3>1 DEF NonceInv, TypeOK, Nonces
    <3>4. txNonce \notin sealed
      BY <3>2, <3>3
    <3>5. ~resealed'
      BY <1>5, <3>1, <3>4 DEF SealChunk, SealNext, NonceInv
    <3>6. sealed' = sealed \cup {txNonce}
      BY <1>5 DEF SealChunk, SealNext
    <3>7. ASSUME NEW n \in sealed' PROVE n < txNonce'
      BY <3>2, <3>3, <3>6, <3>7
    <3> QED
      BY <3>5, <3>7
  <2> QED
    BY <2>3, <2>4 DEF NonceInv
<1>6. ASSUME NEW r \in Readers, LockRx(r) \/ DecryptOne(r) \/ ReadEnd(r) PROVE NonceInv'
  BY <1>1, <1>6 DEF LockRx, DecryptOne, ReadEnd, tx
<1>7. ASSUME NEW r \in Readers, NEW size \in 1 .. MaxLen, ReturnPlain(r, size) PROVE NonceInv'
  BY <1>1, <1>7 DEF ReturnPlain, tx
<1> QED
  BY <1>2, <1>3, <1>4, <1>5, <1>6, <1>7, Cases

(***************************************************************************)
(* NoiseConn.NonceUnique: a nonce seals two chunks only after a Write that *)
(* began on a valid one went on past the last.                             *)
(***************************************************************************)
THEOREM NonceUniqueCorrect == Spec => []NonceUnique
<1>1. NonceInv => NonceUnique
  BY DEF NonceInv, NonceUnique
<1> QED
  BY <1>1, TypeInit, TypeStep, LockInit, LockStep, NonceInit, NonceStep, PTL DEF Spec

-----------------------------------------------------------------------------
(***************************************************************************)
(* WritesWhole rests on numbers: every call has its own, and what a Write  *)
(* under way has sent so far is the end of what was sent.                  *)
(***************************************************************************)
WholeInv ==
    /\ \A w \in Writers : write[w].step # "idle" => write[w].call \in 1 .. calls
    /\ \A v, w \in Writers :
          v # w /\ write[v].step # "idle" /\ write[w].step # "idle" =>
              write[v].call # write[w].call
    /\ \A i \in 1 .. Len(sent) : sent[i] \in 1 .. calls
    /\ \A w \in Writers, i \in 1 .. Len(sent) :
          write[w].step # "idle" /\ sent[i] = write[w].call =>
              /\ write[w].step = "more"
              /\ \A k \in i .. Len(sent) : sent[k] = write[w].call
    /\ WritesWhole

\* Nothing was called or sent.
LEMMA WholeInit == Init => WholeInv
<1> SUFFICES ASSUME Init PROVE WholeInv
  OBVIOUS
<1>1. Len(sent) = 0 /\ \A w \in Writers : write[w].step = "idle"
  BY DEF Init, NoWrite
<1> QED
  BY <1>1 DEF WholeInv, WritesWhole

\* A step that sends nothing and begins no Write.
LEMMA WholeFrame ==
    ASSUME WholeInv, UNCHANGED <<calls, sent>>,
           \A w \in Writers : \/ write'[w].step = "idle"
                              \/ /\ write[w].step # "idle" /\ write'[w].call = write[w].call
                                 /\ write[w].step = "more" => write'[w].step = "more"
    PROVE  WholeInv'
BY DEF WholeInv, WritesWhole

\* A Write goes on where it stopped, and a new one has a new number.
LEMMA WholeStep == TypeOK /\ LockInv /\ WholeInv /\ [Next]_vars => WholeInv'
<1> SUFFICES ASSUME TypeOK, LockInv, WholeInv, [Next]_vars PROVE WholeInv'
  OBVIOUS
<1>t. write \in [Writers -> Writes] /\ calls \in Nat
  BY DEF TypeOK, Writes
<1>1. CASE UNCHANGED <<write, calls, sent>>
  BY <1>1, WholeFrame
<1>2. CASE SendOther \/ Close \/ UNCHANGED vars
  BY <1>1, <1>2 DEF SendOther, Close, tx, counters, vars
<1>3. ASSUME NEW w \in Writers, NEW len \in 1 .. MaxLen, CallWrite(w, len) PROVE WholeInv'
  <2>1. /\ calls' = calls + 1 /\ UNCHANGED sent
        /\ write'[w].step = "wait" /\ write'[w].call = calls + 1
        /\ \A v \in Writers : v # w => write'[v] = write[v]
    BY <1>3, <1>t DEF CallWrite
  <2>2. \A i \in 1 .. Len(sent) : sent[i] \in 1 .. calls /\ sent[i] # calls + 1
    BY <1>t DEF WholeInv
  <2>3. \A v \in Writers : write[v].step # "idle" =>
            write[v].call \in 1 .. calls /\ write[v].call # calls + 1
    BY <1>t DEF WholeInv
  <2>4. \A c \in 1 .. calls : c \in 1 .. calls'
    BY <1>t, <2>1
  <2>5. calls + 1 \in 1 .. calls'
    BY <1>t, <2>1
  <2>6. WritesWhole' /\ \A i \in 1 .. Len(sent') : sent'[i] \in 1 .. calls'
    <3>1. WritesWhole'
      <4>1. WritesWhole
        BY DEF WholeInv
      <4> QED
        BY <2>1, <4>1 DEF WritesWhole
    <3>2. \A i \in 1 .. Len(sent') : sent'[i] \in 1 .. calls'
      BY <2>1, <2>2, <2>4
    <3> QED
      BY <3>1, <3>2
  <2>7. \A v \in Writers : write'[v].step # "idle" => write'[v].call \in 1 .. calls'
    BY <2>1, <2>3, <2>4, <2>5
  <2>8. \A v, u \in Writers :
           v # u /\ write'[v].step # "idle" /\ write'[u].step # "idle" =>
               write'[v].call # write'[u].call
    BY <2>1, <2>3 DEF WholeInv
  <2>9. ASSUME NEW v \in Writers, NEW i \in 1 .. Len(sent),
               write'[v].step # "idle", sent[i] = write'[v].call
        PROVE  /\ write'[v].step = "more"
               /\ \A k \in i .. Len(sent) : sent[k] = write'[v].call
    <3>1. v # w
      BY <2>1, <2>2, <2>9
    <3> QED
      BY <2>1, <2>9, <3>1 DEF WholeInv
  <2> QED
    BY <2>1, <2>6, <2>7, <2>8, <2>9 DEF WholeInv
<1>4. ASSUME NEW w \in Writers, LockTx(w) PROVE WholeInv'
  <2>1. \A v \in Writers : \/ write'[v].step = "idle"
                            \/ /\ write[v].step # "idle" /\ write'[v].call = write[v].call
                               /\ write[v].step = "more" => write'[v].step = "more"
    <3>1. /\ write[w].step = "wait"
          /\ \A v \in Writers : v # w => write'[v] = write[v]
      BY <1>4, <1>t DEF LockTx
    <3>2. \/ write'[w] = NoWrite
          \/ write'[w] = [write[w] EXCEPT !.step = "seal"]
      BY <1>4, <1>t DEF LockTx
    <3>3. write[w] \in Writes /\ NoWrite.step = "idle"
      BY <1>t DEF NoWrite
    <3>4. \/ write'[w].step = "idle"
          \/ write'[w].call = write[w].call
      BY <3>2, <3>3 DEF Writes
    <3> QED
      BY <3>1, <3>4
  <2>2. UNCHANGED <<calls, sent>>
    BY <1>4 DEF LockTx, counters
  <2> QED
    BY <2>1, <2>2, WholeFrame
<1>5. ASSUME NEW w \in Writers, SealChunk(w) PROVE WholeInv'
  <2> DEFINE k == Least(write[w].left, MaxChunk)
  <2>1. k \in Nat
    BY <1>t, LeastType, NoiseConnAssumption DEF Writes
  <2>2. txLock = w /\ write[w].step \in {"seal", "more"} /\ UNCHANGED calls
    BY <1>5 DEF SealChunk, Sealing
  <2>3. CASE ChunkFails(w)
    BY <2>2, <2>3, FailedChunk, WholeFrame
  <2>4. CASE ChunkSent(w, k)
    <3> DEFINE c == write[w].call
               n == Len(sent)
    <3>1. /\ sent' \in Seq(Nat) /\ Len(sent') = n + k /\ n \in Nat
          /\ \A i \in 1 .. n : sent'[i] = sent[i]
          /\ \A i \in (n + 1) .. (n + k) : sent'[i] = c
          /\ \A v \in Writers : v # w => write'[v] = write[v]
          /\ \/ write'[w].step = "idle"
             \/ write'[w].step = "more" /\ write'[w].call = c
      BY <2>1, <2>4, SentChunk
    <3>2. c \in 1 .. calls
      BY <2>2 DEF WholeInv
    <3>3. \A i \in 1 .. n : sent[i] = c => \A j \in i .. n : sent[j] = c
      BY <2>2 DEF WholeInv
    <3>4. \A i \in 1 .. (n + k) : i \in 1 .. n \/ i \in (n + 1) .. (n + k)
      BY <2>1, <3>1
    <3>5. \A v \in Writers : v # w /\ write[v].step # "idle" =>
              /\ write[v].call # c /\ \A i \in 1 .. n : sent[i] # write[v].call
      BY <2>2 DEF WholeInv, LockInv
    <3> HIDE DEF k, c, n
    <3>6. \A i \in 1 .. (n + k) : sent'[i] = c => \A j \in i .. (n + k) : sent'[j] = c
      <4> SUFFICES ASSUME NEW i \in 1 .. (n + k), sent'[i] = c, NEW j \in i .. (n + k)
                   PROVE  sent'[j] = c
        OBVIOUS
      <4>1. CASE j \in (n + 1) .. (n + k)
        BY <3>1, <4>1
      <4>2. CASE j \in 1 .. n
        <5>1. i \in 1 .. n /\ j \in i .. n
          BY <2>1, <3>1, <4>2
        <5> QED
          BY <3>1, <3>3, <4>2, <5>1
      <4>3. j \in 1 .. (n + k)
        BY <2>1, <3>1
      <4> QED
        BY <3>4, <4>1, <4>2, <4>3
    <3>7. \A i \in 1 .. (n + k) : sent'[i] \in 1 .. calls
      BY <3>1, <3>2, <3>4 DEF WholeInv, n
    <3>8. WritesWhole'
      <4> SUFFICES ASSUME NEW i \in 1 .. (n + k), NEW j \in 1 .. (n + k), i < j,
                          sent'[i] = sent'[j], NEW l \in i .. j
                   PROVE  sent'[l] = sent'[i]
        BY <3>1 DEF WritesWhole
      <4>1. CASE sent'[i] = c
        <5>1. l \in i .. (n + k)
          BY <2>1, <3>1
        <5> QED
          BY <3>6, <4>1, <5>1
      <4>2. CASE sent'[i] # c
        <5>1. i \in 1 .. n /\ j \in 1 .. n
          BY <3>1, <3>4, <4>2
        <5>2. l \in 1 .. n
          BY <3>1, <5>1
        <5>3. sent[l] = sent[i]
          BY <3>1, <5>1 DEF WholeInv, WritesWhole, n
        <5> QED
          BY <3>1, <5>1, <5>2, <5>3
      <4> QED
        BY <4>1, <4>2
    <3>9. \A v \in Writers, i \in 1 .. (n + k) :
             write'[v].step # "idle" /\ sent'[i] = write'[v].call =>
                 /\ write'[v].step = "more"
                 /\ \A j \in i .. (n + k) : sent'[j] = write'[v].call
      <4> SUFFICES ASSUME NEW v \in Writers, NEW i \in 1 .. (n + k),
                          write'[v].step # "idle", sent'[i] = write'[v].call
                   PROVE  /\ write'[v].step = "more"
                          /\ \A j \in i .. (n + k) : sent'[j] = write'[v].call
        OBVIOUS
      <4>1. CASE v = w
        BY <3>1, <3>6, <4>1
      <4>2. CASE v # w
        <5>1. write[v].step # "idle" /\ sent'[i] = write[v].call
          BY <3>1, <4>2
        <5>2. sent'[i] # write[v].call
          BY <3>1, <3>4, <3>5, <4>2, <5>1
        <5> QED
          BY <5>1, <5>2
      <4> QED
        BY <4>1, <4>2
    <3>10. \A v \in Writers : write'[v].step # "idle" => write'[v].call \in 1 .. calls
      BY <3>1, <3>2 DEF WholeInv
    <3>11. \A v, u \in Writers :
              v # u /\ write'[v].step # "idle" /\ write'[u].step # "idle" =>
                  write'[v].call # write'[u].call
      BY <2>2, <3>1 DEF WholeInv, c
    <3> QED
      BY <2>2, <3>1, <3>7, <3>8, <3>9, <3>10, <3>11 DEF WholeInv
  <2> QED
    BY <1>5, <2>3, <2>4 DEF SealChunk
<1>6. ASSUME NEW r \in Readers, LockRx(r) \/ DecryptOne(r) \/ ReadEnd(r) PROVE WholeInv'
  BY <1>1, <1>6 DEF LockRx, DecryptOne, ReadEnd, tx, counters
<1>7. ASSUME NEW r \in Readers, NEW size \in 1 .. MaxLen, ReturnPlain(r, size) PROVE WholeInv'
  BY <1>1, <1>7 DEF ReturnPlain, tx, counters
<1> QED
  BY <1>2, <1>3, <1>4, <1>5, <1>6, <1>7, Cases

(***************************************************************************)
(* NoiseConn.WritesWhole: what one Write sends is not mixed with what      *)
(* another sends, for any number of writers and chunks.                    *)
(***************************************************************************)
THEOREM WritesWholeCorrect == Spec => []WritesWhole
<1>1. WholeInv => WritesWhole
  BY DEF WholeInv
<1> QED
  BY <1>1, TypeInit, TypeStep, LockInit, LockStep, WholeInit, WholeStep, PTL DEF Spec

-----------------------------------------------------------------------------
(***************************************************************************)
(* InOrder: the items of the wire cover the units up to the last that was  *)
(* sent, one after the other; what was read and what waits in plain is     *)
(* what came before them, as long as the receiver can read on.  A record   *)
(* that it leaves out takes away its cipher or finds it out of nonces, and *)
(* neither comes back.                                                     *)
(***************************************************************************)
Covers(s, n) ==
    /\ \A j \in 1 .. Len(s) :
          /\ s[j].from <= s[j].to + 1 /\ s[j].to <= n
          /\ s[j].type # "record" => s[j].from = s[j].to + 1
    /\ \A j \in 1 .. (Len(s) - 1) : s[j + 1].from = s[j].to + 1
    /\ s # << >> => s[Len(s)].to = n

First(s, n) == IF s = << >> THEN n + 1 ELSE s[1].from

OrderInv ==
    /\ Covers(wire, Len(sent))
    /\ \A i \in 1 .. Len(got) : got[i] = i
    /\ plain.from = Len(got) + 1 /\ plain.from <= plain.to + 1 /\ plain.to <= Len(sent)
    /\ rxLock # Nobody => rxAlive
    /\ rxAlive /\ Valid(rxNonce) => First(wire, Len(sent)) = plain.to + 1

\* A new item covers what is new.
LEMMA CoversAppend ==
    ASSUME NEW s \in Seq(Items), NEW n \in Nat, NEW m \in Nat, n <= m, Covers(s, n),
           NEW e \in Items, e.from = n + 1, e.to = m, e.type # "record" => m = n
    PROVE  Covers(Append(s, e), m) /\ First(Append(s, e), m) = First(s, n)
<1> DEFINE t == Append(s, e)
<1>1. /\ Len(t) = Len(s) + 1 /\ Len(s) \in Nat /\ t[Len(s) + 1] = e
      /\ \A i \in 1 .. Len(s) : t[i] = s[i] /\ s[i] \in Items
      /\ t # << >> /\ (s = << >> <=> Len(s) = 0)
  OBVIOUS
<1> HIDE DEF t
<1>2. \A j \in 1 .. Len(t) : j \in 1 .. Len(s) \/ j = Len(s) + 1
  BY <1>1
<1>3. ASSUME NEW j \in 1 .. Len(t)
      PROVE  /\ t[j].from <= t[j].to + 1 /\ t[j].to <= m
             /\ t[j].type # "record" => t[j].from = t[j].to + 1
  <2>1. CASE j \in 1 .. Len(s)
    <3>1. s[j].to \in Nat /\ s[j].to <= n
      BY <1>1, <2>1 DEF Covers, Items
    <3> QED
      BY <1>1, <2>1, <3>1 DEF Covers
  <2>2. CASE j = Len(s) + 1
    BY <1>1, <2>2
  <2> QED
    BY <1>2, <2>1, <2>2
<1>4. ASSUME NEW j \in 1 .. (Len(t) - 1)
      PROVE  t[j + 1].from = t[j].to + 1
  <2>1. CASE j \in 1 .. (Len(s) - 1)
    <3>1. j \in 1 .. Len(s) /\ j + 1 \in 1 .. Len(s)
      BY <1>1, <2>1
    <3> QED
      BY <1>1, <2>1, <3>1 DEF Covers
  <2>2. CASE j = Len(s)
    <3>1. Len(s) \in 1 .. Len(s) /\ s # << >>
      BY <1>1, <2>2
    <3> QED
      BY <1>1, <2>2, <3>1 DEF Covers
  <2> QED
    BY <1>1, <2>1, <2>2
<1>5. First(t, m) = First(s, n)
  <2>1. CASE s = << >>
    BY <1>1, <2>1 DEF First
  <2>2. CASE s # << >>
    <3>1. 1 \in 1 .. Len(s)
      BY <1>1, <2>2
    <3> QED
      BY <1>1, <2>2, <3>1 DEF First
  <2> QED
    BY <2>1, <2>2
<1> QED
  BY <1>1, <1>3, <1>4, <1>5 DEF Covers, t

\* The rest goes on where the first item ends.
LEMMA CoversTail ==
    ASSUME NEW s \in Seq(Items), NEW n \in Nat, Covers(s, n), s # << >>
    PROVE  /\ Tail(s) \in Seq(Items) /\ Covers(Tail(s), n)
           /\ First(Tail(s), n) = s[1].to + 1
<1> DEFINE t == Tail(s)
<1>1. /\ t \in Seq(Items) /\ Len(s) \in Nat \ {0} /\ Len(t) = Len(s) - 1
      /\ \A i \in 1 .. (Len(s) - 1) : t[i] = s[i + 1]
  BY TailItems
<1>2. t = << >> <=> Len(t) = 0
  BY <1>1
<1> HIDE DEF t
<1>3. \A j \in 1 .. Len(t) : j + 1 \in 1 .. Len(s) /\ t[j] = s[j + 1]
  BY <1>1
<1>4. \A j \in 1 .. (Len(t) - 1) : j + 1 \in 1 .. Len(t) /\ j \in 1 .. Len(t) /\ j + 1 \in 1 .. (Len(s) - 1)
  BY <1>1
<1>5. t # << >> => Len(t) \in 1 .. Len(t) /\ Len(t) + 1 = Len(s)
  BY <1>1, <1>2
<1>6. Covers(t, n)
  BY <1>3, <1>4, <1>5 DEF Covers
<1>7. First(t, n) = s[1].to + 1
  <2>1. CASE t = << >>
    <3>1. Len(s) = 1
      BY <1>1, <1>2, <2>1
    <3> QED
      BY <2>1, <3>1 DEF First, Covers
  <2>2. CASE t # << >>
    <3>1. 1 \in 1 .. (Len(s) - 1) /\ 1 \in 1 .. Len(t)
      BY <1>1, <1>2, <2>2
    <3> QED
      BY <1>3, <2>2, <3>1 DEF First, Covers
  <2> QED
    BY <2>1, <2>2
<1> QED
  BY <1>1, <1>6, <1>7 DEF t

\* Nothing was sent.
LEMMA OrderInit == Init => OrderInv
<1> SUFFICES ASSUME Init PROVE OrderInv
  OBVIOUS
<1>1. wire = << >> /\ Len(sent) = 0 /\ Len(got) = 0 /\ Len(wire) = 0
  BY DEF Init
<1>2. Covers(wire, 0) /\ First(wire, 0) = 1
  BY <1>1 DEF Covers, First
<1>3. plain.from = 1 /\ plain.to = 0 /\ rxAlive
  BY DEF Init, NoPlain
<1> QED
  BY <1>1, <1>2, <1>3 DEF OrderInv

\* A step of the sender: nothing, or one more item.
LEMMA OrderSender ==
    ASSUME TypeOK, OrderInv, UNCHANGED rx,
           \/ UNCHANGED <<wire, sent>>
           \/ \E e \in Items :
                 /\ wire' = Append(wire, e) /\ e.from = Len(sent) + 1 /\ e.to = Len(sent')
                 /\ e.type # "record" => Len(sent') = Len(sent)
                 /\ Len(sent') \in Nat /\ Len(sent) <= Len(sent')
    PROVE  OrderInv'
<1>1. CASE UNCHANGED <<wire, sent>>
  BY <1>1 DEF OrderInv, rx
<1>2. ASSUME NEW e \in Items,
             wire' = Append(wire, e), e.from = Len(sent) + 1, e.to = Len(sent'),
             e.type # "record" => Len(sent') = Len(sent),
             Len(sent') \in Nat, Len(sent) <= Len(sent')
      PROVE  OrderInv'
  <2>1. wire \in Seq(Items) /\ Len(sent) \in Nat /\ plain.to \in Nat
    BY DEF TypeOK, Items
  <2>2. Covers(wire', Len(sent')) /\ First(wire', Len(sent')) = First(wire, Len(sent))
    BY <1>2, <2>1, CoversAppend DEF OrderInv
  <2> QED
    BY <1>2, <2>1, <2>2 DEF OrderInv, rx
<1> QED
  BY <1>1, <1>2

\* A step of the receiver that takes an item: it is read, it is empty, or
\* nothing can be read any more.
LEMMA OrderDecrypt ==
    ASSUME TypeOK, OrderInv, NEW r \in Readers, DecryptOne(r)
    PROVE  OrderInv'
<1> DEFINE n == Len(sent)
<1>1. /\ wire \in Seq(Items) /\ n \in Nat /\ wire # << >> /\ n' = n /\ got' = got
      /\ plain.from \in Nat /\ plain.to \in Nat /\ Len(got) \in Nat
      /\ plain.to + 1 = plain.from /\ rxLock = r /\ rxAlive /\ r # Nobody
  <2>1. rxLock = r /\ r # Nobody /\ wire # << >> /\ plain.from > plain.to /\ UNCHANGED <<got, sent>>
    BY NoiseConnAssumption DEF DecryptOne
  <2>2. plain.from \in Nat /\ plain.to \in Nat /\ wire \in Seq(Items) /\ n \in Nat /\ Len(got) \in Nat
    BY DEF TypeOK, Items
  <2> QED
    BY <2>1, <2>2 DEF OrderInv
<1>2. Head(wire) = wire[1] /\ wire[1] \in Items /\ 1 \in 1 .. Len(wire)
  BY <1>1, TailItems
<1>3. /\ Tail(wire) \in Seq(Items) /\ Covers(Tail(wire), n)
      /\ First(Tail(wire), n) = wire[1].to + 1 /\ First(wire, n) = wire[1].from
  BY <1>1, CoversTail DEF OrderInv, First
<1>4. wire[1].from <= wire[1].to + 1 /\ wire[1].to <= n
      /\ (wire[1].type # "record" => wire[1].from = wire[1].to + 1)
  BY <1>2 DEF OrderInv, Covers
<1> HIDE DEF n
<1>5. CASE SkipOther
  <2>1. /\ wire' = Tail(wire) /\ plain' = plain /\ rxAlive' /\ rxNonce' = rxNonce
        /\ wire[1].type = "other" /\ rxLock' = Nobody
    BY <1>2, <1>5 DEF SkipOther, Refuse
  <2>2. Valid(rxNonce) => First(wire', n) = plain.to + 1
    BY <1>1, <1>3, <1>4, <2>1 DEF OrderInv, n
  <2> QED
    BY <1>1, <1>3, <2>1, <2>2 DEF OrderInv, n, Valid
<1>6. CASE OpenCut
  <2>1. /\ wire' = Tail(Tail(wire)) /\ Len(wire) > 1 /\ plain' = plain /\ rxLock' = Nobody
        /\ ~rxAlive' \/ ~Valid(rxNonce')
    BY <1>6 DEF OpenCut, Refuse, Valid
  <2>2. Tail(wire) # << >>
    <3>1. Tail(wire) \in Seq(Items) /\ Len(Tail(wire)) = Len(wire) - 1
      BY <1>1, TailItems
    <3>2. Len(wire) \in Nat /\ Len(<< >>) = 0
      BY <1>1
    <3>3. Len(wire) > 1 => Len(Tail(wire)) # 0
      BY <3>1, <3>2
    <3> QED
      BY <2>1, <3>2, <3>3
  <2>3. Covers(wire', n)
    BY <1>1, <1>3, <2>1, <2>2, CoversTail
  <2> QED
    BY <1>1, <2>1, <2>3 DEF OrderInv, n
<1>7. CASE OpenRecord
  <2>1. wire' = Tail(wire) /\ wire[1].type = "record"
    BY <1>2, <1>7 DEF OpenRecord
  <2>2. CASE /\ Valid(rxNonce) /\ plain' = [from |-> wire[1].from, to |-> wire[1].to]
             /\ UNCHANGED <<rxLock, rxAlive>>
    <3>1. plain'.from = wire[1].from /\ plain'.to = wire[1].to
      BY <2>2
    <3>2. wire[1].from = plain.to + 1
      BY <1>1, <1>3, <2>2 DEF OrderInv, n
    <3>3. plain'.from = Len(got) + 1
      BY <1>1, <3>1, <3>2 DEF OrderInv
    <3> QED
      BY <1>1, <1>3, <1>4, <2>1, <2>2, <3>1, <3>3 DEF OrderInv, n
  <2>3. CASE plain' = plain /\ rxLock' = Nobody /\ (~rxAlive' \/ ~Valid(rxNonce'))
    BY <1>1, <1>3, <2>1, <2>3 DEF OrderInv, n
  <2> QED
    BY <1>2, <1>7, <2>2, <2>3 DEF OpenRecord, Refuse, Valid
<1> QED
  BY <1>5, <1>6, <1>7 DEF DecryptOne

\* A Read takes from plain what comes next.
LEMMA OrderReturn ==
    ASSUME TypeOK, OrderInv, NEW r \in Readers, NEW size \in 1 .. MaxLen, ReturnPlain(r, size)
    PROVE  OrderInv'
<1> DEFINE n == Least(size, plain.to - plain.from + 1)
           t == [i \in 1 .. n |-> plain.from + i - 1]
<1>1. /\ plain.from \in Nat /\ plain.to \in Nat /\ plain.from <= plain.to
      /\ plain.from = Len(got) + 1 /\ got \in Seq(Nat) /\ Len(got) \in Nat
      /\ Len(sent) \in Nat
  <2>1. /\ plain.from \in Nat /\ plain.to \in Nat /\ got \in Seq(Nat) /\ Len(got) \in Nat
        /\ Len(sent) \in Nat
    BY DEF TypeOK
  <2> QED
    BY <2>1 DEF ReturnPlain, OrderInv
<1>2. size \in Nat /\ plain.to - plain.from + 1 \in Nat
  BY <1>1, NoiseConnAssumption
<1>3. n \in Nat /\ n <= plain.to - plain.from + 1
  BY <1>2, LeastType
<1>4. t \in Seq(Nat) /\ Len(t) = n /\ \A i \in 1 .. n : t[i] = Len(got) + i
  <2>1. \A i \in 1 .. n : plain.from + i - 1 \in Nat /\ plain.from + i - 1 = Len(got) + i
    BY <1>1, <1>3
  <2>2. t \in Seq(Nat) /\ Len(t) = n
    BY <1>3, <2>1
  <2> QED
    BY <2>1, <2>2
<1>5. got' = got \o t /\ plain' = [plain EXCEPT !.from = plain.from + n]
      /\ UNCHANGED <<wire, sent, rxNonce, rxAlive>> /\ rxLock' = Nobody
  BY DEF ReturnPlain, TypeOK
<1> HIDE DEF n, t
<1>6. /\ Len(got') = Len(got) + n
      /\ \A i \in 1 .. Len(got) : got'[i] = got[i]
      /\ \A i \in (Len(got) + 1) .. (Len(got) + n) : got'[i] = t[i - Len(got)]
  BY <1>1, <1>3, <1>4, <1>5, AppendRun, SMTT(30)
<1>7. ASSUME NEW i \in 1 .. Len(got') PROVE got'[i] = i
  <2>1. CASE i \in 1 .. Len(got)
    BY <1>6, <2>1 DEF OrderInv
  <2>2. CASE i \in (Len(got) + 1) .. (Len(got) + n)
    <3>1. i - Len(got) \in 1 .. n /\ Len(got) + (i - Len(got)) = i
      BY <1>1, <1>3, <2>2
    <3> QED
      BY <1>4, <1>6, <2>2, <3>1
  <2> QED
    BY <1>1, <1>3, <1>6, <2>1, <2>2
<1>8. plain'.from = plain.from + n /\ plain'.to = plain.to
  BY <1>5 DEF TypeOK
<1>9. /\ plain'.from = Len(got') + 1 /\ plain'.from <= plain'.to + 1 /\ plain'.to <= Len(sent)
  BY <1>1, <1>3, <1>6, <1>8 DEF OrderInv
<1> QED
  BY <1>5, <1>7, <1>8, <1>9 DEF OrderInv

\* Every step keeps OrderInv.
LEMMA OrderStep == TypeOK /\ OrderInv /\ [Next]_vars => OrderInv'
<1> SUFFICES ASSUME TypeOK, OrderInv, [Next]_vars PROVE OrderInv'
  OBVIOUS
<1>s. Len(sent) \in Nat /\ write \in [Writers -> Writes]
  BY DEF TypeOK, Writes
<1>c. \A type \in {"other", "cut"} :
         /\ Empty(type).from = Len(sent) + 1 /\ Empty(type).to = Len(sent)
         /\ Empty(type).type # "record" /\ Empty(type) \in Items
  <2>1. 0 \in Nonces
    BY NoiseConnAssumption DEF Nonces
  <2> QED
    BY <1>s, <2>1 DEF Empty, Items
<1>1. CASE UNCHANGED vars
  BY <1>1 DEF vars, rx, OrderInv
<1>2. CASE SendOther
  <2>1. wire' = Append(wire, Empty("other")) /\ UNCHANGED <<rx, sent>>
    BY <1>2 DEF SendOther
  <2> QED
    BY <1>c, <1>s, <2>1, OrderSender
<1>3. CASE Close
  BY <1>3, OrderSender DEF Close
<1>4. ASSUME NEW w \in Writers, LockTx(w) PROVE OrderInv'
  BY <1>4, OrderSender DEF LockTx
<1>5. ASSUME NEW w \in Writers, SealChunk(w) PROVE OrderInv'
  <2> DEFINE k == Least(write[w].left, MaxChunk)
  <2>0. k \in Nat /\ UNCHANGED rx
    BY <1>5, <1>s, LeastType, NoiseConnAssumption DEF Writes, SealChunk
  <2>1. CASE ChunkSent(w, k)
    <3> DEFINE e == Record(txNonce, Len(sent) + 1, Len(sent) + k)
    <3>1. e \in Items /\ wire' = Append(wire, e) /\ Len(sent') = Len(sent) + k
      BY <2>0, <2>1, SentChunk
    <3>2. e.from = Len(sent) + 1 /\ e.to = Len(sent) + k /\ e.type = "record"
      BY DEF Record
    <3> HIDE DEF e, k
    <3> QED
      BY <1>s, <2>0, <3>1, <3>2, OrderSender
  <2>2. CASE ChunkFails(w)
    <3>1. UNCHANGED sent /\ (wire' = wire \/ wire' = Append(wire, Empty("cut")))
      BY <2>2, FailedChunk
    <3> QED
      BY <1>c, <1>s, <2>0, <3>1, OrderSender
  <2> QED
    BY <1>5, <2>1, <2>2 DEF SealChunk
<1>6. ASSUME NEW w \in Writers, NEW len \in 1 .. MaxLen, CallWrite(w, len) PROVE OrderInv'
  BY <1>6, OrderSender DEF CallWrite
<1>7. ASSUME NEW r \in Readers, LockRx(r) \/ ReadEnd(r) PROVE OrderInv'
  BY <1>7 DEF LockRx, ReadEnd, OrderInv
<1>8. ASSUME NEW r \in Readers, DecryptOne(r) PROVE OrderInv'
  BY <1>8, OrderDecrypt
<1>9. ASSUME NEW r \in Readers, NEW size \in 1 .. MaxLen, ReturnPlain(r, size) PROVE OrderInv'
  BY <1>9, OrderReturn
<1> QED
  BY <1>1, <1>2, <1>3, <1>4, <1>5, <1>6, <1>7, <1>8, <1>9, Cases

(***************************************************************************)
(* NoiseConn.InOrder: what was read is a prefix of what was written, with  *)
(* any chunks, buffers, readers, other messages and failures, also when    *)
(* nonces run out or come again.                                           *)
(***************************************************************************)
THEOREM InOrderCorrect == Spec => []InOrder
<1>1. TypeOK /\ OrderInv => InOrder
  <2> SUFFICES ASSUME TypeOK, OrderInv PROVE InOrder
    OBVIOUS
  <2>1. Len(got) \in Nat /\ Len(sent) \in Nat /\ plain.to \in Nat
    BY DEF TypeOK
  <2>2. Len(got) <= Len(sent)
    BY <2>1 DEF OrderInv
  <2> QED
    BY <2>2 DEF OrderInv, InOrder
<1> QED
  BY <1>1, TypeInit, TypeStep, OrderInit, OrderStep, PTL DEF Spec

-----------------------------------------------------------------------------
(***************************************************************************)
(* DiesOnlyAfterFailure: without a failed write the records of the wire,   *)
(* whatever is between them, bear nonces that follow one another: from the *)
(* receiver's, if it has any left, to the sender's, until Close.           *)
(***************************************************************************)
Rec(s, i) == s[i].type = "record"
NoRec(s) == \A i \in 1 .. Len(s) : ~Rec(s, i)

Chain(s) ==
    /\ \A i \in 1 .. Len(s) : s[i].type # "cut"
    /\ \A i, j \in 1 .. Len(s) :
          i < j /\ Rec(s, i) /\ Rec(s, j) /\ (\A k \in (i + 1) .. (j - 1) : ~Rec(s, k)) =>
              s[j].nonce = Increment(s[i].nonce)
Starts(s, n) ==
    \A j \in 1 .. Len(s) : Rec(s, j) /\ (\A k \in 1 .. (j - 1) : ~Rec(s, k)) => s[j].nonce = n
Ends(s, n) ==
    \A j \in 1 .. Len(s) :
        Rec(s, j) /\ (\A k \in (j + 1) .. Len(s) : ~Rec(s, k)) => n = Increment(s[j].nonce)

DieInv ==
    fails = 0 =>
        /\ rxAlive /\ Chain(wire)
        /\ Valid(rxNonce) => Starts(wire, rxNonce)
        /\ ~closed => Ends(wire, txNonce)
        /\ ~closed /\ Valid(rxNonce) /\ NoRec(wire) => txNonce = rxNonce

\* One more item: a record under the next nonce, or another message.
LEMMA ChainAppend ==
    ASSUME NEW s \in Seq(Items), NEW e \in Items, NEW n, NEW m, Chain(s), Ends(s, n),
           e.type # "cut", e.type = "record" => e.nonce = n
    PROVE  /\ Chain(Append(s, e))
           /\ e.type = "record" => Ends(Append(s, e), Increment(n)) /\ ~NoRec(Append(s, e))
           /\ e.type # "record" => Ends(Append(s, e), n) /\ (NoRec(Append(s, e)) => NoRec(s))
           /\ Starts(s, m) /\ (NoRec(s) => n = m) => Starts(Append(s, e), m)
<1> DEFINE t == Append(s, e)
           l == Len(s)
<1>1. /\ Len(t) = l + 1 /\ l \in Nat /\ t[l + 1] = e
      /\ \A i \in 1 .. l : t[i] = s[i]
  OBVIOUS
<1> HIDE DEF t
<1>2. \A j \in 1 .. Len(t) : j \in 1 .. l \/ j = l + 1
  BY <1>1
<1>3. \A i \in 1 .. l : (Rec(t, i) <=> Rec(s, i)) /\ i \in 1 .. Len(t)
  BY <1>1 DEF Rec
<1>4. Rec(t, l + 1) <=> e.type = "record"
  BY <1>1 DEF Rec
<1>5. Chain(t)
  <2>1. \A i \in 1 .. Len(t) : t[i].type # "cut"
    BY <1>1, <1>2 DEF Chain
  <2>2. ASSUME NEW i \in 1 .. Len(t), NEW j \in 1 .. Len(t), i < j, Rec(t, i), Rec(t, j),
               \A k \in (i + 1) .. (j - 1) : ~Rec(t, k)
        PROVE  t[j].nonce = Increment(t[i].nonce)
    <3>1. i \in 1 .. l
      BY <1>1, <2>2
    <3>2. CASE j \in 1 .. l
      <4>1. \A k \in (i + 1) .. (j - 1) : k \in 1 .. l /\ ~Rec(s, k)
        BY <1>1, <1>3, <2>2, <3>1, <3>2
      <4> QED
        BY <1>1, <1>3, <2>2, <3>1, <3>2, <4>1 DEF Chain
    <3>3. CASE j = l + 1
      <4>1. \A k \in (i + 1) .. l : k \in (i + 1) .. (j - 1) /\ k \in 1 .. l
        BY <1>1, <3>1, <3>3
      <4>2. \A k \in (i + 1) .. l : ~Rec(s, k)
        BY <1>3, <2>2, <4>1
      <4>3. n = Increment(s[i].nonce)
        BY <1>3, <2>2, <3>1, <4>2 DEF Ends
      <4> QED
        BY <1>1, <1>4, <2>2, <3>1, <3>3, <4>3
    <3> QED
      BY <1>2, <3>2, <3>3
  <2> QED
    BY <2>1, <2>2 DEF Chain
<1>6. ASSUME e.type = "record" PROVE Ends(t, Increment(n)) /\ ~NoRec(t)
  <2>1. l + 1 \in 1 .. Len(t) /\ Rec(t, l + 1)
    BY <1>1, <1>4, <1>6
  <2>2. \A j \in 1 .. l : l + 1 \in (j + 1) .. Len(t)
    BY <1>1
  <2> QED
    BY <1>1, <1>2, <1>6, <2>1, <2>2 DEF Ends, NoRec
<1>7. ASSUME e.type # "record" PROVE Ends(t, n) /\ (NoRec(t) => NoRec(s))
  <2>1. NoRec(t) => NoRec(s)
    BY <1>3 DEF NoRec
  <2>2. ASSUME NEW j \in 1 .. Len(t), Rec(t, j), \A k \in (j + 1) .. Len(t) : ~Rec(t, k)
        PROVE  n = Increment(t[j].nonce)
    <3>1. j \in 1 .. l
      BY <1>2, <1>4, <1>7, <2>2
    <3>2. \A k \in (j + 1) .. l : k \in (j + 1) .. Len(t) /\ k \in 1 .. l
      BY <1>1, <3>1
    <3> QED
      BY <1>1, <1>3, <2>2, <3>1, <3>2 DEF Ends
  <2> QED
    BY <2>1, <2>2 DEF Ends
<1>8. ASSUME Starts(s, m), NoRec(s) => n = m PROVE Starts(t, m)
  <2> SUFFICES ASSUME NEW j \in 1 .. Len(t), Rec(t, j), \A k \in 1 .. (j - 1) : ~Rec(t, k)
               PROVE  t[j].nonce = m
    BY DEF Starts
  <2>1. CASE j \in 1 .. l
    <3>1. \A k \in 1 .. (j - 1) : k \in 1 .. l
      BY <1>1, <2>1
    <3> QED
      BY <1>1, <1>3, <1>8, <2>1, <3>1 DEF Starts
  <2>2. CASE j = l + 1
    <3>1. \A k \in 1 .. l : k \in 1 .. (j - 1)
      BY <1>1, <2>2
    <3>2. NoRec(s)
      BY <1>3, <3>1 DEF NoRec
    <3> QED
      BY <1>1, <1>4, <1>8, <2>2, <3>2
  <2> QED
    BY <1>2, <2>1, <2>2
<1> QED
  BY <1>5, <1>6, <1>7, <1>8 DEF t

\* The first item is taken: what follows a record bears the next nonce.
LEMMA ChainTail ==
    ASSUME NEW s \in Seq(Items), s # << >>, Chain(s), NEW n, NEW m
    PROVE  /\ Chain(Tail(s)) /\ (Ends(s, n) => Ends(Tail(s), n))
           /\ Rec(s, 1) => /\ Starts(Tail(s), Increment(s[1].nonce))
                           /\ NoRec(Tail(s)) /\ Ends(s, n) => n = Increment(s[1].nonce)
           /\ ~Rec(s, 1) => /\ Starts(s, m) => Starts(Tail(s), m)
                            /\ NoRec(Tail(s)) => NoRec(s)
<1> DEFINE t == Tail(s)
           l == Len(s)
<1>1. /\ l \in Nat \ {0} /\ Len(t) = l - 1
      /\ \A i \in 1 .. (l - 1) : t[i] = s[i + 1]
  BY TailItems
<1> HIDE DEF t
<1>2. \A i \in 1 .. Len(t) : i + 1 \in 1 .. l /\ t[i] = s[i + 1] /\ (Rec(t, i) <=> Rec(s, i + 1))
  BY <1>1 DEF Rec
<1>3. \A i \in 1 .. l : i = 1 \/ (i - 1 \in 1 .. Len(t) /\ (Rec(s, i) <=> Rec(t, i - 1)))
  BY <1>1 DEF Rec
<1>4. 1 \in 1 .. l
  BY <1>1
<1>5. Chain(t)
  <2>1. \A i \in 1 .. Len(t) : t[i].type # "cut"
    BY <1>2 DEF Chain
  <2>2. ASSUME NEW i \in 1 .. Len(t), NEW j \in 1 .. Len(t), i < j, Rec(t, i), Rec(t, j),
               \A k \in (i + 1) .. (j - 1) : ~Rec(t, k)
        PROVE  t[j].nonce = Increment(t[i].nonce)
    <3>1. ASSUME NEW k \in (i + 2) .. j PROVE ~Rec(s, k)
      <4>1. k - 1 \in (i + 1) .. (j - 1) /\ k \in 1 .. l /\ k # 1
        BY <1>1, <3>1
      <4> QED
        BY <1>3, <2>2, <4>1
    <3>2. i + 1 \in 1 .. l /\ j + 1 \in 1 .. l /\ i + 1 < j + 1 /\ Rec(s, i + 1) /\ Rec(s, j + 1)
      BY <1>2, <2>2
    <3>3. \A k \in ((i + 1) + 1) .. ((j + 1) - 1) : k \in (i + 2) .. j
      OBVIOUS
    <3>4. s[j + 1].nonce = Increment(s[i + 1].nonce)
      BY <3>1, <3>2, <3>3 DEF Chain
    <3> QED
      BY <1>2, <3>4
  <2> QED
    BY <2>1, <2>2 DEF Chain
<1>6. ASSUME Ends(s, n) PROVE Ends(t, n)
  <2> SUFFICES ASSUME NEW j \in 1 .. Len(t), Rec(t, j), \A k \in (j + 1) .. Len(t) : ~Rec(t, k)
               PROVE  n = Increment(t[j].nonce)
    BY DEF Ends
  <2>1. ASSUME NEW k \in ((j + 1) + 1) .. l PROVE ~Rec(s, k)
    <3>1. k - 1 \in (j + 1) .. Len(t) /\ k \in 1 .. l /\ k # 1
      BY <1>1, <2>1
    <3> QED
      BY <1>3, <3>1
  <2>2. j + 1 \in 1 .. l /\ Rec(s, j + 1)
    BY <1>2
  <2>3. n = Increment(s[j + 1].nonce)
    BY <1>6, <2>1, <2>2 DEF Ends
  <2> QED
    BY <1>2, <2>3
<1>7. ASSUME Rec(s, 1) PROVE Starts(t, Increment(s[1].nonce))
  <2> SUFFICES ASSUME NEW j \in 1 .. Len(t), Rec(t, j), \A k \in 1 .. (j - 1) : ~Rec(t, k)
               PROVE  t[j].nonce = Increment(s[1].nonce)
    BY DEF Starts
  <2>1. ASSUME NEW k \in (1 + 1) .. ((j + 1) - 1) PROVE ~Rec(s, k)
    <3>1. k - 1 \in 1 .. (j - 1) /\ k \in 1 .. l /\ k # 1
      BY <1>1, <2>1
    <3> QED
      BY <1>3, <3>1
  <2>2. j + 1 \in 1 .. l /\ 1 < j + 1 /\ Rec(s, j + 1)
    BY <1>2
  <2>3. s[j + 1].nonce = Increment(s[1].nonce)
    BY <1>4, <1>7, <2>1, <2>2 DEF Chain
  <2> QED
    BY <1>2, <2>3
<1>8. ASSUME Rec(s, 1), NoRec(t), Ends(s, n) PROVE n = Increment(s[1].nonce)
  <2>1. ASSUME NEW k \in (1 + 1) .. l PROVE ~Rec(s, k)
    <3>1. k \in 1 .. l /\ k # 1
      BY <1>1, <2>1
    <3> QED
      BY <1>3, <1>8, <3>1 DEF NoRec
  <2> QED
    BY <1>4, <1>8, <2>1 DEF Ends
<1>9. ASSUME ~Rec(s, 1), Starts(s, m) PROVE Starts(t, m)
  <2> SUFFICES ASSUME NEW j \in 1 .. Len(t), Rec(t, j), \A k \in 1 .. (j - 1) : ~Rec(t, k)
               PROVE  t[j].nonce = m
    BY DEF Starts
  <2>1. ASSUME NEW k \in 1 .. ((j + 1) - 1) PROVE ~Rec(s, k)
    <3>1. k \in 1 .. l /\ (k = 1 \/ k - 1 \in 1 .. (j - 1))
      BY <1>1, <2>1
    <3> QED
      BY <1>3, <1>9, <3>1
  <2>2. j + 1 \in 1 .. l /\ Rec(s, j + 1)
    BY <1>2
  <2>3. s[j + 1].nonce = m
    BY <1>9, <2>1, <2>2 DEF Starts
  <2> QED
    BY <1>2, <2>3
<1>10. ASSUME ~Rec(s, 1), NoRec(t) PROVE NoRec(s)
  BY <1>3, <1>10 DEF NoRec
<1> QED
  BY <1>5, <1>6, <1>7, <1>8, <1>9, <1>10 DEF t

\* Nothing was sent.
LEMMA DieInit == Init => DieInv
<1> SUFFICES ASSUME Init PROVE DieInv
  OBVIOUS
<1>1. Len(wire) = 0 /\ txNonce = rxNonce /\ rxAlive
  BY DEF Init
<1> QED
  BY <1>1 DEF DieInv, Chain, Starts, Ends

\* A step of the sender that is no failure.
LEMMA DieSent ==
    ASSUME TypeOK, DieInv, NEW e \in Items, wire' = Append(wire, e), e.type # "cut",
           UNCHANGED <<rx, closed, fails>>, ~closed,
           e.type = "record" => e.nonce = txNonce /\ txNonce' = Increment(txNonce),
           e.type # "record" => txNonce' = txNonce
    PROVE  DieInv'
<1>1. wire \in Seq(Items)
  BY DEF TypeOK, Items
<1>2. UNCHANGED <<rxNonce, rxAlive>>
  BY DEF rx
<1> SUFFICES ASSUME fails = 0
             PROVE  /\ rxAlive /\ Chain(wire')
                    /\ Valid(rxNonce) => Starts(wire', rxNonce)
                    /\ Ends(wire', txNonce')
                    /\ Valid(rxNonce) /\ NoRec(wire') => txNonce' = rxNonce
  BY <1>2 DEF DieInv, Valid
<1>3. /\ rxAlive /\ Chain(wire) /\ (Valid(rxNonce) => Starts(wire, rxNonce))
      /\ Ends(wire, txNonce) /\ (Valid(rxNonce) /\ NoRec(wire) => txNonce = rxNonce)
  BY DEF DieInv
<1>4. /\ Chain(wire')
      /\ e.type = "record" => Ends(wire', Increment(txNonce)) /\ ~NoRec(wire')
      /\ e.type # "record" => Ends(wire', txNonce) /\ (NoRec(wire') => NoRec(wire))
      /\ Starts(wire, rxNonce) /\ (NoRec(wire) => txNonce = rxNonce) => Starts(wire', rxNonce)
  BY <1>1, <1>3, ChainAppend
<1> QED
  BY <1>3, <1>4

\* The receiver takes the item it expects, or another that is none of its own.
LEMMA DieDecrypt ==
    ASSUME TypeOK, DieInv, NEW r \in Readers, DecryptOne(r)
    PROVE  DieInv'
<1>1. wire \in Seq(Items) /\ wire # << >> /\ UNCHANGED <<fails, closed, txNonce>>
  BY DEF DecryptOne, TypeOK, Items, counters, tx
<1>2. Head(wire) = wire[1] /\ 1 \in 1 .. Len(wire)
  BY <1>1, TailItems
<1> SUFFICES ASSUME fails = 0
             PROVE  /\ rxAlive' /\ Chain(wire')
                    /\ Valid(rxNonce') => Starts(wire', rxNonce')
                    /\ ~closed => Ends(wire', txNonce)
                    /\ ~closed /\ Valid(rxNonce') /\ NoRec(wire') => txNonce = rxNonce'
  BY <1>1 DEF DieInv, Valid
<1>3. /\ rxAlive /\ Chain(wire) /\ (Valid(rxNonce) => Starts(wire, rxNonce))
      /\ (~closed => Ends(wire, txNonce))
      /\ (~closed /\ Valid(rxNonce) /\ NoRec(wire) => txNonce = rxNonce)
  BY DEF DieInv
<1>4. /\ Chain(Tail(wire)) /\ (Ends(wire, txNonce) => Ends(Tail(wire), txNonce))
      /\ Rec(wire, 1) => /\ Starts(Tail(wire), Increment(wire[1].nonce))
                         /\ NoRec(Tail(wire)) /\ Ends(wire, txNonce) =>
                                txNonce = Increment(wire[1].nonce)
      /\ ~Rec(wire, 1) => /\ Starts(wire, rxNonce) => Starts(Tail(wire), rxNonce)
                          /\ NoRec(Tail(wire)) => NoRec(wire)
  BY <1>1, <1>3, ChainTail
<1>5. CASE SkipOther
  <2>1. wire' = Tail(wire) /\ rxAlive' /\ rxNonce' = rxNonce /\ ~Rec(wire, 1)
    BY <1>2, <1>5 DEF SkipOther, Refuse, Rec
  <2> QED
    BY <1>3, <1>4, <2>1
<1>6. ~OpenCut
  BY <1>2, <1>3 DEF OpenCut, Chain
<1>7. CASE OpenRecord
  <2>1. wire' = Tail(wire) /\ Rec(wire, 1)
    BY <1>2, <1>7 DEF OpenRecord, Rec
  <2>2. CASE ~Valid(rxNonce)
    <3>1. rxNonce' = rxNonce /\ rxAlive'
      BY <1>7, <2>2 DEF OpenRecord, Refuse
    <3> QED
      BY <1>3, <1>4, <2>1, <2>2, <3>1
  <2>3. CASE Valid(rxNonce)
    <3>1. wire[1].nonce = rxNonce
      <4>1. \A k \in 1 .. (1 - 1) : ~Rec(wire, k)
        OBVIOUS
      <4> QED
        BY <1>2, <1>3, <2>1, <2>3, <4>1 DEF Starts
    <3>2. rxNonce' = Increment(rxNonce) /\ rxAlive'
      BY <1>2, <1>3, <1>7, <2>3, <3>1 DEF OpenRecord
    <3> QED
      BY <1>3, <1>4, <2>1, <3>1, <3>2
  <2> QED
    BY <2>2, <2>3
<1> QED
  BY <1>5, <1>6, <1>7 DEF DecryptOne

\* Every step keeps DieInv.
LEMMA DieStep == TypeOK /\ DieInv /\ [Next]_vars => DieInv'
<1> SUFFICES ASSUME TypeOK, DieInv, [Next]_vars PROVE DieInv'
  OBVIOUS
<1>s. write \in [Writers -> Writes] /\ fails \in Nat
  BY DEF TypeOK, Writes
<1>1. CASE UNCHANGED <<wire, fails, closed, txNonce, rxNonce, rxAlive>>
  BY <1>1 DEF DieInv, Valid
<1>2. CASE SendOther
  <2>1. /\ Empty("other") \in Items /\ Empty("other").type = "other"
        /\ wire' = Append(wire, Empty("other")) /\ ~closed
        /\ UNCHANGED <<rx, closed, fails, txNonce>>
    <3>1. 0 \in Nonces /\ Len(sent) \in Nat
      BY NoiseConnAssumption DEF Nonces, TypeOK
    <3> QED
      BY <1>2, <3>1 DEF SendOther, Empty, Items, tx
  <2> QED
    BY <2>1, DieSent
<1>3. CASE Close
  BY <1>3 DEF Close, tx, rx, counters, DieInv, Valid
<1>4. ASSUME NEW w \in Writers, LockTx(w) PROVE DieInv'
  BY <1>1, <1>4 DEF LockTx, rx, counters
<1>5. ASSUME NEW w \in Writers, SealChunk(w) PROVE DieInv'
  <2> DEFINE k == Least(write[w].left, MaxChunk)
             e == Record(txNonce, Len(sent) + 1, Len(sent) + k)
  <2>0. k \in Nat /\ UNCHANGED <<rx, closed>> /\ txNonce' = Increment(txNonce)
    BY <1>5, <1>s, LeastType, NoiseConnAssumption DEF Writes, SealChunk
  <2>1. CASE ChunkSent(w, k)
    <3>1. e \in Items /\ wire' = Append(wire, e)
      BY <2>0, <2>1, SentChunk
    <3>2. e.type = "record" /\ e.nonce = txNonce
      BY DEF Record
    <3>3. ~closed /\ UNCHANGED fails
      BY <2>1 DEF ChunkSent
    <3> HIDE DEF e
    <3> QED
      BY <2>0, <3>1, <3>2, <3>3, DieSent
  <2>2. CASE ChunkFails(w)
    <3>1. CASE fails' # 0
      BY <3>1 DEF DieInv
    <3>2. CASE fails' = 0
      <4>1. closed /\ fails = 0
        BY <1>s, <2>2, <3>2 DEF ChunkFails
      <4>2. UNCHANGED wire
        BY <2>2, <4>1 DEF ChunkFails
      <4> QED
        BY <2>0, <4>1, <4>2 DEF DieInv, rx, Valid
    <3> QED
      BY <3>1, <3>2
  <2> QED
    BY <1>5, <2>1, <2>2 DEF SealChunk
<1>6. ASSUME NEW w \in Writers, NEW len \in 1 .. MaxLen, CallWrite(w, len) PROVE DieInv'
  BY <1>1, <1>6 DEF CallWrite, rx
<1>7. ASSUME NEW r \in Readers, LockRx(r) \/ ReadEnd(r) PROVE DieInv'
  BY <1>1, <1>7 DEF LockRx, ReadEnd, tx, counters
<1>8. ASSUME NEW r \in Readers, DecryptOne(r) PROVE DieInv'
  BY <1>8, DieDecrypt
<1>9. ASSUME NEW r \in Readers, NEW size \in 1 .. MaxLen, ReturnPlain(r, size) PROVE DieInv'
  BY <1>1, <1>9 DEF ReturnPlain, tx, counters
<1>10. CASE UNCHANGED vars
  BY <1>1, <1>10 DEF vars, tx, rx, counters
<1> QED
  BY <1>2, <1>3, <1>4, <1>5, <1>6, <1>7, <1>8, <1>9, <1>10, Cases

(***************************************************************************)
(* NoiseConn.DiesOnlyAfterFailure: the receiver loses its cipher only when *)
(* a write to the stream has failed, with any number of calls on both      *)
(* sides, also when the nonces of either have run out.                     *)
(***************************************************************************)
THEOREM DiesOnlyAfterFailureCorrect == Spec => []DiesOnlyAfterFailure
<1>1. TypeOK /\ DieInv => DiesOnlyAfterFailure
  BY DEF TypeOK, DieInv, DiesOnlyAfterFailure
<1> QED
  BY <1>1, TypeInit, TypeStep, DieInit, DieStep, PTL DEF Spec
=============================================================================
