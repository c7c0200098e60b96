---------------------------- MODULE Handshake_proofs ---------------------------
(***************************************************************************)
(* Proofs for Handshake, for every set of dialers and any number of new    *)
(* server keys.  The first part is about the symmetric state: what both    *)
(* ends mix, and that a hash tells who mixed it.  The second part is one   *)
(* inductive invariant per property.                                       *)
(***************************************************************************)
EXTENDS Handshake, FiniteSetTheorems, SequenceTheorems, TLAPS

-----------------------------------------------------------------------------
(* The symmetric state *)

\* Two hashes into which five items were mixed are one only item by item.
LEMMA HashItems ==
    ASSUME NEW a, NEW b, NEW c, NEW d, NEW e, NEW f,
           NEW u, NEW v, NEW w, NEW x, NEW y, NEW z,
           Append(Append(Append(Append(Append(<<a>>, b), c), d), e), f) =
               Append(Append(Append(Append(Append(<<u>>, v), w), x), y), z)
    PROVE  b = v /\ c = w
<1> DEFINE S == {a, b, c, d, e, f, u, v, w, x, y, z}
           s1 == <<a>>            t1 == <<u>>
           s2 == Append(s1, b)    t2 == Append(t1, v)
           s3 == Append(s2, c)    t3 == Append(t2, w)
           s4 == Append(s3, d)    t4 == Append(t3, x)
           s5 == Append(s4, e)    t5 == Append(t4, y)
<1>1. /\ b \in S /\ c \in S /\ d \in S /\ e \in S /\ f \in S
      /\ v \in S /\ w \in S /\ x \in S /\ y \in S /\ z \in S
  OBVIOUS
<1>2. s1 \in Seq(S) /\ t1 \in Seq(S)
  OBVIOUS
<1> HIDE DEF S, s1, t1
<1>3. s2 \in Seq(S) /\ t2 \in Seq(S)
  BY <1>1, <1>2
<1>4. s2 = t2 => b = v
  BY <1>1, <1>2, AppendInjective
<1> HIDE DEF s2, t2
<1>5. s3 \in Seq(S) /\ t3 \in Seq(S)
  BY <1>1, <1>3
<1>6. s3 = t3 => s2 = t2 /\ c = w
  BY <1>1, <1>3, AppendInjective
<1> HIDE DEF s3, t3
<1>7. s4 \in Seq(S) /\ t4 \in Seq(S)
  BY <1>1, <1>5
<1>8. s4 = t4 => s3 = t3
  BY <1>1, <1>5, AppendInjective
<1> HIDE DEF s4, t4
<1>9. s5 \in Seq(S) /\ t5 \in Seq(S)
  BY <1>1, <1>7
<1>10. s5 = t5 => s4 = t4
  BY <1>1, <1>7, AppendInjective
<1>11. Append(s5, f) = Append(t5, z)
  BY DEF s1, t1, s2, t2, s3, t3, s4, t4
<1> HIDE DEF s5, t5
<1>12. s5 = t5
  BY <1>1, <1>9, <1>11, AppendInjective
<1> QED BY <1>4, <1>6, <1>8, <1>10, <1>12

LEMMA HashLength ==
    ASSUME NEW a, NEW b, NEW c, NEW d, NEW e, NEW f
    PROVE  Append(Append(Append(Append(Append(<<a>>, b), c), d), e), f) # << >>
<1> DEFINE S == {a, b, c, d, e, f}
           s2 == Append(<<a>>, b)
           s3 == Append(s2, c)
           s4 == Append(s3, d)
           s5 == Append(s4, e)
<1>1. b \in S /\ c \in S /\ d \in S /\ e \in S /\ f \in S /\ <<a>> \in Seq(S)
  OBVIOUS
<1> HIDE DEF S
<1>2. s2 \in Seq(S)
  BY <1>1
<1> HIDE DEF s2
<1>3. s3 \in Seq(S)
  BY <1>1, <1>2
<1> HIDE DEF s3
<1>4. s4 \in Seq(S)
  BY <1>1, <1>3
<1> HIDE DEF s4
<1>5. s5 \in Seq(S)
  BY <1>1, <1>4
<1> HIDE DEF s5
<1>6. Append(s5, f) # << >>
  BY <1>1, <1>5
<1> QED BY <1>6 DEF s2, s3, s4, s5

\* A state given by its two fields, and one step of mixing on it.
Fields(s, h, ck) == s = [h |-> h, ck |-> ck]

LEMMA MixFields ==
    ASSUME NEW s, NEW h, NEW ck, NEW x, NEW y, Fields(s, h, ck)
    PROVE  /\ Fields(MixKey(s, x), Append(h, <<"key", x>>), ck)
           /\ Fields(MixDH(s, x, y), h, Append(ck, {x, y}))
           /\ Fields(DecryptAndHash(s, x), Append(h, <<"sealed", x.ck, x.plain>>), ck)
<1>1. s.h = h /\ s.ck = ck
  BY DEF Fields
<1>2. \A z : [s EXCEPT !.h = z] = [h |-> z, ck |-> ck]
  BY DEF Fields
<1>3. \A z : [s EXCEPT !.ck = z] = [h |-> h, ck |-> z]
  BY DEF Fields
<1>4. \A z : MixHash(s, z) = [h |-> Append(h, z), ck |-> ck]
  BY <1>1, <1>2 DEF MixHash
<1>5. MixDH(s, x, y) = [h |-> h, ck |-> Append(ck, {x, y})]
  BY <1>1, <1>3 DEF MixDH
<1> QED BY <1>4, <1>5 DEF Fields, MixKey, DecryptAndHash

\* The hash that the server has before the tag of its response.
MixedItems(k, m, eph) ==
    LET Item(c) == <<"sealed", c.ck, c.plain>>
    IN  Append(Append(Append(Append(Append(Initialized.h, <<"key", k>>),
            <<"key", m.eph>>), Item(m.machine)), Item(m.tag)), <<"key", eph>>)

LEMMA AnswerFields ==
    ASSUME NEW k, NEW m, NEW eph
    PROVE  Fields(BeforeAnswer(k, m, eph),
                  MixedItems(k, m, eph), BeforeAnswer(k, m, eph).ck)
<1> DEFINE Item(c) == <<"sealed", c.ck, c.plain>>
           ck1 == Append(Initialized.ck, {k, m.eph})
           h1 == Append(Append(Initialized.h, <<"key", k>>), <<"key", m.eph>>)
           h2 == Append(h1, Item(m.machine))
           ck2 == Append(ck1, {k, m.machine.plain})
           h3 == Append(h2, Item(m.tag))
<1>1. Fields(Initialized, Initialized.h, Initialized.ck)
  BY DEF Fields, Initialized
<1>2. Fields(Heard(k, m), h1, ck1)
  BY <1>1, MixFields DEF Heard
<1>3. Fields(HeardMachine(k, m), h2, ck2)
  <2> HIDE DEF h1, ck1
  <2> QED BY <1>2, MixFields DEF HeardMachine
<1>4. Fields(DecryptAndHash(HeardMachine(k, m), m.tag), h3, ck2)
  <2> HIDE DEF h2, ck2
  <2> QED BY <1>3, MixFields
<1>5. Fields(BeforeAnswer(k, m, eph), Append(h3, <<"key", eph>>),
             Append(Append(ck2, {eph, m.eph}), {eph, m.machine.plain}))
  <2> HIDE DEF h3, ck2
  <2> QED BY <1>4, MixFields DEF BeforeAnswer
<1> QED BY <1>5 DEF Fields, MixedItems

\* It tells the key the server has and the ephemeral key of the client.
LEMMA HashTellsWho ==
    ASSUME NEW k, NEW m, NEW eph, NEW j, NEW n, NEW rep,
           BeforeAnswer(k, m, eph).h = BeforeAnswer(j, n, rep).h
    PROVE  <<"key", k>> = <<"key", j>> /\ <<"key", m.eph>> = <<"key", n.eph>>
<1>1. Initialized.h = <<<<"prologue", "v138">>>>
  BY DEF Initialized
<1>2. MixedItems(k, m, eph) = MixedItems(j, n, rep)
  BY AnswerFields DEF Fields
<1> QED BY <1>1, <1>2, HashItems DEF MixedItems

LEMMA HashNotEmpty ==
    ASSUME NEW k, NEW m, NEW eph
    PROVE  BeforeAnswer(k, m, eph).h # << >>
<1>1. Initialized.h = <<<<"prologue", "v138">>>>
  BY DEF Initialized
<1>2. MixedItems(k, m, eph) # << >>
  BY <1>1, HashLength DEF MixedItems
<1> QED BY <1>2, AnswerFields DEF Fields

\* The server, with the key the client meant, mixes what the client mixed.
LEMMA ServerFollows ==
    ASSUME NEW d, NEW k, NEW eph
    PROVE  /\ Heard(k, Initiation(d, k)) = BeforeMachine(d, k)
           /\ HeardMachine(k, Initiation(d, k)) = BeforeTag(d, k)
           /\ BeforeAnswer(k, Initiation(d, k), eph)
                = BeforeResponse(Initiated(d, k), d, eph)
<1>0. \A s, x, y : MixDH(s, x, y) = MixDH(s, y, x)
  <2>1. \A x, y : {x, y} = {y, x} OBVIOUS
  <2> QED BY <2>1 DEF MixDH
<1> DEFINE m == Initiation(d, k)
<1>1. /\ m.eph = Ephemeral(d)
      /\ m.machine = Sealed(BeforeMachine(d, k), Machine(d)) /\ m.machine.plain = Machine(d)
      /\ m.tag = Sealed(BeforeTag(d, k), << >>)
  BY DEF Initiation, Sealed
<1> HIDE DEF m
<1>2. Heard(k, m) = BeforeMachine(d, k)
  BY <1>0, <1>1 DEF Heard, BeforeMachine
<1>3. HeardMachine(k, m) = BeforeTag(d, k)
  BY <1>0, <1>1, <1>2 DEF HeardMachine, BeforeTag, EncryptAndHash
<1>4. BeforeAnswer(k, m, eph) = BeforeResponse(Initiated(d, k), d, eph)
  BY <1>0, <1>1, <1>3 DEF BeforeAnswer, BeforeResponse, Initiated, EncryptAndHash
<1> QED BY <1>2, <1>3, <1>4 DEF m

\* So it accepts what was made for its key, ...
LEMMA AcceptsOwn ==
    ASSUME NEW d, NEW k
    PROVE  Accepts(k, Initiation(d, k))
<1>1. Opens(BeforeMachine(d, k), Sealed(BeforeMachine(d, k), Machine(d)))
  BY DEF Opens, Sealed
<1>2. Opens(BeforeTag(d, k), Sealed(BeforeTag(d, k), << >>))
  BY DEF Opens, Sealed
<1>3. /\ Initiation(d, k).machine = Sealed(BeforeMachine(d, k), Machine(d))
      /\ Initiation(d, k).tag = Sealed(BeforeTag(d, k), << >>)
  BY DEF Initiation
<1> QED BY <1>1, <1>2, <1>3, ServerFollows DEF Accepts

\* ... and what opens for a client was made for this client and this key.
LEMMA OpensOwn ==
    ASSUME NEW d, NEW k, NEW e, NEW c, NEW j, NEW eph,
           Opens(BeforeResponse(Initiated(d, k), d, eph),
                 Sealed(BeforeAnswer(c, Initiation(e, j), eph), << >>))
    PROVE  c = k /\ e = d
<1> DEFINE mine == BeforeAnswer(k, Initiation(d, k), eph)
           its == BeforeAnswer(c, Initiation(e, j), eph)
<1>1. mine.h = its.h
  BY ServerFollows DEF Opens, Sealed
<1>2. Initiation(d, k).eph = Ephemeral(d) /\ Initiation(e, j).eph = Ephemeral(e)
  BY DEF Initiation
<1>3. <<"key", k>> = <<"key", c>> /\ <<"key", Ephemeral(d)>> = <<"key", Ephemeral(e)>>
  BY <1>1, <1>2, HashTellsWho
<1>4. k = c /\ Ephemeral(d) = Ephemeral(e)
  BY <1>3
<1> QED BY <1>4 DEF Ephemeral

\* The chaining key, and so what Split makes of it, is not changed by a text.
LEMMA DecryptKeepsKeys ==
    ASSUME NEW s, NEW h, NEW ck, Fields(s, h, ck), NEW c
    PROVE  /\ C1(DecryptAndHash(s, c)) = C1(s)
           /\ C2(DecryptAndHash(s, c)) = C2(s)
<1>1. Fields(DecryptAndHash(s, c), Append(h, <<"sealed", c.ck, c.plain>>), ck)
  BY MixFields
<1>2. DecryptAndHash(s, c).ck = s.ck
  BY <1>1 DEF Fields
<1> QED BY <1>2 DEF C1, C2

-----------------------------------------------------------------------------
(* The invariants *)

\* What is a function of the dialers, besides what TypeOK says.
Shape ==
    /\ DOMAIN key = Dialers /\ DOMAIN hs = Dialers /\ DOMAIN sent = Dialers
    /\ DOMAIN result = Dialers /\ DOMAIN refused = Dialers
    /\ DOMAIN wire = Dialers /\ DOMAIN srv = Dialers

TypeInv == TypeOK /\ Shape

LEMMA TypeInit == Init => TypeInv
BY HandshakeAssumption DEF Init, TypeInv, TypeOK, Shape, Steps

LEMMA TypeStep == TypeInv /\ [Next]_vars => TypeInv'
<1> SUFFICES ASSUME TypeInv, [Next]_vars PROVE TypeInv'
  OBVIOUS
<1> USE DEF crypto, server
<1>1. CASE UNCHANGED vars
  BY <1>1 DEF TypeInv, TypeOK, Shape, Steps, vars
<1>2. CASE Rekey
  BY <1>2, HandshakeAssumption DEF TypeInv, TypeOK, Shape, Steps, Rekey, Client
<1>3. ASSUME NEW d \in Dialers, FetchKey(d)
      PROVE  TypeInv'
  BY <1>3 DEF TypeInv, TypeOK, Shape, Steps, FetchKey, Goto
<1>4. ASSUME NEW d \in Dialers, SendInitiation(d)
      PROVE  TypeInv'
  BY <1>4 DEF TypeInv, TypeOK, Shape, Steps, SendInitiation, Goto
<1>5. ASSUME NEW d \in Dialers, GetResponse(d)
      PROVE  TypeInv'
  BY <1>5 DEF TypeInv, TypeOK, Shape, Steps, GetResponse, Goto, Consume, GiveUp
<1>6. ASSUME NEW d \in Dialers, ReadBody(d)
      PROVE  TypeInv'
  BY <1>6 DEF TypeInv, TypeOK, Shape, Steps, ReadBody, Goto, GiveUp
<1>7. ASSUME NEW d \in Dialers, SetDeadline(d)
      PROVE  TypeInv'
  BY <1>7 DEF TypeInv, TypeOK, Shape, Steps, SetDeadline, Goto
<1>8. ASSUME NEW d \in Dialers, ReadHeader(d)
      PROVE  TypeInv'
  <2>1. CASE Goto(d, "payload") \/ Goto(d, "error")
    BY <1>8, <2>1 DEF TypeInv, TypeOK, Shape, Steps, ReadHeader, Goto, Consume, GiveUp
  <2>2. CASE GiveUp(d)
    BY <1>8, <2>2 DEF TypeInv, TypeOK, Shape, Steps, ReadHeader, Goto, GiveUp
  <2> QED
    BY <1>8, <2>1, <2>2 DEF ReadHeader
<1>9. ASSUME NEW d \in Dialers, ReadErrorMessage(d)
      PROVE  TypeInv'
  BY <1>9 DEF TypeInv, TypeOK, Shape, Steps, ReadErrorMessage, Goto, GiveUp
<1>10. ASSUME NEW d \in Dialers, ReadFails(d)
      PROVE  TypeInv'
  BY <1>10 DEF TypeInv, TypeOK, Shape, Steps, ReadFails, Goto, GiveUp
<1>11. ASSUME NEW d \in Dialers, ReadResponse(d)
      PROVE  TypeInv'
  BY <1>11 DEF TypeInv, TypeOK, Shape, Steps, ReadResponse, Finish, Refuse, Goto,
       Consume, GiveUp
<1>12. ASSUME NEW d \in Dialers, Expire(d)
      PROVE  TypeInv'
  BY <1>12 DEF TypeInv, TypeOK, Shape, Steps, Expire, Ended
<1>13. ASSUME NEW d \in Dialers, AnswerHTTP(d)
      PROVE  TypeInv'
  <2>1. PICK s \in {"upgraded", "done"} : srv' = [srv EXCEPT ![d] = [step |-> s, key |-> Bad]]
    BY <1>13 DEF AnswerHTTP, Serve
  <2>2. DOMAIN wire' = Dialers
    BY <1>13 DEF AnswerHTTP, Send, TypeInv, Shape
  <2> QED BY <1>13, <2>1, <2>2 DEF TypeInv, TypeOK, Shape, AnswerHTTP, Client
<1>14. ASSUME NEW d \in Dialers, Reject(d)
      PROVE  TypeInv'
  BY <1>14 DEF TypeInv, TypeOK, Shape, Steps, Reject, Waiting, Serve, Send, Client
<1>15. ASSUME NEW d \in Dialers, AnswerOther(d)
      PROVE  TypeInv'
  BY <1>15 DEF TypeInv, TypeOK, Shape, Steps, AnswerOther, Waiting, Serve, Send,
       Client
<1>16. ASSUME NEW d \in Dialers, End(d)
      PROVE  TypeInv'
  BY <1>16 DEF TypeInv, TypeOK, Shape, Steps, End, Ended, Client
<1>17. ASSUME NEW d \in Dialers, NEW e \in Dialers, Answer(d, e)
      PROVE  TypeInv'
  BY <1>17 DEF TypeInv, TypeOK, Shape, Steps, Answer, Waiting, Serve, Send, Client
<1> QED BY <1>1, <1>2, <1>3, <1>4, <1>5, <1>6, <1>7, <1>8, <1>9, <1>10, <1>11, <1>12,
     <1>13, <1>14, <1>15, <1>16, <1>17 DEF Next, Dial

(***************************************************************************)
(* The dialers keep their types and keys are keys that the server had.     *)
(***************************************************************************)
THEOREM TypeCorrect == Spec => []TypeOK
<1>1. Spec => []TypeInv
  BY TypeInit, TypeStep, PTL DEF Spec
<1>2. TypeInv => TypeOK
  BY DEF TypeInv
<1> QED BY <1>1, <1>2, PTL

-----------------------------------------------------------------------------
(* The connection: open from the request to the end of Dial. *)

Active == {"roundTrip", "body", "upgraded", "header", "error", "payload"}

ConnInv ==
    \A d \in Dialers :
        /\ step[d] \in {"idle", "keyed"} => conn[d] = "none"
        /\ step[d] \in Active => conn[d] = "open"
        /\ step[d] = "ok" => conn[d] = "open" /\ ~deadline[d]
        /\ step[d] = "failed" => conn[d] # "open"

LEMMA ConnStep == TypeInv /\ ConnInv /\ [Next]_vars => ConnInv'
<1> SUFFICES ASSUME TypeInv, ConnInv, [Next]_vars PROVE ConnInv'
  OBVIOUS
<1> USE DEF crypto, server
<1>1. CASE UNCHANGED vars
  BY <1>1 DEF TypeInv, TypeOK, Shape, ConnInv, Active, vars
<1>2. CASE Rekey
  BY <1>2 DEF TypeInv, TypeOK, Shape, ConnInv, Active, Rekey, Client
<1>3. ASSUME NEW d \in Dialers, FetchKey(d)
      PROVE  ConnInv'
  BY <1>3 DEF TypeInv, TypeOK, Shape, ConnInv, Active, FetchKey, Goto
<1>4. ASSUME NEW d \in Dialers, SendInitiation(d)
      PROVE  ConnInv'
  BY <1>4 DEF TypeInv, TypeOK, Shape, ConnInv, Active, SendInitiation, Goto
<1>5. ASSUME NEW d \in Dialers, GetResponse(d)
      PROVE  ConnInv'
  BY <1>5 DEF TypeInv, TypeOK, Shape, ConnInv, Active, GetResponse, Goto, Consume,
       GiveUp
<1>6. ASSUME NEW d \in Dialers, ReadBody(d)
      PROVE  ConnInv'
  BY <1>6 DEF TypeInv, TypeOK, Shape, ConnInv, Active, ReadBody, Goto, GiveUp
<1>7. ASSUME NEW d \in Dialers, SetDeadline(d)
      PROVE  ConnInv'
  BY <1>7 DEF TypeInv, TypeOK, Shape, ConnInv, Active, SetDeadline, Goto
<1>8. ASSUME NEW d \in Dialers, ReadHeader(d)
      PROVE  ConnInv'
  BY <1>8 DEF TypeInv, TypeOK, Shape, ConnInv, Active, ReadHeader, Goto, Consume,
       GiveUp
<1>9. ASSUME NEW d \in Dialers, ReadErrorMessage(d)
      PROVE  ConnInv'
  BY <1>9 DEF TypeInv, TypeOK, Shape, ConnInv, Active, ReadErrorMessage, Goto, GiveUp
<1>10. ASSUME NEW d \in Dialers, ReadFails(d)
      PROVE  ConnInv'
  BY <1>10 DEF TypeInv, TypeOK, Shape, ConnInv, Active, ReadFails, Goto, GiveUp
<1>11. ASSUME NEW d \in Dialers, ReadResponse(d)
      PROVE  ConnInv'
  BY <1>11 DEF TypeInv, TypeOK, Shape, ConnInv, Active, ReadResponse, Finish, Refuse,
       Goto, Consume, GiveUp
<1>12. ASSUME NEW d \in Dialers, Expire(d)
      PROVE  ConnInv'
  BY <1>12 DEF TypeInv, TypeOK, Shape, ConnInv, Active, Expire, Ended
<1>13. ASSUME NEW d \in Dialers, AnswerHTTP(d)
      PROVE  ConnInv'
  BY <1>13 DEF TypeInv, TypeOK, Shape, ConnInv, Active, AnswerHTTP, Waiting, Serve,
       Send, Client
<1>14. ASSUME NEW d \in Dialers, Reject(d)
      PROVE  ConnInv'
  BY <1>14 DEF TypeInv, TypeOK, Shape, ConnInv, Active, Reject, Waiting, Serve, Send,
       Client
<1>15. ASSUME NEW d \in Dialers, AnswerOther(d)
      PROVE  ConnInv'
  BY <1>15 DEF TypeInv, TypeOK, Shape, ConnInv, Active, AnswerOther, Waiting, Serve,
       Send, Client
<1>16. ASSUME NEW d \in Dialers, End(d)
      PROVE  ConnInv'
  BY <1>16 DEF TypeInv, TypeOK, Shape, ConnInv, Active, End, Ended, Client
<1>17. ASSUME NEW d \in Dialers, NEW e \in Dialers, Answer(d, e)
      PROVE  ConnInv'
  BY <1>17 DEF TypeInv, TypeOK, Shape, ConnInv, Active, Answer, Waiting, Serve, Send,
       Client
<1> QED BY <1>1, <1>2, <1>3, <1>4, <1>5, <1>6, <1>7, <1>8, <1>9, <1>10, <1>11, <1>12,
     <1>13, <1>14, <1>15, <1>16, <1>17 DEF Next, Dial

(***************************************************************************)
(* Dial leaves an open connection without a deadline, or none.             *)
(***************************************************************************)
THEOREM ConnSettledCorrect == Spec => []ConnSettled
<1>1. Init => ConnInv
  BY DEF Init, ConnInv, Active
<1>2. ConnInv => ConnSettled
  BY DEF ConnInv, ConnSettled
<1> QED BY <1>1, <1>2, TypeInit, TypeStep, ConnStep, PTL DEF Spec

-----------------------------------------------------------------------------
(* What a dialer has sent, and what it goes on with, is made from its keys. *)

SentInv ==
    \A d \in Dialers :
        /\ step[d] \in Active => hs[d] = Initiated(d, key[d])
        /\ conn[d] # "none" => sent[d] = Initiation(d, key[d])
        /\ srv[d].step # "none" => conn[d] # "none"

LEMMA SentStep == TypeInv /\ ConnInv /\ SentInv /\ [Next]_vars => SentInv'
<1> SUFFICES ASSUME TypeInv, ConnInv, SentInv, [Next]_vars PROVE SentInv'
  OBVIOUS
<1> USE DEF crypto, server
<1>1. CASE UNCHANGED vars
  BY <1>1 DEF TypeInv, TypeOK, Shape, ConnInv, SentInv, Active, vars
<1>2. CASE Rekey
  BY <1>2 DEF TypeInv, TypeOK, Shape, ConnInv, SentInv, Active, Rekey, Client
<1>3. ASSUME NEW d \in Dialers, FetchKey(d)
      PROVE  SentInv'
  BY <1>3 DEF TypeInv, TypeOK, Shape, ConnInv, SentInv, Active, FetchKey, Goto
<1>4. ASSUME NEW d \in Dialers, SendInitiation(d)
      PROVE  SentInv'
  BY <1>4 DEF TypeInv, TypeOK, Shape, ConnInv, SentInv, Active, SendInitiation, Goto
<1>5. ASSUME NEW d \in Dialers, GetResponse(d)
      PROVE  SentInv'
  BY <1>5 DEF TypeInv, TypeOK, Shape, ConnInv, SentInv, Active, GetResponse, Goto,
       Consume, GiveUp
<1>6. ASSUME NEW d \in Dialers, ReadBody(d)
      PROVE  SentInv'
  BY <1>6 DEF TypeInv, TypeOK, Shape, ConnInv, SentInv, Active, ReadBody, Goto, GiveUp
<1>7. ASSUME NEW d \in Dialers, SetDeadline(d)
      PROVE  SentInv'
  BY <1>7 DEF TypeInv, TypeOK, Shape, ConnInv, SentInv, Active, SetDeadline, Goto
<1>8. ASSUME NEW d \in Dialers, ReadHeader(d)
      PROVE  SentInv'
  BY <1>8 DEF TypeInv, TypeOK, Shape, ConnInv, SentInv, Active, ReadHeader, Goto,
       Consume, GiveUp
<1>9. ASSUME NEW d \in Dialers, ReadErrorMessage(d)
      PROVE  SentInv'
  BY <1>9 DEF TypeInv, TypeOK, Shape, ConnInv, SentInv, Active, ReadErrorMessage,
       Goto, GiveUp
<1>10. ASSUME NEW d \in Dialers, ReadFails(d)
      PROVE  SentInv'
  BY <1>10 DEF TypeInv, TypeOK, Shape, ConnInv, SentInv, Active, ReadFails, Goto,
       GiveUp
<1>11. ASSUME NEW d \in Dialers, ReadResponse(d)
      PROVE  SentInv'
  BY <1>11 DEF TypeInv, TypeOK, Shape, ConnInv, SentInv, Active, ReadResponse, Finish,
       Refuse, Goto, Consume, GiveUp
<1>12. ASSUME NEW d \in Dialers, Expire(d)
      PROVE  SentInv'
  BY <1>12 DEF TypeInv, TypeOK, Shape, ConnInv, SentInv, Active, Expire, Ended
<1>13. ASSUME NEW d \in Dialers, AnswerHTTP(d)
      PROVE  SentInv'
  BY <1>13 DEF TypeInv, TypeOK, Shape, ConnInv, SentInv, Active, AnswerHTTP, Waiting,
       Serve, Send, Client
<1>14. ASSUME NEW d \in Dialers, Reject(d)
      PROVE  SentInv'
  BY <1>14 DEF TypeInv, TypeOK, Shape, ConnInv, SentInv, Active, Reject, Waiting,
       Serve, Send, Client
<1>15. ASSUME NEW d \in Dialers, AnswerOther(d)
      PROVE  SentInv'
  BY <1>15 DEF TypeInv, TypeOK, Shape, ConnInv, SentInv, Active, AnswerOther, Waiting,
       Serve, Send, Client
<1>16. ASSUME NEW d \in Dialers, End(d)
      PROVE  SentInv'
  BY <1>16 DEF TypeInv, TypeOK, Shape, ConnInv, SentInv, Active, End, Ended, Client
<1>17. ASSUME NEW d \in Dialers, NEW e \in Dialers, Answer(d, e)
      PROVE  SentInv'
  BY <1>17 DEF TypeInv, TypeOK, Shape, ConnInv, SentInv, Active, Answer, Waiting,
       Serve, Send, Client
<1> QED BY <1>1, <1>2, <1>3, <1>4, <1>5, <1>6, <1>7, <1>8, <1>9, <1>10, <1>11, <1>12,
     <1>13, <1>14, <1>15, <1>16, <1>17 DEF Next, Dial

-----------------------------------------------------------------------------
(* What the server keeps of a handshake that it has completed. *)

\* Record a is of an answer, under eph, to the initiation made for key k.
IsAnswer(a, k, eph) ==
    LET s == BeforeAnswer(a.key, Initiation(a.to, k), eph)
    IN  /\ a.peer = Machine(a.to)
        /\ a.payload = <<"response", eph, Sealed(s, << >>)>>
        /\ a.h = EncryptAndHash(s, << >>).h /\ a.tx = C2(s) /\ a.rx = C1(s)

AnswersInv ==
    /\ IsFiniteSet(answered)
    /\ \A a \in answered :
        /\ a.to \in Dialers /\ srv[a.to].step # "none"
        /\ \E n \in 1 .. Cardinality(answered) : IsAnswer(a, key[a.to], Reply(n))

LEMMA CompletedIs ==
    ASSUME NEW e, NEW eph, sent[e] = Initiation(e, key[e])
    PROVE  LET c == Completed(e, eph)
           IN  c.to = e /\ IsAnswer(c, key[e], eph)
<1>1. Initiation(e, key[e]).machine.plain = Machine(e)
  BY DEF Initiation, Sealed
<1> QED BY <1>1 DEF Completed, IsAnswer, Response

\* Each answer is under a new ephemeral key.
LEMMA AnswerIsNew ==
    ASSUME AnswersInv, NEW c, NEW k,
           IsAnswer(c, k, Reply(Cardinality(answered) + 1))
    PROVE  \A a \in answered : a.payload # c.payload
<1> SUFFICES ASSUME NEW a \in answered, a.payload = c.payload PROVE FALSE
  OBVIOUS
<1>1. Cardinality(answered) \in Nat
  BY FS_CardinalityType DEF AnswersInv
<1>2. PICK n \in 1 .. Cardinality(answered) : a.payload[2] = Reply(n)
  BY DEF AnswersInv, IsAnswer
<1>3. c.payload[2] = Reply(Cardinality(answered) + 1)
  BY DEF IsAnswer
<1>4. n = Cardinality(answered) + 1
  BY <1>2, <1>3 DEF Reply
<1> QED BY <1>1, <1>4

LEMMA AnswersStep ==
    TypeInv /\ ConnInv /\ SentInv /\ AnswersInv /\ [Next]_vars => AnswersInv'
<1> SUFFICES ASSUME TypeInv, ConnInv, SentInv, AnswersInv, [Next]_vars PROVE AnswersInv'
  OBVIOUS
<1>a. ASSUME UNCHANGED answered,
             \A d \in Dialers : srv[d].step # "none" =>
                 srv'[d].step # "none" /\ key'[d] = key[d]
      PROVE  AnswersInv'
  BY <1>a DEF AnswersInv
<1> USE DEF crypto, server
<1>1. CASE UNCHANGED vars
  BY <1>a, <1>1 DEF vars
<1>2. CASE Rekey
  BY <1>a, <1>2 DEF TypeInv, TypeOK, Shape, ConnInv, SentInv, Rekey, Client
<1>3. ASSUME NEW d \in Dialers, FetchKey(d)
      PROVE  AnswersInv'
  BY <1>a, <1>3 DEF TypeInv, TypeOK, Shape, ConnInv, SentInv, FetchKey, Goto
<1>4. ASSUME NEW d \in Dialers, SendInitiation(d)
      PROVE  AnswersInv'
  BY <1>a, <1>4 DEF TypeInv, TypeOK, Shape, ConnInv, SentInv, SendInitiation, Goto
<1>5. ASSUME NEW d \in Dialers, GetResponse(d)
      PROVE  AnswersInv'
  BY <1>a, <1>5 DEF TypeInv, TypeOK, Shape, ConnInv, SentInv, GetResponse, Goto, Consume, GiveUp
<1>6. ASSUME NEW d \in Dialers, ReadBody(d)
      PROVE  AnswersInv'
  BY <1>a, <1>6 DEF TypeInv, TypeOK, Shape, ConnInv, SentInv, ReadBody, Goto, GiveUp
<1>7. ASSUME NEW d \in Dialers, SetDeadline(d)
      PROVE  AnswersInv'
  BY <1>a, <1>7 DEF TypeInv, TypeOK, Shape, ConnInv, SentInv, SetDeadline, Goto
<1>8. ASSUME NEW d \in Dialers, ReadHeader(d)
      PROVE  AnswersInv'
  BY <1>a, <1>8 DEF TypeInv, TypeOK, Shape, ConnInv, SentInv, ReadHeader, Goto, Consume, GiveUp
<1>9. ASSUME NEW d \in Dialers, ReadErrorMessage(d)
      PROVE  AnswersInv'
  BY <1>a, <1>9 DEF TypeInv, TypeOK, Shape, ConnInv, SentInv, ReadErrorMessage, Goto, GiveUp
<1>10. ASSUME NEW d \in Dialers, ReadFails(d)
      PROVE  AnswersInv'
  BY <1>a, <1>10 DEF TypeInv, TypeOK, Shape, ConnInv, SentInv, ReadFails, Goto, GiveUp
<1>11. ASSUME NEW d \in Dialers, ReadResponse(d)
      PROVE  AnswersInv'
  BY <1>a, <1>11 DEF TypeInv, TypeOK, Shape, ConnInv, SentInv, ReadResponse, Finish, Refuse, Goto, Consume, GiveUp
<1>12. ASSUME NEW d \in Dialers, Expire(d)
      PROVE  AnswersInv'
  BY <1>a, <1>12 DEF TypeInv, TypeOK, Shape, ConnInv, SentInv, Expire, Ended
<1>13. ASSUME NEW d \in Dialers, AnswerHTTP(d)
      PROVE  AnswersInv'
  BY <1>a, <1>13 DEF TypeInv, TypeOK, Shape, ConnInv, SentInv, AnswerHTTP, Waiting, Serve, Send, Client
<1>14. ASSUME NEW d \in Dialers, Reject(d)
      PROVE  AnswersInv'
  BY <1>a, <1>14 DEF TypeInv, TypeOK, Shape, ConnInv, SentInv, Reject, Waiting, Serve, Send, Client
<1>15. ASSUME NEW d \in Dialers, AnswerOther(d)
      PROVE  AnswersInv'
  BY <1>a, <1>15 DEF TypeInv, TypeOK, Shape, ConnInv, SentInv, AnswerOther, Waiting, Serve, Send, Client
<1>16. ASSUME NEW d \in Dialers, End(d)
      PROVE  AnswersInv'
  BY <1>a, <1>16 DEF TypeInv, TypeOK, Shape, ConnInv, SentInv, End, Ended, Client
<1>17. ASSUME NEW d \in Dialers, NEW e \in Dialers, Answer(d, e)
      PROVE  AnswersInv'
  <2> DEFINE n == Cardinality(answered)
             c == Completed(e, Reply(n + 1))
  <2>1. answered' = answered \cup {c} /\ UNCHANGED key
    BY <1>17 DEF Answer, Client
  <2>2. c.to = e /\ IsAnswer(c, key[e], Reply(n + 1)) /\ srv[e].step # "none"
    BY <1>17, CompletedIs DEF SentInv, Answer
  <2>3. c \notin answered
    BY <2>2, AnswerIsNew
  <2>4. IsFiniteSet(answered) /\ n \in Nat
    BY FS_CardinalityType DEF AnswersInv
  <2>5. IsFiniteSet(answered') /\ Cardinality(answered') = n + 1
    BY <2>1, <2>3, <2>4, FS_AddElement
  <2>6. \A f \in Dialers : srv[f].step # "none" => srv'[f].step # "none"
    BY <1>17 DEF Answer, Serve, TypeInv, Shape
  <2>7. ASSUME NEW a \in answered'
        PROVE  /\ a.to \in Dialers /\ srv'[a.to].step # "none"
               /\ \E j \in 1 .. n + 1 : IsAnswer(a, key[a.to], Reply(j))
    <3> HIDE DEF c, n
    <3>1. CASE a \in answered
      BY <2>4, <2>6, <3>1 DEF AnswersInv, n
    <3>2. CASE a = c
      BY <2>2, <2>4, <2>6, <3>2
    <3> QED BY <2>1, <3>1, <3>2
  <2> HIDE DEF c, n
  <2> QED BY <2>1, <2>5, <2>7 DEF AnswersInv
<1> QED BY <1>1, <1>2, <1>3, <1>4, <1>5, <1>6, <1>7, <1>8, <1>9, <1>10, <1>11, <1>12,
     <1>13, <1>14, <1>15, <1>16, <1>17 DEF Next, Dial

-----------------------------------------------------------------------------
(* What is on the wire: pieces the server makes up, and its answers. *)

MadeUp == {Status("101"), Status("other"), Text, Header("response"), Header("error"),
           Header("other"), Garbled(Bad), Garbled(Reply(0))}
Pieces(A) == MadeUp \cup {a.payload : a \in A}

WireInv == \A d \in Dialers : wire[d] \in Seq(Pieces(answered))

LEMMA SeqGrows == ASSUME NEW S, NEW T, S \subseteq T, NEW s \in Seq(S) PROVE s \in Seq(T)
OBVIOUS

LEMMA WireStep ==
    TypeInv /\ WireInv /\ [Next]_vars => WireInv'
<1> SUFFICES ASSUME TypeInv, WireInv, [Next]_vars PROVE WireInv'
  OBVIOUS
<1> DEFINE P == Pieces(answered)
<1>a. ASSUME UNCHANGED answered,
             \A d \in Dialers : wire'[d] = wire[d] \/ wire'[d] \in Seq(P)
      PROVE  WireInv'
  BY <1>a DEF WireInv
<1>b. \A d \in Dialers : wire[d] # << >> => Tail(wire[d]) \in Seq(P)
  BY DEF WireInv
<1>c. /\ Status("101") \in P /\ Status("other") \in P /\ Text \in P
      /\ Header("response") \in P /\ Header("error") \in P /\ Header("other") \in P
      /\ Garbled(Bad) \in P /\ Garbled(Reply(0)) \in P
  BY DEF Pieces, MadeUp
<1>d. ASSUME NEW d \in Dialers, NEW s \in Seq(P), UNCHANGED answered, Send(d, s)
      PROVE  WireInv'
  <2>1. wire[d] \o s \in Seq(P)
    BY DEF WireInv
  <2> HIDE DEF P
  <2> QED BY <1>a, <1>d, <2>1 DEF Send, TypeInv, Shape
<1>e. ASSUME NEW d \in Dialers, UNCHANGED answered,
             \/ wire' = [wire EXCEPT ![d] = << >>]
             \/ wire[d] # << >> /\ wire' = [wire EXCEPT ![d] = Tail(wire[d])]
      PROVE  WireInv'
  <2>1. << >> \in Seq(P)
    OBVIOUS
  <2> HIDE DEF P
  <2> QED BY <1>a, <1>b, <1>e, <2>1 DEF TypeInv, Shape
<1> HIDE DEF P
<1> USE DEF crypto, server
<1>1. CASE UNCHANGED vars
  BY <1>a, <1>1 DEF vars
<1>2. CASE Rekey
  BY <1>a, <1>b, <1>2 DEF TypeInv, Shape, Rekey, Client, Next1
<1>3. ASSUME NEW d \in Dialers, FetchKey(d)
      PROVE  WireInv'
  BY <1>a, <1>b, <1>3 DEF TypeInv, Shape, FetchKey, Goto, Next1
<1>4. ASSUME NEW d \in Dialers, SendInitiation(d)
      PROVE  WireInv'
  BY <1>a, <1>b, <1>4 DEF TypeInv, Shape, SendInitiation, Goto, Next1
<1>5. ASSUME NEW d \in Dialers, GetResponse(d)
      PROVE  WireInv'
  <2>1. \/ wire' = [wire EXCEPT ![d] = << >>]
        \/ wire[d] # << >> /\ wire' = [wire EXCEPT ![d] = Tail(wire[d])]
    BY <1>5 DEF GetResponse, Consume, GiveUp, Next1
  <2> QED BY <1>e, <2>1, <1>5 DEF GetResponse
<1>6. ASSUME NEW d \in Dialers, ReadBody(d)
      PROVE  WireInv'
  BY <1>a, <1>b, <1>6 DEF TypeInv, Shape, ReadBody, Goto, GiveUp, Next1
<1>7. ASSUME NEW d \in Dialers, SetDeadline(d)
      PROVE  WireInv'
  BY <1>a, <1>b, <1>7 DEF TypeInv, Shape, SetDeadline, Goto, Next1
<1>8. ASSUME NEW d \in Dialers, ReadHeader(d)
      PROVE  WireInv'
  <2>1. \/ wire' = [wire EXCEPT ![d] = << >>]
        \/ wire[d] # << >> /\ wire' = [wire EXCEPT ![d] = Tail(wire[d])]
    BY <1>8 DEF ReadHeader, Consume, GiveUp, Next1
  <2> QED BY <1>e, <2>1, <1>8 DEF ReadHeader
<1>9. ASSUME NEW d \in Dialers, ReadErrorMessage(d)
      PROVE  WireInv'
  BY <1>a, <1>b, <1>9 DEF TypeInv, Shape, ReadErrorMessage, Goto, GiveUp, Next1
<1>10. ASSUME NEW d \in Dialers, ReadFails(d)
      PROVE  WireInv'
  BY <1>a, <1>b, <1>10 DEF TypeInv, Shape, ReadFails, Goto, GiveUp, Next1
<1>11. ASSUME NEW d \in Dialers, ReadResponse(d)
      PROVE  WireInv'
  <2>1. \/ wire' = [wire EXCEPT ![d] = << >>]
        \/ wire[d] # << >> /\ wire' = [wire EXCEPT ![d] = Tail(wire[d])]
    BY <1>11 DEF ReadResponse, Finish, Refuse, Consume, GiveUp, Next1
  <2> QED BY <1>e, <2>1, <1>11 DEF ReadResponse
<1>12. ASSUME NEW d \in Dialers, Expire(d)
      PROVE  WireInv'
  BY <1>a, <1>b, <1>12 DEF TypeInv, Shape, Expire, Ended, Next1
<1>13. ASSUME NEW d \in Dialers, AnswerHTTP(d)
      PROVE  WireInv'
  <2>1. <<Status("101")>> \in Seq(P) /\ <<Status("other"), Text>> \in Seq(P)
    BY <1>c
  <2> QED BY <1>d, <2>1, <1>13 DEF AnswerHTTP
<1>14. ASSUME NEW d \in Dialers, Reject(d)
      PROVE  WireInv'
  <2>1. <<Header("error"), Text>> \in Seq(P)
    BY <1>c
  <2> QED BY <1>d, <2>1, <1>14 DEF Reject
<1>15. ASSUME NEW d \in Dialers, AnswerOther(d)
      PROVE  WireInv'
  <2>1. /\ <<Header("other")>> \in Seq(P)
        /\ \A pub \in {Bad, Reply(0)} : <<Header("response"), Garbled(pub)>> \in Seq(P)
    BY <1>c
  <2> QED BY <1>d, <2>1, <1>15 DEF AnswerOther
<1>16. ASSUME NEW d \in Dialers, End(d)
      PROVE  WireInv'
  <2>1. \A n \in 0 .. Len(wire[d]) : SubSeq(wire[d], 1, n) \in Seq(P)
    BY DEF WireInv, P
  <2> QED BY <1>a, <2>1, <1>16 DEF TypeInv, Shape, End
<1>17. ASSUME NEW d \in Dialers, NEW e \in Dialers, Answer(d, e)
      PROVE  WireInv'
  <2>1. PICK c : /\ answered' = answered \cup {c}
                 /\ Send(d, <<Header("response"), c.payload>>)
    BY <1>17 DEF Answer
  <2> DEFINE Q == Pieces(answered')
             s == <<Header("response"), c.payload>>
  <2>2. P \subseteq Q /\ Header("response") \in Q /\ c.payload \in Q
    BY <1>c, <2>1 DEF P, Pieces
  <2> HIDE DEF Q
  <2>3. \A f \in Dialers : wire[f] \in Seq(Q)
    BY <2>2, SeqGrows DEF WireInv, P
  <2>4. s \in Seq(Q)
    BY <2>2
  <2> HIDE DEF s
  <2>5. wire[d] \o s \in Seq(Q)
    BY <2>3, <2>4
  <2>6. wire' = [wire EXCEPT ![d] = wire[d] \o s]
    BY <2>1 DEF Send, s
  <2> QED BY <2>3, <2>5, <2>6 DEF WireInv, Q, TypeInv, Shape
<1> QED BY <1>1, <1>2, <1>3, <1>4, <1>5, <1>6, <1>7, <1>8, <1>9, <1>10, <1>11, <1>12,
     <1>13, <1>14, <1>15, <1>16, <1>17 DEF Next, Dial

-----------------------------------------------------------------------------
(* Agreement: a response that opens is the answer to this dialer. *)

LEMMA OpensIsAnswer ==
    ASSUME SentInv, WireInv, AnswersInv, NEW d \in Dialers,
           step[d] = "payload", Next1(d, "response"),
           Opens(BeforeResponse(hs[d], d, Head(wire[d])[2]), Head(wire[d])[3])
    PROVE  LET tag == Head(wire[d])[3]
               s == BeforeResponse(hs[d], d, Head(wire[d])[2])
           IN  \E a \in answered :
                   /\ a.to = d /\ a.key = key[d] /\ a.peer = Machine(d)
                   /\ a.h = DecryptAndHash(s, tag).h /\ a.tx = C2(s) /\ a.rx = C1(s)
<1> DEFINE p == Head(wire[d])
           s == BeforeResponse(hs[d], d, p[2])
<1>1. p \in Pieces(answered) /\ p[1] = "response"
  BY DEF WireInv, Next1
<1>2. hs[d] = Initiated(d, key[d])
  BY DEF SentInv, Active
<1>3. s = BeforeAnswer(key[d], Initiation(d, key[d]), p[2])
  BY <1>2, ServerFollows
<1>4. Opens(s, p[3])
  BY Zenon
<1> HIDE DEF p, s
<1>5. s.h # << >>
  BY <1>3, HashNotEmpty
<1>6. p \notin MadeUp
  <2>1. p = Garbled(Bad) \/ p = Garbled(Reply(0)) => p[3].h = << >>
    BY DEF Garbled, Sealed, NoState
  <2>2. p # Garbled(Bad) /\ p # Garbled(Reply(0))
    BY <1>4, <1>5, <2>1 DEF Opens
  <2> QED BY <1>1, <2>2 DEF MadeUp, Status, Header, Text
<1>7. PICK a \in answered : p = a.payload
  BY <1>1, <1>6 DEF Pieces
<1>8. PICK n \in 1 .. Cardinality(answered) : IsAnswer(a, key[a.to], Reply(n))
  BY <1>7 DEF AnswersInv
<1> DEFINE r == BeforeAnswer(a.key, Initiation(a.to, key[a.to]), Reply(n))
<1>9. p[2] = Reply(n) /\ p[3] = Sealed(r, << >>)
  BY <1>7, <1>8 DEF IsAnswer
<1>10. a.key = key[d] /\ a.to = d
  <2>1. Opens(BeforeResponse(Initiated(d, key[d]), d, Reply(n)), Sealed(r, << >>))
    BY <1>2, <1>4, <1>9 DEF s
  <2> QED BY <2>1, OpensOwn
<1>11. r = s
  BY <1>3, <1>9, <1>10
<1>12. /\ a.peer = Machine(d) /\ a.h = DecryptAndHash(s, p[3]).h
       /\ a.tx = C2(s) /\ a.rx = C1(s)
  <2> HIDE DEF r
  <2>1. /\ a.peer = Machine(a.to) /\ a.h = EncryptAndHash(r, << >>).h
        /\ a.tx = C2(r) /\ a.rx = C1(r)
    BY <1>8 DEF IsAnswer, r
  <2> QED BY <1>9, <1>10, <1>11, <2>1 DEF EncryptAndHash
<1> QED BY <1>10, <1>12 DEF p, s

LEMMA AgreementStep ==
    TypeInv /\ ConnInv /\ SentInv /\ WireInv /\ AnswersInv /\ Agreement /\ [Next]_vars
    => Agreement'
<1> SUFFICES ASSUME TypeInv, ConnInv, SentInv, WireInv, AnswersInv, Agreement,
                    [Next]_vars
             PROVE  Agreement'
  OBVIOUS
<1>a. ASSUME answered \subseteq answered',
             \A d \in Dialers : step'[d] = "ok" =>
                 step[d] = "ok" /\ result'[d] = result[d] /\ key'[d] = key[d]
      PROVE  Agreement'
  BY <1>a DEF Agreement
<1> USE DEF crypto, server
<1>1. CASE UNCHANGED vars
  BY <1>a, <1>1 DEF vars
<1>2. CASE Rekey
  BY <1>a, <1>2 DEF TypeInv, TypeOK, Shape, Rekey, Client
<1>3. ASSUME NEW d \in Dialers, FetchKey(d)
      PROVE  Agreement'
  BY <1>a, <1>3 DEF TypeInv, TypeOK, Shape, FetchKey, Goto
<1>4. ASSUME NEW d \in Dialers, SendInitiation(d)
      PROVE  Agreement'
  BY <1>a, <1>4 DEF TypeInv, TypeOK, Shape, SendInitiation, Goto
<1>5. ASSUME NEW d \in Dialers, GetResponse(d)
      PROVE  Agreement'
  BY <1>a, <1>5 DEF TypeInv, TypeOK, Shape, GetResponse, Goto, Consume, GiveUp
<1>6. ASSUME NEW d \in Dialers, ReadBody(d)
      PROVE  Agreement'
  BY <1>a, <1>6 DEF TypeInv, TypeOK, Shape, ReadBody, Goto, GiveUp
<1>7. ASSUME NEW d \in Dialers, SetDeadline(d)
      PROVE  Agreement'
  BY <1>a, <1>7 DEF TypeInv, TypeOK, Shape, SetDeadline, Goto
<1>8. ASSUME NEW d \in Dialers, ReadHeader(d)
      PROVE  Agreement'
  BY <1>a, <1>8 DEF TypeInv, TypeOK, Shape, ReadHeader, Goto, Consume, GiveUp
<1>9. ASSUME NEW d \in Dialers, ReadErrorMessage(d)
      PROVE  Agreement'
  BY <1>a, <1>9 DEF TypeInv, TypeOK, Shape, ReadErrorMessage, Goto, GiveUp
<1>10. ASSUME NEW d \in Dialers, ReadFails(d)
      PROVE  Agreement'
  BY <1>a, <1>10 DEF TypeInv, TypeOK, Shape, ReadFails, Goto, GiveUp
<1>11. ASSUME NEW d \in Dialers, ReadResponse(d)
      PROVE  Agreement'
  <2> DEFINE tag == Head(wire[d])[3]
             s == BeforeResponse(hs[d], d, Head(wire[d])[2])
  <2>1. UNCHANGED <<key, answered>>
    BY <1>11 DEF ReadResponse
  <2>2. CASE Refuse(d)
    BY <1>a, <1>11, <2>1, <2>2 DEF Refuse, GiveUp, Goto, TypeInv, TypeOK
  <2>3. CASE Opens(s, tag) /\ Finish(d, DecryptAndHash(s, tag))
    <3>1. PICK a \in answered :
              /\ a.to = d /\ a.key = key[d] /\ a.peer = Machine(d)
              /\ a.h = DecryptAndHash(s, tag).h /\ a.tx = C2(s) /\ a.rx = C1(s)
      BY <1>11, <2>3, OpensIsAnswer DEF ReadResponse
    <3>2. C1(DecryptAndHash(s, tag)) = C1(s) /\ C2(DecryptAndHash(s, tag)) = C2(s)
      <4>1. s = BeforeAnswer(key[d], Initiation(d, key[d]), Head(wire[d])[2])
        BY <1>11, ServerFollows DEF ReadResponse, SentInv, Active
      <4> QED BY <4>1, AnswerFields, DecryptKeepsKeys
    <3> HIDE DEF s, tag
    <3>3. /\ result'[d].h = a.h /\ result'[d].tx = a.rx /\ result'[d].rx = a.tx
      BY <2>3, <3>1, <3>2 DEF Finish, TypeInv, Shape
    <3>4. \A f \in Dialers \ {d} : step'[f] = step[f] /\ result'[f] = result[f]
      BY <2>3 DEF Finish, Goto, TypeInv, TypeOK, Shape
    <3> QED BY <2>1, <3>1, <3>3, <3>4 DEF Agreement
  <2> QED BY <1>11, <2>2, <2>3 DEF ReadResponse
<1>12. ASSUME NEW d \in Dialers, Expire(d)
      PROVE  Agreement'
  BY <1>a, <1>12 DEF TypeInv, TypeOK, Shape, Expire, Ended
<1>13. ASSUME NEW d \in Dialers, AnswerHTTP(d)
      PROVE  Agreement'
  BY <1>a, <1>13 DEF TypeInv, TypeOK, Shape, AnswerHTTP, Waiting, Serve, Send, Client
<1>14. ASSUME NEW d \in Dialers, Reject(d)
      PROVE  Agreement'
  BY <1>a, <1>14 DEF TypeInv, TypeOK, Shape, Reject, Waiting, Serve, Send, Client
<1>15. ASSUME NEW d \in Dialers, AnswerOther(d)
      PROVE  Agreement'
  BY <1>a, <1>15 DEF TypeInv, TypeOK, Shape, AnswerOther, Waiting, Serve, Send, Client
<1>16. ASSUME NEW d \in Dialers, End(d)
      PROVE  Agreement'
  BY <1>a, <1>16 DEF TypeInv, TypeOK, Shape, End, Ended, Client
<1>17. ASSUME NEW d \in Dialers, NEW e \in Dialers, Answer(d, e)
      PROVE  Agreement'
  BY <1>a, <1>17 DEF TypeInv, TypeOK, Shape, Answer, Waiting, Serve, Send, Client
<1> QED BY <1>1, <1>2, <1>3, <1>4, <1>5, <1>6, <1>7, <1>8, <1>9, <1>10, <1>11, <1>12,
     <1>13, <1>14, <1>15, <1>16, <1>17 DEF Next, Dial

(***************************************************************************)
(* A handshake that ends well at a dialer is one that the server has       *)
(* completed with this dialer, for the key the dialer meant, over the same *)
(* hash and with matching ciphers.  It needs that what opens tells who     *)
(* sealed it (OpensOwn) and that the stream has nothing but what the       *)
(* server put there (WireInv).                                             *)
(***************************************************************************)
THEOREM AgreementCorrect == Spec => []Agreement
<1> DEFINE Inv == TypeInv /\ ConnInv /\ SentInv /\ WireInv /\ AnswersInv /\ Agreement
<1>1. Init => Inv
  <2> SUFFICES ASSUME Init PROVE Inv
    OBVIOUS
  <2>1. TypeInv
    BY TypeInit
  <2>2. ConnInv /\ SentInv /\ Agreement
    BY DEF Init, ConnInv, SentInv, Agreement, Active
  <2>3. WireInv
    BY DEF Init, WireInv
  <2>4. AnswersInv
    BY FS_EmptySet DEF Init, AnswersInv
  <2> QED BY <2>1, <2>2, <2>3, <2>4
<1>2. Inv /\ [Next]_vars => Inv'
  BY TypeStep, ConnStep, SentStep, WireStep, AnswersStep, AgreementStep
<1> QED BY <1>1, <1>2, PTL DEF Spec

-----------------------------------------------------------------------------
(* Nobody refuses what was made for it. *)

HonestInv ==
    /\ HonestIsAccepted
    /\ \A d \in Dialers : refused[d] \in {NoPayload} \cup Pieces(answered)

\* The answer to a dialer, under the key it meant, opens for it.
LEMMA OwnAnswerOpens ==
    ASSUME SentInv, AnswersInv, NEW d \in Dialers, step[d] = "payload",
           NEW a \in answered, a.to = d, a.key = key[d]
    PROVE  /\ CanMixDH(a.payload[2])
           /\ Opens(BeforeResponse(hs[d], d, a.payload[2]), a.payload[3])
<1>1. PICK n \in 1 .. Cardinality(answered) : IsAnswer(a, key[d], Reply(n))
  BY DEF AnswersInv
<1> DEFINE r == BeforeAnswer(key[d], Initiation(d, key[d]), Reply(n))
<1>2. a.payload[2] = Reply(n) /\ a.payload[3] = Sealed(r, << >>)
  BY <1>1 DEF IsAnswer
<1>3. r = BeforeResponse(hs[d], d, Reply(n))
  BY ServerFollows DEF SentInv, Active
<1>4. CanMixDH(Reply(n))
  BY DEF CanMixDH, Reply, Bad
<1> HIDE DEF r
<1>5. Opens(r, Sealed(r, << >>))
  BY DEF Opens, Sealed
<1> QED BY <1>2, <1>3, <1>4, <1>5

\* A new answer is none of the texts that were refused before.
LEMMA NewIsNotRefused ==
    ASSUME AnswersInv, HonestInv, NEW c, NEW k,
           IsAnswer(c, k, Reply(Cardinality(answered) + 1))
    PROVE  \A d \in Dialers : refused[d] # c.payload
<1> SUFFICES ASSUME NEW d \in Dialers, refused[d] = c.payload PROVE FALSE
  OBVIOUS
<1>1. Cardinality(answered) \in Nat
  BY FS_CardinalityType DEF AnswersInv
<1>2. c.payload[1] = "response" /\ c.payload[2] = Reply(Cardinality(answered) + 1)
  BY DEF IsAnswer
<1>3. refused[d] # NoPayload
  BY <1>2 DEF NoPayload
<1>4. refused[d] \notin MadeUp
  <2>1. Garbled(Bad)[2] = Bad /\ Garbled(Reply(0))[2] = Reply(0)
    BY DEF Garbled
  <2>2. Cardinality(answered) + 1 # 0
    BY <1>1
  <2>3. /\ Reply(Cardinality(answered) + 1) # Reply(0)
        /\ Reply(Cardinality(answered) + 1) # Bad
    BY <2>2 DEF Reply, Bad
  <2>4. refused[d] # Garbled(Bad) /\ refused[d] # Garbled(Reply(0))
    BY <1>2, <2>1, <2>3
  <2> QED BY <1>2, <2>4 DEF MadeUp, Status, Header, Text
<1>5. PICK a \in answered : refused[d] = a.payload
  BY <1>3, <1>4 DEF HonestInv, Pieces
<1> QED BY <1>5, AnswerIsNew

LEMMA HonestStep ==
    TypeInv /\ ConnInv /\ SentInv /\ WireInv /\ AnswersInv /\ HonestInv /\ [Next]_vars
    => HonestInv'
<1> SUFFICES ASSUME TypeInv, ConnInv, SentInv, WireInv, AnswersInv, HonestInv,
                    [Next]_vars
             PROVE  HonestInv'
  OBVIOUS
<1>a. ASSUME UNCHANGED <<answered, refused>>,
             \A d \in Dialers :
                 /\ srv'[d].step = "rejected" => srv'[d] = srv[d]
                 /\ srv[d].step # "none" => key'[d] = key[d]
      PROVE  HonestInv'
  BY <1>a DEF HonestInv, HonestIsAccepted, AnswersInv
<1> USE DEF crypto, server
<1>1. CASE UNCHANGED vars
  BY <1>a, <1>1 DEF vars
<1>2. CASE Rekey
  BY <1>a, <1>2 DEF TypeInv, TypeOK, Shape, ConnInv, SentInv, Rekey, Client
<1>3. ASSUME NEW d \in Dialers, FetchKey(d)
      PROVE  HonestInv'
  BY <1>a, <1>3 DEF TypeInv, TypeOK, Shape, ConnInv, SentInv, FetchKey, Goto
<1>4. ASSUME NEW d \in Dialers, SendInitiation(d)
      PROVE  HonestInv'
  BY <1>a, <1>4 DEF TypeInv, TypeOK, Shape, ConnInv, SentInv, SendInitiation, Goto
<1>5. ASSUME NEW d \in Dialers, GetResponse(d)
      PROVE  HonestInv'
  BY <1>a, <1>5 DEF TypeInv, TypeOK, Shape, ConnInv, SentInv, GetResponse, Goto, Consume, GiveUp
<1>6. ASSUME NEW d \in Dialers, ReadBody(d)
      PROVE  HonestInv'
  BY <1>a, <1>6 DEF TypeInv, TypeOK, Shape, ConnInv, SentInv, ReadBody, Goto, GiveUp
<1>7. ASSUME NEW d \in Dialers, SetDeadline(d)
      PROVE  HonestInv'
  BY <1>a, <1>7 DEF TypeInv, TypeOK, Shape, ConnInv, SentInv, SetDeadline, Goto
<1>8. ASSUME NEW d \in Dialers, ReadHeader(d)
      PROVE  HonestInv'
  BY <1>a, <1>8 DEF TypeInv, TypeOK, Shape, ConnInv, SentInv, ReadHeader, Goto, Consume, GiveUp
<1>9. ASSUME NEW d \in Dialers, ReadErrorMessage(d)
      PROVE  HonestInv'
  BY <1>a, <1>9 DEF TypeInv, TypeOK, Shape, ConnInv, SentInv, ReadErrorMessage, Goto, GiveUp
<1>10. ASSUME NEW d \in Dialers, ReadFails(d)
      PROVE  HonestInv'
  BY <1>a, <1>10 DEF TypeInv, TypeOK, Shape, ConnInv, SentInv, ReadFails, Goto, GiveUp
<1>11. ASSUME NEW d \in Dialers, ReadResponse(d)
      PROVE  HonestInv'
  <2> DEFINE p == Head(wire[d])
             s == BeforeResponse(hs[d], d, p[2])
  <2>1. step[d] = "payload" /\ p \in Pieces(answered) /\ UNCHANGED <<key, answered, srv>>
    BY <1>11 DEF ReadResponse, Next1, WireInv
  <2>2. CASE Finish(d, DecryptAndHash(s, p[3]))
    BY <1>a, <2>1, <2>2 DEF Finish
  <2>3. CASE Refuse(d) /\ ~(CanMixDH(p[2]) /\ Opens(s, p[3]))
    <3>1. refused' = [refused EXCEPT ![d] = p]
      BY <2>3 DEF Refuse
    <3>2. \A a \in answered : a.to = d /\ a.key = key[d] => a.payload # p
      BY <2>1, <2>3, OwnAnswerOpens
    <3> HIDE DEF p, s
    <3> QED BY <2>1, <3>1, <3>2 DEF HonestInv, HonestIsAccepted, TypeInv, Shape
  <2> QED BY <1>11, <2>2, <2>3 DEF ReadResponse
<1>12. ASSUME NEW d \in Dialers, Expire(d)
      PROVE  HonestInv'
  BY <1>a, <1>12 DEF TypeInv, TypeOK, Shape, ConnInv, SentInv, Expire, Ended
<1>13. ASSUME NEW d \in Dialers, AnswerHTTP(d)
      PROVE  HonestInv'
  BY <1>a, <1>13 DEF TypeInv, TypeOK, Shape, ConnInv, SentInv, AnswerHTTP, Waiting, Serve, Send, Client
<1>14. ASSUME NEW d \in Dialers, Reject(d)
      PROVE  HonestInv'
  <2>1. sent[d] = Initiation(d, key[d])
    BY <1>14 DEF Reject, Waiting, SentInv
  <2>2. serverKey # key[d]
    BY <1>14, <2>1, AcceptsOwn DEF Reject
  <2>3. /\ srv' = [srv EXCEPT ![d] = [step |-> "rejected", key |-> serverKey]]
        /\ UNCHANGED <<key, refused, answered>>
    BY <1>14 DEF Reject, Serve, Client
  <2>4. \A f \in Dialers : srv'[f].step = "rejected" => srv'[f].key # key[f]
    BY <2>2, <2>3 DEF HonestInv, HonestIsAccepted, TypeInv, Shape
  <2> QED BY <2>3, <2>4 DEF HonestInv, HonestIsAccepted
<1>15. ASSUME NEW d \in Dialers, AnswerOther(d)
      PROVE  HonestInv'
  BY <1>a, <1>15 DEF TypeInv, TypeOK, Shape, ConnInv, SentInv, AnswerOther, Waiting, Serve, Send, Client
<1>16. ASSUME NEW d \in Dialers, End(d)
      PROVE  HonestInv'
  BY <1>a, <1>16 DEF TypeInv, TypeOK, Shape, ConnInv, SentInv, End, Ended, Client
<1>17. ASSUME NEW d \in Dialers, NEW e \in Dialers, Answer(d, e)
      PROVE  HonestInv'
  <2> DEFINE c == Completed(e, Reply(Cardinality(answered) + 1))
  <2>1. /\ answered' = answered \cup {c} /\ UNCHANGED <<key, refused>>
        /\ srv' = [srv EXCEPT ![d] = [step |-> "done", key |-> Bad]]
    BY <1>17 DEF Answer, Client, Serve
  <2>2. IsAnswer(c, key[e], Reply(Cardinality(answered) + 1))
    BY <1>17, CompletedIs DEF SentInv, Answer
  <2> HIDE DEF c
  <2>3. \A f \in Dialers : refused[f] # c.payload
    BY <2>2, NewIsNotRefused
  <2>4. \A f \in Dialers : srv'[f].step = "rejected" => srv'[f].key # key[f]
    BY <2>1 DEF HonestInv, HonestIsAccepted, TypeInv, Shape
  <2>5. Pieces(answered) \subseteq Pieces(answered')
    BY <2>1 DEF Pieces
  <2> QED BY <2>1, <2>3, <2>4, <2>5 DEF HonestInv, HonestIsAccepted
<1> QED BY <1>1, <1>2, <1>3, <1>4, <1>5, <1>6, <1>7, <1>8, <1>9, <1>10, <1>11, <1>12,
     <1>13, <1>14, <1>15, <1>16, <1>17 DEF Next, Dial

(***************************************************************************)
(* Neither end refuses a message that the other made for it with the key   *)
(* they share: both mix the same things in the same order (ServerFollows). *)
(***************************************************************************)
THEOREM HonestCorrect == Spec => []HonestIsAccepted
<1> DEFINE Inv == TypeInv /\ ConnInv /\ SentInv /\ WireInv /\ AnswersInv /\ HonestInv
<1>1. Init => Inv
  <2> SUFFICES ASSUME Init PROVE Inv
    OBVIOUS
  <2>1. TypeInv /\ HonestInv
    BY TypeInit DEF Init, HonestInv, HonestIsAccepted
  <2>2. ConnInv /\ SentInv
    BY DEF Init, ConnInv, SentInv, Active
  <2>3. WireInv
    BY DEF Init, WireInv
  <2>4. AnswersInv
    BY FS_EmptySet DEF Init, AnswersInv
  <2> QED BY <2>1, <2>2, <2>3, <2>4
<1>2. Inv /\ [Next]_vars => Inv'
  BY TypeStep, ConnStep, SentStep, WireStep, AnswersStep, HonestStep
<1>3. Inv => HonestIsAccepted
  BY DEF HonestInv
<1> QED BY <1>1, <1>2, <1>3, PTL DEF Spec
=============================================================================
