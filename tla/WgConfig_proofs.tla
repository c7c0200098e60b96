--------------------------- MODULE WgConfig_proofs ---------------------------
(***************************************************************************)
(* Proofs about WgConfig, for every map, every command line and any number *)
(* of peers, addresses and endpoints.                                      *)
(***************************************************************************)
EXTENDS WgConfig, SequenceTheorems, WellFoundedInduction, TLAPS

-----------------------------------------------------------------------------
(* The least and the greatest of a set of numbers *)

\* A set of naturals that is not empty has a least element.
LEMMA MinNat ==
  ASSUME NEW S \in SUBSET Nat, S # {}
  PROVE  Min(S) \in S /\ \A y \in S : Min(S) =< y
<1> DEFINE R == {ss \in Nat \X Nat : ss[1] < ss[2]}
<1>1. R = OpToRel(<, Nat)
  BY Zenon DEF OpToRel
<1>2. IsWellFoundedOn(R, Nat)
  BY <1>1, NatLessThanWellFounded, Zenon
<1>3. PICK x \in S : \A y \in S : ~(<<y, x>> \in R)
  BY <1>2, WFMin
<1>4. ASSUME NEW y \in S PROVE x =< y
  <2>1. x \in Nat /\ y \in Nat
    OBVIOUS
  <2>2. y < x => <<y, x>> \in R
    BY <2>1
  <2>3. ~(y < x)
    BY <1>3, <2>2, Zenon
  <2> QED
    BY <2>1, <2>3
<1> QED
  BY <1>4 DEF Min

\* One with a bound has a greatest one.
LEMMA MaxNat ==
  ASSUME NEW n \in Nat, NEW S \in SUBSET (1 .. n), S # {}
  PROVE  Max(S) \in S
<1> DEFINE T == {m \in Nat : n - m \in S}
<1>1. PICK x \in S : TRUE
  OBVIOUS
<1>2. n - x \in Nat /\ n - (n - x) = x
  OBVIOUS
<1>3. T \in SUBSET Nat /\ T # {}
  BY <1>1, <1>2
<1>4. DEFINE t == Min(T)
<1>5. t \in T /\ \A u \in T : t =< u
  BY <1>3, MinNat
<1>6. ASSUME NEW y \in S PROVE n - t >= y
  <2>1. n - y \in T
    OBVIOUS
  <2> QED
    BY <2>1, <1>5
<1> QED
  BY <1>5, <1>6 DEF Max

-----------------------------------------------------------------------------
(* The lines of one entry *)

\* The entry that a line was written for.
EntryOf(l) ==
    CASE l[1] = "public_key" -> l[2]
      [] l[1] = "allowed_ip" -> l[2][1]
      [] OTHER -> IF l[2][1] = "map" THEN l[2][2] ELSE l[2][2][1]

Families == {"v4", "v6"}
Ends ==
    ({"override", "local"} \X (Nodes \X Families)) \cup ({"map"} \X Nodes \X (1 .. MaxEps))
Texts ==
    ({"public_key"} \X Nodes) \cup ({"allowed_ip"} \X (Nodes \X Families))
        \cup ({"endpoint"} \X Ends)

Entry == [nil : BOOLEAN, node : Nodes, key : BOOLEAN,
          addrs : Seq(Nodes \X Families), eps : Seq({"map"} \X Nodes \X (1 .. MaxEps))]

\* The i-th entry is about node i, and so are its addresses and endpoints.
MapOf(m) ==
    /\ m \in Seq(Entry)
    /\ \A i \in DOMAIN m :
          /\ m[i].node = i /\ i \in Nodes
          /\ \A j \in DOMAIN m[i].addrs : m[i].addrs[j][1] = i
          /\ \A j \in DOMAIN m[i].eps : m[i].eps[j] = <<"map", i, j>>

MapInv == MapOf(map)

\* What AddressLines makes of a list of addresses of one entry.
LEMMA AddressLinesValue ==
  ASSUME NEW n, n.addrs \in Seq(Nodes \X {"v4", "v6"})
  PROVE  /\ AddressLines(n) = [k \in 1 .. 2 * Len(n.addrs) |-> AddressLines(n)[k]]
         /\ 2 * Len(n.addrs) \in Nat
         /\ \A k \in 1 .. 2 * Len(n.addrs) :
               \/ AddressLines(n)[k] = <<"public_key", n.node>>
               \/ /\ k > 1 /\ AddressLines(n)[k - 1] = <<"public_key", n.node>>
                  /\ \E j \in DOMAIN n.addrs :
                        AddressLines(n)[k] = <<"allowed_ip", n.addrs[j]>>
         /\ \A j \in DOMAIN n.addrs :
               /\ 2 * j \in 1 .. 2 * Len(n.addrs)
               /\ AddressLines(n)[2 * j] = <<"allowed_ip", n.addrs[j]>>
<1> DEFINE L == 2 * Len(n.addrs)
<1>1. L \in Nat /\ DOMAIN n.addrs = 1 .. Len(n.addrs) /\ Len(n.addrs) \in Nat
  OBVIOUS
<1>2. AddressLines(n) = [k \in 1 .. L |-> AddressLines(n)[k]]
  BY DEF AddressLines
<1>3. ASSUME NEW k \in 1 .. L, k % 2 = 1
      PROVE  AddressLines(n)[k] = <<"public_key", n.node>>
  BY <1>3 DEF AddressLines
<1>4. ASSUME NEW k \in 1 .. L, k % 2 # 1
      PROVE  /\ k - 1 \in 1 .. L /\ (k - 1) % 2 = 1
             /\ k \div 2 \in DOMAIN n.addrs
             /\ AddressLines(n)[k] = <<"allowed_ip", n.addrs[k \div 2]>>
  <2>1. k \in Nat /\ Len(n.addrs) \in Nat /\ k <= 2 * Len(n.addrs)
    BY <1>1
  <2>2. k - 1 \in 1 .. L /\ (k - 1) % 2 = 1 /\ k \div 2 \in 1 .. Len(n.addrs)
    BY <1>1, <1>4, <2>1
  <2> QED
    BY <1>1, <1>4, <2>2 DEF AddressLines
<1>5. ASSUME NEW j \in DOMAIN n.addrs
      PROVE  /\ 2 * j \in 1 .. L
             /\ AddressLines(n)[2 * j] = <<"allowed_ip", n.addrs[j]>>
  <2>1. 2 * j \in 1 .. L /\ (2 * j) % 2 = 0 /\ (2 * j) \div 2 = j
    BY <1>1
  <2> QED
    BY <2>1 DEF AddressLines
<1>6. ASSUME NEW k \in 1 .. L
      PROVE  \/ AddressLines(n)[k] = <<"public_key", n.node>>
             \/ /\ k > 1 /\ AddressLines(n)[k - 1] = <<"public_key", n.node>>
                /\ \E j \in DOMAIN n.addrs : AddressLines(n)[k] = <<"allowed_ip", n.addrs[j]>>
  <2>1. CASE k % 2 = 1
    BY <2>1, <1>3
  <2>2. CASE k % 2 # 1
    <3>1. k - 1 \in 1 .. L /\ (k - 1) % 2 = 1 /\ k > 1
      BY <1>1, <1>4, <2>2
    <3> QED
      BY <1>3, <1>4, <2>2, <3>1
  <2> QED
    BY <2>1, <2>2
<1> QED
  BY <1>1, <1>2, <1>5, <1>6

\* An entry of the map, by MapInv.
LEMMA EntryType ==
  ASSUME MapInv, NEW i \in DOMAIN map
  PROVE  /\ i \in Nodes /\ map[i].node = i /\ map[i].key \in BOOLEAN
         /\ map[i].addrs \in Seq(Nodes \X Families)
         /\ map[i].eps \in Seq({"map"} \X Nodes \X (1 .. MaxEps))
         /\ \A j \in DOMAIN map[i].addrs :
               map[i].addrs[j] \in Nodes \X Families /\ map[i].addrs[j][1] = i
         /\ \A j \in DOMAIN map[i].eps : map[i].eps[j] = <<"map", i, j>> /\ j \in 1 .. MaxEps
<1>1. map[i] \in Entry
  BY DEF MapInv, MapOf
<1>2. \A j \in DOMAIN map[i].addrs : map[i].addrs[j] \in Nodes \X Families
  BY <1>1 DEF Entry
<1>3. \A j \in DOMAIN map[i].eps : map[i].eps[j] \in {"map"} \X Nodes \X (1 .. MaxEps)
  BY <1>1 DEF Entry
<1>4. ASSUME NEW j \in DOMAIN map[i].eps PROVE j \in 1 .. MaxEps
  <2>1. map[i].eps[j] = <<"map", i, j>>
    BY DEF MapInv, MapOf
  <2> QED
    BY <1>3, <2>1
<1> QED
  BY <1>1, <1>2, <1>4 DEF MapInv, MapOf, Entry

\* The endpoint lines of an entry: an override, all of the map, or this machine.
LEMMA EndpointCases ==
  ASSUME MapInv, NEW i \in DOMAIN map
  PROVE  /\ Given(i) # {} =>
               \E a \in Given(i) : EndpointLines(map[i]) = <<<<"endpoint", <<"override", a>>>>>>
         /\ Given(i) = {} /\ map[i].eps # << >> => EndpointLines(map[i]) = MapLines(map[i])
         /\ Given(i) = {} /\ map[i].eps = << >> => EndpointLines(map[i]) = LocalLines(map[i])
<1> DEFINE n == map[i]
           S == {j \in 1 .. Len(n.addrs) : n.addrs[j] \in overrides}
<1>1. n.addrs \in Seq(Nodes \X Families) /\ DOMAIN n.addrs = 1 .. Len(n.addrs)
  BY EntryType
<1>2. OverrideLines(n) = IF S = {} THEN << >>
                         ELSE <<<<"endpoint", <<"override", n.addrs[Min(S)]>>>>>>
  <2>1. S # {} => Min(S) # 0
    <3>1. S \in SUBSET Nat
      OBVIOUS
    <3>2. S # {} => Min(S) \in S
      BY <3>1, MinNat
    <3> QED
      BY <3>2
  <2> QED
    BY <2>1 DEF OverrideLines, SelectInSeq
<1>3. CASE S = {}
  <2>1. Given(i) = {}
    BY <1>1, <1>3 DEF Given, ToSet
  <2> QED
    BY <1>2, <1>3, <2>1 DEF EndpointLines
<1>4. CASE S # {}
  <2>1. S \in SUBSET Nat
    OBVIOUS
  <2>2. Min(S) \in S
    BY <1>4, <2>1, MinNat
  <2>3. n.addrs[Min(S)] \in Given(i)
    BY <1>1, <2>2 DEF Given, ToSet
  <2>4. OverrideLines(n) = <<<<"endpoint", <<"override", n.addrs[Min(S)]>>>>>>
    BY <1>2, <1>4
  <2>5. EndpointLines(n) = OverrideLines(n)
    BY <2>4 DEF EndpointLines
  <2> QED
    BY <2>3, <2>4, <2>5
<1> QED
  BY <1>3, <1>4

\* Each of them is an endpoint, and one of that entry.
LEMMA EndpointFacts ==
  ASSUME MapInv, NEW i \in DOMAIN map
  PROVE  /\ EndpointLines(map[i]) \in Seq(Texts)
         /\ \A k \in DOMAIN EndpointLines(map[i]) :
               /\ EndpointLines(map[i])[k][1] = "endpoint"
               /\ EntryOf(EndpointLines(map[i])[k]) = i
<1> DEFINE n == map[i]
           E == EndpointLines(n)
<1>0. i \in Nodes
  BY EntryType
<1>1. ASSUME NEW v \in Ends PROVE <<"endpoint", v>> \in Texts
  BY DEF Texts
<1>2. ASSUME NEW a \in Nodes \X Families, a[1] = i, NEW w \in {"override", "local"},
             E = <<<<"endpoint", <<w, a>>>>>>
      PROVE  E \in Seq(Texts) /\ \A k \in DOMAIN E : E[k][1] = "endpoint" /\ EntryOf(E[k]) = i
  <2>1. <<w, a>> \in Ends
    BY DEF Ends
  <2>2. EntryOf(<<"endpoint", <<w, a>>>>) = i
    BY <1>2 DEF EntryOf
  <2>3. <<"endpoint", <<w, a>>>> \in Texts
    BY <1>1, <2>1
  <2> QED
    BY <1>2, <2>2, <2>3
<1>3. CASE E = MapLines(n)
  <2>1. n.eps \in Seq({"map"} \X Nodes \X (1 .. MaxEps))
    BY EntryType
  <2>2. \A k \in DOMAIN n.eps : E[k] = <<"endpoint", n.eps[k]>>
    BY <1>3 DEF MapLines
  <2>3. \A k \in DOMAIN n.eps : n.eps[k] = <<"map", i, k>> /\ n.eps[k] \in Ends
    BY <1>0, EntryType DEF Ends
  <2>4. \A k \in DOMAIN n.eps : EntryOf(E[k]) = i /\ E[k][1] = "endpoint"
    BY <2>2, <2>3 DEF EntryOf
  <2>5. E = [k \in 1 .. Len(n.eps) |-> <<"endpoint", n.eps[k]>>] /\ Len(n.eps) \in Nat
    BY <1>3, <2>1 DEF MapLines
  <2>6. \A k \in 1 .. Len(n.eps) : <<"endpoint", n.eps[k]>> \in Texts
    BY <1>1, <2>1, <2>3
  <2>7. DOMAIN n.eps = 1 .. Len(n.eps)
    BY <2>1
  <2>8. DOMAIN E = DOMAIN n.eps
    BY <2>5, <2>7
  <2>9. E \in Seq(Texts)
    BY <2>5, <2>6
  <2> QED
    BY <2>4, <2>8, <2>9
<1>4. CASE E = << >>
  BY <1>4
<1>5. CASE E = LocalLines(n)
  <2>1. CASE n.addrs # << >> /\ n.addrs[1][2] = "v4"
    <3>1. 1 \in DOMAIN n.addrs
      BY <2>1, EntryType
    <3>2. n.addrs[1] \in Nodes \X Families /\ n.addrs[1][1] = i
      BY <3>1, EntryType
    <3>3. E = <<<<"endpoint", <<"local", n.addrs[1]>>>>>>
      BY <1>5, <2>1 DEF LocalLines
    <3> QED
      BY <1>2, <3>2, <3>3
  <2>2. CASE ~(n.addrs # << >> /\ n.addrs[1][2] = "v4")
    BY <1>4, <1>5, <2>2 DEF LocalLines
  <2> QED
    BY <2>1, <2>2
<1>6. CASE Given(i) # {}
  <2>1. PICK a \in Given(i) : E = <<<<"endpoint", <<"override", a>>>>>>
    BY <1>6, EndpointCases
  <2>2. a \in Nodes \X Families /\ a[1] = i
    BY EntryType DEF Given, ToSet
  <2> QED
    BY <1>2, <2>1, <2>2
<1> QED
  BY <1>3, <1>5, <1>6, EndpointCases

-----------------------------------------------------------------------------
(* The text *)

\* The line at k of s is one that runWireGuard writes for its entry.
LineOf(s, k) ==
    LET i == EntryOf(s[k])
    IN  /\ map[i].key
        /\ s[k][1] = "public_key" => i \in Headed
        /\ s[k][1] = "allowed_ip" =>
              i \in Headed /\ s[k][2] \in ToSet(map[i].addrs)
              /\ k > 1 /\ s[k - 1] = <<"public_key", i>>
        /\ s[k][1] = "endpoint" =>
              EndpointLines(map[i]) # << >> /\ s[k] \in ToSet(EndpointLines(map[i]))

\* The entries come in order, and in each the endpoints last.
InOrder(s) ==
    \A j, k \in DOMAIN s : j < k =>
        /\ EntryOf(s[j]) <= EntryOf(s[k])
        /\ EntryOf(s[j]) = EntryOf(s[k]) /\ s[j][1] = "endpoint" => s[k][1] = "endpoint"

\* The text says of entry i all that it should: each address, and as the
\* last line the endpoint that counts.
Said(s, i) ==
    /\ \A a \in ToSet(map[i].addrs) : \E k \in DOMAIN s : s[k] = <<"allowed_ip", a>>
    /\ EndpointLines(map[i]) # << >> =>
          \E k \in DOMAIN s : /\ s[k] = Last(EndpointLines(map[i]))
                              /\ \A j \in DOMAIN s : j > k => EntryOf(s[j]) # i

\* The text s is that of the first n entries.
Text(s, n) ==
    /\ s \in Seq(Texts)
    /\ \A k \in DOMAIN s : EntryOf(s[k]) \in 1 .. n /\ LineOf(s, k)
    /\ InOrder(s)
    /\ \A i \in 1 .. n : map[i].key => Said(s, i)

\* What an entry with a key adds to the text.
Block(i) == AddressLines(map[i]) \o EndpointLines(map[i])
Cut(i) == 2 * Len(map[i].addrs)

\* The lines of the addresses, each after the key.
LEMMA AddressFacts ==
  ASSUME MapInv, NEW i \in DOMAIN map
  PROVE  LET A == AddressLines(map[i])
         IN  /\ A \in Seq(Texts) /\ Len(A) = Cut(i) /\ Cut(i) \in Nat
             /\ \A k \in 1 .. Cut(i) :
                   \/ A[k] = <<"public_key", i>>
                   \/ /\ k > 1 /\ A[k - 1] = <<"public_key", i>>
                      /\ \E j \in DOMAIN map[i].addrs : A[k] = <<"allowed_ip", map[i].addrs[j]>>
             /\ \A j \in DOMAIN map[i].addrs :
                   2 * j \in 1 .. Cut(i) /\ A[2 * j] = <<"allowed_ip", map[i].addrs[j]>>
<1> DEFINE A == AddressLines(map[i])
           n == map[i]
<1>1. /\ n.addrs \in Seq(Nodes \X Families) /\ n.node = i /\ i \in Nodes
      /\ \A j \in DOMAIN n.addrs : n.addrs[j] \in Nodes \X Families
  BY EntryType
<1>2. /\ A = [k \in 1 .. 2 * Len(n.addrs) |-> A[k]]
      /\ 2 * Len(n.addrs) \in Nat
      /\ \A k \in 1 .. 2 * Len(n.addrs) :
            \/ A[k] = <<"public_key", i>>
            \/ /\ k > 1 /\ A[k - 1] = <<"public_key", i>>
               /\ \E j \in DOMAIN n.addrs : A[k] = <<"allowed_ip", n.addrs[j]>>
      /\ \A j \in DOMAIN n.addrs :
            2 * j \in 1 .. 2 * Len(n.addrs) /\ A[2 * j] = <<"allowed_ip", n.addrs[j]>>
  <2>1. n.addrs \in Seq(Nodes \X {"v4", "v6"})
    BY <1>1 DEF Families
  <2>2. /\ A = [k \in 1 .. 2 * Len(n.addrs) |-> A[k]]
        /\ 2 * Len(n.addrs) \in Nat
        /\ \A k \in 1 .. 2 * Len(n.addrs) :
              \/ A[k] = <<"public_key", n.node>>
              \/ /\ k > 1 /\ A[k - 1] = <<"public_key", n.node>>
                 /\ \E j \in DOMAIN n.addrs : A[k] = <<"allowed_ip", n.addrs[j]>>
        /\ \A j \in DOMAIN n.addrs :
              2 * j \in 1 .. 2 * Len(n.addrs) /\ A[2 * j] = <<"allowed_ip", n.addrs[j]>>
    BY <2>1, AddressLinesValue, Zenon
  <2> HIDE DEF A
  <2> QED
    BY <1>1, <2>2
<1>3. \A k \in 1 .. 2 * Len(n.addrs) : A[k] \in Texts
  <2>1. <<"public_key", i>> \in Texts
    BY <1>1 DEF Texts
  <2>2. \A j \in DOMAIN n.addrs : <<"allowed_ip", n.addrs[j]>> \in Texts
    BY <1>1 DEF Texts
  <2> QED
    BY <1>2, <2>1, <2>2
<1>4. A \in Seq(Texts) /\ Len(A) = 2 * Len(n.addrs)
  <2> HIDE DEF A
  <2> QED
    BY <1>2, <1>3
<1> HIDE DEF A
<1> QED
  BY <1>2, <1>4 DEF Cut, A

\* The block of an entry: its addresses, each after the key, then its endpoints.
LEMMA BlockFacts ==
  ASSUME MapInv, NEW i \in DOMAIN map
  PROVE  /\ Block(i) \in Seq(Texts) /\ Cut(i) \in Nat
         /\ Len(Block(i)) = Cut(i) + Len(EndpointLines(map[i]))
         /\ \A k \in 1 .. Cut(i) :
               \/ Block(i)[k] = <<"public_key", i>>
               \/ /\ k > 1 /\ Block(i)[k - 1] = <<"public_key", i>>
                  /\ \E j \in DOMAIN map[i].addrs : Block(i)[k] = <<"allowed_ip", map[i].addrs[j]>>
         /\ \A j \in DOMAIN map[i].addrs :
               /\ 2 * j \in 1 .. Cut(i)
               /\ Block(i)[2 * j] = <<"allowed_ip", map[i].addrs[j]>>
         /\ \A k \in 1 .. Len(EndpointLines(map[i])) :
               Block(i)[Cut(i) + k] = EndpointLines(map[i])[k]
<1> DEFINE A == AddressLines(map[i])
           E == EndpointLines(map[i])
           n == map[i]
<1>1. A \in Seq(Texts) /\ Len(A) = Cut(i) /\ Cut(i) \in Nat
  BY AddressFacts
<1>2. /\ \A k \in 1 .. Cut(i) :
            \/ A[k] = <<"public_key", i>>
            \/ /\ k > 1 /\ A[k - 1] = <<"public_key", i>>
               /\ \E j \in DOMAIN n.addrs : A[k] = <<"allowed_ip", n.addrs[j]>>
      /\ \A j \in DOMAIN n.addrs :
            2 * j \in 1 .. Cut(i) /\ A[2 * j] = <<"allowed_ip", n.addrs[j]>>
  BY AddressFacts
<1>5. E \in Seq(Texts)
  BY EndpointFacts
<1>6. /\ A \o E \in Seq(Texts) /\ Len(A \o E) = Len(A) + Len(E)
      /\ \A k \in 1 .. Len(A) : (A \o E)[k] = A[k]
      /\ \A k \in 1 .. Len(E) : (A \o E)[Len(A) + k] = E[k]
  <2> HIDE DEF A, E
  <2> QED
    BY <1>1, <1>5
<1>7. \A k \in 1 .. Len(A) : k > 1 => k - 1 \in 1 .. Len(A)
  BY <1>1
<1>8. Block(i) = A \o E
  BY DEF Block
<1>9. ASSUME NEW k \in 1 .. Cut(i)
      PROVE  \/ Block(i)[k] = <<"public_key", i>>
             \/ /\ k > 1 /\ Block(i)[k - 1] = <<"public_key", i>>
                /\ \E j \in DOMAIN n.addrs : Block(i)[k] = <<"allowed_ip", n.addrs[j]>>
  <2>1. k \in 1 .. Len(A) /\ Block(i)[k] = A[k]
    BY <1>1, <1>6, <1>8
  <2>2. k > 1 => Block(i)[k - 1] = A[k - 1]
    BY <1>6, <1>7, <1>8, <2>1
  <2> HIDE DEF A
  <2> QED
    BY <1>2, <1>8, <2>1, <2>2
<1>10. \A j \in DOMAIN n.addrs :
          2 * j \in 1 .. Cut(i) /\ Block(i)[2 * j] = <<"allowed_ip", n.addrs[j]>>
  <2> HIDE DEF A, E
  <2> QED
    BY <1>1, <1>2, <1>6, <1>8
<1>11. /\ Block(i) \in Seq(Texts) /\ Cut(i) \in Nat /\ Len(Block(i)) = Cut(i) + Len(E)
       /\ \A k \in 1 .. Len(E) : Block(i)[Cut(i) + k] = E[k]
  <2> HIDE DEF A, E
  <2> QED
    BY <1>1, <1>2, <1>6, <1>8
<1> QED
  BY <1>9, <1>10, <1>11

\* The block is a text of its own, and says all of its entry.
LEMMA BlockText ==
  ASSUME MapInv, NEW i \in DOMAIN map, map[i].key
  PROVE  /\ Block(i) \in Seq(Texts)
         /\ \A k \in DOMAIN Block(i) : EntryOf(Block(i)[k]) = i /\ LineOf(Block(i), k)
         /\ \A j, k \in DOMAIN Block(i) :
               j < k /\ Block(i)[j][1] = "endpoint" => Block(i)[k][1] = "endpoint"
         /\ Said(Block(i), i)
<1> DEFINE B == Block(i)
           E == EndpointLines(map[i])
           C == Cut(i)
<1>1. /\ B \in Seq(Texts) /\ C \in Nat /\ Len(B) = C + Len(E) /\ Len(E) \in Nat
      /\ DOMAIN B = 1 .. Len(B) /\ DOMAIN E = 1 .. Len(E) /\ E \in Seq(Texts)
  BY BlockFacts, EndpointFacts
<1>2. \A k \in 1 .. C :
         \/ B[k] = <<"public_key", i>>
         \/ /\ k > 1 /\ B[k - 1] = <<"public_key", i>>
            /\ \E j \in DOMAIN map[i].addrs : B[k] = <<"allowed_ip", map[i].addrs[j]>>
  BY BlockFacts
<1>3. \A k \in 1 .. Len(E) : B[C + k] = E[k] /\ E[k][1] = "endpoint" /\ EntryOf(E[k]) = i
  BY <1>1, BlockFacts, EndpointFacts
<1>4. \A j \in DOMAIN map[i].addrs :
         2 * j \in 1 .. C /\ B[2 * j] = <<"allowed_ip", map[i].addrs[j]>>
  BY BlockFacts
<1>5. /\ map[i].addrs \in Seq(Nodes \X Families)
      /\ \A j \in DOMAIN map[i].addrs : map[i].addrs[j][1] = i
  BY EntryType
<1>6. C > 0 => i \in Headed
  BY <1>5, BlockFacts DEF Cut, Headed
<1> HIDE DEF B, E, C
<1>7. ASSUME NEW k \in 1 .. C
      PROVE  EntryOf(B[k]) = i /\ LineOf(B, k) /\ B[k][1] # "endpoint"
  <2>1. i \in Headed
    BY <1>1, <1>6
  <2>2. CASE B[k] = <<"public_key", i>>
    <3>1. EntryOf(B[k]) = i
      BY <2>2 DEF EntryOf
    <3> QED
      BY <2>1, <2>2, <3>1 DEF LineOf
  <2>3. CASE /\ k > 1 /\ B[k - 1] = <<"public_key", i>>
             /\ \E j \in DOMAIN map[i].addrs : B[k] = <<"allowed_ip", map[i].addrs[j]>>
    <3>1. PICK j \in DOMAIN map[i].addrs : B[k] = <<"allowed_ip", map[i].addrs[j]>>
      BY <2>3
    <3>2. EntryOf(B[k]) = i
      BY <1>5, <3>1 DEF EntryOf
    <3>3. map[i].addrs[j] \in ToSet(map[i].addrs)
      BY DEF ToSet
    <3> QED
      BY <2>1, <2>3, <3>1, <3>2, <3>3 DEF LineOf
  <2> QED
    BY <1>2, <2>2, <2>3
<1>8. ASSUME NEW k \in DOMAIN B, k \notin 1 .. C
      PROVE  EntryOf(B[k]) = i /\ LineOf(B, k) /\ B[k][1] = "endpoint"
  <2>1. k - C \in 1 .. Len(E) /\ C + (k - C) = k
    BY <1>1, <1>8
  <2>2. EntryOf(B[k]) = i /\ B[k][1] = "endpoint"
    BY <1>3, <2>1
  <2>3. E # << >>
    BY <1>1, <2>1
  <2>4. B[k] \in ToSet(E)
    BY <1>1, <1>3, <2>1 DEF ToSet
  <2> QED
    BY <2>2, <2>3, <2>4 DEF LineOf, E
<1>9. \A j, k \in DOMAIN B : j < k /\ B[j][1] = "endpoint" => B[k][1] = "endpoint"
  BY <1>1, <1>7, <1>8
<1>10. Said(B, i)
  <2>1. \A a \in ToSet(map[i].addrs) : \E k \in DOMAIN B : B[k] = <<"allowed_ip", a>>
    <3> SUFFICES ASSUME NEW a \in ToSet(map[i].addrs)
                 PROVE  \E k \in DOMAIN B : B[k] = <<"allowed_ip", a>>
      OBVIOUS
    <3>1. PICK j \in DOMAIN map[i].addrs : a = map[i].addrs[j]
      BY DEF ToSet
    <3>2. 2 * j \in DOMAIN B
      BY <1>1, <1>4
    <3> QED
      BY <1>4, <3>1, <3>2
  <2>2. ASSUME E # << >>
        PROVE  \E k \in DOMAIN B : /\ B[k] = Last(E)
                                   /\ \A j \in DOMAIN B : j > k => EntryOf(B[j]) # i
    <3>1. Len(E) \in 1 .. Len(E)
      BY <1>1, <2>2
    <3>2. Len(B) \in DOMAIN B /\ B[Len(B)] = E[Len(E)]
      BY <1>1, <1>3, <3>1
    <3>3. \A j \in DOMAIN B : ~(j > Len(B))
      BY <1>1
    <3> QED
      BY <3>2, <3>3 DEF Last
  <2> QED
    BY <2>1, <2>2 DEF Said, E
<1> QED
  BY <1>1, <1>7, <1>8, <1>9, <1>10 DEF B

\* Appending the block of the next entry keeps a text one.
LEMMA TextAppend ==
  ASSUME MapInv, NEW n \in Nat, n + 1 \in DOMAIN map, map[n + 1].key, NEW s, Text(s, n)
  PROVE  Text(s \o Block(n + 1), n + 1)
<1> DEFINE i == n + 1
           B == Block(i)
           t == s \o B
<1>1. /\ B \in Seq(Texts)
      /\ \A k \in DOMAIN B : EntryOf(B[k]) = i /\ LineOf(B, k)
      /\ \A j, k \in DOMAIN B : j < k /\ B[j][1] = "endpoint" => B[k][1] = "endpoint"
      /\ Said(B, i)
  BY BlockText
<1>2. s \in Seq(Texts)
  BY DEF Text
<1> HIDE DEF B
<1>3. /\ t \in Seq(Texts) /\ DOMAIN t = 1 .. (Len(s) + Len(B))
      /\ DOMAIN s = 1 .. Len(s) /\ DOMAIN B = 1 .. Len(B)
      /\ Len(s) \in Nat /\ Len(B) \in Nat
      /\ \A k \in DOMAIN s : t[k] = s[k]
      /\ \A k \in DOMAIN B : t[Len(s) + k] = B[k]
  BY <1>1, <1>2
<1>4. ASSUME NEW k \in DOMAIN t, k \notin DOMAIN s
      PROVE  k - Len(s) \in DOMAIN B /\ t[k] = B[k - Len(s)]
  <2>1. k - Len(s) \in DOMAIN B /\ Len(s) + (k - Len(s)) = k
    BY <1>3, <1>4
  <2> QED
    BY <1>3, <2>1
<1> HIDE DEF t
<1>5. ASSUME NEW k \in DOMAIN s
      PROVE  EntryOf(t[k]) \in 1 .. n /\ LineOf(t, k)
  <2>1. EntryOf(s[k]) \in 1 .. n /\ LineOf(s, k)
    BY DEF Text
  <2>2. k > 1 => t[k - 1] = s[k - 1]
    BY <1>3
  <2> QED
    BY <1>3, <2>1, <2>2 DEF LineOf
<1>6. ASSUME NEW k \in DOMAIN t, k \notin DOMAIN s
      PROVE  EntryOf(t[k]) = i /\ LineOf(t, k)
  <2> DEFINE m == k - Len(s)
  <2>1. m \in DOMAIN B /\ t[k] = B[m]
    BY <1>4, <1>6
  <2>2. m > 1 => k > 1 /\ t[k - 1] = B[m - 1]
    <3>1. m > 1 => m - 1 \in DOMAIN B /\ Len(s) + (m - 1) = k - 1 /\ k > 1
      BY <1>3, <2>1
    <3> QED
      BY <1>3, <3>1
  <2>3. EntryOf(B[m]) = i /\ LineOf(B, m)
    BY <1>1, <2>1
  <2> HIDE DEF m
  <2> QED
    BY <2>1, <2>2, <2>3 DEF LineOf
<1>7. InOrder(t)
  <2> SUFFICES ASSUME NEW j \in DOMAIN t, NEW k \in DOMAIN t, j < k
               PROVE  /\ EntryOf(t[j]) <= EntryOf(t[k])
                      /\ EntryOf(t[j]) = EntryOf(t[k]) /\ t[j][1] = "endpoint" =>
                            t[k][1] = "endpoint"
    BY DEF InOrder
  <2>1. CASE k \in DOMAIN s
    <3>1. j \in DOMAIN s
      BY <1>3, <2>1
    <3> QED
      BY <1>3, <2>1, <3>1 DEF Text, InOrder
  <2>2. CASE k \notin DOMAIN s /\ j \in DOMAIN s
    BY <1>5, <1>6, <2>2
  <2>3. CASE k \notin DOMAIN s /\ j \notin DOMAIN s
    <3>1. j - Len(s) < k - Len(s)
      BY <1>3
    <3> QED
      BY <1>1, <1>4, <1>6, <2>3, <3>1
  <2> QED
    BY <2>1, <2>2, <2>3
<1>8. ASSUME NEW m \in 1 .. n, map[m].key PROVE Said(t, m)
  <2>1. Said(s, m)
    BY <1>8 DEF Text
  <2>2. \A k \in DOMAIN s : k \in DOMAIN t
    BY <1>3
  <2>3. \A j \in DOMAIN t : j \in DOMAIN s \/ EntryOf(t[j]) # m
    BY <1>6
  <2> QED
    BY <1>3, <2>1, <2>2, <2>3 DEF Said
<1>9. Said(t, i)
  <2>1. \A k \in DOMAIN B : Len(s) + k \in DOMAIN t
    BY <1>3
  <2>2. \A k \in DOMAIN B, j \in DOMAIN t :
           j > Len(s) + k => j \notin DOMAIN s /\ j - Len(s) > k
    BY <1>3
  <2>3. ASSUME NEW a \in ToSet(map[i].addrs)
        PROVE  \E k \in DOMAIN t : t[k] = <<"allowed_ip", a>>
    <3>1. PICK k \in DOMAIN B : B[k] = <<"allowed_ip", a>>
      BY <1>1 DEF Said
    <3> QED
      BY <1>3, <2>1, <3>1
  <2>4. ASSUME EndpointLines(map[i]) # << >>
        PROVE  \E k \in DOMAIN t : /\ t[k] = Last(EndpointLines(map[i]))
                                   /\ \A j \in DOMAIN t : j > k => EntryOf(t[j]) # i
    <3>1. PICK k \in DOMAIN B : /\ B[k] = Last(EndpointLines(map[i]))
                                /\ \A j \in DOMAIN B : j > k => EntryOf(B[j]) # i
      BY <1>1, <2>4 DEF Said
    <3>2. \A j \in DOMAIN t : j > Len(s) + k => EntryOf(t[j]) # i
      BY <1>4, <2>2, <3>1
    <3> QED
      BY <1>3, <2>1, <3>1, <3>2
  <2> QED
    BY <2>3, <2>4 DEF Said
<1>10. \A k \in DOMAIN t : EntryOf(t[k]) \in 1 .. i /\ LineOf(t, k)
  BY <1>5, <1>6
<1>11. \A m \in 1 .. i : m = i \/ m \in 1 .. n
  OBVIOUS
<1>12. Text(t, i)
  <2>1. t \in Seq(Texts)
    BY <1>3
  <2> HIDE DEF i
  <2> QED
    BY <2>1, <1>7, <1>8, <1>9, <1>10, <1>11 DEF Text
<1> QED
  BY <1>12 DEF t, B

\* An entry without a key adds nothing.
LEMMA TextSkip ==
  ASSUME NEW n \in Nat, n + 1 \in DOMAIN map, ~map[n + 1].key, NEW s, Text(s, n)
  PROVE  Text(s, n + 1)
<1>1. \A m \in 1 .. (n + 1) : m = n + 1 \/ m \in 1 .. n
  OBVIOUS
<1>2. \A m \in 1 .. n : m \in 1 .. (n + 1)
  OBVIOUS
<1> QED
  BY <1>1, <1>2 DEF Text

-----------------------------------------------------------------------------
(* What the steps before the device keep *)

\* The text as far as it is written.
TextInv ==
    /\ step \in {"decode", "decoded", "wireguard"} => at = 1 /\ lines = << >>
    /\ step = "peers" => at \in 1 .. Len(map) + 1 /\ Text(lines, at - 1)
    /\ step \in {"ipc", "ipc failed", "up", "running"} => Text(lines, Len(map))

\* An entry that is not null, by its three choices.
LEMMA EntriesForm ==
  ASSUME NEW k, NEW e \in Entries(k)
  PROVE  \E b \in BOOLEAN, l \in AddrLists, m \in {0, MaxEps} :
            e = [nil |-> FALSE, node |-> k, key |-> b,
                 addrs |-> [j \in DOMAIN l |-> <<k, l[j]>>],
                 eps |-> [j \in 1 .. m |-> <<"map", k, j>>]]
  BY SMT DEF Entries

\* A map that may come is one of entries.
LEMMA MapsForm == ASSUME NEW m \in Maps PROVE MapOf(m)
<1>1. CASE m = << >>
  <2>1. m \in Seq(Entry) /\ DOMAIN m = {}
    BY <1>1
  <2> QED
    BY <2>1 DEF MapOf
<1>2. CASE m # << >>
  <2>1. PICK n \in Nodes : /\ m \in [1 .. n -> UNION {Entries(i) \cup {Null(i)} : i \in Nodes}]
                           /\ \A i \in 1 .. n : m[i].node = i
    BY <1>2 DEF Maps
  <2>2. n \in Nat /\ n <= MaxPeers
    BY WgConfigAssumption DEF Nodes
  <2>3. ASSUME NEW i \in 1 .. n
        PROVE  /\ m[i] \in Entry /\ m[i].node = i /\ i \in Nodes
               /\ \A j \in DOMAIN m[i].addrs : m[i].addrs[j][1] = i
               /\ \A j \in DOMAIN m[i].eps : m[i].eps[j] = <<"map", i, j>>
    <3>1. PICK k \in Nodes : m[i] \in Entries(k) \cup {Null(k)}
      BY <2>1
    <3>2. i \in Nodes
      BY <2>2, WgConfigAssumption DEF Nodes
    <3>3. CASE m[i] \in Entries(k)
      <4>1. PICK b \in BOOLEAN, l \in AddrLists, w \in {0, MaxEps} :
                m[i] = [nil |-> FALSE, node |-> k, key |-> b,
                          addrs |-> [j \in DOMAIN l |-> <<k, l[j]>>],
                          eps |-> [j \in 1 .. w |-> <<"map", k, j>>]]
        BY <3>3, EntriesForm
      <4>2. k = i
        BY <2>1, <4>1
      <4>3. l \in Seq(Families) /\ w \in Nat /\ w <= MaxEps
        BY WgConfigAssumption DEF Families
      <4>4. [j \in DOMAIN l |-> <<k, l[j]>>] \in Seq(Nodes \X Families)
        <5>1. DOMAIN l = 1 .. Len(l) /\ Len(l) \in Nat
              /\ \A j \in 1 .. Len(l) : l[j] \in Families
          BY <4>3
        <5>2. \A j \in 1 .. Len(l) : <<k, l[j]>> \in Nodes \X Families
          BY <5>1
        <5> QED
          BY <5>1, <5>2
      <4>5. [j \in 1 .. w |-> <<"map", k, j>>] \in Seq({"map"} \X Nodes \X (1 .. MaxEps))
        <5>1. \A j \in 1 .. w : <<"map", k, j>> \in {"map"} \X Nodes \X (1 .. MaxEps)
          BY <4>3, WgConfigAssumption
        <5> QED
          BY <4>3, <5>1
      <4>6. m[i] \in Entry
        BY <4>1, <4>4, <4>5 DEF Entry
      <4> QED
        BY <3>2, <4>1, <4>2, <4>6
    <3>4. CASE m[i] = Null(k)
      <4>1. m[i].node = k /\ m[i].addrs = << >> /\ m[i].eps = << >>
        BY <3>4 DEF Null
      <4>2. m[i] \in Entry
        BY <3>4 DEF Null, Entry
      <4> QED
        BY <2>1, <3>2, <4>1, <4>2
    <3> QED
      BY <3>1, <3>3, <3>4
  <2>4. DOMAIN m = 1 .. n
    BY <2>1
  <2>5. m \in Seq(Entry)
    <3>1. m = [i \in 1 .. n |-> m[i]]
      BY <2>1
    <3> QED
      BY <2>2, <2>3, <3>1
  <2> QED
    BY <2>3, <2>4, <2>5 DEF MapOf
<1> QED
  BY <1>1, <1>2

\* Before there is a map there is none; and no other step changes it.
LEMMA MapInit == Init => MapInv
<1>1. << >> \in Seq(Entry) /\ DOMAIN << >> = {}
  OBVIOUS
<1> QED
  BY <1>1 DEF Init, MapInv, MapOf

\* The map, the command line and the body change only when they are taken.
LEMMA InputKeep ==
  ASSUME [Next]_vars, ~Decode, ~TakeMap
  PROVE  UNCHANGED input
BY DEF Next, CreateNetTUN, AddPeer, Written, IpcLine, IpcFails, DevUp, CrossPing, input, vars

LEMMA MapStep == MapInv /\ [Next]_vars => MapInv'
<1> SUFFICES ASSUME MapInv, [Next]_vars PROVE MapInv'
  OBVIOUS
<1>1. CASE TakeMap
  <2>1. map' = map \/ map' \in Maps
    BY <1>1 DEF TakeMap
  <2> QED
    BY <2>1, MapsForm DEF MapInv, MapOf
<1>2. CASE Decode
  BY <1>2 DEF Decode, MapInv, MapOf
<1>3. CASE ~Decode /\ ~TakeMap
  BY <1>3, InputKeep DEF MapInv, MapOf, input
<1> QED
  BY <1>1, <1>2, <1>3

\* Before anything is written the text is empty.
LEMMA TextInit == Init => TextInv
BY DEF Init, TextInv

\* The empty text is that of no entries.
LEMMA TextEmpty == Text(<< >>, 0)
<1>1. << >> \in Seq(Texts) /\ DOMAIN << >> = {} /\ 1 .. 0 = {}
  OBVIOUS
<1> QED
  BY <1>1 DEF Text, InOrder

\* What is said of the entries depends on the map and the command line only.
LEMMA LinesKeep ==
  ASSUME map' = map, overrides' = overrides, NEW i
  PROVE  EndpointLines(map[i])' = EndpointLines(map[i])
<1>1. OverrideLines(map[i])' = OverrideLines(map[i])
  BY DEF OverrideLines, SelectInSeq
<1>2. MapLines(map[i])' = MapLines(map[i]) /\ LocalLines(map[i])' = LocalLines(map[i])
  BY DEF MapLines, LocalLines
<1> QED
  BY <1>1, <1>2, Zenon DEF EndpointLines

\* What is said of a text is so too, with the text of the next state.
LEMMA TextKeep ==
  ASSUME map' = map, overrides' = overrides
  PROVE  /\ Headed' = Headed
         /\ InOrder(lines)' <=> InOrder(lines')
         /\ \A k : LineOf(lines, k)' <=> LineOf(lines', k)
         /\ \A i : Said(lines, i)' <=> Said(lines', i)
<1>1. \A i : EndpointLines(map[i])' = EndpointLines(map[i])
  BY LinesKeep
<1>2. Headed' = Headed
  BY DEF Headed
<1>3. InOrder(lines)' <=> InOrder(lines')
  BY DEF InOrder
<1>4. \A k : LineOf(lines, k)' <=> LineOf(lines', k)
  BY <1>1, <1>2 DEF LineOf
<1>5. \A i : Said(lines, i)' <=> Said(lines', i)
  BY <1>1 DEF Said
<1> QED
  BY <1>2, <1>3, <1>4, <1>5

\* The text grows by the block of an entry with a key, and is whole when it is read.
LEMMA TextStep == MapInv /\ TextInv /\ [Next]_vars => TextInv'
<1> SUFFICES ASSUME MapInv, TextInv, [Next]_vars PROVE TextInv'
  OBVIOUS
<1>0. CreateNetTUN \/ AddPeer \/ Written \/ IpcLine \/ IpcFails \/ DevUp \/ CrossPing =>
         map' = map /\ overrides' = overrides
  BY DEF CreateNetTUN, AddPeer, Written, IpcLine, IpcFails, DevUp, CrossPing, input
<1>1. map \in Seq(Entry) /\ DOMAIN map = 1 .. Len(map) /\ Len(map) \in Nat
  BY DEF MapInv, MapOf
<1>2. ASSUME Decode \/ TakeMap PROVE TextInv'
  <2>1. /\ step \in {"decode", "decoded"} /\ step' \in {"decoded", "wireguard", "no map"}
        /\ lines' = lines /\ at' = at
    BY <1>2 DEF Decode, TakeMap, device
  <2> QED
    BY <2>1 DEF TextInv
<1>3. ASSUME CreateNetTUN PROVE TextInv'
  <2>0. map' = map /\ overrides' = overrides
    BY <1>0, <1>3
  <2>1. step = "wireguard" /\ step' \in {"peers", "no device", "panic"} /\ lines' = lines /\ at' = at
    BY <1>3 DEF CreateNetTUN
  <2>2. lines' = << >> /\ at' = 1
    BY <2>1 DEF TextInv
  <2>3. Text(lines, at - 1)'
    <3>1. Text(lines', 0) /\ at' - 1 = 0
      BY <2>2, TextEmpty
    <3> QED
      BY <2>0, <3>1, TextKeep DEF Text
  <2>4. at' \in 1 .. Len(map') + 1
    BY <2>0, <1>1, <2>2
  <2> QED
    BY <2>1, <2>3, <2>4 DEF TextInv
<1>4. ASSUME AddPeer PROVE TextInv'
  <2>0. map' = map /\ overrides' = overrides
    BY <1>0, <1>4
  <2>1. /\ step = "peers" /\ step' = step /\ at' = at + 1 /\ at <= Len(map)
        /\ lines' = IF map[at].key
                    THEN lines \o AddressLines(map[at]) \o EndpointLines(map[at]) ELSE lines
    BY <1>4 DEF AddPeer
  <2>2. at \in DOMAIN map /\ at - 1 \in Nat /\ (at - 1) + 1 = at /\ Text(lines, at - 1)
    BY <1>1, <2>1 DEF TextInv
  <2>3. Text(lines', at)
    <3>1. CASE map[at].key
      <4>1. Text(lines \o Block(at), at)
        BY <2>2, <3>1, TextAppend
      <4>2. lines \o Block(at) = lines \o AddressLines(map[at]) \o EndpointLines(map[at])
        <5> DEFINE A == AddressLines(map[at])
                   E == EndpointLines(map[at])
        <5>1. lines \in Seq(Texts) /\ E \in Seq(Texts)
          BY <2>2, EndpointFacts DEF Text
        <5>2. A \in Seq(Texts)
          BY <2>2, AddressFacts
        <5> HIDE DEF A, E
        <5>3. lines \o (A \o E) = (lines \o A) \o E
          BY <5>1, <5>2
        <5> QED
          BY <5>3 DEF Block, A, E
      <4> QED
        BY <2>1, <3>1, <4>1, <4>2
    <3>2. CASE ~map[at].key
      BY <2>1, <2>2, <3>2, TextSkip
    <3> QED
      BY <3>1, <3>2
  <2>4. at' - 1 = at /\ at' \in 1 .. Len(map) + 1
    BY <1>1, <2>1, <2>2
  <2>5. Text(lines, at - 1)'
    BY <2>0, <2>3, <2>4, TextKeep DEF Text
  <2> QED
    BY <2>0, <2>1, <2>4, <2>5 DEF TextInv
<1>5. ASSUME Written PROVE TextInv'
  <2>0. map' = map /\ overrides' = overrides
    BY <1>0, <1>5
  <2>1. /\ step = "peers" /\ step' \in {"ipc", "ipc failed"} /\ lines' = lines /\ at = Len(map) + 1
        /\ Len(map') = Len(map)
    BY <2>0, <1>5 DEF Written
  <2>2. at - 1 = Len(map) /\ Text(lines', Len(map'))
    <3>1. Text(lines, at - 1)
      BY <2>1 DEF TextInv
    <3>2. Len(map) \in Nat
      BY <1>1
    <3>3. at = Len(map) + 1 /\ lines' = lines /\ Len(map') = Len(map)
      BY <2>1
    <3>4. at - 1 = Len(map)
      BY <3>2, <3>3
    <3> QED
      BY <3>1, <3>3, <3>4
  <2>3. Text(lines, Len(map))'
    BY <2>0, <2>2, TextKeep DEF Text
  <2> QED
    BY <2>1, <2>3 DEF TextInv
<1>6. ASSUME IpcLine \/ IpcFails \/ DevUp \/ CrossPing PROVE TextInv'
  <2>0. map' = map /\ overrides' = overrides
    BY <1>0, <1>6
  <2>1. /\ step \in {"ipc", "up"} /\ lines' = lines
        /\ step' \in {"ipc", "ipc failed", "up", "no device", "running"}
    BY <1>6 DEF IpcLine, IpcFails, DevUp, CrossPing
  <2>2. Text(lines', Len(map')) /\ Len(map') = Len(map)
    BY <2>0, <2>1 DEF TextInv
  <2>3. Text(lines, Len(map))'
    BY <2>0, <2>2, TextKeep DEF Text
  <2> QED
    BY <2>1, <2>3 DEF TextInv
<1>7. ASSUME UNCHANGED vars PROVE TextInv'
  <2>0. map' = map /\ overrides' = overrides
    BY <1>7 DEF vars
  <2>1. step' = step /\ at' = at /\ lines' = lines
    BY <1>7 DEF vars
  <2>2. step = "peers" => Text(lines, at - 1)'
    BY <2>0, <2>1, TextKeep DEF Text, TextInv
  <2>3. step \in {"ipc", "ipc failed", "up", "running"} => Text(lines, Len(map))'
    BY <2>0, <2>1, TextKeep DEF Text, TextInv
  <2> QED
    BY <2>0, <2>1, <2>2, <2>3 DEF TextInv
<1> QED
  BY <1>2, <1>3, <1>4, <1>5, <1>6, <1>7 DEF Next

-----------------------------------------------------------------------------
(* The device *)

\* The line at k is an endpoint, and peer n the one it belongs to.
Belongs(k, n) ==
    /\ lines[k][1] = "endpoint"
    /\ n \in Headed /\ n <= EntryOf(lines[k])
    /\ \A h \in Headed : h <= n \/ h > EntryOf(lines[k])

\* The last of the lines before m that is a public_key line is that of peer n.
Heads(m, n) ==
    \E p \in DOMAIN lines :
        /\ p < m /\ lines[p] = <<"public_key", n>>
        /\ \A q \in DOMAIN lines : p < q /\ q < m => lines[q][1] # "public_key"

\* The device after the lines before m.
Read(m) ==
    /\ dev.peer = None => \A q \in DOMAIN lines : q < m => lines[q][1] # "public_key"
    /\ dev.peer # None => Heads(m, dev.peer)
    /\ \A q \in DOMAIN lines : q < m /\ lines[q][1] = "allowed_ip" =>
          lines[q][2] \in DOMAIN dev.route
    /\ \A a \in DOMAIN dev.route : dev.route[a] = a[1]
    /\ \A n \in Nodes :
          \/ /\ dev.endpoint[n] = None
             /\ \A q \in DOMAIN lines : q < m => ~Belongs(q, n)
          \/ \E q \in DOMAIN lines :
                /\ q < m /\ Belongs(q, n) /\ dev.endpoint[n] = lines[q][2]
                /\ \A r \in DOMAIN lines : q < r /\ r < m => ~Belongs(r, n)

\* The device is new until the text is read, and then as far as it is read.
ReadInv ==
    /\ DOMAIN dev = {"peer", "endpoint", "route"}
    /\ step \in {"decode", "decoded", "wireguard", "peers"} =>
          dev = [peer |-> None, endpoint |-> [n \in Nodes |-> None], route |-> << >>]
    /\ step \in {"ipc", "ipc failed", "up", "running"} => Read(at)
    /\ step = "ipc failed" =>
          \/ Port \in bad
          \/ /\ at <= Len(lines) /\ lines[at][1] = "endpoint"
             /\ dev.peer = None \/ lines[at][2] \in bad
    /\ IsUp => at = Len(lines) + 1

\* The ping is of an entry that has an address.
PingInv ==
    ping # None => step = "running" /\ ping \in DOMAIN map /\ map[ping].addrs # << >>

\* A line of the whole text.
LEMMA LineFacts ==
  ASSUME Text(lines, Len(map)), NEW k \in DOMAIN lines
  PROVE  /\ lines[k] \in Texts /\ lines \in Seq(Texts)
         /\ DOMAIN lines = 1 .. Len(lines) /\ Len(lines) \in Nat /\ k \in Nat
         /\ EntryOf(lines[k]) \in 1 .. Len(map) /\ LineOf(lines, k)
  BY DEF Text

\* The key of a headed entry comes before every endpoint of it or of a later one.
LEMMA KeyBefore ==
  ASSUME MapInv, Text(lines, Len(map)),
         NEW k \in DOMAIN lines, lines[k][1] = "endpoint",
         NEW h \in Headed, h <= EntryOf(lines[k])
  PROVE  \E q \in DOMAIN lines : q < k /\ lines[q] = <<"public_key", h>>
<1>1. h \in DOMAIN map /\ map[h].key /\ map[h].addrs # << >> /\ h \in 1 .. Len(map)
  BY DEF Headed, MapInv, MapOf
<1>2. 1 \in DOMAIN map[h].addrs /\ map[h].addrs[1][1] = h
  BY <1>1, EntryType
<1>3. PICK m \in DOMAIN lines : lines[m] = <<"allowed_ip", map[h].addrs[1]>>
  <2>1. Said(lines, h)
    BY <1>1 DEF Text
  <2>2. map[h].addrs[1] \in ToSet(map[h].addrs)
    BY <1>2 DEF ToSet
  <2> QED
    BY <2>1, <2>2 DEF Said
<1>4. EntryOf(lines[m]) = h
  BY <1>2, <1>3 DEF EntryOf
<1>5. m > 1 /\ lines[m - 1] = <<"public_key", h>>
  <2>1. LineOf(lines, m) /\ lines[m][1] = "allowed_ip"
    BY <1>3, LineFacts
  <2> QED
    BY <1>4, <2>1 DEF LineOf
<1>6. EntryOf(lines[k]) \in Int /\ h \in Int
  BY <1>1, LineFacts
<1>7. ~(k < m)
  <2> SUFFICES ASSUME k < m PROVE FALSE
    OBVIOUS
  <2>1. /\ EntryOf(lines[k]) <= h
        /\ EntryOf(lines[k]) = h => lines[m][1] = "endpoint"
    BY <1>4 DEF Text, InOrder
  <2> QED
    BY <1>3, <1>6, <2>1
<1>8. k # m
  BY <1>3
<1>9. m - 1 \in DOMAIN lines /\ m - 1 < k
  BY <1>5, <1>7, <1>8, LineFacts
<1> QED
  BY <1>5, <1>9

\* An endpoint belongs to the peer of the last key before it.
LEMMA HeadBelongs ==
  ASSUME MapInv, Text(lines, Len(map)),
         NEW k \in DOMAIN lines, lines[k][1] = "endpoint", NEW n, Heads(k, n)
  PROVE  Belongs(k, n)
<1>1. PICK p \in DOMAIN lines :
         /\ p < k /\ lines[p] = <<"public_key", n>>
         /\ \A q \in DOMAIN lines : p < q /\ q < k => lines[q][1] # "public_key"
  BY DEF Heads
<1>2. EntryOf(lines[p]) = n
  BY <1>1 DEF EntryOf
<1>3. n \in Headed /\ n \in Int
  <2>1. LineOf(lines, p) /\ lines[p][1] = "public_key"
    BY <1>1, LineFacts
  <2>2. n \in Headed
    BY <1>2, <2>1 DEF LineOf
  <2> QED
    BY <2>2 DEF Headed, MapInv, MapOf
<1>4. n <= EntryOf(lines[k])
  BY <1>1, <1>2 DEF Text, InOrder
<1>5. ASSUME NEW h \in Headed, ~(h <= n), ~(h > EntryOf(lines[k])) PROVE FALSE
  <2>1. h \in Int /\ EntryOf(lines[k]) \in Int
    BY LineFacts DEF Headed, MapInv, MapOf
  <2>2. PICK q \in DOMAIN lines : q < k /\ lines[q] = <<"public_key", h>>
    BY <1>5, <2>1, KeyBefore
  <2>3. EntryOf(lines[q]) = h
    BY <2>2 DEF EntryOf
  <2>4. ~(q < p)
    BY <1>2, <1>3, <1>5, <2>1, <2>3 DEF Text, InOrder
  <2>5. q # p
    BY <1>2, <1>3, <1>5, <2>1, <2>3
  <2>6. p < q
    BY <2>4, <2>5, LineFacts
  <2> QED
    BY <1>1, <2>2, <2>6
<1> QED
  BY <1>3, <1>4, <1>5 DEF Belongs

\* It belongs to one peer only.
LEMMA BelongsOnce ==
  ASSUME MapInv, NEW k, NEW n, NEW m, Belongs(k, n), Belongs(k, m),
         EntryOf(lines[k]) \in Int
  PROVE  n = m
<1>1. n \in Int /\ m \in Int
  BY DEF Belongs, Headed, MapInv, MapOf
<1> QED
  BY <1>1 DEF Belongs

\* What one line does to the device.
LEMMA LineEffect ==
  ASSUME MapInv, TypeOK, TextInv, ReadInv, IpcLine
  PROVE  /\ at \in DOMAIN lines /\ at' = at + 1 /\ at \in Nat /\ Text(lines, Len(map))
         /\ map' = map /\ lines' = lines /\ Read(at) /\ step' = "ipc"
         /\ DOMAIN dev' = {"peer", "endpoint", "route"}
         /\ \/ /\ lines[at][1] = "public_key" /\ lines[at][2] \in Nodes
               /\ dev'.peer = lines[at][2]
               /\ dev'.endpoint = dev.endpoint /\ dev'.route = dev.route
            \/ /\ lines[at][1] = "allowed_ip" /\ dev.peer = lines[at][2][1]
               /\ lines[at][2] \in Addresses(map)
               /\ dev.peer \in Nodes
               /\ dev'.peer = dev.peer /\ dev'.endpoint = dev.endpoint
               /\ dev'.route = [a \in DOMAIN dev.route \cup {lines[at][2]} |->
                                   IF a = lines[at][2] THEN dev.peer ELSE dev.route[a]]
            \/ /\ lines[at][1] = "endpoint" /\ dev.peer \in Nodes
               /\ dev'.peer = dev.peer /\ dev'.route = dev.route
               /\ dev'.endpoint = [dev.endpoint EXCEPT ![dev.peer] = lines[at][2]]
<1>1. step = "ipc" /\ at <= Len(lines) /\ at' = at + 1
      /\ map' = map /\ lines' = lines /\ step' = "ipc"
  BY DEF IpcLine, input
<1>2. Text(lines, Len(map)) /\ Read(at)
  BY <1>1 DEF TextInv, ReadInv
<1>3. Len(map) \in Nat /\ Len(lines) \in Nat /\ DOMAIN lines = 1 .. Len(lines)
  BY <1>2 DEF MapInv, MapOf, Text
<1>4. at \in Nat /\ at \in DOMAIN lines
  BY <1>1, <1>3 DEF TypeOK
<1>5. lines[at] \in Texts /\ LineOf(lines, at)
  BY <1>2, <1>4, LineFacts
<1>6. DOMAIN dev = {"peer", "endpoint", "route"}
  BY DEF ReadInv
<1>7. CASE lines[at][1] = "public_key"
  <2>1. dev' = [dev EXCEPT !.peer = lines[at][2]]
    BY <1>7 DEF IpcLine
  <2>2. lines[at][2] \in Nodes
    BY <1>5, <1>7 DEF Texts
  <2> QED
    BY <1>1, <1>2, <1>4, <1>6, <1>7, <2>1, <2>2
<1>8. CASE lines[at][1] = "allowed_ip"
  <2> DEFINE val == lines[at][2]
  <2>1. dev' = [dev EXCEPT !.route = [a \in DOMAIN @ \cup {val} |->
                                       IF a = val THEN dev.peer ELSE @[a]]]
    BY <1>8 DEF IpcLine
  <2>2. EntryOf(lines[at]) = val[1]
    BY <1>8 DEF EntryOf
  <2>3. /\ val[1] \in Headed /\ val \in ToSet(map[val[1]].addrs)
        /\ at > 1 /\ lines[at - 1] = <<"public_key", val[1]>>
    BY <1>5, <1>8, <2>2 DEF LineOf
  <2>4. val \in Addresses(map)
    BY <2>3 DEF Addresses, Headed
  <2>5. at - 1 \in DOMAIN lines /\ at - 1 < at
    BY <1>3, <1>4, <2>3
  <2>6. dev.peer = val[1]
    <3>1. dev.peer # None
      BY <1>2, <2>3, <2>5 DEF Read
    <3>2. PICK p \in DOMAIN lines :
             /\ p < at /\ lines[p] = <<"public_key", dev.peer>>
             /\ \A q \in DOMAIN lines : p < q /\ q < at => lines[q][1] # "public_key"
      BY <1>2, <3>1 DEF Read, Heads
    <3>3. ~(p < at - 1)
      BY <2>3, <2>5, <3>2
    <3>4. p = at - 1
      BY <1>3, <1>4, <3>2, <3>3
    <3> QED
      BY <2>3, <3>2, <3>4
  <2>7. dev.peer \in Nodes
    BY <2>3, <2>6 DEF Headed, MapInv, MapOf
  <2> QED
    BY <1>1, <1>2, <1>4, <1>6, <1>8, <2>1, <2>4, <2>6, <2>7
<1>9. CASE lines[at][1] = "endpoint"
  <2>1. dev.peer # None /\ dev' = [dev EXCEPT !.endpoint[dev.peer] = lines[at][2]]
    BY <1>9 DEF IpcLine
  <2>2. dev.peer \in Nodes
    BY <2>1 DEF TypeOK
  <2> QED
    BY <1>1, <1>2, <1>4, <1>6, <1>9, <2>1, <2>2
<1> QED
  BY <1>5, <1>7, <1>8, <1>9 DEF Texts

\* The device is what the lines before the next one make of it.
LEMMA ReadLine ==
  ASSUME MapInv, TypeOK, TextInv, ReadInv, IpcLine
  PROVE  Read(at)'
<1> DEFINE tag == lines[at][1]
           val == lines[at][2]
<1>1. /\ at \in DOMAIN lines /\ at' = at + 1 /\ at \in Nat /\ Text(lines, Len(map))
      /\ map' = map /\ lines' = lines /\ Read(at)
  BY LineEffect
<1>2. DOMAIN lines = 1 .. Len(lines) /\ Len(lines) \in Nat
  BY <1>1, LineFacts
<1>3. \A q \in DOMAIN lines : q < at + 1 <=> q < at \/ q = at
  BY <1>1, <1>2
<1>4. /\ \/ /\ tag = "public_key" /\ val \in Nodes /\ dev'.peer = val
            /\ dev'.endpoint = dev.endpoint /\ dev'.route = dev.route
         \/ /\ tag = "allowed_ip" /\ dev.peer = val[1] /\ dev.peer \in Nodes
            /\ dev'.peer = dev.peer /\ dev'.endpoint = dev.endpoint
            /\ dev'.route = [a \in DOMAIN dev.route \cup {val} |->
                                IF a = val THEN dev.peer ELSE dev.route[a]]
         \/ /\ tag = "endpoint" /\ dev.peer \in Nodes
            /\ dev'.peer = dev.peer /\ dev'.route = dev.route
            /\ dev'.endpoint = [dev.endpoint EXCEPT ![dev.peer] = val]
  BY LineEffect
<1>5. \A k, n : Belongs(k, n)' <=> Belongs(k, n)
  BY <1>1 DEF Belongs, Headed
<1>6. None \notin Nodes
  BY WgConfigAssumption DEF Nodes
<1>7. dev'.peer = None => \A q \in DOMAIN lines : q < at + 1 => lines[q][1] # "public_key"
  BY <1>1, <1>3, <1>4, <1>6 DEF Read
<1>8. ASSUME dev'.peer # None
      PROVE  \E p \in DOMAIN lines :
                /\ p < at + 1 /\ lines[p] = <<"public_key", dev'.peer>>
                /\ \A q \in DOMAIN lines : p < q /\ q < at + 1 => lines[q][1] # "public_key"
  <2>1. CASE tag = "public_key"
    <3>1. lines[at] = <<"public_key", dev'.peer>>
      <4>1. lines[at] \in Texts
        BY <1>1, LineFacts
      <4>2. \A l \in Texts : l = <<l[1], l[2]>>
        BY DEF Texts, Ends
      <4> QED
        BY <1>4, <2>1, <4>1, <4>2
    <3>2. at < at + 1 /\ \A q \in DOMAIN lines : ~(at < q /\ q < at + 1)
      BY <1>1, <1>2
    <3> QED
      BY <1>1, <3>1, <3>2
  <2>2. CASE tag # "public_key"
    <3>1. dev'.peer = dev.peer
      BY <1>4, <2>2
    <3>2. PICK p \in DOMAIN lines :
             /\ p < at /\ lines[p] = <<"public_key", dev.peer>>
             /\ \A q \in DOMAIN lines : p < q /\ q < at => lines[q][1] # "public_key"
      BY <1>1, <1>8, <3>1 DEF Read, Heads
    <3> QED
      BY <1>3, <2>2, <3>1, <3>2
  <2> QED
    BY <2>1, <2>2
<1>9. \A q \in DOMAIN lines : q < at + 1 /\ lines[q][1] = "allowed_ip" =>
         lines[q][2] \in DOMAIN dev'.route
  BY <1>1, <1>3, <1>4 DEF Read
<1>10. \A a \in DOMAIN dev'.route : dev'.route[a] = a[1]
  BY <1>1, <1>4 DEF Read
<1>11. ASSUME NEW n \in Nodes
       PROVE  \/ /\ dev'.endpoint[n] = None
                 /\ \A q \in DOMAIN lines : q < at + 1 => ~Belongs(q, n)
              \/ \E q \in DOMAIN lines :
                    /\ q < at + 1 /\ Belongs(q, n) /\ dev'.endpoint[n] = lines[q][2]
                    /\ \A r \in DOMAIN lines : q < r /\ r < at + 1 => ~Belongs(r, n)
  <2>1. CASE tag = "endpoint" /\ n = dev.peer
    <3>1. Belongs(at, n)
      <4>1. Heads(at, n)
        BY <1>1, <1>6, <2>1 DEF Read
      <4> QED
        BY <1>1, <2>1, <4>1, HeadBelongs
    <3>2. dev'.endpoint[n] = val
      BY <1>4, <2>1 DEF TypeOK
    <3>3. at < at + 1 /\ \A r \in DOMAIN lines : ~(at < r /\ r < at + 1)
      BY <1>1, <1>2
    <3> QED
      BY <1>1, <3>1, <3>2, <3>3
  <2>2. CASE ~(tag = "endpoint" /\ n = dev.peer)
    <3>1. ~Belongs(at, n)
      <4>1. CASE tag # "endpoint"
        BY <4>1 DEF Belongs
      <4>2. CASE tag = "endpoint"
        <5>1. Heads(at, dev.peer)
          BY <1>1, <1>4, <1>6, <4>2 DEF Read
        <5>2. Belongs(at, dev.peer)
          BY <1>1, <4>2, <5>1, HeadBelongs
        <5>3. EntryOf(lines[at]) \in Int
          BY <1>1, LineFacts
        <5> QED
          BY <2>2, <4>2, <5>2, <5>3, BelongsOnce
      <4> QED
        BY <4>1, <4>2
    <3>2. dev'.endpoint[n] = dev.endpoint[n]
      BY <1>4, <2>2 DEF TypeOK
    <3>3. \/ /\ dev.endpoint[n] = None
             /\ \A q \in DOMAIN lines : q < at => ~Belongs(q, n)
          \/ \E q \in DOMAIN lines :
                /\ q < at /\ Belongs(q, n) /\ dev.endpoint[n] = lines[q][2]
                /\ \A r \in DOMAIN lines : q < r /\ r < at => ~Belongs(r, n)
      BY <1>1 DEF Read
    <3> QED
      BY <1>3, <3>1, <3>2, <3>3
  <2> QED
    BY <2>1, <2>2
<1> QED
  BY <1>1, <1>5, <1>7, <1>8, <1>9, <1>10, <1>11 DEF Read, Heads

\* The device is new at first.
LEMMA ReadInit == Init => ReadInv
BY DEF Init, ReadInv, IsUp

\* It stays as it is but for the lines.
LEMMA ReadStep == MapInv /\ TypeOK /\ TextInv /\ ReadInv /\ [Next]_vars => ReadInv'
<1> SUFFICES ASSUME MapInv, TypeOK, TextInv, ReadInv, [Next]_vars PROVE ReadInv'
  OBVIOUS
<1>1. ASSUME Decode \/ TakeMap \/ CreateNetTUN \/ AddPeer PROVE ReadInv'
  <2>1. /\ step \in {"decode", "decoded", "wireguard", "peers"} /\ dev' = dev
        /\ step' \in {"decoded", "wireguard", "no map", "peers", "no device", "panic"}
    BY <1>1 DEF Decode, TakeMap, CreateNetTUN, AddPeer, device
  <2> QED
    BY <2>1 DEF ReadInv, IsUp
<1>2. ASSUME Written PROVE ReadInv'
  <2>1. /\ step = "peers" /\ at' = 1 /\ dev' = dev /\ lines' = lines /\ bad' = bad
        /\ step' = IF Port \in bad THEN "ipc failed" ELSE "ipc"
    BY <1>2 DEF Written, input
  <2>2. dev = [peer |-> None, endpoint |-> [n \in Nodes |-> None], route |-> << >>]
    BY <2>1 DEF ReadInv
  <2>3. \A q \in DOMAIN lines : ~(q < 1)
    <3>1. lines \in Seq(Texts)
      BY <2>1 DEF TextInv, Text
    <3>2. DOMAIN lines = 1 .. Len(lines)
      BY <3>1, LenProperties
    <3> QED
      BY <3>2
  <2>4. dev.peer = None /\ DOMAIN dev.route = {} /\ \A n \in Nodes : dev.endpoint[n] = None
    BY <2>2
  <2>5. Read(at)'
    BY <2>1, <2>3, <2>4 DEF Read
  <2> QED
    BY <2>1, <2>5 DEF ReadInv, IsUp
<1>3. ASSUME IpcLine PROVE ReadInv'
  BY <1>3, ReadLine, LineEffect DEF ReadInv, IsUp
<1>4. ASSUME IpcFails \/ DevUp \/ CrossPing \/ UNCHANGED vars PROVE ReadInv'
  <2>1. at' = at /\ dev' = dev /\ lines' = lines /\ map' = map /\ bad' = bad
    BY <1>4 DEF IpcFails, DevUp, CrossPing, input, vars
  <2>2. \A k, n : Belongs(k, n)' <=> Belongs(k, n)
    BY <2>1 DEF Belongs, Headed
  <2>3. Read(at) => Read(at)'
    BY <2>1, <2>2 DEF Read, Heads
  <2>5. CASE IpcFails
    BY <2>1, <2>3, <2>5 DEF IpcFails, ReadInv, IsUp
  <2>6. CASE DevUp
    BY <2>1, <2>3, <2>6 DEF DevUp, ReadInv, IsUp
  <2>7. CASE CrossPing
    BY <2>1, <2>3, <2>7 DEF CrossPing, ReadInv, IsUp
  <2>8. CASE UNCHANGED vars
    <3>1. step' = step
      BY <2>8 DEF vars
    <3> QED
      BY <2>1, <2>3, <3>1 DEF ReadInv, IsUp
  <2> QED
    BY <1>4, <2>5, <2>6, <2>7, <2>8
<1> QED
  BY <1>1, <1>2, <1>3, <1>4 DEF Next

-----------------------------------------------------------------------------
(* The ping *)

\* The peer that is chosen is an entry of the map with an address.
LEMMA PingChoice ==
  ASSUME MapInv, CrossPing
  PROVE  \/ ping' = None
         \/ ping' \in DOMAIN map /\ ping' \in Nodes /\ map[ping'].addrs # << >>
<1> DEFINE F == {i \in 1 .. Len(map) : Chosen(map[i])}
           L == {i \in 1 .. Len(map) : Pingable(map[i])}
           first == IF F # {} THEN Min(F) ELSE 0
           last == IF L # {} THEN Max(L) ELSE 0
<1>1. DOMAIN map = 1 .. Len(map) /\ Len(map) \in Nat
  BY DEF MapInv, MapOf
<1>2. ping' = CASE first # 0 -> map[first].node
                [] first = 0 /\ last # 0 -> map[last].node
                [] OTHER -> None
  BY Zenon DEF CrossPing, SelectInSeq, SelectLastInSeq
<1>3. F \in SUBSET Nat
  OBVIOUS
<1>4. F # {} => Min(F) \in F
  BY <1>3, MinNat
<1>5. L # {} => Max(L) \in L
  BY <1>1, MaxNat
<1>6. first # 0 => first \in L
  BY <1>4 DEF Chosen
<1>7. last # 0 => last \in L
  BY <1>5
<1>8. \A i \in L : i \in DOMAIN map /\ map[i].addrs # << >> /\ map[i].node = i /\ i \in Nodes
  BY <1>1, EntryType DEF Pingable
<1> HIDE DEF F, L, first, last
<1>9. CASE first # 0
  <2>1. ping' = map[first].node
    BY <1>2, <1>9, Zenon
  <2> QED
    BY <1>6, <1>8, <1>9, <2>1
<1>10. CASE first = 0 /\ last # 0
  <2>1. ping' = map[last].node
    BY <1>2, <1>10, Zenon
  <2> QED
    BY <1>7, <1>8, <1>10, <2>1
<1>11. CASE first = 0 /\ last = 0
  BY <1>2, <1>11, Zenon
<1> QED
  BY <1>9, <1>10, <1>11

\* At first nothing is pinged.
LEMMA PingInit == Init => PingInv
BY DEF Init, PingInv

\* Nothing is pinged before, and nothing else after.
LEMMA PingStep == MapInv /\ PingInv /\ [Next]_vars => PingInv'
<1> SUFFICES ASSUME MapInv, PingInv, [Next]_vars PROVE PingInv'
  OBVIOUS
<1>1. ASSUME CrossPing PROVE PingInv'
  <2>1. step' = "running" /\ map' = map
    BY <1>1 DEF CrossPing, input
  <2> QED
    BY <1>1, <2>1, PingChoice DEF PingInv
<1>2. ASSUME \/ Decode \/ TakeMap \/ CreateNetTUN \/ AddPeer \/ Written
             \/ IpcLine \/ IpcFails \/ DevUp
      PROVE  PingInv'
  BY <1>2 DEF Decode, TakeMap, device, CreateNetTUN, AddPeer, Written, IpcLine, IpcFails, DevUp, input, PingInv
<1>3. ASSUME UNCHANGED vars PROVE PingInv'
  BY <1>3 DEF vars, PingInv
<1> QED
  BY <1>1, <1>2, <1>3 DEF Next

-----------------------------------------------------------------------------
(* Types *)

\* The types hold at first, and every step keeps them.
LEMMA TypeInit == Init => TypeOK
<1> SUFFICES ASSUME Init PROVE TypeOK
  OBVIOUS
<1>1. MapInv
  BY MapInit
<1>2. map \in Seq(Entry) /\ DOMAIN map = 1 .. Len(map) /\ Len(map) \in Nat
  BY <1>1 DEF MapInv, MapOf
<1>3. DOMAIN map \subseteq Nodes
  BY <1>1 DEF MapInv, MapOf
<1>4. at \in 1 .. Len(map) + Len(lines) + 1
  BY <1>2 DEF Init
<1>5. DOMAIN << >> = {} /\ << >> \in [{} -> Nodes]
  OBVIOUS
<1> QED
  BY <1>3, <1>4, <1>5 DEF Init, TypeOK

\* Of a line this needs ReadInv: a route is never given before a peer.
LEMMA TypeStep == MapInv /\ TextInv /\ ReadInv /\ TypeOK /\ [Next]_vars => TypeOK'
<1> SUFFICES ASSUME MapInv, TextInv, ReadInv, TypeOK, [Next]_vars PROVE TypeOK'
  OBVIOUS
<1>0. map \in Seq(Entry) /\ Len(map) \in Nat
  BY DEF MapInv, MapOf
<1>1. ASSUME Decode \/ CreateNetTUN \/ Written \/ IpcFails \/ DevUp PROVE TypeOK'
  <2>1. map' = map /\ lines' = lines /\ dev' = dev /\ ping' = ping
    BY <1>1 DEF Decode, device, CreateNetTUN, Written, IpcFails, DevUp, input
  <2>2. step' \in {"decode", "no map", "decoded", "wireguard", "no device", "panic", "peers",
                   "ipc", "ipc failed", "up", "running"}
    BY <1>1 DEF Decode, CreateNetTUN, Written, IpcFails, DevUp
  <2>3. at' = at \/ (at' = 1 /\ Len(lines) \in Nat)
    <3>1. Written => step = "peers" /\ at' = 1
      BY DEF Written
    <3>2. step = "peers" => Len(lines) \in Nat
      BY DEF TextInv, Text
    <3>3. ~Written => at' = at
      BY <1>1 DEF Decode, device, CreateNetTUN, IpcFails, DevUp
    <3> QED
      BY <3>1, <3>2, <3>3
  <2>4. at' \in 1 .. Len(map') + Len(lines') + 1
    <3>1. at \in 1 .. Len(map) + Len(lines) + 1
      BY DEF TypeOK
    <3>2. CASE at' = at
      BY <2>1, <3>1, <3>2
    <3>3. CASE at' = 1 /\ Len(lines) \in Nat
      BY <1>0, <2>1, <3>3
    <3> QED
      BY <2>3, <3>2, <3>3
  <2> QED
    BY <2>1, <2>2, <2>4 DEF TypeOK, Addresses
<1>2. ASSUME AddPeer PROVE TypeOK'
  <2>1. /\ step = "peers" /\ at <= Len(map) /\ at' = at + 1 /\ step' = step
        /\ map' = map /\ dev' = dev /\ ping' = ping
    BY <1>2 DEF AddPeer, input
  <2>2. TextInv'
    BY TextStep
  <2>3. Len(lines') \in Nat /\ at' \in 1 .. Len(map') + 1
    BY <2>1, <2>2 DEF TextInv, Text
  <2>4. at' \in 1 .. Len(map') + Len(lines') + 1
    BY <1>0, <2>1, <2>3
  <2> QED
    BY <2>1, <2>4 DEF TypeOK, Addresses
<1>3. ASSUME IpcLine PROVE TypeOK'
  <2>1. /\ at \in DOMAIN lines /\ at' = at + 1 /\ at \in Nat /\ lines' = lines /\ map' = map
        /\ step' = "ipc" /\ Text(lines, Len(map))
    BY <1>3, LineEffect
  <2>2. at' \in 1 .. Len(map') + Len(lines') + 1
    BY <1>0, <2>1, LineFacts
  <2>3. ping' = ping
    BY <1>3 DEF IpcLine
  <2>4. \/ /\ lines[at][2] \in Nodes /\ dev'.peer = lines[at][2]
           /\ dev'.endpoint = dev.endpoint /\ dev'.route = dev.route
        \/ /\ lines[at][2] \in Addresses(map) /\ dev.peer \in Nodes
           /\ dev'.peer = dev.peer /\ dev'.endpoint = dev.endpoint
           /\ dev'.route = [a \in DOMAIN dev.route \cup {lines[at][2]} |->
                               IF a = lines[at][2] THEN dev.peer ELSE dev.route[a]]
        \/ /\ dev'.peer = dev.peer /\ dev'.route = dev.route
           /\ dev'.endpoint = [dev.endpoint EXCEPT ![dev.peer] = lines[at][2]]
    BY <1>3, LineEffect
  <2>5. dev'.peer \in Nodes \cup {None} /\ DOMAIN dev'.endpoint = Nodes
    BY <2>4 DEF TypeOK
  <2>6. dev'.route \in [DOMAIN dev'.route -> Nodes] /\ DOMAIN dev'.route \subseteq Addresses(map)
    <3>1. dev.route \in [DOMAIN dev.route -> Nodes] /\ DOMAIN dev.route \subseteq Addresses(map)
      BY DEF TypeOK
    <3> QED
      BY <2>4, <3>1
  <2> QED
    BY <2>1, <2>2, <2>3, <2>5, <2>6 DEF TypeOK, Addresses
<1>4. ASSUME CrossPing PROVE TypeOK'
  <2>1. map' = map /\ lines' = lines /\ dev' = dev /\ at' = at /\ step' = "running"
    BY <1>4 DEF CrossPing, input
  <2>2. ping' \in Nodes \cup {None}
    BY <1>4, PingChoice
  <2> QED
    BY <2>1, <2>2 DEF TypeOK, Addresses
<1>5. ASSUME UNCHANGED vars PROVE TypeOK'
  BY <1>5 DEF TypeOK, Addresses, vars
<1>6. ASSUME TakeMap PROVE TypeOK'
  <2>1. /\ step = "decoded" /\ step' = "wireguard" /\ at' = at /\ lines' = lines
        /\ dev' = dev /\ ping' = ping
    BY <1>6 DEF TakeMap, device
  <2>2. at = 1 /\ lines = << >> /\ dev.route = << >>
    BY <2>1 DEF TextInv, ReadInv
  <2>3. MapInv'
    BY MapStep
  <2>4. DOMAIN map' \subseteq Nodes /\ Len(map') \in Nat
    BY <2>3 DEF MapInv, MapOf
  <2>5. at' \in 1 .. Len(map') + Len(lines') + 1
    BY <2>1, <2>2, <2>4
  <2>6. DOMAIN dev'.route = {}
    BY <2>1, <2>2
  <2> QED
    BY <2>1, <2>4, <2>5, <2>6 DEF TypeOK
<1> QED
  BY <1>1, <1>2, <1>3, <1>4, <1>5, <1>6 DEF Next

-----------------------------------------------------------------------------
(* What the invariants say of a device that is up, and of one that is not *)

\* The entry of an endpoint that belongs to peer n is n itself, or a headless one after it.
LEMMA BelongsEntry ==
  ASSUME MapInv, Text(lines, Len(map)), NEW k \in DOMAIN lines, NEW n, Belongs(k, n)
  PROVE  /\ EntryOf(lines[k]) \in DOMAIN map /\ n \in DOMAIN map
         /\ EntryOf(lines[k]) = n \/ EntryOf(lines[k]) \in After(n)
<1> DEFINE e == EntryOf(lines[k])
<1>1. e \in 1 .. Len(map) /\ DOMAIN map = 1 .. Len(map) /\ LineOf(lines, k)
  BY LineFacts DEF MapInv, MapOf
<1>2. n \in DOMAIN map /\ n \in Headed /\ n <= e
  BY DEF Belongs, Headed
<1>3. map[e].key /\ EndpointLines(map[e]) # << >>
  BY <1>1 DEF Belongs, LineOf
<1>4. ASSUME e # n PROVE e \in After(n)
  <2>1. n < e
    BY <1>1, <1>2, <1>4
  <2>2. e \notin Headed
    BY <1>1, <1>2, <2>1 DEF Belongs
  <2>3. map[e].addrs = << >>
    BY <1>1, <1>3, <2>2 DEF Headed
  <2>4. map[e].eps # << >>
    <3>1. Given(e) = {}
      BY <2>3 DEF Given, ToSet
    <3>2. LocalLines(map[e]) = << >>
      BY <2>3 DEF LocalLines
    <3> QED
      BY <1>1, <1>3, <3>1, <3>2, EndpointCases
  <2>5. e \in Headless
    BY <1>1, <1>3, <2>3, <2>4 DEF Headless
  <2>6. \A h \in Headed : ~(n < h /\ h < e)
    <3>1. \A h \in Headed : h \in Int
      BY <1>1 DEF Headed
    <3> QED
      BY <1>1, <1>2, <3>1 DEF Belongs
  <2> QED
    BY <2>1, <2>5, <2>6 DEF After
<1> QED
  BY <1>1, <1>2, <1>4

\* The last endpoint line of the map is for the last endpoint of the entry.
LEMMA MapLast ==
  ASSUME NEW S, NEW n, n.eps \in Seq(S), n.eps # << >>
  PROVE  MapLines(n) # << >> /\ Last(MapLines(n))[2] = Last(n.eps)
<1>1. DOMAIN n.eps = 1 .. Len(n.eps) /\ Len(n.eps) \in Nat /\ Len(n.eps) \in DOMAIN n.eps
  OBVIOUS
<1>2. MapLines(n) = [j \in 1 .. Len(n.eps) |-> <<"endpoint", n.eps[j]>>]
  BY <1>1 DEF MapLines
<1>3. Len(MapLines(n)) = Len(n.eps) /\ MapLines(n) # << >>
  BY <1>1, <1>2
<1>4. MapLines(n)[Len(n.eps)] = <<"endpoint", n.eps[Len(n.eps)]>>
  BY <1>1, <1>2
<1> QED
  BY <1>3, <1>4 DEF Last

\* The endpoint that the text says last of an entry is what its peer gets,
\* if no later entry gives it another.
LEMMA LastEndpoint ==
  ASSUME MapInv, Text(lines, Len(map)), Read(Len(lines) + 1), NEW i \in Headed
  PROVE  /\ After(i) # {} => \E h \in After(i) : dev.endpoint[i] = Last(map[h].eps)
         /\ After(i) = {} /\ EndpointLines(map[i]) # << >> =>
               dev.endpoint[i] = Last(EndpointLines(map[i]))[2]
         /\ After(i) = {} /\ EndpointLines(map[i]) = << >> => dev.endpoint[i] = None
<1>1. /\ DOMAIN lines = 1 .. Len(lines) /\ Len(lines) \in Nat
      /\ \A q \in DOMAIN lines : q < Len(lines) + 1 /\ q \in Nat
  BY DEF Text
<1>2. i \in DOMAIN map /\ i \in Nodes /\ map[i].key /\ DOMAIN map = 1 .. Len(map)
  BY DEF Headed, MapInv, MapOf
<1>3. \/ /\ dev.endpoint[i] = None
         /\ \A q \in DOMAIN lines : ~Belongs(q, i)
      \/ \E q \in DOMAIN lines :
            /\ Belongs(q, i) /\ dev.endpoint[i] = lines[q][2]
            /\ \A r \in DOMAIN lines : q < r => ~Belongs(r, i)
  BY <1>1, <1>2 DEF Read
\* An entry at or after i says its last endpoint.
<1>4. ASSUME NEW e \in After(i) \cup {i}, EndpointLines(map[e]) # << >>
      PROVE  \E k \in DOMAIN lines :
                /\ lines[k] = Last(EndpointLines(map[e])) /\ Belongs(k, i)
                /\ EntryOf(lines[k]) = e
                /\ \A j \in DOMAIN lines : j > k => EntryOf(lines[j]) # e
  <2>1. e \in DOMAIN map /\ map[e].key
    BY <1>2 DEF After, Headless
  <2>2. PICK k \in DOMAIN lines :
           /\ lines[k] = Last(EndpointLines(map[e]))
           /\ \A j \in DOMAIN lines : j > k => EntryOf(lines[j]) # e
    BY <1>2, <1>4, <2>1 DEF Text, Said
  <2>3. lines[k][1] = "endpoint" /\ EntryOf(lines[k]) = e
    <3> DEFINE E == EndpointLines(map[e])
    <3>1. E \in Seq(Texts)
      BY <2>1, EndpointFacts
    <3>2. Len(E) \in DOMAIN E
      BY <1>4, <3>1
    <3>3. E[Len(E)][1] = "endpoint" /\ EntryOf(E[Len(E)]) = e
      BY <2>1, <3>2, EndpointFacts
    <3> QED
      BY <2>2, <3>3 DEF Last
  <2>4. i <= e /\ \A h \in Headed : h <= i \/ h > e
    <3>1. e \in Int /\ i \in Int /\ \A h \in Headed : h \in Int
      BY <1>2, <2>1 DEF Headed
    <3>2. CASE e = i
      BY <3>1, <3>2
    <3>3. CASE e \in After(i)
      <4>1. e > i /\ \A h \in Headed : ~(i < h /\ h < e)
        BY <3>3 DEF After
      <4>2. e \notin Headed
        BY <3>3 DEF After, Headless, Headed
      <4> QED
        BY <3>1, <4>1, <4>2
    <3> QED
      BY <3>2, <3>3
  <2>5. Belongs(k, i)
    BY <2>3, <2>4 DEF Belongs
  <2> QED
    BY <2>2, <2>3, <2>5
\* The line that counts is the last of its entry.
<1>5. ASSUME NEW q \in DOMAIN lines, Belongs(q, i),
             \A r \in DOMAIN lines : q < r => ~Belongs(r, i)
      PROVE  /\ EntryOf(lines[q]) \in After(i) \cup {i}
             /\ EndpointLines(map[EntryOf(lines[q])]) # << >>
             /\ lines[q] = Last(EndpointLines(map[EntryOf(lines[q])]))
  <2> DEFINE e == EntryOf(lines[q])
  <2>1. e \in After(i) \cup {i}
    BY <1>5, BelongsEntry
  <2>2. EndpointLines(map[e]) # << >>
    BY <1>5, LineFacts DEF Belongs, LineOf
  <2>3. PICK k \in DOMAIN lines :
           /\ lines[k] = Last(EndpointLines(map[e])) /\ Belongs(k, i)
           /\ \A j \in DOMAIN lines : j > k => EntryOf(lines[j]) # e
    BY <1>4, <2>1, <2>2
  <2>4. ~(q < k) /\ ~(q > k)
    BY <1>5, <2>3
  <2>5. q = k
    BY <1>1, <2>4
  <2> QED
    BY <2>1, <2>2, <2>3, <2>5
<1>6. CASE After(i) # {}
  <2>1. PICK h \in After(i) : TRUE
    BY <1>6
  <2>2. \A e \in After(i) :
           /\ EndpointLines(map[e]) = MapLines(map[e]) /\ MapLines(map[e]) # << >>
           /\ Last(EndpointLines(map[e]))[2] = Last(map[e].eps)
    <3> SUFFICES ASSUME NEW e \in After(i)
                 PROVE  /\ EndpointLines(map[e]) = MapLines(map[e]) /\ MapLines(map[e]) # << >>
                        /\ Last(EndpointLines(map[e]))[2] = Last(map[e].eps)
      OBVIOUS
    <3>1. e \in DOMAIN map /\ map[e].addrs = << >> /\ map[e].eps # << >>
      BY DEF After, Headless
    <3>2. Given(e) = {}
      BY <3>1 DEF Given, ToSet
    <3>3. EndpointLines(map[e]) = MapLines(map[e])
      BY <3>1, <3>2, EndpointCases
    <3>4. map[e].eps \in Seq({"map"} \X Nodes \X (1 .. MaxEps))
      BY <3>1, EntryType
    <3> QED
      BY <3>1, <3>3, <3>4, MapLast
  <2>3. \E k \in DOMAIN lines : Belongs(k, i)
    BY <1>4, <2>1, <2>2
  <2>4. PICK q \in DOMAIN lines :
           /\ Belongs(q, i) /\ dev.endpoint[i] = lines[q][2]
           /\ \A r \in DOMAIN lines : q < r => ~Belongs(r, i)
    BY <1>3, <2>3
  <2> DEFINE e == EntryOf(lines[q])
  <2>5. e \in After(i)
    <3> SUFFICES ASSUME e = i PROVE FALSE
      BY <1>5, <2>4
    <3>1. PICK k \in DOMAIN lines : Belongs(k, i) /\ EntryOf(lines[k]) = h
      BY <1>4, <2>1, <2>2
    <3>2. h > i
      BY <2>1 DEF After
    <3>3. ~(q < k)
      BY <2>4, <3>1
    <3>4. q # k
      BY <1>2, <3>1, <3>2
    <3>5. EntryOf(lines[k]) <= EntryOf(lines[q])
      BY <1>1, <3>3, <3>4 DEF Text, InOrder
    <3>6. h \in Int /\ i \in Int
      BY <1>2, <2>1 DEF After, Headless
    <3> QED
      BY <3>1, <3>2, <3>5, <3>6
  <2>6. dev.endpoint[i] = Last(map[e].eps)
    BY <1>5, <2>2, <2>4, <2>5
  <2> QED
    BY <1>6, <2>5, <2>6
<1>7. CASE After(i) = {} /\ EndpointLines(map[i]) # << >>
  <2>1. \E k \in DOMAIN lines : Belongs(k, i)
    BY <1>4, <1>7
  <2>2. PICK q \in DOMAIN lines :
           /\ Belongs(q, i) /\ dev.endpoint[i] = lines[q][2]
           /\ \A r \in DOMAIN lines : q < r => ~Belongs(r, i)
    BY <1>3, <2>1
  <2>3. EntryOf(lines[q]) = i /\ lines[q] = Last(EndpointLines(map[EntryOf(lines[q])]))
    BY <1>5, <1>7, <2>2
  <2> QED
    BY <1>7, <2>2, <2>3
<1>8. CASE After(i) = {} /\ EndpointLines(map[i]) = << >>
  <2>1. ASSUME NEW q \in DOMAIN lines, Belongs(q, i),
               \A r \in DOMAIN lines : q < r => ~Belongs(r, i) PROVE FALSE
    BY <1>5, <1>8, <2>1
  <2> QED
    BY <1>3, <1>8, <2>1
<1> QED
  BY <1>6, <1>7, <1>8

\* A device that is up has the endpoints in their order.
LEMMA EndpointsHold == MapInv /\ TextInv /\ ReadInv => EndpointOrder
<1> SUFFICES ASSUME MapInv, TextInv, ReadInv, IsUp, NEW i \in Headed
             PROVE  LET ep == dev.endpoint[i]
                    IN  IF After(i) # {}
                        THEN \E h \in After(i) : ep = Last(map[h].eps)
                        ELSE /\ Given(i) # {} => \E a \in Given(i) : ep = <<"override", a>>
                             /\ Given(i) = {} /\ map[i].eps # << >> => ep = Last(map[i].eps)
                             /\ Given(i) = {} /\ map[i].eps = << >> =>
                                    ep = IF map[i].addrs[1][2] = "v4"
                                         THEN <<"local", map[i].addrs[1]>> ELSE None
  BY DEF EndpointOrder
<1> DEFINE ep == dev.endpoint[i]
<1>1. Text(lines, Len(map)) /\ Read(Len(lines) + 1)
  BY DEF TextInv, ReadInv, IsUp
<1>2. i \in DOMAIN map /\ map[i].addrs # << >>
  BY DEF Headed
<1>3. /\ After(i) # {} => \E h \in After(i) : ep = Last(map[h].eps)
      /\ After(i) = {} /\ EndpointLines(map[i]) # << >> => ep = Last(EndpointLines(map[i]))[2]
      /\ After(i) = {} /\ EndpointLines(map[i]) = << >> => ep = None
  BY <1>1, LastEndpoint
<1>4. ASSUME After(i) = {}, Given(i) # {} PROVE \E a \in Given(i) : ep = <<"override", a>>
  <2>1. PICK a \in Given(i) : EndpointLines(map[i]) = <<<<"endpoint", <<"override", a>>>>>>
    BY <1>2, <1>4, EndpointCases
  <2>2. EndpointLines(map[i]) # << >> /\ Last(EndpointLines(map[i]))[2] = <<"override", a>>
    BY <2>1 DEF Last
  <2> QED
    BY <1>3, <1>4, <2>2
<1>5. ASSUME After(i) = {}, Given(i) = {}, map[i].eps # << >> PROVE ep = Last(map[i].eps)
  <2>1. EndpointLines(map[i]) = MapLines(map[i])
    BY <1>2, <1>5, EndpointCases
  <2>2. map[i].eps \in Seq({"map"} \X Nodes \X (1 .. MaxEps))
    BY <1>2, EntryType
  <2>3. MapLines(map[i]) # << >> /\ Last(MapLines(map[i]))[2] = Last(map[i].eps)
    BY <1>5, <2>2, MapLast
  <2> QED
    BY <1>3, <1>5, <2>1, <2>3
<1>6. ASSUME After(i) = {}, Given(i) = {}, map[i].eps = << >>
      PROVE  ep = IF map[i].addrs[1][2] = "v4" THEN <<"local", map[i].addrs[1]>> ELSE None
  <2>1. EndpointLines(map[i]) = LocalLines(map[i])
    BY <1>2, <1>6, EndpointCases
  <2>2. CASE map[i].addrs[1][2] = "v4"
    <3>1. LocalLines(map[i]) = <<<<"endpoint", <<"local", map[i].addrs[1]>>>>>>
      BY <1>2, <2>2 DEF LocalLines
    <3>2. LocalLines(map[i]) # << >> /\ Last(LocalLines(map[i]))[2] = <<"local", map[i].addrs[1]>>
      BY <3>1 DEF Last
    <3> QED
      BY <1>3, <1>6, <2>1, <2>2, <3>2
  <2>3. CASE map[i].addrs[1][2] # "v4"
    BY <1>3, <1>6, <2>1, <2>3 DEF LocalLines
  <2> QED
    BY <2>2, <2>3
<1> QED
  BY <1>3, <1>4, <1>5, <1>6

\* What the body may still be, and what it was when it was refused.
RefusedInv ==
    /\ step = "decode" => body \in Bodies
    /\ step = "no map" => body = << >> \/ ~Whole \/ LengthDecoded
    /\ step \in {"decode", "decoded"} => ~self
    /\ step \in {"wireguard", "panic"} => body = Map \/ ~self
    /\ step = "panic" => ~self
    /\ step \notin {"decode", "no map", "decoded", "wireguard", "panic"} => body = Map
    /\ bad \subseteq Parsed(map, overrides)

\* What a body is a sequence of.
Tokens == Bytes \cup {"rest", "noise"}

\* The length and what follows it as sequences.
LEMMA LengthSeq ==
  ASSUME NEW S, NEW l \in [1 .. 4 -> S]
  PROVE  l \in Seq(S) /\ Len(l) = 4
<1>1. 4 \in Nat
  OBVIOUS
<1>2. l \in Seq(S)
  BY <1>1, SeqDef, Zenon
<1>3. Len(l) \in Nat /\ DOMAIN l = 1 .. Len(l)
  BY <1>2, LenProperties
<1>4. DOMAIN l = 1 .. 4
  OBVIOUS
<1> QED
  BY <1>2, <1>3, <1>4

LEMMA PairSeq ==
  ASSUME NEW S, NEW x \in S, NEW y \in S
  PROVE  <<x, y>> \in Seq(S) /\ Len(<<x, y>>) = 2 /\ <<x, y>>[1] = x
  OBVIOUS

\* A body is that much of the length and the map.
LEMMA BodyForm ==
  ASSUME NEW b \in Bodies
  PROVE  \E n \in 0 .. 6 :
            /\ b \in Seq(Tokens) /\ Len(b) = n
            /\ \A j \in 1 .. n : b[j] = "rest" => j = 6
            /\ n > 4 => b[5] = "brace"
<1>1. PICK l \in Lengths, r \in {"rest", "noise"}, n \in 0 .. 6 : b = Came(l, r, n)
  BY SMT DEF Bodies
<1> DEFINE e == <<"brace", r>>
           t == l \o e
<1>2. l \in Seq(Tokens) /\ Len(l) = 4
  <2>1. l \in [1 .. 4 -> Tokens]
    BY DEF Tokens, Lengths
  <2> QED
    BY <2>1, LengthSeq
<1>3. \A j \in 1 .. 4 : l[j] # "rest"
  BY DEF Bytes, Lengths
<1>4. e \in Seq(Tokens) /\ Len(e) = 2 /\ e[1] = "brace"
  <2>1. "brace" \in Tokens /\ r \in Tokens
    BY DEF Tokens, Bytes
  <2> QED
    BY <2>1, PairSeq
<1>5. b = SubSeq(t, 1, n)
  BY <1>1 DEF Came
<1> HIDE DEF e
<1>6. /\ t \in Seq(Tokens) /\ Len(t) = 6
      /\ \A j \in 1 .. 6 : t[j] = IF j <= 4 THEN l[j] ELSE e[j - 4]
  <2>1. /\ t \in Seq(Tokens) /\ Len(t) = Len(l) + Len(e)
        /\ \A j \in 1 .. Len(l) + Len(e) : t[j] = IF j <= Len(l) THEN l[j] ELSE e[j - Len(l)]
    BY <1>2, <1>4, ConcatProperties, Zenon
  <2> QED
    BY <1>2, <1>4, <2>1
<1> HIDE DEF t
<1>7. b \in Seq(Tokens) /\ Len(b) = n /\ \A j \in 1 .. n : b[j] = t[j]
  <2>1. n \in Int /\ n \in Nat /\ n <= 6
    OBVIOUS
  <2>2. \A j \in 1 .. n : t[j] \in Tokens
    <3> SUFFICES ASSUME NEW j \in 1 .. n PROVE t[j] \in Tokens
      OBVIOUS
    <3>1. j \in 1 .. Len(t)
      BY <1>6, <2>1
    <3> QED
      BY <1>6, <3>1, ElementOfSeq
  <2>3. /\ SubSeq(t, 1, n) \in Seq(Tokens)
        /\ Len(SubSeq(t, 1, n)) = IF 1 <= n THEN n - 1 + 1 ELSE 0
        /\ \A j \in 1 .. n - 1 + 1 : SubSeq(t, 1, n)[j] = t[1 + j - 1]
    BY <2>1, <2>2, SubSeqProperties
  <2>4. \A j \in 1 .. n : SubSeq(t, 1, n)[j] = t[j]
    BY <2>1, <2>3
  <2>5. Len(SubSeq(t, 1, n)) = n
    BY <2>1, <2>3
  <2> QED
    BY <1>5, <2>3, <2>4, <2>5
<1>8. ASSUME NEW j \in 1 .. n, b[j] = "rest" PROVE j = 6
  <2>1. t[j] = "rest" /\ j \in 1 .. 6
    BY <1>7, <1>8
  <2>2. j \in 1 .. 4 \/ j = 5 \/ j = 6
    BY <2>1
  <2>3. CASE j \in 1 .. 4
    BY <1>3, <1>6, <2>1, <2>3
  <2>4. CASE j = 5
    BY <1>4, <1>6, <2>1, <2>4
  <2> QED
    BY <2>2, <2>3, <2>4
<1>9. ASSUME n > 4 PROVE b[5] = "brace"
  <2>1. 5 \in 1 .. n
    BY <1>9
  <2>2. t[5] = e[1]
    BY <1>6
  <2> QED
    BY <1>4, <1>7, <2>1, <2>2
<1> QED
  BY <1>7, <1>8, <1>9

\* What is left of a body that has come to its end, and of no more than the
\* map, is the map.
LEMMA StrippedForm ==
  ASSUME body \in Bodies, Stripped # << >>, Last(Stripped) = "rest", ~(Len(Stripped) > 2)
  PROVE  Stripped = Map
<1> DEFINE S == {j \in 1 .. Len(body) : body[j] = "brace"}
<1>1. PICK n \in 0 .. 6 :
         /\ body \in Seq(Tokens) /\ Len(body) = n
         /\ \A j \in 1 .. n : body[j] = "rest" => j = 6
         /\ n > 4 => body[5] = "brace"
  BY BodyForm
<1>2. SelectInSeq(body, LAMBDA b : b = "brace") = IF S # {} THEN Min(S) ELSE 0
  BY DEF SelectInSeq
<1>3. S \in SUBSET Nat
  OBVIOUS
<1>4. CASE S = {}
  <2>1. Stripped = body
    BY <1>2, <1>4 DEF Stripped
  <2>2. n \in 1 .. n /\ body[n] = "rest"
    BY <1>1, <2>1 DEF Last
  <2>3. n = 6 /\ 5 \in S
    BY <1>1, <2>2
  <2> QED
    BY <1>4, <2>3
<1>5. CASE S # {}
  <2> DEFINE m == Min(S)
  <2>1. m \in S /\ \A y \in S : m =< y
    BY <1>3, <1>5, MinNat
  <2> HIDE DEF m
  <2>2. Stripped = SubSeq(body, m, n)
    <3>1. m # 0
      BY <2>1
    <3> QED
      BY <1>1, <1>2, <1>5, <3>1 DEF Stripped, m
  <2>3. m \in 1 .. n /\ m \in Nat /\ n \in Nat
    BY <1>1, <2>1
  <2>4. /\ Len(Stripped) = n - m + 1
        /\ \A j \in 1 .. n - m + 1 : Stripped[j] = body[m + j - 1]
        /\ Stripped \in Seq(Tokens)
    BY <1>1, <2>2, <2>3
  <2>5. Last(Stripped) = body[n]
    BY <2>3, <2>4 DEF Last
  <2>6. n = 6
    BY <1>1, <2>3, <2>5
  <2>7. 5 \in S
    BY <1>1, <2>6
  <2>8. m = 5
    BY <2>1, <2>3, <2>4, <2>6, <2>7
  <2>9. Len(Stripped) = 2 /\ Stripped[1] = "brace" /\ Stripped[2] = "rest"
    BY <1>1, <2>4, <2>5, <2>6, <2>7, <2>8
  <2>10. Map \in Seq(Tokens) /\ Len(Map) = 2 /\ Map[1] = "brace" /\ Map[2] = "rest"
    <3>1. "brace" \in Tokens /\ "rest" \in Tokens
      BY DEF Tokens, Bytes
    <3> QED
      BY <3>1, PairSeq DEF Map
  <2>11. \A j \in 1 .. Len(Stripped) : Stripped[j] = Map[j]
    BY <2>9, <2>10
  <2> QED
    BY <2>4, <2>9, <2>10, <2>11, SeqEqual
<1> QED
  BY <1>4, <1>5

\* RefusedInv holds at first.
LEMMA RefusedInit == Init => RefusedInv
BY DEF Init, RefusedInv

\* What is decoded is the map, or has no own address.
LEMMA RefusedStep == RefusedInv /\ [Next]_vars => RefusedInv'
<1> SUFFICES ASSUME RefusedInv, [Next]_vars PROVE RefusedInv'
  OBVIOUS
<1>1. ASSUME Decode PROVE RefusedInv'
  <2>1. /\ step = "decode" /\ body' = Stripped /\ self' = self
        /\ map' = map /\ overrides' = overrides /\ bad' = bad
        /\ step' = IF body' = Map \/ EmptyObject(body') THEN "decoded" ELSE "no map"
    BY <1>1 DEF Decode
  <2>2. body \in Bodies /\ ~self
    BY <2>1 DEF RefusedInv
  <2>3. step' = "no map" => body' # Map
    BY <2>1
  <2>4. step' = "no map" =>
           body' = << >> \/ Last(body') # "rest" \/ Len(body') > 2
    BY <2>1, <2>2, <2>3, StrippedForm
  <2>5. Len(Map) = 2
    BY DEF Map
  <2>6. (step = "no map" => body = << >> \/ ~Whole \/ LengthDecoded)'
    BY <2>4, <2>5 DEF Whole, LengthDecoded
  <2>7. step' \in {"decoded", "no map"}
    BY <2>1
  <2> QED
    BY <2>1, <2>2, <2>6, <2>7 DEF RefusedInv, Parsed
<1>2. ASSUME TakeMap PROVE RefusedInv'
  <2>1. /\ step = "decoded" /\ step' = "wireguard" /\ body' = body
        /\ body = Map \/ self' = self
        /\ bad' \subseteq Parsed(map', overrides')
    BY <1>2 DEF TakeMap
  <2>2. ~self
    BY <2>1 DEF RefusedInv
  <2>3. (bad \subseteq Parsed(map, overrides))'
    BY <2>1 DEF Parsed
  <2> QED
    BY <2>1, <2>2, <2>3 DEF RefusedInv
<1>3. ASSUME CreateNetTUN PROVE RefusedInv'
  BY <1>3 DEF CreateNetTUN, RefusedInv, input, Parsed
<1>4. ASSUME AddPeer \/ Written \/ IpcLine \/ IpcFails \/ DevUp \/ CrossPing PROVE RefusedInv'
  <2>1. UNCHANGED input
    BY <1>4 DEF AddPeer, Written, IpcLine, IpcFails, DevUp, CrossPing
  <2>2. /\ step \in {"peers", "ipc", "up"}
        /\ step' \in {"peers", "ipc", "ipc failed", "up", "no device", "running"}
    BY <1>4 DEF AddPeer, Written, IpcLine, IpcFails, DevUp, CrossPing
  <2> QED
    BY <2>1, <2>2 DEF RefusedInv, input, Parsed
<1>5. ASSUME UNCHANGED vars PROVE RefusedInv'
  BY <1>5 DEF vars, RefusedInv, Parsed, Whole, LengthDecoded
<1> QED
  BY <1>1, <1>2, <1>3, <1>4, <1>5 DEF Next

\* A device that is up routes every address of a peer with a key to that peer.
LEMMA RoutesHold ==
  ASSUME MapInv, TextInv, ReadInv, IsUp, NEW i \in Headed, NEW a \in ToSet(map[i].addrs)
  PROVE  a \in DOMAIN dev.route /\ dev.route[a] = i
<1>1. Text(lines, Len(map)) /\ Read(Len(lines) + 1)
  BY DEF TextInv, ReadInv, IsUp
<1>2. i \in DOMAIN map /\ map[i].key /\ i \in 1 .. Len(map)
  BY DEF Headed, MapInv, MapOf
<1>3. Said(lines, i)
  BY <1>1, <1>2 DEF Text
<1>4. PICK k \in DOMAIN lines : lines[k] = <<"allowed_ip", a>>
  BY <1>3 DEF Said
<1>5. k < Len(lines) + 1
  BY <1>1 DEF Text
<1>6. a \in DOMAIN dev.route
  BY <1>1, <1>4, <1>5 DEF Read
<1>7. a[1] = i
  BY <1>2, EntryType DEF ToSet
<1> QED
  BY <1>1, <1>6, <1>7 DEF Read

\* A text is refused for endpoints before the first address.
LEMMA FailsHold ==
  ASSUME MapInv, Text(lines, Len(map)), Read(at), at \in DOMAIN lines,
         lines[at][1] = "endpoint", dev.peer = None
  PROVE  \E h \in Headless : \A k \in Headed : h < k
<1> DEFINE e == EntryOf(lines[at])
<1>3. e \in 1 .. Len(map) /\ DOMAIN map = 1 .. Len(map) /\ LineOf(lines, at)
  <2>1. e \in 1 .. Len(map) /\ LineOf(lines, at)
    BY LineFacts
  <2>2. DOMAIN map = 1 .. Len(map)
    BY DEF MapInv, MapOf
  <2> QED
    BY <2>1, <2>2
<1>4. map[e].key /\ EndpointLines(map[e]) # << >>
  BY <1>3 DEF LineOf
<1>5. ASSUME NEW k \in Headed PROVE e < k
  <2> SUFFICES ASSUME ~(e < k) PROVE FALSE
    OBVIOUS
  <2>1. k \in Int /\ k <= e
    BY <1>3 DEF Headed
  <2>2. PICK q \in DOMAIN lines : q < at /\ lines[q] = <<"public_key", k>>
    BY <2>1, KeyBefore
  <2> QED
    BY <2>2 DEF Read
<1>6. map[e].addrs = << >>
  <2>1. e \notin Headed
    BY <1>3, <1>5
  <2> QED
    BY <1>3, <1>4, <2>1 DEF Headed
<1>7. map[e].eps # << >>
  <2>1. Given(e) = {}
    BY <1>6 DEF Given, ToSet
  <2>2. LocalLines(map[e]) = << >>
    BY <1>6 DEF LocalLines
  <2> QED
    BY <1>3, <1>4, <2>1, <2>2, EndpointCases
<1>8. e \in Headless
  BY <1>3, <1>4, <1>6, <1>7 DEF Headless
<1> QED
  BY <1>5, <1>8

\* A line with an endpoint that cannot be parsed is of an entry that uses one.
LEMMA BadHolds ==
  ASSUME MapInv, Text(lines, Len(map)), bad \subseteq Parsed(map, overrides),
         at \in DOMAIN lines, lines[at][1] = "endpoint", lines[at][2] \in bad
  PROVE  \E i \in DOMAIN map : BadEndpoint(i)
<1> DEFINE e == EntryOf(lines[at])
           E == EndpointLines(map[e])
<1>1. e \in DOMAIN map /\ map[e].key /\ lines[at] \in ToSet(E)
  <2>1. e \in 1 .. Len(map) /\ LineOf(lines, at)
    BY LineFacts
  <2> QED
    BY <2>1 DEF LineOf, MapInv, MapOf
<1>2. PICK k \in DOMAIN E : lines[at] = E[k]
  BY <1>1 DEF ToSet
<1>3. \A x \in bad : x[1] \in {"port", "override", "map"}
  <2>1. \A i \in DOMAIN map : \A x \in ToSet(map[i].eps) : x[1] = "map"
    BY EntryType DEF ToSet
  <2> QED
    BY <2>1 DEF Parsed, Port
<1>4. CASE Given(e) # {}
  <2>1. PICK a \in Given(e) : E = <<<<"endpoint", <<"override", a>>>>>>
    BY <1>1, <1>4, EndpointCases
  <2>2. lines[at][2] = <<"override", a>>
    BY <1>2, <2>1
  <2> QED
    BY <1>1, <2>2 DEF BadEndpoint
<1>5. CASE Given(e) = {} /\ map[e].eps # << >>
  <2>1. E = MapLines(map[e])
    BY <1>1, <1>5, EndpointCases
  <2>2. k \in DOMAIN map[e].eps /\ lines[at][2] = map[e].eps[k]
    BY <1>2, <2>1 DEF MapLines
  <2>3. map[e].eps[k] \in ToSet(map[e].eps)
    BY <2>2 DEF ToSet
  <2> QED
    BY <1>1, <1>5, <2>2, <2>3 DEF BadEndpoint
<1>6. CASE Given(e) = {} /\ map[e].eps = << >>
  <2>1. E = LocalLines(map[e])
    BY <1>1, <1>6, EndpointCases
  <2>2. lines[at][2][1] = "local"
    BY <1>2, <2>1 DEF LocalLines
  <2> QED
    BY <1>3, <2>2
<1> QED
  BY <1>4, <1>5, <1>6

\* All together, and the ping.
LEMMA MeshHolds == MapInv /\ TypeOK /\ TextInv /\ ReadInv /\ PingInv /\ RefusedInv => MeshComplete
<1> SUFFICES ASSUME MapInv, TypeOK, TextInv, ReadInv, PingInv, RefusedInv PROVE MeshComplete
  OBVIOUS
<1>1. ASSUME ping # None, map[ping].key PROVE dev.route[map[ping].addrs[1]] = ping
  <2>1. step = "running" /\ ping \in DOMAIN map /\ map[ping].addrs # << >>
    BY <1>1 DEF PingInv
  <2>2. ping \in Headed
    BY <1>1, <2>1 DEF Headed
  <2>3. map[ping].addrs[1] \in ToSet(map[ping].addrs)
    BY <2>1, EntryType DEF ToSet
  <2> QED
    BY <2>1, <2>2, <2>3, RoutesHold DEF IsUp
<1>2. ASSUME step = "ipc failed", Port \notin bad
      PROVE  \/ \E i \in DOMAIN map : BadEndpoint(i)
             \/ \E h \in Headless : \A k \in Headed : h < k
  <2>1. /\ Text(lines, Len(map)) /\ Read(at)
        /\ at <= Len(lines) /\ lines[at][1] = "endpoint"
        /\ dev.peer = None \/ lines[at][2] \in bad
    BY <1>2 DEF TextInv, ReadInv
  <2>2. at \in 1 .. Len(map) + Len(lines) + 1 /\ Len(map) \in Nat
    <3>1. at \in 1 .. Len(map) + Len(lines) + 1
      BY Zenon DEF TypeOK
    <3>2. Len(map) \in Nat
      BY DEF MapInv, MapOf
    <3> QED
      BY <3>1, <3>2
  <2>3. Len(lines) \in Nat /\ DOMAIN lines = 1 .. Len(lines)
    BY <2>1 DEF Text
  <2>4. at \in DOMAIN lines
    BY <2>1, <2>2, <2>3
  <2>5. bad \subseteq Parsed(map, overrides)
    BY DEF RefusedInv
  <2> QED
    BY <2>1, <2>4, <2>5, FailsHold, BadHolds
<1>3. ASSUME IsUp PROVE body # << >> /\ Whole /\ ~LengthDecoded
  <2>1. body = Map
    BY <1>3 DEF RefusedInv, IsUp
  <2>2. Len(Map) = 2 /\ Map # << >> /\ Last(Map) = "rest"
    BY DEF Map, Last
  <2> QED
    BY <2>1, <2>2 DEF Whole, LengthDecoded
<1>4. /\ step = "no map" => body = << >> \/ ~Whole \/ LengthDecoded
      /\ step = "panic" => ~self
  BY DEF RefusedInv
<1> QED
  BY <1>1, <1>2, <1>3, <1>4, RoutesHold DEF MeshComplete

-----------------------------------------------------------------------------
(* The theorems *)

\* What holds of every state, and is kept by every step.
MeshInv ==
    /\ MapInv /\ TypeOK /\ TextInv /\ ReadInv /\ PingInv /\ RefusedInv

\* The invariants hold together.
LEMMA MeshInvariant == Spec => []MeshInv
<1>1. Init => MeshInv
  BY MapInit, TypeInit, TextInit, ReadInit, PingInit, RefusedInit DEF MeshInv
<1>2. MeshInv /\ [Next]_vars => MeshInv'
  <2> SUFFICES ASSUME MeshInv, [Next]_vars PROVE MeshInv'
    OBVIOUS
  <2> QED
    BY MapStep, TypeStep, TextStep, ReadStep, PingStep, RefusedStep DEF MeshInv
<1> QED
  BY <1>1, <1>2, PTL DEF Spec

\* For every map, at and the device stay in their types: a route is always to
\* the peer that is under configuration (runWireGuard, IpcSet).
THEOREM TypeCorrect == Spec => []TypeOK
<1>1. MeshInv => TypeOK
  BY DEF MeshInv
<1> QED
  BY <1>1, MeshInvariant, PTL

\* In a device that is up every peer has the endpoint that runWireGuard's order
\* gives it, however many entries, addresses, endpoints and overrides there are.
THEOREM EndpointOrderCorrect == Spec => []EndpointOrder
<1>1. MeshInv => EndpointOrder
  BY EndpointsHold DEF MeshInv
<1> QED
  BY <1>1, MeshInvariant, PTL

\* Only a body that is no whole map, a brace in the length, a map without an own
\* address, a port or endpoint that cannot be parsed, or endpoints before every
\* address are refused; and in a device that is up each address of each
\* peer with a key is routed to it, and the ping goes to the peer it is meant for.
THEOREM MeshCompleteCorrect == Spec => []MeshComplete
<1>1. MeshInv => MeshComplete
  BY MeshHolds DEF MeshInv
<1> QED
  BY <1>1, MeshInvariant, PTL
=============================================================================
