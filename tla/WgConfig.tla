------------------------------ MODULE WgConfig ------------------------------
(***************************************************************************)
(* From the network map to a WireGuard device (client/main.go): the body   *)
(* of the answer is decoded, runWireGuard writes a text of lines from it,  *)
(* the device takes the text line by line, comes up, and one peer is       *)
(* pinged.                                                                 *)
(*                                                                         *)
(* The body is the length of the map, four bytes, and the map, of which    *)
(* the brace it opens with and the rest are told apart.  Whatever came     *)
(* before the context of the request ended is decoded (DoRequestContext    *)
(* returns it without an error), so it may stop anywhere.                  *)
(*                                                                         *)
(* The lines of a peer have no head of their own but its public_key lines, *)
(* one per address; an endpoint belongs to the public_key line before it.  *)
(* That reading of the text is wireguard-go's and external.  An address is *)
(* a node and its family; keys are nodes.  Headscale does not list a node  *)
(* among its own peers, so the guards against that are left out.           *)
(***************************************************************************)
EXTENDS Integers, Sequences, FiniteSets, SequencesExt

CONSTANTS MaxPeers,     \* bound: entries of the map, the i-th about node i
          AddrLists,    \* bound: the families of an entry's addresses, in order
          MaxEps,       \* bound: endpoints of an entry, none or so many
          MaxOverrides, \* bound: overrides on the command line
          MaxBad,       \* bound: texts that the device cannot parse
          None

ASSUME WgConfigAssumption ==
    /\ MaxPeers \in Nat /\ MaxEps \in Nat /\ MaxOverrides \in Nat /\ MaxBad \in Nat
    /\ None \notin Nat /\ \A l \in AddrLists : l \in Seq({"v4", "v6"})

VARIABLES
    body,       \* what came of the answer, and what is left to decode
    map,        \* the peers of the map
    self,       \* whether the map has an own address that can be parsed
    overrides,  \* addresses given by --peer-endpoint
    bad,        \* the texts, --port and endpoints, that cannot be parsed
    step, at,   \* how far up is; the next entry or line
    lines,      \* cfgStr
    dev,        \* the device: the peer under configuration, endpoints, routes
    ping        \* the peer to ping

vars == <<body, map, self, overrides, bad, step, at, lines, dev, ping>>
input == <<body, map, self, overrides, bad>>
device == <<at, lines, dev, ping>>

-----------------------------------------------------------------------------
Nodes == 1 .. MaxPeers

\* An entry of the map that is not null; key is whether its key can be parsed.
Entries(i) ==
    {[nil |-> FALSE, node |-> i, key |-> k,
      addrs |-> [j \in DOMAIN l |-> <<i, l[j]>>],
      eps |-> [j \in 1 .. n |-> <<"map", i, j>>]] :
         k \in BOOLEAN, l \in AddrLists, n \in {0, MaxEps}}
Null(i) == [nil |-> TRUE, node |-> i, key |-> FALSE, addrs |-> << >>, eps |-> << >>]

Maps == {<< >>} \cup UNION {{m \in [1 .. n -> UNION {Entries(i) \cup {Null(i)} : i \in Nodes}] :
                                 \A i \in 1 .. n : m[i].node = i} : n \in Nodes}
Addresses(m) == UNION {ToSet(m[i].addrs) : i \in DOMAIN m}

\* A byte of the length is a brace, its closing one, a blank, or another.
Bytes == {"brace", "close", "blank", "byte"}
Lengths == [1 .. 4 -> Bytes]
Map == <<"brace", "rest">>

\* The first so many of the length, the brace of the map, and its rest.
Came(length, rest, n) == SubSeq(length \o <<"brace", rest>>, 1, n)
Bodies == {Came(l, r, n) : l \in Lengths, r \in {"rest", "noise"}, n \in 0 .. 6}

Init ==
    /\ body \in Bodies /\ map = << >> /\ self = FALSE /\ overrides = {} /\ bad = {}
    /\ step = "decode" /\ at = 1 /\ lines = << >> /\ ping = None
    /\ dev = [peer |-> None, endpoint |-> [n \in Nodes |-> None], route |-> << >>]

-----------------------------------------------------------------------------
(* The map *)

\* A brace, blanks, and its closing one, whatever follows.
EmptyObject(s) ==
    \E k \in 2 .. Len(s) : /\ s[1] = "brace" /\ s[k] = "close"
                           /\ \A j \in 2 .. k - 1 : s[j] = "blank"

\* The length is taken to end at the first brace; a body without one stays.
Stripped ==
    LET brace == SelectInSeq(body, LAMBDA b : b = "brace")
    IN  IF brace = 0 THEN body ELSE SubSeq(body, brace, Len(body))

\* One value is decoded: the whole map, or braces of the length.
Decode ==
    /\ step = "decode" /\ body' = Stripped
    /\ step' = IF body' = Map \/ EmptyObject(body') THEN "decoded" ELSE "no map"
    /\ UNCHANGED <<map, self, overrides, bad, device>>

\* The texts of the map and the command line that the device will parse.
Port == <<"port">>
Parsed(m, o) == {Port} \cup {<<"override", a>> : a \in o}
                      \cup UNION {ToSet(m[i].eps) : i \in DOMAIN m}

\* What mapResp holds now, nothing if the value was empty; and the overrides.
TakeMap ==
    /\ step = "decoded" /\ step' = "wireguard"
    /\ IF body = Map THEN map' \in Maps /\ self' \in BOOLEAN ELSE UNCHANGED <<map, self>>
    /\ overrides' \in {o \in SUBSET Addresses(map') : Cardinality(o) <= MaxOverrides}
    /\ bad' \in {t \in SUBSET Parsed(map', overrides') : Cardinality(t) <= MaxBad}
    /\ UNCHANGED <<body, device>>

\* netip.MustParseAddr panics without an address; the netstack may fail as well.
CreateNetTUN ==
    /\ step = "wireguard"
    /\ step' \in IF self THEN {"peers", "no device"} ELSE {"panic"}
    /\ UNCHANGED <<input, at, lines, dev, ping>>

-----------------------------------------------------------------------------
(* The text *)

\* Mutant: the address comes before its key.
AddressLinesSwapped(n) ==
    [k \in 1 .. 2 * Len(n.addrs) |->
        IF k % 2 = 1 THEN <<"allowed_ip", n.addrs[(k + 1) \div 2]>>
        ELSE <<"public_key", n.node>>]

\* Mutant: the first address only.
AddressLinesFirst(n) ==
    IF n.addrs = << >> THEN << >>
    ELSE <<<<"public_key", n.node>>, <<"allowed_ip", n.addrs[1]>>>>

\* Per address the key again, and the address.
AddressLines(n) ==
    [k \in 1 .. 2 * Len(n.addrs) |->
        IF k % 2 = 1 THEN <<"public_key", n.node>>
        ELSE <<"allowed_ip", n.addrs[k \div 2]>>]

\* The endpoint given on the command line for the first address that has one.
OverrideLines(n) ==
    LET first == SelectInSeq(n.addrs, LAMBDA a : a \in overrides)
    IN  IF first = 0 THEN << >> ELSE <<<<"endpoint", <<"override", n.addrs[first]>>>>>>

\* All endpoints of the map.
MapLines(n) == [j \in DOMAIN n.eps |-> <<"endpoint", n.eps[j]>>]

\* This machine, at a port counted from the address, if that is 100.x.y.z.
LocalLines(n) ==
    IF n.addrs # << >> /\ n.addrs[1][2] = "v4"
    THEN <<<<"endpoint", <<"local", n.addrs[1]>>>>>> ELSE << >>

\* Mutant: the map is looked at first.
EndpointLinesMapFirst(n) ==
    CASE n.eps # << >> -> MapLines(n)
      [] n.eps = << >> /\ OverrideLines(n) # << >> -> OverrideLines(n)
      [] OTHER -> LocalLines(n)

EndpointLines(n) ==
    CASE OverrideLines(n) # << >> -> OverrideLines(n)
      [] OverrideLines(n) = << >> /\ n.eps # << >> -> MapLines(n)
      [] OTHER -> LocalLines(n)

\* The lines of one entry; null and a key that cannot be parsed have none.
AddPeer ==
    /\ step = "peers" /\ at <= Len(map)
    /\ lines' = IF map[at].key
                THEN lines \o AddressLines(map[at]) \o EndpointLines(map[at]) ELSE lines
    /\ at' = at + 1
    /\ UNCHANGED <<input, step, dev, ping>>

\* IpcSet begins: before the lines of the peers it takes the port.
Written ==
    /\ step = "peers" /\ at = Len(map) + 1
    /\ step' = (IF Port \in bad THEN "ipc failed" ELSE "ipc") /\ at' = 1
    /\ UNCHANGED <<input, lines, dev, ping>>

-----------------------------------------------------------------------------
(* The device *)

\* One line; an address or endpoint that was given before is replaced.
IpcLine ==
    /\ step = "ipc" /\ at <= Len(lines) /\ at' = at + 1
    /\ LET tag == lines[at][1]
           val == lines[at][2]
       IN  \/ /\ tag = "public_key" /\ dev' = [dev EXCEPT !.peer = val]
           \/ /\ tag = "allowed_ip"
              /\ dev' = [dev EXCEPT !.route = [a \in DOMAIN @ \cup {val} |->
                                       IF a = val THEN dev.peer ELSE @[a]]]
           \/ /\ tag = "endpoint" /\ dev.peer # None /\ val \notin bad
              /\ dev' = [dev EXCEPT !.endpoint[dev.peer] = val]
    /\ UNCHANGED <<input, step, lines, ping>>

\* Before the first public_key an endpoint is no setting of the device; later
\* it has to be an address and a port.
IpcFails ==
    /\ step = "ipc" /\ at <= Len(lines) /\ lines[at][1] = "endpoint"
    /\ dev.peer = None \/ lines[at][2] \in bad
    /\ step' = "ipc failed"
    /\ UNCHANGED <<input, at, lines, dev, ping>>

\* dev.Up, which fails if the port is taken.
DevUp ==
    /\ step = "ipc" /\ at = Len(lines) + 1
    /\ step' \in {"up", "no device"}
    /\ UNCHANGED <<input, at, lines, dev, ping>>

\* The entries in the order of the map; null ones have no address.
Pingable(n) == n.addrs # << >>
Chosen(n) == Pingable(n) /\ n.addrs[1] \in overrides

\* The first peer with an override for its first address, or the last peer.
CrossPing ==
    /\ step = "up"
    /\ LET first == SelectInSeq(map, Chosen)
           last  == SelectLastInSeq(map, Pingable)
       IN  ping' = CASE first # 0 -> map[first].node
                     [] first = 0 /\ last # 0 -> map[last].node
                     [] OTHER -> None
    /\ step' = "running"
    /\ UNCHANGED <<input, at, lines, dev>>

Next ==
    \/ Decode \/ TakeMap \/ CreateNetTUN \/ AddPeer \/ Written
    \/ IpcLine \/ IpcFails \/ DevUp \/ CrossPing

Spec == Init /\ [][Next]_vars

-----------------------------------------------------------------------------
TypeOK ==
    /\ DOMAIN map \subseteq Nodes /\ at \in 1 .. Len(map) + Len(lines) + 1
    /\ step \in {"decode", "no map", "decoded", "wireguard", "no device", "panic", "peers",
                 "ipc", "ipc failed", "up", "running"}
    /\ dev.peer \in Nodes \cup {None} /\ DOMAIN dev.endpoint = Nodes
    /\ dev.route \in [DOMAIN dev.route -> Nodes] /\ DOMAIN dev.route \subseteq Addresses(map)
    /\ ping \in Nodes \cup {None}

IsUp == step \in {"up", "running"}

\* Entries whose endpoints have no public_key line of their own.
Headless == {i \in DOMAIN map : map[i].key /\ map[i].addrs = << >> /\ map[i].eps # << >>}
Headed == {i \in DOMAIN map : map[i].key /\ map[i].addrs # << >>}

\* The headless entries that come after entry i and before the next headed one.
After(i) == {h \in Headless : h > i /\ \A k \in Headed : ~(i < k /\ k < h)}

\* The overrides for entry i, and whether an endpoint written for it is bad.
Given(i) == {a \in ToSet(map[i].addrs) : a \in overrides}
BadEndpoint(i) ==
    /\ map[i].key
    /\ \/ \E a \in Given(i) : <<"override", a>> \in bad
       \/ Given(i) = {} /\ ToSet(map[i].eps) \cap bad # {}

(***************************************************************************)
(* The order of client/main.go:478: an override beats the map, the map     *)
(* beats this machine -- in the device, after everything that is written   *)
(* later, and for the override of any address.  Only an entry without      *)
(* addresses breaks it: its endpoints go to the peer before it.            *)
(***************************************************************************)
EndpointOrder ==
    IsUp => \A i \in Headed :
        LET ep == dev.endpoint[i]
        IN  IF After(i) # {}
            THEN \E h \in After(i) : ep = Last(map[h].eps)
            ELSE /\ Given(i) # {} => \E a \in Given(i) : ep = <<"override", a>>
                 /\ Given(i) = {} /\ map[i].eps # << >> => ep = Last(map[i].eps)
                 /\ Given(i) = {} /\ map[i].eps = << >> =>
                        ep = IF map[i].addrs[1][2] = "v4"
                             THEN <<"local", map[i].addrs[1]>> ELSE None

(***************************************************************************)
(* What keeps a node from its mesh.  Its map is refused only if it has not *)
(* come to its end or is none (client/main.go:405-410), or if its length   *)
(* has a brace; such a length never gives a device, for what else it can   *)
(* decode to is empty.  There is a panic only without an own address, and  *)
(* the text is refused only for a port or an endpoint in use that cannot   *)
(* be parsed, or endpoints before any peer has an address.                 *)
(*                                                                         *)
(* A device that is up routes each address of each peer whose key can be   *)
(* parsed to that peer, and the ping that is to open the path goes to an   *)
(* address that the device routes to the peer meant, if the key of that    *)
(* one can be parsed.                                                      *)
(***************************************************************************)
Whole == Last(body) = "rest"
LengthDecoded == Len(body) > Len(Map)

MeshComplete ==
    /\ step = "no map" => body = << >> \/ ~Whole \/ LengthDecoded
    /\ IsUp => body # << >> /\ Whole /\ ~LengthDecoded
    /\ step = "panic" => ~self
    /\ step = "ipc failed" => \/ Port \in bad \/ \E i \in DOMAIN map : BadEndpoint(i)
                              \/ \E h \in Headless : \A k \in Headed : h < k
    /\ IsUp => \A i \in Headed : \A a \in ToSet(map[i].addrs) :
                   a \in DOMAIN dev.route /\ dev.route[a] = i
    /\ ping # None /\ map[ping].key => dev.route[map[ping].addrs[1]] = ping
=============================================================================
