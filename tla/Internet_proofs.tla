-------------------------- MODULE Internet_proofs --------------------------
(***************************************************************************)
(* What the interfaces of a network learn from each other is true, and the *)
(* router picks the longest prefix: for every network and every table.  At *)
(* any one interface, whatever it hears, nothing waits for an address that *)
(* was not asked for, and no time left wraps around.                       *)
(***************************************************************************)
EXTENDS InternetSpec, NetworkInterfaceSpec, FiniteSetTheorems, SequenceTheorems,
        WellFoundedInduction, TLAPS

Fields == {"ethernet_address", "ip_address", "frames_out", "arp_table",
           "waiting_response", "waiting_datagrams"}

\* A sequence, of whatever it holds.
Listed(q) == q \in Seq({q[k] : k \in DOMAIN q})

\* The interface owner has the address ip and is on a link with i.
Neighbour(i, owner, ip) ==
  /\ \E link \in Links : {i, owner} \subseteq link
  /\ Addresses[owner[1]][owner[2]] = ip

\* In an ARP message of i the sender's addresses are those of i.
Honest(frame, i) ==
  frame.type = "ARP" =>
    frame.payload.sender_eth = i /\ frame.payload.sender_ip = Addresses[i[1]][i[2]]

Frames(q, i) == Listed(q) /\ \A k \in DOMAIN q : Honest(q[k], i)

\* m is the state of the interface i.
StateOf(m, i) ==
  /\ DOMAIN m = Fields
  /\ m.ethernet_address = i /\ m.ip_address = Addresses[i[1]][i[2]]
  /\ Frames(m.frames_out, i)
  /\ DOMAIN m.waiting_datagrams = IpAddress
  /\ \A ip \in IpAddress : Listed(m.waiting_datagrams[ip])
  /\ IsFiniteSet(DOMAIN m.waiting_response)
  /\ \A ip \in DOMAIN m.arp_table :
       /\ DOMAIN m.arp_table[ip] = {"eth_addr", "ttl"}
       /\ Neighbour(i, m.arp_table[ip].eth_addr, ip)

\* ifs are the interfaces of the node n.
NodeState(ifs, n) ==
  /\ ifs = [k \in DOMAIN ifs |-> ifs[k]]
  /\ DOMAIN ifs = DOMAIN Addresses[n]
  /\ \A k \in DOMAIN ifs :
       /\ DOMAIN ifs[k] = {"interface", "datagrams_out"}
       /\ StateOf(ifs[k].interface, <<n, k>>)
       /\ Listed(ifs[k].datagrams_out)

\* The inductive invariant: tables are true because what is still on its way
\* is.
IInv ==
  /\ DOMAIN node = Nodes
  /\ \A n \in Nodes : NodeState(node[n], n)

-----------------------------------------------------------------------------
\* What being a sequence says of length and domain.
LEMMA ListedProperties ==
  ASSUME NEW q, Listed(q)
  PROVE  Len(q) \in Nat /\ DOMAIN q = 1 .. Len(q) /\ q \in Seq({q[k] : k \in DOMAIN q})
  BY LenProperties DEF Listed

\* A function on 1 .. m is a sequence.
LEMMA IsListed ==
  ASSUME NEW S, NEW q \in Seq(S)
  PROVE  Listed(q)
  <1>1. Len(q) \in Nat /\ DOMAIN q = 1 .. Len(q) /\ q = [k \in 1 .. Len(q) |-> q[k]]
    BY LenProperties
  <1>2. q \in [1 .. Len(q) -> {q[k] : k \in DOMAIN q}]
    BY <1>1
  <1>. QED  BY <1>1, <1>2 DEF Listed

\* A function on 1 .. m has the length m.
LEMMA TableListed ==
  ASSUME NEW T, NEW m \in Nat, NEW q \in [1 .. m -> T]
  PROVE  Listed(q) /\ Len(q) = m /\ DOMAIN q = 1 .. m
  <1>1. q \in Seq(T) /\ Len(q) = m
    OBVIOUS
  <1>. QED  BY <1>1, IsListed

\* A concatenation holds the elements of both parts.
LEMMA ConcatListed ==
  ASSUME NEW p, Listed(p), NEW q, Listed(q)
  PROVE  /\ Listed(p \o q) /\ Len(p \o q) = Len(p) + Len(q)
         /\ \A k \in DOMAIN (p \o q) :
              \/ k \in DOMAIN p /\ (p \o q)[k] = p[k]
              \/ k - Len(p) \in DOMAIN q /\ (p \o q)[k] = q[k - Len(p)]
  <1> DEFINE S == {p[k] : k \in DOMAIN p} \cup {q[k] : k \in DOMAIN q}
  <1>1. /\ Len(p) \in Nat /\ DOMAIN p = 1 .. Len(p) /\ Len(q) \in Nat
        /\ DOMAIN q = 1 .. Len(q)
    BY ListedProperties
  <1>2. p \in Seq(S) /\ q \in Seq(S)
    <2>1. /\ p \in Seq({p[k] : k \in DOMAIN p}) /\ q \in Seq({q[k] : k \in DOMAIN q})
      BY DEF Listed
    <2>2. p = [k \in 1 .. Len(p) |-> p[k]] /\ q = [k \in 1 .. Len(q) |-> q[k]]
      BY <2>1, LenProperties
    <2>3. p \in [1 .. Len(p) -> S] /\ q \in [1 .. Len(q) -> S]
      BY <1>1, <2>2
    <2>. QED  BY <1>1, <2>3
  <1>. HIDE DEF S
  <1>3. /\ p \o q \in Seq(S) /\ Len(p \o q) = Len(p) + Len(q)
        /\ \A k \in 1 .. Len(p) + Len(q) :
             (p \o q)[k] = IF k <= Len(p) THEN p[k] ELSE q[k - Len(p)]
    BY <1>2, ConcatProperties
  <1>4. DOMAIN (p \o q) = 1 .. Len(p) + Len(q)
    BY <1>3, LenProperties
  <1>5. \A k \in 1 .. Len(p) + Len(q) :
          /\ k <= Len(p) => k \in 1 .. Len(p)
          /\ ~(k <= Len(p)) => k - Len(p) \in 1 .. Len(q)
    BY <1>1, SMT
  <1>6. Listed(p \o q)
    BY <1>3, IsListed
  <1>. QED  BY <1>1, <1>3, <1>4, <1>5, <1>6

\* The sequences of one element and of none.
LEMMA OneListed ==
  ASSUME NEW x
  PROVE  Listed(<<x>>) /\ Listed(<<>>) /\ DOMAIN <<x>> = {1} /\ <<x>>[1] = x
  <1>1. <<x>> \in Seq({x}) /\ <<>> \in Seq({})
    OBVIOUS
  <1>2. DOMAIN <<x>> = {1}
    BY SMT
  <1>. QED  BY <1>1, <1>2, IsListed

\* Append keeps what was there and adds one.
LEMMA AppendListed ==
  ASSUME NEW q, Listed(q), NEW x
  PROVE  /\ Listed(Append(q, x)) /\ Len(Append(q, x)) = Len(q) + 1
         /\ \A k \in DOMAIN Append(q, x) : \/ k \in DOMAIN q /\ Append(q, x)[k] = q[k]
                                           \/ Append(q, x)[k] = x
  <1> DEFINE S == {q[k] : k \in DOMAIN q} \cup {x}
  <1>1. Len(q) \in Nat /\ DOMAIN q = 1 .. Len(q)
    BY ListedProperties
  <1>2. q \in Seq(S) /\ x \in S
    <2>1. q \in Seq({q[k] : k \in DOMAIN q})
      BY DEF Listed
    <2>2. q = [k \in 1 .. Len(q) |-> q[k]]
      BY <2>1, LenProperties
    <2>3. q \in [1 .. Len(q) -> S]
      BY <1>1, <2>2
    <2>. QED  BY <1>1, <2>3
  <1>. HIDE DEF S
  <1>3. /\ Append(q, x) \in Seq(S) /\ Len(Append(q, x)) = Len(q) + 1
        /\ \A k \in 1 .. Len(q) : Append(q, x)[k] = q[k]
        /\ Append(q, x)[Len(q) + 1] = x
    BY <1>2, AppendProperties
  <1>4. DOMAIN Append(q, x) = 1 .. Len(q) + 1
    BY <1>3, LenProperties
  <1>5. \A k \in 1 .. Len(q) + 1 : k \in 1 .. Len(q) \/ k = Len(q) + 1
    BY <1>1, SMT
  <1>. QED  BY <1>1, <1>3, <1>4, <1>5, IsListed

\* What Tail leaves was there before.
LEMMA TailListed ==
  ASSUME NEW q, Listed(q), q # <<>>
  PROVE  /\ 1 \in DOMAIN q /\ Head(q) = q[1]
         /\ Listed(Tail(q)) /\ \A k \in DOMAIN Tail(q) : k + 1 \in DOMAIN q /\ Tail(q)[k] = q[k + 1]
  <1> DEFINE S == {q[k] : k \in DOMAIN q}
  <1>1. Len(q) \in Nat /\ DOMAIN q = 1 .. Len(q) /\ q \in Seq(S)
    BY ListedProperties
  <1>. HIDE DEF S
  <1>2. Len(q) # 0
    BY <1>1, EmptySeq
  <1>3. 1 \in 1 .. Len(q)
    BY <1>1, <1>2, SMT
  <1>4. Tail(q) \in Seq(S) /\ DOMAIN Tail(q) = 1 .. Len(q) - 1
        /\ \A k \in 1 .. Len(q) - 1 : Tail(q)[k] = q[k + 1]
    <2>1. Tail(q) \in Seq(S) /\ Len(Tail(q)) = Len(q) - 1
          /\ \A k \in 1 .. Len(Tail(q)) : Tail(q)[k] = q[k + 1]
      BY <1>1, HeadTailProperties
    <2>. QED  BY <2>1, LenProperties
  <1>5. \A k \in 1 .. Len(q) - 1 : k + 1 \in 1 .. Len(q)
    BY <1>1, SMT
  <1>6. Head(q) = q[1]
    BY DEF Head
  <1>. QED  BY <1>1, <1>3, <1>4, <1>5, <1>6, IsListed

-----------------------------------------------------------------------------
\* Queues of honest frames, one after the other, are one.
LEMMA FramesGrow ==
  ASSUME NEW i, NEW p, Frames(p, i), NEW q, Frames(q, i)
  PROVE  Frames(p \o q, i)
  BY ConcatListed DEF Frames

\* An honest frame may be queued.
LEMMA FramesAppend ==
  ASSUME NEW i, NEW q, Frames(q, i), NEW f, Honest(f, i)
  PROVE  Frames(Append(q, f), i)
  BY AppendListed DEF Frames

\* Taking the first frame leaves a queue of honest frames.
LEMMA FramesTail ==
  ASSUME NEW i, NEW q, Frames(q, i), q # <<>>
  PROVE  Frames(Tail(q), i) /\ Honest(Head(q), i)
  BY TailListed DEF Frames

\* What an interface sends is honest: a datagram is no ARP message, and an ARP
\* message has its own addresses.
LEMMA OwnFrames ==
  ASSUME NEW i, NEW m, StateOf(m, i)
  PROVE  /\ \A ip : Honest(Request(m, ip), i)
         /\ \A msg : Honest(Reply(m, msg), i)
         /\ \A dst, dgram : Honest(IPv4Frame(m, dst, dgram), i)
  <1>1. m.ethernet_address = i /\ m.ip_address = Addresses[i[1]][i[2]]
    BY DEF StateOf
  <1>. QED  BY <1>1 DEF Honest, Request, Reply, IPv4Frame, ArpFrame

\* send_datagram() queues honest frames only, and learns nothing.
LEMMA SendHonest ==
  ASSUME NEW i, NEW m, StateOf(m, i), NEW dgram, NEW next_hop
  PROVE  StateOf(send_datagram(m, dgram, next_hop), i)
  <1> DEFINE t == send_datagram(m, dgram, next_hop)
             wd == m.waiting_datagrams
  <1>1. /\ DOMAIN m = Fields
        /\ m.ethernet_address = i /\ m.ip_address = Addresses[i[1]][i[2]]
        /\ Frames(m.frames_out, i) /\ DOMAIN wd = IpAddress
        /\ \A ip \in IpAddress : Listed(wd[ip])
        /\ IsFiniteSet(DOMAIN m.waiting_response)
    BY DEF StateOf
  <1>2. CASE next_hop \in DOMAIN m.arp_table
    <2> DEFINE f == IPv4Frame(m, m.arp_table[next_hop].eth_addr, dgram)
    <2>1. t = [m EXCEPT !.frames_out = Append(m.frames_out, f)]
      BY <1>2 DEF send_datagram
    <2>2. Frames(Append(m.frames_out, f), i)
      BY <1>1, OwnFrames, FramesAppend
    <2>. HIDE DEF t, f
    <2>3. /\ DOMAIN t = Fields /\ t.frames_out = Append(m.frames_out, f)
          /\ t.ethernet_address = m.ethernet_address /\ t.ip_address = m.ip_address
          /\ t.arp_table = m.arp_table /\ t.waiting_response = m.waiting_response
          /\ t.waiting_datagrams = m.waiting_datagrams
      BY <1>1, <2>1 DEF Fields
    <2>. QED  BY <1>1, <2>2, <2>3 DEF StateOf, t
  <1>3. CASE next_hop \notin DOMAIN m.arp_table
    <2> DEFINE f == Request(m, next_hop)
               wd2 == [wd EXCEPT ![next_hop] = Append(wd[next_hop], dgram)]
               asked == next_hop \in DOMAIN m.waiting_response
    <2>1. /\ DOMAIN t = Fields
          /\ t.frames_out = IF asked THEN m.frames_out ELSE Append(m.frames_out, f)
          /\ t.ethernet_address = m.ethernet_address /\ t.ip_address = m.ip_address
          /\ t.arp_table = m.arp_table
          /\ t.waiting_response = IF asked THEN m.waiting_response
                                  ELSE With(m.waiting_response, next_hop, ArpResponseTtl)
          /\ t.waiting_datagrams = wd2
      BY <1>1, <1>3 DEF send_datagram, Fields
    <2>. HIDE DEF t
    <2>2. Frames(t.frames_out, i)
      BY <1>1, <2>1, OwnFrames, FramesAppend
    <2>3. DOMAIN wd2 = IpAddress /\ \A ip \in IpAddress : Listed(wd2[ip])
      BY <1>1, AppendListed
    <2>4. IsFiniteSet(DOMAIN t.waiting_response)
      <3>1. DOMAIN With(m.waiting_response, next_hop, ArpResponseTtl)
              = DOMAIN m.waiting_response \cup {next_hop}
        BY DEF With
      <3>. QED  BY <1>1, <2>1, <3>1, FS_AddElement
    <2>. HIDE DEF wd2
    <2>. QED  BY <1>1, <2>1, <2>2, <2>3, <2>4 DEF StateOf, t
  <1>. QED  BY <1>2, <1>3

\* An interface that learns from a neighbour's message learns what is true.
LEMMA LearnHonest ==
  ASSUME NEW i, NEW m, StateOf(m, i), NEW msg,
         msg.sender_ip \in IpAddress, Neighbour(i, msg.sender_eth, msg.sender_ip)
  PROVE  StateOf(learn(m, msg), i)
  <1> DEFINE t == learn(m, msg)
             ip == msg.sender_ip
             entry == [eth_addr |-> msg.sender_eth, ttl |-> ArpEntryTtl]
             wd == m.waiting_datagrams
             sent_now == [k \in DOMAIN wd[ip] |-> IPv4Frame(m, msg.sender_eth, wd[ip][k])]
  <1>1. /\ DOMAIN m = Fields
        /\ m.ethernet_address = i /\ m.ip_address = Addresses[i[1]][i[2]]
        /\ Frames(m.frames_out, i) /\ DOMAIN wd = IpAddress
        /\ \A x \in IpAddress : Listed(wd[x])
        /\ IsFiniteSet(DOMAIN m.waiting_response)
        /\ \A x \in DOMAIN m.arp_table :
             /\ DOMAIN m.arp_table[x] = {"eth_addr", "ttl"}
             /\ Neighbour(i, m.arp_table[x].eth_addr, x)
    BY DEF StateOf
  <1>2. /\ DOMAIN t = Fields
        /\ t.ethernet_address = m.ethernet_address /\ t.ip_address = m.ip_address
        /\ t.frames_out = m.frames_out \o sent_now
        /\ t.arp_table = With(m.arp_table, ip, entry)
        /\ t.waiting_response = Without(m.waiting_response, ip)
        /\ t.waiting_datagrams = [wd EXCEPT ![ip] = <<>>]
    BY <1>1 DEF learn, Fields
  <1>3. Frames(sent_now, i)
    <2>1. Len(wd[ip]) \in Nat /\ DOMAIN wd[ip] = 1 .. Len(wd[ip])
      BY <1>1, ListedProperties
    <2>2. \A k \in DOMAIN sent_now : Honest(sent_now[k], i)
      BY OwnFrames
    <2>3. Listed(sent_now)
      <3>1. sent_now \in [1 .. Len(wd[ip]) -> {sent_now[k] : k \in DOMAIN sent_now}]
        BY <2>1
      <3>. HIDE DEF sent_now
      <3>. QED  BY <2>1, <3>1, TableListed
    <2>. QED  BY <2>2, <2>3 DEF Frames
  <1>. HIDE DEF t, sent_now
  <1>4. Frames(t.frames_out, i)
    BY <1>1, <1>2, <1>3, FramesGrow
  <1>5. \A x \in DOMAIN t.arp_table :
          /\ DOMAIN t.arp_table[x] = {"eth_addr", "ttl"}
          /\ Neighbour(i, t.arp_table[x].eth_addr, x)
    <2>1. /\ DOMAIN t.arp_table = DOMAIN m.arp_table \cup {ip}
          /\ \A x \in DOMAIN t.arp_table :
               t.arp_table[x] = IF x = ip THEN entry ELSE m.arp_table[x]
      BY <1>2 DEF With
    <2>2. DOMAIN entry = {"eth_addr", "ttl"} /\ entry.eth_addr = msg.sender_eth
      OBVIOUS
    <2>. HIDE DEF entry
    <2>. QED  BY <1>1, <2>1, <2>2
  <1>6. IsFiniteSet(DOMAIN t.waiting_response)
    <2>1. DOMAIN t.waiting_response = DOMAIN m.waiting_response \ {ip}
      BY <1>2 DEF Without
    <2>. QED  BY <1>1, <2>1, FS_RemoveElement
  <1>7. /\ DOMAIN t.waiting_datagrams = IpAddress
        /\ \A x \in IpAddress : Listed(t.waiting_datagrams[x])
    BY <1>1, <1>2, OneListed
  <1>. QED  BY <1>1, <1>2, <1>4, <1>5, <1>6, <1>7 DEF StateOf, t

\* A frame with other entries changes only the queue.
LEMMA QueueHonest ==
  ASSUME NEW i, NEW m, StateOf(m, i), NEW q, Frames(q, i)
  PROVE  StateOf([m EXCEPT !.frames_out = q], i)
  <1> DEFINE t == [m EXCEPT !.frames_out = q]
  <1>1. /\ DOMAIN t = Fields /\ t.frames_out = q
        /\ t.ethernet_address = m.ethernet_address /\ t.ip_address = m.ip_address
        /\ t.arp_table = m.arp_table /\ t.waiting_response = m.waiting_response
        /\ t.waiting_datagrams = m.waiting_datagrams
    BY DEF Fields, StateOf
  <1>. HIDE DEF t
  <1>2. StateOf(t, i)
    BY <1>1 DEF StateOf
  <1>. QED  BY <1>2 DEF t

\* j hears an honest frame of its neighbour i.
LEMMA RecvHonest ==
  ASSUME NEW i, NEW j, NEW m, StateOf(m, j), NEW frame, Honest(frame, i),
         Addresses[i[1]][i[2]] \in IpAddress, Neighbour(j, i, Addresses[i[1]][i[2]])
  PROVE  StateOf(recv_frame(m, frame), j)
  <1> DEFINE msg == frame.payload
             q == Append(m.frames_out, Reply(m, msg))
             replied == [m EXCEPT !.frames_out = q]
  <1>1. Frames(q, j)
    BY OwnFrames, FramesAppend DEF StateOf
  <1>. HIDE DEF q
  <1>2. StateOf(replied, j)
    BY <1>1, QueueHonest
  <1>3. recv_frame(m, frame) =
          IF ~IsForMe(m, frame) \/ frame.type # "ARP" THEN m
          ELSE IF ValidRequest(m, msg) THEN learn(replied, msg)
          ELSE IF ValidReply(m, msg) THEN learn(m, msg)
          ELSE m
    BY DEF recv_frame, q
  <1>. HIDE DEF replied
  <1>4. CASE frame.type = "ARP"
    <2>1. msg.sender_ip \in IpAddress /\ Neighbour(j, msg.sender_eth, msg.sender_ip)
      BY <1>4 DEF Honest
    <2>2. StateOf(learn(replied, msg), j) /\ StateOf(learn(m, msg), j)
      BY <1>2, <2>1, LearnHonest
    <2>. QED  BY <1>3, <2>2
  <1>5. CASE frame.type # "ARP"
    BY <1>3, <1>5
  <1>. QED  BY <1>4, <1>5

\* The requests that are repeated are a sequence, in whatever order.
LEMMA InSomeOrderListed ==
  ASSUME NEW S, IsFiniteSet(S)
  PROVE  Listed(InSomeOrder(S))
  <1> DEFINE f == InSomeOrder(S)
             c == Cardinality(S)
  <1>1. c \in Nat /\ ExistsBijection(1 .. c, S)
    BY FS_CardinalityType
  <1>2. \E g \in [1 .. c -> S] : \A x \in S : \E i \in DOMAIN g : g[i] = x
    BY <1>1 DEF ExistsBijection, Bijection, Surjection
  <1>3. f = CHOOSE g \in [1 .. c -> S] : \A x \in S : \E i \in DOMAIN g : g[i] = x
    BY DEF InSomeOrder
  <1>. HIDE DEF c, f
  <1>4. f \in [1 .. c -> S]
    BY <1>2, <1>3
  <1>5. Listed(f)
    BY <1>1, <1>4, TableListed
  <1>. QED  BY <1>5 DEF f

\* tick() forgets addresses and asks again, under its own addresses.
LEMMA TickHonest ==
  ASSUME NEW i, NEW m, StateOf(m, i), NEW ms
  PROVE  StateOf(tick(m, ms), i)
  <1> DEFINE t == tick(m, ms)
             old == {ip \in DOMAIN m.arp_table : m.arp_table[ip].ttl <= ms}
             asked == Expired(m.waiting_response, ms)
             again == InSomeOrder(asked)
             requests == [k \in DOMAIN again |-> Request(m, again[k])]
  <1>1. /\ DOMAIN m = Fields
        /\ m.ethernet_address = i /\ m.ip_address = Addresses[i[1]][i[2]]
        /\ Frames(m.frames_out, i)
        /\ IsFiniteSet(DOMAIN m.waiting_response)
        /\ \A x \in DOMAIN m.arp_table :
             /\ DOMAIN m.arp_table[x] = {"eth_addr", "ttl"}
             /\ Neighbour(i, m.arp_table[x].eth_addr, x)
    BY DEF StateOf
  <1>2. /\ DOMAIN t = Fields
        /\ t.ethernet_address = m.ethernet_address /\ t.ip_address = m.ip_address
        /\ t.frames_out = m.frames_out \o requests
        /\ t.arp_table = [ip \in DOMAIN m.arp_table \ old |->
                            [m.arp_table[ip] EXCEPT !.ttl = m.arp_table[ip].ttl - ms]]
        /\ DOMAIN t.waiting_response = DOMAIN m.waiting_response
        /\ t.waiting_datagrams = m.waiting_datagrams
    BY <1>1 DEF tick, Fields
  <1>3. Frames(requests, i)
    <2>1. IsFiniteSet(asked)
      <3>1. asked \in SUBSET DOMAIN m.waiting_response
        BY DEF Expired
      <3>. QED  BY <1>1, <3>1, FS_Subset
    <2>2. Listed(again)
      BY <2>1, InSomeOrderListed
    <2>. HIDE DEF again
    <2>3. Len(again) \in Nat /\ DOMAIN again = 1 .. Len(again)
      BY <2>2, ListedProperties
    <2>4. \A k \in DOMAIN requests : Honest(requests[k], i)
      BY OwnFrames
    <2>5. requests \in [1 .. Len(again) -> {requests[k] : k \in DOMAIN requests}]
      BY <2>3
    <2>. HIDE DEF requests
    <2>6. Listed(requests)
      BY <2>3, <2>5, TableListed
    <2>. QED  BY <2>4, <2>6 DEF Frames
  <1>. HIDE DEF t, requests, old
  <1>4. Frames(t.frames_out, i)
    BY <1>1, <1>2, <1>3, FramesGrow
  <1>5. ASSUME NEW x \in DOMAIN t.arp_table
        PROVE  /\ DOMAIN t.arp_table[x] = {"eth_addr", "ttl"}
               /\ Neighbour(i, t.arp_table[x].eth_addr, x)
    <2>1. x \in DOMAIN m.arp_table
      BY <1>2
    <2>2. t.arp_table[x] = [m.arp_table[x] EXCEPT !.ttl = m.arp_table[x].ttl - ms]
      BY <1>2
    <2>3. DOMAIN m.arp_table[x] = {"eth_addr", "ttl"}
      BY <1>1, <2>1
    <2>4. /\ DOMAIN t.arp_table[x] = {"eth_addr", "ttl"}
          /\ t.arp_table[x].eth_addr = m.arp_table[x].eth_addr
      BY <2>2, <2>3
    <2>. QED  BY <1>1, <2>1, <2>4
  <1>. QED  BY <1>1, <1>2, <1>4, <1>5 DEF StateOf, t

-----------------------------------------------------------------------------
\* A set of naturals that is not empty has a least member.
LEMMA LeastMember ==
  ASSUME NEW T, T \subseteq Nat, T # {}
  PROVE  \E x \in T : \A y \in T : x <= y
  <1>1. PICK x \in T : \A y \in T : ~ (<<y, x>> \in OpToRel(<, Nat))
    BY NatLessThanWellFounded, WFMin, Zenon
  <1>2. \A y \in T : y < x => <<y, x>> \in OpToRel(<, Nat)
    BY Zenon DEF OpToRel
  <1>3. \A y \in T : ~ (y < x)
    BY <1>1, <1>2
  <1>. QED  BY <1>3, SMT

\* What holds of 0 and of n + 1 when it holds of n is a set that has every n.
LEMMA AllNumbers ==
  ASSUME NEW T, 0 \in T, \A n \in Nat : n \in T => n + 1 \in T
  PROVE  \A n \in Nat : n \in T
  <1> DEFINE bad == {n \in Nat : n \notin T}
  <1>1. SUFFICES ASSUME bad # {} PROVE FALSE
    OBVIOUS
  <1>2. bad \subseteq Nat
    OBVIOUS
  <1>3. PICK x \in bad : \A y \in bad : x <= y
    BY <1>1, <1>2, LeastMember
  <1>4. x \in Nat /\ x \notin T /\ x # 0
    BY <1>3
  <1>5. x - 1 \in Nat /\ (x - 1) + 1 = x /\ ~(x <= x - 1)
    BY <1>4, SMT
  <1>6. x - 1 \in T
    BY <1>3, <1>5
  <1>. QED  BY <1>4, <1>5, <1>6

-----------------------------------------------------------------------------
\* One interface of a node changes.
LEMMA NodeChanges ==
  ASSUME NEW n, NEW ifs, NodeState(ifs, n), NEW k, NEW a,
         k \in DOMAIN ifs =>
           /\ DOMAIN a = {"interface", "datagrams_out"}
           /\ StateOf(a.interface, <<n, k>>)
           /\ Listed(a.datagrams_out)
  PROVE  NodeState([ifs EXCEPT ![k] = a], n)
  BY DEF NodeState

\* One interface of a node may change to another state of it.
LEMMA InterfaceChanges ==
  ASSUME NEW n, NEW ifs, NodeState(ifs, n), NEW k, NEW m,
         k \in DOMAIN ifs => StateOf(m, <<n, k>>)
  PROVE  NodeState([ifs EXCEPT ![k].interface = m], n)
  <1> DEFINE a == [ifs[k] EXCEPT !.interface = m]
  <1>1. [ifs EXCEPT ![k].interface = m] = [ifs EXCEPT ![k] = a]
    OBVIOUS
  <1>2. ASSUME k \in DOMAIN ifs
        PROVE  /\ DOMAIN a = {"interface", "datagrams_out"}
               /\ StateOf(a.interface, <<n, k>>)
               /\ Listed(a.datagrams_out)
    <2>1. DOMAIN ifs[k] = {"interface", "datagrams_out"} /\ Listed(ifs[k].datagrams_out)
      BY <1>2 DEF NodeState
    <2>2. /\ DOMAIN a = {"interface", "datagrams_out"} /\ a.interface = m
          /\ a.datagrams_out = ifs[k].datagrams_out
      BY <2>1
    <2>. HIDE DEF a
    <2>. QED  BY <1>2, <2>1, <2>2
  <1>. HIDE DEF a
  <1>3. NodeState([ifs EXCEPT ![k] = a], n)
    BY <1>2, NodeChanges
  <1>. QED  BY <1>1, <1>3

\* route_one_datagram() keeps the interfaces of its router.
LEMMA RouteOneHonest ==
  ASSUME NEW n, NEW ifs, NodeState(ifs, n), NEW table, NEW dgram
  PROVE  NodeState(route_one_datagram(ifs, table, dgram), n)
  <1> DEFINE match == match_entry(table, dgram.dst)
             item == table[match]
             next_hop == IF item.next_hop = Direct THEN dgram.dst ELSE item.next_hop
             k == item.interface_num
             m == send_datagram(ifs[k].interface, [dgram EXCEPT !.ttl = Decremented(dgram.ttl)], next_hop)
  <1>1. route_one_datagram(ifs, table, dgram) =
          IF match = 0 \/ dgram.ttl <= 1 THEN ifs ELSE [ifs EXCEPT ![k].interface = m]
    BY DEF route_one_datagram
  <1>2. k \in DOMAIN ifs => StateOf(m, <<n, k>>)
    BY SendHonest DEF NodeState
  <1>. HIDE DEF m, k, match
  <1>3. NodeState([ifs EXCEPT ![k].interface = m], n)
    BY <1>2, InterfaceChanges
  <1>. QED  BY <1>1, <1>3

Routed(f, ifs, table, queued, n) ==
  f = [k \in 0 .. n |-> IF k = 0 THEN ifs
                        ELSE route_one_datagram(f[k - 1], table, queued[k])]

\* The loop over one interface's datagrams has intermediate states.
LEMMA RoutedExists ==
  ASSUME NEW ifs, NEW table, NEW queued
  PROVE  \A n \in Nat : \E f : Routed(f, ifs, table, queued, n)
  <1> DEFINE Step(x, k) == route_one_datagram(x, table, queued[k])
             T == {n \in Nat : \E f : Routed(f, ifs, table, queued, n)}
  <1>1. 0 \in T
    <2> DEFINE g == [k \in 0 .. 0 |-> ifs]
    <2>1. \A k \in 0 .. 0 : k = 0
      BY SMT
    <2>2. g = [k \in 0 .. 0 |-> IF k = 0 THEN ifs ELSE Step(g[k - 1], k)]
      BY <2>1
    <2>3. Routed(g, ifs, table, queued, 0)
      BY <2>2 DEF Routed
    <2>. QED  BY <2>3
  <1>2. ASSUME NEW n \in Nat, n \in T PROVE n + 1 \in T
    <2>1. PICK f : Routed(f, ifs, table, queued, n)
      BY <1>2
    <2>2. \A k \in 0 .. n : f[k] = IF k = 0 THEN ifs ELSE Step(f[k - 1], k)
      BY <2>1 DEF Routed
    <2> DEFINE g == [k \in 0 .. n + 1 |-> IF k = n + 1 THEN Step(f[n], k) ELSE f[k]]
    <2>. HIDE DEF Step
    <2>3. ASSUME NEW k \in 0 .. n + 1
          PROVE  g[k] = IF k = 0 THEN ifs ELSE Step(g[k - 1], k)
      <3>1. /\ k # n + 1 => k \in 0 .. n
            /\ k # 0 => k - 1 \in 0 .. n + 1 /\ k - 1 # n + 1
            /\ k = n + 1 => k # 0 /\ k - 1 = n
        BY SMT
      <3>2. CASE k = n + 1
        BY <3>1, <3>2
      <3>3. CASE k # n + 1
        BY <2>2, <3>1, <3>3
      <3>. QED  BY <3>2, <3>3
    <2>4. g = [k \in 0 .. n + 1 |-> IF k = 0 THEN ifs ELSE Step(g[k - 1], k)]
      BY <2>3, Zenon
    <2>5. Routed(g, ifs, table, queued, n + 1)
      BY <2>4 DEF Routed, Step
    <2>6. n + 1 \in Nat
      BY SMT
    <2>. QED  BY <2>5, <2>6
  <1>. HIDE DEF T
  <1>3. \A n \in Nat : n \in T
    BY <1>1, <1>2, AllNumbers
  <1>. QED  BY <1>3 DEF T

\* Routing all datagrams of one interface keeps them, by induction.
LEMMA RouteQueueHonest ==
  ASSUME NEW n, NEW ifs, NodeState(ifs, n), NEW table, NEW queued, Listed(queued)
  PROVE  NodeState(route_queue(ifs, table, queued), n)
  <1> DEFINE L == Len(queued)
             all == (CHOOSE f : Routed(f, ifs, table, queued, L))[L]
  <1>1. L \in Nat
    BY ListedProperties
  <1>2. route_queue(ifs, table, queued) = all
    BY DEF route_queue, Routed
  <1>. HIDE DEF L, all
  <1>3. PICK f : Routed(f, ifs, table, queued, L) /\ all = f[L]
    BY <1>1, RoutedExists DEF all
  <1>4. \A k \in 0 .. L : f[k] = IF k = 0 THEN ifs
                                 ELSE route_one_datagram(f[k - 1], table, queued[k])
    BY <1>3 DEF Routed
  <1> DEFINE T == {k \in Nat : k \in 0 .. L => NodeState(f[k], n)}
  <1>5. 0 \in T
    <2>1. 0 \in 0 .. L
      BY <1>1, SMT
    <2>2. f[0] = ifs
      BY <1>4, <2>1
    <2>. QED  BY <2>2
  <1>6. ASSUME NEW k \in Nat, k \in T PROVE k + 1 \in T
    <2>1. k + 1 \in Nat
      BY SMT
    <2>2. ASSUME k + 1 \in 0 .. L PROVE NodeState(f[k + 1], n)
      <3>1. k \in 0 .. L /\ k + 1 # 0 /\ (k + 1) - 1 = k
        BY <1>1, <2>2, SMT
      <3>2. NodeState(f[k], n)
        BY <1>6, <3>1
      <3>3. f[k + 1] = route_one_datagram(f[k], table, queued[k + 1])
        BY <1>4, <2>2, <3>1
      <3>. QED  BY <3>2, <3>3, RouteOneHonest
    <2>. QED  BY <2>1, <2>2
  <1>. HIDE DEF T
  <1>7. L \in T
    BY <1>1, <1>5, <1>6, AllNumbers
  <1>8. L \in 0 .. L
    BY <1>1, SMT
  <1>. QED  BY <1>2, <1>3, <1>7, <1>8 DEF T

Visited(f, ifs, table, queues, n) ==
  f = [k \in 0 .. n |-> IF k = 0 THEN ifs
                        ELSE route_queue(f[k - 1], table, queues[k].datagrams_out)]

\* The loop over the interfaces has intermediate states.
LEMMA VisitedExists ==
  ASSUME NEW ifs, NEW table, NEW queues
  PROVE  \A n \in Nat : \E f : Visited(f, ifs, table, queues, n)
  <1> DEFINE Step(x, k) == route_queue(x, table, queues[k].datagrams_out)
             T == {n \in Nat : \E f : Visited(f, ifs, table, queues, n)}
  <1>1. 0 \in T
    <2> DEFINE g == [k \in 0 .. 0 |-> ifs]
    <2>1. \A k \in 0 .. 0 : k = 0
      BY SMT
    <2>2. g = [k \in 0 .. 0 |-> IF k = 0 THEN ifs ELSE Step(g[k - 1], k)]
      BY <2>1
    <2>3. Visited(g, ifs, table, queues, 0)
      BY <2>2 DEF Visited
    <2>. QED  BY <2>3
  <1>2. ASSUME NEW n \in Nat, n \in T PROVE n + 1 \in T
    <2>1. PICK f : Visited(f, ifs, table, queues, n)
      BY <1>2
    <2>2. \A k \in 0 .. n : f[k] = IF k = 0 THEN ifs ELSE Step(f[k - 1], k)
      BY <2>1 DEF Visited
    <2> DEFINE g == [k \in 0 .. n + 1 |-> IF k = n + 1 THEN Step(f[n], k) ELSE f[k]]
    <2>. HIDE DEF Step
    <2>3. ASSUME NEW k \in 0 .. n + 1
          PROVE  g[k] = IF k = 0 THEN ifs ELSE Step(g[k - 1], k)
      <3>1. /\ k # n + 1 => k \in 0 .. n
            /\ k # 0 => k - 1 \in 0 .. n + 1 /\ k - 1 # n + 1
            /\ k = n + 1 => k # 0 /\ k - 1 = n
        BY SMT
      <3>2. CASE k = n + 1
        BY <3>1, <3>2
      <3>3. CASE k # n + 1
        BY <2>2, <3>1, <3>3
      <3>. QED  BY <3>2, <3>3
    <2>4. g = [k \in 0 .. n + 1 |-> IF k = 0 THEN ifs ELSE Step(g[k - 1], k)]
      BY <2>3, Zenon
    <2>5. Visited(g, ifs, table, queues, n + 1)
      BY <2>4 DEF Visited, Step
    <2>6. n + 1 \in Nat
      BY SMT
    <2>. QED  BY <2>5, <2>6
  <1>. HIDE DEF T
  <1>3. \A n \in Nat : n \in T
    BY <1>1, <1>2, AllNumbers
  <1>. QED  BY <1>3 DEF T

\* route() leaves every interface its own.
LEMMA RouteHonest ==
  ASSUME NEW n \in Nodes, NEW ifs, NodeState(ifs, n), NEW table
  PROVE  NodeState(route(ifs, table), n)
  <1> DEFINE L == Len(ifs)
             all == (CHOOSE f : Visited(f, ifs, table, ifs, L))[L]
  <1>1. L \in Nat /\ DOMAIN ifs = 1 .. L
    <2>1. Addresses[n] \in Seq(IpAddress)
      BY InternetAssumption
    <2>2. Len(Addresses[n]) \in Nat /\ DOMAIN ifs = 1 .. Len(Addresses[n])
      BY <2>1, LenProperties DEF NodeState
    <2>3. ifs \in [1 .. Len(Addresses[n]) -> {ifs[k] : k \in DOMAIN ifs}]
      BY <2>2 DEF NodeState
    <2>4. Listed(ifs)
      BY <2>2, <2>3, TableListed
    <2>. QED  BY <2>4, ListedProperties
  <1>2. \A k \in 1 .. L : Listed(ifs[k].datagrams_out)
    BY <1>1 DEF NodeState
  <1>3. route(ifs, table) = [i \in DOMAIN all |-> [all[i] EXCEPT !.datagrams_out = <<>>]]
    BY DEF route, Visited
  <1>. HIDE DEF L, all
  <1>4. PICK f : Visited(f, ifs, table, ifs, L) /\ all = f[L]
    BY <1>1, VisitedExists DEF all
  <1>5. \A k \in 0 .. L : f[k] = IF k = 0 THEN ifs
                                 ELSE route_queue(f[k - 1], table, ifs[k].datagrams_out)
    BY <1>4 DEF Visited
  <1> DEFINE T == {k \in Nat : k \in 0 .. L => NodeState(f[k], n)}
  <1>6. 0 \in T
    <2>1. 0 \in 0 .. L
      BY <1>1, SMT
    <2>2. f[0] = ifs
      BY <1>5, <2>1
    <2>. QED  BY <2>2
  <1>7. ASSUME NEW k \in Nat, k \in T PROVE k + 1 \in T
    <2>1. k + 1 \in Nat
      BY SMT
    <2>2. ASSUME k + 1 \in 0 .. L PROVE NodeState(f[k + 1], n)
      <3>1. k \in 0 .. L /\ k + 1 # 0 /\ (k + 1) - 1 = k /\ k + 1 \in 1 .. L
        BY <1>1, <2>2, SMT
      <3>2. NodeState(f[k], n)
        BY <1>7, <3>1
      <3>3. f[k + 1] = route_queue(f[k], table, ifs[k + 1].datagrams_out)
        BY <1>5, <2>2, <3>1
      <3>4. Listed(ifs[k + 1].datagrams_out)
        BY <1>2, <3>1
      <3>. QED  BY <3>2, <3>3, <3>4, RouteQueueHonest
    <2>. QED  BY <2>1, <2>2
  <1>. HIDE DEF T
  <1>8. L \in T
    BY <1>1, <1>6, <1>7, AllNumbers
  <1>9. NodeState(all, n)
    <2>1. L \in 0 .. L
      BY <1>1, SMT
    <2>. QED  BY <1>4, <1>8, <2>1 DEF T
  <1> DEFINE out == [i \in DOMAIN all |-> [all[i] EXCEPT !.datagrams_out = <<>>]]
  <1>10. NodeState(out, n)
    <2>1. DOMAIN out = DOMAIN all /\ out = [k \in DOMAIN out |-> out[k]]
      BY Zenon
    <2>2. ASSUME NEW k \in DOMAIN all
          PROVE  /\ DOMAIN out[k] = {"interface", "datagrams_out"}
                 /\ StateOf(out[k].interface, <<n, k>>)
                 /\ Listed(out[k].datagrams_out)
      <3>1. DOMAIN all[k] = {"interface", "datagrams_out"}
        BY <1>9 DEF NodeState
      <3>2. out[k] = [all[k] EXCEPT !.datagrams_out = <<>>]
        OBVIOUS
      <3>. HIDE DEF out
      <3>3. /\ DOMAIN out[k] = {"interface", "datagrams_out"}
            /\ out[k].interface = all[k].interface /\ out[k].datagrams_out = <<>>
        BY <3>1, <3>2
      <3>. QED  BY <1>9, <3>3, OneListed DEF NodeState
    <2>. HIDE DEF out
    <2>. QED  BY <1>9, <2>1, <2>2 DEF NodeState
  <1>. QED  BY <1>3, <1>10

-----------------------------------------------------------------------------
\* New interfaces have no frames and have learnt nothing.
LEMMA InitHolds == Init => IInv
  <1> SUFFICES ASSUME Init PROVE IInv
    OBVIOUS
  <1>1. DOMAIN node = Nodes
    BY DEF Init
  <1>2. ASSUME NEW n \in Nodes PROVE NodeState(node[n], n)
    <2>1. node[n] = [k \in DOMAIN Addresses[n] |->
                       NewAsyncInterface(<<n, k>>, Addresses[n][k])]
      BY DEF Init
    <2>2. ASSUME NEW k \in DOMAIN Addresses[n]
          PROVE  /\ DOMAIN node[n][k] = {"interface", "datagrams_out"}
                 /\ StateOf(node[n][k].interface, <<n, k>>)
                 /\ Listed(node[n][k].datagrams_out)
      <3> DEFINE m == NewInterface(<<n, k>>, Addresses[n][k])
      <3>1. node[n][k] = [interface |-> m, datagrams_out |-> <<>>]
        BY <2>1 DEF NewAsyncInterface
      <3>2. Listed(<<>>) /\ DOMAIN <<>> = {}
        <4>1. Listed(<<>>)
          BY OneListed
        <4>2. DOMAIN <<>> = {}
          BY SMT
        <4>. QED  BY <4>1, <4>2
      <3>3. /\ DOMAIN m = Fields /\ m.ethernet_address = <<n, k>>
            /\ m.ip_address = Addresses[n][k] /\ m.frames_out = <<>>
            /\ m.arp_table = <<>> /\ m.waiting_response = <<>>
            /\ m.waiting_datagrams = [ip \in IpAddress |-> <<>>]
        BY DEF NewInterface, Fields
      <3>. HIDE DEF m
      <3>4. Frames(m.frames_out, <<n, k>>)
        BY <3>2, <3>3 DEF Frames
      <3>5. IsFiniteSet(DOMAIN m.waiting_response)
        BY <3>2, <3>3, FS_EmptySet
      <3>6. /\ DOMAIN m.waiting_datagrams = IpAddress
            /\ \A ip \in IpAddress : Listed(m.waiting_datagrams[ip])
        BY <3>2, <3>3
      <3>7. DOMAIN m.arp_table = {}
        BY <3>2, <3>3
      <3>8. StateOf(m, <<n, k>>)
        BY <3>3, <3>4, <3>5, <3>6, <3>7 DEF StateOf
      <3>. QED  BY <3>1, <3>2, <3>8
    <2>. QED  BY <2>1, <2>2 DEF NodeState
  <1>. QED  BY <1>1, <1>2 DEF IInv

\* The interfaces on the links are interfaces of the nodes.
LEMMA InterfacePairs ==
  ASSUME NEW i \in Interfaces
  PROVE  /\ i[1] \in Nodes /\ i[2] \in DOMAIN Addresses[i[1]] /\ i = <<i[1], i[2]>>
         /\ Addresses[i[1]][i[2]] \in IpAddress
  <1>1. PICK n \in Nodes : i \in {<<n, k>> : k \in DOMAIN Addresses[n]}
    BY InternetAssumption
  <1>2. PICK k \in DOMAIN Addresses[n] : i = <<n, k>>
    BY <1>1
  <1>3. Addresses[n] \in Seq(IpAddress)
    BY InternetAssumption
  <1>4. Addresses[n][k] \in IpAddress
    <2>1. DOMAIN Addresses[n] = 1 .. Len(Addresses[n])
      BY <1>3, LenProperties
    <2>. QED  BY <1>3, <2>1, ElementOfSeq
  <1>. QED  BY <1>2, <1>4

\* A host that sends preserves the inductive invariant.
LEMMA SendKeeps ==
  ASSUME IInv, NEW h \in Hosts, NEW dst, NEW ttl, Send(h, dst, ttl)
  PROVE  IInv'
  <1>1. PICK dgram :
          node' = [node EXCEPT ![h][1].interface = send_datagram(@, dgram, Gateway[h])]
    BY DEF Send
  <1> DEFINE m == send_datagram(node[h][1].interface, dgram, Gateway[h])
             ifs == [node[h] EXCEPT ![1].interface = m]
  <1>2. node' = [node EXCEPT ![h] = ifs]
    BY <1>1
  <1>3. h \in Nodes /\ NodeState(node[h], h)
    BY DEF Nodes, IInv
  <1>4. NodeState(ifs, h)
    <2>1. 1 \in DOMAIN node[h] => StateOf(m, <<h, 1>>)
      BY <1>3, SendHonest DEF NodeState
    <2>. HIDE DEF m
    <2>. QED  BY <1>3, <2>1, InterfaceChanges
  <1>. HIDE DEF ifs
  <1>5. DOMAIN node' = Nodes /\ \A n \in Nodes : NodeState(node'[n], n)
    BY <1>2, <1>4 DEF IInv
  <1>. QED  BY <1>5 DEF IInv, NodeState, StateOf

\* What leaves an interface is honest.
LEMMA PoppedHonest ==
  ASSUME IInv, NEW i \in Interfaces, FramesOut(i) # <<>>
  PROVE  /\ NodeState(Popped(i), i[1])
         /\ Honest(Head(FramesOut(i)), i)
  <1> DEFINE n == i[1]
             k == i[2]
             old == node[n][k].interface
             q == Tail(old.frames_out)
             m == [old EXCEPT !.frames_out = q]
  <1>1. n \in Nodes /\ k \in DOMAIN Addresses[n] /\ i = <<n, k>>
    BY InterfacePairs
  <1>2. NodeState(node[n], n) /\ StateOf(old, i)
    BY <1>1 DEF IInv, NodeState
  <1>3. Frames(q, i) /\ Honest(Head(FramesOut(i)), i)
    BY <1>2, FramesTail DEF FramesOut, StateOf
  <1>4. StateOf(m, <<n, k>>)
    <2>. HIDE DEF q, old
    <2>. QED  BY <1>1, <1>2, <1>3, QueueHonest
  <1>5. Popped(i) = [node[n] EXCEPT ![k].interface = m]
    BY DEF Popped
  <1>. HIDE DEF m
  <1>. QED  BY <1>2, <1>3, <1>4, <1>5, InterfaceChanges

\* A node that hears a neighbour's honest frame keeps its state.
LEMMA TakeHonest ==
  ASSUME IInv, NEW i \in Interfaces, NEW j \in Interfaces, NEW link \in Links,
         {i, j} \subseteq link, NEW frame, Honest(frame, i)
  PROVE  NodeState(Take(j[1], j[2], frame), j[1])
  <1> DEFINE n == j[1]
             k == j[2]
             old == node[n][k]
             a == async_recv_frame(old, frame)
             got == [node[n] EXCEPT ![k] = a]
  <1>1. n \in Nodes /\ k \in DOMAIN Addresses[n] /\ j = <<n, k>>
    BY InterfacePairs
  <1>2. NodeState(node[n], n)
    BY <1>1 DEF IInv
  <1>3. StateOf(old.interface, j) /\ Listed(old.datagrams_out)
    BY <1>1, <1>2 DEF NodeState
  <1>4. Neighbour(j, i, Addresses[i[1]][i[2]]) /\ Addresses[i[1]][i[2]] \in IpAddress
    BY InterfacePairs DEF Neighbour
  <1>5. /\ DOMAIN a = {"interface", "datagrams_out"}
        /\ a.interface = recv_frame(old.interface, frame)
        /\ a.datagrams_out = old.datagrams_out \o Received(old.interface, frame)
    BY DEF async_recv_frame
  <1>6. StateOf(recv_frame(old.interface, frame), j)
    BY <1>3, <1>4, RecvHonest
  <1>7. Listed(Received(old.interface, frame))
    BY OneListed DEF Received
  <1>. HIDE DEF a, old
  <1>8. StateOf(a.interface, <<n, k>>) /\ Listed(a.datagrams_out)
    BY <1>1, <1>3, <1>5, <1>6, <1>7, ConcatListed
  <1>9. NodeState(got, n)
    <2>. HIDE DEF k
    <2>. QED  BY <1>2, <1>5, <1>8, NodeChanges
  <1>10. Take(n, k, frame) = IF n \in Routers THEN route(got, Tables[n]) ELSE got
    BY DEF Take, a, old
  <1>. HIDE DEF got
  <1>. QED  BY <1>1, <1>9, <1>10, RouteHonest

\* A frame that is carried to the others on its link preserves it.
LEMMA CarryKeeps ==
  ASSUME IInv, NEW i \in Interfaces, Carry(i)
  PROVE  IInv'
  <1> DEFINE link == CHOOSE l \in Links : i \in l
             hears(n) == {j \in link : j[1] = n /\ n # i[1]}
             heard(n) == CHOOSE j \in hears(n) : TRUE
             frame == Head(FramesOut(i))
  <1>1. /\ FramesOut(i) # <<>>
        /\ node' = [n \in Nodes |->
                      IF n = i[1] THEN Popped(i)
                      ELSE IF hears(n) = {} THEN node[n]
                      ELSE Take(n, heard(n)[2], frame)]
    BY DEF Carry
  <1>2. link \in Links /\ i \in link
    BY DEF Interfaces
  <1>. HIDE DEF link, frame
  <1>3. NodeState(Popped(i), i[1]) /\ Honest(frame, i)
    BY <1>1, PoppedHonest DEF frame
  <1>4. ASSUME NEW n \in Nodes PROVE NodeState(node'[n], n)
    <2>1. CASE n = i[1]
      BY <1>1, <1>3, <2>1
    <2>2. CASE n # i[1] /\ hears(n) = {}
      BY <1>1, <2>2 DEF IInv
    <2>3. CASE n # i[1] /\ hears(n) # {}
      <3> DEFINE j == heard(n)
      <3>1. j \in link /\ j[1] = n
        BY <2>3
      <3>2. node'[n] = Take(n, j[2], frame)
        BY <1>1, <2>3
      <3>. HIDE DEF j
      <3>3. j \in Interfaces /\ {i, j} \subseteq link
        BY <1>2, <3>1 DEF Interfaces
      <3>4. NodeState(Take(j[1], j[2], frame), j[1])
        BY <1>2, <1>3, <3>3, TakeHonest
      <3>. QED  BY <3>1, <3>2, <3>4
    <2>. QED  BY <2>1, <2>2, <2>3
  <1>5. DOMAIN node' = Nodes
    BY <1>1
  <1>. QED  BY <1>4, <1>5 DEF IInv, NodeState, StateOf

\* A frame that is lost preserves it.
LEMMA LoseKeeps ==
  ASSUME IInv, NEW i \in Interfaces, Lose(i)
  PROVE  IInv'
  <1>1. node' = [node EXCEPT ![i[1]] = Popped(i)] /\ NodeState(Popped(i), i[1])
    BY PoppedHonest DEF Lose
  <1>2. DOMAIN node' = Nodes /\ \A n \in Nodes : NodeState(node'[n], n)
    BY <1>1 DEF IInv
  <1>. QED  BY <1>2 DEF IInv, NodeState, StateOf

\* Time that passes at every interface preserves it.
LEMMA TickKeeps ==
  ASSUME IInv, Tick
  PROVE  IInv'
  <1>1. node' = [n \in Nodes |-> [k \in DOMAIN node[n] |->
                   [node[n][k] EXCEPT !.interface = tick(@, TickStep)]]]
    BY DEF Tick, Ticked
  <1>2. ASSUME NEW n \in Nodes PROVE NodeState(node'[n], n)
    <2>1. NodeState(node[n], n)
      BY DEF IInv
    <2>2. /\ DOMAIN node'[n] = DOMAIN Addresses[n]
          /\ node'[n] = [k \in DOMAIN node'[n] |-> node'[n][k]]
      <3> DEFINE t == [k \in DOMAIN node[n] |->
                        [node[n][k] EXCEPT !.interface = tick(@, TickStep)]]
      <3>1. node'[n] = t
        BY <1>1
      <3>2. DOMAIN t = DOMAIN node[n] /\ t = [k \in DOMAIN t |-> t[k]]
        BY Zenon
      <3>. HIDE DEF t
      <3>. QED  BY <2>1, <3>1, <3>2 DEF NodeState
    <2>3. ASSUME NEW k \in DOMAIN Addresses[n]
          PROVE  /\ DOMAIN node'[n][k] = {"interface", "datagrams_out"}
                 /\ StateOf(node'[n][k].interface, <<n, k>>)
                 /\ Listed(node'[n][k].datagrams_out)
      <3> DEFINE m == tick(node[n][k].interface, TickStep)
      <3>1. /\ DOMAIN node[n][k] = {"interface", "datagrams_out"}
            /\ StateOf(node[n][k].interface, <<n, k>>)
            /\ Listed(node[n][k].datagrams_out) /\ k \in DOMAIN node[n]
        BY <2>1 DEF NodeState
      <3>2. StateOf(m, <<n, k>>)
        BY <3>1, TickHonest
      <3>3. node'[n][k] = [node[n][k] EXCEPT !.interface = m]
        BY <1>1, <3>1
      <3>. HIDE DEF m
      <3>4. /\ DOMAIN node'[n][k] = {"interface", "datagrams_out"}
            /\ node'[n][k].interface = m
            /\ node'[n][k].datagrams_out = node[n][k].datagrams_out
        BY <3>1, <3>3
      <3>. QED  BY <3>1, <3>2, <3>4
    <2>. QED  BY <2>2, <2>3 DEF NodeState
  <1>3. DOMAIN node' = Nodes
    BY <1>1
  <1>. QED  BY <1>2, <1>3 DEF IInv, NodeState, StateOf

\* Tables are true and so are the ARP messages on their way, in every network.
LEMMA Invariance == Spec => []IInv
  <1>1. Init => IInv
    BY InitHolds
  <1>2. IInv /\ [Next]_vars => IInv'
    <2>1. SUFFICES ASSUME IInv, [Next]_vars PROVE IInv'
      OBVIOUS
    <2>2. CASE Next
      BY <2>1, <2>2, SendKeeps, CarryKeeps, LoseKeeps, TickKeeps DEF Next
    <2>3. CASE UNCHANGED vars
      BY <2>1, <2>3 DEF vars, IInv
    <2>. QED  BY <2>1, <2>2, <2>3
  <1>. QED  BY <1>1, <1>2, PTL DEF Spec

\* NetworkInterface::recv_frame() learns only what is true: whatever the links,
\* the routes and the losses, and however late a request or a reply comes, an
\* entry of an ARP table names the interface that has the address, on a link it
\* shares with the table's owner.
THEOREM ArpTableIsTrueHolds == Spec => []ArpTableIsTrue
  <1>1. IInv => ArpTableIsTrue
    <2>1. SUFFICES ASSUME IInv, NEW i \in Interfaces,
                          NEW ip \in DOMAIN Interface(i).arp_table
                   PROVE  Neighbour(i, Interface(i).arp_table[ip].eth_addr, ip)
      BY DEF ArpTableIsTrue, Neighbour
    <2>2. i[1] \in Nodes /\ i[2] \in DOMAIN Addresses[i[1]] /\ i = <<i[1], i[2]>>
      BY InterfacePairs
    <2>3. StateOf(Interface(i), i)
      BY <2>1, <2>2 DEF IInv, NodeState, Interface
    <2>. QED  BY <2>1, <2>3 DEF StateOf
  <1>. QED  BY <1>1, Invariance, PTL

-----------------------------------------------------------------------------
\* After n turns of match_entry()'s loop over a table.
Best(f, table, dst, n) ==
  f = [i \in 0 .. n |-> IF i = 0 THEN 0 ELSE Better(table, dst, f[i - 1], i)]

\* b is the first of the longest matching items among the first n, or 0.
FirstLongest(table, dst, n, b) ==
  \/ b = 0 /\ \A i \in 1 .. n : ~Matches(table[i], dst)
  \/ /\ b \in 1 .. n /\ Matches(table[b], dst)
     /\ \A i \in 1 .. n : Matches(table[i], dst) =>
          \/ table[i].prefix_length < table[b].prefix_length
          \/ table[i].prefix_length = table[b].prefix_length /\ b <= i

\* The search of match_entry() has intermediate states.
LEMMA BestExists ==
  ASSUME NEW table, NEW dst
  PROVE  \A n \in Nat : \E f : Best(f, table, dst, n)
  <1> DEFINE Step(x, k) == Better(table, dst, x, k)
             T == {n \in Nat : \E f : Best(f, table, dst, n)}
  <1>1. 0 \in T
    <2> DEFINE g == [k \in 0 .. 0 |-> 0]
    <2>1. \A k \in 0 .. 0 : k = 0
      BY SMT
    <2>2. g = [k \in 0 .. 0 |-> IF k = 0 THEN 0 ELSE Step(g[k - 1], k)]
      BY <2>1
    <2>3. Best(g, table, dst, 0)
      BY <2>2 DEF Best
    <2>. QED  BY <2>3
  <1>2. ASSUME NEW n \in Nat, n \in T PROVE n + 1 \in T
    <2>1. PICK f : Best(f, table, dst, n)
      BY <1>2
    <2>2. \A k \in 0 .. n : f[k] = IF k = 0 THEN 0 ELSE Step(f[k - 1], k)
      BY <2>1 DEF Best
    <2> DEFINE g == [k \in 0 .. n + 1 |-> IF k = n + 1 THEN Step(f[n], k) ELSE f[k]]
    <2>. HIDE DEF Step
    <2>3. ASSUME NEW k \in 0 .. n + 1
          PROVE  g[k] = IF k = 0 THEN 0 ELSE Step(g[k - 1], k)
      <3>1. /\ k # n + 1 => k \in 0 .. n
            /\ k # 0 => k - 1 \in 0 .. n + 1 /\ k - 1 # n + 1
            /\ k = n + 1 => k # 0 /\ k - 1 = n
        BY SMT
      <3>2. CASE k = n + 1
        BY <3>1, <3>2
      <3>3. CASE k # n + 1
        BY <2>2, <3>1, <3>3
      <3>. QED  BY <3>2, <3>3
    <2>4. g = [k \in 0 .. n + 1 |-> IF k = 0 THEN 0 ELSE Step(g[k - 1], k)]
      BY <2>3, Zenon
    <2>5. Best(g, table, dst, n + 1)
      BY <2>4 DEF Best, Step
    <2>6. n + 1 \in Nat
      BY SMT
    <2>. QED  BY <2>5, <2>6
  <1>. HIDE DEF T
  <1>3. \A n \in Nat : n \in T
    BY <1>1, <1>2, AllNumbers
  <1>. QED  BY <1>3 DEF T

\* One turn of the loop takes the next item into account.
LEMMA BetterKeeps ==
  ASSUME NEW table, NEW dst, NEW n \in Nat, NEW b,
         \A i \in 1 .. n + 1 : table[i].prefix_length \in Nat,
         FirstLongest(table, dst, n, b)
  PROVE  FirstLongest(table, dst, n + 1, Better(table, dst, b, n + 1))
  <1> DEFINE M(i) == Matches(table[i], dst)
             len(i) == table[i].prefix_length
             c == Better(table, dst, b, n + 1)
  <1>1. /\ n + 1 \in 1 .. n + 1 /\ \A i \in 1 .. n : i \in 1 .. n + 1 /\ i < n + 1
        /\ \A i \in 1 .. n + 1 : i \in 1 .. n \/ i = n + 1
    BY SMT
  <1>2. \A i \in 1 .. n + 1 : len(i) \in Nat
    OBVIOUS
  <1>3. c = IF M(n + 1) /\ (b = 0 \/ len(b) < len(n + 1)) THEN n + 1 ELSE b
    BY DEF Better
  <1>4. \/ b = 0 /\ \A i \in 1 .. n : ~M(i)
        \/ /\ b \in 1 .. n /\ M(b)
           /\ \A i \in 1 .. n : M(i) => len(i) < len(b) \/ (len(i) = len(b) /\ b <= i)
    BY DEF FirstLongest
  <1>. HIDE DEF M, len, c
  <1>5. \/ c = 0 /\ \A i \in 1 .. n + 1 : ~M(i)
        \/ /\ c \in 1 .. n + 1 /\ M(c)
           /\ \A i \in 1 .. n + 1 : M(i) => len(i) < len(c) \/ (len(i) = len(c) /\ c <= i)
    <2>1. CASE b = 0 /\ \A i \in 1 .. n : ~M(i)
      <3>1. CASE M(n + 1)
        <4>1. c = n + 1 /\ c <= c
          BY <1>3, <2>1, <3>1, SMT
        <4>. QED  BY <1>1, <2>1, <3>1, <4>1
      <3>2. CASE ~M(n + 1)
        BY <1>1, <1>3, <2>1, <3>2
      <3>. QED  BY <3>1, <3>2
    <2>2. CASE /\ b \in 1 .. n /\ M(b)
               /\ \A i \in 1 .. n : M(i) => len(i) < len(b) \/ (len(i) = len(b) /\ b <= i)
      <3>0. b # 0 /\ b \in 1 .. n + 1 /\ len(b) \in Nat /\ len(n + 1) \in Nat /\ b <= n + 1
        BY <1>1, <1>2, <2>2
      <3>1. CASE M(n + 1) /\ len(b) < len(n + 1)
        <4>1. c = n + 1
          BY <1>3, <3>1
        <4>2. ASSUME NEW i \in 1 .. n + 1, M(i)
              PROVE  len(i) < len(c) \/ (len(i) = len(c) /\ c <= i)
          <5>1. CASE i = n + 1
            BY <4>1, <5>1
          <5>2. CASE i \in 1 .. n
            <6>1. len(i) < len(b) \/ len(i) = len(b)
              BY <2>2, <4>2, <5>2
            <6>2. len(i) \in Nat
              BY <1>2
            <6>. QED  BY <3>0, <3>1, <4>1, <6>1, <6>2, SMT
          <5>. QED  BY <1>1, <5>1, <5>2
        <4>. QED  BY <1>1, <3>1, <4>1, <4>2
      <3>2. CASE ~(M(n + 1) /\ len(b) < len(n + 1))
        <4>1. c = b
          BY <1>3, <3>0, <3>2
        <4>2. ASSUME NEW i \in 1 .. n + 1, M(i)
              PROVE  len(i) < len(c) \/ (len(i) = len(c) /\ c <= i)
          <5>1. CASE i = n + 1
            <6>1. ~(len(b) < len(i))
              BY <3>2, <4>2, <5>1
            <6>. QED  BY <3>0, <4>1, <5>1, <6>1, SMT
          <5>2. CASE i \in 1 .. n
            BY <2>2, <4>1, <4>2, <5>2
          <5>. QED  BY <1>1, <5>1, <5>2
        <4>. QED  BY <2>2, <3>0, <4>1, <4>2
      <3>. QED  BY <3>1, <3>2
    <2>. QED  BY <1>4, <2>1, <2>2
  <1>. QED  BY <1>5 DEF FirstLongest, M, len, c

\* Router::match_entry() over any table and for any destination: it finds
\* nothing only if no item matches, and otherwise an item that matches, that no
\* matching item has a longer prefix than, and that was added before the others
\* of its length.  The loop starts from no item at all, so a default route of
\* length 0 is found as well.
THEOREM MatchEntryIsFirstLongest ==
  ASSUME NEW S, NEW table \in Seq(S), NEW dst,
         \A item \in S : item.prefix_length \in Nat
  PROVE  FirstLongest(table, dst, Len(table), match_entry(table, dst))
  <1> DEFINE L == Len(table)
  <1>1. L \in Nat /\ DOMAIN table = 1 .. L
    BY LenProperties
  <1>2. \A i \in 1 .. L : table[i].prefix_length \in Nat
    BY ElementOfSeq
  <1>3. match_entry(table, dst) = (CHOOSE f : Best(f, table, dst, L))[L]
    BY DEF match_entry, Best
  <1>. HIDE DEF L
  <1>4. PICK f : Best(f, table, dst, L) /\ match_entry(table, dst) = f[L]
    BY <1>1, <1>3, BestExists
  <1>5. \A k \in 0 .. L : f[k] = IF k = 0 THEN 0 ELSE Better(table, dst, f[k - 1], k)
    BY <1>4 DEF Best
  <1> DEFINE T == {k \in Nat : k \in 0 .. L => FirstLongest(table, dst, k, f[k])}
  <1>6. 0 \in T
    <2>1. 0 \in 0 .. L /\ \A i \in 1 .. 0 : FALSE
      BY <1>1, SMT
    <2>2. f[0] = 0
      BY <1>5, <2>1
    <2>. QED  BY <2>1, <2>2 DEF FirstLongest
  <1>7. ASSUME NEW k \in Nat, k \in T PROVE k + 1 \in T
    <2>1. k + 1 \in Nat
      BY SMT
    <2>2. ASSUME k + 1 \in 0 .. L PROVE FirstLongest(table, dst, k + 1, f[k + 1])
      <3>1. /\ k \in 0 .. L /\ k + 1 # 0 /\ (k + 1) - 1 = k
            /\ \A i \in 1 .. k + 1 : i \in 1 .. L
        BY <1>1, <2>2, SMT
      <3>2. FirstLongest(table, dst, k, f[k])
        BY <1>7, <3>1
      <3>3. f[k + 1] = Better(table, dst, f[k], k + 1)
        BY <1>5, <2>2, <3>1
      <3>. QED  BY <1>2, <3>1, <3>2, <3>3, BetterKeeps
    <2>. QED  BY <2>1, <2>2
  <1>. HIDE DEF T
  <1>8. L \in T
    BY <1>1, <1>6, <1>7, AllNumbers
  <1>9. L \in 0 .. L
    BY <1>1, SMT
  <1>. QED  BY <1>4, <1>8, <1>9 DEF T, L

-----------------------------------------------------------------------------
\* The times left in both tables are within their lifetimes.
Timed(ni) ==
  /\ \A ip \in DOMAIN ni.arp_table : ni.arp_table[ip].ttl \in 1 .. ArpEntryTtl
  /\ \A ip \in DOMAIN ni.waiting_response : ni.waiting_response[ip] \in 1 .. ArpResponseTtl

\* The inductive invariant, of any interface.  That unknown next hops are the
\* ones asked for is not kept by send_datagram() alone: the datagrams of a next
\* hop have to be a sequence, which is empty when they have been sent.
Good(ni) ==
  /\ DOMAIN ni = Fields
  /\ ni.waiting_datagrams \in [IpAddress -> Seq(Datagrams)]
  /\ \A ip \in DOMAIN ni.arp_table : DOMAIN ni.arp_table[ip] = {"eth_addr", "ttl"}
  /\ WaitsForAnswer(ni)
  /\ Timed(ni)

\* A new interface waits for nothing.
LEMMA NewIsGood ==
  ASSUME NEW eth, NEW ip PROVE Good(NewInterface(eth, ip))
  <1> DEFINE ni == NewInterface(eth, ip)
  <1>. SUFFICES Good(ni)  OBVIOUS
  <1>1. /\ DOMAIN ni = Fields
        /\ ni.arp_table = <<>> /\ ni.waiting_response = <<>>
        /\ ni.waiting_datagrams = [x \in IpAddress |-> <<>>]
    BY DEF NewInterface, Fields
  <1>2. DOMAIN <<>> = {} /\ <<>> \in Seq(Datagrams)
    BY SMT
  <1> HIDE DEF ni
  <1>. QED  BY <1>1, <1>2, SMT DEF Good, WaitsForAnswer, Timed

\* send_datagram() keeps it: a datagram that has to wait is the first for its
\* next hop exactly when that is not asked for yet.
LEMMA SendIsGood ==
  ASSUME NEW ni, Good(ni), NEW dgram \in Datagrams, NEW ip \in IpAddress
  PROVE  Good(send_datagram(ni, dgram, ip))
  <1> DEFINE m == send_datagram(ni, dgram, ip)
  <1>. SUFFICES Good(m)  OBVIOUS
  <1>0. DOMAIN ni = Fields /\ ni.waiting_datagrams \in [IpAddress -> Seq(Datagrams)]
    BY DEF Good
  <1>1. CASE ip \in DOMAIN ni.arp_table
    <2>1. /\ DOMAIN m = Fields /\ m.arp_table = ni.arp_table
          /\ m.waiting_response = ni.waiting_response
          /\ m.waiting_datagrams = ni.waiting_datagrams
      BY <1>0, <1>1 DEF send_datagram, Fields
    <2> HIDE DEF m
    <2>. QED  BY <2>1 DEF Good, WaitsForAnswer, Timed
  <1>2. CASE ip \notin DOMAIN ni.arp_table
    <2>1. /\ DOMAIN m = Fields /\ m.arp_table = ni.arp_table
          /\ m.waiting_datagrams
               = [ni.waiting_datagrams EXCEPT ![ip] = Append(ni.waiting_datagrams[ip], dgram)]
          /\ m.waiting_response = IF ip \in DOMAIN ni.waiting_response
                                  THEN ni.waiting_response
                                  ELSE With(ni.waiting_response, ip, ArpResponseTtl)
      BY <1>0, <1>2 DEF send_datagram, Fields
    <2>2. Append(ni.waiting_datagrams[ip], dgram) \in Seq(Datagrams) \ {<<>>}
      BY <1>0
    <2>3. DOMAIN m.waiting_response = DOMAIN ni.waiting_response \cup {ip}
      BY <2>1 DEF With
    <2>4. \A x \in DOMAIN m.waiting_response :
             m.waiting_response[x] \in 1 .. ArpResponseTtl
      BY <2>1, <2>3, InterfaceAssumption DEF With, Good, Timed
    <2> HIDE DEF m
    <2>. QED  BY <1>0, <1>2, <2>1, <2>2, <2>3, <2>4 DEF Good, WaitsForAnswer, Timed
  <1>. QED  BY <1>1, <1>2

\* Learning an address keeps it: all that waited for it has gone.
LEMMA LearnIsGood ==
  ASSUME NEW ni, Good(ni), NEW msg, msg.sender_ip \in IpAddress
  PROVE  Good(learn(ni, msg))
  <1> DEFINE m == learn(ni, msg)
             ip == msg.sender_ip
             entry == [eth_addr |-> msg.sender_eth, ttl |-> ArpEntryTtl]
  <1>. SUFFICES Good(m)  OBVIOUS
  <1>0. DOMAIN ni = Fields /\ ni.waiting_datagrams \in [IpAddress -> Seq(Datagrams)]
    BY DEF Good
  <1>1. /\ DOMAIN m = Fields
        /\ m.arp_table = With(ni.arp_table, ip, entry)
        /\ m.waiting_response = Without(ni.waiting_response, ip)
        /\ m.waiting_datagrams = [ni.waiting_datagrams EXCEPT ![ip] = <<>>]
    BY <1>0 DEF learn, Fields
  <1>2. /\ DOMAIN m.arp_table = DOMAIN ni.arp_table \cup {ip}
        /\ DOMAIN m.waiting_response = DOMAIN ni.waiting_response \ {ip}
    BY <1>1 DEF With, Without
  <1>3. Timed(m)
    <2>1. entry.ttl \in 1 .. ArpEntryTtl
      BY InterfaceAssumption
    <2>2. \A x \in DOMAIN m.arp_table : m.arp_table[x].ttl \in 1 .. ArpEntryTtl
      BY <1>1, <1>2, <2>1 DEF With, Good, Timed
    <2>3. \A x \in DOMAIN m.waiting_response :
             m.waiting_response[x] \in 1 .. ArpResponseTtl
      BY <1>1, <1>2 DEF Without, Good, Timed
    <2>. QED  BY <2>2, <2>3 DEF Timed
  <1>4. <<>> \in Seq(Datagrams)
    OBVIOUS
  <1>5. \A x \in DOMAIN m.arp_table : DOMAIN m.arp_table[x] = {"eth_addr", "ttl"}
    BY <1>1, <1>2 DEF With, Good
  <1> HIDE DEF m
  <1>. QED  BY <1>0, <1>1, <1>2, <1>3, <1>4, <1>5 DEF Good, WaitsForAnswer

\* Only the queue of frames changes.
LEMMA FramesAreGood ==
  ASSUME NEW ni, Good(ni), NEW frames
  PROVE  Good([ni EXCEPT !.frames_out = frames])
  <1> DEFINE m == [ni EXCEPT !.frames_out = frames]
  <1>. SUFFICES Good(m)  OBVIOUS
  <1>1. DOMAIN ni = Fields
    BY DEF Good
  <1>2. /\ DOMAIN m = Fields /\ m.arp_table = ni.arp_table
        /\ m.waiting_response = ni.waiting_response
        /\ m.waiting_datagrams = ni.waiting_datagrams
    BY <1>1 DEF Fields
  <1> HIDE DEF m
  <1>. QED  BY <1>2 DEF Good, WaitsForAnswer, Timed

\* recv_frame() keeps it, whoever sent the frame.
LEMMA RecvIsGood ==
  ASSUME NEW ni, Good(ni), NEW frame, frame.payload.sender_ip \in IpAddress
  PROVE  Good(recv_frame(ni, frame))
  <1> DEFINE msg == frame.payload
             replied == [ni EXCEPT !.frames_out = Append(ni.frames_out, Reply(ni, msg))]
  <1>1. Good(replied)
    BY FramesAreGood
  <1>2. Good(learn(replied, msg)) /\ Good(learn(ni, msg))
    BY <1>1, LearnIsGood
  <1>. QED  BY <1>2 DEF recv_frame

\* A tick that returns leaves something of every time that is still running.
LEMMA TickIsGood ==
  ASSUME NEW ni, Good(ni), NEW ms \in Nat, TickReturns(ni, ms)
  PROVE  Good(tick(ni, ms))
  <1> DEFINE m == tick(ni, ms)
             old == {ip \in DOMAIN ni.arp_table : ni.arp_table[ip].ttl <= ms}
             asked == Expired(ni.waiting_response, ms)
  <1>. SUFFICES Good(m)  OBVIOUS
  <1>0. DOMAIN ni = Fields /\ ni.waiting_datagrams \in [IpAddress -> Seq(Datagrams)]
    BY DEF Good
  <1>1. DOMAIN m = Fields /\ m.waiting_datagrams = ni.waiting_datagrams
    BY <1>0 DEF tick, Fields
  <1>2. m.arp_table = [ip \in DOMAIN ni.arp_table \ old |->
                         [ni.arp_table[ip] EXCEPT !.ttl = ni.arp_table[ip].ttl - ms]]
    BY <1>0 DEF tick, Fields
  <1>3. m.waiting_response =
          [ip \in DOMAIN ni.waiting_response |->
             (IF ip \in asked THEN ArpResponseTtl ELSE ni.waiting_response[ip]) - ms]
    BY <1>0 DEF tick, Fields
  <1>4. \A ip \in DOMAIN m.waiting_response :
           m.waiting_response[ip] \in 1 .. ArpResponseTtl
    BY <1>3, InterfaceAssumption DEF Good, Timed, TickReturns, Expired
  <1>5. \A ip \in DOMAIN m.arp_table :
           /\ ip \in DOMAIN ni.arp_table
           /\ DOMAIN m.arp_table[ip] = {"eth_addr", "ttl"}
           /\ m.arp_table[ip].ttl \in 1 .. ArpEntryTtl
    BY <1>2, InterfaceAssumption DEF Good, Timed
  <1> HIDE DEF m
  <1>. QED  BY <1>0, <1>1, <1>3, <1>4, <1>5 DEF Good, WaitsForAnswer, Timed

\* The invariant is inductive.
LEMMA GoodAlways == InterfaceSpec => []Good(interface)
  <1>1. IfInit => Good(interface)
    BY NewIsGood DEF IfInit
  <1>2. Good(interface) /\ [IfNext]_interface => Good(interface')
    <2>. SUFFICES ASSUME Good(interface), IfNext PROVE Good(interface')
      OBVIOUS
    <2>1. ASSUME NEW dgram \in Datagrams, NEW ip \in IpAddress, SendDatagram(dgram, ip)
          PROVE  Good(interface')
      BY <2>1, SendIsGood DEF SendDatagram
    <2>2. ASSUME TakeFrame PROVE Good(interface')
      BY <2>2, FramesAreGood DEF TakeFrame
    <2>3. ASSUME NEW dst, NEW msg \in AnyMessage, RecvMessage(dst, msg)
          PROVE  Good(interface')
      <3> DEFINE frame == [dst |-> dst, src |-> msg.sender_eth,
                           type |-> "ARP", payload |-> msg]
      <3>1. frame.payload.sender_ip \in IpAddress
        BY DEF AnyMessage
      <3>2. interface' = recv_frame(interface, frame)
        BY <2>3 DEF RecvMessage
      <3> HIDE DEF frame
      <3>. QED  BY <3>1, <3>2, RecvIsGood
    <2>4. ASSUME NEW ms \in Steps, IfTick(ms) PROVE Good(interface')
      BY <2>4, TickIsGood, SurroundingsAssumption DEF IfTick
    <2>. QED  BY <2>1, <2>2, <2>3, <2>4 DEF IfNext
  <1>3. Good(interface') => Good(interface)'
    BY DEF Good
  <1>. QED  BY <1>1, <1>2, <1>3, PTL DEF InterfaceSpec

\* A datagram waits exactly for the next hops that send_datagram() asked for and
\* recv_frame() has not learnt, whatever is received and whenever it ticks.
THEOREM InterfaceWaitsHolds == InterfaceSpec => []InterfaceWaits
  <1>1. Good(interface) => InterfaceWaits
    BY DEF Good, InterfaceWaits
  <1>. QED  BY <1>1, GoodAlways, PTL

\* The times left in both tables stay within their lifetimes: tick() never
\* subtracts more than is left.
THEOREM TimesLeftHolds == InterfaceSpec => []TimesLeft
  <1>1. Good(interface) => TimesLeft
    BY DEF Good, Timed, TimesLeft
  <1>. QED  BY <1>1, GoodAlways, PTL
=============================================================================
