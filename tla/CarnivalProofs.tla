--------------------------- MODULE CarnivalProofs ---------------------------
(***************************************************************************)
(* Theorems about Carnival.tla, for every number of clients, every network *)
(* that may lose, repeat and reorder, and every number of restarts.  The   *)
(* lemmas about client and server are those of GameClientProofs and        *)
(* ServerProofs, the latter under the prefix S.                            *)
(***************************************************************************)
EXTENDS Carnival, GameClientProofs, CountingProofs, TLAPS

S == INSTANCE ServerProofs WITH m_tx_deque <- server_tx

-----------------------------------------------------------------------------
(* The two instances of the server *)

\* What ServerProofs assumes.
LEMMA ServerAssumed == S!U16Assumption /\ S!ServerAssumption
BY U16Assumption, ClientAssumption, CarnivalAssumption
   DEF S!U16Assumption, S!ServerAssumption, S!Endpoint, S!Ident, S!U32,
       Endpoint, Ident, U32

LEMMA SamePackets ==
  /\ S!Received = Datagram /\ Server!Received = Datagram
  /\ S!Reply = Server!Reply /\ S!Reply \subseteq Datagram
BY DEF Datagram, PacketsOf, PACKET_TYPE, ClientToServer, ServerToClient, Shared,
       Ident, Body, LoginReply,
       S!Received, S!Reply, S!PacketsOf, S!PACKET_TYPE, S!ClientToServer,
       S!ServerToClient, S!Shared, S!Ident, S!Body, S!LoginReply,
       Server!Received, Server!Reply, Server!PacketsOf, Server!PACKET_TYPE,
       Server!ClientToServer, Server!ServerToClient, Server!Shared,
       Server!Ident, Server!Body, Server!LoginReply

LEMMA SameTypes == S!TypeOK <=> Server!TypeOK
<1>1. /\ S!Key = Server!Key /\ S!User = Server!User
      /\ S!Character = Server!Character
  BY DEF S!Key, S!User, S!Character, S!Ident, S!U32, S!U64,
         Server!Key, Server!User, Server!Character, Server!Ident, Server!U32,
         Server!U64
<1>2. S!Session = Server!Session
  BY <1>1 DEF S!Session, Server!Session
<1> QED  BY <1>1, <1>2, SamePackets DEF S!TypeOK, Server!TypeOK

LEMMA SameHandlers ==
  ASSUME NEW d
  PROVE  S!on_packet_received(d) <=> Server!on_packet_received(d)
BY DEF S!on_packet_received, S!on_heartbeat_ping, S!on_login_request,
       S!on_position_update, S!on_chat_message, S!on_other, S!SessionIsFound,
       S!SessionIs, S!get_or_create_session, S!With, S!get_full_client_ident,
       S!set_type, S!packet_t, S!U32, S!U64, S!ServerToClient,
       Server!on_packet_received, Server!on_heartbeat_ping,
       Server!on_login_request, Server!on_position_update,
       Server!on_chat_message, Server!on_other, Server!SessionIsFound,
       Server!SessionIs, Server!get_or_create_session, Server!With,
       Server!get_full_client_ident, Server!set_type, Server!packet_t,
       Server!U32, Server!U64, Server!ServerToClient

-----------------------------------------------------------------------------
(* Bags *)

LEMMA BagAddProperties ==
  ASSUME NEW bag, IsABag(bag), NEW x
  PROVE  /\ IsABag(BagAdd(bag, x))
         /\ BagToSet(BagAdd(bag, x)) = BagToSet(bag) \cup {x}
BY DEF IsABag, BagAdd, BagToSet

LEMMA BagRemoveProperties ==
  ASSUME NEW bag, IsABag(bag), NEW x
  PROVE  /\ IsABag(BagRemove(bag, x))
         /\ BagToSet(BagRemove(bag, x)) \subseteq BagToSet(bag)
BY DEF IsABag, BagRemove, BagToSet

LEMMA EmptyBagProperties == IsABag(EmptyBag) /\ BagToSet(EmptyBag) = {}
BY DEF IsABag, EmptyBag, SetToBag, BagToSet

\* One more datagram on its way.
LEMMA TrafficAdd ==
  ASSUME NEW bag, IsABag(bag), NEW x, NEW A, IsFiniteSet(Traffic(bag, A))
  PROVE  /\ IsFiniteSet(Traffic(BagAdd(bag, x), A))
         /\ Cardinality(Traffic(bag, A)) \in Nat
         /\ Cardinality(Traffic(BagAdd(bag, x), A)) =
              Cardinality(Traffic(bag, A)) + In(x, A)
<1> DEFINE more == BagAdd(bag, x)
           y    == <<x, more[x]>>
           T0   == Traffic(bag, A)
           T1   == Traffic(more, A)
<1>1. /\ DOMAIN more = DOMAIN bag \cup {x}
      /\ \A e \in DOMAIN bag : bag[e] \in Nat /\ bag[e] > 0
      /\ \A e \in DOMAIN bag \ {x} : more[e] = bag[e]
      /\ more[x] = IF x \in DOMAIN bag THEN bag[x] + 1 ELSE 1
  BY DEF IsABag, BagAdd
<1> HIDE DEF more
<1>2. /\ \A z : z \in T0 <=> \E e \in A \cap DOMAIN bag : z \in {e} \X (1 .. bag[e])
      /\ \A z : z \in T1 <=> \E e \in A \cap DOMAIN more : z \in {e} \X (1 .. more[e])
  BY DEF Traffic, BagToSet
<1> HIDE DEF T0, T1
<1>3. /\ \A e, n : <<e, n>> \in T0 <=> /\ e \in A /\ e \in DOMAIN bag
                                       /\ n \in 1 .. bag[e]
      /\ \A e, n : <<e, n>> \in T1 <=> /\ e \in A /\ e \in DOMAIN more
                                       /\ n \in 1 .. more[e]
      /\ \A z \in T0 \cup T1 : \E e, n : z = <<e, n>>
  BY <1>2
<1>4. \A e, n : <<e, n>> # y => (<<e, n>> \in T0 <=> <<e, n>> \in T1)
  <2> SUFFICES ASSUME NEW e, NEW n, <<e, n>> # y
               PROVE  <<e, n>> \in T0 <=> <<e, n>> \in T1
    OBVIOUS
  <2>1. CASE e # x
    BY <1>1, <1>3, <2>1
  <2>2. CASE e = x /\ n # more[x]
    BY <1>1, <1>3, <2>2
  <2> QED  BY <2>1, <2>2
<1>5. T0 \ {y} = T1 \ {y}
  <2>1. ASSUME NEW z \in T0 \cup T1, z # y
        PROVE  z \in T0 <=> z \in T1
    <3>1. PICK e, n : z = <<e, n>>
      BY <1>3
    <3> QED  BY <1>4, <2>1, <3>1
  <2> QED  BY <2>1
<1>6. y \notin T0 /\ (y \in T1 <=> x \in A)
  BY <1>1, <1>3
<1>7. In(y, T0) = 0 /\ In(y, T1) = In(x, A)
  BY <1>6 DEF In
<1>8. /\ IsFiniteSet(T1) /\ Cardinality(T0) \in Nat /\ Cardinality(T1) \in Nat
      /\ Cardinality(T1) = Cardinality(T0) + In(y, T1) - In(y, T0)
  <2>1. IsFiniteSet(T0)
    BY DEF T0
  <2> HIDE DEF y
  <2> QED  BY <1>5, <2>1, OneChanges
<1> HIDE DEF y
<1>9. In(x, A) \in Nat
  BY DEF In
<1>10. Cardinality(T1) = Cardinality(T0) + In(x, A)
  BY <1>7, <1>8, <1>9
<1> QED  BY <1>8, <1>10 DEF T0, T1, more

\* One datagram less.
LEMMA TrafficRemove ==
  ASSUME NEW bag, IsABag(bag), NEW x \in BagToSet(bag), NEW A,
         IsFiniteSet(Traffic(bag, A))
  PROVE  /\ IsFiniteSet(Traffic(BagRemove(bag, x), A))
         /\ Cardinality(Traffic(bag, A)) \in Nat
         /\ Cardinality(Traffic(BagRemove(bag, x), A)) \in Nat
         /\ Cardinality(Traffic(BagRemove(bag, x), A)) =
              Cardinality(Traffic(bag, A)) - In(x, A)
<1> DEFINE less == BagRemove(bag, x)
           y    == <<x, bag[x]>>
           T0   == Traffic(bag, A)
           T1   == Traffic(less, A)
<1>1. /\ DOMAIN less = IF bag[x] = 1 THEN DOMAIN bag \ {x} ELSE DOMAIN bag
      /\ \A e \in DOMAIN bag : bag[e] \in Nat /\ bag[e] > 0
      /\ \A e \in DOMAIN bag \ {x} : less[e] = bag[e]
      /\ bag[x] # 1 => less[x] = bag[x] - 1
      /\ x \in DOMAIN bag
  BY DEF IsABag, BagRemove, BagToSet
<1> HIDE DEF less
<1>2. /\ \A z : z \in T0 <=> \E e \in A \cap DOMAIN bag : z \in {e} \X (1 .. bag[e])
      /\ \A z : z \in T1 <=> \E e \in A \cap DOMAIN less : z \in {e} \X (1 .. less[e])
  BY DEF Traffic, BagToSet
<1> HIDE DEF T0, T1
<1>3. /\ \A e, n : <<e, n>> \in T0 <=> /\ e \in A /\ e \in DOMAIN bag
                                       /\ n \in 1 .. bag[e]
      /\ \A e, n : <<e, n>> \in T1 <=> /\ e \in A /\ e \in DOMAIN less
                                       /\ n \in 1 .. less[e]
      /\ \A z \in T0 \cup T1 : \E e, n : z = <<e, n>>
  BY <1>2
<1>4. \A e, n : <<e, n>> # y => (<<e, n>> \in T0 <=> <<e, n>> \in T1)
  <2> SUFFICES ASSUME NEW e, NEW n, <<e, n>> # y
               PROVE  <<e, n>> \in T0 <=> <<e, n>> \in T1
    OBVIOUS
  <2>1. CASE e # x
    BY <1>1, <1>3, <2>1
  <2>2. CASE e = x /\ n # bag[x]
    <3>1. n \in 1 .. bag[x] <=> bag[x] # 1 /\ n \in 1 .. bag[x] - 1
      BY <1>1, <2>2
    <3> QED  BY <1>1, <1>3, <2>2, <3>1
  <2> QED  BY <2>1, <2>2
<1>5. T0 \ {y} = T1 \ {y}
  <2>1. ASSUME NEW z \in T0 \cup T1, z # y
        PROVE  z \in T0 <=> z \in T1
    <3>1. PICK e, n : z = <<e, n>>
      BY <1>3
    <3> QED  BY <1>4, <2>1, <3>1
  <2> QED  BY <2>1
<1>6. (y \in T0 <=> x \in A) /\ y \notin T1
  BY <1>1, <1>3
<1>7. In(y, T0) = In(x, A) /\ In(y, T1) = 0
  BY <1>6 DEF In
<1>8. /\ IsFiniteSet(T1) /\ Cardinality(T0) \in Nat /\ Cardinality(T1) \in Nat
      /\ Cardinality(T1) = Cardinality(T0) + In(y, T1) - In(y, T0)
  <2>1. IsFiniteSet(T0)
    BY DEF T0
  <2> HIDE DEF y
  <2> QED  BY <1>5, <2>1, OneChanges
<1> HIDE DEF y
<1>9. In(x, A) \in Nat
  BY DEF In
<1>10. Cardinality(T1) = Cardinality(T0) - In(x, A)
  BY <1>7, <1>8, <1>9
<1> QED  BY <1>8, <1>10 DEF T0, T1, less

-----------------------------------------------------------------------------
(* The idents a client stamps, as a sequence q of packets; n is the ident it
   has now. *)

Rising(q, n) ==
  \A i \in DOMAIN q : q[i].ident = LoginIdent =>
    /\ n = LoginIdent
    /\ \A j \in i .. Len(q) : q[j].ident = LoginIdent

LEMMA RisingAppend ==
  ASSUME NEW P, NEW q \in Seq(P), NEW p \in P, NEW n, Rising(q, n),
         p.ident = LoginIdent <=> n = LoginIdent
  PROVE  Rising(Append(q, p), n)
<1> DEFINE r == Append(q, p)
           m == Len(q)
<1>1. /\ m \in Nat /\ Len(r) = m + 1
      /\ DOMAIN q = 1 .. m /\ DOMAIN r = 1 .. m + 1
      /\ r[m + 1] = p /\ \A i \in 1 .. m : r[i] = q[i]
  BY AppendProperties, LenProperties
<1> HIDE DEF r, m
<1> SUFFICES ASSUME NEW i \in DOMAIN r, r[i].ident = LoginIdent
             PROVE  /\ n = LoginIdent
                    /\ \A j \in i .. Len(r) : r[j].ident = LoginIdent
  BY DEF Rising, r
<1>2. n = LoginIdent
  <2>1. CASE i = m + 1
    BY <1>1, <2>1
  <2>2. CASE i # m + 1
    <3>1. i \in DOMAIN q /\ q[i].ident = LoginIdent
      BY <1>1, <2>2
    <3> QED  BY <3>1 DEF Rising
  <2> QED  BY <2>1, <2>2
<1>3. p.ident = LoginIdent
  BY <1>2
<1>4. ASSUME NEW j \in i .. m + 1
      PROVE  r[j].ident = LoginIdent
  <2>1. CASE j = m + 1
    BY <1>1, <1>3, <2>1
  <2>2. CASE j # m + 1
    <3>1. /\ i \in DOMAIN q /\ q[i].ident = LoginIdent /\ j \in i .. m
          /\ j \in 1 .. m
      BY <1>1, <1>4, <2>2
    <3>2. q[j].ident = LoginIdent
      BY <3>1 DEF Rising, m
    <3> QED  BY <1>1, <3>1, <3>2
  <2> QED  BY <2>1, <2>2
<1> QED  BY <1>1, <1>2, <1>4

LEMMA RisingTail ==
  ASSUME NEW P, NEW q \in Seq(P), q # <<>>, NEW n, Rising(q, n)
  PROVE  Rising(Tail(q), n)
<1> DEFINE r == Tail(q)
           m == Len(r)
<1>1. /\ m \in Nat /\ Len(q) = m + 1
      /\ DOMAIN q = 1 .. m + 1 /\ DOMAIN r = 1 .. m
      /\ \A i \in 1 .. m : r[i] = q[i + 1]
  BY HeadTailProperties, LenProperties
<1> HIDE DEF r, m
<1> SUFFICES ASSUME NEW i \in DOMAIN r, r[i].ident = LoginIdent
             PROVE  /\ n = LoginIdent
                    /\ \A j \in i .. m : r[j].ident = LoginIdent
  BY DEF Rising, r, m
<1>2. i + 1 \in DOMAIN q /\ q[i + 1].ident = LoginIdent
  BY <1>1
<1>3. n = LoginIdent /\ \A j \in i + 1 .. m + 1 : q[j].ident = LoginIdent
  BY <1>1, <1>2 DEF Rising
<1>4. ASSUME NEW j \in i .. m
      PROVE  r[j].ident = LoginIdent
  <2>1. j + 1 \in i + 1 .. m + 1 /\ r[j] = q[j + 1]
    BY <1>1
  <2> QED  BY <1>3, <2>1
<1> QED  BY <1>3, <1>4

\* The two forms of Stamped(c), before a step and after it.
LEMMA StampedForms ==
  ASSUME TypeOK, NEW c \in Client
  PROVE  /\ Stamped(c) \in Seq(Outgoing)
         /\ call[c] # "enqueue" => Stamped(c) = m_tx_deque[c]
         /\ call[c] = "enqueue" =>
              /\ packet[c] \in Outgoing
              /\ Stamped(c) = Append(m_tx_deque[c], packet[c])
<1>1. m_tx_deque[c] \in Seq(Outgoing)
  BY DEF TypeOK
<1>2. CASE call[c] # "enqueue"
  BY <1>1, <1>2, ConcatEmptySeq DEF Stamped
<1>3. CASE call[c] = "enqueue"
  <2>1. packet[c] \in Outgoing
    BY <1>3 DEF TypeOK
  <2> QED  BY <1>1, <1>3, <2>1, AppendProperties, AppendIsConcat DEF Stamped
<1> QED  BY <1>2, <1>3

LEMMA StampedFormsNext ==
  ASSUME TypeOK', NEW c \in Client
  PROVE  /\ Stamped(c)' \in Seq(Outgoing)
         /\ call'[c] # "enqueue" => Stamped(c)' = m_tx_deque'[c]
         /\ call'[c] = "enqueue" =>
              /\ packet'[c] \in Outgoing
              /\ Stamped(c)' = Append(m_tx_deque'[c], packet'[c])
<1>1. m_tx_deque'[c] \in Seq(Outgoing)
  BY DEF TypeOK
<1>2. CASE call'[c] # "enqueue"
  BY <1>1, <1>2, ConcatEmptySeq DEF Stamped
<1>3. CASE call'[c] = "enqueue"
  <2>1. packet'[c] \in Outgoing
    BY <1>3 DEF TypeOK
  <2> QED  BY <1>1, <1>3, <2>1, AppendProperties, AppendIsConcat DEF Stamped
<1> QED  BY <1>2, <1>3

\* The part of the invariant that is about the idents of client c.
Marked(c) ==
  /\ Rising(Stamped(c), ident[c])
  /\ call[c] \in {"test", "stamp"} => packet[c].ident = 0

\* main() does not touch the packets that are marked, except when the connection
\* and with it all of them are gone.
LEMMA MainMarks ==
  ASSUME TypeOK, TypeOK', ClientInv, NEW c \in Client, Marked(c),
         main_login(c) \/ main_greet(c) \/ Loop(c) \/ main_exit(c) \/ main_start(c)
  PROVE  Marked(c)'
<1>1. /\ call[c] = "none" /\ call'[c] \in {"none", "test"}
      /\ call'[c] = "test" => packet'[c].ident = 0
  <2>1. /\ call[c] = "none"
        /\ \/ UNCHANGED sendVars
           \/ \E type, body : Send(c, type, body)
    BY DEF main_login, main_greet, Loop, main_input, main_no_tick, main_tick,
           main_move, main_exit, main_start, At
  <2>2. CASE UNCHANGED sendVars
    BY <2>1, <2>2 DEF sendVars
  <2>3. CASE \E type, body : Send(c, type, body)
    <3>1. PICK type, body : Send(c, type, body)
      BY <2>3
    <3>2. /\ call'[c] = "test"
          /\ packet'[c] = packet_t(type, server_endpoint, body)
      BY <3>1 DEF Send, TypeOK
    <3> QED  BY <2>1, <3>2 DEF packet_t
  <2> QED  BY <2>1, <2>2, <2>3
<1>2. Stamped(c) = m_tx_deque[c] /\ Stamped(c)' = m_tx_deque'[c]
  BY <1>1, StampedForms, StampedFormsNext
<1>3. CASE m_tx_deque'[c] = m_tx_deque[c] /\ ident'[c] = ident[c]
  BY <1>1, <1>2, <1>3 DEF Marked
<1>4. CASE m_tx_deque'[c] = <<>>
  BY <1>1, <1>2, <1>4, EmptySeq DEF Marked, Rising
<1>5. main_exit(c) => m_tx_deque'[c] = <<>>
  BY DEF main_exit, TypeOK
<1>6. main_start(c) => m_tx_deque'[c] = <<>>
  <2> SUFFICES ASSUME main_start(c) PROVE m_tx_deque'[c] = <<>>
    OBVIOUS
  <2>1. main[c] = "closed" /\ m_tx_deque' = m_tx_deque
    BY DEF main_start, At
  <2> QED  BY <1>1, <2>1, PendingForms DEF ClientInv, Sound, Stage
<1>7. main_login(c) \/ main_greet(c) \/ Loop(c) =>
        m_tx_deque' = m_tx_deque /\ ident' = ident
  BY DEF main_login, main_greet, Loop, main_input, main_no_tick, main_tick,
         main_move
<1> QED  BY <1>3, <1>4, <1>5, <1>6, <1>7

\* send() marks a packet with the ident of this moment or leaves it unmarked,
\* and then nothing before it is marked.
LEMMA SendMarks ==
  ASSUME TypeOK, TypeOK', NEW c \in Client, Marked(c), Sending(c)
  PROVE  Marked(c)'
<1>1. LoginIdent # 0
  BY CarnivalAssumption
<1>2. CASE send_test(c)
  <2>1. /\ call[c] = "test" /\ packet' = packet
        /\ m_tx_deque' = m_tx_deque /\ ident' = ident
        /\ call'[c] = IF ident[c] # 0 THEN "stamp" ELSE "enqueue"
        /\ packet[c].ident = 0 /\ Stamped(c) = m_tx_deque[c]
    BY <1>2, StampedForms DEF send_test, TypeOK, Marked
  <2>2. CASE ident[c] # 0
    BY <2>1, <2>2, StampedFormsNext DEF Marked
  <2>3. CASE ident[c] = 0
    <3>1. /\ packet[c] \in Outgoing /\ m_tx_deque[c] \in Seq(Outgoing)
          /\ Stamped(c)' = Append(m_tx_deque[c], packet[c])
      BY <2>1, <2>3, StampedFormsNext DEF TypeOK
    <3>2. Rising(Append(m_tx_deque[c], packet[c]), ident[c])
      BY <1>1, <2>1, <2>3, <3>1, RisingAppend DEF Marked
    <3> QED  BY <2>1, <2>3, <3>1, <3>2 DEF Marked
  <2> QED  BY <2>2, <2>3
<1>3. CASE send_stamp(c)
  <2>1. /\ call[c] = "stamp" /\ call'[c] = "enqueue"
        /\ m_tx_deque' = m_tx_deque /\ ident' = ident
        /\ m_tx_deque[c] \in Seq(Outgoing)
        /\ Stamped(c) = m_tx_deque[c]
    BY <1>3, StampedForms DEF send_stamp, TypeOK
  <2>2. packet'[c].ident = ident[c]
    <3>1. packet[c] \in Outgoing /\ packet'[c] = [packet[c] EXCEPT !.ident = ident[c]]
      BY <1>3, <2>1 DEF send_stamp, TypeOK
    <3> QED  BY <3>1 DEF Outgoing, PacketsOf
  <2>3. packet'[c] \in Outgoing /\ Stamped(c)' = Append(m_tx_deque[c], packet'[c])
    BY <2>1, StampedFormsNext
  <2>4. Rising(Append(m_tx_deque[c], packet'[c]), ident[c])
    <3>1. PICK p : p = packet'[c]
      OBVIOUS
    <3>2. /\ p \in Outgoing /\ m_tx_deque[c] \in Seq(Outgoing)
          /\ p.ident = LoginIdent <=> ident[c] = LoginIdent
          /\ Rising(m_tx_deque[c], ident[c])
      BY <2>1, <2>2, <2>3, <3>1 DEF Marked
    <3>3. Rising(Append(m_tx_deque[c], p), ident[c])
      BY <3>2, RisingAppend
    <3> QED  BY <3>1, <3>3
  <2> QED  BY <2>1, <2>3, <2>4 DEF Marked
<1>4. CASE send_enqueue(c)
  <2>1. /\ call[c] = "enqueue" /\ call'[c] = "none" /\ ident' = ident
        /\ m_tx_deque'[c] = Append(m_tx_deque[c], packet[c])
    BY <1>4 DEF send_enqueue, TypeOK
  <2> QED  BY <2>1, StampedForms, StampedFormsNext DEF Marked
<1> QED  BY <1>2, <1>3, <1>4 DEF Sending

\* A packet that leaves is the oldest.
LEMMA LeavingMarks ==
  ASSUME TypeOK, TypeOK', NEW c \in Client, Marked(c), do_send(c)
  PROVE  Marked(c)'
<1>1. /\ call' = call /\ packet' = packet /\ ident' = ident
      /\ m_tx_deque[c] \in Seq(Outgoing) /\ m_tx_deque[c] # <<>>
      /\ m_tx_deque'[c] = Tail(m_tx_deque[c])
  BY DEF do_send, mainVars, sendVars, TypeOK
<1>2. Stamped(c) # <<>> /\ Stamped(c)' = Tail(Stamped(c))
  <2>1. CASE call[c] # "enqueue"
    BY <1>1, <2>1, StampedForms, StampedFormsNext
  <2>2. CASE call[c] = "enqueue"
    <3>1. /\ packet[c] \in Outgoing
          /\ Stamped(c) = Append(m_tx_deque[c], packet[c])
          /\ Stamped(c)' = Append(Tail(m_tx_deque[c]), packet[c])
      BY <1>1, <2>2, StampedForms, StampedFormsNext
    <3> QED  BY <1>1, <3>1, HeadTailAppend, AppendProperties
  <2> QED  BY <2>1, <2>2
<1>3. Rising(Tail(Stamped(c)), ident[c])
  BY <1>2, StampedForms, RisingTail DEF Marked
<1> QED  BY <1>1, <1>2, <1>3 DEF Marked

\* A reply that confirms a login gives the ident of all logins.
LEMMA ReplyMarks ==
  ASSUME TypeOK, NEW c \in Client, NEW reply, Marked(c),
         on_packet_received(c, reply),
         reply.type = "LOGIN_REPLY" => reply.body.ident = LoginIdent
  PROVE  Marked(c)'
<1>1. /\ Stamped(c)' = Stamped(c) /\ call' = call /\ packet' = packet
      /\ ident'[c] \in {ident[c], LoginIdent}
  BY DEF on_packet_received, mainVars, sendVars, Stamped, TypeOK
<1>2. Rising(Stamped(c), LoginIdent)
  BY DEF Marked, Rising
<1> QED  BY <1>1, <1>2 DEF Marked

-----------------------------------------------------------------------------
(* What the server does with a datagram *)

\* A login is confirmed with the ident of all logins.
Confirms(p) == p.type = "LOGIN_REPLY" => p.body.ident = LoginIdent

\* A position update that is on its way was sent.
Told(d) == d.type = "POSITION_UPDATE" => d.body \in announced[d.endpoint]

\* The part of the invariant that is about the two queues and the network.
TrafficInv ==
  /\ NetTypeOK
  /\ \A d \in BagToSet(to_server) : Told(d)
  /\ \A i \in DOMAIN server_tx : Confirms(server_tx[i])
  /\ \A d \in BagToSet(to_client) : d \in S!Reply /\ Confirms(d)

LEMMA RepliesConfirm ==
  ASSUME S!TypeOK, NEW d, S!on_packet_received(d),
         \A i \in DOMAIN server_tx : Confirms(server_tx[i])
  PROVE  \A i \in DOMAIN server_tx' : Confirms(server_tx'[i])
<1>1. server_tx' = server_tx \/ \E p : server_tx' = Append(server_tx, p) /\ Confirms(p)
  <2>1. CASE S!on_heartbeat_ping(d)
    <3>1. /\ server_tx' = Append(server_tx, S!set_type(d, "HEARTBEAT_PONG"))
          /\ S!set_type(d, "HEARTBEAT_PONG").type # "LOGIN_REPLY"
      BY <2>1 DEF S!on_heartbeat_ping, S!set_type
    <3> QED  BY <3>1 DEF Confirms
  <2>2. CASE S!on_login_request(d)
    <3> DEFINE p == S!packet_t("LOGIN_REPLY", d.endpoint,
                               [success |-> TRUE, ident |-> LoginIdent])
    <3>1. server_tx' = Append(server_tx, p)
      BY <2>2 DEF S!on_login_request
    <3>2. Confirms(p)
      BY DEF Confirms, S!packet_t
    <3> HIDE DEF p
    <3> QED  BY <3>1, <3>2
  <2>3. CASE S!on_chat_message(d)
    BY <2>3 DEF S!on_chat_message, Confirms
  <2>4. CASE S!on_position_update(d) \/ S!on_other(d)
    BY <2>4 DEF S!on_position_update, S!on_other
  <2> QED  BY <2>1, <2>2, <2>3, <2>4 DEF S!on_packet_received
<1>2. ASSUME NEW p, server_tx' = Append(server_tx, p), Confirms(p)
      PROVE  \A i \in DOMAIN server_tx' : Confirms(server_tx'[i])
  <2>1. server_tx \in Seq(S!Reply \cup {p})
    BY DEF S!TypeOK
  <2>2. /\ Len(server_tx) \in Nat /\ DOMAIN server_tx = 1 .. Len(server_tx)
        /\ DOMAIN server_tx' = 1 .. Len(server_tx) + 1
        /\ server_tx'[Len(server_tx) + 1] = p
        /\ \A i \in 1 .. Len(server_tx) : server_tx'[i] = server_tx[i]
    BY <1>2, <2>1, AppendProperties, LenProperties
  <2> QED  BY <1>2, <2>2
<1> QED  BY <1>1, <1>2

LEMMA SentConfirms ==
  ASSUME S!TypeOK, S!do_send,
         \A i \in DOMAIN server_tx : Confirms(server_tx[i])
  PROVE  /\ Head(server_tx) \in S!Reply /\ Confirms(Head(server_tx))
         /\ \A i \in DOMAIN server_tx' : Confirms(server_tx'[i])
<1>1. server_tx \in Seq(S!Reply) /\ server_tx # <<>> /\ server_tx' = Tail(server_tx)
  BY DEF S!TypeOK, S!do_send
<1>2. /\ DOMAIN server_tx = 1 .. Len(server_tx) /\ Len(server_tx) \in Nat
      /\ Len(server_tx') = Len(server_tx) - 1 /\ Len(server_tx) # 0
      /\ DOMAIN server_tx' = 1 .. Len(server_tx')
      /\ Head(server_tx) = server_tx[1] /\ Head(server_tx) \in S!Reply
      /\ \A i \in 1 .. Len(server_tx') : server_tx'[i] = server_tx[i + 1]
  BY <1>1, HeadTailProperties, LenProperties, EmptySeq
<1>3. \A i \in 1 .. Len(server_tx') : i + 1 \in 1 .. Len(server_tx)
  BY <1>2
<1> QED  BY <1>2, <1>3

\* The character of a session is the one it had, none, a new one, or one at the
\* place the datagram tells.
LEMMA PlacesFromTraffic ==
  ASSUME S!TypeOK, NEW d \in Datagram, S!on_packet_received(d), Told(d),
         PositionsWereAnnounced, UNCHANGED announced
  PROVE  PositionsWereAnnounced'
<1> DEFINE key    == S!get_full_client_ident(d)
           old    == S!get_or_create_session(d)
           sender == [ident |-> d.ident, endpoint |-> d.endpoint]
           before == IF key \in DOMAIN users THEN users[key] ELSE {}
<1>1. PICK new : /\ S!SessionIs(d, new)
                 /\ \/ new \in {old.character, NoCharacter}
                    \/ new.pos = ZeroPosition
                    \/ d.type = "POSITION_UPDATE" /\ new.pos = d.body
  <2>1. CASE S!on_login_request(d)
    BY <2>1 DEF S!on_login_request
  <2>2. CASE S!on_position_update(d)
    <3>1. CASE old.character = NoCharacter
      BY <2>2, <3>1 DEF S!on_position_update
    <3>2. CASE old.character # NoCharacter
      <4>1. /\ S!SessionIs(d, [old.character EXCEPT !.pos = d.body])
            /\ d.type = "POSITION_UPDATE"
        BY <2>2, <3>2 DEF S!on_position_update
      <4>2. old.character \in S!Character
        BY <3>2 DEF S!get_or_create_session, S!TypeOK, S!Session
      <4>3. [old.character EXCEPT !.pos = d.body].pos = d.body
        BY <4>2 DEF S!Character
      <4> HIDE DEF old
      <4> QED  BY <4>1, <4>3
    <3> QED  BY <3>1, <3>2
  <2>3. CASE S!on_heartbeat_ping(d) \/ S!on_chat_message(d) \/ S!on_other(d)
    BY <2>3 DEF S!on_heartbeat_ping, S!on_chat_message, S!on_other,
                S!SessionIsFound
  <2> QED  BY <2>1, <2>2, <2>3 DEF S!on_packet_received
<1>2. /\ m_sessions' = S!With(m_sessions, key, [old EXCEPT !.character = new])
      /\ users' = S!With(users, key, {sender} \cup before)
  BY <1>1 DEF S!SessionIs
<1>3. [old EXCEPT !.character = new].character = new
  BY DEF S!get_or_create_session, S!TypeOK, S!Session
<1>4. key \in DOMAIN m_sessions => old = m_sessions[key]
  BY DEF S!get_or_create_session
<1>5. key \notin DOMAIN m_sessions => old.character = NoCharacter
  BY DEF S!get_or_create_session
<1>6. DOMAIN users = DOMAIN m_sessions
  BY DEF S!TypeOK
<1> HIDE DEF key, old
<1>7. /\ DOMAIN m_sessions' = DOMAIN m_sessions \cup {key}
      /\ m_sessions'[key].character = new
      /\ users'[key] = {sender} \cup before
      /\ \A k \in DOMAIN m_sessions \ {key} :
           m_sessions'[k] = m_sessions[k] /\ users'[k] = users[k]
  BY <1>2, <1>3, <1>6 DEF S!With
<1> SUFFICES ASSUME NEW k \in DOMAIN m_sessions',
                    m_sessions'[k].character # NoCharacter,
                    m_sessions'[k].character.pos # ZeroPosition
             PROVE  \E user \in users'[k] :
                      m_sessions'[k].character.pos \in announced[user.endpoint]
  BY DEF PositionsWereAnnounced
<1>8. CASE k # key
  BY <1>7, <1>8 DEF PositionsWereAnnounced
<1>9. CASE k = key /\ new = old.character
  <2>1. key \in DOMAIN m_sessions /\ m_sessions[key].character = new
    BY <1>4, <1>5, <1>7, <1>9
  <2>2. PICK user \in users[key] : new.pos \in announced[user.endpoint]
    BY <1>7, <1>9, <2>1 DEF PositionsWereAnnounced
  <2> QED  BY <1>6, <1>7, <1>9, <2>1, <2>2
<1>10. CASE k = key /\ new # old.character
  <2>1. d.type = "POSITION_UPDATE" /\ new.pos = d.body
    BY <1>1, <1>7, <1>10
  <2>2. new.pos \in announced[sender.endpoint] /\ sender \in users'[key]
    BY <1>7, <2>1 DEF Told
  <2> QED  BY <1>7, <1>10, <2>2
<1> QED  BY <1>8, <1>9, <1>10

-----------------------------------------------------------------------------
(* The invariant *)

CarnivalInv ==
  /\ TypeOK /\ ClientInv
  /\ S!IInv
  /\ TrafficInv
  /\ PositionsWereAnnounced
  /\ \A c \in Client : Marked(c)

LEMMA DatagramFields ==
  ASSUME NEW d \in Datagram
  PROVE  d.endpoint \in Client /\ d.body \in Body(d.type)
<1>1. PICK t \in PACKET_TYPE :
        d \in [type : {t}, ident : Ident, endpoint : Client, body : Body(t)]
  BY DEF Datagram, PacketsOf
<1> QED  BY <1>1

\* A packet of client c becomes a datagram that comes from c.
LEMMA PacketToDatagram ==
  ASSUME NEW p \in Outgoing, NEW c \in Client
  PROVE  LET d == [p EXCEPT !.endpoint = c]
         IN  /\ d \in Datagram
             /\ d.type = p.type /\ d.body = p.body /\ d.endpoint = c
             /\ p.type = "POSITION_UPDATE" => p.body \in Position
<1>1. PICK t \in PACKET_TYPE :
        p \in [type : {t}, ident : Ident, endpoint : {server_endpoint},
               body : Body(t)]
  BY DEF Outgoing, PacketsOf
<1>2. [p EXCEPT !.endpoint = c] \in
        [type : {t}, ident : Ident, endpoint : Client, body : Body(t)]
  BY <1>1
<1>3. p.type = "POSITION_UPDATE" => p.body \in Position
  BY <1>1 DEF Body
<1> QED  BY <1>1, <1>2, <1>3 DEF Datagram, PacketsOf

LEMMA ReplyReadable == ASSUME NEW d \in S!Reply PROVE Readable(d)
<1>1. d.body \in Body(d.type)
  BY SamePackets, DatagramFields
<1>2. d.type = "LOGIN_REPLY" => d.body \in LoginReply
  BY <1>1 DEF Body
<1>3. d.type = "CHAT_MESSAGE" => d.body \in Message
  BY <1>1 DEF Body
<1> QED  BY <1>2, <1>3 DEF Readable, LoginReply

LEMMA ServerStays == S!IInv /\ UNCHANGED serverVars => S!IInv'
BY ServerAssumed, S!NextInv DEF serverVars, S!serverVars

\* A step of c marks nothing of another client d.
LEMMA OthersMarks ==
  ASSUME TypeOK, NEW c \in Client, NEW d \in Client, c # d, Step(c), Marked(d)
  PROVE  Marked(d)'
<1>1. /\ call'[d] = call[d] /\ packet'[d] = packet[d]
      /\ m_tx_deque'[d] = m_tx_deque[d] /\ ident'[d] = ident[d]
  BY StandsStill
<1>2. Stamped(d)' = Stamped(d)
  BY <1>1 DEF Stamped
<1> QED  BY <1>1, <1>2 DEF Marked

\* A step of a client that leaves server and network alone.
LEMMA ClientStepKeeps ==
  ASSUME CarnivalInv, NEW c \in Client, ClientStep(c)
  PROVE  CarnivalInv'
<1>1. /\ TypeOK /\ ClientInv /\ Marked(c)
      /\ Step(c) /\ UNCHANGED <<serverVars, networkVars>>
  BY DEF CarnivalInv, ClientStep, Step
<1>2. TypeOK' /\ ClientInv'
  BY <1>1, StepTypes, StepKept
<1>3. Marked(c)'
  <2>1. Main(c) \/ main_start(c)
    BY DEF ClientStep
  <2> QED  BY <1>1, <1>2, <2>1, MainMarks, SendMarks DEF Main
<1>4. \A d \in Client : Marked(d)'
  BY <1>1, <1>3, OthersMarks DEF CarnivalInv
<1>5. S!IInv'
  BY <1>1, ServerStays DEF CarnivalInv
<1>6. TrafficInv' /\ PositionsWereAnnounced'
  BY <1>1 DEF CarnivalInv, TrafficInv, NetTypeOK, Told, Confirms,
              PositionsWereAnnounced, serverVars, networkVars
<1> QED  BY <1>2, <1>4, <1>5, <1>6 DEF CarnivalInv

LEMMA ClientSendsKeeps ==
  ASSUME CarnivalInv, NEW c \in Client, client_sends(c)
  PROVE  CarnivalInv'
<1>1. /\ TypeOK /\ ClientInv /\ Marked(c)
      /\ do_send(c) /\ Step(c)
      /\ m_sessions' = m_sessions /\ server_tx' = server_tx /\ users' = users
      /\ to_client' = to_client
  BY DEF CarnivalInv, client_sends, Step, serverVars
<1>2. TypeOK' /\ ClientInv'
  BY <1>1, StepTypes, StepKept
<1>3. \A d \in Client : Marked(d)'
  BY <1>1, <1>2, LeavingMarks, OthersMarks DEF CarnivalInv
<1>4. S!IInv'
  BY <1>1, ServerStays DEF CarnivalInv, serverVars
<1> DEFINE sent == Head(m_tx_deque[c])
           datagram == [sent EXCEPT !.endpoint = c]
<1>5. /\ to_server' = BagAdd(to_server, datagram)
      /\ announced' = IF sent.type = "POSITION_UPDATE"
                      THEN [announced EXCEPT ![c] = @ \cup {sent.body}]
                      ELSE announced
  BY DEF client_sends
<1>6. sent \in Outgoing
  BY <1>1, HeadTailProperties DEF TypeOK, do_send
<1>7. /\ datagram \in Datagram /\ datagram.type = sent.type
      /\ datagram.body = sent.body /\ datagram.endpoint = c
      /\ sent.type = "POSITION_UPDATE" => sent.body \in Position
  BY <1>6, PacketToDatagram
<1> HIDE DEF sent, datagram
<1>8. /\ announced' \in [Client -> SUBSET Position]
      /\ \A d \in Client : announced[d] \subseteq announced'[d]
      /\ sent.type = "POSITION_UPDATE" => sent.body \in announced'[c]
  BY <1>5, <1>7 DEF CarnivalInv, TrafficInv, NetTypeOK
<1>9. /\ IsABag(to_server')
      /\ BagToSet(to_server') = BagToSet(to_server) \cup {datagram}
  BY <1>5, BagAddProperties DEF CarnivalInv, TrafficInv, NetTypeOK
<1>10. NetTypeOK'
  BY <1>1, <1>7, <1>8, <1>9 DEF CarnivalInv, TrafficInv, NetTypeOK
<1>11. ASSUME NEW d \in BagToSet(to_server')
       PROVE  Told(d)'
  <2>1. CASE d = datagram
    BY <1>7, <1>8, <2>1 DEF Told
  <2>2. CASE d \in BagToSet(to_server)
    <3>1. d \in Datagram /\ Told(d)
      BY <2>2 DEF CarnivalInv, TrafficInv, NetTypeOK
    <3> QED  BY <1>8, <3>1, DatagramFields DEF Told
  <2> QED  BY <1>9, <1>11, <2>1, <2>2
<1>12. TrafficInv'
  BY <1>1, <1>10, <1>11 DEF CarnivalInv, TrafficInv, Confirms
<1>13. PositionsWereAnnounced'
  <2> SUFFICES ASSUME NEW k \in DOMAIN m_sessions,
                      m_sessions[k].character # NoCharacter,
                      m_sessions[k].character.pos # ZeroPosition
               PROVE  \E user \in users[k] :
                        m_sessions[k].character.pos \in announced'[user.endpoint]
    BY <1>1 DEF PositionsWereAnnounced
  <2>1. PICK user \in users[k] :
          m_sessions[k].character.pos \in announced[user.endpoint]
    BY DEF CarnivalInv, PositionsWereAnnounced
  <2>2. user.endpoint \in Client
    BY DEF CarnivalInv, S!IInv, S!TypeOK, S!User
  <2> QED  BY <1>8, <2>1, <2>2
<1> QED  BY <1>2, <1>3, <1>4, <1>12, <1>13 DEF CarnivalInv

\* A datagram that reaches the server is one Server.tla allows.
LEMMA ServerReceivesIsNext ==
  ASSUME CarnivalInv, NEW d \in BagToSet(to_server), server_receives(d)
  PROVE  /\ d \in Datagram /\ Told(d) /\ S!on_packet_received(d)
         /\ S!Next /\ Server!Next
<1>1. d \in Datagram /\ Told(d)
  BY DEF CarnivalInv, TrafficInv, NetTypeOK
<1>2. /\ Len(server_tx) < TxBound
      /\ Server!on_packet_received(d) /\ S!on_packet_received(d)
  BY SameHandlers DEF server_receives
<1>3. S!Next
  BY <1>1, <1>2, SamePackets DEF S!Next
<1>4. Server!Next
  BY <1>1, <1>2, SamePackets DEF Server!Next
<1> QED  BY <1>1, <1>2, <1>3, <1>4

LEMMA ServerReceivesKeeps ==
  ASSUME CarnivalInv, NEW d \in BagToSet(to_server), server_receives(d)
  PROVE  CarnivalInv'
<1>1. /\ clientVars' = clientVars
      /\ to_client' = to_client /\ announced' = announced
      /\ to_server' = BagRemove(to_server, d)
  BY DEF server_receives
<1>2. TypeOK' /\ ClientInv' /\ \A c \in Client : Marked(c)'
  BY <1>1 DEF CarnivalInv, TypeOK, ClientInv, Pending, Marked, Stamped,
              clientVars, mainVars, sendVars
<1>3. S!IInv'
  BY ServerReceivesIsNext, ServerAssumed, S!NextInv DEF CarnivalInv
<1>4. S!TypeOK /\ \A i \in DOMAIN server_tx : Confirms(server_tx[i])
  BY DEF CarnivalInv, TrafficInv, S!IInv
<1>5. \A i \in DOMAIN server_tx' : Confirms(server_tx'[i])
  BY <1>4, ServerReceivesIsNext, RepliesConfirm
<1>6. /\ IsABag(to_server')
      /\ BagToSet(to_server') \subseteq BagToSet(to_server)
  BY <1>1, BagRemoveProperties DEF CarnivalInv, TrafficInv, NetTypeOK
<1>7. TrafficInv'
  BY <1>1, <1>5, <1>6 DEF CarnivalInv, TrafficInv, NetTypeOK, Told, Confirms
<1>8. PositionsWereAnnounced'
  BY <1>1, <1>4, ServerReceivesIsNext, PlacesFromTraffic DEF CarnivalInv
<1> QED  BY <1>2, <1>3, <1>7, <1>8 DEF CarnivalInv

LEMMA ServerSendsKeeps == CarnivalInv /\ server_sends => CarnivalInv'
<1> SUFFICES ASSUME CarnivalInv, server_sends PROVE CarnivalInv'
  OBVIOUS
<1>1. /\ clientVars' = clientVars
      /\ to_server' = to_server /\ announced' = announced
      /\ m_sessions' = m_sessions /\ users' = users
      /\ S!do_send
      /\ to_client' = BagAdd(to_client, Head(server_tx))
  BY DEF server_sends, Server!do_send, S!do_send
<1>2. TypeOK' /\ ClientInv' /\ \A c \in Client : Marked(c)'
  BY <1>1 DEF CarnivalInv, TypeOK, ClientInv, Pending, Marked, Stamped,
              clientVars, mainVars, sendVars
<1>3. S!IInv'
  BY <1>1, ServerAssumed, S!NextInv DEF CarnivalInv, S!Next
<1>4. /\ Head(server_tx) \in S!Reply /\ Confirms(Head(server_tx))
      /\ \A i \in DOMAIN server_tx' : Confirms(server_tx'[i])
  BY <1>1, SentConfirms DEF CarnivalInv, TrafficInv, S!IInv
<1>5. /\ IsABag(to_client')
      /\ BagToSet(to_client') = BagToSet(to_client) \cup {Head(server_tx)}
  BY <1>1, BagAddProperties DEF CarnivalInv, TrafficInv, NetTypeOK
<1>6. S!Reply' = S!Reply
  BY DEF S!Reply, S!Received, S!PacketsOf
<1>7. NetTypeOK'
  BY <1>1, <1>4, <1>5, SamePackets DEF CarnivalInv, TrafficInv, NetTypeOK
<1>8. TrafficInv'
  BY <1>1, <1>4, <1>5, <1>6, <1>7 DEF CarnivalInv, TrafficInv, Told, Confirms
<1>9. PositionsWereAnnounced'
  BY <1>1 DEF CarnivalInv, PositionsWereAnnounced
<1> QED  BY <1>2, <1>3, <1>8, <1>9 DEF CarnivalInv

LEMMA ClientReceivesKeeps ==
  ASSUME CarnivalInv, NEW d \in BagToSet(to_client), client_receives(d)
  PROVE  CarnivalInv'
<1>1. /\ m_sessions' = m_sessions /\ server_tx' = server_tx /\ users' = users
      /\ to_server' = to_server /\ announced' = announced
      /\ to_client' = BagRemove(to_client, d)
  BY DEF client_receives, serverVars
<1>2. d \in S!Reply /\ Confirms(d) /\ d.endpoint \in Client
  BY DatagramFields DEF CarnivalInv, TrafficInv, NetTypeOK
<1>3. TypeOK' /\ ClientInv' /\ \A c \in Client : Marked(c)'
  <2>1. CASE UNCHANGED clientVars
    BY <2>1 DEF CarnivalInv, TypeOK, ClientInv, Pending, Marked, Stamped,
                clientVars, mainVars, sendVars
  <2>2. CASE on_packet_received(d.endpoint, d)
    <3>1. Step(d.endpoint)
      BY <1>2, <2>2, ReplyReadable DEF Step
    <3>2. TypeOK' /\ ClientInv'
      BY <1>2, <3>1, StepTypes, StepKept DEF CarnivalInv
    <3>3. Marked(d.endpoint)'
      BY <1>2, <2>2, ReplyMarks DEF CarnivalInv, Confirms
    <3>4. ASSUME NEW c \in Client, c # d.endpoint
          PROVE  Marked(c)'
      BY <1>2, <3>1, <3>4, OthersMarks DEF CarnivalInv
    <3> QED  BY <3>2, <3>3, <3>4
  <2> QED  BY <2>1, <2>2 DEF client_receives
<1>4. S!IInv'
  BY <1>1, ServerStays DEF CarnivalInv, serverVars
<1>5. /\ IsABag(to_client')
      /\ BagToSet(to_client') \subseteq BagToSet(to_client)
  BY <1>1, BagRemoveProperties DEF CarnivalInv, TrafficInv, NetTypeOK
<1>6. S!Reply' = S!Reply
  BY DEF S!Reply, S!Received, S!PacketsOf
<1>7. TrafficInv' /\ PositionsWereAnnounced'
  BY <1>1, <1>5, <1>6
     DEF CarnivalInv, TrafficInv, NetTypeOK, Told, Confirms,
         PositionsWereAnnounced
<1> QED  BY <1>3, <1>4, <1>7 DEF CarnivalInv

\* Whatever the network does, it makes no datagram.
LEMMA NetworkKeeps ==
  CarnivalInv /\ (network_loses \/ network_repeats) => CarnivalInv'
<1> SUFFICES ASSUME CarnivalInv, network_loses \/ network_repeats
             PROVE  CarnivalInv'
  OBVIOUS
<1>1. /\ clientVars' = clientVars /\ announced' = announced
      /\ m_sessions' = m_sessions /\ server_tx' = server_tx /\ users' = users
  BY DEF network_loses, network_repeats, serverVars
<1>2. /\ IsABag(to_server') /\ BagToSet(to_server') \subseteq BagToSet(to_server)
      /\ IsABag(to_client') /\ BagToSet(to_client') \subseteq BagToSet(to_client)
  <2>1. IsABag(to_server) /\ IsABag(to_client)
    BY DEF CarnivalInv, TrafficInv, NetTypeOK
  <2>2. CASE network_loses
    BY <2>1, <2>2, BagRemoveProperties DEF network_loses
  <2>3. CASE network_repeats
    BY <2>1, <2>3, BagAddProperties DEF network_repeats
  <2> QED  BY <2>2, <2>3
<1>3. TypeOK' /\ ClientInv' /\ \A c \in Client : Marked(c)'
  BY <1>1 DEF CarnivalInv, TypeOK, ClientInv, Pending, Marked, Stamped,
              clientVars, mainVars, sendVars
<1>4. S!IInv'
  BY <1>1, ServerStays DEF CarnivalInv, serverVars
<1>5. S!Reply' = S!Reply
  BY DEF S!Reply, S!Received, S!PacketsOf
<1>6. TrafficInv' /\ PositionsWereAnnounced'
  BY <1>1, <1>2, <1>5
     DEF CarnivalInv, TrafficInv, NetTypeOK, Told, Confirms,
         PositionsWereAnnounced
<1> QED  BY <1>3, <1>4, <1>6 DEF CarnivalInv

LEMMA StutterKeeps == CarnivalInv /\ UNCHANGED carnivalVars => CarnivalInv'
<1> SUFFICES ASSUME CarnivalInv, UNCHANGED carnivalVars PROVE CarnivalInv'
  OBVIOUS
<1>1. /\ clientVars' = clientVars /\ announced' = announced
      /\ to_server' = to_server /\ to_client' = to_client
      /\ m_sessions' = m_sessions /\ server_tx' = server_tx /\ users' = users
  BY DEF carnivalVars, serverVars, networkVars
<1>2. TypeOK' /\ ClientInv' /\ \A c \in Client : Marked(c)'
  BY <1>1 DEF CarnivalInv, TypeOK, ClientInv, Pending, Marked, Stamped,
              clientVars, mainVars, sendVars
<1>3. S!IInv'
  BY <1>1, ServerStays DEF CarnivalInv, serverVars
<1>4. S!Reply' = S!Reply
  BY DEF S!Reply, S!Received, S!PacketsOf
<1>5. TrafficInv' /\ PositionsWereAnnounced'
  BY <1>1, <1>4
     DEF CarnivalInv, TrafficInv, NetTypeOK, Told, Confirms,
         PositionsWereAnnounced
<1> QED  BY <1>2, <1>3, <1>5 DEF CarnivalInv

LEMMA InitCarnivalInv == CarnivalInit => CarnivalInv
<1> SUFFICES ASSUME CarnivalInit PROVE CarnivalInv
  OBVIOUS
<1>1. TypeOK /\ ClientInv
  BY InitTypes, InitKept DEF CarnivalInit
<1>2. m_sessions = <<>> /\ server_tx = <<>> /\ users = <<>>
  BY DEF CarnivalInit, Server!Init
<1>3. S!IInv
  BY <1>2, ServerAssumed, S!InitInv DEF S!Init
<1>4. TrafficInv /\ PositionsWereAnnounced
  BY <1>2, EmptyBagProperties
     DEF CarnivalInit, TrafficInv, NetTypeOK, PositionsWereAnnounced
<1>5. ASSUME NEW c \in Client
      PROVE  Marked(c)
  <2>1. call[c] = "none" /\ m_tx_deque[c] = <<>>
    BY DEF CarnivalInit, Init
  <2>2. Stamped(c) = <<>>
    BY <1>1, <2>1, StampedForms
  <2> QED  BY <2>1, <2>2, EmptySeq DEF Marked, Rising
<1> QED  BY <1>1, <1>3, <1>4, <1>5 DEF CarnivalInv

LEMMA NextCarnivalInv ==
  CarnivalInv /\ [CarnivalNext]_carnivalVars => CarnivalInv'
BY ClientStepKeeps, ClientSendsKeeps, ServerReceivesKeeps, ServerSendsKeeps,
   ClientReceivesKeeps, NetworkKeeps, StutterKeeps
   DEF CarnivalNext, Terminating

LEMMA CarnivalInvariance == CarnivalSpec => []CarnivalInv
BY InitCarnivalInv, NextCarnivalInv, PTL DEF CarnivalSpec

-----------------------------------------------------------------------------
(* The chat *)

\* What is counted of the datagrams on their way is finite.
Counted == \A c \in Client : \A m \in Message :
  /\ IsFiniteSet(Traffic(to_server, Chat(c, m)))
  /\ IsFiniteSet(Traffic(to_client, Chat(c, m)))

\* What ChatIsConserved says of one message.
Conserved(c, m) ==
  /\ "lose" \notin Network => Copies(c, m) >= Said(c, m)
  /\ "repeat" \notin Network /\ ~Restarting => Copies(c, m) <= Said(c, m)

LEMMA InChat ==
  ASSUME NEW E, NEW p \in PacketsOf(E), NEW e, NEW m
  PROVE  /\ p \in Chat(e, m) <=> /\ p.type = "CHAT_MESSAGE"
                                 /\ p.endpoint = e /\ p.body = m
         /\ In(p, Chat(e, m)) = IF /\ p.type = "CHAT_MESSAGE"
                                   /\ p.endpoint = e /\ p.body = m
                                THEN 1 ELSE 0
<1>1. PICK t \in PACKET_TYPE :
        p \in [type : {t}, ident : Ident, endpoint : E, body : Body(t)]
  BY DEF PacketsOf
<1>2. p \in Chat(e, m) <=> /\ p.type = "CHAT_MESSAGE"
                           /\ p.endpoint = e /\ p.body = m
  BY <1>1 DEF Chat
<1> QED  BY <1>2 DEF In

\* The places a message can be in.
LEMMA Terms ==
  ASSUME TypeOK, S!TypeOK, Counted, NEW c \in Client, NEW m \in Message
  PROVE  /\ Count(Pending(c), Chat(server_endpoint, m)) \in Nat
         /\ Cardinality(Traffic(to_server, Chat(c, m))) \in Nat
         /\ Count(server_tx, Chat(c, m)) \in Nat
         /\ Cardinality(Traffic(to_client, Chat(c, m))) \in Nat
         /\ Count(chat_messages[c], {m}) \in Nat
         /\ Said(c, m) \in Nat
<1>1. /\ Count(Pending(c), Chat(server_endpoint, m)) \in Nat
      /\ Count(server_tx, Chat(c, m)) \in Nat
      /\ Count(chat_messages[c], {m}) \in Nat
  <2>1. /\ Pending(c) \in Seq(Outgoing) /\ server_tx \in Seq(S!Reply)
        /\ chat_messages[c] \in Seq(Message)
    BY PendingIsSeq DEF TypeOK, S!TypeOK
  <2> QED  BY <2>1, CountType
<1>2. Said(c, m) \in Nat
  <2>1. greeted[c] \in Nat
    BY DEF TypeOK
  <2> DEFINE I == {i \in 1 .. greeted[c] : Greetings[c][i] = m}
  <2>2. {i \in 1 .. greeted[c] : i \in I} = I
    OBVIOUS
  <2> HIDE DEF I
  <2>3. Cardinality({i \in 1 .. greeted[c] : i \in I}) \in Nat
    BY <2>1, FewIndices
  <2> QED  BY <2>2, <2>3 DEF Said, I
<1> QED  BY <1>1, <1>2, CardinalityIsNat DEF Counted

LEMMA TermsNext ==
  ASSUME TypeOK', S!TypeOK', Counted', NEW c \in Client, NEW m \in Message
  PROVE  /\ Count(Pending(c)', Chat(server_endpoint, m)) \in Nat
         /\ Cardinality(Traffic(to_server', Chat(c, m))) \in Nat
         /\ Count(server_tx', Chat(c, m)) \in Nat
         /\ Cardinality(Traffic(to_client', Chat(c, m))) \in Nat
         /\ Count(chat_messages'[c], {m}) \in Nat
         /\ Said(c, m)' \in Nat
<1>1. /\ Count(Pending(c)', Chat(server_endpoint, m)) \in Nat
      /\ Count(server_tx', Chat(c, m)) \in Nat
      /\ Count(chat_messages'[c], {m}) \in Nat
  <2>1. /\ Pending(c)' \in Seq(Outgoing) /\ server_tx' \in Seq(S!Reply)
        /\ chat_messages'[c] \in Seq(Message)
    <3>1. S!Reply' = S!Reply
      BY DEF S!Reply, S!Received, S!PacketsOf
    <3> QED  BY <3>1, PendingFormsNext DEF TypeOK, S!TypeOK
  <2> QED  BY <2>1, CountType
<1>2. Said(c, m)' \in Nat
  <2>1. greeted'[c] \in Nat
    BY DEF TypeOK
  <2> DEFINE I == {i \in 1 .. greeted'[c] : Greetings[c][i] = m}
  <2>2. {i \in 1 .. greeted'[c] : i \in I} = I
    OBVIOUS
  <2> HIDE DEF I
  <2>3. Cardinality({i \in 1 .. greeted'[c] : i \in I}) \in Nat
    BY <2>1, FewIndices
  <2> QED  BY <2>2, <2>3 DEF Said, I
<1> QED  BY <1>1, <1>2, CardinalityIsNat DEF Counted

\* A step that takes p from what the client has still to send, and so on, keeps
\* the balance of what is said and what is on its way or there.
LEMMA Balance ==
  ASSUME TypeOK, S!TypeOK, Counted, TypeOK', S!TypeOK', Counted',
         NEW c \in Client, NEW m \in Message, Conserved(c, m),
         NEW p \in Int, NEW s \in Int, NEW t \in Int, NEW r \in Int, NEW h \in Int,
         Count(Pending(c)', Chat(server_endpoint, m)) =
           Count(Pending(c), Chat(server_endpoint, m)) + p,
         Cardinality(Traffic(to_server', Chat(c, m))) =
           Cardinality(Traffic(to_server, Chat(c, m))) + s,
         Count(server_tx', Chat(c, m)) = Count(server_tx, Chat(c, m)) + t,
         Cardinality(Traffic(to_client', Chat(c, m))) =
           Cardinality(Traffic(to_client, Chat(c, m))) + r,
         Count(chat_messages'[c], {m}) = Count(chat_messages[c], {m}) + h,
         "lose" \notin Network =>
           p + s + t + r + h >= Said(c, m)' - Said(c, m),
         "repeat" \notin Network /\ ~Restarting =>
           p + s + t + r + h <= Said(c, m)' - Said(c, m)
  PROVE  Conserved(c, m)'
<1> DEFINE P == Count(Pending(c), Chat(server_endpoint, m))
           N == Cardinality(Traffic(to_server, Chat(c, m)))
           T == Count(server_tx, Chat(c, m))
           R == Cardinality(Traffic(to_client, Chat(c, m)))
           H == Count(chat_messages[c], {m})
           g == Said(c, m)
           k == Said(c, m)'
<1>1. /\ P \in Nat /\ N \in Nat /\ T \in Nat /\ R \in Nat /\ H \in Nat
      /\ g \in Nat /\ k \in Nat
  BY Terms, TermsNext
<1>2. /\ Copies(c, m) = P + N + T + R + H
      /\ Copies(c, m)' = (P + p) + (N + s) + (T + t) + (R + r) + (H + h)
  BY DEF Copies
<1> HIDE DEF P, N, T, R, H, g, k
<1>3. /\ "lose" \notin Network => P + N + T + R + H >= g
      /\ "repeat" \notin Network /\ ~Restarting => P + N + T + R + H <= g
  BY <1>2 DEF Conserved, g
<1>4. /\ "lose" \notin Network => p + s + t + r + h >= k - g
      /\ "repeat" \notin Network /\ ~Restarting => p + s + t + r + h <= k - g
  BY DEF g, k
<1>5. "lose" \notin Network =>
        (P + p) + (N + s) + (T + t) + (R + r) + (H + h) >= k
  <2> SUFFICES ASSUME "lose" \notin Network
               PROVE  (P + p) + (N + s) + (T + t) + (R + r) + (H + h) >= k
    OBVIOUS
  <2> QED  BY <1>1, <1>3, <1>4
<1>6. "repeat" \notin Network /\ ~Restarting =>
        (P + p) + (N + s) + (T + t) + (R + r) + (H + h) <= k
  <2> SUFFICES ASSUME "repeat" \notin Network, ~Restarting
               PROVE  (P + p) + (N + s) + (T + t) + (R + r) + (H + h) <= k
    OBVIOUS
  <2> QED  BY <1>1, <1>3, <1>4
<1> QED  BY <1>2, <1>5, <1>6 DEF Conserved, k

\* A bag of datagrams changes by one datagram.
OneDatagram(bag, new) ==
  \/ new = bag
  \/ \E d : new = BagAdd(bag, d)
  \/ \E d \in BagToSet(bag) : new = BagRemove(bag, d)

LEMMA OneDatagramCounts ==
  ASSUME NEW bag, IsABag(bag), NEW new, OneDatagram(bag, new), NEW A,
         IsFiniteSet(Traffic(bag, A))
  PROVE  IsFiniteSet(Traffic(new, A))
BY TrafficAdd, TrafficRemove DEF OneDatagram

LEMMA CountedStays ==
  ASSUME NetTypeOK, Counted,
         OneDatagram(to_server, to_server'), OneDatagram(to_client, to_client')
  PROVE  Counted'
<1>1. IsABag(to_server) /\ IsABag(to_client)
  BY DEF NetTypeOK
<1> SUFFICES ASSUME NEW c \in Client, NEW m \in Message
             PROVE  /\ IsFiniteSet(Traffic(to_server', Chat(c, m)))
                    /\ IsFiniteSet(Traffic(to_client', Chat(c, m)))
  BY DEF Counted
<1>2. /\ IsFiniteSet(Traffic(to_server, Chat(c, m)))
      /\ IsFiniteSet(Traffic(to_client, Chat(c, m)))
  BY DEF Counted
<1> QED  BY <1>1, <1>2, OneDatagramCounts

LEMMA StepCounts ==
  CarnivalInv /\ Counted /\ [CarnivalNext]_carnivalVars => Counted'
<1> SUFFICES ASSUME CarnivalInv, Counted, [CarnivalNext]_carnivalVars
             PROVE  Counted'
  OBVIOUS
<1>1. NetTypeOK
  BY DEF CarnivalInv, TrafficInv
<1>2. /\ OneDatagram(to_server, to_server')
      /\ OneDatagram(to_client, to_client')
  <2>1. CASE \E c \in Client : ClientStep(c)
    BY <2>1 DEF ClientStep, networkVars, OneDatagram
  <2>2. CASE \E c \in Client : client_sends(c)
    BY <2>2 DEF client_sends, OneDatagram
  <2>3. CASE \E d \in BagToSet(to_server) : server_receives(d)
    BY <2>3 DEF server_receives, OneDatagram
  <2>4. CASE server_sends
    BY <2>4 DEF server_sends, OneDatagram
  <2>5. CASE \E d \in BagToSet(to_client) : client_receives(d)
    BY <2>5 DEF client_receives, OneDatagram
  <2>6. CASE network_loses
    BY <2>6 DEF network_loses, OneDatagram
  <2>7. CASE network_repeats
    BY <2>7 DEF network_repeats, OneDatagram
  <2>8. CASE UNCHANGED carnivalVars
    BY <2>8 DEF carnivalVars, networkVars, OneDatagram
  <2> QED  BY <2>1, <2>2, <2>3, <2>4, <2>5, <2>6, <2>7, <2>8
              DEF CarnivalNext, Terminating
<1> QED  BY <1>1, <1>2, CountedStays

\* main() enters send(): one chat message more, or none.
LEMMA SendCounts ==
  ASSUME TypeOK, TypeOK', NEW c \in Client, NEW m \in Message, NEW type, NEW body,
         call[c] = "none", Send(c, type, body), UNCHANGED m_tx_deque
  PROVE  Count(Pending(c)', Chat(server_endpoint, m)) =
           Count(Pending(c), Chat(server_endpoint, m)) +
             IF type = "CHAT_MESSAGE" /\ body = m THEN 1 ELSE 0
<1> DEFINE p == packet_t(type, server_endpoint, body)
<1>1. /\ p \in Outgoing /\ p.type = type /\ p.body = body
      /\ Pending(c)' = Append(Pending(c), p)
  BY SendAppends
<1>2. p.endpoint = server_endpoint
  BY DEF packet_t
<1> HIDE DEF p
<1>3. Pending(c) \in Seq(Outgoing)
  BY PendingIsSeq
<1>4. Count(Append(Pending(c), p), Chat(server_endpoint, m)) =
        Count(Pending(c), Chat(server_endpoint, m))
          + In(p, Chat(server_endpoint, m))
  BY <1>1, <1>3, CountAppend
<1>5. In(p, Chat(server_endpoint, m)) =
        IF type = "CHAT_MESSAGE" /\ body = m THEN 1 ELSE 0
  BY <1>1, <1>2, InChat DEF Outgoing
<1> QED  BY <1>1, <1>4, <1>5

\* Packets that differ in their idents count alike.
LEMMA IdentsDoNotCount ==
  ASSUME NEW q \in Seq(Outgoing), NEW r \in Seq(Outgoing), SameButIdents(q, r),
         NEW m
  PROVE  Count(q, Chat(server_endpoint, m)) = Count(r, Chat(server_endpoint, m))
<1> DEFINE A == Chat(server_endpoint, m)
<1>1. /\ DOMAIN q = 1 .. Len(q) /\ DOMAIN r = 1 .. Len(r)
      /\ \A i \in DOMAIN q : q[i] \in Outgoing
      /\ \A i \in DOMAIN r : r[i] \in Outgoing
  BY LenProperties, ElementOfSeq
<1>2. \A p \in Outgoing : p \in A <=> p.type = "CHAT_MESSAGE" /\ p.body = m
  <2> SUFFICES ASSUME NEW p \in Outgoing
               PROVE  p \in A <=> p.type = "CHAT_MESSAGE" /\ p.body = m
    OBVIOUS
  <2>1. p.endpoint = server_endpoint
    BY DEF Outgoing, PacketsOf
  <2> QED  BY <2>1, InChat DEF Outgoing
<1> HIDE DEF A
<1>3. {i \in DOMAIN q : q[i] \in A} = {i \in DOMAIN r : r[i] \in A}
  BY <1>1, <1>2 DEF SameButIdents
<1> QED  BY <1>3 DEF Count, A

\* main() says a greeting, or leaves what is said and to be sent as it is.
LEMMA MainSays ==
  ASSUME TypeOK, TypeOK', NEW c \in Client, NEW m \in Message,
         Main(c), main'[c] # "closed"
  PROVE  /\ chat_messages' = chat_messages
         /\ \E p \in {0, 1} :
              /\ Count(Pending(c)', Chat(server_endpoint, m)) =
                   Count(Pending(c), Chat(server_endpoint, m)) + p
              /\ Said(c, m)' = Said(c, m) + p
<1> DEFINE n == Count(Pending(c), Chat(server_endpoint, m))
           k == Count(Pending(c)', Chat(server_endpoint, m))
<1>0. n \in Nat /\ Said(c, m) \in Nat
  <2>1. Pending(c) \in Seq(Outgoing)
    BY PendingIsSeq
  <2>2. greeted[c] \in Nat
    BY DEF TypeOK
  <2> DEFINE I == {i \in 1 .. greeted[c] : Greetings[c][i] = m}
  <2>3. {i \in 1 .. greeted[c] : i \in I} = I
    OBVIOUS
  <2> HIDE DEF I
  <2>4. Cardinality({i \in 1 .. greeted[c] : i \in I}) \in Nat
    BY <2>2, FewIndices
  <2> QED  BY <2>1, <2>3, <2>4, CountType DEF Said, I
<1>1. chat_messages' = chat_messages
  BY DEF Main, main_login, main_greet, Loop, main_input, main_no_tick, main_tick,
         main_move, main_exit, Sending, send_test, send_stamp,
         send_enqueue
<1>2. CASE k = n /\ greeted' = greeted
  <2>1. Said(c, m)' = Said(c, m)
    BY <1>2 DEF Said
  <2> HIDE DEF n, k
  <2>2. k = n + 0 /\ Said(c, m)' = Said(c, m) + 0
    BY <1>0, <1>2, <2>1
  <2> QED  BY <1>1, <2>2 DEF n, k
<1>3. ASSUME NEW type, NEW body, type # "CHAT_MESSAGE", call[c] = "none",
             Send(c, type, body), UNCHANGED m_tx_deque
      PROVE  k = n
  <2>1. k = n + 0
    BY <1>3, SendCounts
  <2> HIDE DEF n, k
  <2> QED  BY <1>0, <2>1
<1>4. CASE main_login(c) \/ main_tick(c)
  <2>1. /\ greeted' = greeted /\ m_tx_deque' = m_tx_deque /\ call[c] = "none"
        /\ \E type, body : type # "CHAT_MESSAGE" /\ Send(c, type, body)
    BY <1>4 DEF main_login, main_tick, At
  <2> QED  BY <1>2, <1>3, <2>1
<1>5. CASE main_move(c)
  <2>1. greeted' = greeted /\ m_tx_deque' = m_tx_deque /\ call[c] = "none"
    BY <1>5 DEF main_move, At
  <2>2. CASE UNCHANGED sendVars
    <3>1. Pending(c)' = Pending(c)
      BY <2>1, <2>2 DEF Pending, sendVars
    <3> QED  BY <1>2, <2>1, <3>1
  <2>3. CASE Send(c, "POSITION_UPDATE", character'[c])
    BY <1>2, <1>3, <2>1, <2>3
  <2> QED  BY <1>5, <2>2, <2>3 DEF main_move
<1>6. CASE main_input(c) \/ main_no_tick(c)
  <2>1. greeted' = greeted /\ Pending(c)' = Pending(c)
    BY <1>6 DEF main_input, main_no_tick, sendVars, Pending
  <2> QED  BY <1>2, <2>1
<1>7. CASE Sending(c)
  <2>1. greeted' = greeted
    BY <1>7 DEF Sending, send_test, send_stamp, send_enqueue, mainVars
  <2>2. /\ Pending(c) \in Seq(Outgoing) /\ Pending(c)' \in Seq(Outgoing)
        /\ SameButIdents(Pending(c), Pending(c)')
    BY <1>7, PendingIsSeq, PendingFormsNext, SendMarksOnly
  <2>3. k = n
    BY <2>2, IdentsDoNotCount
  <2> QED  BY <1>2, <2>1, <2>3
<1>8. CASE main_greet(c)
  <2>1. m_tx_deque' = m_tx_deque /\ call[c] = "none"
    BY <1>8 DEF main_greet, At
  <2>2. CASE UNCHANGED <<greeted, sendVars>>
    <3>1. Pending(c)' = Pending(c)
      BY <2>1, <2>2 DEF Pending, sendVars
    <3> QED  BY <1>2, <2>2, <3>1
  <2>3. CASE /\ greeted' = [greeted EXCEPT ![c] = @ + 1]
             /\ Send(c, "CHAT_MESSAGE", Greetings[c][greeted[c] + 1])
    <3> DEFINE g == greeted[c]
               I == {i \in Nat : Greetings[c][i] = m}
    <3>1. g \in Nat /\ greeted'[c] = g + 1
      BY <2>3 DEF TypeOK
    <3>2. k = n + IF Greetings[c][g + 1] = m THEN 1 ELSE 0
      BY <2>1, <2>3, SendCounts
    <3>3. In(g + 1, I) = IF Greetings[c][g + 1] = m THEN 1 ELSE 0
      BY <3>1 DEF In
    <3>4. /\ {i \in 1 .. g : i \in I} = {i \in 1 .. g : Greetings[c][i] = m}
          /\ {i \in 1 .. g + 1 : i \in I} = {i \in 1 .. g + 1 : Greetings[c][i] = m}
      BY <3>1
    <3>5. /\ Said(c, m) = Cardinality({i \in 1 .. g : i \in I})
          /\ Said(c, m)' = Cardinality({i \in 1 .. g + 1 : i \in I})
      BY <3>1, <3>4 DEF Said
    <3> HIDE DEF g, I, n, k
    <3>6. Said(c, m)' = Said(c, m) + In(g + 1, I)
      BY <3>1, <3>5, FewIndices
    <3>7. k = n + In(g + 1, I) /\ In(g + 1, I) \in {0, 1}
      BY <3>2, <3>3
    <3> QED  BY <1>1, <3>6, <3>7 DEF n, k
  <2> QED  BY <1>8, <2>2, <2>3 DEF main_greet
<1>9. ~main_exit(c)
  BY DEF main_exit, Goto, TypeOK
<1> QED  BY <1>4, <1>5, <1>6, <1>7, <1>8, <1>9 DEF Main, Loop

\* A step of main() or send() of client e.
LEMMA ClientStepConserves ==
  ASSUME CarnivalInv, CarnivalInv', Counted, Counted', ChatIsConserved,
         NEW e \in Client, ClientStep(e),
         NEW c \in Client, main'[c] # "closed", NEW m \in Message
  PROVE  Conserved(c, m)'
<1>1. /\ TypeOK /\ TypeOK' /\ S!TypeOK /\ S!TypeOK'
      /\ server_tx' = server_tx
      /\ to_server' = to_server /\ to_client' = to_client
      /\ Main(e) \/ (Restarting /\ main_start(e))
  BY DEF CarnivalInv, S!IInv, ClientStep, serverVars, networkVars
<1>2. CASE c # e
  <2>1. /\ main'[c] = main[c] /\ greeted'[c] = greeted[c]
        /\ chat_messages'[c] = chat_messages[c] /\ Pending(c)' = Pending(c)
    BY <1>1, <1>2, StandsStill DEF Step, Pending
  <2>2. Conserved(c, m)
    BY <2>1 DEF ChatIsConserved, Conserved
  <2> QED  BY <1>1, <2>1, <2>2 DEF Conserved, Copies, Said
<1>3. CASE c = e /\ Restarting /\ main_start(e)
  <2>1. greeted'[c] = 0
    BY <1>1, <1>3 DEF main_start, TypeOK
  <2>2. {i \in 1 .. greeted'[c] : Greetings[c][i] = m} = {}
    BY <2>1
  <2>3. Said(c, m)' = 0
    BY <2>2, NoneCounted DEF Said
  <2> DEFINE P == Count(Pending(c)', Chat(server_endpoint, m))
             N == Cardinality(Traffic(to_server', Chat(c, m)))
             T == Count(server_tx', Chat(c, m))
             R == Cardinality(Traffic(to_client', Chat(c, m)))
             H == Count(chat_messages'[c], {m})
  <2>4. P \in Nat /\ N \in Nat /\ T \in Nat /\ R \in Nat /\ H \in Nat
    BY <1>1, TermsNext
  <2>5. Copies(c, m)' = P + N + T + R + H
    BY DEF Copies
  <2> HIDE DEF P, N, T, R, H
  <2>6. P + N + T + R + H >= 0
    BY <2>4
  <2> QED  BY <1>3, <2>3, <2>5, <2>6 DEF Conserved
<1>4. CASE c = e /\ Main(e)
  <2>1. PICK p \in {0, 1} :
          /\ chat_messages' = chat_messages
          /\ Count(Pending(c)', Chat(server_endpoint, m)) =
               Count(Pending(c), Chat(server_endpoint, m)) + p
          /\ Said(c, m)' = Said(c, m) + p
    BY <1>1, <1>4, MainSays
  <2>2. main[c] # "closed"
    BY <1>4 DEF Main, main_login, main_greet, Loop, main_input, main_no_tick,
                main_tick, main_move, main_exit, At, Sending,
                send_test, send_stamp, send_enqueue, mainVars
  <2>3. Conserved(c, m)
    BY <2>2 DEF ChatIsConserved, Conserved
  <2> DEFINE N == Cardinality(Traffic(to_server, Chat(c, m)))
             T == Count(server_tx, Chat(c, m))
             R == Cardinality(Traffic(to_client, Chat(c, m)))
             H == Count(chat_messages[c], {m})
             n == Said(c, m)
             k == Said(c, m)'
  <2>4. /\ N \in Nat /\ T \in Nat /\ R \in Nat /\ H \in Nat
        /\ n \in Nat /\ k = n + p
    BY <1>1, <2>1, Terms
  <2>5. /\ N = N + 0 /\ T = T + 0 /\ R = R + 0 /\ H = H + 0
        /\ p + 0 + 0 + 0 + 0 = k - n
    <3> HIDE DEF N, T, R, H, n, k
    <3> QED  BY <2>4
  <2>6. p + 0 + 0 + 0 + 0 >= k - n /\ p + 0 + 0 + 0 + 0 <= k - n
    <3> HIDE DEF N, T, R, H, n, k
    <3> QED  BY <2>4, <2>5
  <2>7. /\ Cardinality(Traffic(to_server', Chat(c, m))) = N + 0
        /\ Count(server_tx', Chat(c, m)) = T + 0
        /\ Cardinality(Traffic(to_client', Chat(c, m))) = R + 0
        /\ Count(chat_messages'[c], {m}) = H + 0
    BY <1>1, <2>1, <2>5
  <2>8. p \in Int /\ 0 \in Int
    OBVIOUS
  <2>9. /\ TypeOK /\ TypeOK' /\ S!TypeOK /\ S!TypeOK'
        /\ Count(Pending(c)', Chat(server_endpoint, m)) =
             Count(Pending(c), Chat(server_endpoint, m)) + p
    BY <1>1, <2>1
  <2> QED  BY <2>3, <2>6, <2>7, <2>8, <2>9, Balance
<1> QED  BY <1>1, <1>2, <1>3, <1>4

\* The same, when a step takes a message from one place to another, or loses or
\* repeats it, and says nothing.
LEMMA BalanceOf ==
  ASSUME TypeOK, S!TypeOK, Counted, TypeOK', S!TypeOK', Counted',
         NEW c \in Client, NEW m \in Message,
         ChatIsConserved, main'[c] # "closed", UNCHANGED <<main, greeted>>,
         NEW p \in {0, 1}, NEW s \in {0, 1}, NEW t \in {0, 1}, NEW r \in {0, 1},
         NEW p1 \in {0, 1}, NEW s1 \in {0, 1}, NEW t1 \in {0, 1}, NEW r1 \in {0, 1},
         NEW h1 \in {0, 1},
         Count(Pending(c)', Chat(server_endpoint, m)) =
           Count(Pending(c), Chat(server_endpoint, m)) + p1 - p,
         Cardinality(Traffic(to_server', Chat(c, m))) =
           Cardinality(Traffic(to_server, Chat(c, m))) + s1 - s,
         Count(server_tx', Chat(c, m)) = Count(server_tx, Chat(c, m)) + t1 - t,
         Cardinality(Traffic(to_client', Chat(c, m))) =
           Cardinality(Traffic(to_client, Chat(c, m))) + r1 - r,
         Count(chat_messages'[c], {m}) = Count(chat_messages[c], {m}) + h1,
         "lose" \notin Network => p1 + s1 + t1 + r1 + h1 >= p + s + t + r,
         "repeat" \notin Network => p1 + s1 + t1 + r1 + h1 <= p + s + t + r
  PROVE  Conserved(c, m)'
<1> DEFINE P == Count(Pending(c), Chat(server_endpoint, m))
           N == Cardinality(Traffic(to_server, Chat(c, m)))
           T == Count(server_tx, Chat(c, m))
           R == Cardinality(Traffic(to_client, Chat(c, m)))
           n == Said(c, m)
           k == Said(c, m)'
<1>1. P \in Nat /\ N \in Nat /\ T \in Nat /\ R \in Nat /\ n \in Nat
  BY Terms
<1>2. k = n
  BY DEF Said
<1>3. Conserved(c, m)
  BY DEF ChatIsConserved, Conserved
<1>4. /\ Count(Pending(c)', Chat(server_endpoint, m)) = P + (p1 - p)
      /\ Cardinality(Traffic(to_server', Chat(c, m))) = N + (s1 - s)
      /\ Count(server_tx', Chat(c, m)) = T + (t1 - t)
      /\ Cardinality(Traffic(to_client', Chat(c, m))) = R + (r1 - r)
  <2> HIDE DEF P, N, T, R
  <2>1. /\ P + (p1 - p) = P + p1 - p /\ N + (s1 - s) = N + s1 - s
        /\ T + (t1 - t) = T + t1 - t /\ R + (r1 - r) = R + r1 - r
    BY <1>1
  <2> QED  BY <2>1 DEF P, N, T, R
<1>5. /\ "lose" \notin Network =>
           (p1 - p) + (s1 - s) + (t1 - t) + (r1 - r) + h1 >= k - n
      /\ "repeat" \notin Network /\ ~Restarting =>
           (p1 - p) + (s1 - s) + (t1 - t) + (r1 - r) + h1 <= k - n
  <2> HIDE DEF n, k
  <2>1. k - n = 0
    BY <1>1, <1>2
  <2>2. ASSUME "lose" \notin Network
        PROVE  (p1 - p) + (s1 - s) + (t1 - t) + (r1 - r) + h1 >= k - n
    BY <2>1, <2>2
  <2>3. ASSUME "repeat" \notin Network
        PROVE  (p1 - p) + (s1 - s) + (t1 - t) + (r1 - r) + h1 <= k - n
    BY <2>1, <2>3
  <2> QED  BY <2>2, <2>3
<1>6. /\ p1 - p \in Int /\ s1 - s \in Int /\ t1 - t \in Int /\ r1 - r \in Int
      /\ h1 \in Int
  OBVIOUS
<1> QED  BY ZenonT(60), <1>3, <1>4, <1>5, <1>6, Balance

\* A client's message leaves for the server.
LEMMA ClientSendsConserves ==
  ASSUME CarnivalInv, CarnivalInv', Counted, Counted', ChatIsConserved,
         NEW e \in Client, client_sends(e),
         NEW c \in Client, main'[c] # "closed", NEW m \in Message
  PROVE  Conserved(c, m)'
<1> DEFINE sent     == Head(m_tx_deque[e])
           datagram == [sent EXCEPT !.endpoint = e]
           A        == Chat(c, m)
           B        == Chat(server_endpoint, m)
           P == Count(Pending(c), B)
           N == Cardinality(Traffic(to_server, A))
           T == Count(server_tx, A)
           R == Cardinality(Traffic(to_client, A))
           H == Count(chat_messages[c], {m})
           x == In(datagram, A)
<1>1. /\ TypeOK /\ TypeOK' /\ S!TypeOK /\ S!TypeOK'
      /\ do_send(e) /\ server_tx' = server_tx /\ to_client' = to_client
      /\ to_server' = BagAdd(to_server, datagram) /\ IsABag(to_server)
      /\ chat_messages' = chat_messages /\ UNCHANGED <<main, greeted>>
  BY DEF CarnivalInv, S!IInv, TrafficInv, NetTypeOK, client_sends, do_send,
         serverVars, mainVars
<1>2. P \in Nat /\ N \in Nat /\ T \in Nat /\ R \in Nat /\ H \in Nat
  BY <1>1, Terms
<1>3. /\ m_tx_deque[e] \in Seq(Outgoing) /\ m_tx_deque[e] # <<>>
      /\ Pending(e) # <<>> /\ Pending(e)' = Tail(Pending(e))
      /\ Head(Pending(e)) = sent /\ sent \in Outgoing
  BY <1>1, OldestLeaves, HeadTailProperties
<1>4. /\ datagram \in Datagram /\ datagram.type = sent.type
      /\ datagram.body = sent.body /\ datagram.endpoint = e
  BY <1>3, PacketToDatagram
<1>5. Cardinality(Traffic(to_server', A)) = N + x
  BY <1>1, TrafficAdd DEF Counted
<1>6. Count(Pending(c)', B) = P - x
  <2>1. CASE c = e
    <3>1. Count(Tail(Pending(c)), B) = P - In(sent, B)
      BY <1>1, <1>3, <2>1, PendingIsSeq, CountTail
    <3>2. In(sent, B) = x
      <4>1. sent.endpoint = server_endpoint
        BY <1>3 DEF Outgoing, PacketsOf
      <4> HIDE DEF sent, datagram
      <4> QED  BY <1>3, <1>4, <2>1, <4>1, InChat DEF Outgoing, Datagram
    <3> QED  BY <1>3, <2>1, <3>1, <3>2
  <2>2. CASE c # e
    <3>1. Pending(c)' = Pending(c)
      BY <1>1, <2>2, StandsStill DEF Step, Pending
    <3>2. x = 0
      <4> HIDE DEF datagram
      <4> QED  BY <1>4, <2>2, InChat DEF Datagram
    <3> HIDE DEF x
    <3>3. P - x = P
      <4> HIDE DEF P
      <4> QED  BY <1>2, <3>2
    <3> QED  BY <3>1, <3>3
  <2> QED  BY <2>1, <2>2
<1>7. x \in {0, 1}
  BY DEF In
<1>8. /\ P - x = P + 0 - x /\ N + x = N + x - 0 /\ T = T + 0 - 0
      /\ R = R + 0 - 0 /\ H = H + 0
      /\ 0 + x + 0 + 0 + 0 >= x + 0 + 0 + 0 /\ 0 + x + 0 + 0 + 0 <= x + 0 + 0 + 0
  <2> HIDE DEF P, N, T, R, H, x
  <2> QED  BY <1>2, <1>7
<1> HIDE DEF sent, datagram, x
<1> QED  BY <1>1, <1>5, <1>6, <1>7, <1>8, BalanceOf

\* The server takes a datagram in, and what it says of it into its deque.
LEMMA EchoCounts ==
  ASSUME S!TypeOK, NEW d \in Datagram, S!on_packet_received(d), NEW c, NEW m
  PROVE  Count(server_tx', Chat(c, m)) =
           Count(server_tx, Chat(c, m)) + In(d, Chat(c, m))
<1> DEFINE A == Chat(c, m)
           T == Count(server_tx, A)
<1>1. server_tx \in Seq(S!Reply) /\ T \in Nat
  <2>1. server_tx \in Seq(S!Reply)
    BY DEF S!TypeOK
  <2> QED  BY <2>1, CountType
<1>2. ASSUME d.type # "CHAT_MESSAGE"
      PROVE  In(d, A) = 0
  BY <1>2, InChat DEF Datagram
<1>3. ASSUME NEW p, server_tx' = Append(server_tx, p)
      PROVE  Count(server_tx', A) = T + In(p, A)
  <2>1. server_tx \in Seq(S!Reply \cup {p})
    BY <1>1
  <2> QED  BY <1>3, <2>1, CountAppend
<1>4. ASSUME NEW p, p.type # "CHAT_MESSAGE"
      PROVE  In(p, A) = 0
  BY <1>4 DEF In, Chat
<1>5. CASE S!on_chat_message(d)
  BY <1>3, <1>5 DEF S!on_chat_message
<1>6. CASE S!on_heartbeat_ping(d)
  <2>1. /\ server_tx' = Append(server_tx, S!set_type(d, "HEARTBEAT_PONG"))
        /\ S!set_type(d, "HEARTBEAT_PONG").type # "CHAT_MESSAGE"
        /\ d.type # "CHAT_MESSAGE"
    <3>1. DOMAIN d = {"type", "ident", "endpoint", "body"}
      BY DEF Datagram, PacketsOf
    <3> QED  BY <1>6, <3>1 DEF S!on_heartbeat_ping, S!set_type
  <2> QED  BY <1>2, <1>3, <1>4, <2>1
<1>7. CASE S!on_login_request(d)
  <2> DEFINE p == S!packet_t("LOGIN_REPLY", d.endpoint,
                             [success |-> TRUE, ident |-> LoginIdent])
  <2>1. server_tx' = Append(server_tx, p) /\ d.type # "CHAT_MESSAGE"
    BY <1>7 DEF S!on_login_request
  <2>2. p.type # "CHAT_MESSAGE"
    BY DEF S!packet_t
  <2> HIDE DEF p
  <2> QED  BY <1>2, <1>3, <1>4, <2>1, <2>2
<1>8. CASE S!on_position_update(d) \/ S!on_other(d)
  <2>1. server_tx' = server_tx /\ d.type # "CHAT_MESSAGE"
    BY <1>8 DEF S!on_position_update, S!on_other, S!ServerToClient
  <2>2. In(d, A) = 0
    BY <1>2, <2>1
  <2> HIDE DEF A
  <2> QED  BY <1>1, <2>1, <2>2 DEF A
<1> QED  BY <1>5, <1>6, <1>7, <1>8 DEF S!on_packet_received

LEMMA ServerReceivesConserves ==
  ASSUME CarnivalInv, CarnivalInv', Counted, Counted', ChatIsConserved,
         NEW d \in BagToSet(to_server), server_receives(d),
         NEW c \in Client, main'[c] # "closed", NEW m \in Message
  PROVE  Conserved(c, m)'
<1> DEFINE A == Chat(c, m)
           P == Count(Pending(c), Chat(server_endpoint, m))
           N == Cardinality(Traffic(to_server, A))
           T == Count(server_tx, A)
           R == Cardinality(Traffic(to_client, A))
           H == Count(chat_messages[c], {m})
           x == In(d, A)
<1>1. /\ TypeOK /\ TypeOK' /\ S!TypeOK /\ S!TypeOK'
      /\ Pending(c)' = Pending(c) /\ to_client' = to_client
      /\ to_server' = BagRemove(to_server, d) /\ IsABag(to_server)
      /\ chat_messages' = chat_messages /\ UNCHANGED <<main, greeted>>
  BY DEF CarnivalInv, S!IInv, TrafficInv, NetTypeOK, server_receives, clientVars,
         mainVars, sendVars, Pending
<1>2. P \in Nat /\ N \in Nat /\ T \in Nat /\ R \in Nat /\ H \in Nat
  BY <1>1, Terms
<1>3. Cardinality(Traffic(to_server', A)) = N - x
  BY <1>1, TrafficRemove DEF Counted
<1>4. Count(server_tx', A) = T + x
  BY <1>1, ServerReceivesIsNext, EchoCounts
<1>5. x \in {0, 1}
  BY DEF In
<1>6. /\ P = P + 0 - 0 /\ N - x = N + 0 - x /\ T + x = T + x - 0
      /\ R = R + 0 - 0 /\ H = H + 0
      /\ 0 + 0 + x + 0 + 0 >= 0 + x + 0 + 0 /\ 0 + 0 + x + 0 + 0 <= 0 + x + 0 + 0
  <2> HIDE DEF P, N, T, R, H, x
  <2> QED  BY SMTT(30), <1>2, <1>5
<1> HIDE DEF x
<1> QED  BY <1>1, <1>3, <1>4, <1>5, <1>6, BalanceOf

LEMMA ServerSendsConserves ==
  ASSUME CarnivalInv, CarnivalInv', Counted, Counted', ChatIsConserved,
         server_sends,
         NEW c \in Client, main'[c] # "closed", NEW m \in Message
  PROVE  Conserved(c, m)'
<1> DEFINE A == Chat(c, m)
           P == Count(Pending(c), Chat(server_endpoint, m))
           N == Cardinality(Traffic(to_server, A))
           T == Count(server_tx, A)
           R == Cardinality(Traffic(to_client, A))
           H == Count(chat_messages[c], {m})
           x == In(Head(server_tx), A)
<1>1. /\ TypeOK /\ TypeOK' /\ S!TypeOK /\ S!TypeOK'
      /\ Pending(c)' = Pending(c) /\ to_server' = to_server
      /\ to_client' = BagAdd(to_client, Head(server_tx)) /\ IsABag(to_client)
      /\ server_tx' = Tail(server_tx) /\ server_tx # <<>>
      /\ server_tx \in Seq(S!Reply)
      /\ chat_messages' = chat_messages /\ UNCHANGED <<main, greeted>>
  BY DEF CarnivalInv, S!IInv, S!TypeOK, TrafficInv, NetTypeOK, server_sends,
         Server!do_send, clientVars, mainVars, sendVars, Pending
<1>2. P \in Nat /\ N \in Nat /\ T \in Nat /\ R \in Nat /\ H \in Nat
  BY <1>1, Terms
<1>3. Cardinality(Traffic(to_client', A)) = R + x
  BY <1>1, TrafficAdd DEF Counted
<1>4. Count(server_tx', A) = T - x
  BY <1>1, CountTail
<1>5. x \in {0, 1}
  BY DEF In
<1>6. /\ P = P + 0 - 0 /\ N = N + 0 - 0 /\ T - x = T + 0 - x
      /\ R + x = R + x - 0 /\ H = H + 0
      /\ 0 + 0 + 0 + x + 0 >= 0 + 0 + x + 0 /\ 0 + 0 + 0 + x + 0 <= 0 + 0 + x + 0
  <2> HIDE DEF P, N, T, R, H, x
  <2> QED  BY SMTT(30), <1>2, <1>5
<1> HIDE DEF x
<1> QED  BY <1>1, <1>3, <1>4, <1>5, <1>6, BalanceOf

\* A client that runs puts a message that comes back into its chat.
LEMMA ClientReceivesConserves ==
  ASSUME CarnivalInv, CarnivalInv', Counted, Counted', ChatIsConserved,
         NEW d \in BagToSet(to_client), client_receives(d),
         NEW c \in Client, main'[c] # "closed", NEW m \in Message
  PROVE  Conserved(c, m)'
<1> DEFINE A == Chat(c, m)
           P == Count(Pending(c), Chat(server_endpoint, m))
           N == Cardinality(Traffic(to_server, A))
           T == Count(server_tx, A)
           R == Cardinality(Traffic(to_client, A))
           H == Count(chat_messages[c], {m})
           x == In(d, A)
<1>1. /\ TypeOK /\ TypeOK' /\ S!TypeOK /\ S!TypeOK'
      /\ Pending(c)' = Pending(c)
      /\ to_server' = to_server /\ server_tx' = server_tx
      /\ to_client' = BagRemove(to_client, d) /\ IsABag(to_client)
      /\ d \in Datagram /\ UNCHANGED <<main, greeted>>
  BY DEF CarnivalInv, S!IInv, TrafficInv, NetTypeOK, client_receives,
         on_packet_received, serverVars, clientVars, mainVars, sendVars, Pending
<1>2. P \in Nat /\ N \in Nat /\ T \in Nat /\ R \in Nat /\ H \in Nat
  BY <1>1, Terms
<1>3. Cardinality(Traffic(to_client', A)) = R - x
  BY <1>1, TrafficRemove DEF Counted
<1>4. x = IF d.type = "CHAT_MESSAGE" /\ d.endpoint = c /\ d.body = m THEN 1 ELSE 0
  BY <1>1, InChat DEF Datagram
<1>5. Count(chat_messages'[c], {m}) = H + x
  <2>1. CASE chat_messages'[c] = chat_messages[c] /\ x = 0
    <3> HIDE DEF x
    <3>1. H = H + x
      <4> HIDE DEF H
      <4> QED  BY <1>2, <2>1
    <3> QED  BY <2>1, <3>1
  <2>2. CASE d.endpoint # c
    BY <1>1, <1>4, <2>1, <2>2, DatagramFields
       DEF client_receives, on_packet_received, clientVars, TypeOK
  <2>3. CASE d.endpoint = c /\ d.type # "CHAT_MESSAGE"
    BY <1>1, <1>4, <2>1, <2>3
       DEF client_receives, on_packet_received, clientVars, TypeOK
  <2>4. CASE d.endpoint = c /\ d.type = "CHAT_MESSAGE"
    <3>1. on_packet_received(c, d)
      BY <1>1, <2>4 DEF client_receives
    <3>2. chat_messages'[c] = Append(chat_messages[c], d.body)
      BY <1>1, <2>4, <3>1 DEF on_packet_received, TypeOK
    <3>3. d.body \in Message /\ chat_messages[c] \in Seq(Message)
      BY <1>1, <2>4, DatagramFields DEF Body, TypeOK
    <3>4. Count(chat_messages'[c], {m}) = H + In(d.body, {m})
      BY <3>2, <3>3, CountAppend
    <3>5. In(d.body, {m}) = x
      <4> HIDE DEF x
      <4> QED  BY <1>4, <2>4 DEF In
    <3> QED  BY <3>4, <3>5
  <2> QED  BY <2>2, <2>3, <2>4
<1>6. x \in {0, 1}
  BY DEF In
<1>7. /\ P = P + 0 - 0 /\ N = N + 0 - 0 /\ T = T + 0 - 0
      /\ R - x = R + 0 - x
      /\ 0 + 0 + 0 + 0 + x >= 0 + 0 + 0 + x /\ 0 + 0 + 0 + 0 + x <= 0 + 0 + 0 + x
  <2> HIDE DEF P, N, T, R, H, x
  <2> QED  BY <1>2, <1>6
<1> HIDE DEF x
<1> QED  BY <1>1, <1>3, <1>5, <1>6, <1>7, BalanceOf

\* The network loses or repeats a datagram, if it does such a thing.
LEMMA NetworkConserves ==
  ASSUME CarnivalInv, CarnivalInv', Counted, Counted', ChatIsConserved,
         network_loses \/ network_repeats,
         NEW c \in Client, main'[c] # "closed", NEW m \in Message
  PROVE  Conserved(c, m)'
<1> DEFINE A == Chat(c, m)
           P == Count(Pending(c), Chat(server_endpoint, m))
           N == Cardinality(Traffic(to_server, A))
           T == Count(server_tx, A)
           R == Cardinality(Traffic(to_client, A))
           H == Count(chat_messages[c], {m})
           s == Cardinality(Traffic(to_server', A)) - N
           r == Cardinality(Traffic(to_client', A)) - R
<1>1. /\ TypeOK /\ TypeOK' /\ S!TypeOK /\ S!TypeOK'
      /\ Pending(c)' = Pending(c) /\ server_tx' = server_tx
      /\ IsABag(to_client) /\ IsABag(to_server)
      /\ chat_messages' = chat_messages /\ UNCHANGED <<main, greeted>>
  BY DEF CarnivalInv, S!IInv, TrafficInv, NetTypeOK, network_loses,
         network_repeats, serverVars, clientVars, mainVars, sendVars, Pending
<1>2. /\ P \in Nat /\ N \in Nat /\ T \in Nat /\ R \in Nat /\ H \in Nat
      /\ Said(c, m) \in Nat
  BY <1>1, Terms
<1>3. /\ Cardinality(Traffic(to_server', A)) \in Nat
      /\ Cardinality(Traffic(to_client', A)) \in Nat
  BY <1>1, TermsNext
<1>4. IsFiniteSet(Traffic(to_server, A)) /\ IsFiniteSet(Traffic(to_client, A))
  BY DEF Counted
<1>5. \/ "lose" \in Network /\ s <= 0 /\ r <= 0
      \/ "repeat" \in Network /\ s >= 0 /\ r >= 0
  <2>1. CASE network_loses
    <3>1. /\ "lose" \in Network
          /\ to_server' = to_server \/
               \E d \in BagToSet(to_server) : to_server' = BagRemove(to_server, d)
          /\ to_client' = to_client \/
               \E d \in BagToSet(to_client) : to_client' = BagRemove(to_client, d)
      BY <2>1 DEF network_loses
    <3>2. Cardinality(Traffic(to_server', A)) <= N
      <4>1. ASSUME NEW d \in BagToSet(to_server), to_server' = BagRemove(to_server, d)
            PROVE  Cardinality(Traffic(to_server', A)) = N - In(d, A)
        BY <1>1, <1>4, <4>1, TrafficRemove
      <4>2. \A d : In(d, A) \in {0, 1}
        BY DEF In
      <4> HIDE DEF A
      <4> QED  BY <1>2, <1>3, <3>1, <4>1, <4>2
    <3>3. Cardinality(Traffic(to_client', A)) <= R
      <4>1. ASSUME NEW d \in BagToSet(to_client), to_client' = BagRemove(to_client, d)
            PROVE  Cardinality(Traffic(to_client', A)) = R - In(d, A)
        BY <1>1, <1>4, <4>1, TrafficRemove
      <4>2. \A d : In(d, A) \in {0, 1}
        BY DEF In
      <4> HIDE DEF A
      <4> QED  BY <1>2, <1>3, <3>1, <4>1, <4>2
    <3> HIDE DEF N, R, A
    <3> QED  BY <1>2, <1>3, <3>1, <3>2, <3>3
  <2>2. CASE network_repeats
    <3>1. /\ "repeat" \in Network
          /\ to_server' = to_server \/ \E d : to_server' = BagAdd(to_server, d)
          /\ to_client' = to_client \/ \E d : to_client' = BagAdd(to_client, d)
      BY <2>2 DEF network_repeats
    <3>2. Cardinality(Traffic(to_server', A)) >= N
      <4>1. ASSUME NEW d, to_server' = BagAdd(to_server, d)
            PROVE  Cardinality(Traffic(to_server', A)) = N + In(d, A)
        BY <1>1, <1>4, <4>1, TrafficAdd
      <4>2. \A d : In(d, A) \in {0, 1}
        BY DEF In
      <4> HIDE DEF A
      <4> QED  BY <1>2, <1>3, <3>1, <4>1, <4>2
    <3>3. Cardinality(Traffic(to_client', A)) >= R
      <4>1. ASSUME NEW d, to_client' = BagAdd(to_client, d)
            PROVE  Cardinality(Traffic(to_client', A)) = R + In(d, A)
        BY <1>1, <1>4, <4>1, TrafficAdd
      <4>2. \A d : In(d, A) \in {0, 1}
        BY DEF In
      <4> HIDE DEF A
      <4> QED  BY <1>2, <1>3, <3>1, <4>1, <4>2
    <3> HIDE DEF N, R, A
    <3> QED  BY <1>2, <1>3, <3>1, <3>2, <3>3
  <2> QED  BY <2>1, <2>2
<1>6. /\ s \in Int /\ r \in Int
      /\ Cardinality(Traffic(to_server', A)) = N + s
      /\ Cardinality(Traffic(to_client', A)) = R + r
  <2> DEFINE N1 == Cardinality(Traffic(to_server', A))
             R1 == Cardinality(Traffic(to_client', A))
  <2> HIDE DEF N, R, N1, R1
  <2> QED  BY <1>2, <1>3 DEF N1, R1
<1> HIDE DEF s, r
<1>7. Conserved(c, m)
  BY <1>1 DEF ChatIsConserved, Conserved
<1>8. Said(c, m)' - Said(c, m) = 0
  <2>1. Said(c, m)' = Said(c, m)
    BY <1>1 DEF Said
  <2> QED  BY <1>2, <2>1
<1>9. /\ "lose" \notin Network => 0 + s + 0 + r + 0 >= 0
      /\ "repeat" \notin Network => 0 + s + 0 + r + 0 <= 0
  <2>1. ASSUME "lose" \notin Network
        PROVE  0 + s + 0 + r + 0 >= 0
    BY <1>5, <1>6, <2>1
  <2>2. ASSUME "repeat" \notin Network
        PROVE  0 + s + 0 + r + 0 <= 0
    BY <1>5, <1>6, <2>2
  <2> QED  BY <2>1, <2>2
<1>10. /\ "lose" \notin Network =>
            0 + s + 0 + r + 0 >= Said(c, m)' - Said(c, m)
       /\ "repeat" \notin Network /\ ~Restarting =>
            0 + s + 0 + r + 0 <= Said(c, m)' - Said(c, m)
  BY <1>8, <1>9
<1>11. /\ Count(Pending(c)', Chat(server_endpoint, m)) =
            Count(Pending(c), Chat(server_endpoint, m)) + 0
       /\ Count(server_tx', Chat(c, m)) = Count(server_tx, Chat(c, m)) + 0
       /\ Count(chat_messages'[c], {m}) = Count(chat_messages[c], {m}) + 0
  <2>1. /\ Pending(c)' = Pending(c)
        /\ server_tx' = server_tx /\ chat_messages' = chat_messages
    BY <1>1 DEF Pending
  <2>2. P = P + 0 /\ T = T + 0 /\ H = H + 0
    <3> HIDE DEF P, T, H
    <3> QED  BY <1>2
  <2> QED  BY <2>1, <2>2
<1>12. 0 \in Int
  OBVIOUS
<1> QED  BY <1>1, <1>6, <1>7, <1>10, <1>11, <1>12, Balance

LEMMA NextConserves ==
  CarnivalInv /\ Counted /\ ChatIsConserved /\ [CarnivalNext]_carnivalVars
    => ChatIsConserved'
<1> SUFFICES ASSUME CarnivalInv, Counted, ChatIsConserved,
                    [CarnivalNext]_carnivalVars,
                    NEW c \in Client, main'[c] # "closed", NEW m \in Message
             PROVE  Conserved(c, m)'
  BY DEF ChatIsConserved, Conserved
<1>1. CarnivalInv' /\ Counted'
  BY NextCarnivalInv, StepCounts
<1>2. CASE UNCHANGED carnivalVars
  <2>1. /\ main' = main /\ Pending(c)' = Pending(c) /\ greeted' = greeted
        /\ chat_messages' = chat_messages /\ server_tx' = server_tx
        /\ to_server' = to_server /\ to_client' = to_client
    BY <1>2 DEF carnivalVars, clientVars, mainVars, sendVars, serverVars,
                networkVars, Pending
  <2> QED  BY <2>1 DEF ChatIsConserved, Conserved, Copies, Said
<1> QED  BY <1>1, <1>2, ClientStepConserves, ClientSendsConserves,
            ServerReceivesConserves, ServerSendsConserves,
            ClientReceivesConserves, NetworkConserves
            DEF CarnivalNext, Terminating

LEMMA InitConserves == CarnivalInit => Counted /\ ChatIsConserved
<1> SUFFICES ASSUME CarnivalInit, NEW c \in Client, NEW m \in Message
             PROVE  /\ IsFiniteSet(Traffic(to_server, Chat(c, m)))
                    /\ IsFiniteSet(Traffic(to_client, Chat(c, m)))
                    /\ Copies(c, m) = 0 /\ Said(c, m) = 0
  BY DEF Counted, ChatIsConserved
<1>1. /\ Pending(c) = <<>> /\ chat_messages[c] = <<>> /\ greeted[c] = 0
      /\ server_tx = <<>> /\ BagToSet(to_server) = {} /\ BagToSet(to_client) = {}
  <2>1. TypeOK
    BY InitTypes DEF CarnivalInit
  <2> QED  BY <2>1, PendingForms, EmptyBagProperties
              DEF CarnivalInit, Init, Server!Init
<1>2. /\ Traffic(to_server, Chat(c, m)) = {} /\ Traffic(to_client, Chat(c, m)) = {}
      /\ {i \in 1 .. greeted[c] : Greetings[c][i] = m} = {}
  BY <1>1 DEF Traffic
<1>3. \A A : Count(<<>>, A) = 0
  BY CountFew
<1> QED  BY <1>1, <1>2, <1>3, NoneCounted DEF Copies, Said

-----------------------------------------------------------------------------
(* The theorems *)

\* Everything in the program keeps its type: what the clients hold, what the
\* server holds, and the datagrams between them.
THEOREM CarnivalTypeCorrect == CarnivalSpec => []CarnivalTypeOK
<1>1. CarnivalInv => CarnivalTypeOK
  BY SameTypes DEF CarnivalInv, S!IInv, TrafficInv, CarnivalTypeOK
<1> QED  BY <1>1, CarnivalInvariance, PTL

\* The server knows of no place a client has not told it, however the network
\* mixes what the clients have said.
THEOREM PlacesWereAnnounced == CarnivalSpec => []PositionsWereAnnounced
<1>1. CarnivalInv => PositionsWereAnnounced
  BY DEF CarnivalInv
<1> QED  BY <1>1, CarnivalInvariance, PTL

\* A client that has stamped the ident of its login stamps no other after it.
THEOREM IdentsRise == CarnivalSpec => []IdentsNeverGoBack
<1>1. CarnivalInv => IdentsNeverGoBack
  BY DEF CarnivalInv, Marked, Rising, IdentsNeverGoBack
<1> QED  BY <1>1, CarnivalInvariance, PTL

\* What GameClientProofs shows of a client whose server may say anything holds of
\* the clients in the program.
THEOREM ClientsStaySound ==
  CarnivalSpec => [](UpdatesAreAWalk /\ OneMovePerTick /\ LoginGoesFirst)
<1>1. ClientInv => UpdatesAreAWalk /\ OneMovePerTick /\ LoginGoesFirst
  BY DEF ClientInv, Sound, Good, Walk, Parted, Ordered,
         UpdatesAreAWalk, OneMovePerTick, LoginGoesFirst
<1>2. CarnivalInv => UpdatesAreAWalk /\ OneMovePerTick /\ LoginGoesFirst
  BY <1>1 DEF CarnivalInv
<1> QED  BY <1>2, CarnivalInvariance, PTL

\* The programs lose no message and repeat none, and give none to another client:
\* what a client has said is on its way to its own chat or there, for every
\* network that does not lose messages itself, and once only, for every network
\* that does not repeat them.
THEOREM MessagesAreConserved == CarnivalSpec => []ChatIsConserved
<1>1. CarnivalInit => CarnivalInv /\ Counted /\ ChatIsConserved
  BY InitCarnivalInv, InitConserves
<1>2. CarnivalInv /\ Counted /\ ChatIsConserved /\ [CarnivalNext]_carnivalVars
        => (CarnivalInv /\ Counted /\ ChatIsConserved)'
  BY NextCarnivalInv, StepCounts, NextConserves
<1> QED  BY <1>1, <1>2, PTL DEF CarnivalSpec
=============================================================================
