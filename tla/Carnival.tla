------------------------------ MODULE Carnival ------------------------------
(***************************************************************************)
(* The whole program: clients (GameClient.tla) and the server (Server.tla) *)
(* joined by UDP.  The network is a bag of datagrams, for it may deliver   *)
(* them in any order; it may also lose and repeat them.  A server is       *)
(* reached under its own endpoint and sees the endpoint a datagram comes   *)
(* from; a reply goes to the endpoint it carries.                          *)
(*                                                                         *)
(* Bounds: NetBound is how many datagrams travel in each direction;        *)
(* Network is what the network may do besides delivering in any order;     *)
(* Restarting says whether a client that was closed is started again.      *)
(***************************************************************************)
EXTENDS GameClient, Bags, BagsExt, Counting

CONSTANTS
  LoginIdent, ZeroPosition, NoCharacter,   \* of the server
  NetBound,
  Network,        \* a subset of {"lose", "repeat"}
  Restarting

ASSUME CarnivalAssumption ==
  /\ LoginIdent \in Ident \ {0}
  /\ NoCharacter \notin [name : Name, pos : Position \cup {ZeroPosition}]
  /\ NetBound \in Nat
  /\ Network \subseteq {"lose", "repeat"}
  /\ Restarting \in BOOLEAN

VARIABLES
  m_sessions, server_tx, users,  \* of the server
  to_server, to_client,          \* datagrams on their way
  announced                      \* history: the positions each client has sent

Server == INSTANCE Server WITH m_tx_deque <- server_tx

serverVars   == <<m_sessions, server_tx, users>>
networkVars  == <<to_server, to_client, announced>>
carnivalVars == <<clientVars, serverVars, networkVars>>

Datagram == PacketsOf(Client)

NetTypeOK ==
  /\ IsABag(to_server) /\ BagToSet(to_server) \subseteq Datagram
  /\ IsABag(to_client) /\ BagToSet(to_client) \subseteq Datagram
  /\ announced \in [Client -> SUBSET Position]

CarnivalTypeOK == TypeOK /\ Server!TypeOK /\ NetTypeOK

CarnivalInit ==
  /\ Init
  /\ Server!Init
  /\ to_server = EmptyBag
  /\ to_client = EmptyBag
  /\ announced = [c \in Client |-> {}]

-----------------------------------------------------------------------------
\* A client's do_send: the kernel puts in the endpoint the client is bound to.
client_sends(c) ==
  /\ BagCardinality(to_server) < NetBound
  /\ do_send(c)
  /\ LET sent == Head(m_tx_deque[c])
     IN  /\ to_server' = BagAdd(to_server, [sent EXCEPT !.endpoint = c])
         /\ announced' = IF sent.type = "POSITION_UPDATE"
                         THEN [announced EXCEPT ![c] = @ \cup {sent.body}]
                         ELSE announced
  /\ UNCHANGED <<serverVars, to_client>>

server_receives(datagram) ==
  /\ Len(server_tx) < TxBound
  /\ Server!on_packet_received(datagram)
  /\ to_server' = BagRemove(to_server, datagram)
  /\ UNCHANGED <<clientVars, to_client, announced>>

server_sends ==
  /\ BagCardinality(to_client) < NetBound
  /\ Server!do_send
  /\ to_client' = BagAdd(to_client, Head(server_tx))
  /\ UNCHANGED <<clientVars, to_server, announced>>

\* A datagram that finds no client is refused.
client_receives(datagram) ==
  /\ \/ on_packet_received(datagram.endpoint, datagram)
     \/ main[datagram.endpoint] = "closed" /\ UNCHANGED clientVars
  /\ to_client' = BagRemove(to_client, datagram)
  /\ UNCHANGED <<serverVars, to_server, announced>>

network_loses ==
  /\ "lose" \in Network
  /\ \/ \E d \in BagToSet(to_server) :
          to_server' = BagRemove(to_server, d) /\ UNCHANGED to_client
     \/ \E d \in BagToSet(to_client) :
          to_client' = BagRemove(to_client, d) /\ UNCHANGED to_server
  /\ UNCHANGED <<clientVars, serverVars, announced>>

network_repeats ==
  /\ "repeat" \in Network
  /\ \/ /\ BagCardinality(to_server) < NetBound
        /\ \E d \in BagToSet(to_server) : to_server' = BagAdd(to_server, d)
        /\ UNCHANGED to_client
     \/ /\ BagCardinality(to_client) < NetBound
        /\ \E d \in BagToSet(to_client) : to_client' = BagAdd(to_client, d)
        /\ UNCHANGED to_server
  /\ UNCHANGED <<clientVars, serverVars, announced>>

-----------------------------------------------------------------------------
ClientStep(c) ==
  /\ Main(c) \/ (Restarting /\ main_start(c))
  /\ UNCHANGED <<serverVars, networkVars>>

\* All clients are closed and all datagrams have arrived.
Terminating ==
  /\ ~Restarting
  /\ \A c \in Client : main[c] = "closed"
  /\ to_server = EmptyBag /\ to_client = EmptyBag /\ server_tx = <<>>
  /\ UNCHANGED carnivalVars

CarnivalNext ==
  \/ \E c \in Client : ClientStep(c) \/ client_sends(c)
  \/ \E d \in BagToSet(to_server) : server_receives(d)
  \/ server_sends
  \/ \E d \in BagToSet(to_client) : client_receives(d)
  \/ network_loses
  \/ network_repeats
  \/ Terminating

CarnivalSpec == CarnivalInit /\ [][CarnivalNext]_carnivalVars

\* The promise of a network that loses nothing: a datagram of these types that
\* keeps being deliverable is delivered.
Delivers(types) ==
  /\ SF_carnivalVars(\E d \in BagToSet(to_server) :
                       d.type \in types /\ server_receives(d))
  /\ SF_carnivalVars(\E d \in BagToSet(to_client) :
                       d.type \in types /\ client_receives(d))

\* What a client sends a few times only, and not with every tick.
Rare == {"LOGIN_REQUEST", "LOGIN_REPLY", "CHAT_MESSAGE"}

\* Login and chat do not wait for ever behind the stream of heartbeats, nor that
\* behind them.  Threads are scheduled.
CarnivalFairness ==
  /\ \A c \in Client : /\ WF_carnivalVars(ClientStep(c))
                       /\ WF_carnivalVars(client_sends(c))
  /\ WF_carnivalVars(server_sends)
  /\ Delivers(Rare)
  /\ Delivers(PACKET_TYPE \ Rare)

FairCarnivalSpec == CarnivalSpec /\ CarnivalFairness

-----------------------------------------------------------------------------
(* Properties *)

\* Where the server thinks a character stands is where a client that uses the
\* session has said it stood, bit for bit, or the position of a new character;
\* whatever was lost, repeated or overtaken on the way.
PositionsWereAnnounced ==
  \A k \in DOMAIN m_sessions :
    LET known == m_sessions[k].character
    IN  known # NoCharacter =>
          \/ known.pos = ZeroPosition
          \/ \E user \in users[k] : known.pos \in announced[user.endpoint]

\* The packets of client c that send() has put its mark on, oldest first.
Stamped(c) ==
  m_tx_deque[c] \o (IF call[c] = "enqueue" THEN <<packet[c]>> ELSE <<>>)

\* Once a client stamps the ident of its login it never sends an older one after
\* it, although send() reads ident twice while the packet thread writes it, and
\* although replies are repeated and come from earlier runs of the program.
IdentsNeverGoBack ==
  \A c \in Client :
    LET stamped == Stamped(c)
    IN  \A i \in DOMAIN stamped : stamped[i].ident = LoginIdent =>
          /\ ident[c] = LoginIdent
          /\ \A j \in i .. Len(stamped) : stamped[j].ident = LoginIdent

\* A packet that carries chat message m, from or to this endpoint.
Chat(endpoint, m) ==
  [type : {"CHAT_MESSAGE"}, ident : Ident, endpoint : {endpoint}, body : {m}]

\* The datagrams of S that are on their way, each as often as it is.
Traffic(bag, S) == UNION {{d} \X (1 .. bag[d]) : d \in S \cap BagToSet(bag)}

\* How often client c's message m is somewhere between c's main() and c's chat,
\* and how often c has said it.
Copies(c, m) ==
  Count(Pending(c), Chat(server_endpoint, m))
    + Cardinality(Traffic(to_server, Chat(c, m)))
    + Count(server_tx, Chat(c, m))
    + Cardinality(Traffic(to_client, Chat(c, m)))
    + Count(chat_messages[c], {m})

Said(c, m) == Cardinality({i \in 1 .. greeted[c] : Greetings[c][i] = m})

\* The programs neither lose nor repeat a message: on a network that does not
\* lose any, everything a client has said is still on its way through the server
\* back to its author's chat, or there; on one that does not repeat any, and as
\* long as nothing is left of an earlier run, it is so once only, and no client
\* sees what another one said.
ChatIsConserved ==
  \A c \in Client : main[c] # "closed" => \A m \in Message :
    /\ "lose" \notin Network => Copies(c, m) >= Said(c, m)
    /\ "repeat" \notin Network /\ ~Restarting => Copies(c, m) <= Said(c, m)

\* On a network that loses nothing, a client that has asked to log in is given
\* its ident, unless the player leaves first.
LoginCompletes ==
  \A c \in Client :
    main[c] = "login" ~> ident[c] = LoginIdent \/ main[c] = "closed"

\* On such a network everything a client has said comes back to its chat, unless
\* the player leaves first.
ChatComesBack ==
  \A c \in Client : \A i \in DOMAIN Greetings[c] :
    greeted[c] >= i ~>
      Greetings[c][i] \in ToSet(chat_messages[c]) \/ main[c] = "closed"

\* What server.h:57 and main.cpp:174 of the client say the ident is for: to find
\* the session.  Once the server has a client's character, a position update
\* with the ident its login was answered with finds that character.
IdentFindsSession ==
  \A d \in BagToSet(to_server) :
    /\ d.type = "POSITION_UPDATE" /\ d.ident = LoginIdent
    /\ \E k \in DOMAIN m_sessions :
         /\ m_sessions[k].character # NoCharacter
         /\ \E user \in users[k] : user.endpoint = d.endpoint
    => LET key == get_full_client_ident(d)
       IN  key \in DOMAIN m_sessions /\ m_sessions[key].character # NoCharacter
=============================================================================
