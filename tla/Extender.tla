------------------------------ MODULE Extender ------------------------------
(***************************************************************************)
(* The ESP-NOW extender (nodes/extender/src/main.cpp): it relays frames    *)
(* between clients that the gateway cannot hear and the gateway, routes    *)
(* answers by a cache of sequence numbers, and gives its gateway up when   *)
(* it hears nothing.                                                       *)
(*                                                                         *)
(* espnow_recv_cb runs in the radio callback and only queues what is to be *)
(* sent; loop() sends it, checks the gateway and looks for one.  Clients,  *)
(* the gateway and the air are the environment: frames are lost, repeated  *)
(* and late.  The forward queue is the ring of module BridgeRing, here a   *)
(* sequence.                                                               *)
(*                                                                         *)
(* Time is counted in ticks and only as the time since the last contact.   *)
(***************************************************************************)
EXTENDS Integers, Sequences, FiniteSets

CONSTANTS
  Clients,    \* the nodes behind the extender
  None,       \* no client
  SeqsOf,     \* the sequence numbers each client uses
  Kinds,      \* what clients send, of AllKinds
  Commands,   \* TRUE: the gateway sends commands
  CacheSize,  \* SEQ_CACHE_SIZE
  QueueCap,   \* FWD_QUEUE_SIZE - 1
  MaxPeers,   \* MAX_PEERS
  Timeout     \* GATEWAY_TIMEOUT_MS, in ticks

AllKinds == {"data", "pair", "bare"}
Cells == 0 .. CacheSize - 1
Seqs  == {0} \cup (UNION {SeqsOf[c] : c \in Clients})
All   == "all clients"
Up    == "gateway"

(* A frame of the queue: whom it is for and where it is sent. *)
Frames == [for : Clients \cup {Up}, to : Clients \cup {Up, All}]

ASSUME ExtenderAssumption ==
  /\ {None, Up, All} \cap Clients = {}
  /\ SeqsOf \in [Clients -> SUBSET Nat]
  /\ Kinds \subseteq AllKinds /\ Commands \in BOOLEAN
  /\ CacheSize \in Nat \ {0} /\ QueueCap \in Nat \ {0}
  /\ MaxPeers \in Nat /\ Timeout \in Nat

VARIABLES
  configured,  \* s_gateway_configured
  heard,       \* s_last_gateway_comm > 0
  silence,     \* millis() - s_last_gateway_comm, up to Timeout + 1
  peers,       \* s_client_peers: may hold the gateway, see Mistaken
  cache,       \* s_seq_cache
  next,        \* s_cache_idx, modulo CacheSize
  queue,       \* s_fwd_queue: what is sent, for whom it is, where it goes
  asked,       \* what the clients have sent: client and sequence number
  owed,        \* history: relayed frames of each client with each number,
               \* less what was sent to it alone under that number
  alive,       \* the gateway is on
  searching    \* GW_DISCOVER is on the air

vars == <<configured, heard, silence, peers, cache, next, queue, asked, owed,
          alive, searching>>

NothingOwed == [q \in Clients \X Seqs |-> 0]

Init ==
  /\ configured = FALSE /\ heard = FALSE
  /\ silence = 0
  /\ peers = {}
  /\ cache = [i \in Cells |-> [seq |-> 0, mac |-> None]]
  /\ next = 0
  /\ queue = <<>>
  /\ asked = {}
  /\ owed = NothingOwed
  /\ alive \in BOOLEAN
  /\ searching = FALSE

Later(t) == IF t > Timeout THEN t ELSE t + 1

(* A mistake in learn_client: one place of the table is never used. *)
LearnShort(c) ==
  peers' = IF Cardinality(peers) < MaxPeers - 1 THEN peers \cup {c} ELSE peers

(* learn_client *)
Learn(c) ==
  peers' = IF Cardinality(peers) < MaxPeers THEN peers \cup {c} ELSE peers

(* A mistake in fwd_push: the last cell is used, too. *)
PushOneMore(e) ==
  queue' = IF Len(queue) <= QueueCap THEN Append(queue, e) ELSE queue

(* fwd_push: a frame that finds the queue full is dropped. *)
Push(e) == queue' = IF Len(queue) < QueueCap THEN Append(queue, e) ELSE queue

(* The entry lookup_sequence finds: the newest with that number that was   *)
(* not consumed.                                                           *)
Match(i, seq) == cache[i].mac # None /\ cache[i].seq = seq
Older(i) == (next - 1 - i + CacheSize) % CacheSize
Found(i, seq) ==
  /\ Match(i, seq)
  /\ \A j \in Cells : Match(j, seq) => Older(i) <= Older(j)

-----------------------------------------------------------------------------
(* espnow_recv_cb *)

(* MSG_PAIR_REQUEST without a gateway to pass it on to: answered with a    *)
(* NAK and not relayed.                                                    *)
Refusing == ~configured \/ silence > Timeout

RefusePairing(c) ==
  /\ "pair" \in Kinds
  /\ Refusing
  /\ Learn(c)
  /\ UNCHANGED <<configured, heard, silence, cache, next, queue, asked, owed,
                 alive, searching>>

(* Any other frame of a client.  Of a bare frame (GW_DISCOVER, COMMAND,    *)
(* REPEATER_STATUS, NAK) the number is not read: it counts as 0.           *)
FromClient(c, kind, n) ==
  LET seq == IF kind = "bare" THEN 0 ELSE n
  IN  /\ kind \in Kinds
      /\ kind = "pair" => ~Refusing
      /\ Learn(c)
      /\ IF configured
           THEN /\ cache' = [cache EXCEPT ![next] = [seq |-> seq, mac |-> c]]
                /\ next' = IF next + 1 = CacheSize THEN 0 ELSE next + 1
                /\ silence' = 0 /\ heard' = TRUE
                /\ Push([for |-> Up, to |-> Up])
                /\ asked' = IF kind = "bare" THEN asked
                                                ELSE asked \cup {<<c, seq>>}
                /\ owed' = [owed EXCEPT ![<<c, seq>>] =
                              IF @ < CacheSize THEN @ + 1 ELSE @]
           ELSE UNCHANGED <<cache, next, silence, heard, queue, asked, owed>>
      /\ UNCHANGED <<configured, alive, searching>>

(* What a frame of the gateway for client c does to the queue and to the   *)
(* cache: routed to the client the cache names, whose entry is consumed,   *)
(* or to all clients.  Before it, a mistake: the entry stays.              *)
RouteAgain(c, seq) ==
  \/ \E i \in Cells :
       /\ Found(i, seq)
       /\ Push([for |-> c, to |-> cache[i].mac])
       /\ UNCHANGED cache
       /\ owed' = [owed EXCEPT ![<<cache[i].mac, seq>>] = @ - 1]
  \/ /\ \A i \in Cells : ~Match(i, seq)
     /\ IF peers # {} THEN Push([for |-> c, to |-> All])
                      ELSE UNCHANGED queue
     /\ UNCHANGED <<cache, owed>>

Route(c, seq) ==
  \/ \E i \in Cells :
       /\ Found(i, seq)
       /\ Push([for |-> c, to |-> cache[i].mac])
       /\ cache' = [cache EXCEPT ![i].mac = None]
       /\ owed' = [owed EXCEPT ![<<cache[i].mac, seq>>] = @ - 1]
  \/ /\ \A i \in Cells : ~Match(i, seq)
     /\ IF peers # {} THEN Push([for |-> c, to |-> All])
                      ELSE UNCHANGED queue
     /\ UNCHANGED <<cache, owed>>

FromGateway(c, seq) ==
  /\ alive /\ configured
  /\ silence' = 0 /\ heard' = TRUE
  /\ Route(c, seq)
  /\ UNCHANGED <<configured, peers, next, asked, alive, searching>>

(* A frame of the gateway while none is configured: the sender is taken    *)
(* for a client.                                                           *)
Mistaken ==
  /\ alive /\ ~configured
  /\ Learn(Up)
  /\ UNCHANGED <<configured, heard, silence, cache, next, queue, asked, owed,
                 alive, searching>>

(* MSG_GW_ANNOUNCE: the gateway is adopted. *)
FromGatewayAnnounce ==
  /\ alive /\ searching
  /\ configured' = TRUE
  /\ searching' = FALSE
  /\ UNCHANGED <<heard, silence, peers, cache, next, queue, asked, owed,
                 alive>>

-----------------------------------------------------------------------------
(* loop() *)

(* process_forward_queue, one frame. *)
Forward ==
  /\ queue # <<>>
  /\ queue' = Tail(queue)
  /\ UNCHANGED <<configured, heard, silence, peers, cache, next, asked, owed,
                 alive, searching>>

(* A mistake in the check: the flag is read the wrong way round. *)
LostOfNone == ~configured /\ heard /\ silence > Timeout

(* The check for a lost gateway: the clients are told and it is forgotten. *)
Lost == configured /\ heard /\ silence > Timeout

GiveUpGateway ==
  /\ Lost
  /\ configured' = FALSE
  /\ UNCHANGED <<heard, silence, peers, cache, next, queue, asked, owed, alive,
                 searching>>

Discover ==
  /\ ~configured /\ ~searching
  /\ searching' = TRUE
  /\ UNCHANGED <<configured, heard, silence, peers, cache, next, queue, asked,
                 owed, alive>>

(* The GW_DISCOVER is lost; the loop sends another one. *)
Miss ==
  /\ searching
  /\ searching' = FALSE
  /\ UNCHANGED <<configured, heard, silence, peers, cache, next, queue, asked,
                 owed, alive>>

-----------------------------------------------------------------------------
(* A restart: the gateway is kept in the EEPROM, the rest starts anew. *)
Reboot ==
  /\ heard' = FALSE /\ silence' = 0
  /\ peers' = {} /\ queue' = <<>> /\ next' = 0
  /\ cache' = [i \in Cells |-> [seq |-> 0, mac |-> None]]
  /\ searching' = FALSE
  /\ owed' = NothingOwed
  /\ UNCHANGED <<configured, asked, alive>>

GatewayTurns ==
  /\ alive' = ~alive
  /\ UNCHANGED <<configured, heard, silence, peers, cache, next, queue, asked,
                 owed, searching>>

Tick ==
  /\ silence' = Later(silence)
  /\ UNCHANGED <<configured, heard, peers, cache, next, queue, asked, owed,
                 alive, searching>>

Answer ==
  \/ \E c \in Clients, n \in Seqs : <<c, n>> \in asked /\ FromGateway(c, n)
  \/ Commands /\ \E c \in Clients : FromGateway(c, 0)

Next ==
  \/ \E c \in Clients : RefusePairing(c)
  \/ \E c \in Clients, kind \in Kinds :
       \E n \in SeqsOf[c] : FromClient(c, kind, n)
  \/ Answer
  \/ Mistaken
  \/ FromGatewayAnnounce
  \/ Forward
  \/ GiveUpGateway
  \/ Discover
  \/ Miss
  \/ Reboot
  \/ GatewayTurns
  \/ Tick

Spec == Init /\ [][Next]_vars

(* Time passes and the loop comes back to its check.                       *)
FairSpec == Spec /\ WF_vars(Tick) /\ WF_vars(GiveUpGateway)

-----------------------------------------------------------------------------
TypeOK ==
  /\ configured \in BOOLEAN /\ heard \in BOOLEAN
  /\ silence \in 0 .. Timeout + 1
  /\ peers \subseteq Clients \cup {Up} /\ Cardinality(peers) <= MaxPeers
  /\ cache \in [Cells -> [seq : Seqs, mac : Clients \cup {None}]]
  /\ next \in Cells
  /\ queue \in Seq(Frames)
  /\ Len(queue) <= QueueCap
  /\ asked \subseteq Clients \X Seqs
  /\ owed \in [Clients \X Seqs -> Int]
  /\ alive \in BOOLEAN /\ searching \in BOOLEAN

(* What the gateway sends to a client goes to that client or to all, never *)
(* to another client alone (SPEC.md of the extender: the cache "is used to *)
(* route answers of the gateway to the right client").  It does not hold   *)
(* of clients that use the same numbers, and every node counts from 0.     *)
RightClient ==
  \A k \in 1 .. Len(queue) :
    queue[k].for \in Clients => queue[k].to \in {queue[k].for, All}

(* What holds of all clients: none is sent more under a number than it has *)
(* sent itself since the extender started, whoever else uses that number   *)
(* and however late or often the gateway answers.  An answer that goes     *)
(* astray takes the place of one (lookup_sequence consumes what it finds). *)
AnsweredOnce == \A q \in Clients \X Seqs : owed[q] >= 0

(* What goes to one client goes to one that learn_client has made a peer   *)
(* of the radio, which sends to no other: also after a restart and when    *)
(* answers are late.  Only a client that came when the table was full is   *)
(* left out.                                                               *)
UnicastToPeer ==
  \A k \in 1 .. Len(queue) :
    queue[k].to \in Clients =>
      queue[k].to \in peers \/ Cardinality(peers) = MaxPeers

(* A gateway that was heard since the extender started is given up once    *)
(* nobody is heard any more (comment above the check: "if no communication *)
(* for 60s, notify clients [...] and clear config").  Frames of clients    *)
(* count as communication, too.                                            *)
LossNoticed ==
  <>[][silence' >= silence]_silence => []<>(~configured \/ ~heard)
=============================================================================
