--------------------------- MODULE Extender_proofs ---------------------------
(***************************************************************************)
(* What holds of the extender for every number of clients, cells and       *)
(* places, every set of sequence numbers and every time limit.             *)
(***************************************************************************)
EXTENDS Extender, FiniteSetTheorems, SequenceTheorems, TLAPS

USE ExtenderAssumption

(* learn_client keeps who is known, stays within the table, and makes the  *)
(* client known unless the table is full.                                  *)
LEMMA Learned ==
  ASSUME NEW c \in Clients \cup {Up}, TypeOK, IsFiniteSet(peers), Learn(c)
  PROVE  /\ peers' \subseteq Clients \cup {Up}
         /\ IsFiniteSet(peers') /\ Cardinality(peers') <= MaxPeers
         /\ peers \subseteq peers'
         /\ Cardinality(peers) = MaxPeers => Cardinality(peers') = MaxPeers
         /\ c \in peers' \/ Cardinality(peers') = MaxPeers
<1>1. peers \subseteq Clients \cup {Up} /\ Cardinality(peers) <= MaxPeers
  BY DEF TypeOK
<1>a. Cardinality(peers) \in Nat
  BY FS_CardinalityType
<1>2. CASE Cardinality(peers) < MaxPeers
  <2>1. peers' = peers \cup {c}
    BY <1>2 DEF Learn
  <2>2. /\ IsFiniteSet(peers')
        /\ \/ Cardinality(peers') = Cardinality(peers)
           \/ Cardinality(peers') = Cardinality(peers) + 1
    BY <2>1, FS_AddElement
  <2>3. /\ Cardinality(peers') <= MaxPeers
        /\ Cardinality(peers) # MaxPeers
    BY <1>a, <1>2, <2>2
  <2>4. /\ peers' \subseteq Clients \cup {Up} /\ peers \subseteq peers'
        /\ c \in peers'
    BY <1>1, <2>1
  <2>. QED
    BY <2>2, <2>3, <2>4
<1>3. CASE ~(Cardinality(peers) < MaxPeers)
  <2>1. peers' = peers
    BY <1>3 DEF Learn
  <2>2. Cardinality(peers) = MaxPeers
    BY <1>1, <1>a, <1>3
  <2>. QED
    BY <1>1, <2>1, <2>2
<1>. QED
  BY <1>2, <1>3

(* fwd_push appends the frame or drops it, and never goes past the limit. *)
LEMMA Pushed ==
  ASSUME NEW e \in Frames, TypeOK, Push(e)
  PROVE  /\ queue' \in Seq(Frames) /\ Len(queue') <= QueueCap
         /\ \A k \in 1 .. Len(queue') :
              \/ k \in 1 .. Len(queue) /\ queue'[k] = queue[k]
              \/ queue'[k] = e
<1>1. queue \in Seq(Frames) /\ Len(queue) <= QueueCap
  BY DEF TypeOK
<1>2. CASE Len(queue) < QueueCap
  <2>1. queue' = Append(queue, e)
    BY <1>2 DEF Push
  <2>. HIDE DEF Frames
  <2>2. queue' \in Seq(Frames) /\ Len(queue') = Len(queue) + 1
    BY <1>1, <2>1, AppendProperties
  <2>3. \A k \in 1 .. Len(queue) : queue'[k] = queue[k]
    BY <1>1, <2>1, AppendProperties
  <2>4. queue'[Len(queue) + 1] = e
    BY <1>1, <2>1, AppendProperties
  <2>. QED
    BY <1>1, <1>2, <2>2, <2>3, <2>4
<1>3. CASE ~(Len(queue) < QueueCap)
  BY <1>1, <1>3 DEF Push
<1>. QED
  BY <1>2, <1>3

(* Taking the first frame leaves the others. *)
LEMMA Popped ==
  ASSUME TypeOK, queue # <<>>, queue' = Tail(queue)
  PROVE  /\ queue' \in Seq(Frames) /\ Len(queue') <= QueueCap
         /\ \A k \in 1 .. Len(queue') :
              k + 1 \in 1 .. Len(queue) /\ queue'[k] = queue[k + 1]
<1>1. queue \in Seq(Frames) /\ Len(queue) <= QueueCap
  BY DEF TypeOK
<1>. QED
  BY <1>1

-----------------------------------------------------------------------------
(* Type correctness, with the finiteness that counting clients needs. *)
TypeInv == TypeOK /\ IsFiniteSet(peers)

(* The parts of TypeOK that frames and restarts disturb, put together. *)
LEMMA Typed ==
  ASSUME configured' \in BOOLEAN, heard' \in BOOLEAN,
         silence' \in 0 .. Timeout + 1,
         peers' \subseteq Clients \cup {Up}, Cardinality(peers') <= MaxPeers,
         cache' \in [Cells -> [seq : Seqs, mac : Clients \cup {None}]],
         next' \in Cells, queue' \in Seq(Frames), Len(queue') <= QueueCap,
         asked' \subseteq Clients \X Seqs, owed' \in [Clients \X Seqs -> Int],
         alive' \in BOOLEAN, searching' \in BOOLEAN
  PROVE  TypeOK'
BY DEF TypeOK

(* The empty table of clients fits. *)
LEMMA NoPeers == IsFiniteSet({}) /\ Cardinality({}) <= MaxPeers
BY FS_EmptySet

LEMMA TypeInvStep == TypeInv /\ [Next]_vars => TypeInv'
<1>. SUFFICES ASSUME TypeInv, [Next]_vars PROVE TypeInv'
  OBVIOUS
<1>a. TypeOK /\ IsFiniteSet(peers)
  BY DEF TypeInv
<1>b. queue \in Seq(Frames) /\ Len(queue) <= QueueCap
  BY <1>a DEF TypeOK
<1>c. /\ 0 \in 0 .. Timeout + 1 /\ Timeout + 1 \in 0 .. Timeout + 1
  OBVIOUS
<1>d. 0 \in Cells /\ 0 \in Seqs
  BY DEF Cells, Seqs
<1>. USE <1>a, <1>b, <1>c, <1>d
<1>1. ASSUME NEW c \in Clients, RefusePairing(c) PROVE TypeInv'
  <2>1. Learn(c)
    BY <1>1 DEF RefusePairing
  <2>. QED
    BY <1>1, <2>1, Learned, Typed DEF RefusePairing, TypeInv, TypeOK
<1>2. ASSUME NEW c \in Clients, NEW kind \in Kinds, NEW n \in SeqsOf[c],
             FromClient(c, kind, n)
      PROVE  TypeInv'
  <2>. DEFINE seq == IF kind = "bare" THEN 0 ELSE n
  <2>1. seq \in Seqs /\ n \in Seqs
    BY DEF Seqs
  <2>2. Learn(c)
    BY <1>2 DEF FromClient
  <2>3. CASE configured
    <3>1. Push([for |-> Up, to |-> Up])
      BY <1>2, <2>3 DEF FromClient
    <3>2. [for |-> Up, to |-> Up] \in Frames
      BY DEF Frames
    <3>3. cache' \in [Cells -> [seq : Seqs, mac : Clients \cup {None}]]
      <4>1. cache' = [cache EXCEPT ![next] = [seq |-> seq, mac |-> c]]
        BY <1>2, <2>3 DEF FromClient
      <4>. QED
        BY <4>1, <2>1 DEF TypeOK
    <3>4. next' \in Cells
      <4>1. next' = IF next + 1 = CacheSize THEN 0 ELSE next + 1
        BY <1>2, <2>3 DEF FromClient
      <4>2. next \in Cells
        BY DEF TypeOK
      <4>. QED
        BY <4>1, <4>2 DEF Cells
    <3>5. asked' \subseteq Clients \X Seqs
      <4>1. asked' = IF kind = "bare" THEN asked ELSE asked \cup {<<c, seq>>}
        BY <1>2, <2>3 DEF FromClient
      <4>2. asked \subseteq Clients \X Seqs
        BY DEF TypeOK
      <4>. HIDE DEF seq
      <4>. QED
        BY <4>1, <4>2, <2>1
    <3>7. owed' \in [Clients \X Seqs -> Int]
      <4>1. owed' = [owed EXCEPT ![<<c, seq>>] =
                       IF @ < CacheSize THEN @ + 1 ELSE @]
        BY <1>2, <2>3 DEF FromClient
      <4>. HIDE DEF seq
      <4>. QED
        BY <4>1, <2>1 DEF TypeOK
    <3>6. /\ heard' \in BOOLEAN /\ silence' = 0
          /\ UNCHANGED <<configured, alive, searching>>
      BY <1>2, <2>3 DEF FromClient
    <3>. QED
      BY <2>2, <3>1, <3>2, <3>3, <3>4, <3>5, <3>6, <3>7, Learned, Pushed, Typed
         DEF TypeInv, TypeOK
  <2>4. CASE ~configured
    <3>1. UNCHANGED <<cache, next, silence, heard, queue, asked, owed,
                      configured, alive, searching>>
      BY <1>2, <2>4 DEF FromClient
    <3>. QED
      BY <2>2, <3>1, Learned, Typed DEF TypeInv, TypeOK
  <2>. QED
    BY <2>3, <2>4 DEF TypeOK
<1>3. ASSUME NEW c \in Clients, NEW n \in Seqs, FromGateway(c, n)
      PROVE  TypeInv'
  <2>1. /\ silence' = 0 /\ heard' = TRUE
        /\ UNCHANGED <<configured, peers, next, asked, alive,
                       searching>>
    BY <1>3 DEF FromGateway
  <2>2. ASSUME NEW i \in Cells, Found(i, n),
               Push([for |-> c, to |-> cache[i].mac]),
               cache' = [cache EXCEPT ![i].mac = None],
               owed' = [owed EXCEPT ![<<cache[i].mac, n>>] = @ - 1]
        PROVE  TypeInv'
    <3>1. cache[i] \in [seq : Seqs, mac : Clients \cup {None}]
      BY DEF TypeOK
    <3>2. [for |-> c, to |-> cache[i].mac] \in Frames
      BY <2>2, <3>1 DEF Found, Match, Frames
    <3>3. cache' \in [Cells -> [seq : Seqs, mac : Clients \cup {None}]]
      BY <2>2, <3>1 DEF TypeOK
    <3>4. owed' \in [Clients \X Seqs -> Int]
      BY <2>2, <3>1 DEF TypeOK, Found, Match
    <3>. QED
      BY <2>1, <2>2, <3>2, <3>3, <3>4, Pushed, Typed DEF TypeInv, TypeOK
  <2>3. CASE /\ IF peers # {} THEN Push([for |-> c, to |-> All])
                              ELSE UNCHANGED queue
             /\ UNCHANGED <<cache, owed>>
    <3>1. [for |-> c, to |-> All] \in Frames
      BY DEF Frames
    <3>2. queue' \in Seq(Frames) /\ Len(queue') <= QueueCap
      BY <2>3, <3>1, Pushed
    <3>. QED
      BY <2>1, <2>3, <3>2, Typed DEF TypeInv, TypeOK
  <2>. QED
    BY <1>3, <2>2, <2>3 DEF FromGateway, Route
<1>4. CASE Mistaken
  <2>1. Learn(Up)
    BY <1>4 DEF Mistaken
  <2>. QED
    BY <1>4, <2>1, Learned, Typed DEF Mistaken, TypeInv, TypeOK
<1>6. CASE FromGatewayAnnounce
  BY <1>6, Typed DEF FromGatewayAnnounce, TypeInv, TypeOK
<1>7. CASE Forward
  BY <1>7, Popped, Typed DEF Forward, TypeInv, TypeOK
<1>8. CASE GiveUpGateway
  BY <1>8, Typed DEF GiveUpGateway, TypeInv, TypeOK
<1>9. CASE Discover
  BY <1>9, Typed DEF Discover, TypeInv, TypeOK
<1>10. CASE Miss
  BY <1>10, Typed DEF Miss, TypeInv, TypeOK
<1>11. CASE Reboot
  <2>3. owed' \in [Clients \X Seqs -> Int]
    BY <1>11 DEF Reboot, NothingOwed
  <2>1. cache' \in [Cells -> [seq : Seqs, mac : Clients \cup {None}]]
    BY <1>11 DEF Reboot
  <2>2. queue' \in Seq(Frames) /\ Len(queue') <= QueueCap
    BY <1>11 DEF Reboot
  <2>. QED
    BY <1>11, <2>1, <2>2, <2>3, NoPeers, Typed DEF Reboot, TypeInv, TypeOK
<1>12. CASE GatewayTurns
  BY <1>12, Typed DEF GatewayTurns, TypeInv, TypeOK
<1>13. CASE Tick
  <2>1. \A t \in 0 .. Timeout + 1 : Later(t) \in 0 .. Timeout + 1
    BY DEF Later
  <2>. QED
    BY <1>13, <2>1, Typed DEF Tick, TypeInv, TypeOK
<1>14. CASE UNCHANGED vars
  BY <1>14, Typed DEF vars, TypeInv, TypeOK
<1>15. ASSUME Answer PROVE TypeInv'
  BY <1>3, <1>15 DEF Answer
<1>. QED
  BY <1>1, <1>2, <1>4, <1>6, <1>7, <1>8, <1>9, <1>10, <1>11, <1>12,
     <1>13, <1>14, <1>15 DEF Next

LEMMA TypeInvHolds == Spec => []TypeInv
<1>1. Init => TypeInv
  <2>. SUFFICES ASSUME Init PROVE TypeInv
    OBVIOUS
  <2>1. cache \in [Cells -> [seq : Seqs, mac : Clients \cup {None}]]
    BY DEF Init, Seqs
  <2>2. next \in Cells
    BY DEF Init, Cells
  <2>3. queue \in Seq(Frames) /\ Len(queue) <= QueueCap
    BY DEF Init
  <2>4. silence \in 0 .. Timeout + 1
    BY DEF Init
  <2>5. /\ configured \in BOOLEAN /\ heard \in BOOLEAN /\ alive \in BOOLEAN
        /\ searching \in BOOLEAN /\ asked \subseteq Clients \X Seqs
    BY DEF Init
  <2>7. owed \in [Clients \X Seqs -> Int]
    BY DEF Init, NothingOwed
  <2>6. /\ peers \subseteq Clients \cup {Up} /\ IsFiniteSet(peers)
        /\ Cardinality(peers) <= MaxPeers
    BY NoPeers DEF Init
  <2>. QED
    BY <2>1, <2>2, <2>3, <2>4, <2>5, <2>6, <2>7 DEF TypeInv, TypeOK
<1>. QED
  BY <1>1, TypeInvStep, PTL DEF Spec

(* The state stays within its types: the queue and the table of clients    *)
(* never go past their ends, whatever arrives and when.                    *)
THEOREM TypeCorrect == Spec => []TypeOK
BY TypeInvHolds, PTL DEF TypeInv

-----------------------------------------------------------------------------
(* Routing.  The entries of the cache that may be found for a client and a *)
(* number are no more than what is owed to the client under that number:   *)
(* Backed is why a frame that finds an entry leaves nothing below zero.    *)
Entries(q) == {i \in Cells : cache[i].mac = q[1] /\ cache[i].seq = q[2]}

Backed == \A q \in Clients \X Seqs : Cardinality(Entries(q)) <= owed[q]

LEMMA EntriesFinite ==
  \A q \in Clients \X Seqs :
    /\ IsFiniteSet(Entries(q))
    /\ Cardinality(Entries(q)) \in 0 .. CacheSize
<1>. TAKE q \in Clients \X Seqs
<1>1. IsFiniteSet(Cells) /\ Cardinality(Cells) = CacheSize
  <2>1. /\ IsFiniteSet(0 .. CacheSize - 1)
        /\ Cardinality(0 .. CacheSize - 1) =
             IF 0 > CacheSize - 1 THEN 0 ELSE CacheSize - 1 - 0 + 1
    BY FS_Interval
  <2>. QED
    BY <2>1 DEF Cells
<1>2. Entries(q) \subseteq Cells
  BY DEF Entries
<1>3. IsFiniteSet(Entries(q)) /\ Cardinality(Entries(q)) <= CacheSize
  BY <1>1, <1>2, FS_Subset
<1>. QED
  BY <1>3, FS_CardinalityType

(* A set that loses nothing but gains one element at most grows by one. *)
LEMMA GrowsByOne ==
  ASSUME NEW S, NEW T, NEW x, IsFiniteSet(S), T \subseteq S \cup {x}
  PROVE  Cardinality(T) <= Cardinality(S) + 1
<1>1. /\ IsFiniteSet(S \cup {x})
      /\ \/ Cardinality(S \cup {x}) = Cardinality(S)
         \/ Cardinality(S \cup {x}) = Cardinality(S) + 1
  BY FS_AddElement
<1>2. IsFiniteSet(T) /\ Cardinality(T) <= Cardinality(S \cup {x})
  BY <1>1, FS_Subset
<1>3. Cardinality(S) \in Nat /\ Cardinality(T) \in Nat
  BY <1>2, FS_CardinalityType
<1>. QED
  BY <1>1, <1>2, <1>3

LEMMA BackedStep == TypeInv /\ Backed /\ [Next]_vars => Backed'
<1>. SUFFICES ASSUME TypeInv, Backed, [Next]_vars PROVE Backed'
  OBVIOUS
<1>a. /\ TypeOK /\ None \notin Clients /\ 0 \in Seqs
      /\ cache \in [Cells -> [seq : Seqs, mac : Clients \cup {None}]]
      /\ next \in Cells /\ owed \in [Clients \X Seqs -> Int]
  BY DEF TypeInv, TypeOK, Seqs
<1>. USE <1>a
<1>1. ASSUME UNCHANGED <<cache, owed>> PROVE Backed'
  BY <1>1 DEF Backed, Entries
<1>2. ASSUME NEW c \in Clients, NEW kind \in Kinds, NEW n \in SeqsOf[c],
             FromClient(c, kind, n)
      PROVE  Backed'
  <2>. DEFINE seq == IF kind = "bare" THEN 0 ELSE n
  <2>1. seq \in Seqs
    BY DEF Seqs
  <2>2. CASE configured
    <3>1. /\ cache' = [cache EXCEPT ![next] = [seq |-> seq, mac |-> c]]
          /\ owed' = [owed EXCEPT ![<<c, seq>>] =
                        IF @ < CacheSize THEN @ + 1 ELSE @]
      BY <1>2, <2>2 DEF FromClient
    <3>. HIDE DEF seq
    <3>. SUFFICES ASSUME NEW q \in Clients \X Seqs
                  PROVE  Cardinality(Entries(q)') <= owed'[q]
      BY DEF Backed
    <3>2. /\ IsFiniteSet(Entries(q)) /\ Cardinality(Entries(q)) \in 0 .. CacheSize
          /\ Cardinality(Entries(q)) <= owed[q] /\ owed[q] \in Int
      BY EntriesFinite DEF Backed
    <3>3. CASE q = <<c, seq>>
      <4>1. Entries(q)' \subseteq Entries(q) \cup {next}
        BY <3>1 DEF Entries
      <4>2. Cardinality(Entries(q)') <= Cardinality(Entries(q)) + 1
        BY <3>2, <4>1, GrowsByOne
      <4>3. Entries(q)' \subseteq Cells
        BY DEF Entries
      <4>4. /\ IsFiniteSet(Cells) /\ Cardinality(Cells) = CacheSize
        BY FS_Interval DEF Cells
      <4>5. Cardinality(Entries(q)') <= CacheSize
            /\ Cardinality(Entries(q)') \in Nat
        BY <4>3, <4>4, FS_Subset, FS_CardinalityType
      <4>6. owed'[q] = IF owed[q] < CacheSize THEN owed[q] + 1 ELSE owed[q]
        BY <3>1, <3>3
      <4>. QED
        BY <3>2, <4>2, <4>5, <4>6
    <3>4. CASE q # <<c, seq>>
      <4>1. Entries(q)' \subseteq Entries(q)
        <5>1. q[1] # c \/ q[2] # seq
          BY <3>4
        <5>. QED
          BY <3>1, <5>1 DEF Entries
      <4>2. Cardinality(Entries(q)') <= Cardinality(Entries(q))
            /\ Cardinality(Entries(q)') \in Nat
        BY <3>2, <4>1, FS_Subset, FS_CardinalityType
      <4>3. owed'[q] = owed[q]
        BY <3>1, <3>4
      <4>. QED
        BY <3>2, <4>2, <4>3
    <3>. QED
      BY <3>3, <3>4
  <2>3. CASE ~configured
    BY <1>1, <1>2, <2>3 DEF FromClient
  <2>. QED
    BY <2>2, <2>3 DEF TypeOK
<1>3. ASSUME NEW c \in Clients, NEW n \in Seqs, FromGateway(c, n)
      PROVE  Backed'
  <2>1. ASSUME NEW i \in Cells, Found(i, n),
               cache' = [cache EXCEPT ![i].mac = None],
               owed' = [owed EXCEPT ![<<cache[i].mac, n>>] = @ - 1]
        PROVE  Backed'
    <3>1. cache[i].mac \in Clients /\ cache[i].seq = n
      BY <2>1 DEF Found, Match
    <3>. SUFFICES ASSUME NEW q \in Clients \X Seqs
                  PROVE  Cardinality(Entries(q)') <= owed'[q]
      BY DEF Backed
    <3>2. /\ IsFiniteSet(Entries(q)) /\ Cardinality(Entries(q)) \in 0 .. CacheSize
          /\ Cardinality(Entries(q)) <= owed[q] /\ owed[q] \in Int
      BY EntriesFinite DEF Backed
    <3>3. CASE q = <<cache[i].mac, n>>
      <4>1. Entries(q)' = Entries(q) \ {i} /\ i \in Entries(q)
        BY <2>1, <3>1, <3>3 DEF Entries
      <4>2. Cardinality(Entries(q)') = Cardinality(Entries(q)) - 1
        BY <3>2, <4>1, FS_RemoveElement
      <4>3. owed'[q] = owed[q] - 1
        BY <2>1, <3>3
      <4>. QED
        BY <3>2, <4>2, <4>3
    <3>4. CASE q # <<cache[i].mac, n>>
      <4>1. Entries(q)' \subseteq Entries(q)
        BY <2>1 DEF Entries
      <4>2. Cardinality(Entries(q)') <= Cardinality(Entries(q))
            /\ Cardinality(Entries(q)') \in Nat
        BY <3>2, <4>1, FS_Subset, FS_CardinalityType
      <4>3. owed'[q] = owed[q]
        BY <2>1, <3>4
      <4>. QED
        BY <3>2, <4>2, <4>3
    <3>. QED
      BY <3>3, <3>4
  <2>. QED
    BY <1>1, <1>3, <2>1 DEF FromGateway, Route
<1>4. CASE Reboot
  <2>. SUFFICES ASSUME NEW q \in Clients \X Seqs
                PROVE  Cardinality(Entries(q)') <= owed'[q]
    BY DEF Backed
  <2>1. Entries(q)' = {}
    BY <1>4 DEF Reboot, Entries
  <2>2. owed'[q] = 0
    BY <1>4 DEF Reboot, NothingOwed
  <2>. QED
    BY <2>1, <2>2, FS_EmptySet
<1>5. ASSUME Answer PROVE Backed'
  BY <1>3, <1>5 DEF Answer
<1>. QED
  BY <1>1, <1>2, <1>4, <1>5
     DEF Next, vars, RefusePairing, Mistaken, FromGatewayAnnounce, Forward,
         GiveUpGateway, Discover, Miss, GatewayTurns, Tick

(* No client is sent more under a number than it has asked under it, for   *)
(* all numbers of clients, all sizes of the cache and whatever numbers the *)
(* clients share: lookup_sequence takes an entry once, and a restart       *)
(* forgets questions and entries together.                                 *)
THEOREM AnsweredOnceHolds == Spec => []AnsweredOnce
<1>1. Init => Backed
  <2>. SUFFICES ASSUME Init PROVE Backed
    OBVIOUS
  <2>1. \A q \in Clients \X Seqs : Entries(q) = {} /\ owed[q] = 0
    BY DEF Init, Entries, NothingOwed
  <2>. QED
    BY <2>1, FS_EmptySet DEF Backed
<1>2. TypeInv /\ Backed => AnsweredOnce
  <2>. SUFFICES ASSUME TypeInv, Backed, NEW q \in Clients \X Seqs
                PROVE  owed[q] >= 0
    BY DEF AnsweredOnce
  <2>1. Cardinality(Entries(q)) \in 0 .. CacheSize
    BY EntriesFinite
  <2>2. Cardinality(Entries(q)) <= owed[q] /\ owed[q] \in Int
    BY DEF Backed, TypeInv, TypeOK
  <2>. QED
    BY <2>1, <2>2
<1>. QED
  BY <1>1, <1>2, BackedStep, TypeInvHolds, PTL DEF Spec

-----------------------------------------------------------------------------
(* Entries of the cache name peers, or the table is full. *)
EntriesArePeers == \A i \in Cells :
  cache[i].mac \in Clients =>
    cache[i].mac \in peers \/ Cardinality(peers) = MaxPeers

PeerInv == EntriesArePeers /\ UnicastToPeer

LEMMA PeerInvStep == TypeInv /\ PeerInv /\ [Next]_vars => PeerInv'
<1>. SUFFICES ASSUME TypeInv, PeerInv, [Next]_vars PROVE PeerInv'
  OBVIOUS
<1>a. /\ TypeOK /\ IsFiniteSet(peers) /\ EntriesArePeers /\ UnicastToPeer
      /\ cache \in [Cells -> [seq : Seqs, mac : Clients \cup {None}]]
      /\ next \in Cells /\ Up \notin Clients /\ None \notin Clients
      /\ All \notin Clients
  BY DEF TypeInv, TypeOK, PeerInv
<1>. USE <1>a
<1>1. ASSUME UNCHANGED <<cache, queue, peers>> PROVE PeerInv'
  BY <1>1 DEF PeerInv, EntriesArePeers, UnicastToPeer
<1>2. ASSUME NEW c \in Clients \cup {Up}, Learn(c), UNCHANGED <<cache, queue>>
      PROVE  PeerInv'
  <2>1. /\ peers \subseteq peers'
        /\ Cardinality(peers) = MaxPeers => Cardinality(peers') = MaxPeers
    BY <1>2, Learned
  <2>. QED
    BY <1>2, <2>1 DEF PeerInv, EntriesArePeers, UnicastToPeer
<1>3. ASSUME NEW c \in Clients, NEW kind \in Kinds, NEW n \in SeqsOf[c],
             FromClient(c, kind, n)
      PROVE  PeerInv'
  <2>. DEFINE seq == IF kind = "bare" THEN 0 ELSE n
  <2>1. Learn(c)
    BY <1>3 DEF FromClient
  <2>2. CASE configured
    <3>1. /\ cache' = [cache EXCEPT ![next] = [seq |-> seq, mac |-> c]]
          /\ Push([for |-> Up, to |-> Up])
      BY <1>3, <2>2 DEF FromClient
    <3>. HIDE DEF seq
    <3>2. /\ peers \subseteq peers'
          /\ Cardinality(peers) = MaxPeers => Cardinality(peers') = MaxPeers
          /\ c \in peers' \/ Cardinality(peers') = MaxPeers
      BY <2>1, Learned
    <3>3. EntriesArePeers'
      BY <3>1, <3>2 DEF EntriesArePeers
    <3>4. [for |-> Up, to |-> Up] \in Frames
      BY DEF Frames
    <3>5. UnicastToPeer'
      <4>. SUFFICES ASSUME NEW k \in 1 .. Len(queue'), queue'[k].to \in Clients
                    PROVE  \/ queue'[k].to \in peers'
                           \/ Cardinality(peers') = MaxPeers
        BY DEF UnicastToPeer
      <4>1. k \in 1 .. Len(queue) /\ queue'[k] = queue[k]
        BY <3>1, <3>4, Pushed
      <4>. QED
        BY <3>2, <4>1 DEF UnicastToPeer
    <3>. QED
      BY <3>3, <3>5 DEF PeerInv
  <2>3. CASE ~configured
    BY <1>2, <1>3, <2>1, <2>3 DEF FromClient
  <2>. QED
    BY <2>2, <2>3 DEF TypeOK
<1>4. ASSUME NEW c \in Clients, NEW n \in Seqs, FromGateway(c, n)
      PROVE  PeerInv'
  <2>1. peers' = peers
    BY <1>4 DEF FromGateway
  <2>2. ASSUME NEW e \in Frames, Push(e),
               e.to \in Clients =>
                 e.to \in peers \/ Cardinality(peers) = MaxPeers
        PROVE  UnicastToPeer'
    <3>. SUFFICES ASSUME NEW k \in 1 .. Len(queue'), queue'[k].to \in Clients
                  PROVE  \/ queue'[k].to \in peers'
                         \/ Cardinality(peers') = MaxPeers
      BY DEF UnicastToPeer
    <3>1. \/ k \in 1 .. Len(queue) /\ queue'[k] = queue[k]
          \/ queue'[k] = e
      BY <2>2, Pushed
    <3>. QED
      BY <2>1, <2>2, <3>1 DEF UnicastToPeer
  <2>3. ASSUME NEW i \in Cells, Found(i, n),
               Push([for |-> c, to |-> cache[i].mac]),
               cache' = [cache EXCEPT ![i].mac = None]
        PROVE  PeerInv'
    <3>1. cache[i].mac \in Clients
      <4>1. cache[i] \in [seq : Seqs, mac : Clients \cup {None}]
        OBVIOUS
      <4>. QED
        BY <2>3, <4>1 DEF Found, Match
    <3>2. [for |-> c, to |-> cache[i].mac] \in Frames
      BY <3>1 DEF Frames
    <3>3. UnicastToPeer'
      BY <2>2, <2>3, <3>1, <3>2 DEF EntriesArePeers
    <3>4. EntriesArePeers'
      BY <2>1, <2>3 DEF EntriesArePeers
    <3>. QED
      BY <3>3, <3>4 DEF PeerInv
  <2>4. CASE /\ IF peers # {} THEN Push([for |-> c, to |-> All])
                              ELSE UNCHANGED queue
             /\ UNCHANGED <<cache, owed>>
    <3>1. [for |-> c, to |-> All] \in Frames
      BY DEF Frames
    <3>2. UnicastToPeer'
      BY <2>1, <2>2, <2>4, <3>1 DEF UnicastToPeer
    <3>3. EntriesArePeers'
      BY <2>1, <2>4 DEF EntriesArePeers
    <3>. QED
      BY <3>2, <3>3 DEF PeerInv
  <2>. QED
    BY <1>4, <2>3, <2>4 DEF FromGateway, Route
<1>5. CASE Forward
  <2>1. EntriesArePeers' /\ peers' = peers
    BY <1>5 DEF Forward, EntriesArePeers
  <2>2. UnicastToPeer'
    <3>. SUFFICES ASSUME NEW k \in 1 .. Len(queue'), queue'[k].to \in Clients
                  PROVE  \/ queue'[k].to \in peers'
                         \/ Cardinality(peers') = MaxPeers
      BY DEF UnicastToPeer
    <3>1. k + 1 \in 1 .. Len(queue) /\ queue'[k] = queue[k + 1]
      BY <1>5, Popped DEF Forward
    <3>. QED
      BY <2>1, <3>1 DEF UnicastToPeer
  <2>. QED
    BY <2>1, <2>2 DEF PeerInv
<1>6. CASE Reboot
  BY <1>6 DEF Reboot, PeerInv, EntriesArePeers, UnicastToPeer
<1>7. ASSUME NEW c \in Clients, RefusePairing(c) PROVE PeerInv'
  BY <1>2, <1>7 DEF RefusePairing
<1>8. CASE Mistaken
  BY <1>2, <1>8 DEF Mistaken
<1>9. ASSUME Answer PROVE PeerInv'
  <2>1. 0 \in Seqs
    BY DEF Seqs
  <2>. QED
    BY <1>4, <1>9, <2>1 DEF Answer
<1>. QED
  BY <1>1, <1>3, <1>5, <1>6, <1>7, <1>8, <1>9
     DEF Next, vars, FromGatewayAnnounce, GiveUpGateway,
         Discover, Miss, GatewayTurns, Tick

(* A frame is unicast only to a client the radio has as a peer, or that    *)
(* found the table full: at every moment until it is sent, whatever the    *)
(* numbers are.                                                            *)
THEOREM UnicastToPeerHolds == Spec => []UnicastToPeer
<1>1. Init => PeerInv
  BY DEF Init, PeerInv, EntriesArePeers, UnicastToPeer
<1>2. PeerInv => UnicastToPeer
  BY DEF PeerInv
<1>. QED
  BY <1>1, <1>2, PeerInvStep, TypeInvHolds, PTL DEF Spec
=============================================================================
