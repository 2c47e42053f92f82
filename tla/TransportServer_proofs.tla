------------------------ MODULE TransportServer_proofs ------------------------
(***************************************************************************)
(* A server and its connections, for any numbers of connections,           *)
(* descriptors and buffers.                                                *)
(*                                                                         *)
(* That a completion finds its channel by a descriptor alone rests on      *)
(* three facts about all channels at once (CountInv): those in use have    *)
(* different descriptors, each counts what is under way on its own, and    *)
(* nothing is under way on a descriptor nobody uses.  A close that forgot  *)
(* a request would break the third when the number is given again.  They   *)
(* need AcceptInv: between the moment the kernel accepts and the moment    *)
(* Dart hears of it, the number belongs to a completion, and there is      *)
(* still a channel to give it to.                                          *)
(***************************************************************************)
EXTENDS TransportServer, TransportRing_proofs, WellFoundedInduction

Operations == DataOps \cup {AcceptOp}
ResultsOfAll == Fds \cup {1, -1}

ChannelFields ==
  [fd : Fds \cup {ListenFd}, pending : Nat, active : BOOLEAN,
   phase : {"none", "open", "connections", "grace", "awaitCloser", "inbound", "closed"},
   closer : BOOLEAN, awaited : {"no", "closed", "closer"}]

\* One channel by itself: what is still pending at each stage of its close.
ChannelOK(c, k) ==
  /\ k \in ChannelFields
  /\ k.closer => k.pending = 0 /\ k.phase \notin {"none", "open"}
  /\ k.phase \in {"none", "inbound", "closed"} => k.pending = 0
  /\ k.phase = "connections" => c = Server
  /\ c = Server => k.fd = ListenFd
  /\ c # Server /\ k.phase # "none" => k.fd \in Fds

ServerTypes ==
  /\ kind \in Kinds
  /\ chan \in [Channels -> ChannelFields]
  /\ \A c \in Channels : ChannelOK(c, chan[c])
  /\ dropped \subseteq Fds
  /\ graceful \in BOOLEAN /\ callback \in BOOLEAN
  /\ failing \in Channels
  /\ failing # Server => chan[failing].phase # "none"

\* The channels and the operations under way.
CountInv ==
  /\ \A c, d \in Channels : Live(c) /\ Live(d) /\ chan[c].fd = chan[d].fd => c = d
  /\ \A c \in Channels : Live(c) => chan[c].pending = Cardinality(Under(chan[c].fd))
  /\ \A fd \in Fds \cup {ListenFd} :
       (\A c \in Channels : Live(c) => chan[c].fd # fd) => Under(fd) = {}

\* The accept: its result is a descriptor nobody uses, for which there is a
\* channel; and an open TCP server has one under way.
AcceptInv ==
  /\ \A i \in 1..Len(cq) : cq[i].op = AcceptOp =>
       /\ cq[i].result \in Fds \cup {-1}
       /\ cq[i].result \in Fds =>
            /\ \A c \in Channels : Live(c) => chan[c].fd # cq[i].result
            /\ \E c \in Conns : chan[c].phase = "none"
  /\ chan[Server].phase = "none" =>
       Outstanding = {} /\ \A c \in Conns : chan[c].phase = "none"
  /\ chan[Server].phase \in {"none", "open"} => dropped = {}
  /\ chan[Server].phase = "open" /\ kind = "tcp" => AcceptOp \in Outstanding

\* The close of the server: a connection it does not wait for has nothing
\* under way, and when the waiting is over none has.
CloseInv ==
  /\ Closing(Server) =>
       \A c \in Conns : chan[c].awaited = "no" => chan[c].pending = 0
  /\ Closing(Server) /\ chan[Server].phase # "connections" =>
       \A c \in Conns : chan[c].pending = 0

ServerInv ==
  /\ RingInv(Operations, ResultsOfAll)
  /\ ServerTypes
  /\ CountInv
  /\ AcceptInv
  /\ CloseInv

\* The first connection that is still free is one.
LEMMA MinIsElement ==
  ASSUME NEW S \in SUBSET Nat, S # {}
  PROVE  Min(S) \in S
<1> DEFINE less == {ss \in Nat \X Nat : ss[1] < ss[2]}
<1>1. PICK x \in S : \A y \in S : <<y, x>> \notin less
  <2>1. IsWellFoundedOn(less, Nat)
    BY NatLessThanWellFounded, Zenon DEF OpToRel
  <2> HIDE DEF less
  <2> QED
    BY <2>1, WFMin
<1>2. \A y \in S : x =< y
  <2> TAKE y \in S
  <2>1. <<y, x>> \notin less
    BY <1>1
  <2> QED
    BY <2>1
<1> QED
  BY <1>2 DEF Min

-----------------------------------------------------------------------------
(* One channel.                                                            *)

\* A step of a close leaves the requests and the descriptor of a channel alone.
Moves(k, next) ==
  /\ next.fd = k.fd /\ next.pending = k.pending
  /\ next.phase = "none" <=> k.phase = "none"
  /\ next.phase = "open" => k.phase = "open"
  /\ k.phase = "closed" => next.phase = "closed"
  /\ next.awaited = "no" => k.awaited = "no"

\* The end of a close, for a channel with nothing under way.
LEMMA LeftMoves ==
  ASSUME NEW c, NEW k, ChannelOK(c, k), k.pending = 0, NEW listens \in BOOLEAN,
         k.phase \notin {"none", "closed"}
  PROVE  /\ ChannelOK(c, Left(k, listens)) /\ Moves(k, Left(k, listens))
         /\ Left(k, listens).phase \in {"inbound", "closed"}
         /\ Left(k, listens).awaited = k.awaited
<1>1. k \in ChannelFields
  BY DEF ChannelOK
<1> DEFINE phase == IF listens THEN "inbound" ELSE "closed"
           next == [k EXCEPT !.active = FALSE, !.phase = phase]
<1>2. phase \in {"inbound", "closed"}
  OBVIOUS
<1> HIDE DEF phase
<1>3. /\ next \in ChannelFields
      /\ next.fd = k.fd /\ next.pending = k.pending /\ next.phase = phase
      /\ next.closer = k.closer /\ next.awaited = k.awaited
  BY <1>1, <1>2 DEF ChannelFields
<1> HIDE DEF next
<1>4. ChannelOK(c, next) /\ Moves(k, next)
  BY <1>2, <1>3 DEF ChannelOK, Moves
<1>5. next = Left(k, listens)
  BY DEF Left, next, phase
<1> QED
  BY <1>2, <1>3, <1>4, <1>5

\* The beginning of a close, which takes a channel out of phase open.
LEMMA BegunMoves ==
  ASSUME NEW c, NEW k, ChannelOK(c, k), NEW gently \in BOOLEAN, NEW listens \in BOOLEAN,
         k.phase \in {"open", "connections"}
  PROVE  /\ ChannelOK(c, Begun(k, gently, listens)) /\ Moves(k, Begun(k, gently, listens))
         /\ Begun(k, gently, listens).phase \in {"grace", "awaitCloser", "inbound", "closed"}
         /\ Begun(k, gently, listens).awaited = k.awaited
<1>1. CASE k.pending = 0
  BY <1>1, LeftMoves DEF Begun
<1>2. CASE k.pending # 0
  <2>1. k \in ChannelFields
    BY DEF ChannelOK
  <2> DEFINE phase == IF gently THEN "grace" ELSE "awaitCloser"
             next == [k EXCEPT !.active = gently, !.phase = phase]
  <2>2. phase \in {"grace", "awaitCloser"}
    OBVIOUS
  <2> HIDE DEF phase
  <2>3. /\ next \in ChannelFields
        /\ next.fd = k.fd /\ next.pending = k.pending /\ next.phase = phase
        /\ next.closer = k.closer /\ next.awaited = k.awaited
    BY <2>1, <2>2 DEF ChannelFields
  <2> HIDE DEF next
  <2>4. ChannelOK(c, next) /\ Moves(k, next)
    BY <2>2, <2>3 DEF ChannelOK, Moves
  <2>5. next = Begun(k, gently, listens)
    BY <1>2 DEF Begun, next, phase
  <2> QED
    BY <2>2, <2>3, <2>4, <2>5
<1> QED
  BY <1>1, <1>2

\* The completion of one operation.
LEMMA SettleCounts ==
  ASSUME NEW c, NEW k, ChannelOK(c, k), k.pending # 0
  PROVE  /\ ChannelOK(c, Settle(k))
         /\ Settle(k).fd = k.fd /\ Settle(k).phase = k.phase
         /\ Settle(k).awaited = k.awaited /\ Settle(k).pending = k.pending - 1
<1>1. k \in ChannelFields /\ k.pending \in Nat
  BY DEF ChannelOK, ChannelFields
<1> DEFINE last == k.pending = 1 /\ k.phase # "open"
           n == k.pending - 1
           active == k.active /\ ~last
           closer == k.closer \/ last
           next == [k EXCEPT !.pending = n, !.active = active, !.closer = closer]
<1>2. n \in Nat /\ active \in BOOLEAN /\ closer \in BOOLEAN
  BY <1>1 DEF ChannelFields
<1>3. closer => n = 0 /\ k.phase \notin {"none", "open"}
  BY <1>1 DEF ChannelOK
<1>4. k.phase \notin {"none", "inbound", "closed"}
  BY DEF ChannelOK
<1>5. next = Settle(k)
  BY DEF Settle
<1> HIDE DEF n, active, closer
<1>6. /\ next \in ChannelFields
      /\ next.fd = k.fd /\ next.pending = n /\ next.phase = k.phase
      /\ next.closer = closer /\ next.awaited = k.awaited
  BY <1>1, <1>2 DEF ChannelFields
<1> HIDE DEF next
<1>7. ChannelOK(c, next)
  BY <1>3, <1>4, <1>6 DEF ChannelOK
<1> QED
  BY <1>5, <1>6, <1>7 DEF n

-----------------------------------------------------------------------------
(* All channels.                                                           *)

LEMMA OperationsFinite == IsFiniteSet(Operations)
<1> DEFINE Numbers == Fds \cup {ListenFd}
           Names == (({"read"} \cup {"write"}) \cup {"receive"}) \cup {"send"}
           Pairs == (Numbers \X Names) \X Buffers
           f == [p \in Pairs |-> <<p[1][1], p[1][2], p[2]>>]
           Triples == {f[p] : p \in Pairs}
<1>1. IsFiniteSet(Names)
  <2>1. IsFiniteSet({"read"} \cup {"write"})
    BY FS_Singleton, FS_AddElement
  <2> QED
    BY <2>1, FS_AddElement
<1>2. IsFiniteSet(Numbers)
  BY ServerAssumption, FS_AddElement
<1>3. IsFiniteSet(Pairs)
  <2> HIDE DEF Numbers, Names
  <2>1. IsFiniteSet(Numbers \X Names)
    BY <1>1, <1>2, FS_Product
  <2> QED
    BY <2>1, ServerAssumption, FS_Product
<1>4. f \in Surjection(Pairs, Triples)
  <2> HIDE DEF Pairs
  <2> QED
    BY DEF Surjection
<1>5. IsFiniteSet(Triples)
  <2> HIDE DEF f, Pairs, Triples
  <2> QED
    BY <1>3, <1>4, FS_Surjection
<1>6. DataOps \subseteq Triples
  <2>1. ASSUME NEW fd \in Numbers, NEW event \in Names, NEW b \in Buffers
        PROVE  <<fd, event, b>> \in Triples
    <3>1. <<<<fd, event>>, b>> \in Pairs
      OBVIOUS
    <3>2. f[<<<<fd, event>>, b>>] = <<fd, event, b>>
      BY <3>1
    <3> HIDE DEF f, Pairs
    <3> QED
      BY <3>1, <3>2
  <2>2. Fds \subseteq Numbers /\ ListenFd \in Numbers
    OBVIOUS
  <2>3. {"read", "write"} \subseteq Names /\ {"receive", "send"} \subseteq Names
    OBVIOUS
  <2> HIDE DEF Numbers, Names, Triples
  <2> QED
    BY <2>1, <2>2, <2>3 DEF DataOps
<1>7. IsFiniteSet(DataOps)
  <2> HIDE DEF Triples
  <2> QED
    BY <1>5, <1>6, FS_Subset
<1> QED
  BY <1>7, FS_AddElement DEF Operations

LEMMA FiniteUnder ==
  ASSUME RingInv(Operations, ResultsOfAll)
  PROVE  /\ IsFiniteSet(Outstanding) /\ Outstanding \subseteq Operations
         /\ \A fd : IsFiniteSet(Under(fd))
<1>2. IsFiniteSet(Outstanding)
  BY OperationsFinite, RingCount
<1>3. Outstanding \subseteq Operations
  BY CompletedInOps DEF RingInv, Outstanding
<1>4. \A fd : Under(fd) \subseteq Outstanding
  BY DEF Under
<1> QED
  BY <1>2, <1>3, <1>4, FS_Subset

\* An operation is of the descriptor it names, and one of a connection's
\* events is of a connection.
LEMMA DataOpFields ==
  ASSUME NEW op \in DataOps
  PROVE  /\ op # AcceptOp /\ op[1] \in Fds \cup {ListenFd}
         /\ op[2] \in {"read", "write", "receive", "send"} /\ op[3] \in Buffers
         /\ op[2] \in {"read", "write"} => op[1] \in Fds
BY ServerAssumption DEF DataOps, AcceptOp

\* A step that moves channels on and leaves the requests where they count.
LEMMA QuietCounts ==
  ASSUME ServerInv, Outstanding' = Outstanding,
         \A c \in Channels : ChannelOK(c, chan'[c]) /\ Moves(chan[c], chan'[c])
  PROVE  CountInv'
<1>1. \A fd : Under(fd)' = Under(fd)
  BY DEF Under
<1>2. \A c \in Channels : Live(c)' => Live(c)
  BY DEF Live, Moves
<1>3. \A c \in Channels : Live(c) /\ ~Live(c)' => chan[c].pending = 0
  BY DEF Live, Moves, ChannelOK
<1>4. \A c, d \in Channels : Live(c)' /\ Live(d)' /\ chan'[c].fd = chan'[d].fd => c = d
  BY <1>2 DEF Moves, ServerInv, CountInv
<1>5. \A c \in Channels : Live(c)' => chan'[c].pending = Cardinality(Under(chan[c].fd)')
  <2> SUFFICES ASSUME NEW c \in Channels, Live(c)'
               PROVE  chan'[c].pending = Cardinality(Under(chan[c].fd)')
    OBVIOUS
  <2>1. Live(c) /\ chan'[c].fd = chan[c].fd /\ chan'[c].pending = chan[c].pending
    BY <1>2 DEF Moves
  <2>2. chan[c].pending = Cardinality(Under(chan[c].fd))
    BY <2>1 DEF ServerInv, CountInv
  <2>3. Under(chan[c].fd)' = Under(chan[c].fd)
    BY <2>1 DEF Under
  <2> QED
    BY <2>1, <2>2, <2>3
<1>6. ASSUME NEW fd \in Fds \cup {ListenFd}, \A c \in Channels : Live(c)' => chan'[c].fd # fd
      PROVE  Under(fd)' = {}
  <2>1. CASE \A c \in Channels : Live(c) => chan[c].fd # fd
    BY <1>1, <2>1 DEF ServerInv, CountInv
  <2>2. CASE \E c \in Channels : Live(c) /\ chan[c].fd = fd
    <3>1. PICK c \in Channels : Live(c) /\ chan[c].fd = fd
      BY <2>2
    <3>2. chan'[c].fd = fd /\ ~Live(c)'
      BY <1>6, <3>1 DEF Moves
    <3>3. Cardinality(Under(fd)) = 0
      BY <1>3, <3>1, <3>2 DEF ServerInv, CountInv
    <3>4. IsFiniteSet(Under(fd))
      BY FiniteUnder DEF ServerInv
    <3>5. Under(fd) = {}
      BY <3>3, <3>4, FS_EmptySet
    <3> QED
      BY <1>1, <3>5
  <2> QED
    BY <2>1, <2>2
<1> QED
  BY <1>4, <1>5, <1>6 DEF CountInv, Under

\* The same for the accept.
LEMMA QuietAccepts ==
  ASSUME ServerInv, Outstanding' = Outstanding, UNCHANGED <<cq, kind, dropped>>,
         \A c \in Channels : Moves(chan[c], chan'[c])
  PROVE  AcceptInv'
<1>1. \A c \in Channels : Live(c)' => Live(c)
  BY DEF Live, Moves
<1>2. Server \in Channels /\ Conns \subseteq Channels
  BY DEF Channels
<1>3. ASSUME NEW i \in 1..Len(cq), cq[i].op = AcceptOp
      PROVE  /\ cq[i].result \in Fds \cup {-1}
             /\ cq[i].result \in Fds =>
                  /\ \A c \in Channels : Live(c)' => chan'[c].fd # cq[i].result
                  /\ \E c \in Conns : chan'[c].phase = "none"
  BY <1>1, <1>2, <1>3 DEF Moves, ServerInv, AcceptInv
<1>4. chan'[Server].phase = "none" =>
        Outstanding' = {} /\ \A c \in Conns : chan'[c].phase = "none"
  BY <1>2 DEF Moves, ServerInv, AcceptInv
<1>5. /\ chan'[Server].phase \in {"none", "open"} => dropped' = {}
      /\ chan'[Server].phase = "open" /\ kind' = "tcp" => AcceptOp \in Outstanding'
  BY <1>2 DEF Moves, ServerInv, AcceptInv
<1> QED
  BY <1>3, <1>4, <1>5 DEF AcceptInv, AcceptOp

\* And for what the server waits for, unless it begins or ends its waiting.
LEMMA QuietCloses ==
  ASSUME ServerInv, \A c \in Channels : Moves(chan[c], chan'[c]),
         Closing(Server)' => Closing(Server),
         chan[Server].phase = "connections" => chan'[Server].phase = "connections"
  PROVE  CloseInv'
<1>1. Server \in Channels /\ Conns \subseteq Channels
  BY DEF Channels
<1> QED
  BY <1>1 DEF Moves, ServerInv, CloseInv, Closing

\* Together, for a step that keeps what is outstanding.
LEMMA QuietStep ==
  ASSUME ServerInv, RingInv(Operations, ResultsOfAll)', Outstanding' = Outstanding,
         UNCHANGED <<cq, kind, dropped>>,
         chan' \in [Channels -> ChannelFields],
         \A c \in Channels : ChannelOK(c, chan'[c]) /\ Moves(chan[c], chan'[c]),
         graceful' \in BOOLEAN, callback' \in BOOLEAN, failing' \in {failing, Server},
         CloseInv'
  PROVE  ServerInv'
<1>1. ServerTypes'
  <2>1. Server \in Channels
    BY DEF Channels
  <2>2. failing' \in Channels /\ (failing' # Server => chan'[failing'].phase # "none")
    BY <2>1 DEF ServerInv, ServerTypes, Moves
  <2> QED
    BY <2>2 DEF ServerInv, ServerTypes, ChannelOK, Live
<1>2. CountInv' /\ AcceptInv'
  BY QuietCounts, QuietAccepts
<1> QED
  BY <1>1, <1>2 DEF ServerInv

\* One channel moves on, the others stay.
LEMMA OneMoves ==
  ASSUME ServerInv, NEW c \in Channels, NEW next, ChannelOK(c, next), Moves(chan[c], next),
         chan' = [chan EXCEPT ![c] = next]
  PROVE  /\ chan' \in [Channels -> ChannelFields]
         /\ chan'[c] = next /\ \A d \in Channels : d # c => chan'[d] = chan[d]
         /\ \A d \in Channels : ChannelOK(d, chan'[d]) /\ Moves(chan[d], chan'[d])
<1>1. chan \in [Channels -> ChannelFields] /\ \A d \in Channels : ChannelOK(d, chan[d])
  BY DEF ServerInv, ServerTypes
<1>2. next \in ChannelFields
  BY DEF ChannelOK
<1>3. /\ chan' \in [Channels -> ChannelFields]
      /\ chan'[c] = next /\ \A d \in Channels : d # c => chan'[d] = chan[d]
  BY <1>1, <1>2
<1> QED
  BY <1>1, <1>3 DEF Moves

\* None moves.
LEMMA NoneMoves ==
  ASSUME ServerInv, chan' = chan
  PROVE  /\ chan' \in [Channels -> ChannelFields]
         /\ \A d \in Channels : ChannelOK(d, chan'[d]) /\ Moves(chan[d], chan'[d])
         /\ CloseInv'
<1>1. chan \in [Channels -> ChannelFields] /\ \A d \in Channels : ChannelOK(d, chan[d])
  BY DEF ServerInv, ServerTypes
<1>2. \A d \in Channels : Moves(chan[d], chan'[d])
  BY DEF Moves
<1>3. CloseInv'
  BY DEF ServerInv, CloseInv, Closing
<1> QED
  BY <1>1, <1>2, <1>3

\* The cancellation of any descriptors, or of none.
LEMMA CancelFdsKeeps ==
  ASSUME RingInv(Operations, ResultsOfAll), NEW fds, CancelFds(fds),
         UNCHANGED <<cq, waiting, batch>>
  PROVE  RingInv(Operations, ResultsOfAll)' /\ Outstanding' = Outstanding
<1>1. CASE fds = {}
  <2>1. UNCHANGED ringVars
    BY <1>1 DEF CancelFds, ringVars
  <2> QED
    BY <2>1, RingStutter
<1>2. CASE fds # {}
  <2>1. CancelEvents({op \in events : op[1] \in fds})
    BY <1>2 DEF CancelFds
  <2>2. waiting' \in BOOLEAN
    BY DEF RingInv
  <2> QED
    BY <2>1, <2>2, RingCancel
<1> QED
  BY <1>1, <1>2

-----------------------------------------------------------------------------
(* The steps of a close.                                                   *)

\* What the types say of one channel.
LEMMA ChannelIs ==
  ASSUME ServerInv, NEW c \in Channels
  PROVE  /\ ChannelOK(c, chan[c]) /\ chan[c] \in ChannelFields
         /\ chan \in [Channels -> ChannelFields]
BY DEF ServerInv, ServerTypes

LEMMA CloseConnectionKeeps ==
  ASSUME ServerInv, NEW c \in Conns, NEW gently \in BOOLEAN, CloseConnection(c, gently)
  PROVE  ServerInv'
<1>1. c \in Channels /\ c # Server
  BY ServerAssumption DEF Channels, Conns, Server
<1>2. PICK listens \in BOOLEAN :
        chan' = [chan EXCEPT ![c] = Begun(chan[c], gently, listens)]
  BY DEF CloseConnection
<1> DEFINE next == Begun(chan[c], gently, listens)
<1>3. ChannelOK(c, next) /\ Moves(chan[c], next)
  BY <1>1, ChannelIs, BegunMoves DEF CloseConnection
<1>4. /\ chan' \in [Channels -> ChannelFields]
      /\ \A d \in Channels : d # c => chan'[d] = chan[d]
      /\ \A d \in Channels : ChannelOK(d, chan'[d]) /\ Moves(chan[d], chan'[d])
  <2> HIDE DEF next
  <2>1. chan' = [chan EXCEPT ![c] = next]
    BY <1>2 DEF next
  <2> QED
    BY <1>1, <1>3, <2>1, OneMoves
<1>5. /\ UNCHANGED <<cq, waiting, batch, kind, graceful, dropped, callback, failing>>
      /\ CancelFds(Cancelled(c, gently))
  BY DEF CloseConnection, loopVars
<1>6. RingInv(Operations, ResultsOfAll)' /\ Outstanding' = Outstanding
  BY <1>5, CancelFdsKeeps DEF ServerInv
<1>7. chan'[Server] = chan[Server]
  BY <1>1, <1>4 DEF Channels
<1>8. CloseInv'
  BY <1>4, <1>7, QuietCloses DEF Closing
<1>9. graceful' \in BOOLEAN /\ callback' \in BOOLEAN /\ failing' \in {failing, Server}
  BY <1>5 DEF ServerInv, ServerTypes
<1> QED
  BY <1>4, <1>5, <1>6, <1>8, <1>9, QuietStep

\* What the close of the server waits for is all there is to wait for.
LEMMA CloseServerKeeps ==
  ASSUME ServerInv, NEW gently \in BOOLEAN, CloseServer(gently)
  PROVE  ServerInv'
<1> DEFINE Joined(c) == Closing(c) /\ ~chan[c].closer /\ chan[c].pending > 0
<1>1. PICK listening \in SUBSET {c \in Conns : chan[c].phase = "open"} :
        chan' = [c \in Channels |->
          IF c = Server THEN [chan[c] EXCEPT !.phase = "connections"]
          ELSE IF chan[c].phase = "open"
          THEN [Begun(chan[c], gently, c \in listening) EXCEPT !.awaited = "closed"]
          ELSE IF Joined(c)
          THEN [chan[c] EXCEPT !.awaited = "closer"]
          ELSE chan[c]]
  BY DEF CloseServer
<1>2. Server \in Channels /\ Conns \subseteq Channels /\ \A c \in Conns : c # Server
  BY DEF Channels, Conns, Server
<1>3. ASSUME NEW c \in Channels
      PROVE  /\ ChannelOK(c, chan'[c]) /\ Moves(chan[c], chan'[c])
             /\ c = Server => chan'[c].phase = "connections"
             /\ c # Server /\ chan'[c].awaited = "no" => chan'[c].pending = 0
  <2>1. ChannelOK(c, chan[c]) /\ chan[c] \in ChannelFields
    BY ChannelIs
  <2>2. CASE c = Server
    <3> DEFINE next == [chan[c] EXCEPT !.phase = "connections"]
    <3>1. chan[c].phase = "open" /\ chan'[c] = next
      BY <1>1, <2>2 DEF CloseServer
    <3>2. /\ next \in ChannelFields /\ next.phase = "connections"
          /\ next.fd = chan[c].fd /\ next.pending = chan[c].pending
          /\ next.closer = chan[c].closer /\ next.awaited = chan[c].awaited
      BY <2>1 DEF ChannelFields
    <3> HIDE DEF next
    <3> QED
      BY <2>1, <2>2, <3>1, <3>2 DEF ChannelOK, Moves
  <2>3. CASE c # Server /\ chan[c].phase = "open"
    <3> DEFINE listens == c \in listening
    <3>0. listens \in BOOLEAN
      OBVIOUS
    <3> DEFINE begun == Begun(chan[c], gently, listens)
               next == [begun EXCEPT !.awaited = "closed"]
    <3>1. chan'[c] = next
      BY <1>1, <2>3
    <3>2. ChannelOK(c, begun) /\ Moves(chan[c], begun)
      <4> HIDE DEF listens
      <4> QED
        BY <2>1, <2>3, <3>0, BegunMoves
    <3> HIDE DEF begun
    <3>3. /\ next \in ChannelFields /\ next.phase = begun.phase
          /\ next.fd = begun.fd /\ next.pending = begun.pending
          /\ next.closer = begun.closer /\ next.awaited = "closed"
      BY <3>2 DEF ChannelFields, ChannelOK
    <3> HIDE DEF next
    <3> QED
      BY <2>3, <3>1, <3>2, <3>3 DEF ChannelOK, Moves
  <2>4. CASE c # Server /\ chan[c].phase # "open" /\ Joined(c)
    <3> DEFINE next == [chan[c] EXCEPT !.awaited = "closer"]
    <3>1. chan'[c] = next
      BY <1>1, <2>4
    <3>2. /\ next \in ChannelFields /\ next.phase = chan[c].phase
          /\ next.fd = chan[c].fd /\ next.pending = chan[c].pending
          /\ next.closer = chan[c].closer /\ next.awaited = "closer"
      BY <2>1 DEF ChannelFields
    <3> HIDE DEF next
    <3> QED
      BY <2>1, <2>4, <3>1, <3>2 DEF ChannelOK, Moves
  <2>5. CASE c # Server /\ chan[c].phase # "open" /\ ~Joined(c)
    <3>1. chan'[c] = chan[c]
      BY <1>1, <2>5
    <3>2. chan[c].pending = 0
      BY <2>1, <2>5 DEF ChannelOK, ChannelFields, Closing
    <3> QED
      BY <2>1, <2>5, <3>1, <3>2 DEF Moves
  <2> QED
    BY <2>2, <2>3, <2>4, <2>5
<1>4. chan' \in [Channels -> ChannelFields]
  <2>1. DOMAIN chan' = Channels /\ chan' = [c \in Channels |-> chan'[c]]
    BY <1>1
  <2>2. \A c \in Channels : chan'[c] \in ChannelFields
    BY <1>3 DEF ChannelOK
  <2> QED
    BY <2>1, <2>2
<1>5. /\ UNCHANGED <<cq, waiting, batch, kind, dropped, callback, failing>>
      /\ CancelFds(UNION {Cancelled(c, gently) : c \in {d \in Conns : chan[d].phase = "open"}})
      /\ graceful' = gently
  BY DEF CloseServer, loopVars
<1>6. RingInv(Operations, ResultsOfAll)' /\ Outstanding' = Outstanding
  <2> DEFINE fds == UNION {Cancelled(c, gently) : c \in {d \in Conns : chan[d].phase = "open"}}
  <2>1. CancelFds(fds)
    BY <1>5
  <2> HIDE DEF fds
  <2> QED
    BY <1>5, <2>1, CancelFdsKeeps DEF ServerInv
<1>7. CloseInv'
  BY <1>2, <1>3 DEF CloseInv
<1>8. graceful' \in BOOLEAN /\ callback' \in BOOLEAN /\ failing' \in {failing, Server}
  BY <1>5 DEF ServerInv, ServerTypes
<1> QED
  BY <1>3, <1>4, <1>5, <1>6, <1>7, <1>8, QuietStep

\* Then no connection has anything under way.
LEMMA ConnectionsClosedKeeps ==
  ASSUME ServerInv, ConnectionsClosed
  PROVE  ServerInv'
<1>1. /\ Server \in Channels /\ Conns \subseteq Channels /\ \A c \in Conns : c # Server
      /\ chan[Server].phase = "connections" /\ \A c \in Conns : IsOver(c)
  BY DEF Channels, Conns, Server, ConnectionsClosed, ConnectionsReady
<1>2. PICK listens \in BOOLEAN :
        chan' = [chan EXCEPT ![Server] = Begun(chan[Server], graceful, listens)]
  BY DEF ConnectionsClosed
<1>3. graceful \in BOOLEAN
  BY DEF ServerInv, ServerTypes
<1> DEFINE next == Begun(chan[Server], graceful, listens)
<1>4. ChannelOK(Server, next) /\ Moves(chan[Server], next)
  BY <1>1, <1>3, ChannelIs, BegunMoves
<1>5. /\ chan' \in [Channels -> ChannelFields]
      /\ \A d \in Channels : d # Server => chan'[d] = chan[d]
      /\ \A d \in Channels : ChannelOK(d, chan'[d]) /\ Moves(chan[d], chan'[d])
  <2> HIDE DEF next
  <2>1. chan' = [chan EXCEPT ![Server] = next]
    BY <1>2 DEF next
  <2> QED
    BY <1>1, <1>4, <2>1, OneMoves
<1>6. /\ UNCHANGED <<cq, waiting, batch, kind, graceful, dropped, callback, failing>>
      /\ CancelFds(Cancelled(Server, graceful))
  BY DEF ConnectionsClosed, loopVars
<1>7. RingInv(Operations, ResultsOfAll)' /\ Outstanding' = Outstanding
  BY <1>6, CancelFdsKeeps DEF ServerInv
<1>8. \A c \in Conns : chan[c].pending = 0
  <2> TAKE c \in Conns
  <2>1. ChannelOK(c, chan[c]) /\ chan[c].awaited \in {"no", "closed", "closer"}
    BY <1>1, ChannelIs DEF ChannelFields
  <2>2. CASE chan[c].awaited = "no"
    BY <1>1, <2>2 DEF ServerInv, CloseInv, Closing
  <2>3. CASE chan[c].awaited = "closed"
    BY <1>1, <2>1, <2>3 DEF IsOver, ChannelOK
  <2>4. CASE chan[c].awaited = "closer"
    BY <1>1, <2>1, <2>4 DEF IsOver, ChannelOK
  <2> QED
    BY <2>1, <2>2, <2>3, <2>4
<1>9. CloseInv'
  BY <1>1, <1>5, <1>8 DEF CloseInv
<1>10. graceful' \in BOOLEAN /\ callback' \in BOOLEAN /\ failing' \in {failing, Server}
  BY <1>6 DEF ServerInv, ServerTypes
<1> QED
  BY <1>5, <1>6, <1>7, <1>9, <1>10, QuietStep

\* The later steps of the close of a channel of either kind.
LEMMA LaterCloseKeeps ==
  ASSUME ServerInv, NEW c \in Channels, NEW next, ChannelOK(c, next), Moves(chan[c], next),
         chan[c].phase \notin {"none", "open", "connections"},
         chan' = [chan EXCEPT ![c] = next],
         RingInv(Operations, ResultsOfAll)', Outstanding' = Outstanding, cq' = cq,
         UNCHANGED <<kind, graceful, dropped, callback, failing>>
  PROVE  ServerInv'
<1>1. /\ chan' \in [Channels -> ChannelFields]
      /\ \A d \in Channels : d # c => chan'[d] = chan[d]
      /\ \A d \in Channels : ChannelOK(d, chan'[d]) /\ Moves(chan[d], chan'[d])
  BY OneMoves
<1>2. Server \in Channels
  BY DEF Channels
<1>3. Closing(Server)' => Closing(Server)
  BY <1>1, <1>2 DEF Closing
<1>4. chan[Server].phase = "connections" => chan'[Server].phase = "connections"
  BY <1>1, <1>2
<1>5. CloseInv'
  BY <1>1, <1>3, <1>4, QuietCloses
<1>6. graceful' \in BOOLEAN /\ callback' \in BOOLEAN /\ failing' \in {failing, Server}
  BY DEF ServerInv, ServerTypes
<1> QED
  BY <1>1, <1>5, <1>6, QuietStep

LEMMA GraceTimeoutKeeps ==
  ASSUME ServerInv, NEW c \in Channels, GraceTimeout(c)
  PROVE  ServerInv'
<1> DEFINE next == [chan[c] EXCEPT !.active = FALSE, !.phase = "awaitCloser"]
<1>1. ChannelOK(c, chan[c]) /\ chan[c] \in ChannelFields /\ chan \in [Channels -> ChannelFields]
  BY ChannelIs
<1>2. chan[c].phase = "grace"
  BY DEF GraceTimeout
<1>3. /\ next \in ChannelFields /\ next.phase = "awaitCloser"
      /\ next.fd = chan[c].fd /\ next.pending = chan[c].pending
      /\ next.closer = chan[c].closer /\ next.awaited = chan[c].awaited
  BY <1>1 DEF ChannelFields
<1>4. chan' = [chan EXCEPT ![c] = next]
  BY <1>1 DEF GraceTimeout
<1> HIDE DEF next
<1>5. ChannelOK(c, next) /\ Moves(chan[c], next)
  BY <1>1, <1>2, <1>3 DEF ChannelOK, Moves
<1>6. /\ CancelFds({chan[c].fd})
      /\ UNCHANGED <<cq, waiting, batch, kind, graceful, dropped, callback, failing>>
  BY DEF GraceTimeout, loopVars
<1>7. RingInv(Operations, ResultsOfAll)' /\ Outstanding' = Outstanding
  BY <1>6, CancelFdsKeeps DEF ServerInv
<1> QED
  BY <1>2, <1>4, <1>5, <1>6, <1>7, LaterCloseKeeps

LEMMA CloserCompletedKeeps ==
  ASSUME ServerInv, NEW c \in Channels, CloserCompleted(c)
  PROVE  ServerInv'
<1>1. PICK listens \in BOOLEAN : chan' = [chan EXCEPT ![c] = Left(chan[c], listens)]
  BY DEF CloserCompleted
<1> DEFINE next == Left(chan[c], listens)
<1>2. chan[c].phase \in {"grace", "awaitCloser"} /\ chan[c].closer
  BY DEF CloserCompleted, CloserReady
<1>3. ChannelOK(c, next) /\ Moves(chan[c], next)
  BY <1>2, ChannelIs, LeftMoves DEF ChannelOK
<1>4. UNCHANGED <<ringVars, kind, graceful, dropped, callback, failing>>
  BY DEF CloserCompleted
<1>5. RingInv(Operations, ResultsOfAll)' /\ Outstanding' = Outstanding /\ cq' = cq
  BY <1>4, RingStutter DEF ServerInv, ringVars
<1>6. chan' = [chan EXCEPT ![c] = next]
  BY <1>1
<1> HIDE DEF next
<1> QED
  BY <1>2, <1>3, <1>4, <1>5, <1>6, LaterCloseKeeps

LEMMA InboundDrainedKeeps ==
  ASSUME ServerInv, NEW c \in Channels, InboundDrained(c)
  PROVE  ServerInv'
<1> DEFINE next == [chan[c] EXCEPT !.phase = "closed"]
<1>1. ChannelOK(c, chan[c]) /\ chan[c] \in ChannelFields /\ chan \in [Channels -> ChannelFields]
  BY ChannelIs
<1>2. chan[c].phase = "inbound"
  BY DEF InboundDrained
<1>3. /\ next \in ChannelFields /\ next.phase = "closed"
      /\ next.fd = chan[c].fd /\ next.pending = chan[c].pending
      /\ next.closer = chan[c].closer /\ next.awaited = chan[c].awaited
  BY <1>1 DEF ChannelFields
<1>4. chan' = [chan EXCEPT ![c] = next]
  BY <1>1 DEF InboundDrained
<1> HIDE DEF next
<1>5. ChannelOK(c, next) /\ Moves(chan[c], next)
  BY <1>1, <1>2, <1>3 DEF ChannelOK, Moves
<1>6. UNCHANGED <<ringVars, kind, graceful, dropped, callback, failing>>
  BY DEF InboundDrained
<1>7. RingInv(Operations, ResultsOfAll)' /\ Outstanding' = Outstanding /\ cq' = cq
  BY <1>6, RingStutter DEF ServerInv, ringVars
<1> QED
  BY <1>2, <1>4, <1>5, <1>6, <1>7, LaterCloseKeeps

\* After onError of a failed write, if the connection is still open.
LEMMA FailedWriteClosesKeeps ==
  ASSUME ServerInv, FailedWriteCloses
  PROVE  ServerInv'
<1> DEFINE c == failing
<1>1. /\ c \in Channels /\ c # Server /\ chan[c].phase # "none"
      /\ Server \in Channels
  BY DEF FailedWriteCloses, ServerInv, ServerTypes, Channels
<1>2. /\ UNCHANGED <<cq, waiting, batch, kind, graceful, dropped>>
      /\ failing' = Server /\ callback' = FALSE
  BY DEF FailedWriteCloses, loopVars
<1>3. graceful' \in BOOLEAN /\ callback' \in BOOLEAN /\ failing' \in {failing, Server}
  BY <1>2 DEF ServerInv, ServerTypes
<1>4. CASE Closing(c)
  <2>1. chan' = chan /\ UNCHANGED ringVars
    BY <1>2, <1>4 DEF FailedWriteCloses, ringVars
  <2>2. RingInv(Operations, ResultsOfAll)' /\ Outstanding' = Outstanding
    BY <2>1, RingStutter DEF ServerInv
  <2> QED
    BY <1>2, <1>3, <2>1, <2>2, NoneMoves, QuietStep
<1>5. CASE ~Closing(c)
  <2>1. chan[c].phase = "open"
    BY <1>1, <1>5 DEF Closing
  <2>2. PICK listens \in BOOLEAN :
          chan' = [chan EXCEPT ![c] = Begun(chan[c], FALSE, listens)]
    BY <1>5 DEF FailedWriteCloses
  <2>3. CancelFds(Cancelled(c, FALSE))
    BY <1>5 DEF FailedWriteCloses
  <2> DEFINE next == Begun(chan[c], FALSE, listens)
  <2>4. ChannelOK(c, next) /\ Moves(chan[c], next)
    BY <1>1, <2>1, ChannelIs, BegunMoves
  <2>5. chan' = [chan EXCEPT ![c] = next]
    BY <2>2
  <2> HIDE DEF next, c
  <2>6. /\ chan' \in [Channels -> ChannelFields]
        /\ \A d \in Channels : d # c => chan'[d] = chan[d]
        /\ \A d \in Channels : ChannelOK(d, chan'[d]) /\ Moves(chan[d], chan'[d])
    BY <1>1, <2>4, <2>5, OneMoves
  <2>7. RingInv(Operations, ResultsOfAll)' /\ Outstanding' = Outstanding
    BY <1>2, <2>3, CancelFdsKeeps DEF ServerInv
  <2>8. chan'[Server] = chan[Server]
    BY <1>1, <2>6
  <2>9. CloseInv'
    BY <2>6, <2>8, QuietCloses DEF Closing
  <2> QED
    BY <1>2, <1>3, <2>6, <2>7, <2>9, QuietStep
<1> QED
  BY <1>4, <1>5

-----------------------------------------------------------------------------
(* Calls and the kernel.                                                   *)

\* The factories, when nothing has happened yet.
LEMMA OpenKeeps ==
  ASSUME ServerInv, Open
  PROVE  ServerInv'
<1>1. /\ Server \in Channels /\ Conns \subseteq Channels /\ \A c \in Conns : c # Server
      /\ \A c \in Channels : c = Server \/ c \in Conns
  BY DEF Channels, Conns, Server
<1>2. /\ chan[Server].phase = "none" /\ Outstanding = {}
      /\ \A c \in Conns : chan[c].phase = "none"
      /\ dropped = {}
  BY DEF Open, ServerInv, AcceptInv
<1> DEFINE next == [chan[Server] EXCEPT !.phase = "open"]
           ops == IF kind = "tcp" THEN {AcceptOp} ELSE {}
<1>3. /\ ChannelOK(Server, chan[Server]) /\ chan[Server] \in ChannelFields
      /\ chan \in [Channels -> ChannelFields]
  BY <1>1, ChannelIs
<1>4. /\ next \in ChannelFields /\ next.phase = "open"
      /\ next.fd = chan[Server].fd /\ next.pending = chan[Server].pending
      /\ next.closer = chan[Server].closer /\ next.awaited = chan[Server].awaited
  BY <1>3 DEF ChannelFields
<1>5. chan' = [chan EXCEPT ![Server] = next]
  BY <1>3 DEF Open
<1>6. ops \in SUBSET Operations /\ ops \cap Outstanding = {} /\ ops \subseteq {AcceptOp}
      /\ (kind = "tcp" => AcceptOp \in ops)
  BY <1>2 DEF Operations
<1>7. Prepare(ops) /\ UNCHANGED <<cq, waiting, batch, kind, graceful, dropped, callback, failing>>
  BY DEF Open, loopVars
<1> HIDE DEF next, ops
<1>8. ChannelOK(Server, next) /\ next.pending = 0 /\ next.fd = ListenFd
  BY <1>2, <1>3, <1>4 DEF ChannelOK
<1>9. RingInv(Operations, ResultsOfAll)' /\ Outstanding' = ops
  BY <1>2, <1>6, <1>7, RingPrepare DEF ServerInv
<1>10. /\ chan' \in [Channels -> ChannelFields] /\ chan'[Server] = next
       /\ \A c \in Conns : chan'[c] = chan[c]
  BY <1>1, <1>3, <1>4, <1>5
<1>11. ServerTypes'
  BY <1>1, <1>7, <1>8, <1>10 DEF ServerInv, ServerTypes
<1>12. \A fd : Under(fd)' = {}
  BY <1>6, <1>9 DEF Under, AcceptOp
<1>13. \A c \in Channels : Live(c)' => c = Server
  BY <1>1, <1>2, <1>10 DEF Live
<1>14. CountInv'
  <2>1. \A c \in Channels : Live(c)' => chan'[c].pending = Cardinality(Under(chan[c].fd)')
    BY <1>8, <1>10, <1>12, <1>13, FS_EmptySet
  <2>2. \A c \in Channels : Live(c)' => chan'[c].fd = chan[c].fd
    BY <1>4, <1>10, <1>13
  <2> QED
    BY <1>12, <1>13, <2>1, <2>2 DEF CountInv, Under
<1>15. cq = <<>>
  <2>1. Completed = {}
    BY <1>2 DEF Outstanding
  <2>2. Cardinality(Completed) = Len(cq)
    BY CompletedCount DEF ServerInv, RingInv
  <2>3. Len(cq) = 0
    BY <2>1, <2>2, FS_EmptySet
  <2> QED
    BY <2>3, EmptySeq DEF ServerInv, RingInv
<1>16. AcceptInv'
  BY <1>2, <1>4, <1>6, <1>7, <1>9, <1>10, <1>15 DEF AcceptInv, AcceptOp
<1>17. CloseInv'
  BY <1>4, <1>10 DEF CloseInv, Closing
<1> QED
  BY <1>9, <1>11, <1>14, <1>16, <1>17 DEF ServerInv

\* The requests of one call: as many as it has buffers, all new, all on the
\* descriptor of its channel.
LEMMA CallOperations ==
  ASSUME ServerInv, NEW c \in Channels, chan[c].phase = "open",
         NEW event \in Events(c), NEW got \in SUBSET Unused
  PROVE  LET ops == {<<chan[c].fd, event, b>> : b \in got}
         IN  /\ ops \subseteq DataOps /\ ops \cap Outstanding = {}
             /\ IsFiniteSet(got) /\ IsFiniteSet(ops) /\ Cardinality(ops) = Cardinality(got)
             /\ \A op \in ops : op[1] = chan[c].fd /\ op # AcceptOp
<1> DEFINE fd == chan[c].fd
           ops == {<<fd, event, b>> : b \in got}
           f == [b \in got |-> <<fd, event, b>>]
<1>1. got \subseteq Buffers /\ \A b \in got, op \in Outstanding : op[3] # b
  BY DEF Unused
<1>2. /\ event \in {"read", "write"} => fd \in Fds
      /\ event \in {"receive", "send"} => fd = ListenFd
      /\ event \in {"read", "write", "receive", "send"}
  <2>1. ChannelOK(c, chan[c])
    BY ChannelIs
  <2>2. c # Server => event \in {"read", "write"} /\ fd \in Fds
    BY <2>1 DEF Events, ChannelOK
  <2>3. c = Server => event \in {"receive", "send"} /\ fd = ListenFd
    BY <2>1 DEF Events, ChannelOK
  <2> QED
    BY <2>2, <2>3
<1> HIDE DEF fd
<1>3. ops \subseteq DataOps
  BY <1>1, <1>2 DEF DataOps
<1>4. ops \cap Outstanding = {}
  BY <1>1
<1>5. IsFiniteSet(got)
  BY <1>1, ServerAssumption, FS_Subset
<1>6. f \in Surjection(got, ops) /\ f \in Injection(got, ops)
  BY DEF Surjection, Injection, IsInjective
<1>7. IsFiniteSet(ops) /\ Cardinality(ops) = Cardinality(got)
  <2> HIDE DEF f, ops
  <2> QED
    BY <1>5, <1>6, FS_Surjection
<1>8. \A op \in ops : op[1] = fd /\ op # AcceptOp
  BY <1>3, DataOpFields
<1> QED
  BY <1>3, <1>4, <1>5, <1>7, <1>8 DEF fd

LEMMA CallKeeps ==
  ASSUME ServerInv, NEW c \in Channels, Call(c)
  PROVE  ServerInv'
<1>1. PICK event \in Events(c), got \in SUBSET Unused : Issue(c, event, got)
  BY DEF Call
<1>2. /\ chan[c].phase = "open" /\ ~Closing(Server)
      /\ UNCHANGED <<cq, waiting, batch, kind, graceful, dropped, callback, failing>>
  BY DEF Call, loopVars
<1> DEFINE fd == chan[c].fd
           ops == {<<fd, event, b>> : b \in got}
           n == chan[c].pending + Cardinality(got)
           next == [chan[c] EXCEPT !.pending = n]
<1>3. /\ ops \subseteq DataOps /\ ops \cap Outstanding = {}
      /\ IsFiniteSet(got) /\ IsFiniteSet(ops) /\ Cardinality(ops) = Cardinality(got)
      /\ \A op \in ops : op[1] = fd /\ op # AcceptOp
  BY <1>2, CallOperations
<1>4. /\ ChannelOK(c, chan[c]) /\ chan[c] \in ChannelFields
      /\ chan \in [Channels -> ChannelFields]
  BY ChannelIs
<1>5. chan' = [chan EXCEPT ![c] = next] /\ Prepare(ops)
  BY <1>1, <1>4 DEF Issue
<1>6. n \in Nat
  BY <1>3, <1>4, FS_CardinalityType DEF ChannelFields
<1>7. n = chan[c].pending + Cardinality(ops)
  BY <1>3
<1> HIDE DEF n, ops
<1>8. /\ next \in ChannelFields /\ next.phase = "open" /\ next.fd = fd /\ next.pending = n
      /\ next.closer = chan[c].closer /\ next.awaited = chan[c].awaited
  BY <1>2, <1>4, <1>6 DEF ChannelFields
<1> HIDE DEF next
<1>9. ChannelOK(c, next)
  BY <1>2, <1>4, <1>8 DEF ChannelOK
<1>10. RingInv(Operations, ResultsOfAll)' /\ Outstanding' = Outstanding \cup ops
  BY <1>2, <1>3, <1>5, RingPrepare DEF ServerInv, Operations
<1>11. /\ chan' \in [Channels -> ChannelFields] /\ chan'[c] = next
       /\ \A d \in Channels : d # c => chan'[d] = chan[d]
       /\ \A d \in Channels : chan'[d].fd = chan[d].fd /\ chan'[d].phase = chan[d].phase
  BY <1>2, <1>4, <1>5, <1>8
<1>12. ServerTypes'
  BY <1>2, <1>9, <1>11 DEF ServerInv, ServerTypes
<1>13. /\ \A d \in Channels : Live(d)' <=> Live(d)
       /\ Live(c)
  BY <1>2, <1>11 DEF Live
<1>14. /\ \A number : number = fd => Under(number)' = Under(number) \cup ops
       /\ \A number : number # fd => Under(number)' = Under(number)
  BY <1>3, <1>10 DEF Under
<1>15. Cardinality(Under(fd) \cup ops) = Cardinality(Under(fd)) + Cardinality(ops)
  <2>1. Under(fd) \cap ops = {} /\ IsFiniteSet(Under(fd))
    BY <1>3, FiniteUnder DEF Under, ServerInv
  <2>2. Cardinality(Under(fd) \cup ops) = Cardinality(Under(fd)) + Cardinality(ops)
                                            - Cardinality(Under(fd) \cap ops)
    BY <1>3, <2>1, FS_Union
  <2>3. Cardinality(Under(fd) \cap ops) = 0
    BY <2>1, FS_EmptySet
  <2>4. Cardinality(Under(fd)) \in Nat /\ Cardinality(ops) \in Nat
    BY <1>3, <2>1, FS_CardinalityType
  <2> QED
    BY <2>2, <2>3, <2>4
<1>16. ASSUME NEW d \in Channels, Live(d)
       PROVE  chan'[d].pending = Cardinality(Under(chan[d].fd)')
  <2>1. chan[d].pending = Cardinality(Under(chan[d].fd))
    BY <1>16 DEF ServerInv, CountInv
  <2>2. CASE d = c
    <3>1. Under(chan[d].fd)' = Under(fd) \cup ops
      <4> DEFINE number == chan'[d].fd
      <4>1. number = fd
        BY <1>11, <2>2
      <4> HIDE DEF number
      <4>2. {op \in Outstanding' : op[1] = number /\ op # AcceptOp} = Under(fd) \cup ops
        BY <1>3, <1>10, <4>1 DEF Under
      <4> QED
        BY <4>2 DEF Under, AcceptOp, number
    <3> QED
      BY <1>7, <1>8, <1>11, <1>15, <2>1, <2>2, <3>1
  <2>3. CASE d # c
    <3>1. chan[d].fd # fd
      BY <1>13, <1>16, <2>3 DEF ServerInv, CountInv
    <3>2. Under(chan[d].fd)' = Under(chan[d].fd)
      BY <1>3, <1>10, <1>11, <3>1 DEF Under
    <3> QED
      BY <1>11, <2>1, <2>3, <3>2
  <2> QED
    BY <2>2, <2>3
<1>17. CountInv'
  <2>1. \A d \in Channels : Live(d)' => chan'[d].pending = Cardinality({op \in Outstanding' :
                                           op[1] = chan'[d].fd /\ op # AcceptOp})
    BY <1>11, <1>13, <1>16 DEF Under, AcceptOp
  <2>2. \A number \in Fds \cup {ListenFd} :
          (\A d \in Channels : Live(d)' => chan'[d].fd # number) => Under(number)' = {}
    BY <1>11, <1>13, <1>14 DEF ServerInv, CountInv
  <2>3. \A d, e \in Channels : Live(d)' /\ Live(e)' /\ chan'[d].fd = chan'[e].fd => d = e
    BY <1>11, <1>13 DEF ServerInv, CountInv
  <2> QED
    BY <2>1, <2>2, <2>3 DEF CountInv, Under, AcceptOp
<1>18. Server \in Channels /\ Conns \subseteq Channels /\ (c = Server \/ c \in Conns)
  BY DEF Channels
<1>19. chan[Server].phase = "open"
  <2>1. chan[Server].phase # "none"
    BY <1>2, <1>18 DEF ServerInv, AcceptInv
  <2> QED
    BY <1>2, <2>1 DEF Closing
<1>20. AcceptInv'
  <2>1. \A i \in 1..Len(cq) : cq[i].op = AcceptOp =>
          /\ cq[i].result \in Fds \cup {-1}
          /\ cq[i].result \in Fds =>
               /\ \A d \in Channels : Live(d)' => chan'[d].fd # cq[i].result
               /\ \E d \in Conns : chan'[d].phase = "none"
    BY <1>11, <1>13, <1>18 DEF ServerInv, AcceptInv
  <2>2. dropped = {} /\ (kind = "tcp" => AcceptOp \in Outstanding)
    BY <1>19 DEF ServerInv, AcceptInv
  <2> QED
    BY <1>2, <1>10, <1>11, <1>18, <1>19, <2>1, <2>2 DEF AcceptInv, AcceptOp
<1>21. CloseInv'
  BY <1>11, <1>18, <1>19 DEF CloseInv, Closing
<1> QED
  BY <1>10, <1>12, <1>17, <1>20, <1>21 DEF ServerInv

LEMMA PeekKeeps == ServerInv /\ Peek => ServerInv'
<1> SUFFICES ASSUME ServerInv, Peek PROVE ServerInv'
  OBVIOUS
<1>1. PeekSubmit /\ UNCHANGED serverVars /\ cq' = cq
  BY DEF Peek, PeekSubmit
<1>2. RingInv(Operations, ResultsOfAll)' /\ Outstanding' = Outstanding
  BY <1>1, RingPeek DEF ServerInv
<1>3. graceful' \in BOOLEAN /\ callback' \in BOOLEAN /\ failing' \in {failing, Server}
  BY <1>1 DEF ServerInv, ServerTypes, serverVars
<1> QED
  BY <1>1, <1>2, <1>3, NoneMoves, QuietStep DEF serverVars

LEMMA CollectKeeps == ServerInv /\ Collect => ServerInv'
<1> SUFFICES ASSUME ServerInv, Collect PROVE ServerInv'
  OBVIOUS
<1>1. PeekCollect /\ UNCHANGED serverVars /\ cq' = cq
  BY DEF Collect, PeekCollect
<1>2. RingInv(Operations, ResultsOfAll)' /\ Outstanding' = Outstanding
  BY <1>1, RingCollect DEF ServerInv
<1>3. graceful' \in BOOLEAN /\ callback' \in BOOLEAN /\ failing' \in {failing, Server}
  BY <1>1 DEF ServerInv, ServerTypes, serverVars
<1> QED
  BY <1>1, <1>2, <1>3, NoneMoves, QuietStep DEF serverVars

\* A new completion of an accept brings a number that nobody has open.
LEMMA KernelKeeps ==
  ASSUME ServerInv, NEW op \in inflight, Kernel(op)
  PROVE  ServerInv'
<1>1. PICK result \in Results(op) : Complete(op, result)
  BY DEF Kernel
<1>2. /\ UNCHANGED serverVars
      /\ cq' = Append(cq, [op |-> op, result |-> result])
  BY <1>1 DEF Kernel, Complete
<1>3. result \in ResultsOfAll
  BY DEF Results, ResultsOfAll
<1>4. RingInv(Operations, ResultsOfAll)' /\ Outstanding' = Outstanding
  BY <1>1, <1>3, RingComplete DEF ServerInv
<1>5. ServerTypes' /\ CloseInv'
  BY <1>2 DEF ServerInv, ServerTypes, CloseInv, Closing, serverVars
<1>6. CountInv'
  BY <1>2, <1>4, NoneMoves, QuietCounts DEF serverVars
<1>7. cq \in Seq([op : Operations, result : ResultsOfAll]) /\ Len(cq) \in Nat
  BY LenProperties DEF ServerInv, RingInv
<1>8. /\ Len(cq') = Len(cq) + 1
      /\ \A i \in 1..Len(cq) : cq'[i] = cq[i]
      /\ cq'[Len(cq) + 1] = [op |-> op, result |-> result]
  <2>1. op \in Operations
    BY DEF ServerInv, RingInv
  <2> QED
    BY <1>2, <1>3, <1>7, <2>1, AppendProperties
<1>9. op = AcceptOp =>
        /\ result \in Fds \cup {-1}
        /\ result \in Fds =>
             /\ \A c \in Channels : Live(c) => chan[c].fd # result
             /\ \E c \in Conns : chan[c].phase = "none"
  <2> SUFFICES ASSUME op = AcceptOp, result # -1
               PROVE  /\ result \in Fds /\ result \notin OpenFds
                      /\ \E c \in Conns : chan[c].phase = "none"
    BY ServerAssumption DEF OpenFds, Channels, Results, Server, ListenFd, Conns,
       ServerInv, ServerTypes, ChannelOK
  <2> QED
    BY DEF Results
<1>10. \A i \in 1..Len(cq') : cq'[i].op = AcceptOp =>
         /\ cq'[i].result \in Fds \cup {-1}
         /\ cq'[i].result \in Fds =>
              /\ \A c \in Channels : Live(c) => chan[c].fd # cq'[i].result
              /\ \E c \in Conns : chan[c].phase = "none"
  <2> TAKE i \in 1..Len(cq')
  <2>1. CASE i \in 1..Len(cq)
    BY <1>8, <2>1 DEF ServerInv, AcceptInv
  <2>2. CASE i = Len(cq) + 1
    BY <1>8, <1>9, <2>2
  <2> QED
    BY <1>7, <1>8, <2>1, <2>2
<1>11. AcceptInv'
  BY <1>2, <1>4, <1>10 DEF ServerInv, AcceptInv, AcceptOp, serverVars, Live
<1> QED
  BY <1>4, <1>5, <1>6, <1>11 DEF ServerInv

-----------------------------------------------------------------------------
(* The completion loop.                                                    *)

LEMMA HandleAcceptKeeps == ServerInv /\ HandleAccept => ServerInv'
<1> SUFFICES ASSUME ServerInv, HandleAccept PROVE ServerInv'
  OBVIOUS
<1> DEFINE fd == Head(cq).result
<1>1. /\ NextCqe /\ failing = Server /\ Head(cq).op = AcceptOp
      /\ UNCHANGED <<kind, graceful, failing>>
  BY DEF HandleAccept
<1>2. /\ 1 \in 1..Len(cq) /\ Head(cq) = cq[1]
      /\ \A i \in 1..Len(cq') : cq'[i].op # AcceptOp
  BY <1>1, TakenTail DEF ServerInv
<1>3. /\ fd \in Fds \cup {-1}
      /\ fd \in Fds => /\ \A c \in Channels : Live(c) => chan[c].fd # fd
                       /\ \E c \in Conns : chan[c].phase = "none"
  BY <1>1, <1>2 DEF ServerInv, AcceptInv
<1>4. AcceptOp \in Outstanding
  <2>1. cq[1].op \in Completed
    BY <1>2 DEF Completed
  <2> QED
    BY <1>1, <1>2, <2>1 DEF Outstanding
<1>5. /\ Server \in Channels /\ Conns \subseteq Channels /\ \A c \in Conns : c # Server
      /\ \A n \in Conns : n \in Nat
  BY ServerAssumption DEF Channels, Conns, Server
<1>6. chan[Server].phase # "none"
  BY <1>4 DEF ServerInv, AcceptInv
<1> HIDE DEF fd
<1>7. CASE chan[Server].phase = "open" /\ Prepare({AcceptOp}) /\ dropped' = dropped /\ fd > 0
           /\ callback' \in BOOLEAN
           /\ chan' = [chan EXCEPT ![Min({c \in Conns : chan[c].phase = "none"})] = Fresh(fd)]
  <2>1. fd \in Fds
    BY <1>3, <1>7
  <2>2. Min({c \in Conns : chan[c].phase = "none"}) \in {c \in Conns : chan[c].phase = "none"}
    <3> DEFINE S == {c \in Conns : chan[c].phase = "none"}
    <3>1. S # {} /\ S \in SUBSET Nat
      BY <1>3, <1>5, <2>1
    <3> HIDE DEF S
    <3>2. Min(S) \in S
      BY <3>1, MinIsElement
    <3> QED
      BY <3>2 DEF S
  <2>3. PICK new \in Conns : /\ chan[new].phase = "none"
                             /\ chan' = [chan EXCEPT ![new] = Fresh(fd)]
    BY <1>7, <2>2
  <2> DEFINE k == Fresh(fd)
  <2>4. /\ k \in ChannelFields /\ k.fd = fd /\ k.pending = 0 /\ k.phase = "open"
        /\ k.closer = FALSE /\ k.awaited = "no"
    BY <2>1 DEF Fresh, ChannelFields
  <2>5. chan' = [chan EXCEPT ![new] = k]
    BY <2>3
  <2> HIDE DEF k
  <2>6. ChannelOK(new, k)
    BY <1>5, <2>1, <2>3, <2>4 DEF ChannelOK
  <2>7. /\ chan' \in [Channels -> ChannelFields] /\ chan'[new] = k
        /\ \A d \in Channels : d # new => chan'[d] = chan[d]
        /\ chan'[Server] = chan[Server]
    BY <1>5, <2>3, <2>4, <2>5, ChannelIs
  <2>8. RingInv(Operations, ResultsOfAll)' /\ Outstanding' = Outstanding
    BY <1>1, <1>7, RingTakeAgain DEF ServerInv
  <2>9. ServerTypes'
    BY <1>1, <1>5, <1>7, <2>6, <2>7 DEF ServerInv, ServerTypes
  <2>10. \A number : Under(number)' = Under(number)
    BY <2>8 DEF Under
  <2>11. \A d \in Channels : d # new => (Live(d)' <=> Live(d))
    BY <2>7 DEF Live
  <2>12. Live(new)' /\ ~Live(new)
    BY <1>5, <2>3, <2>4, <2>7 DEF Live
  <2>13. Under(fd) = {}
    BY <1>3, <2>1 DEF ServerInv, CountInv
  <2>14. CountInv'
    <3>1. ASSUME NEW c \in Channels, NEW d \in Channels, Live(c)', Live(d)',
                 chan'[c].fd = chan'[d].fd
          PROVE  c = d
      BY <1>3, <2>1, <2>4, <2>7, <2>11, <3>1 DEF ServerInv, CountInv
    <3>2. ASSUME NEW d \in Channels, Live(d)'
          PROVE  chan'[d].pending = Cardinality(Under(chan[d].fd)')
      <4>1. CASE d = new
        <5> DEFINE number == chan'[d].fd
        <5>1. number = fd
          BY <2>4, <2>7, <4>1
        <5>2. {op \in Outstanding' : op[1] = fd /\ op # AcceptOp} = {}
          BY <2>8, <2>13 DEF Under
        <5>3. Cardinality({op \in Outstanding' : op[1] = number /\ op # AcceptOp}) = 0
          <6> HIDE DEF number
          <6> QED
            BY <5>1, <5>2, FS_EmptySet
        <5> QED
          BY <2>4, <2>7, <4>1, <5>3 DEF Under, AcceptOp, number
      <4>2. CASE d # new
        <5>1. chan[d].pending = Cardinality(Under(chan[d].fd))
          BY <2>11, <3>2, <4>2 DEF ServerInv, CountInv
        <5>2. Under(chan[d].fd)' = Under(chan[d].fd)
          BY <2>7, <2>8, <4>2 DEF Under
        <5> QED
          BY <2>7, <4>2, <5>1, <5>2
      <4> QED
        BY <4>1, <4>2
    <3>3. ASSUME NEW number \in Fds \cup {ListenFd},
                 \A c \in Channels : Live(c)' => chan'[c].fd # number
          PROVE  Under(number)' = {}
      BY <2>7, <2>10, <2>11, <2>12, <3>3 DEF ServerInv, CountInv
    <3> QED
      BY <3>1, <3>2, <3>3 DEF CountInv, Under, AcceptOp
  <2>15. AcceptInv'
    <3>1. dropped = {}
      BY <1>7 DEF ServerInv, AcceptInv
    <3> QED
      BY <1>2, <1>4, <1>7, <2>7, <2>8, <3>1 DEF AcceptInv, AcceptOp
  <2>16. CloseInv'
    BY <1>7, <2>7 DEF CloseInv, Closing
  <2> QED
    BY <2>8, <2>9, <2>14, <2>15, <2>16 DEF ServerInv
<1>8. CASE chan[Server].phase = "open" /\ Prepare({AcceptOp}) /\ dropped' = dropped
           /\ callback' \in BOOLEAN /\ chan' = chan
  <2>1. RingInv(Operations, ResultsOfAll)' /\ Outstanding' = Outstanding
    BY <1>1, <1>8, RingTakeAgain DEF ServerInv
  <2>2. ServerTypes' /\ CloseInv'
    BY <1>1, <1>8 DEF ServerInv, ServerTypes, CloseInv, Closing
  <2>3. CountInv'
    BY <1>8, <2>1, NoneMoves, QuietCounts
  <2>4. AcceptInv'
    BY <1>2, <1>4, <1>6, <1>8, <2>1 DEF ServerInv, AcceptInv, AcceptOp
  <2> QED
    BY <2>1, <2>2, <2>3, <2>4 DEF ServerInv
<1>9. CASE /\ chan[Server].phase # "open" /\ RemoveEvent /\ callback' = FALSE
           /\ dropped' = dropped \cup ({fd} \cap Fds)
           /\ UNCHANGED <<queued, inflight, cancelled, chan>>
  <2>1. RingInv(Operations, ResultsOfAll)' /\ Outstanding' = Outstanding \ {AcceptOp}
    BY <1>1, <1>9, RingTake DEF ServerInv
  <2>2. ServerTypes' /\ CloseInv'
    BY <1>1, <1>9 DEF ServerInv, ServerTypes, CloseInv, Closing
  <2>3. \A number : Under(number)' = Under(number)
    BY <2>1 DEF Under, AcceptOp
  <2>4. CountInv'
    <3>1. \A d \in Channels : Live(d)' <=> Live(d)
      BY <1>9 DEF Live
    <3>2. \A d \in Channels : Under(chan[d].fd)' = Under(chan[d].fd)
      BY <1>9, <2>1 DEF Under, AcceptOp
    <3> QED
      BY <1>9, <2>3, <3>1, <3>2 DEF ServerInv, CountInv
  <2>5. AcceptInv'
    BY <1>2, <1>6, <1>9 DEF AcceptInv, AcceptOp
  <2> QED
    BY <2>1, <2>2, <2>4, <2>5 DEF ServerInv
<1> QED
  <2>1. fd > 0 \/ ~(fd > 0)
    OBVIOUS
  <2> QED
    BY <1>7, <1>8, <1>9 DEF HandleAccept, fd

\* A completion of one operation of channel c, whose descriptor it names:
\* c counts one less, and may begin its close; the others do not notice.
LEMMA TakeStep ==
  ASSUME ServerInv, NextCqe, Head(cq).op \in DataOps,
         NEW c \in Channels, Live(c), chan[c].fd = Head(cq).op[1],
         RingInv(Operations, ResultsOfAll)',
         Outstanding' = Outstanding \ {Head(cq).op}, Head(cq).op \in Outstanding,
         NEW next, ChannelOK(c, next), Moves(Settle(chan[c]), next),
         chan' = [chan EXCEPT ![c] = next],
         c = Server => next.phase = chan[c].phase,
         UNCHANGED <<kind, graceful, dropped>>, callback' \in BOOLEAN,
         failing' \in {Server, c}
  PROVE  ServerInv'
<1> DEFINE h == Head(cq).op
<1>1. h[1] = chan[c].fd /\ h # AcceptOp /\ h \in Outstanding /\ Outstanding' = Outstanding \ {h}
  BY DataOpFields
<1>2. /\ ChannelOK(c, chan[c]) /\ chan[c] \in ChannelFields
      /\ chan \in [Channels -> ChannelFields]
      /\ \A d \in Channels : ChannelOK(d, chan[d])
  BY ChannelIs
<1>3. Server \in Channels /\ Conns \subseteq Channels /\ \A d \in Conns : d # Server
  BY DEF Channels, Conns, Server
<1> HIDE DEF h
<1>4. chan[c].pending = Cardinality(Under(chan[c].fd))
  BY DEF ServerInv, CountInv
<1>5. h \in Under(chan[c].fd) /\ IsFiniteSet(Under(chan[c].fd))
  BY <1>1, FiniteUnder DEF Under, ServerInv
<1>6. Cardinality(Under(chan[c].fd) \ {h}) = chan[c].pending - 1
  <2>1. Cardinality(Under(chan[c].fd) \ {h}) = Cardinality(Under(chan[c].fd)) - 1
    BY <1>5, FS_RemoveElement
  <2> QED
    BY <1>4, <2>1
<1>7. chan[c].pending # 0
  BY <1>4, <1>5, FS_EmptySet
<1>8. /\ next.fd = chan[c].fd /\ next.pending = chan[c].pending - 1
      /\ next.phase = "none" <=> chan[c].phase = "none"
      /\ next.phase = "open" => chan[c].phase = "open"
      /\ next.awaited = "no" => chan[c].awaited = "no"
  BY <1>2, <1>7, SettleCounts DEF Moves
<1>9. next \in ChannelFields
  BY DEF ChannelOK
<1>10. /\ chan' \in [Channels -> ChannelFields] /\ chan'[c] = next
       /\ \A d \in Channels : d # c => chan'[d] = chan[d]
       /\ \A d \in Channels : chan'[d].fd = chan[d].fd
  BY <1>2, <1>8, <1>9
<1>11. ServerTypes'
  <2>1. failing' \in Channels /\ (failing' # Server => chan'[failing'].phase # "none")
    BY <1>3, <1>8, <1>10 DEF Live
  <2>2. \A d \in Channels : ChannelOK(d, chan'[d])
    BY <1>2, <1>10
  <2> QED
    BY <1>10, <2>1, <2>2 DEF ServerInv, ServerTypes
<1>12. \A d \in Channels : Live(d)' => Live(d)
  BY <1>10 DEF Live
<1>13. \A number : Under(number)' = Under(number) \ {h}
  BY <1>1 DEF Under
<1>14. ASSUME NEW d \in Channels, Live(d)
       PROVE  chan'[d].pending = Cardinality(Under(chan[d].fd)')
  <2> DEFINE number == chan'[d].fd
             under2 == {op \in Outstanding' : op[1] = number /\ op # AcceptOp}
  <2>1. number = chan[d].fd
    BY <1>10
  <2> HIDE DEF number
  <2>2. under2 = Under(chan[d].fd) \ {h}
    BY <1>1, <2>1 DEF Under
  <2> HIDE DEF under2
  <2>3. chan'[d].pending = Cardinality(under2)
    <3>1. CASE d = c
      BY <1>6, <1>8, <1>10, <2>2, <3>1
    <3>2. CASE d # c
      <4>1. chan[d].fd # chan[c].fd
        BY <1>14, <3>2 DEF ServerInv, CountInv
      <4>2. under2 = Under(chan[d].fd)
        BY <1>1, <2>2, <4>1 DEF Under
      <4> QED
        BY <1>10, <1>14, <3>2, <4>2 DEF ServerInv, CountInv
    <3> QED
      BY <3>1, <3>2
  <2> QED
    BY <2>3 DEF Under, AcceptOp, under2, number
<1>15. CountInv'
  <2>1. ASSUME NEW number \in Fds \cup {ListenFd},
               \A d \in Channels : Live(d)' => chan'[d].fd # number
        PROVE  Under(number)' = {}
    <3>1. CASE \A d \in Channels : Live(d) => chan[d].fd # number
      BY <1>13, <3>1 DEF ServerInv, CountInv
    <3>2. CASE \E d \in Channels : Live(d) /\ chan[d].fd = number
      <4>1. PICK d \in Channels : Live(d) /\ chan[d].fd = number
        BY <3>2
      <4>2. d = c /\ ~Live(c)'
        BY <1>10, <2>1, <4>1 DEF Live
      <4>3. next.pending = 0
        BY <1>10, <4>2 DEF Live, ChannelOK
      <4>4. Cardinality(Under(number) \ {h}) = 0
        BY <1>6, <1>8, <4>1, <4>2, <4>3
      <4>5. IsFiniteSet(Under(number) \ {h})
        BY <1>5, <4>1, <4>2, FS_RemoveElement
      <4>6. Under(number) \ {h} = {}
        BY <4>4, <4>5, FS_EmptySet
      <4> QED
        BY <1>13, <4>6
    <3> QED
      BY <3>1, <3>2
  <2>2. \A d, e \in Channels : Live(d)' /\ Live(e)' /\ chan'[d].fd = chan'[e].fd => d = e
    BY <1>10, <1>12 DEF ServerInv, CountInv
  <2>3. \A d \in Channels : Live(d)' => chan'[d].pending = Cardinality(Under(chan[d].fd)')
    BY <1>12, <1>14
  <2> QED
    BY <2>1, <2>2, <2>3 DEF CountInv, Under, AcceptOp
<1>16. Outstanding # {}
  BY <1>1
<1>17. chan'[Server].phase = chan[Server].phase
  BY <1>3, <1>10
<1>18. AcceptInv'
  <2>1. ASSUME NEW i \in 1..Len(cq'), cq'[i].op = AcceptOp
        PROVE  /\ cq'[i].result \in Fds \cup {-1}
               /\ cq'[i].result \in Fds =>
                    /\ \A d \in Channels : Live(d)' => chan'[d].fd # cq'[i].result
                    /\ \E d \in Conns : chan'[d].phase = "none"
    <3>1. PICK j \in 1..Len(cq) : cq'[i] = cq[j]
      BY TakenTail DEF ServerInv
    <3>2. /\ cq[j].result \in Fds \cup {-1}
          /\ cq[j].result \in Fds =>
               /\ \A d \in Channels : Live(d) => chan[d].fd # cq[j].result
               /\ \E d \in Conns : chan[d].phase = "none"
      BY <2>1, <3>1 DEF ServerInv, AcceptInv
    <3>3. \A d \in Conns : chan[d].phase = "none" => chan'[d].phase = "none"
      BY <1>3, <1>8, <1>10
    <3> QED
      BY <1>10, <1>12, <3>1, <3>2, <3>3
  <2>2. /\ chan[Server].phase # "none"
        /\ chan[Server].phase = "open" => dropped = {}
        /\ chan[Server].phase = "open" /\ kind = "tcp" => AcceptOp \in Outstanding
    BY <1>16 DEF ServerInv, AcceptInv
  <2> QED
    BY <1>1, <1>17, <2>1, <2>2 DEF AcceptInv, AcceptOp
<1>19. CloseInv'
  <2>1. Closing(Server)' <=> Closing(Server)
    BY <1>17 DEF Closing
  <2>2. \A d \in Conns : /\ chan[d].pending = 0 => chan'[d] = chan[d]
                         /\ chan'[d].awaited = "no" => chan[d].awaited = "no"
    BY <1>3, <1>7, <1>8, <1>10
  <2> QED
    BY <1>17, <2>1, <2>2 DEF ServerInv, CloseInv
<1> QED
  BY <1>11, <1>15, <1>18, <1>19 DEF ServerInv

\* The results of the requests of a channel, which is always found.
LEMMA HandleDataKeeps == ServerInv /\ HandleData => ServerInv'
<1> SUFFICES ASSUME ServerInv, HandleData PROVE ServerInv'
  OBVIOUS
<1> DEFINE h == Head(cq).op
           result == Head(cq).result
<1>1. /\ NextCqe /\ failing = Server /\ h # AcceptOp
      /\ UNCHANGED <<kind, graceful, dropped>>
  BY DEF HandleData
<1>2. h \in Outstanding /\ h \in DataOps
  <2>1. 1 \in 1..Len(cq) /\ Head(cq) = cq[1]
    BY <1>1, TakenTail DEF ServerInv
  <2>2. h \in Completed
    BY <2>1 DEF Completed
  <2>3. h \in Outstanding
    BY <2>2 DEF Outstanding
  <2> QED
    BY <1>1, <2>3, FiniteUnder DEF ServerInv, Operations
<1>3. /\ h[1] \in Fds \cup {ListenFd}
      /\ h[2] \in {"read", "write", "receive", "send"}
      /\ h[2] \in {"read", "write"} => h[1] \in Fds
  BY <1>2, DataOpFields
<1>4. Registered(h[1]) # {}
  <2>1. h \in Under(h[1])
    BY <1>1, <1>2 DEF Under
  <2> QED
    BY <1>3, <2>1 DEF Registered, ServerInv, CountInv
<1>5. PICK c \in Registered(h[1]) :
        Ignored(c) \/ Received(c, h[2], result) \/ ReadFailed(c, h[2], result) \/ Sent(c, h[2], result)
  BY <1>4 DEF HandleData
<1>6. c \in Channels /\ Live(c) /\ chan[c].fd = h[1]
  BY <1>5 DEF Registered
<1> DEFINE k == Settle(chan[c])
<1>7. chan[c].pending # 0
  <2>1. h \in Under(h[1]) /\ IsFiniteSet(Under(h[1]))
    BY <1>1, <1>2, FiniteUnder DEF Under, ServerInv
  <2>2. Cardinality(Under(h[1])) # 0
    BY <2>1, FS_EmptySet
  <2> QED
    BY <1>6, <2>2 DEF ServerInv, CountInv
<1>8. ChannelOK(c, k) /\ k.phase = chan[c].phase /\ k.fd = chan[c].fd
  BY <1>6, <1>7, ChannelIs, SettleCounts
<1>9. Moves(k, k)
  BY DEF Moves
<1> HIDE DEF k
<1>10. CASE Settled(c) /\ callback' \in BOOLEAN /\ failing' \in {Server, c}
  <2>1. RemoveEvent /\ UNCHANGED <<queued, inflight, cancelled>>
        /\ chan' = [chan EXCEPT ![c] = k]
    BY <1>10 DEF Settled, k
  <2>2. RingInv(Operations, ResultsOfAll)' /\ Outstanding' = Outstanding \ {h}
    BY <1>1, <2>1, RingTake DEF ServerInv
  <2> QED
    BY <1>1, <1>2, <1>6, <1>8, <1>9, <1>10, <2>1, <2>2, TakeStep DEF k
<1>11. CASE ReadFailed(c, h[2], result) /\ ~Closing(c)
  <2>1. PICK listens \in BOOLEAN : chan' = [chan EXCEPT ![c] = Begun(k, FALSE, listens)]
    BY <1>11 DEF ReadFailed, k
  <2> DEFINE next == Begun(k, FALSE, listens)
  <2>2. k.phase = "open"
    BY <1>6, <1>8, <1>11 DEF Closing, Live
  <2>3. ChannelOK(c, next) /\ Moves(k, next)
    BY <1>8, <2>2, BegunMoves
  <2>4. c # Server
    <3>1. h[1] \in Fds
      BY <1>3, <1>11 DEF ReadFailed
    <3>2. ChannelOK(c, chan[c]) /\ ListenFd \notin Fds
      BY <1>6, ChannelIs, ServerAssumption
    <3> QED
      BY <1>6, <3>1, <3>2 DEF ChannelOK
  <2>5. RingInv(Operations, ResultsOfAll)' /\ Outstanding' = Outstanding \ {h}
    <3>1. CASE k.pending = 0
      <4>1. RemoveEvent /\ UNCHANGED <<queued, inflight, cancelled>>
        BY <1>11, <3>1 DEF ReadFailed, k
      <4> QED
        BY <1>1, <4>1, RingTake DEF ServerInv
    <3>2. CASE k.pending # 0
      <4> DEFINE ops == {op \in events : op[1] = k.fd} \ {h}
      <4>1. SubmitAndCancel(ops) /\ events' = {op \in events : op[1] # k.fd}
        BY <1>11, <3>2 DEF ReadFailed, k
      <4>2. events' \subseteq events /\ events \ (ops \cup {h}) \subseteq events'
        BY <4>1
      <4> HIDE DEF ops
      <4> QED
        BY <1>1, <4>1, <4>2, RingTakeCancel DEF ServerInv
    <3> QED
      BY <3>1, <3>2
  <2>6. callback' = FALSE /\ failing' = failing
    BY <1>11 DEF ReadFailed
  <2>7. chan' = [chan EXCEPT ![c] = next]
    BY <2>1
  <2> HIDE DEF next
  <2> QED
    BY <1>1, <1>2, <1>6, <1>8, <2>3, <2>4, <2>5, <2>6, <2>7, TakeStep DEF k
<1>12. CASE ReadFailed(c, h[2], result) /\ Closing(c)
  BY <1>1, <1>10, <1>12 DEF ReadFailed
<1>13. CASE Ignored(c) \/ Received(c, h[2], result) \/ Sent(c, h[2], result)
  <2>1. Settled(c) /\ callback' \in BOOLEAN /\ failing' \in {Server, c}
    <3>1. CASE Ignored(c) \/ Received(c, h[2], result)
      BY <1>1, <3>1 DEF Ignored, Received
    <3>2. CASE Sent(c, h[2], result)
      <4>1. Settled(c) /\ (callback' = TRUE \/ callback' = (batch > 1)) /\ failing' \in {failing, c}
        BY <3>2 DEF Sent
      <4>2. (batch > 1) \in BOOLEAN
        OBVIOUS
      <4> QED
        BY <1>1, <4>1, <4>2, Zenon
    <3> QED
      BY <1>13, <3>1, <3>2
  <2> QED
    BY <1>10, <2>1
<1> QED
  BY <1>5, <1>11, <1>12, <1>13

-----------------------------------------------------------------------------
(* The theorems.                                                           *)

LEMMA ServerInitial == Init => ServerInv
<1> SUFFICES ASSUME Init PROVE ServerInv
  OBVIOUS
<1>1. RingInv(Operations, ResultsOfAll) /\ Outstanding = {}
  BY RingInitial DEF Init
<1>2. Server \in Channels
  BY DEF Channels
<1> DEFINE k == [Fresh(ListenFd) EXCEPT !.phase = "none"]
<1>3. /\ k \in ChannelFields /\ k.fd = ListenFd /\ k.pending = 0 /\ k.phase = "none"
      /\ k.closer = FALSE /\ k.awaited = "no"
  BY DEF Fresh, ChannelFields
<1>4. chan = [c \in Channels |-> k]
  BY DEF Init
<1> HIDE DEF k
<1>5. \A c \in Channels : ChannelOK(c, chan[c]) /\ ~Live(c)
  BY <1>3, <1>4 DEF ChannelOK, Live
<1>6. ServerTypes
  BY <1>2, <1>3, <1>4, <1>5 DEF Init, ServerTypes
<1>7. CountInv
  BY <1>1, <1>5 DEF CountInv, Under
<1>8. cq = <<>> /\ dropped = {}
  BY DEF Init, RingInit
<1>9. chan[Server].phase = "none" /\ \A c \in Conns : chan[c].phase = "none"
  BY <1>2, <1>3, <1>4 DEF Channels
<1>10. AcceptInv
  BY <1>1, <1>8, <1>9 DEF AcceptInv
<1>11. CloseInv
  BY <1>9 DEF CloseInv, Closing
<1> QED
  BY <1>1, <1>6, <1>7, <1>10, <1>11 DEF ServerInv

LEMMA ServerStep == ServerInv /\ [Next]_vars => ServerInv'
<1> SUFFICES ASSUME ServerInv, [Next]_vars PROVE ServerInv'
  OBVIOUS
<1>1. CASE Open
  BY <1>1, OpenKeeps
<1>2. ASSUME NEW c \in Channels, Call(c) PROVE ServerInv'
  BY <1>2, CallKeeps
<1>3. ASSUME NEW c \in Channels, GraceTimeout(c) PROVE ServerInv'
  BY <1>3, GraceTimeoutKeeps
<1>4. ASSUME NEW c \in Channels, CloserCompleted(c) PROVE ServerInv'
  BY <1>4, CloserCompletedKeeps
<1>5. ASSUME NEW c \in Channels, InboundDrained(c) PROVE ServerInv'
  BY <1>5, InboundDrainedKeeps
<1>6. ASSUME NEW gently \in BOOLEAN, CloseServer(gently) PROVE ServerInv'
  BY <1>6, CloseServerKeeps
<1>7. ASSUME NEW gently \in BOOLEAN, NEW c \in Conns, CloseConnection(c, gently)
      PROVE  ServerInv'
  BY <1>7, CloseConnectionKeeps
<1>8. CASE ConnectionsClosed
  BY <1>8, ConnectionsClosedKeeps
<1>9. CASE HandleAccept
  BY <1>9, HandleAcceptKeeps
<1>10. CASE HandleData
  BY <1>10, HandleDataKeeps
<1>11. CASE FailedWriteCloses
  BY <1>11, FailedWriteClosesKeeps
<1>12. CASE Peek \/ Collect
  BY <1>12, PeekKeeps, CollectKeeps
<1>13. ASSUME NEW op \in inflight, Kernel(op) PROVE ServerInv'
  BY <1>13, KernelKeeps
<1>14. CASE UNCHANGED vars
  <2>1. UNCHANGED ringVars /\ UNCHANGED serverVars
    BY <1>14 DEF vars
  <2>2. RingInv(Operations, ResultsOfAll)' /\ Outstanding' = Outstanding /\ cq' = cq
    BY <2>1, RingStutter DEF ServerInv, ringVars
  <2>3. graceful' \in BOOLEAN /\ callback' \in BOOLEAN /\ failing' \in {failing, Server}
    BY <2>1 DEF ServerInv, ServerTypes, serverVars
  <2> QED
    BY <2>1, <2>2, <2>3, NoneMoves, QuietStep DEF serverVars
<1> QED
  BY <1>1, <1>2, <1>3, <1>4, <1>5, <1>6, <1>7, <1>8, <1>9, <1>10, <1>11, <1>12, <1>13, <1>14
     DEF Next

\* The inductive invariant holds for any numbers of connections, descriptors
\* and buffers.
THEOREM ServerInvariant == Spec => []ServerInv
BY ServerInitial, ServerStep, PTL DEF Spec

\* Every variable keeps its type, and no _pending drops below zero.
THEOREM ServerTypeCorrect == Spec => []TypeOK
<1>1. ServerInv => TypeOK
  <2> SUFFICES ASSUME ServerInv PROVE TypeOK
    OBVIOUS
  <2>1. events \cup queued \cup inflight \subseteq DataOps \cup {AcceptOp}
    BY DEF ServerInv, RingInv, Operations
  <2> QED
    BY <2>1 DEF ServerInv, RingInv, ServerTypes, ChannelFields, TypeOK
<1> QED
  BY <1>1, ServerInvariant, PTL

\* A completion finds the channel that issued its operation, although it
\* names only a descriptor and the kernel gives those again.
THEOREM CompletionFindsItsChannel == Spec => []CompletionsFindTheirChannel
<1>1. ServerInv => CompletionsFindTheirChannel
  <2> SUFFICES ASSUME ServerInv PROVE CompletionsFindTheirChannel
    OBVIOUS
  <2>1. ASSUME NEW fd \in Fds \cup {ListenFd} PROVE Cardinality(Registered(fd)) <= 1
    <3>1. CASE Registered(fd) = {}
      BY <3>1, FS_EmptySet
    <3>2. CASE Registered(fd) # {}
      <4>1. PICK c : c \in Registered(fd)
        BY <3>2
      <4>2. Registered(fd) = {c}
        BY <4>1 DEF ServerInv, CountInv, Registered
      <4> QED
        BY <4>2, FS_Singleton
    <3> QED
      BY <3>1, <3>2
  <2>2. \A c \in Channels : Live(c) => chan[c].pending = Cardinality(Under(chan[c].fd))
    BY DEF ServerInv, CountInv
  <2>3. \A fd \in Fds : Registered(fd) = {} => Under(fd) = {}
    BY DEF ServerInv, CountInv, Registered
  <2> QED
    BY <2>1, <2>2, <2>3 DEF CompletionsFindTheirChannel
<1> QED
  BY <1>1, ServerInvariant, PTL

\* An open TCP server always accepts, and what it accepted is a connection.
THEOREM ServerIsNeverDeaf == Spec => []NeverDeaf
<1>1. ServerInv => NeverDeaf
  BY DEF ServerInv, AcceptInv, NeverDeaf
<1> QED
  BY <1>1, ServerInvariant, PTL

\* When the server is freed, none of its connections waits for a result.
THEOREM ServerClosesLast == Spec => []ServerOutlivesConnections
<1>1. ServerInv => ServerOutlivesConnections
  BY DEF ServerInv, CloseInv, Closing, ServerOutlivesConnections
<1> QED
  BY <1>1, ServerInvariant, PTL

=============================================================================
