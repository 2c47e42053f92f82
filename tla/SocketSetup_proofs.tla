-------------------------- MODULE SocketSetup_proofs --------------------------
(***************************************************************************)
(* Proofs about sockets, descriptor numbers and paths (module SocketSetup),*)
(* for any number of workers and channels, whatever they are configured    *)
(* with, and any system call that fails.                                   *)
(*                                                                         *)
(* The number stored in a structure says nothing by itself: the kernel     *)
(* gives a closed number to the next who asks.  DescriptorInv says at each *)
(* step of a channel whose the number is and PathInv which server the path *)
(* can belong to as long as no client has unlinked it: both until a unix   *)
(* client is closed twice.  OptionInv says which options are in effect.    *)
(***************************************************************************)
EXTENDS SocketSetup, WellFoundedInduction, TLAPS

SocketTypes ==
  /\ owner \in [Fds -> Channels \cup {Process, Nobody}]
  /\ path \in Channels \cup {Nobody}
  /\ phase \in [Channels -> Phases]
  /\ opened \in [Channels -> Fds] /\ fd \in [Channels -> Fds]
  /\ todo \in [Channels -> SUBSET Options]
  /\ taken \in [Channels -> SUBSET Options]

\* The phases in which the structure holds the number of an open descriptor.
Holding == {"bind", "listen", "ready"} \cup Registered

Gone == {"destroy", "destroyTwice", "notBound", "notListening"} \cup Destroyed

DescriptorOf(c) ==
  /\ \A n \in Fds : owner[n] = c => n = opened[c]
  /\ phase[c] \in {"new", "noSocket"} => fd[c] = 0 /\ \A n \in Fds : owner[n] # c
  /\ phase[c] \in {"options", "refusedOption"} => fd[c] = 0
  /\ phase[c] = "options" => owner[opened[c]] = c
  /\ phase[c] \in Holding => fd[c] = opened[c] /\ owner[opened[c]] = c
  /\ phase[c] \in Gone => \A n \in Fds : owner[n] = c => n = 0

DescriptorInv == \A c \in Channels : DescriptorOf(c)

\* A server that has bound its path, and has not removed it.
Bound == {"listen", "ready", "open", "close", "destroy"}

IsUnixServer(c) == Role[c] = "server" /\ HasPath(c)

UnlinkedByClient ==
  \E d \in Channels : Role[d] = "client" /\ HasPath(d) /\ phase[d] \in Destroyed

\* The phases only a client that connects comes through.
OfClients == Waiting \cup {"notConnected", "closeTwice", "destroyTwice"}

PathInv ==
  /\ path # Nobody => IsUnixServer(path) /\ phase[path] \in Bound \cup {"notListening"}
  /\ \A c \in Channels :
       IsUnixServer(c) /\ phase[c] \in Bound /\ path # c => UnlinkedByClient
  /\ \A c \in Channels :
       /\ phase[c] \in OfClients => Connects(c)
       /\ phase[c] \in {"bind", "listen"} => ~Connects(c)

\* The options wanted of a socket that this way of setting them can bring about.
InEffect(c) == {o \in Wanted(c) : TakesEffect(o)}

OptionInv ==
  \A c \in Channels :
    /\ phase[c] = "new" => taken[c] = {}
    /\ phase[c] = "options" =>
         /\ todo[c] \subseteq Wanted(c)
         /\ taken[c] = {o \in Wanted(c) \ todo[c] : TakesEffect(o)}
    /\ phase[c] \in Holding => taken[c] = InEffect(c)

Intact == DescriptorInv /\ PathInv

SocketInv == SocketTypes /\ OptionInv /\ (ClosedTwice \/ Intact)

-----------------------------------------------------------------------------
\* The lowest number that is free is a number that is free.
LEMMA MinIsElement ==
  ASSUME NEW S \in SUBSET Nat, S # {}
  PROVE  Min(S) \in S
<1> DEFINE less == {ss \in Nat \X Nat : ss[1] < ss[2]}
<1>1. PICK x \in S : \A y \in S : <<y, x>> \notin less
  <2>1. IsWellFoundedOn(less, Nat)
    BY NatLessThanWellFounded, Zenon DEF OpToRel
  <2> HIDE DEF less
  <2> QED
    BY <2>1, WFMin
<1>2. \A y \in S : x =< y
  <2> TAKE y \in S
  <2>1. <<y, x>> \notin less
    BY <1>1
  <2> QED
    BY <2>1
<1> QED
  BY <1>2 DEF Min

\* The options a socket can ask for are options.
LEMMA OptionsAreOptions ==
  \A c \in Channels : Wanted(c) \subseteq Options
<1>1. ToSet(TcpOptions) \subseteq Options /\ ToSet(UdpOptions) \subseteq Options
  BY DEF Options
<1>2. ToSet(UnixOptions) \subseteq ToSet(TcpOptions)
  <2>1. ToSet(UnixOptions) \subseteq
          {"NONBLOCK", "CLOCEXEC", "RCVBUF", "SNDBUF", "KEEPALIVE", "RCVLOWAT", "SNDLOWAT"}
    BY DEF ToSet, UnixOptions
  <2>2. /\ 1 \in DOMAIN TcpOptions /\ 2 \in DOMAIN TcpOptions /\ 5 \in DOMAIN TcpOptions
        /\ 6 \in DOMAIN TcpOptions /\ 7 \in DOMAIN TcpOptions /\ 8 \in DOMAIN TcpOptions
        /\ 9 \in DOMAIN TcpOptions
        /\ TcpOptions[1] = "NONBLOCK" /\ TcpOptions[2] = "CLOCEXEC"
        /\ TcpOptions[5] = "RCVBUF" /\ TcpOptions[6] = "SNDBUF"
        /\ TcpOptions[7] = "KEEPALIVE" /\ TcpOptions[8] = "RCVLOWAT"
        /\ TcpOptions[9] = "SNDLOWAT"
    BY DEF TcpOptions
  <2> HIDE DEF TcpOptions
  <2> QED
    BY <2>1, <2>2 DEF ToSet
<1>3. ToSet(<<>>) = {}
  BY DEF ToSet
<1>4. \A kind : ToSet(OptionsOf(kind)) \subseteq Options
  BY <1>1, <1>2, <1>3 DEF OptionsOf
<1> QED
  BY <1>4 DEF Wanted

-----------------------------------------------------------------------------
(* What a step of one channel leaves of the invariant.                     *)

\* A channel keeps its descriptors as long as no step of another takes one.
LEMMA OthersKeepDescriptors ==
  ASSUME SocketTypes, DescriptorInv, NEW d \in Channels,
         phase'[d] = phase[d], opened'[d] = opened[d], fd'[d] = fd[d],
         \A n \in Fds : owner'[n] = d <=> owner[n] = d
  PROVE  DescriptorOf(d)'
<1>1. opened[d] \in Fds /\ DescriptorOf(d)
  BY DEF SocketTypes, DescriptorInv
<1> QED
  BY <1>1 DEF DescriptorOf

\* A step that changes neither the path nor, for a server that owns it or has
\* lost it, that it is bound.
LEMMA PathStays ==
  ASSUME SocketTypes, PathInv, NEW c \in Channels, NEW next,
         path' = path, phase' = [phase EXCEPT ![c] = next],
         phase[c] \notin Destroyed,
         IsUnixServer(c) /\ next \in Bound => phase[c] \in Bound,
         IsUnixServer(c) /\ phase[c] \in Bound \cup {"notListening"}
           => next \in Bound \cup {"notListening"},
         next \in OfClients => Connects(c),
         next \in {"bind", "listen"} => ~Connects(c)
  PROVE  PathInv'
<1>1. phase'[c] = next /\ \A d \in Channels : d # c => phase'[d] = phase[d]
  BY DEF SocketTypes
<1>2. UnlinkedByClient => UnlinkedByClient'
  BY <1>1 DEF UnlinkedByClient
<1>3. path # Nobody => IsUnixServer(path) /\ phase'[path] \in Bound \cup {"notListening"}
  BY <1>1 DEF PathInv, SocketTypes
<1>4. ASSUME NEW d \in Channels, IsUnixServer(d), phase'[d] \in Bound, path # d
      PROVE  UnlinkedByClient'
  BY <1>1, <1>2, <1>4 DEF PathInv
<1>5. \A d \in Channels :
        /\ phase'[d] \in OfClients => Connects(d)
        /\ phase'[d] \in {"bind", "listen"} => ~Connects(d)
  BY <1>1 DEF PathInv
<1> QED
  BY <1>3, <1>4, <1>5 DEF PathInv

\* A set-up that fails gives the descriptor in the structure back, if there
\* is one, and touches no other.
LEMMA DisposedKeeps ==
  ASSUME SocketTypes, Intact, NEW c \in Channels,
         NEW next \in {"noSocket", "refusedOption", "notBound", "notListening"},
         Disposed(c, next),
         next = "noSocket" => phase[c] = "new",
         next = "refusedOption" => phase[c] = "options",
         next = "notBound" => phase[c] = "bind",
         next = "notListening" => phase[c] = "listen",
         UNCHANGED <<path, sockets>>
  PROVE  Intact'
<1>1. /\ SocketTypes /\ DescriptorInv /\ PathInv /\ DescriptorOf(c)
      /\ fd[c] \in Fds /\ opened[c] \in Fds /\ phase \in [Channels -> Phases]
      /\ owner \in [Fds -> Channels \cup {Process, Nobody}]
      /\ Process \notin Channels /\ Nobody \notin Channels
  BY SocketAssumption DEF Intact, SocketTypes, DescriptorInv
<1>2. /\ phase' = [phase EXCEPT ![c] = next] /\ UNCHANGED <<opened, fd, todo, taken>>
      /\ owner' = IF fd[c] > 0 THEN [owner EXCEPT ![fd[c]] = Nobody] ELSE owner
  BY DEF Disposed, Goto, sockets
<1>3. /\ phase'[c] = next /\ opened'[c] = opened[c] /\ fd'[c] = fd[c]
      /\ \A d \in Channels : d # c => phase'[d] = phase[d]
  BY <1>1, <1>2
<1>4. ASSUME phase[c] \in {"new", "options"} PROVE DescriptorInv'
  <2>1. fd[c] = 0
    BY <1>1, <1>4 DEF DescriptorOf
  <2>2. owner' = owner
    BY <1>2, <2>1
  <2>3. \/ phase[c] = "new" /\ next = "noSocket"
        \/ phase[c] = "options" /\ next = "refusedOption"
    BY <1>4
  <2>4. DescriptorOf(c)'
    BY <1>1, <1>3, <2>1, <2>2, <2>3 DEF DescriptorOf, Holding, Registered, Waiting, Gone, Destroyed
  <2>5. ASSUME NEW d \in Channels, d # c PROVE DescriptorOf(d)'
    BY <1>1, <1>2, <1>3, <2>2, <2>5, OthersKeepDescriptors
  <2> QED
    BY <2>4, <2>5 DEF DescriptorInv
<1>5. ASSUME phase[c] \in {"bind", "listen"} PROVE DescriptorInv'
  <2>1. fd[c] = opened[c] /\ owner[fd[c]] = c
    BY <1>1, <1>5 DEF DescriptorOf, Holding
  <2>2. \A n \in Fds : owner'[n] = owner[n] \/ (n = fd[c] /\ n > 0 /\ owner'[n] = Nobody)
    BY <1>1, <1>2
  <2>3. \A n \in Fds : owner'[n] = c => n = opened[c] /\ n = 0
    <3> TAKE n \in Fds
    <3>1. owner[n] = c => n = opened[c]
      BY <1>1 DEF DescriptorOf
    <3>2. fd[c] > 0 => owner'[fd[c]] = Nobody
      BY <1>1, <1>2
    <3>3. n \in Nat
      BY SocketAssumption DEF Fds
    <3> QED
      BY <1>1, <2>1, <2>2, <3>1, <3>2, <3>3
  <2>4. next \in {"notBound", "notListening"}
    BY <1>5
  <2>5. DescriptorOf(c)'
    BY <1>3, <2>3, <2>4, <1>2 DEF DescriptorOf, Holding, Registered, Waiting, Gone, Destroyed
  <2>6. ASSUME NEW d \in Channels, d # c PROVE DescriptorOf(d)'
    <3>1. \A n \in Fds : owner'[n] = d <=> owner[n] = d
      BY <1>1, <2>1, <2>2, <2>6
    <3> QED
      BY <1>1, <1>2, <1>3, <2>6, <3>1, OthersKeepDescriptors
  <2> QED
    BY <2>5, <2>6 DEF DescriptorInv
<1>6. DescriptorInv'
  BY <1>4, <1>5
<1>7. PathInv'
  BY <1>1, <1>2, PathStays DEF Bound, OfClients, Waiting, Destroyed
<1> QED
  BY <1>6, <1>7 DEF Intact

\* A step that only moves the phase of its channel on.
LEMMA MoveKeeps ==
  ASSUME SocketTypes, Intact, NEW c \in Channels, NEW next \in Phases, Goto(c, next),
         UNCHANGED <<owner, path, sockets>>,
         phase[c] \in Holding, next \in Holding,
         IsUnixServer(c) /\ next \in Bound => phase[c] \in Bound,
         IsUnixServer(c) /\ phase[c] \in Bound => next \in Bound,
         next \in OfClients => Connects(c),
         next \in {"bind", "listen"} => ~Connects(c)
  PROVE  Intact'
<1>1. SocketTypes /\ DescriptorInv /\ PathInv
  BY DEF Intact
<1>2. phase' = [phase EXCEPT ![c] = next] /\ UNCHANGED <<opened, fd, todo, taken>>
  BY DEF Goto, sockets
<1>3. DescriptorInv'
  <2>1. ASSUME NEW d \in Channels, d # c PROVE DescriptorOf(d)'
    <3>1. phase'[d] = phase[d]
      BY <1>1, <1>2, <2>1 DEF SocketTypes
    <3> QED
      BY <1>1, <1>2, <3>1, OthersKeepDescriptors
  <2>2. DescriptorOf(c)'
    BY <1>1, <1>2 DEF DescriptorInv, DescriptorOf, Holding, Registered, Waiting, Gone, Destroyed, SocketTypes
  <2> QED
    BY <2>1, <2>2 DEF DescriptorInv
<1>4. PathInv'
  BY <1>1, <1>2, PathStays DEF Holding, Registered, Waiting, Destroyed, Bound
<1> QED
  BY <1>3, <1>4 DEF Intact

-----------------------------------------------------------------------------
(* One lemma per system call.                                              *)

\* The new descriptor had no owner: nobody else's number is given out.
LEMMA CreateSocketKeeps ==
  ASSUME SocketTypes, Intact, NEW c \in Channels, CreateSocket(c)
  PROVE  Intact'
<1>1. /\ SocketTypes /\ DescriptorInv /\ PathInv /\ DescriptorOf(c)
      /\ phase[c] = "new" /\ path' = path
  BY DEF Intact, DescriptorInv, CreateSocket
<1>2. CASE Disposed(c, "noSocket") /\ UNCHANGED sockets
  BY <1>1, <1>2, DisposedKeeps
<1>3. ASSUME Available # {},
             owner' = [owner EXCEPT ![Min(Available)] = c],
             opened' = [opened EXCEPT ![c] = Min(Available)],
             todo' = [todo EXCEPT ![c] = Wanted(c)],
             phase' = [phase EXCEPT ![c] = "options"],
             UNCHANGED <<fd, taken>>
      PROVE  Intact'
  <2> DEFINE n == Min(Available)
  <2>1. n \in Fds /\ owner[n] = Nobody
    <3>1. Available \in SUBSET Nat
      BY SocketAssumption DEF Available, Fds
    <3>2. n \in Available
      BY <1>3, <3>1, MinIsElement
    <3> QED
      BY <3>2 DEF Available
  <2> HIDE DEF n
  <2>2. /\ owner' = [owner EXCEPT ![n] = c] /\ opened' = [opened EXCEPT ![c] = n]
        /\ Nobody \notin Channels
    BY <1>3, SocketAssumption DEF n
  <2>4. /\ phase'[c] = "options" /\ opened'[c] = n /\ fd'[c] = 0 /\ owner'[n] = c
        /\ todo'[c] = Wanted(c)
        /\ \A m \in Fds : m # n => owner'[m] = owner[m] /\ owner[m] # c
        /\ \A d \in Channels : d # c => phase'[d] = phase[d] /\ opened'[d] = opened[d]
                                       /\ fd'[d] = fd[d] /\ todo'[d] = todo[d]
    BY <1>1, <1>3, <2>1, <2>2 DEF SocketTypes, DescriptorOf
  <2>5. DescriptorOf(c)'
    BY <2>1, <2>4 DEF DescriptorOf, Holding, Registered, Waiting, Gone, Destroyed
  <2>6. ASSUME NEW d \in Channels, d # c PROVE DescriptorOf(d)'
    <3>1. \A m \in Fds : owner'[m] = d <=> owner[m] = d
      BY <2>1, <2>2, <2>4, <2>6
    <3> QED
      BY <1>1, <2>4, <2>6, <3>1, OthersKeepDescriptors
  <2>7. PathInv'
    BY <1>1, <1>3, PathStays DEF Bound, OfClients, Waiting, Destroyed
  <2> QED
    BY <2>5, <2>6, <2>7 DEF Intact, DescriptorInv
<1> QED
  BY <1>2, <1>3 DEF CreateSocket, Goto

LEMMA SetOptionKeeps ==
  ASSUME SocketTypes, Intact, NEW c \in Channels, SetOption(c)
  PROVE  Intact'
<1>1. /\ SocketTypes /\ DescriptorInv /\ PathInv
      /\ phase[c] = "options" /\ path' = path
  BY DEF Intact, SetOption
<1>2. CASE Disposed(c, "refusedOption") /\ UNCHANGED sockets
  BY <1>1, <1>2, DisposedKeeps
<1>3. ASSUME NEW option \in todo[c],
             todo' = [todo EXCEPT ![c] = @ \ {option}],
             taken' = IF TakesEffect(option)
                      THEN [taken EXCEPT ![c] = @ \cup {option}] ELSE taken,
             UNCHANGED <<owner, phase, opened, fd>>
      PROVE  Intact'
  <2>1. DescriptorInv' /\ PathInv'
    BY <1>1, <1>3
       DEF DescriptorInv, DescriptorOf, PathInv, UnlinkedByClient
  <2> QED
    BY <2>1 DEF Intact
<1> QED
  BY <1>1, <1>2, <1>3 DEF SetOption

LEMMA CreatedKeeps ==
  ASSUME SocketTypes, Intact, NEW c \in Channels, Created(c)
  PROVE  Intact'
<1>1. /\ SocketTypes /\ DescriptorInv /\ PathInv /\ DescriptorOf(c)
      /\ phase[c] = "options" /\ todo[c] = {}
      /\ fd' = [fd EXCEPT ![c] = opened[c]]
      /\ UNCHANGED <<owner, path, opened, todo, taken>>
  BY DEF Intact, DescriptorInv, Created
<1>2. PICK next \in {"ready", "bind"} :
        /\ phase' = [phase EXCEPT ![c] = next]
        /\ next = "ready" <=> Connects(c) \/ Kind[c] = "file"
  BY DEF Created, Goto
<1>3. /\ phase'[c] = next /\ fd'[c] = opened[c] /\ opened[c] \in Fds
      /\ \A d \in Channels : d # c => phase'[d] = phase[d] /\ fd'[d] = fd[d]
  BY <1>1, <1>2 DEF SocketTypes
<1>5. DescriptorOf(c)'
  BY <1>1, <1>2, <1>3 DEF DescriptorOf, Holding, Registered, Waiting, Gone, Destroyed
<1>6. ASSUME NEW d \in Channels, d # c PROVE DescriptorOf(d)'
  BY <1>1, <1>3, <1>6, OthersKeepDescriptors
<1>7. PathInv'
  <2>1. /\ next = "ready" => ~IsUnixServer(c)
        /\ next = "bind" => ~Connects(c)
    BY <1>2 DEF Created, Goto, IsUnixServer, Connects, HasPath
  <2> QED
    BY <1>1, <1>2, <2>1, PathStays DEF Bound, OfClients, Waiting, Destroyed
<1> QED
  BY <1>5, <1>6, <1>7 DEF Intact, DescriptorInv

\* A server takes the path only while it names nobody: any server that is
\* bound has then lost the path to a client.
LEMMA BindKeeps ==
  ASSUME SocketTypes, Intact, NEW c \in Channels, Bind(c)
  PROVE  Intact'
<1>1. /\ SocketTypes /\ DescriptorInv /\ PathInv
      /\ phase[c] = "bind" /\ UNCHANGED sockets /\ Nobody \notin Channels
  BY SocketAssumption DEF Intact, Bind
<1>2. CASE Disposed(c, "notBound") /\ UNCHANGED path
  BY <1>1, <1>2, DisposedKeeps
<1>3. ASSUME NEW next \in {"listen", "ready"}, Goto(c, next),
             HasPath(c) => path = Nobody,
             path' = IF HasPath(c) THEN c ELSE path,
             owner' = owner
      PROVE  Intact'
  <2>1. phase' = [phase EXCEPT ![c] = next]
    BY <1>3 DEF Goto
  <2>2. phase'[c] = next /\ \A d \in Channels : d # c => phase'[d] = phase[d]
    BY <1>1, <2>1 DEF SocketTypes
  <2>4. DescriptorInv'
    <3>1. ASSUME NEW d \in Channels, d # c PROVE DescriptorOf(d)'
      BY <1>1, <1>3, <2>2, <3>1, OthersKeepDescriptors DEF sockets
    <3>2. DescriptorOf(c)'
      BY <1>1, <1>3, <2>2
         DEF DescriptorInv, DescriptorOf, Holding, Registered, Waiting, Gone, Destroyed, sockets
    <3> QED
      BY <3>1, <3>2 DEF DescriptorInv
  <2>5. PathInv'
    <3>1. CASE HasPath(c)
      <4>1. path = Nobody /\ path' = c
        BY <1>3, <3>1
      <4>2. UnlinkedByClient => UnlinkedByClient'
        BY <1>1, <2>2 DEF UnlinkedByClient, Destroyed
      <4>3. IsUnixServer(c)
        BY <1>1, <3>1, SocketAssumption DEF PathInv, IsUnixServer, Connects, HasPath
      <4>4. path' # Nobody => IsUnixServer(c) /\ phase'[c] \in Bound
        BY <2>2, <4>3 DEF Bound
      <4>5. ASSUME NEW d \in Channels, IsUnixServer(d), phase'[d] \in Bound, c # d
            PROVE  UnlinkedByClient'
        BY <1>1, <2>2, <4>1, <4>2, <4>5 DEF PathInv
      <4>6. \A d \in Channels :
              /\ phase'[d] \in OfClients => Connects(d)
              /\ phase'[d] \in {"bind", "listen"} => ~Connects(d)
        BY <1>1, <1>3, <2>2 DEF PathInv, OfClients, Waiting
      <4> QED
        BY <4>1, <4>4, <4>5, <4>6 DEF PathInv
    <3>2. CASE ~HasPath(c)
      BY <1>1, <1>3, <2>1, <3>2, PathStays
         DEF IsUnixServer, PathInv, OfClients, Waiting, Destroyed
    <3> QED
      BY <3>1, <3>2
  <2> QED
    BY <2>4, <2>5 DEF Intact
<1> QED
  BY <1>1, <1>2, <1>3 DEF Bind

\* listen, the registration, connect and close() move the channel on, or fail.
LEMMA MovesKeep ==
  ASSUME SocketTypes, Intact, NEW c \in Channels,
         \/ Listen(c) \/ Register(c) \/ Connect(c) \/ ConnectInGrace(c)
         \/ ConnectInactive(c) \/ Close(c) \/ CloseConnecting(c)
  PROVE  Intact'
<1>1. SocketTypes /\ PathInv
  BY DEF Intact
<1>2. CASE Listen(c)
  <2>1. CASE Disposed(c, "notListening")
    BY <1>2, <2>1, DisposedKeeps DEF Listen
  <2>2. CASE Goto(c, "ready") /\ UNCHANGED owner
    BY <1>2, <2>2, MoveKeeps
       DEF Listen, Phases, Live, Holding, Bound, OfClients, Waiting
  <2> QED
    BY <1>2, <2>1, <2>2 DEF Listen
<1>3. CASE Register(c)
  <2>1. Connects(c) => ~IsUnixServer(c)
    BY DEF Connects, IsUnixServer
  <2>2. PICK next \in {"connecting", "open"} :
          Goto(c, next) /\ (next = "connecting" <=> Connects(c))
    BY <1>3 DEF Register
  <2>3. next \in Phases /\ next \in Holding /\ phase[c] = "ready"
    BY <1>3 DEF Register, Phases, Live, Holding, Registered, Waiting
  <2> QED
    BY <1>3, <2>1, <2>2, <2>3, MoveKeeps DEF Register, Holding, Bound, OfClients, Waiting
<1>4. CASE \/ Connect(c) \/ ConnectInGrace(c) \/ ConnectInactive(c)
           \/ CloseConnecting(c)
  <2>1. phase[c] \in {"connecting", "grace", "inactive"}
    BY <1>4 DEF Connect, ConnectInGrace, ConnectInactive, CloseConnecting
  <2>2. Connects(c) /\ ~IsUnixServer(c)
    BY <1>1, <2>1 DEF PathInv, OfClients, Waiting, Connects, IsUnixServer
  <2>3. PICK next \in Waiting \cup {"open", "close", "notConnected", "closeTwice"} :
          Goto(c, next)
    BY <1>4 DEF Connect, ConnectInGrace, ConnectInactive, CloseConnecting, Waiting
  <2>4. next \in Phases /\ next \in Holding /\ phase[c] \in Holding
    BY <2>1, <2>3 DEF Phases, Live, Holding, Registered, Waiting
  <2>5. next \notin {"bind", "listen"} /\ UNCHANGED <<owner, path, sockets>>
    BY <1>4, <2>3 DEF Connect, ConnectInGrace, ConnectInactive, CloseConnecting, Waiting
  <2> QED
    BY <2>2, <2>3, <2>4, <2>5, MoveKeeps
<1>5. CASE Close(c)
  <2>1. phase[c] = "notConnected" => ~IsUnixServer(c)
    BY <1>1 DEF PathInv, OfClients, Connects, IsUnixServer
  <2>2. phase[c] \in {"open", "notConnected"} /\ Goto(c, "close")
    BY <1>5 DEF Close
  <2>3. "close" \in Phases /\ "close" \in Holding /\ phase[c] \in Holding
    BY <2>2 DEF Phases, Live, Holding, Registered
  <2> QED
    BY <1>5, <2>1, <2>2, <2>3, MoveKeeps DEF Close, Bound, OfClients, Waiting
<1> QED
  BY <1>2, <1>3, <1>4, <1>5

\* The number in the structure is the number this channel opened: closing it
\* takes nothing from another.
LEMMA CloseDescriptorKeeps ==
  ASSUME SocketTypes, Intact, NEW c \in Channels, CloseDescriptor(c)
  PROVE  Intact'
<1>1. /\ SocketTypes /\ DescriptorInv /\ PathInv /\ DescriptorOf(c)
      /\ phase[c] \in {"close", "closeTwice"}
      /\ UNCHANGED <<path, opened, fd, todo, taken>>
      /\ owner' = [owner EXCEPT ![fd[c]] = Nobody] /\ Nobody \notin Channels
      /\ UNCHANGED sockets
  BY SocketAssumption DEF Intact, DescriptorInv, CloseDescriptor, sockets
<1>2. PICK next \in {"closed", "destroy", "destroyTwice"} :
        /\ phase' = [phase EXCEPT ![c] = next]
        /\ next = "closed" => Kind[c] = "file"
        /\ next = "destroyTwice" <=> phase[c] = "closeTwice"
  BY DEF CloseDescriptor, Goto
<1>3. /\ phase'[c] = next
      /\ \A d \in Channels : d # c => phase'[d] = phase[d]
  BY <1>1, <1>2 DEF SocketTypes
<1>4. /\ fd[c] = opened[c] /\ owner[fd[c]] = c /\ fd[c] \in Fds
      /\ owner'[fd[c]] = Nobody
      /\ \A n \in Fds : n # fd[c] => owner'[n] = owner[n] /\ owner[n] # c
  BY <1>1 DEF DescriptorOf, Holding, Registered, SocketTypes
<1>6. DescriptorOf(c)'
  BY <1>1, <1>2, <1>3, <1>4 DEF DescriptorOf, Holding, Registered, Waiting, Gone, Destroyed
<1>7. ASSUME NEW d \in Channels, d # c PROVE DescriptorOf(d)'
  <2>1. \A n \in Fds : owner'[n] = d <=> owner[n] = d
    BY <1>1, <1>4, <1>7
  <2> QED
    BY <1>1, <1>3, <1>7, <2>1, OthersKeepDescriptors
<1>8. PathInv'
  <2>1. next = "closed" => ~IsUnixServer(c)
    BY <1>2 DEF IsUnixServer, HasPath
  <2>2. next = "destroyTwice" => Connects(c) /\ ~IsUnixServer(c)
    BY <1>1, <1>2 DEF PathInv, OfClients, Connects, IsUnixServer
  <2> QED
    BY <1>1, <1>2, <2>1, <2>2, PathStays DEF Bound, OfClients, Waiting, Destroyed
<1> QED
  BY <1>6, <1>7, <1>8 DEF Intact, DescriptorInv

\* What the end of a channel leaves: the path without a name, and for a unix
\* client the reason a server may have lost it.
LEMMA DestroyKeeps ==
  ASSUME SocketTypes, Intact, NEW c \in Channels, DestroyClient(c) \/ DestroyServer(c)
  PROVE  Intact'
<1>1. PICK next \in {"closed", "closeAgain"} : phase' = [phase EXCEPT ![c] = next]
  BY DEF DestroyClient, DestroyServer, Goto
<1>2. /\ SocketTypes /\ DescriptorInv /\ PathInv
      /\ phase[c] \in {"destroy", "destroyTwice"} /\ UNCHANGED <<owner, opened, fd>>
      /\ phase[c] = "destroyTwice" => Role[c] = "client"
      /\ path' = IF HasPath(c) THEN Nobody ELSE path
      /\ Nobody \notin Channels /\ Role[c] \in {"client", "server"}
  BY SocketAssumption DEF Intact, DestroyClient, DestroyServer, sockets
<1>3. /\ phase'[c] = next /\ next \in Destroyed
      /\ \A d \in Channels : d # c => phase'[d] = phase[d]
  BY <1>1, <1>2 DEF SocketTypes, Destroyed
<1>4. DescriptorInv'
  <2>1. ASSUME NEW d \in Channels, d # c PROVE DescriptorOf(d)'
    BY <1>2, <1>3, <2>1, OthersKeepDescriptors
  <2>2. DescriptorOf(c)'
    BY <1>2, <1>3 DEF DescriptorInv, DescriptorOf, Holding, Registered, Waiting, Gone, Destroyed
  <2> QED
    BY <2>1, <2>2 DEF DescriptorInv
<1>5. PathInv'
  <2>1. UnlinkedByClient => UnlinkedByClient'
    BY <1>2, <1>3 DEF UnlinkedByClient, Destroyed
  <2>2. \A d \in Channels :
          /\ phase'[d] \in OfClients => Connects(d)
          /\ phase'[d] \in {"bind", "listen"} => ~Connects(d)
    BY <1>2, <1>3 DEF PathInv, OfClients, Waiting
  <2>3. CASE ~HasPath(c)
    BY <1>1, <1>2, <2>3, PathStays DEF IsUnixServer, Bound, OfClients, Waiting, Destroyed
  <2>4. CASE HasPath(c) /\ Role[c] = "client"
    <3>1. UnlinkedByClient'
      BY <1>3, <2>4 DEF UnlinkedByClient
    <3> QED
      BY <1>2, <2>2, <2>4, <3>1 DEF PathInv
  <2>5. CASE IsUnixServer(c)
    <3>1. path' = Nobody
      BY <1>2, <2>5 DEF IsUnixServer
    <3>2. ASSUME NEW d \in Channels, IsUnixServer(d), phase'[d] \in Bound
          PROVE  UnlinkedByClient'
      <4>1. d # c /\ phase[d] \in Bound /\ phase[c] \in Bound
        BY <1>2, <1>3, <2>5, <3>2 DEF Bound, Destroyed, IsUnixServer
      <4>2. path # d \/ path # c
        BY <4>1
      <4> QED
        BY <1>2, <2>1, <2>5, <3>2, <4>1, <4>2 DEF PathInv
    <3> QED
      BY <2>2, <3>1, <3>2 DEF PathInv
  <2> QED
    BY <1>2, <2>3, <2>4, <2>5 DEF IsUnixServer
<1> QED
  BY <1>4, <1>5 DEF Intact

-----------------------------------------------------------------------------
(* Types and options, which no double close disturbs.                      *)

\* A step moves the phase of one channel.
LEMMA OnePhase ==
  ASSUME SocketTypes, NEW c \in Channels, Step(c) \/ Close(c) \/ CloseConnecting(c)
  PROVE  \E next \in Phases : phase' = [phase EXCEPT ![c] = next]
<1>1. CASE CreateSocket(c) \/ Bind(c) \/ Listen(c)
  BY <1>1 DEF CreateSocket, Bind, Listen, Disposed, Goto, Phases, Failures, Live
<1>2. CASE SetOption(c)
  <2>1. CASE phase' = phase
    BY <2>1 DEF SocketTypes
  <2>2. CASE Goto(c, "refusedOption")
    BY <2>2 DEF Goto, Phases, Failures
  <2> QED
    BY <1>2, <2>1, <2>2 DEF SetOption, Disposed
<1>3. CASE Created(c) \/ Register(c) \/ Connect(c) \/ Close(c)
  BY <1>3 DEF Created, Register, Connect, Close, Goto, Phases, Live, Registered, Waiting
<1>4. CASE ConnectInGrace(c) \/ ConnectInactive(c) \/ CloseConnecting(c)
  BY <1>4 DEF ConnectInGrace, ConnectInactive, CloseConnecting, Goto, Phases, Live,
              Registered, Waiting
<1>5. CASE \/ CloseDescriptor(c) \/ DestroyClient(c) \/ DestroyServer(c)
           \/ CloseAgain(c) \/ DestroyAgain(c)
  BY <1>5 DEF CloseDescriptor, DestroyClient, DestroyServer, CloseAgain, DestroyAgain,
              Goto, Phases, Destroyed
<1> QED
  BY <1>1, <1>2, <1>3, <1>4, <1>5 DEF Step

LEMMA TypesStep ==
  ASSUME SocketTypes, NEW c \in Channels, Step(c) \/ Close(c) \/ CloseConnecting(c)
  PROVE  SocketTypes'
<1>1. phase' \in [Channels -> Phases]
  BY OnePhase DEF SocketTypes
<1>2. owner' \in [Fds -> Channels \cup {Process, Nobody}]
  <2>1. Available # {} => Min(Available) \in Fds
    <3>1. Available \in SUBSET Nat
      BY SocketAssumption DEF Available, Fds
    <3> QED
      BY <3>1, MinIsElement DEF Available
  <2>2. CASE UNCHANGED owner \/ \E next : Disposed(c, next)
    BY <2>2 DEF SocketTypes, Disposed
  <2>3. CASE CreateSocket(c)
    BY <2>1, <2>2, <2>3 DEF SocketTypes, CreateSocket
  <2>4. CASE CloseDescriptor(c) \/ CloseAgain(c)
    BY <2>4 DEF SocketTypes, CloseDescriptor, CloseAgain
  <2>5. CASE SetOption(c) \/ Bind(c) \/ Listen(c)
    BY <2>2, <2>5 DEF SetOption, Bind, Listen
  <2> QED
    BY <2>2, <2>3, <2>4, <2>5
       DEF Step, Created, Register, Connect, ConnectInGrace, ConnectInactive,
           DestroyClient, DestroyServer, DestroyAgain, Close, CloseConnecting
<1>3. path' \in Channels \cup {Nobody}
  BY DEF SocketTypes, Step, CreateSocket, SetOption, Created, Bind, Listen, Register,
         Connect, ConnectInGrace, ConnectInactive, CloseDescriptor, DestroyClient,
         DestroyServer, CloseAgain, DestroyAgain, Close, CloseConnecting
<1>4. /\ opened' \in [Channels -> Fds] /\ fd' \in [Channels -> Fds]
      /\ todo' \in [Channels -> SUBSET Options] /\ taken' \in [Channels -> SUBSET Options]
  <2>1. CASE UNCHANGED sockets
    BY <2>1 DEF SocketTypes, sockets
  <2>2. CASE CreateSocket(c)
    <3>1. Available # {} => Min(Available) \in Fds
      <4>1. Available \in SUBSET Nat
        BY SocketAssumption DEF Available, Fds
      <4> QED
        BY <4>1, MinIsElement DEF Available
    <3>2. Wanted(c) \in SUBSET Options
      BY OptionsAreOptions
    <3> QED
      BY <2>1, <2>2, <3>1, <3>2 DEF SocketTypes, CreateSocket
  <2>3. CASE SetOption(c)
    <3>1. ASSUME NEW option \in todo[c],
                 todo' = [todo EXCEPT ![c] = @ \ {option}],
                 taken' = IF TakesEffect(option)
                          THEN [taken EXCEPT ![c] = @ \cup {option}] ELSE taken,
                 UNCHANGED <<opened, fd>>
          PROVE  /\ opened' \in [Channels -> Fds] /\ fd' \in [Channels -> Fds]
                 /\ todo' \in [Channels -> SUBSET Options]
                 /\ taken' \in [Channels -> SUBSET Options]
      <4>1. todo[c] \subseteq Options
        BY DEF SocketTypes
      <4> HIDE DEF TakesEffect
      <4> QED
        BY <3>1, <4>1 DEF SocketTypes
    <3> QED
      BY <2>1, <2>3, <3>1 DEF SetOption
  <2>4. CASE Created(c)
    BY <2>4 DEF SocketTypes, Created
  <2> QED
    BY <2>1, <2>2, <2>3, <2>4
       DEF Step, Bind, Listen, Register, Connect, ConnectInGrace, ConnectInactive,
           CloseDescriptor, DestroyClient, DestroyServer, CloseAgain, DestroyAgain,
           Close, CloseConnecting
<1> QED
  BY <1>1, <1>2, <1>3, <1>4 DEF SocketTypes

\* The options of the other channels, and of one whose socket is not touched.
LEMMA OptionsStay ==
  ASSUME SocketTypes, OptionInv, NEW c \in Channels, NEW next,
         phase' = [phase EXCEPT ![c] = next],
         next \notin {"new", "options"},
         next \in Holding => phase[c] \in Holding,
         UNCHANGED <<todo, taken>>
  PROVE  OptionInv'
<1>1. phase'[c] = next /\ \A d \in Channels : d # c => phase'[d] = phase[d]
  BY DEF SocketTypes
<1> QED
  BY <1>1 DEF OptionInv

LEMMA OptionsStep ==
  ASSUME SocketTypes, OptionInv, NEW c \in Channels,
         Step(c) \/ Close(c) \/ CloseConnecting(c)
  PROVE  OptionInv'
<1>1. CASE \E next \in Failures : Disposed(c, next) /\ UNCHANGED sockets
  <2>1. PICK next \in Failures : Disposed(c, next) /\ UNCHANGED sockets
    BY <1>1
  <2> QED
    BY <2>1, OptionsStay DEF Disposed, Goto, sockets, Failures, Holding, Registered, Waiting
<1>2. CASE CreateSocket(c)
  <2>1. CASE Disposed(c, "noSocket") /\ UNCHANGED sockets
    BY <1>1, <2>1 DEF Failures
  <2>2. ASSUME phase' = [phase EXCEPT ![c] = "options"],
               todo' = [todo EXCEPT ![c] = Wanted(c)], taken' = taken
        PROVE  OptionInv'
    <3>1. /\ phase'[c] = "options" /\ todo'[c] = Wanted(c) /\ taken'[c] = {}
          /\ \A d \in Channels : d # c => phase'[d] = phase[d] /\ todo'[d] = todo[d]
      BY <1>2, <2>2 DEF SocketTypes, OptionInv, CreateSocket
    <3> QED
      BY <2>2, <3>1 DEF OptionInv, Holding, Registered, Waiting
  <2> QED
    BY <1>2, <2>1, <2>2 DEF CreateSocket, Goto
<1>3. CASE SetOption(c)
  <2>1. CASE Disposed(c, "refusedOption") /\ UNCHANGED sockets
    BY <1>1, <2>1 DEF Failures
  <2>2. ASSUME NEW option \in todo[c],
               todo' = [todo EXCEPT ![c] = @ \ {option}],
               taken' = IF TakesEffect(option)
                        THEN [taken EXCEPT ![c] = @ \cup {option}] ELSE taken,
               phase' = phase
        PROVE  OptionInv'
    <3> HIDE DEF TakesEffect
    <3>1. /\ phase[c] = "options" /\ todo'[c] = todo[c] \ {option}
          /\ taken'[c] = IF TakesEffect(option) THEN taken[c] \cup {option} ELSE taken[c]
          /\ \A d \in Channels : d # c => taken'[d] = taken[d] /\ todo'[d] = todo[d]
      BY <1>3, <2>2 DEF SocketTypes, SetOption
    <3>2. /\ todo[c] \subseteq Wanted(c)
          /\ taken[c] = {o \in Wanted(c) \ todo[c] : TakesEffect(o)}
      BY <3>1 DEF OptionInv
    <3>3. taken'[c] = {o \in Wanted(c) \ todo'[c] : TakesEffect(o)}
      BY <2>2, <3>1, <3>2
    <3> QED
      BY <2>2, <3>1, <3>2, <3>3 DEF OptionInv, Holding, Registered, Waiting
  <2> QED
    BY <1>3, <2>1, <2>2 DEF SetOption
<1>4. CASE Created(c)
  <2>1. PICK next \in {"ready", "bind"} : phase' = [phase EXCEPT ![c] = next]
    BY <1>4 DEF Created, Goto
  <2>2. /\ phase'[c] = next /\ \A d \in Channels : d # c => phase'[d] = phase[d]
        /\ UNCHANGED <<todo, taken>> /\ taken[c] = InEffect(c)
    BY <1>4, <2>1 DEF SocketTypes, OptionInv, Created, InEffect
  <2> QED
    BY <2>2 DEF OptionInv, InEffect
<1>5. CASE Bind(c) \/ Listen(c)
  <2>1. CASE \E next \in {"listen", "ready"} : Goto(c, next) /\ UNCHANGED sockets
    BY <1>5, <2>1, OptionsStay DEF Bind, Listen, Goto, sockets, Holding
  <2> QED
    BY <1>1, <1>5, <2>1 DEF Bind, Listen, Failures
<1>6. CASE \/ Register(c) \/ Connect(c) \/ ConnectInGrace(c) \/ ConnectInactive(c)
           \/ Close(c) \/ CloseConnecting(c)
  <2>1. phase[c] \in Holding
    BY <1>6 DEF Register, Connect, ConnectInGrace, ConnectInactive, Close,
                CloseConnecting, Holding, Registered, Waiting
  <2>2. PICK next \in Registered : Goto(c, next) /\ UNCHANGED sockets
    BY <1>6 DEF Register, Connect, ConnectInGrace, ConnectInactive, Close,
                CloseConnecting, Registered, Waiting
  <2> QED
    BY <2>1, <2>2, OptionsStay DEF Goto, sockets, Registered, Waiting
<1>7. CASE \/ CloseDescriptor(c) \/ DestroyClient(c) \/ DestroyServer(c)
           \/ CloseAgain(c) \/ DestroyAgain(c)
  <2>1. PICK next \in {"destroy", "destroyTwice"} \cup Destroyed :
          Goto(c, next) /\ UNCHANGED sockets
    BY <1>7 DEF CloseDescriptor, DestroyClient, DestroyServer, CloseAgain,
                DestroyAgain, Destroyed
  <2> QED
    BY <2>1, OptionsStay DEF Goto, sockets, Destroyed, Holding, Registered, Waiting
<1> QED
  BY <1>2, <1>3, <1>4, <1>5, <1>6, <1>7 DEF Step

-----------------------------------------------------------------------------
(* The invariant and what it gives.                                        *)

LEMMA SocketInitial == Init => SocketInv
<1> SUFFICES ASSUME Init PROVE SocketInv
  OBVIOUS
<1>1. /\ owner \in [Fds -> {Process, Nobody}] /\ path = Nobody
      /\ phase = [c \in Channels |-> "new"] /\ opened = [c \in Channels |-> 0]
      /\ fd = [c \in Channels |-> 0] /\ todo = [c \in Channels |-> {}]
      /\ taken = [c \in Channels |-> {}]
      /\ Nobody \notin Channels /\ Process \notin Channels /\ 0 \in Fds
  BY SocketAssumption DEF Init, Fds
<1>2. SocketTypes
  BY <1>1 DEF SocketTypes, Phases
<1>3. DescriptorInv
  BY <1>1 DEF DescriptorInv, DescriptorOf, Holding, Registered, Waiting, Gone, Destroyed
<1>4. PathInv
  BY <1>1 DEF PathInv, Bound, OfClients, Waiting
<1>5. OptionInv
  BY <1>1 DEF OptionInv, Holding, Registered, Waiting
<1> QED
  BY <1>2, <1>3, <1>4, <1>5 DEF SocketInv, Intact

LEMMA SocketStep == SocketInv /\ [Next]_vars => SocketInv'
<1> SUFFICES ASSUME SocketInv, [Next]_vars PROVE SocketInv'
  OBVIOUS
<1>1. ASSUME NEW c \in Channels, Step(c) \/ Close(c) \/ CloseConnecting(c)
      PROVE  SocketInv'
  <2>1. SocketTypes' /\ OptionInv'
    BY <1>1, TypesStep, OptionsStep DEF SocketInv
  <2>2. CASE ClosedTwice
    <3>1. PICK d \in Channels : phase[d] \in {"destroyAgain", "closedTwice"}
      BY <2>2 DEF ClosedTwice
    <3>2. CASE d = c
      <4>1. DestroyAgain(c)
        BY <1>1, <3>1, <3>2
           DEF Step, CreateSocket, SetOption, Created, Bind, Listen, Register, Connect,
               ConnectInGrace, ConnectInactive, CloseDescriptor, DestroyClient,
               DestroyServer, CloseAgain, Close, CloseConnecting
      <4>2. phase'[c] = "closedTwice"
        BY <4>1 DEF DestroyAgain, Goto, SocketInv, SocketTypes
      <4> QED
        BY <2>1, <4>2 DEF SocketInv, ClosedTwice
    <3>3. CASE d # c
      <4>1. phase'[d] = phase[d]
        BY <1>1, <3>3, OnePhase DEF SocketInv, SocketTypes
      <4> QED
        BY <2>1, <3>1, <4>1 DEF SocketInv, ClosedTwice
    <3> QED
      BY <3>2, <3>3
  <2>3. CASE ~ClosedTwice
    <3>1. SocketTypes /\ Intact
      BY <2>3 DEF SocketInv
    <3>2. CASE CloseAgain(c)
      <4>1. phase'[c] = "destroyAgain"
        BY <3>1, <3>2 DEF CloseAgain, Goto, SocketTypes
      <4> QED
        BY <2>1, <4>1 DEF SocketInv, ClosedTwice
    <3>3. ~DestroyAgain(c)
      BY <2>3 DEF ClosedTwice, DestroyAgain
    <3>4. CASE ~CloseAgain(c)
      <4>1. Intact'
        BY <1>1, <3>1, <3>3, <3>4, CreateSocketKeeps, SetOptionKeeps, CreatedKeeps,
           BindKeeps, MovesKeep, CloseDescriptorKeeps, DestroyKeeps DEF Step
      <4> QED
        BY <2>1, <4>1 DEF SocketInv
    <3> QED
      BY <3>2, <3>4
  <2> QED
    BY <2>2, <2>3
<1>2. CASE UNCHANGED vars
  <2>1. /\ owner' = owner /\ path' = path /\ phase' = phase /\ opened' = opened
        /\ fd' = fd /\ todo' = todo /\ taken' = taken
    BY <1>2 DEF vars
  <2> QED
    BY <2>1 DEF SocketInv, Intact, SocketTypes, DescriptorInv, DescriptorOf, PathInv,
                UnlinkedByClient, OptionInv, ClosedTwice
<1> QED
  BY <1>1, <1>2 DEF Next

\* The invariant holds in every reachable state, whatever system calls fail.
THEOREM SocketInvariant == Spec => []SocketInv
BY SocketInitial, SocketStep, PTL DEF Spec

\* Every variable keeps its type.
THEOREM SocketTypeCorrect == Spec => []TypeOK
<1>1. SocketInv => TypeOK
  BY DEF SocketInv, SocketTypes, TypeOK
<1> QED
  BY <1>1, SocketInvariant, PTL

\* A socket in use has the options that were asked for, up to the departures,
\* whatever is asked.
THEOREM OptionsAreAsAsked == Spec => []OptionsAreKnown
<1>1. ASSUME NEW c \in Channels
      PROVE  InEffect(c) = ((Asked[c] \cap ToSet(OptionsOf(Kind[c]))) \ Departures(c))
                             \cup Unasked(c)
  <2>1. Kind[c] \in {"tcp", "udp", "unix", "file"}
    BY SocketAssumption
  <2>2. "KEEPINTVL" \in ToSet(TcpOptions)
    <3>1. 17 \in DOMAIN TcpOptions /\ TcpOptions[17] = "KEEPINTVL"
      BY DEF TcpOptions
    <3> QED
      BY <3>1 DEF ToSet
  <2>3. "REUSEADDR" \in ToSet(UdpOptions) /\ "KEEPINTVL" \notin ToSet(UdpOptions)
    <3>1. 3 \in DOMAIN UdpOptions /\ UdpOptions[3] = "REUSEADDR"
      BY DEF UdpOptions
    <3>2. \A i \in DOMAIN UdpOptions : UdpOptions[i] # "KEEPINTVL"
      BY DEF UdpOptions
    <3> QED
      BY <3>1, <3>2 DEF ToSet
  <2>4. "KEEPINTVL" \notin ToSet(UnixOptions) /\ ToSet(<<>>) = {}
    <3>1. \A i \in DOMAIN UnixOptions : UnixOptions[i] # "KEEPINTVL"
      BY DEF UnixOptions
    <3> QED
      BY <3>1 DEF ToSet
  <2> DEFINE all == ToSet(OptionsOf(Kind[c]))
  <2>5. /\ Kind[c] = "tcp" => "KEEPINTVL" \in all
        /\ Kind[c] # "tcp" => "KEEPINTVL" \notin all
        /\ Kind[c] = "udp" => "REUSEADDR" \in all
    BY <2>1, <2>2, <2>3, <2>4 DEF OptionsOf
  <2> HIDE DEF all
  <2>6. \A o : o \in InEffect(c) <=>
                 /\ o \in all /\ o # "CLOCEXEC"
                 /\ o \in Flags(c) \/ (Kind[c] = "udp" /\ o = "REUSEADDR")
    BY DEF InEffect, Wanted, TakesEffect, all
  <2>7. \A o : o \in Flags(c) <=>
                 /\ IF o = "KEEPINTVL" THEN "KEEPIDLE" \in Asked[c] ELSE o \in Asked[c]
                 /\ ~(Kind[c] = "tcp" /\ Role[c] = "client" /\ o = "NODELAY")
    BY DEF Flags
  <2>8. \A o : o \in InEffect(c) <=>
                 o \in ((Asked[c] \cap all) \ Departures(c)) \cup Unasked(c)
    BY <2>5, <2>6, <2>7 DEF Departures, Unasked
  <2> QED
    BY <2>8 DEF all
<1>2. SocketInv => OptionsAreKnown
  BY <1>1 DEF SocketInv, OptionInv, Holding, OptionsAreKnown
<1> QED
  BY <1>2, SocketInvariant, PTL

\* Until a unix client is closed twice, four things outlive a channel: the
\* socket of a refused option, that of a tcp client closed by force while it
\* connected, number 0, and the path of a server that could not listen; and an
\* open server loses its path only to a client that connected to one.
THEOREM OnlyKnownLeftovers == Spec => []LeftoversAreKnown
<1>1. SocketInv => LeftoversAreKnown
  <2> SUFFICES ASSUME SocketTypes, Intact PROVE LeftoversAreKnown
    BY DEF SocketInv, LeftoversAreKnown
  <2>1. ASSUME NEW n \in Fds, owner[n] \in Channels, phase[owner[n]] \notin Live
        PROVE  phase[owner[n]] \in {"refusedOption", "stuck"} \/ n = 0
    <3>1. DescriptorOf(owner[n]) /\ phase[owner[n]] \in Phases
      BY <2>1 DEF Intact, DescriptorInv, SocketTypes
    <3> QED
      BY <2>1, <3>1 DEF DescriptorOf, Phases, Failures, Gone, Destroyed
  <2>2. path # Nobody /\ phase[path] \notin Live \cup {"destroy"}
          => phase[path] = "notListening"
    BY DEF Intact, PathInv, Bound, Live, Registered, Waiting
  <2>3. ASSUME NEW c \in Channels, Role[c] = "server", HasPath(c), phase[c] = "open",
               path # c
        PROVE  UnlinkedByClient
    BY <2>3 DEF Intact, PathInv, Bound, IsUnixServer
  <2> QED
    BY <2>1, <2>2, <2>3 DEF LeftoversAreKnown, UnlinkedByClient
<1> QED
  BY <1>1, SocketInvariant, PTL

\* A descriptor is closed by the channel that opened it and in a step of its
\* own: neither the cleaning up after a failed set-up nor the end of a channel
\* reaches a number the kernel has given to somebody else in the meantime.  The
\* first to do so is the second close of a unix client.
THEOREM OnlyOwnIsClosed == Spec => ClosesOnlyOwn
<1> DEFINE Own(n) == \/ owner[n] = Nobody
                     \/ owner[n] \in Channels /\ fd[owner[n]] = n
                        /\ phase'[owner[n]] # phase[owner[n]]
                     \/ ClosedTwice'
<1>1. SocketInv /\ [Next]_vars => [\A n \in Fds : owner'[n] = Nobody => Own(n)]_vars
  <2> SUFFICES ASSUME SocketInv, Next, NEW n \in Fds, owner'[n] = Nobody,
                      owner[n] # Nobody, ~ClosedTwice'
               PROVE  Own(n)
    OBVIOUS
  <2>1. PICK c \in Channels : Step(c) \/ Close(c) \/ CloseConnecting(c)
    BY DEF Next
  <2>2. /\ SocketTypes /\ c # Nobody
        /\ owner \in [Fds -> Channels \cup {Process, Nobody}]
        /\ phase \in [Channels -> Phases]
    BY SocketAssumption DEF SocketInv, SocketTypes
  <2>3. ~CloseAgain(c) /\ ~DestroyAgain(c)
    BY <2>2 DEF CloseAgain, DestroyAgain, Goto, ClosedTwice
  <2>4. CASE Created(c) \/ Register(c) \/ Connect(c) \/ ConnectInGrace(c)
             \/ ConnectInactive(c) \/ DestroyClient(c) \/ DestroyServer(c)
             \/ Close(c) \/ CloseConnecting(c)
    BY <2>4 DEF Created, Register, Connect, ConnectInGrace, ConnectInactive,
                DestroyClient, DestroyServer, Close, CloseConnecting
  <2>5. CASE CreateSocket(c) \/ SetOption(c) \/ Bind(c) \/ Listen(c) \/ CloseDescriptor(c)
    <3>1. ~ClosedTwice
      <4> SUFFICES ASSUME NEW d \in Channels, phase[d] \in {"destroyAgain", "closedTwice"}
                   PROVE  FALSE
        BY DEF ClosedTwice
      <4>1. d # c
        BY <2>5 DEF CreateSocket, SetOption, Bind, Listen, CloseDescriptor
      <4>2. phase'[d] = phase[d]
        BY <2>1, <2>2, <4>1, OnePhase
      <4> QED
        BY <4>2 DEF ClosedTwice
    <3>2. DescriptorOf(c)
      BY <3>1 DEF SocketInv, Intact, DescriptorInv
    <3>3. ASSUME NEW next, phase[c] # next, Disposed(c, next),
                 phase[c] \in {"new", "options", "bind", "listen"}
          PROVE  Own(n)
      <4>1. fd[c] > 0 /\ n = fd[c]
        BY <2>2, <3>3 DEF Disposed
      <4>2. owner[n] = c
        BY <2>2, <3>2, <3>3, <4>1 DEF DescriptorOf, Holding
      <4> QED
        BY <2>2, <3>3, <4>1, <4>2 DEF Disposed, Goto
    <3>4. CASE CreateSocket(c)
      <4>1. owner' = [owner EXCEPT ![Min(Available)] = c] => owner'[n] # Nobody
        BY <2>2
      <4> QED
        BY <3>3, <3>4, <4>1 DEF CreateSocket
    <3>5. CASE SetOption(c)
      BY <3>3, <3>5 DEF SetOption
    <3>6. CASE Bind(c) \/ Listen(c)
      BY <3>3, <3>6 DEF Bind, Listen
    <3>7. CASE CloseDescriptor(c)
      <4>1. n = fd[c] /\ owner[n] = c
        BY <2>2, <3>2, <3>7 DEF CloseDescriptor, DescriptorOf, Holding, Registered
      <4>2. phase'[c] \in {"closed", "destroy", "destroyTwice"}
        BY <2>2, <3>7 DEF CloseDescriptor, Goto
      <4> QED
        BY <2>2, <3>7, <4>1, <4>2 DEF CloseDescriptor
    <3> QED
      BY <2>5, <3>4, <3>5, <3>6, <3>7
  <2> QED
    BY <2>1, <2>3, <2>4, <2>5 DEF Step
<1> QED
  BY <1>1, SocketInvariant, PTL DEF Spec, ClosesOnlyOwn
=============================================================================
