----------------------------- MODULE SocketSetup -----------------------------
(***************************************************************************)
(* How channels get and give back what the process shares between its      *)
(* workers: descriptor numbers and the path of a unix socket               *)
(* (transport_socket.c, transport_client.c, transport_server.c,            *)
(* transport_file.c and the factories that call them).                     *)
(*                                                                         *)
(* A step is one system call, and any of them may fail: workers run on     *)
(* threads of their own, while the set-up or the end of one channel is not *)
(* interrupted by other channels of its worker.                            *)
(***************************************************************************)
EXTENDS Integers, SequencesExt

CONSTANTS
  Channels,
  Worker,    \* the worker of a channel
  Role,      \* "client" or "server"
  Kind,      \* "tcp", "udp", "unix" or "file"
  Asked,     \* the options a configuration asks for
  MaxFd,     \* bound: the last descriptor number
  Process,   \* owner of a descriptor that was open at the start
  Nobody

Fds == 0..MaxFd

\* The order in which the options of a socket are set.
TcpOptions == <<
  "NONBLOCK", "CLOCEXEC", "REUSEADDR", "REUSEPORT", "RCVBUF", "SNDBUF",
  "KEEPALIVE", "RCVLOWAT", "SNDLOWAT", "IP_TTL", "FREEBIND", "QUICKACK",
  "DEFER_ACCEPT", "FASTOPEN", "KEEPIDLE", "KEEPCNT", "KEEPINTVL", "MAXSEG",
  "NODELAY", "SYNCNT">>
UdpOptions == <<
  "NONBLOCK", "CLOCEXEC", "REUSEADDR", "REUSEPORT", "RCVBUF", "SNDBUF",
  "BROADCAST", "RCVLOWAT", "SNDLOWAT", "IP_TTL", "FREEBIND",
  "MULTICAST_ALL", "MULTICAST_IF", "MULTICAST_LOOP", "MULTICAST_TTL">>
UnixOptions == <<
  "NONBLOCK", "CLOCEXEC", "RCVBUF", "SNDBUF", "KEEPALIVE", "RCVLOWAT",
  "SNDLOWAT">>

OptionsOf(kind) ==
  CASE kind = "tcp" -> TcpOptions [] kind = "udp" -> UdpOptions
    [] kind = "unix" -> UnixOptions [] OTHER -> <<>>

\* TRANSPORT_SOCKET_OPTION_...
Options == ToSet(TcpOptions) \cup ToSet(UdpOptions)

ASSUME SocketAssumption ==
  /\ Channels \subseteq DOMAIN Worker
  /\ Role \in [Channels -> {"client", "server"}]
  /\ Kind \in [Channels -> {"tcp", "udp", "unix", "file"}]
  /\ Asked \in [Channels -> SUBSET Options]
  /\ MaxFd \in Nat
  /\ {Process, Nobody} \cap Channels = {} /\ Process # Nobody

VARIABLES
  owner,   \* owner[fd]: who opened the descriptor that is open as fd
  path,    \* the server whose socket the path of the unix sockets names
  phase,   \* phase[c]: the next step of channel c
  opened,  \* opened[c]: fd of transport_socket_create_..., 0 before
  fd,      \* fd[c]: _pointer.ref.fd, 0 in the zeroed structure
  todo,    \* todo[c]: the options still to be set
  taken    \* taken[c]: the options in effect

vars == <<owner, path, phase, opened, fd, todo, taken>>
sockets == <<opened, fd, todo, taken>>

(* ---- what is asked of a socket ---- *)

\* The flags of a configuration: the client's leave TCP_NODELAY out, and the
\* interval is set to the idle time if there is one.
Flags(c) ==
  LET kept == Asked[c] \ {"KEEPINTVL"}
      all  == kept \cup {o \in {"KEEPINTVL"} : "KEEPIDLE" \in kept}
  IN  IF Kind[c] = "tcp" /\ Role[c] = "client" THEN all \ {"NODELAY"} ELSE all

\* A datagram socket reuses its address whether that is asked or not.
Wanted(c) ==
  {o \in ToSet(OptionsOf(Kind[c])) :
     o \in Flags(c) \/ (Kind[c] = "udp" /\ o = "REUSEADDR")}

\* F_SETFL takes no O_CLOEXEC.
TakesEffect(option) == option # "CLOCEXEC"

IsListener(c) == Role[c] = "server" /\ Kind[c] \in {"tcp", "unix"}
Connects(c) == Role[c] = "client" /\ Kind[c] \in {"tcp", "unix"}
HasPath(c) == Kind[c] = "unix"

Init ==
  /\ owner \in [Fds -> {Process, Nobody}]
  /\ \A n \in Fds \ {0} : owner[n] = Nobody
  /\ path = Nobody
  /\ phase = [c \in Channels |-> "new"]
  /\ opened = [c \in Channels |-> 0]
  /\ fd = [c \in Channels |-> 0]
  /\ todo = [c \in Channels |-> {}]
  /\ taken = [c \in Channels |-> {}]

Goto(c, next) == phase' = [phase EXCEPT ![c] = next]

Available == {n \in Fds : owner[n] = Nobody}

\* The factory when the initialisation failed: transport_close_descriptor if
\* the structure has a descriptor, free, throw.
Disposed(c, next) ==
  /\ owner' = IF fd[c] > 0 THEN [owner EXCEPT ![fd[c]] = Nobody] ELSE owner
  /\ Goto(c, next)

(* ---- the system calls of a set-up ---- *)

\* Mutation of CreateSocket: the -1 of a failed socket() is not noticed.
CreateSocketUnchecked(c) ==
  /\ phase[c] = "new"
  /\ opened' = [opened EXCEPT ![c] = IF Available = {} THEN -1 ELSE Min(Available)]
  /\ owner' = [n \in Fds |-> IF n = opened'[c] THEN c ELSE owner[n]]
  /\ todo' = [todo EXCEPT ![c] = Wanted(c)]
  /\ Goto(c, "options")
  /\ UNCHANGED <<path, fd, taken>>

\* socket() or open(): the lowest number that is free.
CreateSocket(c) ==
  /\ phase[c] = "new"
  /\ \/ /\ Disposed(c, "noSocket")
        /\ UNCHANGED sockets
     \/ /\ Available # {}
        /\ owner' = [owner EXCEPT ![Min(Available)] = c]
        /\ opened' = [opened EXCEPT ![c] = Min(Available)]
        /\ todo' = [todo EXCEPT ![c] = Wanted(c)]
        /\ Goto(c, "options")
        /\ UNCHANGED <<fd, taken>>
  /\ UNCHANGED path

\* The first of the options still to be set.
IsNext(c, option) ==
  LET order == OptionsOf(Kind[c])
  IN  \E i \in DOMAIN order : /\ option = order[i] /\ option \in todo[c]
                             /\ \A j \in 1..(i - 1) : order[j] \notin todo[c]

\* Mutation of SetOption: an option that needs a value ends the sequence.
SetOptionReturns(c) ==
  /\ phase[c] = "options"
  /\ \E option \in todo[c] :
       /\ IsNext(c, option)
       /\ todo' = [todo EXCEPT ![c] = {}]
       /\ taken' = IF TakesEffect(option)
                   THEN [taken EXCEPT ![c] = @ \cup {option}] ELSE taken
  /\ UNCHANGED <<owner, path, phase, opened, fd>>

\* One setsockopt or fcntl; a refusal returns without closing the socket.
SetOption(c) ==
  /\ phase[c] = "options"
  /\ \E option \in todo[c] :
       /\ IsNext(c, option)
       /\ \/ /\ Disposed(c, "refusedOption")
             /\ UNCHANGED sockets
          \/ /\ todo' = [todo EXCEPT ![c] = @ \ {option}]
             /\ taken' = IF TakesEffect(option)
                         THEN [taken EXCEPT ![c] = @ \cup {option}] ELSE taken
             /\ UNCHANGED <<owner, phase, opened, fd>>
  /\ UNCHANGED path

\* The descriptor is stored in the structure of the channel.
Created(c) ==
  /\ phase[c] = "options" /\ todo[c] = {}
  /\ fd' = [fd EXCEPT ![c] = opened[c]]
  /\ Goto(c, IF Connects(c) \/ Kind[c] = "file" THEN "ready" ELSE "bind")
  /\ UNCHANGED <<owner, path, opened, todo, taken>>

\* A unix socket is bound only where no file is.
Bind(c) ==
  /\ phase[c] = "bind"
  /\ \/ Disposed(c, "notBound") /\ UNCHANGED path
     \/ /\ HasPath(c) => path = Nobody
        /\ path' = IF HasPath(c) THEN c ELSE path
        /\ Goto(c, IF IsListener(c) THEN "listen" ELSE "ready")
        /\ UNCHANGED owner
  /\ UNCHANGED sockets

Listen(c) ==
  /\ phase[c] = "listen"
  /\ \/ Disposed(c, "notListening")
     \/ Goto(c, "ready") /\ UNCHANGED owner
  /\ UNCHANGED <<path, sockets>>

\* The channel is registered under its descriptor.
Register(c) ==
  /\ phase[c] = "ready"
  /\ Goto(c, IF Connects(c) THEN "connecting" ELSE "open")
  /\ UNCHANGED <<owner, path, sockets>>

(* ---- connecting and closing ---- *)

\* A unix client connects if the path names a server that is open; the tcp
\* factory leaves the client whose connect failed as it is.
Connect(c) ==
  /\ phase[c] = "connecting"
  /\ \/ /\ HasPath(c) => path # Nobody /\ phase[path] = "open"
        /\ Goto(c, "open")
     \/ Goto(c, IF HasPath(c) THEN "close" ELSE "notConnected")
  /\ UNCHANGED <<owner, path, sockets>>

\* close() of a channel that has nothing under way any more.
Close(c) ==
  /\ phase[c] \in {"open", "notConnected"}
  /\ Goto(c, "close")
  /\ UNCHANGED <<owner, path, sockets>>

\* The registry closes a client that is still connecting: close() waits for
\* the connect during its grace; without one, and once it is over, the channel
\* is inactive and the connect is cancelled.
CloseConnecting(c) ==
  /\ \/ phase[c] = "connecting" /\ \E next \in {"grace", "inactive"} : Goto(c, next)
     \/ phase[c] = "grace" /\ Goto(c, "inactive")
  /\ UNCHANGED <<owner, path, sockets>>

\* The connect ends while close() waits for it.  A failure reaches the unix
\* factory as well, and each of the two closes and destroys the channel.
ConnectInGrace(c) ==
  /\ phase[c] = "grace"
  /\ \/ /\ HasPath(c) => path # Nobody /\ phase[path] = "open"
        /\ Goto(c, "close")
     \/ Goto(c, IF HasPath(c) THEN "closeTwice" ELSE "close")
  /\ UNCHANGED <<owner, path, sockets>>

\* The connect of an inactive channel ends with an error whatever its result,
\* and close() goes on waiting: only the unix factory closes the channel.
ConnectInactive(c) ==
  /\ phase[c] = "inactive"
  /\ Goto(c, IF HasPath(c) THEN "close" ELSE "stuck")
  /\ UNCHANGED <<owner, path, sockets>>

\* Mutation of CloseDescriptor: the descriptor the socket was created with
\* is closed again later.
CloseDescriptorTwice(c) ==
  /\ phase[c] \in {"close", "closeTwice", "closed"}
  /\ owner' = [owner EXCEPT ![fd[c]] = Nobody]
  /\ Goto(c, IF phase[c] = "closeTwice" THEN "destroyTwice"
             ELSE IF Kind[c] = "file" \/ phase[c] = "closed" THEN "closed" ELSE "destroy")
  /\ UNCHANGED <<path, sockets>>

\* transport_close_descriptor
CloseDescriptor(c) ==
  /\ phase[c] \in {"close", "closeTwice"}
  /\ owner' = [owner EXCEPT ![fd[c]] = Nobody]
  /\ Goto(c, IF phase[c] = "closeTwice" THEN "destroyTwice"
             ELSE IF Kind[c] = "file" THEN "closed" ELSE "destroy")
  /\ UNCHANGED <<path, sockets>>

\* The second close of a unix client, whoever has its number by now.
CloseAgain(c) ==
  /\ phase[c] = "closeAgain"
  /\ owner' = [owner EXCEPT ![fd[c]] = Nobody]
  /\ Goto(c, "destroyAgain")
  /\ UNCHANGED <<path, sockets>>

\* Mutation of DestroyServer: the path stays.
DestroyKeepsPath(c) ==
  /\ phase[c] = "destroy" /\ Role[c] = "server"
  /\ Goto(c, "closed")
  /\ UNCHANGED <<owner, path, sockets>>

\* transport_client_destroy unlinks the path the client connected to.
DestroyClient(c) ==
  /\ phase[c] \in {"destroy", "destroyTwice"} /\ Role[c] = "client"
  /\ path' = IF HasPath(c) THEN Nobody ELSE path
  /\ Goto(c, IF phase[c] = "destroy" THEN "closed" ELSE "closeAgain")
  /\ UNCHANGED <<owner, sockets>>

\* The second one takes the path from freed memory.
DestroyAgain(c) ==
  /\ phase[c] = "destroyAgain"
  /\ path' \in {path, Nobody}
  /\ Goto(c, "closedTwice")
  /\ UNCHANGED <<owner, sockets>>

\* transport_server_destroy
DestroyServer(c) ==
  /\ phase[c] = "destroy" /\ Role[c] = "server"
  /\ path' = IF HasPath(c) THEN Nobody ELSE path
  /\ Goto(c, "closed")
  /\ UNCHANGED <<owner, sockets>>

Step(c) ==
  \/ CreateSocket(c) \/ SetOption(c) \/ Created(c)
  \/ Bind(c) \/ Listen(c) \/ Register(c)
  \/ Connect(c) \/ ConnectInGrace(c) \/ ConnectInactive(c)
  \/ CloseDescriptor(c) \/ DestroyClient(c) \/ DestroyServer(c)
  \/ CloseAgain(c) \/ DestroyAgain(c)

Busy == {"options", "bind", "listen", "ready", "close", "destroy", "closeTwice",
         "destroyTwice", "destroyAgain"}

\* No other channel of the worker is in the middle of its own steps.
Runs(c) ==
  \A d \in Channels \ {c} : Worker[d] = Worker[c] => phase[d] \notin Busy

\* The second destroy has freed the structure again: whatever the process does
\* then, or the abort of free, is not modelled.
FreedTwice == \E c \in Channels : phase[c] = "closedTwice"

Next ==
  /\ ~FreedTwice
  /\ \E c \in Channels : Runs(c) /\ (Step(c) \/ Close(c) \/ CloseConnecting(c))

Spec == Init /\ [][Next]_vars

(* ---- properties ---- *)

Failures == {"noSocket", "refusedOption", "notBound", "notListening"}
Waiting == {"connecting", "grace", "inactive", "stuck"}
Registered == Waiting \cup {"notConnected", "open", "close", "closeTwice"}
Live == (Registered \ {"stuck"}) \cup {"options", "bind", "listen", "ready"}

\* The phases of a client after its first destroy.
Destroyed == {"closed", "closeAgain", "destroyAgain", "closedTwice"}
Phases == {"new", "destroy", "destroyTwice", "stuck"} \cup Failures \cup Live \cup Destroyed

\* Types; the -1 of a failed call is nowhere taken for a descriptor.
TypeOK ==
  /\ owner \in [Fds -> Channels \cup {Process, Nobody}]
  /\ path \in Channels \cup {Nobody}
  /\ phase \in [Channels -> Phases]
  /\ opened \in [Channels -> Fds] /\ fd \in [Channels -> Fds]
  /\ todo \in [Channels -> SUBSET Options]
  /\ taken \in [Channels -> SUBSET Options]

\* The documented options that are not set as asked: close-on-exec and, of a
\* tcp client, no delay are without effect; the interval is never the asked one.
Departures(c) ==
  {"CLOCEXEC", "KEEPINTVL"}
    \cup {o \in {"NODELAY"} : Kind[c] = "tcp" /\ Role[c] = "client"}

\* What is set though nobody asked: the interval, to the idle time.
Unasked(c) ==
  {o \in {"KEEPINTVL"} : Kind[c] = "tcp" /\ "KEEPIDLE" \in Asked[c]}
    \cup {o \in {"REUSEADDR"} : Kind[c] = "udp"}

\* A socket in use has the options its configuration asks for, up to those
\* departures, and no others: none is forgotten on the way.
OptionsAreKnown ==
  \A c \in Channels : phase[c] \in Registered =>
    taken[c] = ((Asked[c] \cap ToSet(OptionsOf(Kind[c]))) \ Departures(c)) \cup Unasked(c)

\* A unix client whose connect failed during the grace of a close has been
\* closed a second time, and its memory been freed.
ClosedTwice == \E c \in Channels : phase[c] \in {"destroyAgain", "closedTwice"}

\* No channel closes a descriptor of another channel or of the process, not
\* when its set-up fails half way and not when it is closed itself, before a
\* unix client is closed twice: this takes whatever its number is by then.
ClosesOnlyOwn ==
  [][\A n \in Fds : owner'[n] = Nobody =>
       \/ owner[n] = Nobody
       \/ owner[n] \in Channels /\ fd[owner[n]] = n
          /\ phase'[owner[n]] # phase[owner[n]]
       \/ ClosedTwice']_vars

\* Up to such a double close, what outlives its channel is known: the
\* descriptor of a refused option; that of a tcp client closed by force while
\* it connected; number 0, which the factories take for "no descriptor"; and
\* the path of a server that could not listen.  And the path of an open server
\* goes only with a client, whose destroy unlinks the path it had connected to.
LeftoversAreKnown ==
  ClosedTwice \/
    /\ \A n \in Fds : owner[n] \in Channels /\ phase[owner[n]] \notin Live
         => phase[owner[n]] \in {"refusedOption", "stuck"} \/ n = 0
    /\ path # Nobody /\ phase[path] \notin Live \cup {"destroy"}
         => phase[path] = "notListening"
    /\ \A c \in Channels :
         Role[c] = "server" /\ HasPath(c) /\ phase[c] = "open" /\ path # c
           => \E d \in Channels : Role[d] = "client" /\ HasPath(d) /\ phase[d] \in Destroyed
=============================================================================
