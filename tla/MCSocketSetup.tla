---- MODULE MCSocketSetup ----
(* Two workers: a unix server with a tcp client and a file, and a unix client
   with a udp server. *)
EXTENDS SocketSetup

Workers == [c \in Channels |-> IF c \in {"s", "t", "f"} THEN 1 ELSE 2]
Roles == [c \in Channels |-> IF c \in {"s", "u"} THEN "server" ELSE "client"]
Kinds == [c \in Channels |-> CASE c \in {"s", "c"} -> "unix" [] c = "t" -> "tcp"
                               [] c = "u" -> "udp" [] c = "f" -> "file"]
AskedOptions == [c \in Channels |-> CASE c = "t" -> {"CLOCEXEC", "KEEPIDLE", "KEEPINTVL", "NODELAY"}
                                      [] OTHER -> {}]
====
