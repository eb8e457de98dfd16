------------------------------ MODULE MCStartup ------------------------------
(***************************************************************************)
(* Files of up to three lines.  The first is any line of up to MaxFirst    *)
(* characters and words about one option, or, as the others are, one of    *)
(* the lines below.  unsigned int and unsigned long are cut down to what   *)
(* TLC can count, unsigned short is as it is; up to 2 connections.         *)
(***************************************************************************)
EXTENDS Startup

CONSTANT MaxFirst   \* bound: the length of an arbitrary first line

Good == "u/p@db"
Wrong == "u/x@db"

MCWords == {"LOG_LEVEL", "log_level", "debug", "CONNECT_STRING", "Connect_string",
            Good, Wrong, "CONNECTION_COUNT", "SERVER_PORT", "KAFKA_BROKER", "b:9092",
            "0", "1", "3k", "65537", "-65535", "20000000"}

MCToUpper == [w \in {"log_level", "Connect_string"} |->
                CASE w = "log_level" -> "LOG_LEVEL" [] OTHER -> "CONNECT_STRING"]

MCNumeral == [w \in {"0", "1", "3k", "65537", "-65535", "20000000"} |->
                CASE w = "0" -> 0 [] w = "1" -> 1 [] w = "3k" -> 3
                  [] w = "65537" -> 65537 [] w = "-65535" -> -65535
                  [] OTHER -> 20000000]

MCLogins == {<<Good>>}

\* Every line about LOG_LEVEL.
AnyLine ==
  {line \in SeqOf(Marks \cup {"log_level", "debug"}, MaxFirst) :
     \A i \in 1..Len(line) - 1 : line[i] \in Marks \/ line[i + 1] \in Marks}

ConnectLines ==
  { <<"CONNECT_STRING", "eq", Good>>,
    <<"sp", "Connect_string", "sp", "eq", "sp", Good, "sp", "hash", Wrong>>,
    <<"CONNECT_STRING", "eq", Good, "cr">>,
    <<"CONNECT_STRING", "eq", Wrong, "eq", "1">>,
    <<"CONNECT_STRING", "eq", "hash", Good>> }

CountLines == {<<"CONNECTION_COUNT", "eq", n>> : n \in DOMAIN MCNumeral \cup {Wrong}}

OtherLines ==
  { <<"hash", "CONNECT_STRING", "eq", Wrong>>,
    <<"SERVER_PORT", "eq", "20000000">>,
    <<"SERVER_PORT", "sp", "-65535", "cr">>,
    <<"KAFKA_BROKER", "eq", "b:9092">>,
    <<"sp">> }

MCLines == << AnyLine \cup ConnectLines \cup CountLines \cup OtherLines,
              ConnectLines \cup {<<"sp">>},
              CountLines \cup {<<"CONNECT_STRING", "eq">>} >>

=============================================================================
