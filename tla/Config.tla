------------------------------- MODULE Config -------------------------------
(***************************************************************************)
(* The configuration file (Config.h/.cpp): ReadConfigFile takes it line by *)
(* line, a later line overriding an earlier one, until a line throws or    *)
(* the file ends, and ValidateParams looks at what came out.               *)
(*                                                                         *)
(* A line is a sequence of marks (the characters the code looks for) and   *)
(* words (longest runs of other characters).                               *)
(*                                                                         *)
(* Definitions whose comment starts with "Mutant:" are not the code: each  *)
(* is the definition after it with a bug, which some property must catch.  *)
(***************************************************************************)
EXTENDS Integers, SequencesExt

CONSTANTS
  Words,     \* the words in the file
  ToUpper,   \* what toupper makes of those with a lower-case letter
  Numeral,   \* the words that begin with a number, and the number
  Lines,     \* Lines[i]: the lines the file may have at place i
  maxConnCount,   \* the largest CONNECTION_COUNT (16)
  UShort,    \* the number of values of unsigned short,
  UInt,      \*   of unsigned int
  ULong      \*   and of unsigned long

\* A blank or tab, '=', '#', a carriage return, a null character.
Marks == {"sp", "eq", "hash", "cr", "nul"}

ASSUME WordAssumption ==
  /\ Words \cap Marks = {}
  /\ DOMAIN ToUpper \subseteq Words
  /\ DOMAIN Numeral \subseteq Words
  /\ \A w \in DOMAIN Numeral : Numeral[w] \in Int

ASSUME LineAssumption ==
  /\ Lines \in Seq(SUBSET Seq(Marks \cup Words))
  /\ \A i \in DOMAIN Lines : \A line \in Lines[i] : \A j \in 1..Len(line) - 1 :
       line[j] \in Words => line[j + 1] \in Marks

minConnCount == 1

ASSUME WidthAssumption ==
  /\ maxConnCount \in Nat /\ UShort \in Nat /\ UInt \in Nat /\ ULong \in Nat
  /\ minConnCount < maxConnCount /\ maxConnCount < UShort /\ UShort <= UInt /\ UInt <= ULong
  /\ 5300 < UInt   \* the default of SERVER_PORT

VARIABLES
  status,     \* "reading", "badLine" or "invalid" (both rejected), "accepted",
              \*   and "closed" when the file and its history are done with
  settings,   \* the fields of Config, by the name of the parameter
  file        \* history: the lines read

configVars == <<status, settings, file>>

Names == {"SERVER_PORT", "LOG_DIR", "CONNECT_STRING", "CONNECTION_COUNT",
          "LOG_LEVEL", "KAFKA_BROKER", "KAFKA_TOPIC_SMS", "KAFKA_TOPIC_CALLS"}

LogLevels == {"error", "notice", "debug"}

Defaults ==
  [n \in Names |->
     CASE n = "SERVER_PORT"      -> 5300
       [] n = "CONNECTION_COUNT" -> 2
       [] n = "LOG_LEVEL"        -> "notice"
       [] OTHER                  -> <<>>]

-----------------------------------------------------------------------------
(* One line, with the searches of std::string.  Positions count from 1.    *)

NPos == 0

\* line.find_first_of(set, from) and line.find_first_not_of(set, from)
FindFirstOf(line, set, from) ==
  IF from = NPos THEN NPos
    ELSE SelectInSubSeq(line, from, Len(line), LAMBDA c : c \in set)

FindFirstNotOf(line, set, from) ==
  IF from = NPos THEN NPos
    ELSE SelectInSubSeq(line, from, Len(line), LAMBDA c : c \notin set)

\* line.substr(from, to - from), to the end if to is npos
Cut(line, from, to) ==
  SubSeq(line, from, IF to = NPos THEN Len(line) ELSE to - 1)

\* The first character that is not blank: pos.
Start(line) == FindFirstNotOf(line, {"sp", "cr"}, 1)

IsComment(line) == Start(line) # NPos /\ line[Start(line)] \in {"hash", "nul"}

\* The end of the option's name: delim_pos.
Delimiter(line) == FindFirstOf(line, {"sp", "eq"}, Start(line))

Upper(c) == IF c \in DOMAIN ToUpper THEN ToUpper[c] ELSE c

\* Without a delimiter the name is the whole line, leading blanks included.
OptionName(line) ==
  LET name == IF Delimiter(line) = NPos
                THEN line ELSE Cut(line, Start(line), Delimiter(line))
  IN [i \in DOMAIN name |-> Upper(name[i])]

\* From the first character behind the delimiters to a blank or a comment.
OptionValue(line) ==
  LET value == FindFirstNotOf(line, {"sp", "eq"}, Delimiter(line))
  IN IF value = NPos
       THEN <<>> ELSE Cut(line, value, FindFirstOf(line, {"sp", "hash"}, value))

\* std::stoul: skips leading white space, ignores what is behind the number,
\* wraps a negative one.  {} if it throws (no number, or one out of range).
Stoul(value) ==
  LET start == FindFirstNotOf(value, {"cr"}, 1)
  IN IF start = NPos \/ value[start] \notin DOMAIN Numeral
       THEN {}
       ELSE {n % ULong : n \in {Numeral[value[start]]} \cap (1 - ULong)..(ULong - 1)}

\* Mutant: CONNECTION_COUNT keeps the width of unsigned int.
ParsedWide(name, value) ==
  CASE name \in {"SERVER_PORT", "CONNECTION_COUNT"} -> {n % UInt : n \in Stoul(value)}
    [] name = "LOG_LEVEL" -> {l \in LogLevels : value = <<l>>}
    [] OTHER              -> {value}

\* What is assigned to the field of the option; {} if its value throws.
Parsed(name, value) ==
  CASE name = "SERVER_PORT"      -> {n % UInt : n \in Stoul(value)}
    [] name = "CONNECTION_COUNT" -> {n % UShort : n \in Stoul(value)}
    [] name = "LOG_LEVEL"        -> {l \in LogLevels : value = <<l>>}
    [] OTHER                     -> {value}

\* A comment, or a line whose option has no name, changes nothing.
IsSkipped(line) == IsComment(line) \/ OptionName(line) = <<>>

-----------------------------------------------------------------------------

ConfigInit ==
  /\ status = "reading"
  /\ settings = Defaults
  /\ file = <<>>

\* The lines the file may have next.
NextLines == IF Len(file) < Len(Lines) THEN Lines[Len(file) + 1] ELSE {}

\* getline
NextLine(line) ==
  /\ status = "reading"
  /\ file' = Append(file, line)

SkipLine(line) ==
  /\ NextLine(line)
  /\ IsSkipped(line)
  /\ UNCHANGED <<status, settings>>

\* Mutant: the first line that sets an option wins.
SetOptionOnce(line) ==
  /\ NextLine(line)
  /\ ~IsSkipped(line)
  /\ \E name \in Names :
       /\ OptionName(line) = <<name>>
       /\ \E value \in Parsed(name, OptionValue(line)) :
            settings' = IF settings[name] = Defaults[name]
                          THEN [settings EXCEPT ![name] = value] ELSE settings
  /\ UNCHANGED status

SetOption(line) ==
  /\ NextLine(line)
  /\ ~IsSkipped(line)
  /\ \E name \in Names :
       /\ OptionName(line) = <<name>>
       /\ \E value \in Parsed(name, OptionValue(line)) :
            settings' = [settings EXCEPT ![name] = value]
  /\ UNCHANGED status

\* An unknown option or a wrong value throws; main() exits.
BadLine(line) ==
  /\ NextLine(line)
  /\ ~IsSkipped(line)
  /\ \A name \in Names :
       OptionName(line) = <<name>> => Parsed(name, OptionValue(line)) = {}
  /\ status' = "badLine"
  /\ UNCHANGED settings

\* Mutant: the largest number of connections is taken for the first one too large.
ValidBelowMax ==
  /\ settings["CONNECT_STRING"] # <<>>
  /\ settings["CONNECTION_COUNT"] \in minConnCount..maxConnCount - 1

\* The conditions of ValidateParams.
Valid ==
  /\ settings["CONNECT_STRING"] # <<>>
  /\ settings["CONNECTION_COUNT"] \in minConnCount..maxConnCount

\* The file ends.
ValidateParams ==
  /\ status = "reading"
  /\ status' = IF Valid THEN "accepted" ELSE "invalid"
  /\ UNCHANGED <<settings, file>>

ConfigNext ==
  \/ \E line \in NextLines : SkipLine(line) \/ SetOption(line) \/ BadLine(line)
  \/ ValidateParams

ConfigSpec == ConfigInit /\ [][ConfigNext]_configVars

-----------------------------------------------------------------------------
(* What a line means, by its grammar.                                      *)

\* The first n characters of a line are blank.
BlankTo(line, n) == \A i \in 1..n : line[i] \in {"sp", "cr"}

\* Nothing, a comment, or something in the place of a name that is no name.
MeansNothing(line) ==
  \/ line = <<>>
  \/ \E n \in 0..Len(line) - 1 :
       BlankTo(line, n) /\ line[n + 1] \in {"hash", "nul", "eq"}

\* A place s where the value may start, and a place e where it may end: blanks,
\* the name, at least one separator, the value, and the end, a blank or a comment.
Spans(line, name, s, e) ==
  /\ \E n \in 1..s - 2 :
       /\ BlankTo(line, n - 1)
       /\ Upper(line[n]) = name
       /\ \A i \in n + 1..s - 1 : line[i] \in {"sp", "eq"}
  /\ \A i \in s..e : line[i] \notin {"sp", "hash"}
  /\ s <= Len(line) => line[s] \notin {"sp", "eq"}
  /\ e < Len(line) => line[e + 1] \in {"sp", "hash"}

\* The values the line gives the option: one, or none.
Gives(line, name) ==
  {SubSeq(line, t[1], t[2]) : t \in {u \in (1..Len(line) + 1) \X (0..Len(line)) :
                                      u[1] <= u[2] + 1 /\ Spans(line, name, u[1], u[2])}}
    \cup {v \in {<<>>} : Len(line) = 1 /\ Upper(line[1]) = name}

\* The lines of the file that give the option a value.
Givers(name) == {i \in DOMAIN file : Gives(file[i], name) # {}}

\* What the file says about the option: its last line that gives it a value.
Says(name) ==
  IF Givers(name) = {}
    THEN {Defaults[name]}
    ELSE UNION {Parsed(name, v) : v \in Gives(file[Max(Givers(name))], name)}

\* The number a value is written as, however large: one, or none.
NumbersIn(value) ==
  {Numeral[value[i]] : i \in {j \in DOMAIN value : BlankTo(value, j - 1)
                                                     /\ value[j] \in DOMAIN Numeral}}

\* The number of connections as the file writes it, before any field has to hold it.
ConnectionsWritten ==
  LET givers == Givers("CONNECTION_COUNT")
  IN IF givers = {}
       THEN {Defaults["CONNECTION_COUNT"]}
       ELSE UNION {NumbersIn(v) : v \in Gives(file[Max(givers)], "CONNECTION_COUNT")}

\* A line that is neither without meaning nor gives some option a good value.
IsBad(line) ==
  /\ ~MeansNothing(line)
  /\ \A name \in Names : \A v \in Gives(line, name) : Parsed(name, v) = {}

-----------------------------------------------------------------------------
(* Properties.                                                             *)

\* What is assigned to an option is what the last line that gives it says,
\* whatever blanks, comments and meaningless lines surround it, and its default
\* if there is none.
SettingsAreLastLines ==
  status \notin {"badLine", "closed"} =>
    \A name \in Names : Says(name) = {settings[name]}

\* Reading stops at the first bad line and at nothing else a line says.  At the end of
\* the file ValidateParams never refuses one that says a connect string and is written
\* with 1 to maxConnCount connections, and never accepts one without a connect string
\* or with another number of connections that an unsigned short holds.  (What it makes
\* of a number that does not fit is AcceptedCountInRange.)
FileIsJudged ==
  /\ \A i \in DOMAIN file : IsBad(file[i]) <=> status = "badLine" /\ i = Len(file)
  /\ status = "invalid" =>
       <<>> \in Says("CONNECT_STRING") \/ ~(ConnectionsWritten \subseteq 1..maxConnCount)
  /\ status = "accepted" =>
       /\ <<>> \notin Says("CONNECT_STRING")
       /\ ConnectionsWritten \cap 0..UShort - 1 \subseteq 1..maxConnCount

\* "CONNECTION_COUNT must have value from 1 to 16", says the message of ValidateParams:
\* an accepted file is written with that many.
AcceptedCountInRange ==
  status = "accepted" => ConnectionsWritten \subseteq 1..maxConnCount

=============================================================================
