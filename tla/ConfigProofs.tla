---------------------------- MODULE ConfigProofs ----------------------------
(***************************************************************************)
(* Theorems about Config, for lines of any length and files of any number  *)
(* of lines: the searches of ReadConfigFile find what the grammar says.    *)
(***************************************************************************)
EXTENDS Config, SequenceTheorems, WellFoundedInduction, TLAPS

-----------------------------------------------------------------------------
(* The types of the settings.                                              *)

Text == Seq(Marks \cup Words)

\* A set of places that is not empty has a first one.
LEMMA SmallestIn ==
  ASSUME NEW I \in SUBSET Nat, I # {}
  PROVE  Min(I) \in I /\ \A i \in I : Min(I) <= i
<1> DEFINE R == {p \in Nat \X Nat : p[1] < p[2]}
<1>1. IsWellFoundedOn(R, Nat)
  BY NatLessThanWellFounded DEF OpToRel
<1>2. PICK m \in I : \A i \in I : <<i, m>> \notin R
  <2> HIDE DEF R
  <2>1. QED
    BY <1>1, WFMin
<1>3. ASSUME NEW i \in I
      PROVE  m <= i
  <2>1. i \in Nat /\ m \in Nat
    OBVIOUS
  <2>2. i < m => <<i, m>> \in R
    BY <2>1
  <2>3. QED
    BY <1>2, <2>1, <2>2
<1>4. QED
  BY <1>3 DEF Min

\* The two searches find nothing, or something from where they start.
LEMMA SearchBounds ==
  ASSUME NEW S, NEW line \in Seq(S), NEW set, NEW from \in Nat
  PROVE  /\ FindFirstOf(line, set, from) \in {NPos} \cup (from..Len(line))
         /\ FindFirstNotOf(line, set, from) \in {NPos} \cup (from..Len(line))
         /\ from = NPos =>
              /\ FindFirstOf(line, set, from) = NPos
              /\ FindFirstNotOf(line, set, from) = NPos
<1> DEFINE I == {i \in from..Len(line) : line[i] \in set}
           J == {i \in from..Len(line) : line[i] \notin set}
<1>1. Len(line) \in Nat /\ I \in SUBSET Nat /\ J \in SUBSET Nat
  BY LenProperties
<1>2. I # {} => Min(I) \in I
  BY <1>1, SmallestIn
<1>3. J # {} => Min(J) \in J
  BY <1>1, SmallestIn
<1>4. QED
  BY <1>2, <1>3 DEF FindFirstOf, FindFirstNotOf, SelectInSubSeq, NPos

\* substr between two places of a line is a piece of text.
LEMMA CutType ==
  ASSUME NEW line \in Text, NEW from \in 1..Len(line), NEW to \in {NPos} \cup (from..Len(line))
  PROVE  Cut(line, from, to) \in Text
<1>1. Len(line) \in Nat /\ \A i \in 1..Len(line) : line[i] \in Marks \cup Words
  BY LenProperties, ElementOfSeq DEF Text
<1> DEFINE last == IF to = NPos THEN Len(line) ELSE to - 1
<1>2. last \in Int /\ \A i \in from..last : line[i] \in Marks \cup Words
  BY <1>1 DEF NPos
<1>3. QED
  BY <1>2, SubSeqProperties DEF Cut, Text

\* The value of an option line, cut where ReadConfigFile cuts it, is a piece of text.
LEMMA OptionValueType ==
  ASSUME NEW line \in Text
  PROVE  OptionValue(line) \in Text
<1> DEFINE start == Start(line)
           delim == Delimiter(line)
           value == FindFirstNotOf(line, {"sp", "eq"}, delim)
           end   == FindFirstOf(line, {"sp", "hash"}, value)
<1>1. Len(line) \in Nat
  BY LenProperties DEF Text
<1>2. start \in {NPos} \cup (1..Len(line))
  BY SearchBounds DEF Start, Text
<1>3. delim \in {NPos} \cup (1..Len(line))
  BY <1>1, <1>2, SearchBounds DEF Delimiter, Text, NPos
<1>4. value \in {NPos} \cup (1..Len(line))
  BY <1>1, <1>3, SearchBounds DEF Text, NPos
<1>5. end \in {NPos} \cup (value..Len(line))
  BY <1>1, <1>4, SearchBounds DEF Text, NPos
<1>6. CASE value = NPos
  <2>1. <<>> \in Text
    BY DEF Text
  <2>2. QED
    BY <1>6, <2>1 DEF OptionValue
<1>7. CASE value # NPos
  <2>1. Cut(line, value, end) \in Text
    BY <1>4, <1>5, <1>7, CutType
  <2>2. QED
    BY <1>7, <2>1 DEF OptionValue
<1>8. QED
  BY <1>6, <1>7

\* The type of a setting.
SettingType(name) ==
  CASE name = "SERVER_PORT"      -> 0..UInt - 1
    [] name = "CONNECTION_COUNT" -> 0..UShort - 1
    [] name = "LOG_LEVEL"        -> LogLevels
    [] OTHER                     -> Text

\* A value that does not throw is cut to the width of its field.
LEMMA ParsedType ==
  ASSUME NEW name \in Names, NEW v \in Text, NEW n \in Parsed(name, v)
  PROVE  n \in SettingType(name)
<1>1. UShort \in Nat /\ UShort > 0 /\ UInt \in Nat /\ UInt > 0 /\ ULong \in Nat /\ ULong > 0
  BY WidthAssumption DEF minConnCount
<1>2. Stoul(v) \subseteq Int
  BY <1>1, WordAssumption DEF Stoul
<1>3. QED
  BY <1>1, <1>2 DEF Parsed, SettingType

\* The types of the variables of Config.
ConfigTypeOK ==
  /\ status \in {"reading", "badLine", "invalid", "accepted", "closed"}
  /\ DOMAIN settings = Names
  /\ \A name \in Names : settings[name] \in SettingType(name)
  /\ file \in Seq(Text)

\* Reading a line, and validating, keep the types.
LEMMA ConfigTypeNext ==
  ConfigTypeOK /\ ConfigNext => ConfigTypeOK'
<1> SUFFICES ASSUME ConfigTypeOK, ConfigNext PROVE ConfigTypeOK'
  OBVIOUS
<1>1. ASSUME NEW line \in NextLines
      PROVE  line \in Text /\ Append(file, line) \in Seq(Text)
  <2>1. Len(file) \in Nat /\ Len(Lines) \in Nat /\ Len(file) < Len(Lines)
    BY <1>1, LineAssumption, LenProperties DEF NextLines, ConfigTypeOK
  <2>2. Len(file) + 1 \in 1..Len(Lines)
    BY <2>1
  <2>3. Lines[Len(file) + 1] \in SUBSET Text
    BY <2>2, LineAssumption, ElementOfSeq DEF Text
  <2>4. line \in Text
    BY <1>1, <2>1, <2>3 DEF NextLines
  <2>5. QED
    BY <2>4, AppendProperties DEF ConfigTypeOK
<1>2. ASSUME NEW line \in NextLines, SkipLine(line) \/ BadLine(line)
      PROVE  ConfigTypeOK'
  BY <1>1, <1>2 DEF SkipLine, BadLine, NextLine, ConfigTypeOK
<1>3. ASSUME NEW line \in NextLines, SetOption(line)
      PROVE  ConfigTypeOK'
  <2>1. PICK name \in Names : \E value \in Parsed(name, OptionValue(line)) :
          settings' = [settings EXCEPT ![name] = value]
    BY <1>3 DEF SetOption
  <2> PICK value \in Parsed(name, OptionValue(line)) :
        settings' = [settings EXCEPT ![name] = value]
    BY <2>1
  <2>2. value \in SettingType(name)
    BY <1>1, <2>1, OptionValueType, ParsedType
  <2>3. file' \in Seq(Text) /\ status' = status
    BY <1>1, <1>3 DEF SetOption, NextLine
  <2>4. QED
    BY <2>1, <2>2, <2>3 DEF ConfigTypeOK
<1>4. CASE ValidateParams
  BY <1>4 DEF ValidateParams, ConfigTypeOK
<1>5. QED
  BY <1>2, <1>3, <1>4 DEF ConfigNext

\* The defaults of the Config constructor have the types of their fields.
LEMMA ConfigTypeInit == ConfigInit => ConfigTypeOK
<1> SUFFICES ASSUME ConfigInit PROVE ConfigTypeOK
  OBVIOUS
<1>1. status = "reading" /\ settings = Defaults /\ file = <<>>
  BY DEF ConfigInit
<1>2. ASSUME NEW name \in Names
      PROVE  Defaults[name] \in SettingType(name)
  <2>1. CASE name = "SERVER_PORT"
    <3>1. Defaults[name] = 5300 /\ SettingType(name) = 0..UInt - 1
      BY <2>1 DEF Defaults, SettingType
    <3>2. QED
      BY <3>1, WidthAssumption
  <2>2. CASE name = "CONNECTION_COUNT"
    <3>1. Defaults[name] = 2 /\ SettingType(name) = 0..UShort - 1
      BY <2>2 DEF Defaults, SettingType
    <3>2. QED
      BY <3>1, WidthAssumption DEF minConnCount
  <2>3. CASE name = "LOG_LEVEL"
    BY <2>3 DEF Defaults, SettingType, LogLevels
  <2>4. CASE name \notin {"SERVER_PORT", "CONNECTION_COUNT", "LOG_LEVEL"}
    <3>1. Defaults[name] = <<>> /\ SettingType(name) = Text
      BY <2>4 DEF Defaults, SettingType
    <3>2. QED
      BY <3>1 DEF Text
  <2>5. QED
    BY <2>1, <2>2, <2>3, <2>4
<1>3. QED
  BY <1>1, <1>2 DEF ConfigTypeOK, Defaults

-----------------------------------------------------------------------------
(* The searches, and the grammar of a line.                                *)

\* r is the first place of the line, from a given one on, with a character of the
\* set, or NPos because there is none.
FirstIn(line, set, from, r) ==
  \/ r = NPos /\ \A i \in from..Len(line) : line[i] \notin set
  \/ /\ r \in from..Len(line) /\ line[r] \in set
     /\ \A i \in from..r - 1 : line[i] \notin set

\* The same for a character that is not of the set.
FirstNotIn(line, set, from, r) ==
  \/ r = NPos /\ \A i \in from..Len(line) : line[i] \in set
  \/ /\ r \in from..Len(line) /\ line[r] \notin set
     /\ \A i \in from..r - 1 : line[i] \in set

\* find_first_of and find_first_not_of find that place.
LEMMA SearchFinds ==
  ASSUME NEW line \in Text, NEW set, NEW from \in Nat \ {0}
  PROVE  /\ FirstIn(line, set, from, FindFirstOf(line, set, from))
         /\ FirstNotIn(line, set, from, FindFirstNotOf(line, set, from))
<1> DEFINE I == {i \in from..Len(line) : line[i] \in set}
           J == {i \in from..Len(line) : line[i] \notin set}
<1>1. Len(line) \in Nat /\ I \in SUBSET Nat /\ J \in SUBSET Nat
  BY LenProperties DEF Text
<1>2. I # {} => Min(I) \in I /\ \A i \in I : Min(I) <= i
  BY <1>1, SmallestIn
<1>3. J # {} => Min(J) \in J /\ \A i \in J : Min(J) <= i
  BY <1>1, SmallestIn
<1>4. FindFirstOf(line, set, from) = IF I # {} THEN Min(I) ELSE NPos
  BY DEF FindFirstOf, SelectInSubSeq, NPos
<1>5. FindFirstNotOf(line, set, from) = IF J # {} THEN Min(J) ELSE NPos
  BY DEF FindFirstNotOf, SelectInSubSeq, NPos
<1> DEFINE x == Min(I)
           y == Min(J)
<1>6. ASSUME I # {}
      PROVE  FirstIn(line, set, from, x)
  <2> HIDE DEF x
  <2>1. x \in from..Len(line) /\ line[x] \in set /\ \A i \in I : x <= i
    BY <1>2, <1>6 DEF x
  <2>2. \A i \in from..x - 1 : line[i] \notin set
    BY <1>1, <2>1
  <2>3. QED
    BY <2>1, <2>2 DEF FirstIn
<1>7. ASSUME J # {}
      PROVE  FirstNotIn(line, set, from, y)
  <2> HIDE DEF y
  <2>1. y \in from..Len(line) /\ line[y] \notin set /\ \A i \in J : y <= i
    BY <1>3, <1>7 DEF y
  <2>2. \A i \in from..y - 1 : line[i] \in set
    BY <1>1, <2>1
  <2>3. QED
    BY <2>1, <2>2 DEF FirstNotIn
<1>8. I = {} => FirstIn(line, set, from, NPos)
  BY DEF FirstIn
<1>9. J = {} => FirstNotIn(line, set, from, NPos)
  BY DEF FirstNotIn
<1>10. QED
  BY <1>4, <1>5, <1>6, <1>7, <1>8, <1>9

\* There is one such place.
LEMMA FirstIsOne ==
  ASSUME NEW line \in Text, NEW set, NEW from \in Nat \ {0}, NEW r
  PROVE  /\ FirstIn(line, set, from, r) => r = FindFirstOf(line, set, from)
         /\ FirstNotIn(line, set, from, r) => r = FindFirstNotOf(line, set, from)
<1>1. Len(line) \in Nat
  BY LenProperties DEF Text
<1>2. PICK x : x = FindFirstOf(line, set, from) /\ FirstIn(line, set, from, x)
  BY SearchFinds
<1>3. PICK y : y = FindFirstNotOf(line, set, from) /\ FirstNotIn(line, set, from, y)
  BY SearchFinds
<1>4. FirstIn(line, set, from, r) => r = x
  BY <1>1, <1>2 DEF FirstIn, NPos
<1>5. FirstNotIn(line, set, from, r) => r = y
  BY <1>1, <1>3 DEF FirstNotIn, NPos
<1>6. QED
  BY <1>2, <1>3, <1>4, <1>5

\* A mark is no part of a name: toupper leaves it alone.
LEMMA MarkIsNoName ==
  ASSUME NEW c \in Marks
  PROVE  Upper(c) = c /\ Upper(c) \notin Names
BY WordAssumption DEF Marks, Upper, Names

\* The first character that is not blank is where the first n are, and no other.
LEMMA StartIs ==
  ASSUME NEW line \in Text
  PROVE  /\ Start(line) = NPos \/ Start(line) \in 1..Len(line)
         /\ Start(line) = NPos => BlankTo(line, Len(line))
         /\ Start(line) # NPos => /\ BlankTo(line, Start(line) - 1)
                                  /\ line[Start(line)] \notin {"sp", "cr"}
         /\ \A n \in 1..Len(line) :
              BlankTo(line, n - 1) /\ line[n] \notin {"sp", "cr"} => Start(line) = n
<1>1. Len(line) \in Nat
  BY LenProperties DEF Text
<1>2. FirstNotIn(line, {"sp", "cr"}, 1, Start(line))
  BY SearchFinds DEF Start
<1>3. \A n \in 1..Len(line) :
        BlankTo(line, n - 1) /\ line[n] \notin {"sp", "cr"} => FirstNotIn(line, {"sp", "cr"}, 1, n)
  BY DEF FirstNotIn, BlankTo
<1>4. \A n : FirstNotIn(line, {"sp", "cr"}, 1, n) => Start(line) = n
  BY FirstIsOne DEF Start
<1>5. /\ Start(line) = NPos \/ Start(line) \in 1..Len(line)
      /\ Start(line) = NPos => BlankTo(line, Len(line))
      /\ Start(line) # NPos => BlankTo(line, Start(line) - 1) /\ line[Start(line)] \notin {"sp", "cr"}
  BY <1>1, <1>2 DEF FirstNotIn, BlankTo, NPos
<1>6. QED
  BY <1>3, <1>4, <1>5

\* The end of the name, where there is one.
LEMMA DelimiterIs ==
  ASSUME NEW line \in Text
  PROVE  /\ Start(line) = NPos => Delimiter(line) = NPos
         /\ Start(line) # NPos => FirstIn(line, {"sp", "eq"}, Start(line), Delimiter(line))
<1>1. Start(line) = NPos => Delimiter(line) = NPos
  BY DEF Delimiter, FindFirstOf
<1>2. Start(line) # NPos => Start(line) \in Nat \ {0}
  BY StartIs, LenProperties DEF NPos, Text
<1>3. QED
  BY <1>1, <1>2, SearchFinds DEF Delimiter

\* The name of a line is one of one character c where the line is that character
\* alone, or has it between its blanks and its first separator.
LEMMA NameIs ==
  ASSUME NEW line \in Text, NEW name \in Names
  PROVE  OptionName(line) = <<name>> <=>
           IF Delimiter(line) = NPos
             THEN Len(line) = 1 /\ Upper(line[1]) = name
             ELSE Delimiter(line) = Start(line) + 1 /\ Upper(line[Start(line)]) = name
<1> DEFINE text == IF Delimiter(line) = NPos
                     THEN line ELSE Cut(line, Start(line), Delimiter(line))
           upper == [i \in DOMAIN text |-> Upper(text[i])]
<1>1. Len(line) \in Nat /\ line \in Seq(Marks \cup Words) /\ DOMAIN line = 1..Len(line)
  BY LenProperties DEF Text
<1>2. OptionName(line) = upper
  BY DEF OptionName
<1>3. Delimiter(line) # NPos =>
        /\ Start(line) \in 1..Len(line)
        /\ Delimiter(line) \in Start(line)..Len(line)
  BY StartIs, DelimiterIs DEF FirstIn, NPos
<1>4. PICK k \in Nat :
        /\ DOMAIN text = 1..k
        /\ Delimiter(line) = NPos => k = Len(line) /\ text = line
        /\ Delimiter(line) # NPos =>
             /\ k = Delimiter(line) - Start(line)
             /\ k > 0 => text[1] = line[Start(line)]
  <2>1. CASE Delimiter(line) = NPos
    BY <1>1, <2>1
  <2>2. CASE Delimiter(line) # NPos
    <3> DEFINE a == Start(line)
               d == Delimiter(line)
    <3>1. a \in 1..Len(line) /\ d \in a..Len(line) /\ text = SubSeq(line, a, d - 1)
      BY <1>3, <2>2 DEF Cut
    <3> HIDE DEF a, d, text
    <3>2. a \in 1..Len(line) + 1 /\ d - 1 \in a - 1..Len(line)
      BY <1>1, <3>1
    <3>3. /\ SubSeq(line, a, d - 1) \in Seq(Marks \cup Words)
          /\ Len(SubSeq(line, a, d - 1)) = d - a
          /\ \A i \in 1..d - a : SubSeq(line, a, d - 1)[i] = line[a + i - 1]
      <4>1. /\ Len(SubSeq(line, a, d - 1)) = IF a <= d - 1 THEN (d - 1) - a + 1 ELSE 0
            /\ SubSeq(line, a, d - 1) \in Seq(Marks \cup Words)
            /\ \A i \in 1..(d - 1) - a + 1 : SubSeq(line, a, d - 1)[i] = line[a + i - 1]
        BY <1>1, <3>1, <3>2, SubSeqProperties
      <4>2. QED
        BY <1>1, <3>1, <4>1
    <3>4. d - a \in Nat /\ DOMAIN text = 1..d - a
      BY <1>1, <3>1, <3>3, LenProperties
    <3>5. d - a > 0 => text[1] = line[a]
      BY <1>1, <3>1, <3>3
    <3>6. QED
      BY <2>2, <3>4, <3>5 DEF a, d
  <2>3. QED
    BY <2>1, <2>2
<1> HIDE DEF text
<1>5. upper = <<name>> <=> k = 1 /\ Upper(text[1]) = name
  <2>1. ASSUME upper = <<name>>
        PROVE  k = 1 /\ Upper(text[1]) = name
    <3>1. DOMAIN upper = 1..1 /\ upper[1] = name
      BY <2>1
    <3>2. 1..k = 1..1
      BY <1>4, <3>1
    <3>3. k = 1
      <4>1. 1 \in 1..k /\ 2 \notin 1..k
        BY <3>2
      <4>2. QED
        BY <4>1
    <3>4. QED
      BY <1>4, <3>1, <3>3
  <2>2. ASSUME k = 1, Upper(text[1]) = name
        PROVE  upper = <<name>>
    <3>1. DOMAIN text = 1..1
      BY <1>4, <2>2
    <3>2. \A i \in 1..1 : text[i] = text[1]
      OBVIOUS
    <3>3. upper = [i \in 1..1 |-> name]
      BY <2>2, <3>1, <3>2
    <3>4. <<name>> = [i \in 1..1 |-> name]
      OBVIOUS
    <3>5. QED
      BY <3>3, <3>4
  <2>3. QED
    BY <2>1, <2>2
<1>6. CASE Delimiter(line) = NPos
  BY <1>2, <1>4, <1>5, <1>6
<1>7. CASE Delimiter(line) # NPos
  <2> DEFINE a == Start(line)
             d == Delimiter(line)
  <2>1. a \in Int /\ d \in Int /\ k = d - a /\ (k > 0 => text[1] = line[a])
    BY <1>1, <1>3, <1>4, <1>7
  <2>2. d = a + 1 <=> k = 1
    BY <2>1
  <2>3. QED
    BY <1>2, <1>5, <1>7, <2>1, <2>2
<1>8. QED
  BY <1>6, <1>7

\* A line with a name in the place of one has its name there.
LEMMA NamePlace ==
  ASSUME NEW line \in Text, NEW name \in Names, NEW n \in 1..Len(line) - 1,
         BlankTo(line, n - 1), Upper(line[n]) = name, line[n + 1] \in {"sp", "eq"}
  PROVE  /\ Start(line) = n /\ Delimiter(line) = n + 1
         /\ OptionName(line) = <<name>>
<1>1. Len(line) \in Nat /\ n \in 1..Len(line) /\ n \in Nat \ {0}
  BY LenProperties DEF Text
<1>2. line[n] \notin Marks
  BY MarkIsNoName
<1>3. Start(line) = n
  BY <1>1, <1>2, StartIs DEF Marks
<1>4. FirstIn(line, {"sp", "eq"}, n, n + 1)
  BY <1>1, <1>2 DEF FirstIn, Marks
<1>5. Delimiter(line) = n + 1
  BY <1>1, <1>3, <1>4, FirstIsOne DEF Delimiter
<1>6. QED
  BY <1>1, <1>3, <1>5, NameIs DEF NPos

\* Only one value is between the spans of a line, and it is the one cut out of it.
LEMMA SpansAreCut ==
  ASSUME NEW line \in Text, NEW name \in Names,
         NEW s \in 1..Len(line) + 1, NEW e \in 0..Len(line), s <= e + 1,
         Spans(line, name, s, e)
  PROVE  OptionName(line) = <<name>> /\ SubSeq(line, s, e) = OptionValue(line)
<1>1. Len(line) \in Nat
  BY LenProperties DEF Text
<1>2. PICK n \in 1..s - 2 :
        /\ BlankTo(line, n - 1) /\ Upper(line[n]) = name
        /\ \A i \in n + 1..s - 1 : line[i] \in {"sp", "eq"}
  BY DEF Spans
<1>3. n \in 1..Len(line) - 1 /\ n + 1 \in n + 1..s - 1 /\ n + 1 \in Nat \ {0}
  BY <1>1
<1>4. line[n + 1] \in {"sp", "eq"}
  BY <1>2, <1>3
<1>5. Delimiter(line) = n + 1 /\ OptionName(line) = <<name>>
  BY <1>2, <1>3, <1>4, NamePlace
<1>6. /\ \A i \in s..e : line[i] \notin {"sp", "hash"}
      /\ s <= Len(line) => line[s] \notin {"sp", "eq"}
      /\ e < Len(line) => line[e + 1] \in {"sp", "hash"}
  BY DEF Spans
<1>7. CASE s = Len(line) + 1
  <2>1. FirstNotIn(line, {"sp", "eq"}, n + 1, NPos)
    BY <1>1, <1>2, <1>7 DEF FirstNotIn
  <2>2. OptionValue(line) = <<>>
    BY <1>3, <1>5, <2>1, FirstIsOne DEF OptionValue
  <2>3. e = Len(line) /\ e < s
    BY <1>1, <1>7
  <2>4. SubSeq(line, s, e) = <<>>
    BY <1>1, <1>7, <2>3, SubSeqEmpty DEF Text
  <2>5. QED
    BY <1>5, <2>2, <2>4
<1>8. CASE s # Len(line) + 1
  <2>1. s \in n + 1..Len(line) /\ s # NPos /\ s \in Nat \ {0}
    BY <1>1, <1>8 DEF NPos
  <2>2. FirstNotIn(line, {"sp", "eq"}, n + 1, s)
    BY <1>2, <1>6, <2>1 DEF FirstNotIn
  <2>3. s = FindFirstNotOf(line, {"sp", "eq"}, Delimiter(line))
    BY <1>3, <1>5, <2>2, FirstIsOne
  <2>4. OptionValue(line) = Cut(line, s, FindFirstOf(line, {"sp", "hash"}, s))
    BY <2>1, <2>3 DEF OptionValue
  <2>5. CASE e = Len(line)
    <3>1. FirstIn(line, {"sp", "hash"}, s, NPos)
      BY <1>6, <2>5 DEF FirstIn
    <3>2. FindFirstOf(line, {"sp", "hash"}, s) = NPos
      BY <2>1, <3>1, FirstIsOne
    <3>3. QED
      BY <1>5, <2>4, <2>5, <3>2 DEF Cut
  <2>6. CASE e # Len(line)
    <3>1. e + 1 \in s..Len(line) /\ e + 1 # NPos /\ (e + 1) - 1 = e
      BY <1>1, <2>6 DEF NPos
    <3>2. FirstIn(line, {"sp", "hash"}, s, e + 1)
      BY <1>1, <1>6, <3>1 DEF FirstIn
    <3>3. FindFirstOf(line, {"sp", "hash"}, s) = e + 1
      BY <2>1, <3>2, FirstIsOne
    <3>4. QED
      BY <1>5, <2>4, <3>1, <3>3 DEF Cut
  <2>7. QED
    BY <2>5, <2>6
<1>9. QED
  BY <1>7, <1>8

\* A line with a name and a delimiter has spans, with its value between them.
LEMMA CutHasSpans ==
  ASSUME NEW line \in Text, NEW name \in Names,
         OptionName(line) = <<name>>, Delimiter(line) # NPos
  PROVE  \E s \in 1..Len(line) + 1, e \in 0..Len(line) :
           s <= e + 1 /\ Spans(line, name, s, e) /\ SubSeq(line, s, e) = OptionValue(line)
<1> DEFINE n == Start(line)
           d == Delimiter(line)
           v == FindFirstNotOf(line, {"sp", "eq"}, d)
           x == FindFirstOf(line, {"sp", "hash"}, v)
<1>1. Len(line) \in Nat
  BY LenProperties DEF Text
<1>2. n # NPos /\ n \in 1..Len(line) /\ BlankTo(line, n - 1)
  BY StartIs, DelimiterIs
<1>3. d = n + 1 /\ Upper(line[n]) = name
  BY NameIs
<1>4. d \in Nat \ {0} /\ d \in 1..Len(line) /\ line[d] \in {"sp", "eq"}
  BY <1>1, <1>2, <1>3, DelimiterIs DEF FirstIn, NPos
<1>5. FirstNotIn(line, {"sp", "eq"}, d, v)
  BY <1>4, SearchFinds
<1>6. OptionValue(line) = IF v = NPos THEN <<>> ELSE Cut(line, v, x)
  BY DEF OptionValue
<1>7. v # NPos => v \in Nat \ {0} /\ FirstIn(line, {"sp", "hash"}, v, x)
  <2>1. v # NPos => v \in Nat \ {0}
    BY <1>4, <1>5 DEF FirstNotIn, NPos
  <2>2. QED
    BY <2>1, SearchFinds
<1> HIDE DEF n, d, v, x
<1>8. CASE v = NPos
  <2> DEFINE s == Len(line) + 1
             e == Len(line)
  <2>1. s \in 1..Len(line) + 1 /\ e \in 0..Len(line) /\ s <= e + 1
    BY <1>1
  <2>2. \A i \in d..Len(line) : line[i] \in {"sp", "eq"}
    BY <1>1, <1>4, <1>5, <1>8 DEF FirstNotIn, NPos
  <2>3. n \in 1..s - 2
    BY <1>1, <1>2, <1>3, <1>4
  <2>4. Spans(line, name, s, e)
    BY <1>1, <1>2, <1>3, <2>2, <2>3 DEF Spans
  <2>5. SubSeq(line, s, e) = OptionValue(line)
    BY <1>1, <1>6, <1>8, SubSeqEmpty DEF Text
  <2>6. QED
    BY <2>1, <2>4, <2>5
<1>9. CASE v # NPos
  <2> DEFINE e == IF x = NPos THEN Len(line) ELSE x - 1
  <2>1. v \in d + 1..Len(line) /\ line[v] \notin {"sp", "eq"}
        /\ \A i \in d..v - 1 : line[i] \in {"sp", "eq"}
    <3>1. v \in d..Len(line) /\ line[v] \notin {"sp", "eq"}
          /\ \A i \in d..v - 1 : line[i] \in {"sp", "eq"}
      BY <1>5, <1>9 DEF FirstNotIn
    <3>2. v # d
      BY <1>4, <3>1
    <3>3. QED
      BY <1>1, <1>4, <3>1, <3>2
  <2>2. \/ x = NPos /\ \A i \in v..Len(line) : line[i] \notin {"sp", "hash"}
        \/ /\ x \in v..Len(line) /\ line[x] \in {"sp", "hash"} /\ x # NPos
           /\ \A i \in v..x - 1 : line[i] \notin {"sp", "hash"}
    BY <1>7, <1>9 DEF FirstIn, NPos
  <2>3. v \in 1..Len(line) + 1 /\ e \in 0..Len(line) /\ v <= e + 1 /\ n \in 1..v - 2
    BY <1>1, <1>2, <1>3, <1>4, <2>1, <2>2
  <2>4. /\ \A i \in v..e : line[i] \notin {"sp", "hash"}
        /\ e < Len(line) => line[e + 1] \in {"sp", "hash"}
    BY <1>1, <2>1, <2>2
  <2>5. Spans(line, name, v, e)
    BY <1>2, <1>3, <2>1, <2>3, <2>4 DEF Spans
  <2>6. SubSeq(line, v, e) = OptionValue(line)
    BY <1>6, <1>9 DEF Cut
  <2> HIDE DEF e
  <2>7. QED
    BY <2>3, <2>5, <2>6
<1>10. QED
  BY <1>8, <1>9

\* What ReadConfigFile takes for the value of an option is what the grammar says
\* the line gives it.
LEMMA GivesIsCut ==
  ASSUME NEW line \in Text, NEW name \in Names
  PROVE  Gives(line, name) = IF OptionName(line) = <<name>> THEN {OptionValue(line)} ELSE {}
<1> DEFINE T == {u \in (1..Len(line) + 1) \X (0..Len(line)) :
                   u[1] <= u[2] + 1 /\ Spans(line, name, u[1], u[2])}
           V == {SubSeq(line, t[1], t[2]) : t \in T}
           W == {v \in {<<>>} : Len(line) = 1 /\ Upper(line[1]) = name}
<1>1. Gives(line, name) = V \cup W
  BY DEF Gives
<1>2. Len(line) \in Nat
  BY LenProperties DEF Text
<1>3. V \subseteq {v \in {OptionValue(line)} : OptionName(line) = <<name>> /\ Delimiter(line) # NPos}
  <2> SUFFICES ASSUME NEW t \in T
               PROVE  /\ SubSeq(line, t[1], t[2]) = OptionValue(line)
                      /\ OptionName(line) = <<name>> /\ Delimiter(line) # NPos
    OBVIOUS
  <2>1. PICK s, e : s = t[1] /\ e = t[2]
    OBVIOUS
  <2>2. /\ s \in 1..Len(line) + 1 /\ e \in 0..Len(line) /\ s <= e + 1
        /\ Spans(line, name, s, e)
    BY <2>1
  <2>3. SubSeq(line, s, e) = OptionValue(line) /\ OptionName(line) = <<name>>
    BY <2>2, SpansAreCut
  <2>4. PICK n \in 1..s - 2 :
          /\ BlankTo(line, n - 1) /\ Upper(line[n]) = name
          /\ \A i \in n + 1..s - 1 : line[i] \in {"sp", "eq"}
    BY <2>2 DEF Spans
  <2>5. n \in 1..Len(line) - 1 /\ n + 1 \in n + 1..s - 1
    BY <1>2, <2>2
  <2>6. Delimiter(line) = n + 1
    BY <2>4, <2>5, NamePlace
  <2>7. QED
    BY <2>1, <2>3, <2>5, <2>6 DEF NPos
<1>4. OptionName(line) = <<name>> /\ Delimiter(line) # NPos => OptionValue(line) \in V
  <2>1. ASSUME OptionName(line) = <<name>>, Delimiter(line) # NPos
        PROVE  OptionValue(line) \in V
    <3>1. PICK s \in 1..Len(line) + 1, e \in 0..Len(line) :
            s <= e + 1 /\ Spans(line, name, s, e) /\ SubSeq(line, s, e) = OptionValue(line)
      BY <2>1, CutHasSpans
    <3> DEFINE t == <<s, e>>
    <3>2. t \in (1..Len(line) + 1) \X (0..Len(line)) /\ t[1] = s /\ t[2] = e
      OBVIOUS
    <3> HIDE DEF t
    <3>3. t \in T
      BY <3>1, <3>2
    <3>4. SubSeq(line, t[1], t[2]) = OptionValue(line)
      BY <3>1, <3>2
    <3>5. QED
      BY <3>3, <3>4
  <2>2. QED
    BY <2>1
<1>5. Delimiter(line) = NPos =>
        (Len(line) = 1 /\ Upper(line[1]) = name <=> OptionName(line) = <<name>>)
  BY NameIs
<1>6. Delimiter(line) = NPos => OptionValue(line) = <<>>
  BY DEF OptionValue, FindFirstNotOf
<1>7. Delimiter(line) # NPos => W = {}
  <2>1. ASSUME Delimiter(line) # NPos, Len(line) = 1, Upper(line[1]) = name
        PROVE  FALSE
    <3>1. Start(line) # NPos /\ Start(line) \in 1..1
      BY <2>1, StartIs, DelimiterIs
    <3>2. line[Delimiter(line)] \in {"sp", "eq"} /\ Delimiter(line) \in Start(line)..1
      BY <2>1, <3>1, DelimiterIs DEF FirstIn
    <3>3. line[1] \in {"sp", "eq"}
      BY <3>1, <3>2
    <3>4. QED
      BY <2>1, <3>3, MarkIsNoName DEF Marks
  <2>2. QED
    BY <2>1
<1> HIDE DEF V
<1>8. CASE Delimiter(line) = NPos
  <2>1. V = {}
    BY <1>3, <1>8
  <2>2. QED
    BY <1>1, <1>5, <1>6, <1>8, <2>1
<1>9. CASE Delimiter(line) # NPos
  BY <1>1, <1>3, <1>4, <1>7, <1>9
<1>10. QED
  BY <1>8, <1>9

\* A line has no name if it is empty, or begins with a separator.
LEMMA NoNameIs ==
  ASSUME NEW line \in Text
  PROVE  OptionName(line) = <<>> <=>
           line = <<>> \/ (Start(line) # NPos /\ line[Start(line)] = "eq")
<1>1. Len(line) \in Nat /\ DOMAIN line = 1..Len(line)
  BY LenProperties DEF Text
<1>2. Start(line) # NPos =>
        /\ Start(line) \in 1..Len(line)
        /\ line[Start(line)] \notin {"sp", "cr"}
        /\ FirstIn(line, {"sp", "eq"}, Start(line), Delimiter(line))
  BY StartIs, DelimiterIs
<1>3. Delimiter(line) # NPos =>
        /\ Start(line) # NPos
        /\ Delimiter(line) \in Start(line)..Len(line)
        /\ line[Delimiter(line)] \in {"sp", "eq"}
        /\ \A i \in Start(line)..Delimiter(line) - 1 : line[i] \notin {"sp", "eq"}
  BY <1>2, DelimiterIs DEF FirstIn
<1>4. CASE Delimiter(line) = NPos
  <2>1. OptionName(line) = [i \in DOMAIN line |-> Upper(line[i])]
    BY <1>4 DEF OptionName
  <2>2. OptionName(line) = <<>> <=> line = <<>>
    <3>1. DOMAIN OptionName(line) = 1..Len(line)
      BY <1>1, <2>1
    <3>2. OptionName(line) = <<>> => 1..Len(line) = {}
      BY <3>1
    <3>3. 1..Len(line) = {} => Len(line) = 0
      <4>1. Len(line) # 0 => 1 \in 1..Len(line)
        BY <1>1
      <4>2. QED
        BY <4>1
    <3>4. line # <<>> => Len(line) # 0
      BY EmptySeq DEF Text
    <3>5. QED
      BY <2>1, <3>2, <3>3, <3>4
  <2>3. ASSUME Start(line) # NPos
        PROVE  line[Start(line)] # "eq"
    <3>1. \A i \in Start(line)..Len(line) : line[i] \notin {"sp", "eq"}
      BY <1>1, <1>2, <1>4, <2>3 DEF FirstIn, NPos
    <3>2. QED
      BY <1>1, <1>2, <2>3, <3>1
  <2>4. QED
    BY <2>2, <2>3
<1>5. CASE Delimiter(line) # NPos
  <2> DEFINE a == Start(line)
             d == Delimiter(line)
             text == SubSeq(line, a, d - 1)
  <2>1. a \in 1..Len(line) /\ d \in a..Len(line)
    BY <1>2, <1>3, <1>5
  <2>2. OptionName(line) = [i \in DOMAIN text |-> Upper(text[i])]
    BY <1>5 DEF OptionName, Cut
  <2>3. d = a <=> line[a] = "eq"
    BY <1>1, <1>2, <1>3, <1>5, <2>1
  <2>4. line # <<>>
    BY <1>1, <2>1
  <2> HIDE DEF a, d, text
  <2>5. OptionName(line) = <<>> <=> d = a
    <3>1. DOMAIN text = 1..d - a
      <4>1. /\ d - 1 \in Int /\ line \in Seq(Marks \cup Words)
            /\ Len(text) = IF a <= d - 1 THEN (d - 1) - a + 1 ELSE 0
            /\ text \in Seq(Marks \cup Words)
        <5>1. line \in Seq(Marks \cup Words) /\ a \in 1..Len(line) + 1
              /\ d - 1 \in a - 1..Len(line)
          BY <1>1, <2>1 DEF Text
        <5>2. QED
          BY <1>1, <2>1, <5>1, SubSeqProperties DEF text
      <4>2. Len(text) = d - a
        BY <1>1, <2>1, <4>1
      <4>3. QED
        BY <4>1, <4>2, LenProperties
    <3>2. OptionName(line) = <<>> => 1..d - a = {}
      BY <2>2, <3>1
    <3>3. 1..d - a = {} <=> d = a
      BY <1>1, <2>1
    <3>4. d = a => DOMAIN text = {}
      BY <3>1, <3>3
    <3>5. QED
      BY <2>2, <3>2, <3>3, <3>4
  <2>6. QED
    BY <2>3, <2>4, <2>5, <1>3, <1>5 DEF a
<1>6. QED
  BY <1>4, <1>5

\* What ReadConfigFile skips is what the grammar calls meaningless.
LEMMA SkippedIsNothing ==
  ASSUME NEW line \in Text
  PROVE  IsSkipped(line) <=> MeansNothing(line)
<1>1. Len(line) \in Nat
  BY LenProperties DEF Text
<1>2. IsSkipped(line) <=>
        line = <<>> \/ (Start(line) # NPos /\ line[Start(line)] \in {"hash", "nul", "eq"})
  BY NoNameIs DEF IsSkipped, IsComment
<1>3. ASSUME Start(line) # NPos, line[Start(line)] \in {"hash", "nul", "eq"}
      PROVE  MeansNothing(line)
  <2>1. PICK n : n = Start(line) - 1
    OBVIOUS
  <2>2. n \in 0..Len(line) - 1 /\ n + 1 = Start(line) /\ BlankTo(line, n)
    BY <1>1, <1>3, <2>1, StartIs
  <2>3. QED
    BY <1>3, <2>2 DEF MeansNothing
<1>4. ASSUME NEW n \in 0..Len(line) - 1, BlankTo(line, n),
             line[n + 1] \in {"hash", "nul", "eq"}
      PROVE  Start(line) = n + 1 /\ Start(line) # NPos
  <2>1. n + 1 \in 1..Len(line) /\ (n + 1) - 1 = n /\ n + 1 # NPos
    BY <1>1 DEF NPos
  <2>2. QED
    BY <1>4, <2>1, StartIs
<1>5. QED
  BY <1>2, <1>3, <1>4 DEF MeansNothing

\* A line with an option's name is not skipped.
LEMMA NamedIsNotSkipped ==
  ASSUME NEW line \in Text, NEW name \in Names, OptionName(line) = <<name>>
  PROVE  ~IsSkipped(line)
<1>1. Len(line) \in Nat
  BY LenProperties DEF Text
<1>2. OptionName(line) # <<>>
  OBVIOUS
<1>3. ASSUME IsComment(line)
      PROVE  FALSE
  <2>1. Start(line) \in 1..Len(line) /\ line[Start(line)] \in Marks
    BY <1>3, StartIs DEF IsComment, Marks
  <2>2. IF Delimiter(line) = NPos
          THEN Len(line) = 1 /\ Upper(line[1]) = name
          ELSE Delimiter(line) = Start(line) + 1 /\ Upper(line[Start(line)]) = name
    BY NameIs
  <2>3. Upper(line[Start(line)]) = name
    BY <2>1, <2>2
  <2>4. QED
    BY <2>1, <2>3, MarkIsNoName
<1>4. QED
  BY <1>2, <1>3 DEF IsSkipped

\* A value is parsed as one number, level or text, or throws.
LEMMA ParsedSingle ==
  ASSUME NEW name \in Names, NEW value, NEW m \in Parsed(name, value)
  PROVE  Parsed(name, value) = {m}
<1>1. \A a, b \in Stoul(value) : a = b
  BY DEF Stoul
<1>2. CASE name = "SERVER_PORT"
  BY <1>1, <1>2 DEF Parsed
<1>3. CASE name = "CONNECTION_COUNT"
  BY <1>1, <1>3 DEF Parsed
<1>4. CASE name = "LOG_LEVEL"
  <2>1. Parsed(name, value) = {l \in LogLevels : value = <<l>>}
    BY <1>4 DEF Parsed
  <2>2. \A a, b : <<a>> = <<b>> => a = b
    <3>1. \A a, b : <<a>> = <<b>> => <<a>>[1] = <<b>>[1]
      BY Zenon
    <3>2. QED
      BY <3>1
  <2>3. QED
    BY <2>1, <2>2
<1>5. CASE name \notin {"SERVER_PORT", "CONNECTION_COUNT", "LOG_LEVEL"}
  BY <1>5 DEF Parsed
<1>6. QED
  BY <1>2, <1>3, <1>4, <1>5

\* A line throws if it is bad by the grammar, and only then.
LEMMA BadIsBad ==
  ASSUME NEW line \in Text
  PROVE  IsBad(line) <=>
           /\ ~IsSkipped(line)
           /\ \A name \in Names :
                OptionName(line) = <<name>> => Parsed(name, OptionValue(line)) = {}
BY SkippedIsNothing, GivesIsCut DEF IsBad

\* The last of the first n places that qualify.
LEMMA LargestIn ==
  ASSUME NEW n \in Nat, NEW I \in SUBSET (1..n), NEW m \in I, \A i \in I : i <= m
  PROVE  Max(I) = m
<1>1. m \in I /\ \A y \in I : m >= y
  OBVIOUS
<1>2. \A x \in I : (\A y \in I : x >= y) => x = m
  OBVIOUS
<1>3. Max(I) \in I /\ \A y \in I : Max(I) >= y
  BY <1>1 DEF Max
<1>4. QED
  BY <1>2, <1>3

\* Some places that are not none have a last one.
LEMMA LastIsIn ==
  ASSUME NEW n \in Nat, NEW I \in SUBSET (1..n), I # {}
  PROVE  Max(I) \in I /\ \A i \in I : i <= Max(I)
<1> DEFINE D == {n - i : i \in I}
<1>1. D \in SUBSET Nat /\ D # {}
  <2>1. \A i \in I : n - i \in Nat
    OBVIOUS
  <2>2. PICK k \in I : TRUE
    OBVIOUS
  <2>3. n - k \in D
    OBVIOUS
  <2>4. QED
    BY <2>1, <2>3
<1>2. Min(D) \in D /\ \A d \in D : Min(D) <= d
  BY <1>1, SmallestIn
<1>3. PICK m \in I : Min(D) = n - m
  BY <1>2
<1>4. ASSUME NEW i \in I
      PROVE  i <= m
  <2>1. n - i \in D
    OBVIOUS
  <2>2. n - m <= n - i
    BY <1>2, <1>3, <2>1
  <2>3. QED
    BY <2>2
<1>5. QED
  BY <1>4, LargestIn

-----------------------------------------------------------------------------
(* Reading the file.                                                       *)

\* The lines before the last are good, the last is bad if reading stopped at it, the
\* settings are what the lines say, and the judgement is about the settings.
ReadInv ==
  /\ ConfigTypeOK
  /\ \A i \in DOMAIN file : IsBad(file[i]) <=> status = "badLine" /\ i = Len(file)
  /\ SettingsAreLastLines
  /\ status = "accepted" => Valid
  /\ status = "invalid" => ~Valid
  /\ status = "closed" => file = <<>>

\* A further line changes what the file says of the options it gives, and no other.
LEMMA SaysNext ==
  ASSUME NEW line \in Text, file \in Seq(Text), file' = Append(file, line),
         NEW name \in Names
  PROVE  Says(name)' = IF OptionName(line) = <<name>>
                         THEN Parsed(name, OptionValue(line)) ELSE Says(name)
<1> DEFINE n == Len(file)
           G == {i \in DOMAIN file : Gives(file[i], name) # {}}
           H == {i \in DOMAIN (file') : Gives((file')[i], name) # {}}
<1>1. n \in Nat /\ DOMAIN file = 1..n
  BY LenProperties
<1>2. /\ DOMAIN (file') = 1..n + 1 /\ (file')[n + 1] = line
      /\ \A i \in 1..n : (file')[i] = file[i]
  BY <1>1, AppendProperties, LenProperties
<1>3. Says(name) = IF G = {} THEN {Defaults[name]}
                     ELSE UNION {Parsed(name, v) : v \in Gives(file[Max(G)], name)}
  BY DEF Says, Givers
<1>4. Says(name)' = IF H = {} THEN {Defaults[name]}
                      ELSE UNION {Parsed(name, v) : v \in Gives((file')[Max(H)], name)}
  BY DEF Says, Givers
<1>5. Gives(line, name) = IF OptionName(line) = <<name>> THEN {OptionValue(line)} ELSE {}
  BY GivesIsCut
<1>6. G \in SUBSET (1..n) /\ H \in SUBSET (1..n + 1)
  BY <1>1, <1>2
<1>7. CASE OptionName(line) = <<name>>
  <2>1. Gives(line, name) = {OptionValue(line)} /\ n + 1 \in H
    BY <1>1, <1>2, <1>5, <1>7
  <2> HIDE DEF H
  <2>2. n + 1 \in Nat /\ H \in SUBSET (1..(n + 1)) /\ \A i \in H : i <= n + 1
    BY <1>1, <1>6
  <2>3. Max(H) = n + 1
    BY <2>1, <2>2, LargestIn
  <2>4. Says(name)' = UNION {Parsed(name, v) : v \in {OptionValue(line)}}
    BY <1>2, <1>4, <2>1, <2>3
  <2>5. QED
    BY <1>7, <2>4
<1>8. CASE OptionName(line) # <<name>>
  <2>1. Gives((file')[n + 1], name) = {}
    BY <1>2, <1>5, <1>8
  <2>2. n + 1 \notin H
    BY <2>1
  <2>3. \A i \in 1..n : i \in DOMAIN file /\ i \in DOMAIN (file')
    BY <1>1, <1>2
  <2>4. \A i \in 1..n : i \in H <=> i \in G
    BY <1>2, <2>3
  <2> HIDE DEF G, H
  <2>5. \A i \in 1..n + 1 : i \in 1..n \/ i = n + 1
    BY <1>1
  <2>6. H \subseteq 1..n
    BY <1>6, <2>2, <2>5
  <2>7. H = G
    BY <1>6, <2>4, <2>6
  <2>8. G # {} => (file')[Max(G)] = file[Max(G)]
    BY <1>1, <1>2, <1>6, LastIsIn
  <2>9. QED
    BY <1>3, <1>4, <1>8, <2>7, <2>8
<1>9. QED
  BY <1>7, <1>8

\* The file begins with no line, and the settings with the defaults.
LEMMA ReadInit == ConfigInit => ReadInv
<1> SUFFICES ASSUME ConfigInit PROVE ReadInv
  OBVIOUS
<1>1. status = "reading" /\ settings = Defaults /\ file = <<>> /\ DOMAIN file = {}
  BY DEF ConfigInit
<1>2. ASSUME NEW name \in Names
      PROVE  Says(name) = {settings[name]}
  BY <1>1 DEF Says, Givers
<1>3. QED
  BY <1>1, <1>2, ConfigTypeInit DEF ReadInv, SettingsAreLastLines

\* Every line, and the end of the file, keep it.
LEMMA ReadNext == ReadInv /\ ConfigNext => ReadInv'
<1> SUFFICES ASSUME ReadInv, ConfigNext PROVE ReadInv'
  OBVIOUS
<1>1. ConfigTypeOK /\ ConfigTypeOK'
  BY ConfigTypeNext DEF ReadInv
<1>2. file \in Seq(Text) /\ Len(file) \in Nat
  BY <1>1, LenProperties DEF ConfigTypeOK
<1>3. ASSUME NEW line \in NextLines, SkipLine(line) \/ SetOption(line) \/ BadLine(line)
      PROVE  ReadInv'
  <2>1. status = "reading" /\ file' = Append(file, line)
    BY <1>3 DEF SkipLine, SetOption, BadLine, NextLine
  <2>2. /\ DOMAIN (file') = 1..Len(file) + 1 /\ Len(file') = Len(file) + 1
        /\ (file')[Len(file) + 1] = line
        /\ \A i \in 1..Len(file) : (file')[i] = file[i]
    BY <1>2, <2>1, AppendProperties, LenProperties
  <2>3. line \in Text
    <3>1. file' \in Seq(Text)
      BY <1>1 DEF ConfigTypeOK
    <3>2. QED
      BY <1>2, <2>2, <3>1, ElementOfSeq
  <2>4. \A i \in 1..Len(file) : ~IsBad((file')[i])
    BY <1>2, <2>1, <2>2, LenProperties DEF ReadInv
  <2>5. status' = "badLine" <=> IsBad(line)
    <3>1. IsBad(line) <=>
            /\ ~IsSkipped(line)
            /\ \A name \in Names :
                 OptionName(line) = <<name>> => Parsed(name, OptionValue(line)) = {}
      BY <2>3, BadIsBad
    <3>2. QED
      BY <1>3, <2>1, <3>1 DEF SkipLine, SetOption, BadLine
  <2>6. \A i \in DOMAIN (file') :
          IsBad((file')[i]) <=> status' = "badLine" /\ i = Len(file')
    BY <1>2, <2>2, <2>4, <2>5
  <2>7. status' \in {"reading", "badLine"}
    BY <1>3, <2>1 DEF SkipLine, SetOption, BadLine
  <2>8. ASSUME status' # "badLine", NEW name \in Names
        PROVE  Says(name)' = {settings'[name]}
    <3>1. Says(name) = {settings[name]}
      BY <2>1 DEF ReadInv, SettingsAreLastLines
    <3>2. Says(name)' = IF OptionName(line) = <<name>>
                          THEN Parsed(name, OptionValue(line)) ELSE Says(name)
      BY <1>2, <2>1, <2>3, SaysNext
    <3>3. CASE SkipLine(line)
      <4>1. OptionName(line) # <<name>> /\ settings' = settings
        BY <2>3, <3>3, NamedIsNotSkipped DEF SkipLine
      <4>2. QED
        BY <3>1, <3>2, <4>1
    <3>4. CASE SetOption(line)
      <4>1. PICK other \in Names :
              /\ OptionName(line) = <<other>>
              /\ \E value \in Parsed(other, OptionValue(line)) :
                   settings' = [settings EXCEPT ![other] = value]
        BY <3>4 DEF SetOption
      <4>2. PICK value \in Parsed(other, OptionValue(line)) :
              settings' = [settings EXCEPT ![other] = value]
        BY <4>1
      <4>3. OptionName(line) = <<name>> <=> name = other
        <5>1. OptionName(line)[1] = other
          BY <4>1
        <5>2. OptionName(line) = <<name>> => OptionName(line)[1] = name
          OBVIOUS
        <5>3. QED
          BY <4>1, <5>1, <5>2
      <4>4. settings'[name] = IF name = other THEN value ELSE settings[name]
        BY <1>1, <4>2 DEF ConfigTypeOK
      <4>5. Parsed(other, OptionValue(line)) = {value}
        BY ParsedSingle
      <4>6. QED
        BY <3>1, <3>2, <4>3, <4>4, <4>5
    <3>5. QED
      BY <1>3, <2>8, <3>3, <3>4 DEF BadLine
  <2>9. QED
    BY <1>1, <2>6, <2>7, <2>8 DEF ReadInv, SettingsAreLastLines
<1>4. CASE ValidateParams
  <2>1. /\ status = "reading" /\ status' \in {"accepted", "invalid"}
        /\ status' = "accepted" <=> Valid
        /\ settings' = settings /\ file' = file
    BY <1>4 DEF ValidateParams
  <2>2. Valid' <=> Valid
    BY <2>1 DEF Valid
  <2>3. \A name \in Names : Says(name)' = Says(name)
    BY <2>1 DEF Says, Givers
  <2>4. QED
    BY <1>1, <2>1, <2>2, <2>3 DEF ReadInv, SettingsAreLastLines
<1>5. QED
  BY <1>3, <1>4 DEF ConfigNext

\* What reading leaves alone is kept.
LEMMA ReadStays == ReadInv /\ UNCHANGED configVars => ReadInv'
<1> SUFFICES ASSUME ReadInv, UNCHANGED configVars PROVE ReadInv'
  OBVIOUS
<1>1. status' = status /\ settings' = settings /\ file' = file
  BY DEF configVars
<1>2. \A name \in Names : Says(name)' = Says(name)
  BY <1>1 DEF Says, Givers
<1>3. Valid' <=> Valid
  BY <1>1 DEF Valid
<1>4. QED
  BY <1>1, <1>2, <1>3 DEF ReadInv, SettingsAreLastLines, ConfigTypeOK

\* A value that stoul takes is written as one number, and one that an unsigned short
\* holds is what the field gets.
LEMMA WrittenIsParsed ==
  ASSUME NEW v \in Text, NEW c \in Parsed("CONNECTION_COUNT", v)
  PROVE  \E n \in Int : NumbersIn(v) = {n} /\ (n \in 0..UShort - 1 => c = n)
<1> DEFINE start == FindFirstNotOf(v, {"cr"}, 1)
<1>1. Len(v) \in Nat /\ DOMAIN v = 1..Len(v)
  BY LenProperties DEF Text
<1>2. PICK m \in Stoul(v) : c = m % UShort
  BY DEF Parsed
<1>3. /\ start # NPos /\ v[start] \in DOMAIN Numeral
      /\ m \in {n % ULong : n \in {Numeral[v[start]]} \cap (1 - ULong)..(ULong - 1)}
  BY <1>2 DEF Stoul
<1> DEFINE N == Numeral[v[start]]
<1>4. N \in Int /\ m = N % ULong
  BY <1>3, WordAssumption
<1>5. FirstNotIn(v, {"cr"}, 1, start)
  BY SearchFinds
<1> HIDE DEF start
<1>6. /\ start \in 1..Len(v)
      /\ \A i \in 1..start - 1 : v[i] = "cr"
  BY <1>3, <1>5 DEF FirstNotIn
<1>7. BlankTo(v, start - 1)
  BY <1>6 DEF BlankTo
<1>8. \A w \in DOMAIN Numeral : w \notin {"sp", "cr"}
  BY WordAssumption DEF Marks
<1>9. ASSUME NEW j \in DOMAIN v, BlankTo(v, j - 1), v[j] \in DOMAIN Numeral
      PROVE  j = start
  <2>1. ~(j < start)
    BY <1>1, <1>6, <1>8, <1>9
  <2>2. ~(start < j)
    BY <1>1, <1>3, <1>6, <1>8, <1>9 DEF BlankTo
  <2>3. QED
    BY <1>1, <1>6, <2>1, <2>2
<1>10. {j \in DOMAIN v : BlankTo(v, j - 1) /\ v[j] \in DOMAIN Numeral} = {start}
  BY <1>1, <1>3, <1>6, <1>7, <1>9
<1>11. NumbersIn(v) = {N}
  BY <1>10 DEF NumbersIn
<1>12. ASSUME N \in 0..UShort - 1
       PROVE  c = N
  <2>1. N \in Nat /\ N < UShort /\ N < ULong /\ UShort \in Nat /\ ULong \in Nat
    BY <1>12, WidthAssumption
  <2>2. N % ULong = N /\ N % UShort = N
    BY <2>1
  <2>3. QED
    BY <1>2, <1>4, <2>2
<1>13. QED
  BY <1>4, <1>11, <1>12

\* So it is for the file: the number of connections is the one it is written with, or
\* the default, unless that does not fit.
LEMMA ConnectionsRead ==
  ASSUME ReadInv, Says("CONNECTION_COUNT") = {settings["CONNECTION_COUNT"]}
  PROVE  \E n \in Int : /\ ConnectionsWritten = {n}
                        /\ n \in 0..UShort - 1 => settings["CONNECTION_COUNT"] = n
<1> DEFINE name == "CONNECTION_COUNT"
           G == Givers(name)
           c == settings[name]
<1>1. name \in Names /\ Defaults[name] = 2
  BY DEF Names, Defaults
<1>2. CASE G = {}
  <2>1. Says(name) = {Defaults[name]} /\ ConnectionsWritten = {Defaults[name]}
    BY <1>2 DEF Says, ConnectionsWritten
  <2>2. QED
    BY <1>1, <2>1
<1>3. CASE G # {}
  <2> DEFINE line == file[Max(G)]
             v == OptionValue(line)
  <2>1. Len(file) \in Nat /\ DOMAIN file = 1..Len(file) /\ file \in Seq(Text)
    BY LenProperties DEF ReadInv, ConfigTypeOK
  <2>2. G \in SUBSET (1..Len(file))
    BY <2>1 DEF Givers
  <2>3. Max(G) \in G
    BY <1>3, <2>1, <2>2, LastIsIn
  <2>4. line \in Text /\ Gives(line, name) # {}
    BY <2>1, <2>2, <2>3, ElementOfSeq DEF Givers
  <2>5. Gives(line, name) = {v} /\ v \in Text
    BY <1>1, <2>4, GivesIsCut, OptionValueType
  <2>6. Says(name) = UNION {Parsed(name, u) : u \in {v}}
    BY <1>3, <2>5 DEF Says
  <2>7. ConnectionsWritten = UNION {NumbersIn(u) : u \in {v}}
    BY <1>3, <2>5 DEF ConnectionsWritten
  <2> HIDE DEF v, line, c
  <2>8. c \in Parsed(name, v) /\ ConnectionsWritten = NumbersIn(v)
    BY <2>6, <2>7 DEF c
  <2>9. QED
    BY <2>5, <2>8, WrittenIsParsed DEF c
<1>4. QED
  BY <1>2, <1>3

\* It says how the file is judged.
LEMMA ReadJudges == ReadInv => SettingsAreLastLines /\ FileIsJudged
<1> SUFFICES ASSUME ReadInv PROVE SettingsAreLastLines /\ FileIsJudged
  OBVIOUS
<1>1. {"CONNECT_STRING", "CONNECTION_COUNT"} \subseteq Names
  BY DEF Names
<1>2. ASSUME status \in {"accepted", "invalid"}
      PROVE  /\ Says("CONNECT_STRING") = {settings["CONNECT_STRING"]}
             /\ Says("CONNECTION_COUNT") = {settings["CONNECTION_COUNT"]}
             /\ status = "accepted" <=> Valid
  BY <1>1, <1>2 DEF ReadInv, SettingsAreLastLines
<1>3. ASSUME status \in {"accepted", "invalid"}
      PROVE  \E n \in Int : /\ ConnectionsWritten = {n}
                            /\ n \in 0..UShort - 1 => settings["CONNECTION_COUNT"] = n
  BY <1>2, <1>3, ConnectionsRead
<1>4. ASSUME status = "invalid"
      PROVE  <<>> \in Says("CONNECT_STRING") \/ ~(ConnectionsWritten \subseteq 1..maxConnCount)
  BY <1>2, <1>3, <1>4, WidthAssumption DEF Valid, minConnCount
<1>5. ASSUME status = "accepted"
      PROVE  /\ <<>> \notin Says("CONNECT_STRING")
             /\ ConnectionsWritten \cap 0..UShort - 1 \subseteq 1..maxConnCount
  BY <1>2, <1>3, <1>5 DEF Valid, minConnCount
<1>6. QED
  BY <1>4, <1>5 DEF ReadInv, FileIsJudged
=============================================================================
