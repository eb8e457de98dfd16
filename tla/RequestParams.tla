---------------------------- MODULE RequestParams ----------------------------
(***************************************************************************)
(* The data of one request on its way through a request class: the         *)
(* attributes ValidateAndSetParams reads one after the other, the fields   *)
(* it stores them in, the arguments Process binds for the stored           *)
(* procedure, the numbers that come back, what the client reads in the     *)
(* answer, and the charging record.  Integers have the widths of the code, *)
(* counted in bytes; a byte has Byte values (256, fewer for TLC).  A       *)
(* string is the number its bytes spell.  Fields are named after the       *)
(* attribute they are read from.                                           *)
(***************************************************************************)
EXTENDS Integers, Sequences, ClientRequests

CONSTANTS
  Byte,        \* the number of values of a byte
  Sent,        \* [Fields -> set of attributes], what clients may send
  DbNumbers,   \* the numbers the database may return
  Missing,     \* the attribute that is not in the request
  Unset        \* what no code has assigned: any value at all

Fields == {"VLD_IMSI", "VLD_OA", "VLD_DA", "VLD_OAFLAGS", "VLD_DAFLAGS",
           "VLD_REFNUM", "VLD_TOTAL", "VLD_PART", "VLD_SERVINGMSC",
           "CAMEL_IMSI", "CAMEL_CALLING_PARTY", "CAMEL_CALLING_NOA",
           "CAMEL_CALLED_PARTY", "CAMEL_CALLED_NOA", "CAMEL_CALL_REF_NUM",
           "CAMEL_EVENT_TYPE", "CAMEL_SERVICE_KEY", "CAMEL_TOTAL_DURATION"}

\* The number of values of n bytes.
ByteValues[n \in Nat] == IF n = 0 THEN 1 ELSE Byte * ByteValues[n - 1]

\* An attribute (SPSReqAttrParsed): its length and the number its bytes spell.
Attributes == [size : Nat, value : Nat]

IsAttribute(a) ==
  /\ a \in Attributes
  /\ a.value < ByteValues[a.size]

\* From 4 values on, 4 bytes hold every code of the program (-11 .. 0).
ASSUME ByteAssumption == Byte \in Nat /\ Byte >= 4 /\ Byte % 2 = 0

ASSUME SentAssumption ==
  /\ DOMAIN Sent = Fields
  /\ \A f \in Fields : \A a \in Sent[f] : IsAttribute(a)

ASSUME ValueAssumption ==
  /\ DbNumbers \subseteq Int
  /\ Missing # Unset
  /\ \A none \in {Missing, Unset} : none \notin Int /\ none \notin Attributes

VARIABLES
  kind,     \* the class of the request
  stage,    \* how far it is
  next,     \* the parameter ValidateAndSetParams looks for next
  attrs,    \* what it has found of each attribute
  field,    \* the fields of the object
  args,     \* the arguments of the call of the stored procedure, in order
  returned, \* what the database returned
  result,   \* resultCode, quotaResult and quotaChunks
  answer,   \* the response packet
  cdr       \* the record produced for Kafka

vars == <<kind, stage, next, attrs, field, args, returned, result, answer, cdr>>

Stages == {"validating", "rejected", "accepted", "processed", "refused", "answered",
           "logged"}

-----------------------------------------------------------------------------
(* Integer types and conversions.                                          *)

UInt(n) == [bytes |-> n, signed |-> FALSE]
SInt(n) == [bytes |-> n, signed |-> TRUE]
Text    == [bytes |-> 0, signed |-> FALSE]

\* The conversion of an integer to a type, by assignment or static_cast; text
\* is copied.
Convert(v, type) ==
  LET m == ByteValues[type.bytes]
      u == v % m
  IN IF type = Text THEN v
     ELSE IF type.signed /\ 2 * u >= m THEN u - m
     ELSE u

Fits(v, type) == Convert(v, type) = v

-----------------------------------------------------------------------------
(* The parameters of the request classes, in the order they are read.      *)

\* A parameter: the method that reads it, the type of the field and the size
\* the attribute must have (0 for any).
Param(set, attr, type, size) == [set |-> set, attr |-> attr, type |-> type, size |-> size]

StringParam(attr) == Param("string", attr, Text, 0)
IntParam(attr, type, size) == Param("required", attr, type, size)

SmsParams ==
  << Param("optional", "VLD_IMSI", UInt(8), 8),
     StringParam("VLD_OA"),
     StringParam("VLD_DA"),
     IntParam("VLD_OAFLAGS", UInt(1), 1),
     IntParam("VLD_DAFLAGS", UInt(1), 1),
     IntParam("VLD_REFNUM", UInt(2), 2),
     IntParam("VLD_TOTAL", UInt(1), 1),
     IntParam("VLD_PART", UInt(1), 1),
     StringParam("VLD_SERVINGMSC") >>

QuotaParams ==
  << IntParam("CAMEL_IMSI", UInt(8), 0),
     IntParam("CAMEL_CALLING_PARTY", UInt(8), 0),
     IntParam("CAMEL_CALLING_NOA", SInt(2), 0),
     IntParam("CAMEL_CALLED_PARTY", UInt(8), 0),
     IntParam("CAMEL_CALLED_NOA", SInt(2), 0),
     IntParam("CAMEL_CALL_REF_NUM", UInt(8), 0),
     IntParam("CAMEL_EVENT_TYPE", SInt(2), 0),
     IntParam("CAMEL_SERVICE_KEY", SInt(2), 0) >>

CallFinishParams ==
  << IntParam("CAMEL_IMSI", UInt(8), 0),
     IntParam("CAMEL_CALL_REF_NUM", UInt(8), 0),
     IntParam("CAMEL_EVENT_TYPE", UInt(1), 0),
     IntParam("CAMEL_TOTAL_DURATION", SInt(8), 0) >>

Params(k) ==
  CASE k = "sms"        -> SmsParams
    [] k = "quota"      -> QuotaParams
    [] k = "callFinish" -> CallFinishParams

-----------------------------------------------------------------------------
(* SetRequiredIntParam, SetOptionalIntParam and SetStringParam.            *)

\* The attribute is there, in the size required, if one is, and in one of the
\* sizes ntohX exist for.
IsInt(p, a) ==
  /\ a # Missing
  /\ p.size = 0 \/ a.size = p.size
  /\ a.size \in {1, 2, 4, 8}

\* Mutant: the optional parameter is required.
SetsIfPresent(p, a) == IF p.set = "string" THEN a # Missing ELSE IsInt(p, a)

\* Does the method that reads parameter p return true when it finds a?
Sets(p, a) ==
  CASE p.set = "required" -> IsInt(p, a)
    [] p.set = "optional" -> a = Missing \/ IsInt(p, a)
    [] p.set = "string"   -> a # Missing

\* origImsiNotGiven, the default of the one optional parameter.
NotGiven == 0

\* Mutant: the number is stored at its full width.
StoredWide(p, a) == IF a = Missing THEN NotGiven ELSE a.value

\* What it then leaves in the field.
Stored(p, a) ==
  IF a = Missing THEN NotGiven ELSE Convert(a.value, p.type)

-----------------------------------------------------------------------------
(* The call of the stored procedure.                                       *)

\* The parameters M2M.ValidateSMS, CallQuotaRequest and CallFinishRequest
\* declare in the text of the call, by the attribute each is named for.
Placeholders(k) ==
  CASE k = "sms"        -> <<"VLD_IMSI", "VLD_OA", "VLD_OAFLAGS", "VLD_DA", "VLD_DAFLAGS",
                             "VLD_REFNUM", "VLD_TOTAL", "VLD_PART", "VLD_SERVINGMSC">>
    [] k = "quota"      -> <<"CAMEL_IMSI", "CAMEL_CALLING_PARTY", "CAMEL_CALLED_PARTY",
                             "CAMEL_CALL_REF_NUM", "CAMEL_EVENT_TYPE", "CAMEL_SERVICE_KEY">>
    [] k = "callFinish" -> <<"CAMEL_IMSI", "CAMEL_CALL_REF_NUM", "CAMEL_EVENT_TYPE",
                             "CAMEL_SERVICE_KEY", "CAMEL_TOTAL_DURATION">>

Bind(attr, type) == [attr |-> attr, type |-> type]

\* Mutant: the two flags are bound in the wrong order.
SmsBindsSwapped ==
  << Bind("VLD_IMSI", UInt(8)), Bind("VLD_OA", Text), Bind("VLD_DAFLAGS", SInt(2)),
     Bind("VLD_DA", Text), Bind("VLD_OAFLAGS", SInt(2)), Bind("VLD_REFNUM", SInt(2)),
     Bind("VLD_TOTAL", SInt(2)), Bind("VLD_PART", SInt(2)), Bind("VLD_SERVINGMSC", Text) >>

\* The fields Process streams into the call, and the types it casts them to.
SmsBinds ==
  << Bind("VLD_IMSI", UInt(8)), Bind("VLD_OA", Text), Bind("VLD_OAFLAGS", SInt(2)),
     Bind("VLD_DA", Text), Bind("VLD_DAFLAGS", SInt(2)), Bind("VLD_REFNUM", SInt(2)),
     Bind("VLD_TOTAL", SInt(2)), Bind("VLD_PART", SInt(2)), Bind("VLD_SERVINGMSC", Text) >>

QuotaBinds ==
  << Bind("CAMEL_IMSI", UInt(8)), Bind("CAMEL_CALLING_PARTY", UInt(8)),
     Bind("CAMEL_CALLED_PARTY", UInt(8)), Bind("CAMEL_CALL_REF_NUM", UInt(8)),
     Bind("CAMEL_EVENT_TYPE", SInt(2)), Bind("CAMEL_SERVICE_KEY", SInt(2)) >>

CallFinishBinds ==
  << Bind("CAMEL_IMSI", UInt(8)), Bind("CAMEL_CALL_REF_NUM", UInt(8)),
     Bind("CAMEL_EVENT_TYPE", SInt(2)), Bind("CAMEL_SERVICE_KEY", SInt(2)),
     Bind("CAMEL_TOTAL_DURATION", SInt(8)) >>

Binds(k) ==
  CASE k = "sms"        -> SmsBinds
    [] k = "quota"      -> QuotaBinds
    [] k = "callFinish" -> CallFinishBinds

\* The argument a bound field gives: what was never assigned stays arbitrary.
Argument(b) == IF field[b.attr] = Unset THEN Unset ELSE Convert(field[b.attr], b.type)

-----------------------------------------------------------------------------
(* The answer, and how a client reads it.                                  *)

OPERATION_SUCCESS == 0
BAD_REQUEST == -11

\* v in n bytes, most significant first (htonl, or a single byte as it is).
Wire(v, n) == [size |-> n, value |-> Convert(v, UInt(n))]

\* The integer of a type in the first bytes of an attribute.
Read(a, type) == Convert(a.value \div ByteValues[a.size - type.bytes], type)

\* SendNotAcceptedResponse, which answers all classes in the same way.
RefusalAnswer == [type |-> "VALIDATEEX_RESP", code |-> Wire(BAD_REQUEST, 4),
                  quota |-> Missing, chunks |-> Missing]

\* The responses of Server and of the request classes.
Answers ==
  [type   : {"VALIDATEEX_RESP", "QUOTA_RESP", "CALL_FINISH_ACK"},
   code   : Attributes \cup {Missing},
   quota  : Attributes \cup {Missing},
   chunks : Attributes \cup {Missing}]

\* Mutant: the result code of every class has 4 bytes.
ResultBytesWide(k) == 4

\* PS_RESULT has 4 bytes in an SMS response, 1 in a quota response.
ResultBytes(k) == IF k = "sms" THEN 4 ELSE 1

\* SendResultToClient of the three classes.  The quota is sent when the call is
\* allowed, the number of chunks when it is positive; the acknowledgement of a
\* finished call is a header alone.
ResultAnswer(k, res) ==
  LET code   == IF k = "callFinish" THEN Missing ELSE Wire(res.code, ResultBytes(k))
      grants == k = "quota" /\ res.code = OPERATION_SUCCESS
  IN [type   |-> ResponseType(k),
      code   |-> code,
      quota  |-> IF grants THEN Wire(res.quota, 1) ELSE Missing,
      chunks |-> IF grants /\ res.chunks > 0 THEN Wire(res.chunks, 4) ELSE Missing]

\* The client's reading: 4 bytes of result in VALIDATEEX_RESP, else 1; a signed
\* byte of quota; ntohl of the chunks.
ClientReads(ans) ==
  LET codeType    == IF ans.type = "VALIDATEEX_RESP" THEN SInt(4) ELSE SInt(1)
      Get(a, type) == IF a = Missing THEN Missing ELSE Read(a, type)
  IN [code   |-> Get(ans.code, codeType),
      quota  |-> Get(ans.quota, SInt(1)),
      chunks |-> Get(ans.chunks, UInt(4))]

-----------------------------------------------------------------------------
(* The charging record.                                                    *)

\* The fields of the records that hold a parameter of the request, by the
\* attribute, and their types.
SMS_CDR ==
  [f \in {"VLD_IMSI", "VLD_OA", "VLD_DA", "VLD_OAFLAGS", "VLD_DAFLAGS", "VLD_REFNUM",
          "VLD_TOTAL", "VLD_PART", "VLD_SERVINGMSC"} |->
     CASE f = "VLD_IMSI"                              -> SInt(8)
       [] f \in {"VLD_OA", "VLD_DA", "VLD_SERVINGMSC"} -> Text
       [] OTHER                                       -> SInt(4)]

Call_CDR ==
  [f \in {"CAMEL_IMSI", "CAMEL_CALLING_PARTY", "CAMEL_CALLED_PARTY"} |-> SInt(8)]

CdrType(k) == IF k = "sms" THEN SMS_CDR ELSE Call_CDR

Records ==
  [fields  : [DOMAIN SMS_CDR -> Int] \cup [DOMAIN Call_CDR -> Int],
   result  : Int,
   seconds : Int]

\* A packet or a record that is there is not a missing one.
ASSUME MissingAssumption == Missing \notin Answers /\ Missing \notin Records

\* The result as ClientRequests has it, which decides whether there is a record.
Outcome ==
  LET code == IF result.code = OPERATION_SUCCESS THEN "success" ELSE "reject"
  IN CASE kind = "sms"        -> [code |-> code, imsiKnown |-> field["VLD_IMSI"] # NotGiven]
       [] kind = "quota"      -> [code |-> code,
                                  quota |-> CASE result.quota = 0 -> "requestAgain"
                                              [] result.quota = 1 -> "dropAfterQuota"
                                              [] OTHER            -> "other"]
       [] kind = "callFinish" -> [code |-> code]

\* Mutant: what is recorded of a quota request is its result code.
RecordedResultCode == IF kind = "callFinish" THEN result.quota ELSE result.code

\* validationRes of an SMS, quotaResult of a call.
RecordedResult == IF kind = "sms" THEN result.code ELSE result.quota

\* n / 10, which rounds towards 0.
Tenth(n) == IF n < 0 THEN -((-n) \div 10) ELSE n \div 10

TotalDurationSeconds ==
  IF kind = "callFinish" THEN Convert(Tenth(field["CAMEL_TOTAL_DURATION"]), SInt(4)) ELSE 0

-----------------------------------------------------------------------------
(* One request.                                                            *)

NothingYet == [code |-> Unset, quota |-> Unset, chunks |-> Unset]

\* Of the parameters only originationImsi is initialized by a constructor.
\* (resultCode is, too, and overwritten by Process before anybody reads it.)
Init ==
  /\ kind \in Kinds
  /\ stage = "validating"
  /\ next = 1
  /\ attrs = [f \in Fields |-> Unset]
  /\ field = [f \in Fields |-> IF f = "VLD_IMSI" THEN 0 ELSE Unset]
  /\ args = <<>>
  /\ returned = NothingYet
  /\ result = NothingYet
  /\ answer = Missing
  /\ cdr = Missing

\* ValidateAndSetParams looks for its next parameter p and finds a.
Finds(p, a) ==
  /\ stage = "validating"
  /\ next \in DOMAIN Params(kind)
  /\ p = Params(kind)[next]
  /\ attrs' = [attrs EXCEPT ![p.attr] = a]
  /\ UNCHANGED <<kind, args, returned, result, answer, cdr>>

SetParam(p, a) ==
  /\ Finds(p, a)
  /\ Sets(p, a)
  /\ field' = [field EXCEPT ![p.attr] = Stored(p, a)]
  /\ next' = next + 1
  /\ UNCHANGED stage

\* return false at the first parameter that is missing or has a wrong size.
FailParam(p, a) ==
  /\ Finds(p, a)
  /\ ~Sets(p, a)
  /\ stage' = "rejected"
  /\ UNCHANGED <<next, field>>

\* return true.
Accept ==
  /\ stage = "validating"
  /\ next = Len(Params(kind)) + 1
  /\ stage' = "accepted"
  /\ UNCHANGED <<kind, next, attrs, field, args, returned, result, answer, cdr>>

SendNotAcceptedResponse ==
  /\ stage = "rejected"
  /\ stage' = "refused"
  /\ answer' = RefusalAnswer
  /\ UNCHANGED <<kind, next, attrs, field, args, returned, result, cdr>>

Returns(type) == {n \in DbNumbers : Fits(n, type)}

\* The call returns numbers of the types long and short; resultCode and
\* quotaResult are of type int8_t, quotaChunks and lastQuotaRes are longs.  (A
\* call that throws ends the request without an answer: ProcessThrows of
\* ConnectionPool.)
Process ==
  /\ stage = "accepted"
  /\ stage' = "processed"
  /\ args' = [i \in DOMAIN Binds(kind) |-> Argument(Binds(kind)[i])]
  /\ \/ /\ kind = "sms"
        /\ \E imsi \in Returns(UInt(8)), code \in Returns(SInt(8)) :
             /\ returned' = [returned EXCEPT !.code = code]
             /\ result' = [result EXCEPT !.code = Convert(code, SInt(1))]
             /\ field' = [field EXCEPT !["VLD_IMSI"] = imsi]
     \/ /\ kind = "quota"
        /\ \E code, quota \in Returns(SInt(2)), chunks \in Returns(SInt(8)) :
             /\ returned' = [code |-> code, quota |-> quota, chunks |-> chunks]
             /\ result' = [code   |-> Convert(code, SInt(1)),
                           quota  |-> Convert(quota, SInt(1)),
                           chunks |-> chunks]
        /\ UNCHANGED field
     \/ /\ kind = "callFinish"
        /\ \E calling, called \in Returns(UInt(8)), quota \in Returns(SInt(8)) :
             /\ returned' = [returned EXCEPT !.quota = quota]
             /\ result' = [result EXCEPT !.code = OPERATION_SUCCESS, !.quota = quota]
             /\ field' = [field EXCEPT !["CAMEL_CALLING_PARTY"] = calling,
                                      !["CAMEL_CALLED_PARTY"] = called]
  /\ UNCHANGED <<kind, next, attrs, answer, cdr>>

SendResultToClient ==
  /\ stage = "processed"
  /\ stage' = "answered"
  /\ answer' = ResultAnswer(kind, result)
  /\ UNCHANGED <<kind, next, attrs, field, args, returned, result, cdr>>

\* (Without a producer LogToKafka is not called, and no CDR is read later.)
LogToKafka ==
  /\ stage = "answered"
  /\ stage' = "logged"
  /\ cdr' = IF LogsCdr(kind, Outcome)
              THEN [fields  |-> [f \in DOMAIN CdrType(kind) |->
                                   Convert(field[f], CdrType(kind)[f])],
                    result  |-> Convert(RecordedResult, SInt(4)),
                    seconds |-> TotalDurationSeconds]
              ELSE Missing
  /\ UNCHANGED <<kind, next, attrs, field, args, returned, result, answer>>

Next ==
  \/ \E i \in DOMAIN Params(kind) :
       LET p == Params(kind)[i]
       IN \E a \in Sent[p.attr] \cup {Missing} : SetParam(p, a) \/ FailParam(p, a)
  \/ Accept
  \/ SendNotAcceptedResponse
  \/ Process
  \/ SendResultToClient
  \/ LogToKafka

Spec == Init /\ [][Next]_vars

-----------------------------------------------------------------------------
(* Properties.                                                             *)

ParamOf(f) == CHOOSE p \in {Params(kind)[i] : i \in DOMAIN Params(kind)} : p.attr = f

\* Every variable has its type; a number in a field or an argument fits its
\* declared type.
ParamsTypeOK ==
  /\ kind \in Kinds
  /\ stage \in Stages
  /\ next \in 1 .. Len(Params(kind)) + 1
  /\ \A i \in 1 .. next - 1 :
       LET p == Params(kind)[i]
       IN field[p.attr] # Unset /\ Fits(field[p.attr], p.type)
  /\ \A f \in Fields : attrs[f] \in Sent[f] \cup {Missing, Unset}
  /\ stage \in {"processed", "answered", "logged"} =>
       Len(args) = Len(Binds(kind)) /\ Outcome \in DbResults(kind)
  /\ \A i \in DOMAIN args : args[i] = Unset \/ Fits(args[i], Binds(kind)[i].type)
  /\ answer \in IF stage \in {"refused", "answered", "logged"} THEN Answers ELSE {Missing}
  /\ cdr \in Records \cup {Missing}
  /\ cdr # Missing =>
       \A f \in DOMAIN CdrType(kind) : Fits(cdr.fields[f], CdrType(kind)[f])

\* The stored procedure receives, in the place of each of its parameters, the
\* number the client sent: read with the width of the attribute, the argument is
\* that number, the sign a cast to short gives to a large one included.  Only a
\* CAMEL attribute longer than its field may lose its high bytes, and only the
\* IMSI of an SMS may be absent, which the procedure sees as 0.
ArgumentsAreSent ==
  \A i \in DOMAIN args :
    LET f == Placeholders(kind)[i]
        a == attrs[f]
    IN args[i] # Unset =>
         \/ a = Missing /\ f = "VLD_IMSI" /\ args[i] = NotGiven
         \/ /\ a \in Sent[f]
            /\ \/ ParamOf(f).type = Text /\ args[i] = a.value
               \/ Convert(args[i], UInt(a.size)) = a.value
               \/ kind # "sms" /\ a.size > ParamOf(f).type.bytes

\* The lengths the test client gives the attributes of its requests (0 for text).
TesterLengths ==
  [f \in Fields |->
     CASE f \in {"VLD_OA", "VLD_DA", "VLD_SERVINGMSC"}                      -> 0
       [] f \in {"VLD_OAFLAGS", "VLD_DAFLAGS", "VLD_TOTAL", "VLD_PART",
                 "CAMEL_CALLING_NOA", "CAMEL_CALLED_NOA",
                 "CAMEL_EVENT_TYPE", "CAMEL_SERVICE_KEY"}                   -> 1
       [] f = "VLD_REFNUM"                                                  -> 2
       [] f = "CAMEL_TOTAL_DURATION"                                        -> 4
       [] OTHER                                                             -> 8]

\* The attributes found so far could be of a request of the test client: it may
\* leave out the IMSI of an SMS (option 2), and nothing else.
LikeTester ==
  \A f \in Fields :
    \/ attrs[f] = Unset
    \/ attrs[f] = Missing /\ f = "VLD_IMSI"
    \/ attrs[f] # Missing /\ TesterLengths[f] \in {0, attrs[f].size}

\* The requests of the test client are accepted, the one of option 4, which has
\* no originating address, is refused; and an SMS that is accepted has the
\* lengths the client gives it.
TesterRequestsAccepted ==
  /\ stage = "rejected" => ~LikeTester
  /\ stage = "accepted" /\ kind = "sms" => LikeTester

\* The client learns from the answer what the database decided: the code, if it
\* is one an int8_t can hold; the quota result and the positive number of chunks
\* exactly when the client reads success; and a refused request, whatever its
\* class, is read as BAD_REQUEST, not as a success.
AnswerMeansResult ==
  LET reads == ClientReads(answer)
  IN /\ stage = "refused" => reads.code = BAD_REQUEST
     /\ stage = "answered" /\ kind # "callFinish" /\ Fits(returned.code, SInt(1)) =>
          reads.code = returned.code
     /\ stage = "answered" /\ kind = "quota" =>
          /\ (reads.quota # Missing) <=> (reads.code = OPERATION_SUCCESS)
          /\ reads.quota # Missing /\ Fits(returned.quota, SInt(1)) =>
               reads.quota = returned.quota
          /\ (reads.chunks # Missing) <=>
               (reads.code = OPERATION_SUCCESS /\ returned.chunks > 0)
          /\ reads.chunks # Missing /\ Fits(returned.chunks, UInt(4)) =>
               reads.chunks = returned.chunks

\* The record agrees with the answer and with the request.  It holds the result
\* code the client of an SMS reads; that of a quota request, which is made exactly
\* when the client reads a success that does not allow the call, the quota result
\* it reads.  It holds the other numbers of the attributes the client sent, and the
\* duration it sent in whole seconds if the record's field can hold them.
CdrAgreesWithAnswer ==
  stage = "logged" =>
    LET reads    == ClientReads(answer)
        duration == field["CAMEL_TOTAL_DURATION"]
    IN /\ kind = "quota" =>
            (cdr # Missing) <=> (reads.code = OPERATION_SUCCESS /\ reads.quota \notin {0, 1})
       /\ cdr # Missing =>
            /\ kind = "sms" => cdr.result = reads.code
            /\ kind = "quota" => cdr.result = reads.quota
            /\ kind = "callFinish" /\ Fits(returned.quota, SInt(4)) =>
                 cdr.result = returned.quota
            /\ \A f \in DOMAIN cdr.fields \ {"VLD_IMSI"} :
                 attrs[f] \in Sent[f] =>
                   Convert(cdr.fields[f], UInt(attrs[f].size)) = attrs[f].value
            /\ kind = "callFinish" /\ Fits(Tenth(duration), SInt(4)) =>
                 duration - 10 * cdr.seconds \in -9 .. 9

\* Every argument of a stored procedure has a value the code has assigned.  It
\* does not hold: CallFinishRequest passes its serviceKey, which it never reads
\* from the request although the client sends it.
EveryArgumentAssigned == \A i \in DOMAIN args : args[i] # Unset

=============================================================================
