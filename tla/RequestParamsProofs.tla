------------------------- MODULE RequestParamsProofs -------------------------
(***************************************************************************)
(* Theorems about RequestParams, for every size of a byte, everything a    *)
(* client may send and every number the database may return.               *)
(*                                                                         *)
(* None of the properties is inductive.  ParamsInv says how far the        *)
(* request has got in the parameters of its class and what each stage has  *)
(* made of the one before: a field is its attribute converted, an argument *)
(* its field converted again, the result what the database returned cut to *)
(* a byte, the answer and the record functions of these.  What a client,   *)
(* the stored procedure or a reader of the record can tell from them is    *)
(* then a matter of the conversions, in ConversionProofs, and of the       *)
(* tables of parameters, arguments and record fields.                      *)
(***************************************************************************)
EXTENDS ConversionProofs

-----------------------------------------------------------------------------
(* The tables of parameters and arguments.                                 *)

\* What the proofs need of a parameter p of class k.
GoodParam(p, k) ==
  /\ p.attr \in Fields
  /\ p.set \in {"required", "optional", "string"}
  /\ p.set = "string" => p.type = Text /\ TesterLengths[p.attr] = 0
  /\ p.set # "string" => /\ p.type \in IntTypes /\ TesterLengths[p.attr] \in Widths
                         /\ p.size = IF k = "sms" THEN p.type.bytes ELSE 0
                         /\ k = "sms" => TesterLengths[p.attr] = p.type.bytes
  /\ p.set = "optional" <=> p.attr = "VLD_IMSI"
  /\ p.attr = "VLD_IMSI" => k = "sms" /\ p.type = UInt(8)
  /\ k # "sms" => p.set = "required"
  /\ k = "callFinish" => p.attr \notin {"CAMEL_CALLING_PARTY", "CAMEL_CALLED_PARTY",
                                        "CAMEL_SERVICE_KEY"}

\* The parameters of a class are good ones, for different attributes.
GoodParams(ps, k, n) ==
  /\ Len(ps) = n /\ DOMAIN ps = 1 .. n
  /\ \A i \in 1 .. n : GoodParam(ps[i], k)
  /\ \A i, j \in 1 .. n : ps[i].attr = ps[j].attr => i = j

\* The integer types.
LEMMA IntTypesHave ==
  \A n \in Widths : /\ UInt(n) \in IntTypes /\ UInt(n).bytes = n /\ ~UInt(n).signed
                    /\ SInt(n) \in IntTypes /\ SInt(n).bytes = n /\ SInt(n).signed
BY DEF IntTypes, UInt, SInt

\* The integer types of the requests are among them.
LEMMA TypesUsed ==
  /\ UInt(1) \in IntTypes /\ UInt(1).bytes = 1
  /\ UInt(2) \in IntTypes /\ UInt(2).bytes = 2
  /\ UInt(8) \in IntTypes /\ UInt(8).bytes = 8
  /\ SInt(2) \in IntTypes /\ SInt(8) \in IntTypes
BY IntTypesHave DEF Widths

\* The attributes, and the lengths the test client gives them.
LEMMA LengthsUsed ==
  /\ {"VLD_OA", "VLD_DA", "VLD_SERVINGMSC"} \subseteq {f \in Fields : TesterLengths[f] = 0}
  /\ {"VLD_OAFLAGS", "VLD_DAFLAGS", "VLD_TOTAL", "VLD_PART"}
       \subseteq {f \in Fields : TesterLengths[f] = 1}
  /\ "VLD_REFNUM" \in Fields /\ TesterLengths["VLD_REFNUM"] = 2
  /\ "VLD_IMSI" \in Fields /\ TesterLengths["VLD_IMSI"] = 8
  /\ {"CAMEL_IMSI", "CAMEL_CALLING_PARTY", "CAMEL_CALLING_NOA", "CAMEL_CALLED_PARTY",
      "CAMEL_CALLED_NOA", "CAMEL_CALL_REF_NUM", "CAMEL_EVENT_TYPE", "CAMEL_SERVICE_KEY",
      "CAMEL_TOTAL_DURATION"} \subseteq {f \in Fields : TesterLengths[f] \in {1, 4, 8}}
<1>1. \A f \in {"VLD_OA", "VLD_DA", "VLD_SERVINGMSC"} : f \in Fields /\ TesterLengths[f] = 0
  BY DEF TesterLengths, Fields
<1>2. \A f \in {"VLD_OAFLAGS", "VLD_DAFLAGS", "VLD_TOTAL", "VLD_PART"} :
        f \in Fields /\ TesterLengths[f] = 1
  BY DEF TesterLengths, Fields
<1>3. /\ "VLD_REFNUM" \in Fields /\ TesterLengths["VLD_REFNUM"] = 2
      /\ "VLD_IMSI" \in Fields /\ TesterLengths["VLD_IMSI"] = 8
  BY DEF TesterLengths, Fields
<1>4. \A f \in {"CAMEL_CALLING_NOA", "CAMEL_CALLED_NOA", "CAMEL_EVENT_TYPE",
               "CAMEL_SERVICE_KEY"} : f \in Fields /\ TesterLengths[f] = 1
  BY DEF TesterLengths, Fields
<1>5. \A f \in {"CAMEL_IMSI", "CAMEL_CALLING_PARTY", "CAMEL_CALLED_PARTY",
               "CAMEL_CALL_REF_NUM"} : f \in Fields /\ TesterLengths[f] = 8
  BY DEF TesterLengths, Fields
<1>6. "CAMEL_TOTAL_DURATION" \in Fields /\ TesterLengths["CAMEL_TOTAL_DURATION"] = 4
  BY DEF TesterLengths, Fields
<1>7. QED
  BY <1>1, <1>2, <1>3, <1>4, <1>5, <1>6

\* The rows of SmsRequest.
LEMMA SmsRows ==
  ASSUME NEW ps, ps = SmsParams, NEW bs, bs = SmsBinds
  PROVE  /\ Len(ps) = 9 /\ DOMAIN ps = 1 .. 9
         /\ Len(bs) = 9 /\ DOMAIN bs = 1 .. 9
         /\ ps[1] = [set |-> "optional", attr |-> "VLD_IMSI", type |-> UInt(8), size |-> 8]
         /\ ps[2] = [set |-> "string", attr |-> "VLD_OA", type |-> Text, size |-> 0]
         /\ ps[3] = [set |-> "string", attr |-> "VLD_DA", type |-> Text, size |-> 0]
         /\ ps[4] = [set |-> "required", attr |-> "VLD_OAFLAGS", type |-> UInt(1), size |-> 1]
         /\ ps[5] = [set |-> "required", attr |-> "VLD_DAFLAGS", type |-> UInt(1), size |-> 1]
         /\ ps[6] = [set |-> "required", attr |-> "VLD_REFNUM", type |-> UInt(2), size |-> 2]
         /\ ps[7] = [set |-> "required", attr |-> "VLD_TOTAL", type |-> UInt(1), size |-> 1]
         /\ ps[8] = [set |-> "required", attr |-> "VLD_PART", type |-> UInt(1), size |-> 1]
         /\ ps[9] = [set |-> "string", attr |-> "VLD_SERVINGMSC", type |-> Text, size |-> 0]
         /\ bs[1] = [attr |-> "VLD_IMSI", type |-> UInt(8)]
         /\ bs[2] = [attr |-> "VLD_OA", type |-> Text]
         /\ bs[3] = [attr |-> "VLD_OAFLAGS", type |-> SInt(2)]
         /\ bs[4] = [attr |-> "VLD_DA", type |-> Text]
         /\ bs[5] = [attr |-> "VLD_DAFLAGS", type |-> SInt(2)]
         /\ bs[6] = [attr |-> "VLD_REFNUM", type |-> SInt(2)]
         /\ bs[7] = [attr |-> "VLD_TOTAL", type |-> SInt(2)]
         /\ bs[8] = [attr |-> "VLD_PART", type |-> SInt(2)]
         /\ bs[9] = [attr |-> "VLD_SERVINGMSC", type |-> Text]
<1>1. /\ Len(ps) = 9 /\ DOMAIN ps = 1 .. 9
      /\ Len(bs) = 9 /\ DOMAIN bs = 1 .. 9
  BY DEF SmsParams, SmsBinds
<1>2. /\ ps[1] = [set |-> "optional", attr |-> "VLD_IMSI", type |-> UInt(8), size |-> 8]
      /\ ps[2] = [set |-> "string", attr |-> "VLD_OA", type |-> Text, size |-> 0]
      /\ ps[3] = [set |-> "string", attr |-> "VLD_DA", type |-> Text, size |-> 0]
  BY DEF SmsParams, Param, IntParam, StringParam
<1>3. /\ ps[4] = [set |-> "required", attr |-> "VLD_OAFLAGS", type |-> UInt(1), size |-> 1]
      /\ ps[5] = [set |-> "required", attr |-> "VLD_DAFLAGS", type |-> UInt(1), size |-> 1]
      /\ ps[6] = [set |-> "required", attr |-> "VLD_REFNUM", type |-> UInt(2), size |-> 2]
  BY DEF SmsParams, Param, IntParam, StringParam
<1>4. /\ ps[7] = [set |-> "required", attr |-> "VLD_TOTAL", type |-> UInt(1), size |-> 1]
      /\ ps[8] = [set |-> "required", attr |-> "VLD_PART", type |-> UInt(1), size |-> 1]
      /\ ps[9] = [set |-> "string", attr |-> "VLD_SERVINGMSC", type |-> Text, size |-> 0]
  BY DEF SmsParams, Param, IntParam, StringParam
<1>5. /\ bs[1] = [attr |-> "VLD_IMSI", type |-> UInt(8)]
      /\ bs[2] = [attr |-> "VLD_OA", type |-> Text]
      /\ bs[3] = [attr |-> "VLD_OAFLAGS", type |-> SInt(2)]
  BY DEF SmsBinds, Bind
<1>6. /\ bs[4] = [attr |-> "VLD_DA", type |-> Text]
      /\ bs[5] = [attr |-> "VLD_DAFLAGS", type |-> SInt(2)]
      /\ bs[6] = [attr |-> "VLD_REFNUM", type |-> SInt(2)]
  BY DEF SmsBinds, Bind
<1>7. /\ bs[7] = [attr |-> "VLD_TOTAL", type |-> SInt(2)]
      /\ bs[8] = [attr |-> "VLD_PART", type |-> SInt(2)]
      /\ bs[9] = [attr |-> "VLD_SERVINGMSC", type |-> Text]
  BY DEF SmsBinds, Bind
<1>8. QED
  BY <1>1, <1>2, <1>3, <1>4, <1>5, <1>6, <1>7

\* The rows of CamelRequest.
LEMMA QuotaRows ==
  ASSUME NEW ps, ps = QuotaParams, NEW bs, bs = QuotaBinds
  PROVE  /\ Len(ps) = 8 /\ DOMAIN ps = 1 .. 8
         /\ Len(bs) = 6 /\ DOMAIN bs = 1 .. 6
         /\ ps[1] = [set |-> "required", attr |-> "CAMEL_IMSI", type |-> UInt(8), size |-> 0]
         /\ ps[2] = [set |-> "required", attr |-> "CAMEL_CALLING_PARTY", type |-> UInt(8), size |-> 0]
         /\ ps[3] = [set |-> "required", attr |-> "CAMEL_CALLING_NOA", type |-> SInt(2), size |-> 0]
         /\ ps[4] = [set |-> "required", attr |-> "CAMEL_CALLED_PARTY", type |-> UInt(8), size |-> 0]
         /\ ps[5] = [set |-> "required", attr |-> "CAMEL_CALLED_NOA", type |-> SInt(2), size |-> 0]
         /\ ps[6] = [set |-> "required", attr |-> "CAMEL_CALL_REF_NUM", type |-> UInt(8), size |-> 0]
         /\ ps[7] = [set |-> "required", attr |-> "CAMEL_EVENT_TYPE", type |-> SInt(2), size |-> 0]
         /\ ps[8] = [set |-> "required", attr |-> "CAMEL_SERVICE_KEY", type |-> SInt(2), size |-> 0]
         /\ bs[1] = [attr |-> "CAMEL_IMSI", type |-> UInt(8)]
         /\ bs[2] = [attr |-> "CAMEL_CALLING_PARTY", type |-> UInt(8)]
         /\ bs[3] = [attr |-> "CAMEL_CALLED_PARTY", type |-> UInt(8)]
         /\ bs[4] = [attr |-> "CAMEL_CALL_REF_NUM", type |-> UInt(8)]
         /\ bs[5] = [attr |-> "CAMEL_EVENT_TYPE", type |-> SInt(2)]
         /\ bs[6] = [attr |-> "CAMEL_SERVICE_KEY", type |-> SInt(2)]
<1>1. /\ Len(ps) = 8 /\ DOMAIN ps = 1 .. 8
      /\ Len(bs) = 6 /\ DOMAIN bs = 1 .. 6
  BY DEF QuotaParams, QuotaBinds
<1>2. /\ ps[1] = [set |-> "required", attr |-> "CAMEL_IMSI", type |-> UInt(8), size |-> 0]
      /\ ps[2] = [set |-> "required", attr |-> "CAMEL_CALLING_PARTY", type |-> UInt(8), size |-> 0]
      /\ ps[3] = [set |-> "required", attr |-> "CAMEL_CALLING_NOA", type |-> SInt(2), size |-> 0]
  BY DEF QuotaParams, IntParam, Param
<1>3. /\ ps[4] = [set |-> "required", attr |-> "CAMEL_CALLED_PARTY", type |-> UInt(8), size |-> 0]
      /\ ps[5] = [set |-> "required", attr |-> "CAMEL_CALLED_NOA", type |-> SInt(2), size |-> 0]
      /\ ps[6] = [set |-> "required", attr |-> "CAMEL_CALL_REF_NUM", type |-> UInt(8), size |-> 0]
  BY DEF QuotaParams, IntParam, Param
<1>4. /\ ps[7] = [set |-> "required", attr |-> "CAMEL_EVENT_TYPE", type |-> SInt(2), size |-> 0]
      /\ ps[8] = [set |-> "required", attr |-> "CAMEL_SERVICE_KEY", type |-> SInt(2), size |-> 0]
  BY DEF QuotaParams, IntParam, Param
<1>5. /\ bs[1] = [attr |-> "CAMEL_IMSI", type |-> UInt(8)]
      /\ bs[2] = [attr |-> "CAMEL_CALLING_PARTY", type |-> UInt(8)]
      /\ bs[3] = [attr |-> "CAMEL_CALLED_PARTY", type |-> UInt(8)]
  BY DEF QuotaBinds, Bind
<1>6. /\ bs[4] = [attr |-> "CAMEL_CALL_REF_NUM", type |-> UInt(8)]
      /\ bs[5] = [attr |-> "CAMEL_EVENT_TYPE", type |-> SInt(2)]
      /\ bs[6] = [attr |-> "CAMEL_SERVICE_KEY", type |-> SInt(2)]
  BY DEF QuotaBinds, Bind
<1>7. QED
  BY <1>1, <1>2, <1>3, <1>4, <1>5, <1>6

\* The rows of CallFinishRequest.
LEMMA CallFinishRows ==
  ASSUME NEW ps, ps = CallFinishParams, NEW bs, bs = CallFinishBinds
  PROVE  /\ Len(ps) = 4 /\ DOMAIN ps = 1 .. 4
         /\ Len(bs) = 5 /\ DOMAIN bs = 1 .. 5
         /\ ps[1] = [set |-> "required", attr |-> "CAMEL_IMSI", type |-> UInt(8), size |-> 0]
         /\ ps[2] = [set |-> "required", attr |-> "CAMEL_CALL_REF_NUM", type |-> UInt(8), size |-> 0]
         /\ ps[3] = [set |-> "required", attr |-> "CAMEL_EVENT_TYPE", type |-> UInt(1), size |-> 0]
         /\ ps[4] = [set |-> "required", attr |-> "CAMEL_TOTAL_DURATION", type |-> SInt(8), size |-> 0]
         /\ bs[1] = [attr |-> "CAMEL_IMSI", type |-> UInt(8)]
         /\ bs[2] = [attr |-> "CAMEL_CALL_REF_NUM", type |-> UInt(8)]
         /\ bs[3] = [attr |-> "CAMEL_EVENT_TYPE", type |-> SInt(2)]
         /\ bs[4] = [attr |-> "CAMEL_SERVICE_KEY", type |-> SInt(2)]
         /\ bs[5] = [attr |-> "CAMEL_TOTAL_DURATION", type |-> SInt(8)]
<1>1. /\ Len(ps) = 4 /\ DOMAIN ps = 1 .. 4
      /\ Len(bs) = 5 /\ DOMAIN bs = 1 .. 5
  BY DEF CallFinishParams, CallFinishBinds
<1>2. /\ ps[1] = [set |-> "required", attr |-> "CAMEL_IMSI", type |-> UInt(8), size |-> 0]
      /\ ps[2] = [set |-> "required", attr |-> "CAMEL_CALL_REF_NUM", type |-> UInt(8), size |-> 0]
      /\ ps[3] = [set |-> "required", attr |-> "CAMEL_EVENT_TYPE", type |-> UInt(1), size |-> 0]
  BY DEF CallFinishParams, IntParam, Param
<1>3. /\ ps[4] = [set |-> "required", attr |-> "CAMEL_TOTAL_DURATION", type |-> SInt(8), size |-> 0]
  BY DEF CallFinishParams, IntParam, Param
<1>4. /\ bs[1] = [attr |-> "CAMEL_IMSI", type |-> UInt(8)]
      /\ bs[2] = [attr |-> "CAMEL_CALL_REF_NUM", type |-> UInt(8)]
      /\ bs[3] = [attr |-> "CAMEL_EVENT_TYPE", type |-> SInt(2)]
  BY DEF CallFinishBinds, Bind
<1>5. /\ bs[4] = [attr |-> "CAMEL_SERVICE_KEY", type |-> SInt(2)]
      /\ bs[5] = [attr |-> "CAMEL_TOTAL_DURATION", type |-> SInt(8)]
  BY DEF CallFinishBinds, Bind
<1>6. QED
  BY <1>1, <1>2, <1>3, <1>4, <1>5

\* The nine parameters of SmsRequest.
LEMMA SmsShape ==
  GoodParams(SmsParams, "sms", 9)
<1> DEFINE ps == SmsParams
<1> HIDE DEF ps
<1>1. ps = SmsParams
  BY DEF ps
<1>2. ASSUME NEW i \in 1 .. 9
      PROVE  GoodParam(ps[i], "sms")
  <2>1. i \in {1, 2, 3, 4, 5, 6, 7, 8, 9}
    OBVIOUS
  <2>2. CASE i \in {1}
    BY <1>1, <2>2, SmsRows, TypesUsed, LengthsUsed DEF GoodParam, Widths
  <2>3. CASE i \in {2, 3, 9}
    BY <1>1, <2>3, SmsRows, TypesUsed, LengthsUsed DEF GoodParam, Widths
  <2>4. CASE i \in {4, 5}
    BY <1>1, <2>4, SmsRows, TypesUsed, LengthsUsed DEF GoodParam, Widths
  <2>5. CASE i \in {6}
    BY <1>1, <2>5, SmsRows, TypesUsed, LengthsUsed DEF GoodParam, Widths
  <2>6. CASE i \in {7, 8}
    BY <1>1, <2>6, SmsRows, TypesUsed, LengthsUsed DEF GoodParam, Widths
  <2>7. QED
    BY <2>1, <2>2, <2>3, <2>4, <2>5, <2>6
<1>3. \A i, j \in 1 .. 9 : ps[i].attr = ps[j].attr => i = j
  BY <1>1, SmsRows
<1>4. QED
  BY <1>1, <1>2, <1>3, SmsRows DEF GoodParams

\* The eight of CamelRequest.
LEMMA QuotaShape ==
  GoodParams(QuotaParams, "quota", 8)
<1> DEFINE ps == QuotaParams
<1> HIDE DEF ps
<1>1. ps = QuotaParams
  BY DEF ps
<1>2. ASSUME NEW i \in 1 .. 8
      PROVE  GoodParam(ps[i], "quota")
  <2>1. i \in {1, 2, 3, 4, 5, 6, 7, 8}
    OBVIOUS
  <2>2. CASE i \in {1, 2}
    BY <1>1, <2>2, QuotaRows, TypesUsed, LengthsUsed DEF GoodParam, Widths
  <2>3. CASE i \in {3, 4}
    BY <1>1, <2>3, QuotaRows, TypesUsed, LengthsUsed DEF GoodParam, Widths
  <2>4. CASE i \in {5, 6}
    BY <1>1, <2>4, QuotaRows, TypesUsed, LengthsUsed DEF GoodParam, Widths
  <2>5. CASE i \in {7, 8}
    BY <1>1, <2>5, QuotaRows, TypesUsed, LengthsUsed DEF GoodParam, Widths
  <2>6. QED
    BY <2>1, <2>2, <2>3, <2>4, <2>5
<1>3. \A i, j \in 1 .. 8 : ps[i].attr = ps[j].attr => i = j
  BY <1>1, QuotaRows
<1>4. QED
  BY <1>1, <1>2, <1>3, QuotaRows DEF GoodParams

\* The four of CallFinishRequest.
LEMMA CallFinishShape ==
  GoodParams(CallFinishParams, "callFinish", 4)
<1> DEFINE ps == CallFinishParams
<1> HIDE DEF ps
<1>1. ps = CallFinishParams
  BY DEF ps
<1>2. ASSUME NEW i \in 1 .. 4
      PROVE  GoodParam(ps[i], "callFinish")
  <2>1. i \in {1, 2, 3, 4}
    OBVIOUS
  <2>2. QED
    BY <1>1, <2>1, CallFinishRows, TypesUsed, LengthsUsed DEF GoodParam, Widths
<1>3. \A i, j \in 1 .. 4 : ps[i].attr = ps[j].attr => i = j
  BY <1>1, CallFinishRows
<1>4. QED
  BY <1>1, <1>2, <1>3, CallFinishRows DEF GoodParams

\* The parameters of every class.
LEMMA ParamsShape ==
  ASSUME NEW k \in Kinds
  PROVE  /\ Len(Params(k)) \in Nat /\ DOMAIN Params(k) = 1 .. Len(Params(k))
         /\ GoodParams(Params(k), k, Len(Params(k)))
<1>1. \E n \in {4, 8, 9} : GoodParams(Params(k), k, n)
  BY SmsShape, QuotaShape, CallFinishShape DEF Params, Kinds
<1>2. QED
  BY <1>1 DEF GoodParams

\* A number of type t keeps its bytes in type w, and text stays text.
Keeps(t, w) ==
  \/ t = Text /\ w = Text
  \/ t \in IntTypes /\ w \in IntTypes /\ t.bytes <= w.bytes

\* What the proofs need of the argument b at the placeholder for attribute f: it is
\* a parameter j of the class, or the service key of a finished call.
GoodBind(b, f, k) ==
  /\ b.attr = f /\ f \in Fields
  /\ \/ \E j \in DOMAIN Params(k) :
          Params(k)[j].attr = f /\ Keeps(Params(k)[j].type, b.type)
     \/ k = "callFinish" /\ f = "CAMEL_SERVICE_KEY"

\* The arguments of every class.
LEMMA BindsShape ==
  ASSUME NEW k \in Kinds
  PROVE  /\ Len(Binds(k)) \in Nat /\ DOMAIN Binds(k) = 1 .. Len(Binds(k))
         /\ \A i \in DOMAIN Binds(k) : GoodBind(Binds(k)[i], Placeholders(k)[i], k)
<1> DEFINE bs == Binds(k)
           ps == Params(k)
           fs == Placeholders(k)
<1> HIDE DEF bs, ps, fs
<1>1. /\ Keeps(Text, Text)
      /\ \A n, m \in Widths :
           n <= m => /\ Keeps(UInt(n), UInt(m))
                     /\ Keeps(UInt(n), SInt(m))
                     /\ Keeps(SInt(n), SInt(m))
  BY IntTypesHave DEF Keeps
<1>2. SUFFICES /\ Len(bs) \in Nat /\ DOMAIN bs = 1 .. Len(bs)
               /\ \A i \in DOMAIN bs :
                    /\ bs[i].attr = fs[i] /\ fs[i] \in Fields
                    /\ \/ \E j \in DOMAIN ps : ps[j].attr = fs[i] /\ Keeps(ps[j].type, bs[i].type)
                       \/ k = "callFinish" /\ fs[i] = "CAMEL_SERVICE_KEY"
  BY DEF GoodBind, bs, ps, fs
<1>3. CASE k = "sms"
  <2>1. ps = SmsParams /\ bs = SmsBinds
    BY <1>3 DEF ps, bs, Params, Binds
  <2>2. /\ fs[1] = "VLD_IMSI" /\ fs[2] = "VLD_OA" /\ fs[3] = "VLD_OAFLAGS" /\ fs[4] = "VLD_DA"
        /\ fs[5] = "VLD_DAFLAGS" /\ fs[6] = "VLD_REFNUM" /\ fs[7] = "VLD_TOTAL"
        /\ fs[8] = "VLD_PART" /\ fs[9] = "VLD_SERVINGMSC"
    BY <1>3 DEF fs, Placeholders
  <2>3. ASSUME NEW i \in 1 .. 9
        PROVE  /\ bs[i].attr = fs[i] /\ fs[i] \in Fields
               /\ \E j \in 1 .. 9 : ps[j].attr = fs[i] /\ Keeps(ps[j].type, bs[i].type)
    <3> DEFINE at == IF i = 3 THEN 4 ELSE IF i = 4 THEN 3 ELSE i
    <3>1. i \in {1, 2, 3, 4, 5, 6, 7, 8, 9}
      OBVIOUS
    <3>2. at \in 1 .. 9
      BY <3>1
    <3>3. ps[at].attr = fs[i] /\ Keeps(ps[at].type, bs[i].type)
      BY <1>1, <2>1, <2>2, <3>1, SmsRows DEF Widths
    <3>4. bs[i].attr = fs[i] /\ fs[i] \in Fields
      BY <2>1, <2>2, <3>1, SmsRows DEF Fields
    <3>5. QED
      BY <3>2, <3>3, <3>4
  <2>4. Len(bs) = 9 /\ DOMAIN bs = 1 .. 9 /\ DOMAIN ps = 1 .. 9
    BY <2>1, SmsRows
  <2>5. Len(bs) \in Nat /\ DOMAIN bs = 1 .. Len(bs)
    BY <2>4
  <2>6. \A i \in DOMAIN bs :
          /\ bs[i].attr = fs[i] /\ fs[i] \in Fields
          /\ \E j \in DOMAIN ps : ps[j].attr = fs[i] /\ Keeps(ps[j].type, bs[i].type)
    BY <2>3, <2>4
  <2>7. QED
    BY <2>5, <2>6
<1>4. CASE k = "quota"
  <2>1. ps = QuotaParams /\ bs = QuotaBinds
    BY <1>4 DEF ps, bs, Params, Binds
  <2>2. /\ fs[1] = "CAMEL_IMSI" /\ fs[2] = "CAMEL_CALLING_PARTY" /\ fs[3] = "CAMEL_CALLED_PARTY"
        /\ fs[4] = "CAMEL_CALL_REF_NUM" /\ fs[5] = "CAMEL_EVENT_TYPE" /\ fs[6] = "CAMEL_SERVICE_KEY"
    BY <1>4 DEF fs, Placeholders
  <2>3. ASSUME NEW i \in 1 .. 6
        PROVE  /\ bs[i].attr = fs[i] /\ fs[i] \in Fields
               /\ \E j \in 1 .. 8 : ps[j].attr = fs[i] /\ Keeps(ps[j].type, bs[i].type)
    <3> DEFINE at == IF i <= 2 THEN i ELSE IF i = 3 THEN 4 ELSE i + 2
    <3>1. i \in {1, 2, 3, 4, 5, 6}
      OBVIOUS
    <3>2. at \in 1 .. 8
      BY <3>1
    <3>3. ps[at].attr = fs[i] /\ Keeps(ps[at].type, bs[i].type)
      BY <1>1, <2>1, <2>2, <3>1, QuotaRows DEF Widths
    <3>4. bs[i].attr = fs[i] /\ fs[i] \in Fields
      BY <2>1, <2>2, <3>1, QuotaRows DEF Fields
    <3>5. QED
      BY <3>2, <3>3, <3>4
  <2>4. Len(bs) = 6 /\ DOMAIN bs = 1 .. 6 /\ DOMAIN ps = 1 .. 8
    BY <2>1, QuotaRows
  <2>5. Len(bs) \in Nat /\ DOMAIN bs = 1 .. Len(bs)
    BY <2>4
  <2>6. \A i \in DOMAIN bs :
          /\ bs[i].attr = fs[i] /\ fs[i] \in Fields
          /\ \E j \in DOMAIN ps : ps[j].attr = fs[i] /\ Keeps(ps[j].type, bs[i].type)
    BY <2>3, <2>4
  <2>7. QED
    BY <2>5, <2>6
<1>5. CASE k = "callFinish"
  <2>1. ps = CallFinishParams /\ bs = CallFinishBinds
    BY <1>5 DEF ps, bs, Params, Binds
  <2>2. /\ fs[1] = "CAMEL_IMSI" /\ fs[2] = "CAMEL_CALL_REF_NUM" /\ fs[3] = "CAMEL_EVENT_TYPE"
        /\ fs[4] = "CAMEL_SERVICE_KEY" /\ fs[5] = "CAMEL_TOTAL_DURATION"
    BY <1>5 DEF fs, Placeholders
  <2>3. ASSUME NEW i \in 1 .. 5
        PROVE  /\ bs[i].attr = fs[i] /\ fs[i] \in Fields
               /\ \/ \E j \in 1 .. 4 : ps[j].attr = fs[i] /\ Keeps(ps[j].type, bs[i].type)
                  \/ fs[i] = "CAMEL_SERVICE_KEY"
    <3> DEFINE at == IF i = 5 THEN 4 ELSE i
    <3>1. i \in {1, 2, 3, 4, 5}
      OBVIOUS
    <3>2. at \in 1 .. 4
      BY <3>1
    <3>3. i # 4 => ps[at].attr = fs[i] /\ Keeps(ps[at].type, bs[i].type)
      BY <1>1, <2>1, <2>2, <3>1, CallFinishRows DEF Widths
    <3>4. bs[i].attr = fs[i] /\ fs[i] \in Fields
      BY <2>1, <2>2, <3>1, CallFinishRows DEF Fields
    <3>5. QED
      BY <2>2, <3>2, <3>3, <3>4
  <2>4. Len(bs) = 5 /\ DOMAIN bs = 1 .. 5 /\ DOMAIN ps = 1 .. 4
    BY <2>1, CallFinishRows
  <2>5. QED
    BY <1>5, <2>3, <2>4
<1>6. QED
  BY <1>3, <1>4, <1>5 DEF Kinds

\* A field f of a record, of type w, is a parameter of the class, wide enough for
\* it, or a party that Process gets from the database.
GoodRecordField(f, w, ps, k) ==
  /\ f \in Fields
  /\ w \in IntTypes \cup {Text}
  /\ \/ \E j \in DOMAIN ps :
          /\ ps[j].attr = f /\ Keeps(ps[j].type, w)
          /\ k # "sms" => ps[j].type = UInt(8)
     \/ /\ k = "callFinish"
        /\ f \in {"CAMEL_CALLING_PARTY", "CAMEL_CALLED_PARTY"}
        /\ w = SInt(8)

\* The fields of the records.
LEMMA CdrShape ==
  ASSUME NEW k \in Kinds, NEW f \in DOMAIN CdrType(k)
  PROVE  GoodRecordField(f, CdrType(k)[f], Params(k), k)
<1> DEFINE ps == Params(k)
           w == CdrType(k)[f]
<1>0. SUFFICES GoodRecordField(f, w, ps, k)
  OBVIOUS
<1> HIDE DEF ps, w
<1>1. \A n, m \in Widths : n <= m => Keeps(UInt(n), SInt(m)) /\ Keeps(Text, Text)
  BY IntTypesHave DEF Keeps
<1>3. CASE k = "sms"
  <2>1. /\ f \in DOMAIN SMS_CDR
        /\ w = CASE f = "VLD_IMSI"                              -> SInt(8)
                [] f \in {"VLD_OA", "VLD_DA", "VLD_SERVINGMSC"} -> Text
                [] OTHER                                       -> SInt(4)
    BY <1>3 DEF w, CdrType, SMS_CDR
  <2>2. ps = SmsParams
    BY <1>3 DEF ps, Params
  <2>3. \E j \in 1 .. 9 : ps[j].attr = f
    BY <2>1, <2>2, SmsRows DEF SMS_CDR
  <2>4. PICK j \in 1 .. 9 : ps[j].attr = f
    BY <2>3
  <2>5. j \in {1, 2, 3, 4, 5, 6, 7, 8, 9}
    OBVIOUS
  <2>6. Keeps(ps[j].type, w)
    BY <1>1, <2>1, <2>2, <2>4, <2>5, SmsRows DEF Widths
  <2>7. f \in Fields /\ w \in IntTypes \cup {Text}
    BY <2>1, IntTypesHave DEF SMS_CDR, Fields, Widths
  <2>8. QED
    BY <1>3, <2>2, <2>4, <2>6, <2>7, SmsRows DEF GoodRecordField
<1>4. CASE k # "sms"
  <2>1. /\ f \in {"CAMEL_IMSI", "CAMEL_CALLING_PARTY", "CAMEL_CALLED_PARTY"}
        /\ w = SInt(8) /\ f \in Fields /\ w \in IntTypes
    BY <1>4, IntTypesHave DEF w, CdrType, Call_CDR, Fields, Widths
  <2>2. CASE k = "quota"
    <3>1. ps = QuotaParams
      BY <2>2 DEF ps, Params
    <3>2. \E j \in {1, 2, 4} : ps[j].attr = f /\ ps[j].type = UInt(8)
      BY <2>1, <3>1, QuotaRows
    <3>3. QED
      BY <1>1, <2>1, <3>1, <3>2, QuotaRows DEF Widths, GoodRecordField
  <2>3. CASE k = "callFinish"
    <3>1. ps = CallFinishParams
      BY <2>3 DEF ps, Params
    <3>2. f = "CAMEL_IMSI" => ps[1].attr = f /\ ps[1].type = UInt(8)
      BY <3>1, CallFinishRows
    <3>3. QED
      BY <1>1, <2>1, <2>3, <3>1, <3>2, CallFinishRows DEF Widths, GoodRecordField
  <2>4. QED
    BY <1>4, <2>2, <2>3 DEF Kinds
<1>5. QED
  BY <1>3, <1>4

-----------------------------------------------------------------------------
(* The inductive invariant.                                                *)

\* The stages after Process.
Done == {"processed", "answered", "logged"}

\* The types the proof needs of the variables that are functions, and how far a
\* stage has got in the parameters.
ShapeInv ==
  /\ kind \in Kinds
  /\ stage \in Stages
  /\ next \in 1 .. Len(Params(kind)) + 1
  /\ stage \in {"rejected", "refused"} => next <= Len(Params(kind))
  /\ stage \in {"accepted"} \cup Done => next = Len(Params(kind)) + 1
  /\ DOMAIN attrs = Fields
  /\ DOMAIN field = Fields

\* What a parameter that was looked for has found.
Found(p) == attrs[p.attr] \in Sent[p.attr] \cup {Missing}

\* The parameters before next were found and set, the one at next made the
\* request a rejected one or is not read yet, like everything else.
ReadInv ==
  /\ \A i \in DOMAIN Params(kind) :
       LET p == Params(kind)[i]
       IN /\ i < next => Found(p) /\ Sets(p, attrs[p.attr])
          /\ i = next => IF stage \in {"rejected", "refused"}
                           THEN Found(p) /\ ~Sets(p, attrs[p.attr])
                           ELSE attrs[p.attr] = Unset
          /\ i > next => attrs[p.attr] = Unset
  /\ \A f \in Fields :
       attrs[f] = Unset \/ \E i \in DOMAIN Params(kind) : Params(kind)[i].attr = f

\* A parameter that was set is in its field, until Process overwrites the IMSI of
\* an SMS; a finished call gets its parties from Process and its service key from
\* nobody.
FieldInv ==
  /\ \A i \in DOMAIN Params(kind) :
       LET p == Params(kind)[i]
       IN i < next =>
            IF p.attr = "VLD_IMSI" /\ stage \in Done
              THEN field[p.attr] \in Int /\ Fits(field[p.attr], p.type)
              ELSE field[p.attr] = Stored(p, attrs[p.attr])
  /\ kind = "callFinish" =>
       /\ field["CAMEL_SERVICE_KEY"] = Unset
       /\ stage \in Done => field["CAMEL_CALLING_PARTY"] \in Int
                            /\ field["CAMEL_CALLED_PARTY"] \in Int

\* An argument is the parameter it is named for, converted twice, or was never
\* assigned.
ArgsInv ==
  IF stage \in Done
    THEN /\ args \in Seq(Int \cup {Unset})
         /\ Len(args) = Len(Binds(kind))
         /\ \A i \in DOMAIN Binds(kind) :
              LET b == Binds(kind)[i]
              IN \/ b.attr = "CAMEL_SERVICE_KEY" /\ kind = "callFinish" /\ args[i] = Unset
                 \/ \E j \in DOMAIN Params(kind) :
                      LET p == Params(kind)[j]
                      IN p.attr = b.attr /\ args[i] = Convert(Stored(p, attrs[b.attr]), b.type)
    ELSE args = <<>>

\* The result is what the database returned, cut to a byte where it is a byte.
ResultInv ==
  IF stage \in Done
    THEN /\ kind = "sms" => /\ returned.code \in Int
                            /\ result.code = Convert(returned.code, SInt(1))
         /\ kind = "quota" => /\ returned.code \in Int /\ returned.quota \in Int
                              /\ returned.chunks \in Int
                              /\ result.code = Convert(returned.code, SInt(1))
                              /\ result.quota = Convert(returned.quota, SInt(1))
                              /\ result.chunks = returned.chunks
         /\ kind = "callFinish" => /\ returned.quota \in Int
                                   /\ result.code = OPERATION_SUCCESS
                                   /\ result.quota = returned.quota
    ELSE returned = NothingYet /\ result = NothingYet

\* The response and the record are those of the result.
AnswerInv ==
  answer = CASE stage = "refused"               -> RefusalAnswer
             [] stage \in {"answered", "logged"} -> ResultAnswer(kind, result)
             [] OTHER                            -> Missing

Record == [fields  |-> [f \in DOMAIN CdrType(kind) |-> Convert(field[f], CdrType(kind)[f])],
           result  |-> Convert(RecordedResult, SInt(4)),
           seconds |-> TotalDurationSeconds]

CdrInv == cdr = IF stage = "logged" /\ LogsCdr(kind, Outcome) THEN Record ELSE Missing

ParamsInv ==
  ShapeInv /\ ReadInv /\ FieldInv /\ ArgsInv /\ ResultInv /\ AnswerInv /\ CdrInv

-----------------------------------------------------------------------------
(* What a parameter that was found leaves.                                 *)

\* Nothing of what clients send is the missing or the unassigned value.
LEMMA SentIsThere ==
  ASSUME NEW f \in Fields, NEW a \in Sent[f]
  PROVE  IsAttribute(a) /\ a # Missing /\ a # Unset
<1>1. IsAttribute(a)
  BY SentAssumption
<1>2. QED
  BY <1>1, ValueAssumption DEF IsAttribute

\* Zero is itself in every type.
LEMMA ZeroFits ==
  \A t \in IntTypes \cup {Text} : Convert(0, t) = 0
<1> TAKE t \in IntTypes \cup {Text}
<1>1. CASE t = Text
  BY <1>1, ConvertText
<1>2. CASE t \in IntTypes
  <2>1. ByteValues[t.bytes] \in Nat \ {0}
    BY <1>2, IntTypeShape
  <2>2. InRange(0, t)
    BY <2>1 DEF InRange
  <2>3. QED
    BY <1>2, <2>2, FitsInRange DEF Fits
<1>3. QED
  BY <1>1, <1>2

\* A conversion gives a number of the type, whether an integer's or text.
LEMMA ConvertGives ==
  ASSUME NEW v \in Int, NEW t \in IntTypes \cup {Text}
  PROVE  Convert(v, t) \in Int /\ Fits(Convert(v, t), t)
<1>1. CASE t = Text
  BY <1>1, ConvertText DEF Fits
<1>2. CASE t \in IntTypes
  BY <1>2, ConvertFits
<1>3. QED
  BY <1>1, <1>2

\* The value of a parameter that was set is a number of the parameter's type.
LEMMA StoredFits ==
  ASSUME NEW k \in Kinds, NEW p, GoodParam(p, k),
         NEW a \in Sent[p.attr] \cup {Missing}, Sets(p, a)
  PROVE  Stored(p, a) \in Int /\ Fits(Stored(p, a), p.type)
<1>1. p.type \in IntTypes \cup {Text} /\ p.attr \in Fields
  BY DEF GoodParam
<1>2. CASE a = Missing
  BY <1>1, <1>2, ZeroFits DEF Stored, NotGiven, Fits
<1>3. CASE a # Missing
  <2>1. a.value \in Int
    BY <1>1, <1>3, SentIsThere, ValueFits
  <2>2. QED
    BY <1>1, <1>3, <2>1, ConvertGives DEF Stored
<1>4. QED
  BY <1>2, <1>3

\* And after another conversion that keeps its bytes it still tells what was sent,
\* unless the attribute was longer than the field, as only those of a call may be.
LEMMA SentIsRead ==
  ASSUME NEW k \in Kinds, NEW p, GoodParam(p, k),
         NEW a \in Sent[p.attr], Sets(p, a), NEW w, Keeps(p.type, w)
  PROVE  \/ p.type = Text /\ Convert(Stored(p, a), w) = a.value
         \/ /\ p.type # Text
            /\ \/ Convert(Convert(Stored(p, a), w), UInt(a.size)) = a.value
               \/ k # "sms" /\ a.size \in Widths /\ a.size > p.type.bytes
<1>1. IsAttribute(a) /\ a # Missing /\ Stored(p, a) = Convert(a.value, p.type)
  BY SentIsThere DEF GoodParam, Stored
<1>2. CASE p.type = Text
  <2>1. w = Text
    BY <1>2, IntTypeShape DEF Keeps
  <2>2. QED
    BY <1>1, <1>2, <2>1, ConvertText
<1>3. CASE p.type # Text
  <2>1. /\ p.type \in IntTypes /\ w \in IntTypes /\ p.type.bytes <= w.bytes
        /\ p.set # "string" /\ p.type.bytes \in Widths /\ w.bytes \in Widths
    BY <1>3, IntTypeShape DEF Keeps, GoodParam
  <2>2. a.size \in Widths /\ (k = "sms" => a.size = p.type.bytes)
    <3>1. IsInt(p, a)
      BY <1>1, <2>1 DEF GoodParam, Sets
    <3>2. k = "sms" => p.size = p.type.bytes /\ p.size # 0
      BY <2>1 DEF GoodParam, Widths
    <3>3. QED
      BY <3>1, <3>2 DEF IsInt, Widths
  <2>3. CASE a.size <= p.type.bytes
    <3>1. a.size <= w.bytes
      BY <2>1, <2>2, <2>3 DEF Widths
    <3>2. QED
      BY <1>1, <1>3, <2>1, <2>2, <2>3, <3>1, SentSurvives
  <2>4. CASE a.size > p.type.bytes
    BY <1>3, <2>1, <2>2, <2>4 DEF Widths
  <2>5. QED
    BY <2>1, <2>2, <2>3, <2>4 DEF Widths
<1>4. QED
  BY <1>2, <1>3

\* Two parameters of a class have different attributes.
LEMMA ParamsDiffer ==
  ASSUME NEW k \in Kinds, NEW i \in DOMAIN Params(k), NEW j \in DOMAIN Params(k),
         Params(k)[i].attr = Params(k)[j].attr
  PROVE  i = j
BY ParamsShape DEF GoodParams

\* Every parameter is a good one.
LEMMA ParamsGood ==
  ASSUME NEW k \in Kinds, NEW i \in DOMAIN Params(k)
  PROVE  GoodParam(Params(k)[i], k) /\ Params(k)[i].attr \in Fields /\ i \in Nat
<1>1. GoodParam(Params(k)[i], k) /\ i \in Nat
  BY ParamsShape DEF GoodParams
<1>2. QED
  BY <1>1 DEF GoodParam

\* A request starts with nothing read.
LEMMA InvInit ==
  Init => ParamsInv
<1> SUFFICES ASSUME Init
             PROVE  ParamsInv
  OBVIOUS
<1>1. /\ Len(Params(kind)) \in Nat /\ DOMAIN Params(kind) = 1 .. Len(Params(kind))
      /\ kind \in Kinds
  BY ParamsShape DEF Init
<1>2. ShapeInv
  BY <1>1 DEF Init, ShapeInv, Stages, Done
<1>3. ReadInv
  BY <1>1, ParamsGood DEF Init, ReadInv
<1>4. FieldInv
  BY <1>1 DEF Init, FieldInv, Done, Fields
<1>5. ArgsInv /\ ResultInv /\ AnswerInv /\ CdrInv
  BY DEF Init, ArgsInv, ResultInv, AnswerInv, CdrInv, Done
<1>6. QED
  BY <1>2, <1>3, <1>4, <1>5 DEF ParamsInv

\* Finding a parameter and setting it.
LEMMA SetParamStep ==
  ASSUME ParamsInv, NEW i \in DOMAIN Params(kind),
         NEW a \in Sent[Params(kind)[i].attr] \cup {Missing}, SetParam(Params(kind)[i], a)
  PROVE  ParamsInv'
<1> DEFINE n == Len(Params(kind))
           p == Params(kind)[next]
<1>1. /\ kind \in Kinds /\ kind' = kind /\ stage = "validating" /\ stage' = stage
      /\ next \in DOMAIN Params(kind) /\ next' = next + 1
      /\ n \in Nat /\ DOMAIN Params(kind) = 1 .. n /\ DOMAIN Params(kind)' = 1 .. n
      /\ p = Params(kind)[i] /\ p.attr \in Fields /\ GoodParam(p, kind)
      /\ DOMAIN attrs = Fields /\ DOMAIN field = Fields
      /\ attrs' = [attrs EXCEPT ![p.attr] = a]
      /\ field' = [field EXCEPT ![p.attr] = Stored(p, a)]
      /\ Sets(p, a) /\ a \in Sent[p.attr] \cup {Missing}
      /\ UNCHANGED <<args, returned, result, answer, cdr>>
  BY ParamsShape, ParamsGood DEF ParamsInv, ShapeInv, SetParam, Finds
<1>2. ShapeInv'
  BY <1>1 DEF ShapeInv, ParamsInv, Stages, Done
<1>3. \A j \in DOMAIN Params(kind) : j # next =>
        /\ Params(kind)[j].attr # p.attr /\ Params(kind)[j].attr \in Fields /\ j \in Nat
        /\ attrs'[Params(kind)[j].attr] = attrs[Params(kind)[j].attr]
        /\ field'[Params(kind)[j].attr] = field[Params(kind)[j].attr]
  BY <1>1, ParamsDiffer, ParamsGood
<1>4. attrs'[p.attr] = a /\ field'[p.attr] = Stored(p, a)
  BY <1>1
<1>5. ReadInv'
  <2>1. ASSUME NEW j \in DOMAIN Params(kind)
        PROVE  LET q == Params(kind)[j]
               IN /\ j < next' => attrs'[q.attr] \in Sent[q.attr] \cup {Missing} /\ Sets(q, attrs'[q.attr])
                  /\ j = next' => attrs'[q.attr] = Unset
                  /\ j > next' => attrs'[q.attr] = Unset
    <3>1. CASE j = next
      BY <1>1, <1>4, <3>1
    <3>2. CASE j # next
      <4>1. /\ j < next' => j < next
            /\ j >= next' => j > next
        BY <1>1, <1>3, <3>2
      <4>2. attrs'[Params(kind)[j].attr] = attrs[Params(kind)[j].attr]
        BY <1>3, <3>2
      <4>3. LET q == Params(kind)[j]
            IN /\ j < next => attrs[q.attr] \in Sent[q.attr] \cup {Missing} /\ Sets(q, attrs[q.attr])
               /\ j > next => attrs[q.attr] = Unset
        BY DEF ParamsInv, ReadInv, Found
      <4>4. QED
        BY <1>1, <4>1, <4>2, <4>3
    <3>3. QED
      BY <3>1, <3>2
  <2>2. \A f \in Fields :
          attrs'[f] = Unset \/ \E j \in DOMAIN Params(kind) : Params(kind)[j].attr = f
    BY <1>1 DEF ParamsInv, ReadInv
  <2>3. QED
    BY <1>1, <2>1, <2>2 DEF ReadInv, Found
<1>6. FieldInv'
  <2>1. ASSUME NEW j \in DOMAIN Params(kind), j < next'
        PROVE  field'[Params(kind)[j].attr] = Stored(Params(kind)[j], attrs'[Params(kind)[j].attr])
    <3>1. CASE j = next
      BY <1>1, <1>4, <3>1
    <3>2. CASE j # next
      BY <1>1, <1>3, <2>1, <3>2 DEF ParamsInv, FieldInv, Done
    <3>3. QED
      BY <3>1, <3>2
  <2>2. kind = "callFinish" => field'["CAMEL_SERVICE_KEY"] = Unset
    BY <1>1 DEF ParamsInv, FieldInv, GoodParam
  <2>3. QED
    BY <1>1, <2>1, <2>2 DEF FieldInv, Done
<1>7. ArgsInv' /\ ResultInv' /\ AnswerInv' /\ CdrInv'
  BY <1>1 DEF ParamsInv, ArgsInv, ResultInv, AnswerInv, CdrInv, Done
<1>8. QED
  BY <1>2, <1>5, <1>6, <1>7 DEF ParamsInv

\* Finding a parameter that is missing or of a wrong size.
LEMMA FailParamStep ==
  ASSUME ParamsInv, NEW i \in DOMAIN Params(kind),
         NEW a \in Sent[Params(kind)[i].attr] \cup {Missing}, FailParam(Params(kind)[i], a)
  PROVE  ParamsInv'
<1> DEFINE n == Len(Params(kind))
           p == Params(kind)[next]
<1>1. /\ kind \in Kinds /\ kind' = kind /\ stage = "validating" /\ stage' = "rejected"
      /\ next \in DOMAIN Params(kind) /\ next' = next
      /\ n \in Nat /\ DOMAIN Params(kind) = 1 .. n /\ DOMAIN Params(kind)' = 1 .. n
      /\ p = Params(kind)[i] /\ p.attr \in Fields /\ GoodParam(p, kind)
      /\ DOMAIN attrs = Fields /\ DOMAIN field = Fields
      /\ attrs' = [attrs EXCEPT ![p.attr] = a]
      /\ ~Sets(p, a) /\ a \in Sent[p.attr] \cup {Missing}
      /\ UNCHANGED <<field, args, returned, result, answer, cdr>>
  BY ParamsShape, ParamsGood DEF ParamsInv, ShapeInv, FailParam, Finds
<1>2. ShapeInv'
  BY <1>1 DEF ShapeInv, ParamsInv, Stages, Done
<1>3. \A j \in DOMAIN Params(kind) : j # next =>
        /\ Params(kind)[j].attr # p.attr /\ Params(kind)[j].attr \in Fields /\ j \in Nat
        /\ attrs'[Params(kind)[j].attr] = attrs[Params(kind)[j].attr]
  BY <1>1, ParamsDiffer, ParamsGood
<1>4. attrs'[p.attr] = a
  BY <1>1
<1>5. ReadInv'
  <2>1. ASSUME NEW j \in DOMAIN Params(kind)
        PROVE  LET q == Params(kind)[j]
               IN /\ j < next => attrs'[q.attr] \in Sent[q.attr] \cup {Missing} /\ Sets(q, attrs'[q.attr])
                  /\ j = next => attrs'[q.attr] \in Sent[q.attr] \cup {Missing} /\ ~Sets(q, attrs'[q.attr])
                  /\ j > next => attrs'[q.attr] = Unset
    <3>1. CASE j = next
      BY <1>1, <1>4, <3>1
    <3>2. CASE j # next
      BY <1>1, <1>3, <3>2 DEF ParamsInv, ReadInv, Found
    <3>3. QED
      BY <3>1, <3>2
  <2>2. \A f \in Fields :
          attrs'[f] = Unset \/ \E j \in DOMAIN Params(kind) : Params(kind)[j].attr = f
    BY <1>1 DEF ParamsInv, ReadInv
  <2>3. QED
    BY <1>1, <2>1, <2>2 DEF ReadInv, Found
<1>6. FieldInv'
  <2>1. ASSUME NEW j \in DOMAIN Params(kind), j < next
        PROVE  field'[Params(kind)[j].attr] = Stored(Params(kind)[j], attrs'[Params(kind)[j].attr])
    BY <1>1, <1>3, <2>1 DEF ParamsInv, FieldInv, Done
  <2>2. kind = "callFinish" => field'["CAMEL_SERVICE_KEY"] = Unset
    BY <1>1 DEF ParamsInv, FieldInv
  <2>3. QED
    BY <1>1, <2>1, <2>2 DEF FieldInv, Done
<1>7. ArgsInv' /\ ResultInv' /\ AnswerInv' /\ CdrInv'
  BY <1>1 DEF ParamsInv, ArgsInv, ResultInv, AnswerInv, CdrInv, Done
<1>8. QED
  BY <1>2, <1>5, <1>6, <1>7 DEF ParamsInv

\* The end of ValidateAndSetParams, and the answer to a request it rejected.
LEMMA VerdictStep ==
  ASSUME ParamsInv, Accept \/ SendNotAcceptedResponse
  PROVE  ParamsInv'
<1>1. /\ kind' = kind /\ next' = next
      /\ UNCHANGED <<attrs, field, args, returned, result, cdr>>
      /\ kind \in Kinds /\ Len(Params(kind)) \in Nat
      /\ DOMAIN Params(kind) = 1 .. Len(Params(kind))
  BY ParamsShape DEF ParamsInv, ShapeInv, Accept, SendNotAcceptedResponse
<1>2. \/ /\ stage = "validating" /\ stage' = "accepted" /\ answer' = answer
         /\ next = Len(Params(kind)) + 1
      \/ stage = "rejected" /\ stage' = "refused" /\ answer' = RefusalAnswer
  BY DEF Accept, SendNotAcceptedResponse
<1>3. ShapeInv'
  BY <1>1, <1>2 DEF ShapeInv, ParamsInv, Stages, Done
<1>4. ReadInv'
  BY <1>1, <1>2 DEF ReadInv, ParamsInv, Found
<1>5. FieldInv'
  BY <1>1, <1>2 DEF FieldInv, ParamsInv, Done
<1>6. ArgsInv' /\ ResultInv' /\ AnswerInv' /\ CdrInv'
  BY <1>1, <1>2 DEF ParamsInv, ArgsInv, ResultInv, AnswerInv, CdrInv, Done
<1>7. QED
  BY <1>3, <1>4, <1>5, <1>6 DEF ParamsInv

\* The length of a sequence is in its domain.
LEMMA SameLength ==
  ASSUME NEW x \in Nat, NEW y \in Nat, 1 .. x = 1 .. y
  PROVE  x = y
<1>1. x + 1 \notin 1 .. y /\ y + 1 \notin 1 .. x
  OBVIOUS
<1>2. QED
  BY <1>1

\* Process: the call, and what it returns.
LEMMA ProcessStep ==
  ASSUME ParamsInv, Process
  PROVE  ParamsInv'
<1> DEFINE n == Len(Params(kind))
           m == Len(Binds(kind))
<1>1. /\ kind \in Kinds /\ kind' = kind /\ stage = "accepted" /\ stage' = "processed"
      /\ next = n + 1 /\ next' = next
      /\ n \in Nat /\ DOMAIN Params(kind) = 1 .. n
      /\ m \in Nat /\ DOMAIN Binds(kind) = 1 .. m
      /\ DOMAIN attrs = Fields /\ DOMAIN field = Fields
      /\ UNCHANGED <<attrs, answer, cdr>>
  BY ParamsShape, BindsShape DEF ParamsInv, ShapeInv, Process, Done
<1>2. ASSUME NEW j \in DOMAIN Params(kind)
      PROVE  LET p == Params(kind)[j]
             IN /\ j < next /\ GoodParam(p, kind) /\ p.attr \in Fields
                /\ Found(p) /\ Sets(p, attrs[p.attr])
                /\ field[p.attr] = Stored(p, attrs[p.attr])
                /\ Stored(p, attrs[p.attr]) \in Int
                /\ Fits(Stored(p, attrs[p.attr]), p.type)
  <2>1. j < next /\ j \in Nat
    BY <1>1
  <2>2. /\ Found(Params(kind)[j]) /\ Sets(Params(kind)[j], attrs[Params(kind)[j].attr])
        /\ field[Params(kind)[j].attr] = Stored(Params(kind)[j], attrs[Params(kind)[j].attr])
    BY <1>1, <2>1 DEF ParamsInv, ReadInv, FieldInv, Done
  <2>3. GoodParam(Params(kind)[j], kind) /\ Params(kind)[j].attr \in Fields
    BY <1>1, ParamsGood
  <2>4. QED
    BY <1>1, <2>1, <2>2, <2>3, StoredFits DEF Found
<1>3. ShapeInv' /\ ReadInv' /\ AnswerInv' /\ CdrInv'
  <2>1. ShapeInv'
    <3>1. DOMAIN field' = Fields
      BY <1>1 DEF Process
    <3>2. QED
      BY <1>1, <3>1 DEF ShapeInv, Stages, Done
  <2>2. ReadInv'
    BY <1>1 DEF ReadInv, ParamsInv, Found
  <2>3. AnswerInv' /\ CdrInv'
    BY <1>1 DEF AnswerInv, CdrInv, ParamsInv
  <2>4. QED
    BY <2>1, <2>2, <2>3
<1>4. ArgsInv'
  <2>1. ASSUME NEW i \in DOMAIN Binds(kind)
        PROVE  LET b == Binds(kind)[i]
               IN /\ Argument(b) \in Int \cup {Unset}
                  /\ \/ b.attr = "CAMEL_SERVICE_KEY" /\ kind = "callFinish" /\ Argument(b) = Unset
                     \/ \E j \in DOMAIN Params(kind) :
                          LET p == Params(kind)[j]
                          IN /\ p.attr = b.attr
                             /\ Argument(b) = Convert(Stored(p, attrs[b.attr]), b.type)
    <3> DEFINE b == Binds(kind)[i]
    <3> HIDE DEF b
    <3>1. \/ \E j \in DOMAIN Params(kind) :
               Params(kind)[j].attr = b.attr /\ Keeps(Params(kind)[j].type, b.type)
          \/ kind = "callFinish" /\ b.attr = "CAMEL_SERVICE_KEY"
      BY <1>1, BindsShape DEF GoodBind, b
    <3>2. CASE kind = "callFinish" /\ b.attr = "CAMEL_SERVICE_KEY"
      <4>1. Argument(b) = Unset
        BY <3>2 DEF Argument, ParamsInv, FieldInv
      <4>2. QED
        BY <3>2, <4>1 DEF b
    <3>3. ASSUME NEW j \in DOMAIN Params(kind),
                 Params(kind)[j].attr = b.attr, Keeps(Params(kind)[j].type, b.type)
          PROVE  /\ Argument(b) \in Int
                 /\ Argument(b) = Convert(Stored(Params(kind)[j], attrs[b.attr]), b.type)
      <4>1. /\ field[b.attr] = Stored(Params(kind)[j], attrs[b.attr])
            /\ field[b.attr] \in Int
        BY <1>2, <3>3
      <4>2. field[b.attr] # Unset
        BY <4>1, ValueAssumption
      <4>3. Convert(field[b.attr], b.type) \in Int
        BY <3>3, <4>1, ConvertGives DEF Keeps
      <4>4. QED
        BY <4>1, <4>2, <4>3 DEF Argument
    <3>4. QED
      BY <3>1, <3>2, <3>3 DEF b
  <2>2. args' = [i \in 1 .. m |-> Argument(Binds(kind)[i])]
    BY <1>1 DEF Process
  <2>3. args' \in [1 .. m -> Int \cup {Unset}]
    BY <1>1, <2>1, <2>2
  <2>4. args' \in Seq(Int \cup {Unset})
    BY <1>1, <2>3, SeqDef
  <2>5. Len(args') = m
    <3>1. Len(args') \in Nat /\ DOMAIN args' = 1 .. Len(args') /\ DOMAIN args' = 1 .. m
      BY <2>3, <2>4, LenProperties
    <3>2. m \in Nat /\ 1 .. Len(args') = 1 .. m
      BY <1>1, <3>1
    <3> HIDE DEF m
    <3>3. QED
      BY <3>1, <3>2, SameLength
  <2>6. QED
    BY <1>1, <2>1, <2>2, <2>4, <2>5 DEF ArgsInv, Done
<1>5. FieldInv'
  <2>1. ASSUME NEW j \in DOMAIN Params(kind)
        PROVE  LET p == Params(kind)[j]
               IN IF p.attr = "VLD_IMSI"
                    THEN field'[p.attr] \in Int /\ Fits(field'[p.attr], p.type)
                    ELSE field'[p.attr] = Stored(p, attrs[p.attr])
    <3> DEFINE p == Params(kind)[j]
    <3>1. /\ GoodParam(p, kind) /\ p.attr \in Fields
          /\ field[p.attr] = Stored(p, attrs[p.attr])
      BY <1>2
    <3>2. /\ p.attr = "VLD_IMSI" => kind = "sms" /\ p.type = UInt(8)
          /\ kind = "callFinish" => p.attr \notin {"CAMEL_CALLING_PARTY", "CAMEL_CALLED_PARTY"}
      BY <3>1 DEF GoodParam
    <3> HIDE DEF p
    <3>3. CASE kind = "sms"
      <4>1. PICK imsi \in Returns(UInt(8)) : field' = [field EXCEPT !["VLD_IMSI"] = imsi]
        BY <3>3 DEF Process
      <4>2. imsi \in Int /\ Fits(imsi, UInt(8))
        BY ValueAssumption DEF Returns
      <4>3. QED
        BY <1>1, <3>1, <3>2, <4>1, <4>2 DEF p
    <3>4. CASE kind = "quota"
      <4>1. field' = field
        BY <3>4 DEF Process
      <4>2. QED
        BY <3>1, <3>2, <3>4, <4>1 DEF p
    <3>5. CASE kind = "callFinish"
      <4>1. PICK calling, called \in Returns(UInt(8)) :
              field' = [field EXCEPT !["CAMEL_CALLING_PARTY"] = calling,
                                     !["CAMEL_CALLED_PARTY"] = called]
        BY <3>5 DEF Process
      <4>2. QED
        BY <1>1, <3>1, <3>2, <3>5, <4>1 DEF p
    <3>6. QED
      BY <1>1, <3>3, <3>4, <3>5 DEF Kinds
  <2>2. ASSUME kind = "callFinish"
        PROVE  /\ field'["CAMEL_SERVICE_KEY"] = Unset
               /\ field'["CAMEL_CALLING_PARTY"] \in Int /\ field'["CAMEL_CALLED_PARTY"] \in Int
    <3>1. PICK calling, called \in Returns(UInt(8)) :
            field' = [field EXCEPT !["CAMEL_CALLING_PARTY"] = calling,
                                   !["CAMEL_CALLED_PARTY"] = called]
      BY <2>2 DEF Process
    <3>2. calling \in Int /\ called \in Int
      BY ValueAssumption DEF Returns
    <3>3. field["CAMEL_SERVICE_KEY"] = Unset
      BY <2>2 DEF ParamsInv, FieldInv
    <3>4. QED
      BY <1>1, <3>1, <3>2, <3>3 DEF Fields
  <2>3. QED
    BY <1>1, <2>1, <2>2 DEF FieldInv, Done
<1>6. ResultInv'
  <2>1. returned = NothingYet /\ result = NothingYet
    BY <1>1 DEF ParamsInv, ResultInv, Done
  <2>2. \A type : Returns(type) \subseteq Int
    BY ValueAssumption DEF Returns
  <2>3. CASE kind = "sms"
    <3>1. PICK code \in Returns(SInt(8)) :
            /\ returned' = [returned EXCEPT !.code = code]
            /\ result' = [result EXCEPT !.code = Convert(code, SInt(1))]
      BY <2>3 DEF Process
    <3>2. returned'.code = code /\ result'.code = Convert(code, SInt(1)) /\ code \in Int
      BY <2>1, <2>2, <3>1 DEF NothingYet
    <3>3. QED
      BY <1>1, <2>3, <3>2 DEF ResultInv, Done
  <2>4. CASE kind = "quota"
    <3>1. PICK code, quota \in Returns(SInt(2)), chunks \in Returns(SInt(8)) :
            /\ returned' = [code |-> code, quota |-> quota, chunks |-> chunks]
            /\ result' = [code   |-> Convert(code, SInt(1)),
                          quota  |-> Convert(quota, SInt(1)),
                          chunks |-> chunks]
      BY <2>4 DEF Process
    <3>2. code \in Int /\ quota \in Int /\ chunks \in Int
      BY <2>2
    <3>3. QED
      BY <1>1, <2>4, <3>1, <3>2 DEF ResultInv, Done
  <2>5. CASE kind = "callFinish"
    <3>1. PICK quota \in Returns(SInt(8)) :
            /\ returned' = [returned EXCEPT !.quota = quota]
            /\ result' = [result EXCEPT !.code = OPERATION_SUCCESS, !.quota = quota]
      BY <2>5 DEF Process
    <3>2. /\ returned'.quota = quota /\ result'.quota = quota
          /\ result'.code = OPERATION_SUCCESS /\ quota \in Int
      BY <2>1, <2>2, <3>1 DEF NothingYet
    <3>3. QED
      BY <1>1, <2>5, <3>2 DEF ResultInv, Done
  <2>6. QED
    BY <1>1, <2>3, <2>4, <2>5 DEF Kinds
<1>7. QED
  BY <1>3, <1>4, <1>5, <1>6 DEF ParamsInv

\* The answer and the record of a processed request.
LEMMA ReportStep ==
  ASSUME ParamsInv, SendResultToClient \/ LogToKafka
  PROVE  ParamsInv'
<1>1. /\ kind' = kind /\ next' = next
      /\ UNCHANGED <<attrs, field, args, returned, result>>
      /\ stage \in {"processed", "answered"} /\ stage' \in {"answered", "logged"}
      /\ kind \in Kinds /\ Len(Params(kind)) \in Nat
  BY ParamsShape DEF ParamsInv, ShapeInv, SendResultToClient, LogToKafka
<1>2. \/ /\ stage = "processed" /\ stage' = "answered"
         /\ answer' = ResultAnswer(kind, result) /\ cdr' = cdr
      \/ /\ stage = "answered" /\ stage' = "logged" /\ answer' = answer
         /\ cdr' = IF LogsCdr(kind, Outcome) THEN Record ELSE Missing
  BY DEF SendResultToClient, LogToKafka, Record
<1>3. ShapeInv' /\ ReadInv'
  BY <1>1 DEF ShapeInv, ReadInv, ParamsInv, Stages, Done, Found
<1>4. FieldInv'
  BY <1>1 DEF FieldInv, ParamsInv, Done
<1>5. ArgsInv' /\ ResultInv'
  BY <1>1 DEF ArgsInv, ResultInv, ParamsInv, Done
<1>6. AnswerInv'
  BY <1>1, <1>2 DEF AnswerInv, ParamsInv
<1>7. CdrInv'
  <2>1. Outcome' = Outcome /\ Record' = Record
    BY <1>1 DEF Outcome, Record, RecordedResult, TotalDurationSeconds
  <2>2. QED
    BY <1>1, <1>2, <2>1 DEF CdrInv, ParamsInv
<1>8. QED
  BY <1>3, <1>4, <1>5, <1>6, <1>7 DEF ParamsInv

\* The invariant holds in every reachable state.
THEOREM ParamsInvariant ==
  Spec => []ParamsInv
<1>1. Init => ParamsInv
  BY InvInit
<1>2. ParamsInv /\ [Next]_vars => ParamsInv'
  <2> SUFFICES ASSUME ParamsInv, [Next]_vars
               PROVE  ParamsInv'
    OBVIOUS
  <2>1. CASE \E i \in DOMAIN Params(kind) :
               \E a \in Sent[Params(kind)[i].attr] \cup {Missing} :
                 SetParam(Params(kind)[i], a) \/ FailParam(Params(kind)[i], a)
    BY <2>1, SetParamStep, FailParamStep
  <2>2. CASE Accept \/ SendNotAcceptedResponse
    BY <2>2, VerdictStep
  <2>3. CASE Process
    BY <2>3, ProcessStep
  <2>4. CASE SendResultToClient \/ LogToKafka
    BY <2>4, ReportStep
  <2>5. CASE UNCHANGED vars
    BY <2>5 DEF vars, ParamsInv, ShapeInv, ReadInv, Found, FieldInv, ArgsInv, ResultInv,
                AnswerInv, CdrInv, Record, Outcome, RecordedResult, TotalDurationSeconds
  <2>6. QED
    BY <2>1, <2>2, <2>3, <2>4, <2>5 DEF Next
<1>3. QED
  BY <1>1, <1>2, PTL DEF Spec

-----------------------------------------------------------------------------
(* What the invariant says of a processed request.                         *)

\* Each parameter of a processed request was found and set, and its field holds a
\* number.
LEMMA ProcessedParams ==
  ASSUME ParamsInv, stage \in Done, NEW j \in DOMAIN Params(kind)
  PROVE  LET p == Params(kind)[j]
         IN /\ GoodParam(p, kind) /\ p.attr \in Fields
            /\ Found(p) /\ Sets(p, attrs[p.attr])
            /\ p.attr # "VLD_IMSI" => field[p.attr] = Stored(p, attrs[p.attr])
            /\ field[p.attr] \in Int /\ Fits(field[p.attr], p.type)
<1> DEFINE p == Params(kind)[j]
<1>1. /\ kind \in Kinds /\ j \in Nat /\ j < next /\ GoodParam(p, kind) /\ p.attr \in Fields
  BY ParamsShape, ParamsGood DEF ParamsInv, ShapeInv
<1>2. Found(p) /\ Sets(p, attrs[p.attr])
  BY <1>1 DEF ParamsInv, ReadInv
<1>3. IF p.attr = "VLD_IMSI" THEN field[p.attr] \in Int /\ Fits(field[p.attr], p.type)
                             ELSE field[p.attr] = Stored(p, attrs[p.attr])
  BY <1>1 DEF ParamsInv, FieldInv
<1>4. Stored(p, attrs[p.attr]) \in Int /\ Fits(Stored(p, attrs[p.attr]), p.type)
  BY <1>1, <1>2, StoredFits DEF Found
<1>5. QED
  BY <1>1, <1>2, <1>3, <1>4

\* The fields the record is made of hold numbers.
LEMMA RecordFields ==
  ASSUME ParamsInv, stage \in Done, NEW f \in DOMAIN CdrType(kind)
  PROVE  /\ field[f] \in Int /\ Convert(field[f], CdrType(kind)[f]) \in Int
         /\ Fits(Convert(field[f], CdrType(kind)[f]), CdrType(kind)[f])
<1>1. kind \in Kinds
  BY DEF ParamsInv, ShapeInv
<1>2. GoodRecordField(f, CdrType(kind)[f], Params(kind), kind)
  BY <1>1, CdrShape
<1>3. field[f] \in Int
  <2>1. CASE \E j \in DOMAIN Params(kind) : Params(kind)[j].attr = f
    BY <2>1, ProcessedParams
  <2>2. CASE kind = "callFinish" /\ f \in {"CAMEL_CALLING_PARTY", "CAMEL_CALLED_PARTY"}
    BY <2>2 DEF ParamsInv, FieldInv
  <2>3. \/ \E j \in DOMAIN Params(kind) : Params(kind)[j].attr = f
        \/ kind = "callFinish" /\ f \in {"CAMEL_CALLING_PARTY", "CAMEL_CALLED_PARTY"}
    BY <1>2 DEF GoodRecordField
  <2>4. QED
    BY <2>1, <2>2, <2>3
<1>4. CdrType(kind)[f] \in IntTypes \cup {Text}
  BY <1>2 DEF GoodRecordField
<1>5. QED
  BY <1>3, <1>4, ConvertGives

\* The results are numbers, the codes and quotas of one byte.
LEMMA ResultNumbers ==
  ASSUME ParamsInv, stage \in Done
  PROVE  /\ result.code \in Int
         /\ kind # "callFinish" => /\ returned.code \in Int
                                   /\ result.code = Convert(returned.code, SInt(1))
                                   /\ Fits(result.code, SInt(1))
         /\ kind # "sms" => returned.quota \in Int /\ result.quota \in Int
         /\ kind = "quota" => /\ result.quota = Convert(returned.quota, SInt(1))
                              /\ Fits(result.quota, SInt(1))
                              /\ result.chunks \in Int /\ result.chunks = returned.chunks
<1>1. SInt(1) \in IntTypes
  BY IntTypesHave DEF Widths
<1>2. kind \in Kinds
  BY DEF ParamsInv, ShapeInv
<1>3. CASE kind = "sms"
  BY <1>1, <1>3, ConvertFits DEF ParamsInv, ResultInv
<1>4. CASE kind = "quota"
  BY <1>1, <1>4, ConvertFits DEF ParamsInv, ResultInv
<1>5. CASE kind = "callFinish"
  BY <1>5 DEF ParamsInv, ResultInv, OPERATION_SUCCESS
<1>6. QED
  BY <1>2, <1>3, <1>4, <1>5 DEF Kinds

\* The duration of a finished call is a number, and so is its record's.
LEMMA DurationNumber ==
  ASSUME ParamsInv, stage \in Done
  PROVE  /\ kind = "callFinish" => /\ field["CAMEL_TOTAL_DURATION"] \in Int
                                   /\ Tenth(field["CAMEL_TOTAL_DURATION"]) \in Int
         /\ TotalDurationSeconds \in Int
<1>1. CASE kind = "callFinish"
  <2>1. /\ Params(kind) = CallFinishParams
    BY <1>1 DEF Params
  <2>2. 4 \in DOMAIN Params(kind) /\ Params(kind)[4].attr = "CAMEL_TOTAL_DURATION"
    BY <2>1, CallFinishRows
  <2>3. field["CAMEL_TOTAL_DURATION"] \in Int
    BY <2>2, ProcessedParams
  <2>4. \A d \in Int : Tenth(d) \in Int
    BY DEF Tenth
  <2>5. SInt(4) \in IntTypes
    BY IntTypesHave DEF Widths
  <2>6. QED
    BY <1>1, <2>3, <2>4, <2>5, ConvertFits DEF TotalDurationSeconds
<1>2. CASE kind # "callFinish"
  BY <1>2 DEF TotalDurationSeconds
<1>3. QED
  BY <1>1, <1>2

\* The record is a record.
LEMMA RecordType ==
  ASSUME ParamsInv, stage \in Done
  PROVE  Record \in Records
<1>1. kind \in Kinds
  BY DEF ParamsInv, ShapeInv
<1>2. Record.fields \in [DOMAIN CdrType(kind) -> Int]
  BY RecordFields DEF Record
<1>3. CdrType(kind) \in {SMS_CDR, Call_CDR}
  BY DEF CdrType
<1>4. Record.fields \in [DOMAIN SMS_CDR -> Int] \cup [DOMAIN Call_CDR -> Int]
  BY <1>2, <1>3
<1>5. Record.result \in Int
  <2>1. RecordedResult \in Int
    BY <1>1, ResultNumbers DEF RecordedResult, Kinds
  <2>2. SInt(4) \in IntTypes
    BY IntTypesHave DEF Widths
  <2>3. QED
    BY <2>1, <2>2, ConvertFits DEF Record
<1>6. Record.seconds \in Int
  BY DurationNumber DEF Record
<1>7. QED
  BY <1>4, <1>5, <1>6 DEF Record, Records

\* The refusal is one of the answers.
LEMMA RefusalType ==
  RefusalAnswer \in Answers
<1>1. Wire(BAD_REQUEST, 4) \in Attributes
  <2>1. UInt(4) \in IntTypes /\ UInt(4).bytes = 4 /\ BAD_REQUEST \in Int
    BY IntTypesHave DEF Widths, BAD_REQUEST
  <2>2. QED
    BY <2>1, WireIsRead
<1>2. QED
  BY <1>1 DEF RefusalAnswer, Answers

\* So is a response to a processed request.
LEMMA AnswerType ==
  ASSUME ParamsInv, stage \in Done
  PROVE  ResultAnswer(kind, result) \in Answers
<1>1. kind \in Kinds
  BY DEF ParamsInv, ShapeInv
<1>2. \A v \in Int : \A n \in Widths : Wire(v, n) \in Attributes
  BY WireIsRead, IntTypesHave
<1>3. ResponseType(kind) \in {"VALIDATEEX_RESP", "QUOTA_RESP", "CALL_FINISH_ACK"}
  BY <1>1 DEF ResponseType, Kinds
<1>4. Wire(result.code, ResultBytes(kind)) \in Attributes
  BY <1>2, ResultNumbers DEF ResultBytes, Widths
<1>5. kind = "quota" => Wire(result.quota, 1) \in Attributes /\ Wire(result.chunks, 4) \in Attributes
  BY <1>2, ResultNumbers DEF Widths
<1>6. QED
  BY <1>3, <1>4, <1>5 DEF ResultAnswer, Answers

\* ParamOf finds the parameter of an attribute.
LEMMA ParamOfAttr ==
  ASSUME ParamsInv, NEW j \in DOMAIN Params(kind)
  PROVE  ParamOf(Params(kind)[j].attr) = Params(kind)[j]
<1> DEFINE ps == {Params(kind)[i] : i \in DOMAIN Params(kind)}
           p == Params(kind)[j]
<1>1. p \in ps /\ kind \in Kinds
  BY DEF ParamsInv, ShapeInv
<1>2. \A q \in ps : q.attr = p.attr => q = p
  BY <1>1, ParamsDiffer
<1>3. ParamOf(p.attr) = CHOOSE q \in ps : q.attr = p.attr
  BY DEF ParamOf
<1> HIDE DEF ps, p
<1>4. (CHOOSE q \in ps : q.attr = p.attr) = p
  BY <1>1, <1>2
<1>5. QED
  BY <1>3, <1>4 DEF p

\* The client reads the numbers the class sent.
LEMMA ReadsResult ==
  ASSUME ParamsInv, stage \in {"answered", "logged"}, kind # "callFinish"
  PROVE  LET reads == ClientReads(answer)
         IN /\ reads.code = result.code
            /\ kind = "quota" =>
                 /\ reads.quota = IF result.code = OPERATION_SUCCESS THEN result.quota ELSE Missing
                 /\ reads.chunks = IF result.code = OPERATION_SUCCESS /\ result.chunks > 0
                                     THEN Convert(result.chunks, UInt(4)) ELSE Missing
<1>1. /\ kind \in Kinds /\ stage \in Done /\ answer = ResultAnswer(kind, result)
  BY DEF ParamsInv, ShapeInv, AnswerInv, Done
<1>2. /\ SInt(1) \in IntTypes /\ SInt(4) \in IntTypes /\ UInt(4) \in IntTypes
      /\ SInt(1).bytes = 1 /\ SInt(4).bytes = 4 /\ UInt(4).bytes = 4
      /\ SInt(1).signed = SInt(4).signed
  <2>1. SInt(1).signed = SInt(4).signed
    BY DEF SInt
  <2>2. QED
    BY <2>1, IntTypesHave DEF Widths
<1>3. /\ result.code \in Int /\ Fits(result.code, SInt(1)) /\ Fits(result.code, SInt(4))
  <2>1. result.code \in Int /\ Fits(result.code, SInt(1))
    BY <1>1, ResultNumbers
  <2>2. QED
    BY <1>2, <2>1, FitsWider
<1>4. \A v \in Int :
        /\ Read(Wire(v, 1), SInt(1)) = Convert(v, SInt(1)) /\ Wire(v, 1) # Missing
        /\ Read(Wire(v, 4), SInt(4)) = Convert(v, SInt(4)) /\ Wire(v, 4) # Missing
        /\ Read(Wire(v, 4), UInt(4)) = Convert(v, UInt(4))
  <2> TAKE v \in Int
  <2>1. /\ Read(Wire(v, 1), SInt(1)) = Convert(v, SInt(1)) /\ Wire(v, 1) \in Attributes
    BY <1>2, WireIsRead
  <2>2. /\ Read(Wire(v, 4), SInt(4)) = Convert(v, SInt(4)) /\ Wire(v, 4) \in Attributes
    BY <1>2, WireIsRead
  <2>3. /\ Read(Wire(v, 4), UInt(4)) = Convert(v, UInt(4))
    BY <1>2, WireIsRead
  <2>4. QED
    BY <2>1, <2>2, <2>3, ValueAssumption
<1>5. CASE kind = "sms"
  <2>1. /\ answer.type = "VALIDATEEX_RESP" /\ answer.code = Wire(result.code, 4)
    BY <1>1, <1>5 DEF ResultAnswer, ResponseType, ResultBytes
  <2>2. ClientReads(answer).code = Read(Wire(result.code, 4), SInt(4))
    BY <1>3, <1>4, <2>1 DEF ClientReads
  <2>3. QED
    BY <1>3, <1>4, <1>5, <2>2 DEF Fits
<1>6. CASE kind = "quota"
  <2>1. /\ answer.type = "QUOTA_RESP" /\ answer.code = Wire(result.code, 1)
        /\ answer.quota = IF result.code = OPERATION_SUCCESS THEN Wire(result.quota, 1) ELSE Missing
        /\ answer.chunks = IF result.code = OPERATION_SUCCESS /\ result.chunks > 0
                             THEN Wire(result.chunks, 4) ELSE Missing
    BY <1>1, <1>6 DEF ResultAnswer, ResponseType, ResultBytes
  <2>2. /\ result.quota \in Int /\ Fits(result.quota, SInt(1)) /\ result.chunks \in Int
    BY <1>1, <1>6, ResultNumbers
  <2>3. ClientReads(answer).code = Read(Wire(result.code, 1), SInt(1))
    BY <1>3, <1>4, <2>1 DEF ClientReads
  <2>4. ClientReads(answer).quota =
          IF result.code = OPERATION_SUCCESS THEN Read(Wire(result.quota, 1), SInt(1)) ELSE Missing
    BY <1>4, <2>1, <2>2 DEF ClientReads
  <2>5. ClientReads(answer).chunks =
          IF result.code = OPERATION_SUCCESS /\ result.chunks > 0
            THEN Read(Wire(result.chunks, 4), UInt(4)) ELSE Missing
    BY <1>4, <2>1, <2>2 DEF ClientReads
  <2>6. QED
    BY <1>3, <1>4, <1>6, <2>2, <2>3, <2>4, <2>5 DEF Fits
<1>7. QED
  BY <1>1, <1>5, <1>6 DEF Kinds

-----------------------------------------------------------------------------
(* The theorems.                                                           *)

\* In every state every variable of a request has its type, and every number that
\* went through a conversion fits the type the code declares.
THEOREM ParamsTypes ==
  Spec => []ParamsTypeOK
<1>1. ASSUME ParamsInv
      PROVE  ParamsTypeOK
  <2>1. /\ kind \in Kinds /\ stage \in Stages /\ next \in 1 .. Len(Params(kind)) + 1
        /\ Len(Params(kind)) \in Nat /\ DOMAIN Params(kind) = 1 .. Len(Params(kind))
    BY <1>1, ParamsShape DEF ParamsInv, ShapeInv
  <2>2. ASSUME NEW i \in 1 .. next - 1
        PROVE  LET p == Params(kind)[i]
               IN field[p.attr] # Unset /\ Fits(field[p.attr], p.type)
    <3> DEFINE p == Params(kind)[i]
    <3>1. i \in DOMAIN Params(kind) /\ i < next
      BY <2>1
    <3>2. GoodParam(p, kind) /\ Found(p) /\ Sets(p, attrs[p.attr])
      BY <1>1, <2>1, <3>1, ParamsGood DEF ParamsInv, ReadInv
    <3>3. Stored(p, attrs[p.attr]) \in Int /\ Fits(Stored(p, attrs[p.attr]), p.type)
      BY <2>1, <3>2, StoredFits DEF Found
    <3>4. \/ field[p.attr] \in Int /\ Fits(field[p.attr], p.type)
          \/ field[p.attr] = Stored(p, attrs[p.attr])
      BY <1>1, <3>1 DEF ParamsInv, FieldInv
    <3>5. QED
      BY <3>3, <3>4, ValueAssumption
  <2>3. ASSUME NEW f \in Fields
        PROVE  attrs[f] \in Sent[f] \cup {Missing, Unset}
    <3>1. attrs[f] = Unset \/ \E i \in DOMAIN Params(kind) : Params(kind)[i].attr = f
      BY <1>1 DEF ParamsInv, ReadInv
    <3>2. ASSUME NEW i \in DOMAIN Params(kind), Params(kind)[i].attr = f
          PROVE  Found(Params(kind)[i]) \/ attrs[f] = Unset
      BY <1>1, <2>1, <3>2 DEF ParamsInv, ReadInv
    <3>3. QED
      BY <3>1, <3>2 DEF Found
  <2>4. ASSUME stage \in Done
        PROVE  Len(args) = Len(Binds(kind)) /\ Outcome \in DbResults(kind)
    <3>1. Outcome \in DbResults(kind)
      <4>1. CASE kind = "sms"
        BY <4>1 DEF Outcome, DbResults, SmsResults, Codes
      <4>2. CASE kind = "quota"
        BY <4>2 DEF Outcome, DbResults, QuotaReqResults, Codes, QuotaResults
      <4>3. CASE kind = "callFinish"
        BY <1>1, <2>4, <4>3 DEF Outcome, DbResults, CallFinishResults, ParamsInv, ResultInv
      <4>4. QED
        BY <2>1, <4>1, <4>2, <4>3 DEF Kinds
    <3>2. QED
      BY <1>1, <2>4, <3>1 DEF ParamsInv, ArgsInv
  <2>5. ASSUME NEW i \in DOMAIN args
        PROVE  args[i] = Unset \/ Fits(args[i], Binds(kind)[i].type)
    <3>1. stage \in Done
      BY <1>1 DEF ParamsInv, ArgsInv
    <3>2. i \in DOMAIN Binds(kind) /\ GoodBind(Binds(kind)[i], Placeholders(kind)[i], kind)
      <4>1. args \in Seq(Int \cup {Unset}) /\ Len(args) = Len(Binds(kind))
        BY <1>1, <3>1 DEF ParamsInv, ArgsInv
      <4>2. QED
        BY <2>1, <4>1, BindsShape, LenProperties
    <3>3. ASSUME NEW j \in DOMAIN Params(kind), Params(kind)[j].attr = Binds(kind)[i].attr
          PROVE  Fits(Convert(Stored(Params(kind)[j], attrs[Binds(kind)[i].attr]),
                              Binds(kind)[i].type), Binds(kind)[i].type)
      <4>1. Keeps(Params(kind)[j].type, Binds(kind)[i].type)
        <5>1. \/ \E l \in DOMAIN Params(kind) :
                   /\ Params(kind)[l].attr = Binds(kind)[i].attr
                   /\ Keeps(Params(kind)[l].type, Binds(kind)[i].type)
              \/ kind = "callFinish" /\ Binds(kind)[i].attr = "CAMEL_SERVICE_KEY"
          BY <3>2 DEF GoodBind
        <5>2. GoodParam(Params(kind)[j], kind)
          BY <2>1, ParamsGood
        <5>3. ~(kind = "callFinish" /\ Binds(kind)[i].attr = "CAMEL_SERVICE_KEY")
          BY <3>3, <5>2 DEF GoodParam
        <5>4. QED
          BY <2>1, <3>3, <5>1, <5>3, ParamsDiffer
      <4>2. /\ GoodParam(Params(kind)[j], kind) /\ Found(Params(kind)[j])
            /\ Sets(Params(kind)[j], attrs[Params(kind)[j].attr])
        BY <1>1, <3>1, ProcessedParams
      <4>3. Stored(Params(kind)[j], attrs[Binds(kind)[i].attr]) \in Int
        BY <2>1, <3>3, <4>2, StoredFits DEF Found
      <4>4. Binds(kind)[i].type \in IntTypes \cup {Text}
        BY <4>1 DEF Keeps
      <4>5. QED
        BY <4>3, <4>4, ConvertGives
    <3>4. \/ args[i] = Unset
          \/ \E j \in DOMAIN Params(kind) :
               /\ Params(kind)[j].attr = Binds(kind)[i].attr
               /\ args[i] = Convert(Stored(Params(kind)[j], attrs[Binds(kind)[i].attr]),
                                    Binds(kind)[i].type)
      BY <1>1, <3>1, <3>2 DEF ParamsInv, ArgsInv
    <3>5. QED
      BY <3>3, <3>4
  <2>6. answer \in IF stage \in {"refused", "answered", "logged"} THEN Answers ELSE {Missing}
    <3>1. RefusalAnswer \in Answers
      BY RefusalType
    <3>2. stage \in {"answered", "logged"} => ResultAnswer(kind, result) \in Answers
      BY <1>1, AnswerType DEF Done
    <3>3. QED
      BY <1>1, <3>1, <3>2 DEF ParamsInv, AnswerInv
  <2>7. /\ cdr \in Records \cup {Missing}
        /\ cdr # Missing =>
             \A f \in DOMAIN CdrType(kind) : Fits(cdr.fields[f], CdrType(kind)[f])
    <3>1. CASE cdr = Missing
      BY <3>1
    <3>2. CASE cdr # Missing
      <4>1. cdr = Record /\ stage \in Done
        BY <1>1, <3>2 DEF ParamsInv, CdrInv, Done
      <4>2. Record \in Records
        BY <1>1, <4>1, RecordType
      <4>3. \A f \in DOMAIN CdrType(kind) : Fits(Record.fields[f], CdrType(kind)[f])
        BY <1>1, <4>1, RecordFields DEF Record
      <4>4. QED
        BY <4>1, <4>2, <4>3
    <3>3. QED
      BY <3>1, <3>2
  <2>8. QED
    BY <2>1, <2>2, <2>3, <2>4, <2>5, <2>6, <2>7 DEF ParamsTypeOK, Done
<1>2. QED
  BY <1>1, ParamsInvariant, PTL

\* The stored procedure of every class gets, in the place of each parameter, the
\* number the client sent, or the default of the one parameter it may leave out;
\* only a CAMEL attribute longer than its field loses its high bytes.
THEOREM ArgumentsSent ==
  Spec => []ArgumentsAreSent
<1>1. ASSUME ParamsInv
      PROVE  ArgumentsAreSent
  <2>1. ASSUME NEW i \in DOMAIN args, args[i] # Unset
        PROVE  LET f == Placeholders(kind)[i]
                   a == attrs[f]
               IN \/ a = Missing /\ f = "VLD_IMSI" /\ args[i] = NotGiven
                  \/ /\ a \in Sent[f]
                     /\ \/ ParamOf(f).type = Text /\ args[i] = a.value
                        \/ Convert(args[i], UInt(a.size)) = a.value
                        \/ kind # "sms" /\ a.size > ParamOf(f).type.bytes
    <3> DEFINE f == Placeholders(kind)[i]
               b == Binds(kind)[i]
               a == attrs[f]
    <3>1. stage \in Done /\ kind \in Kinds
      BY <1>1 DEF ParamsInv, ArgsInv, ShapeInv
    <3>2. i \in DOMAIN Binds(kind) /\ GoodBind(b, f, kind) /\ b.attr = f
      <4>1. args \in Seq(Int \cup {Unset}) /\ Len(args) = Len(Binds(kind))
        BY <1>1, <3>1 DEF ParamsInv, ArgsInv
      <4>2. QED
        BY <3>1, <4>1, BindsShape, LenProperties DEF GoodBind
    <3>3. PICK j \in DOMAIN Params(kind) :
            /\ Params(kind)[j].attr = f
            /\ args[i] = Convert(Stored(Params(kind)[j], a), b.type)
      BY <1>1, <2>1, <3>1, <3>2 DEF ParamsInv, ArgsInv
    <3> DEFINE p == Params(kind)[j]
    <3>4. /\ GoodParam(p, kind) /\ a \in Sent[f] \cup {Missing} /\ Sets(p, a)
      BY <1>1, <3>1, <3>3, ProcessedParams DEF Found
    <3>5. ParamOf(f) = p
      BY <1>1, <3>3, ParamOfAttr
    <3>6. Keeps(p.type, b.type)
      <4>1. \/ \E l \in DOMAIN Params(kind) :
                 Params(kind)[l].attr = f /\ Keeps(Params(kind)[l].type, b.type)
            \/ kind = "callFinish" /\ f = "CAMEL_SERVICE_KEY"
        BY <3>2 DEF GoodBind
      <4>2. ~(kind = "callFinish" /\ f = "CAMEL_SERVICE_KEY")
        BY <3>3, <3>4 DEF GoodParam
      <4>3. QED
        BY <3>1, <3>3, <4>1, <4>2, ParamsDiffer
    <3>7. CASE a = Missing
      <4>1. p.set = "optional" /\ f = "VLD_IMSI"
        BY <3>3, <3>4, <3>7 DEF Sets, IsInt, GoodParam
      <4>2. b.type \in IntTypes \cup {Text} /\ Stored(p, a) = 0
        BY <3>6, <3>7 DEF Keeps, Stored, NotGiven
      <4>3. args[i] = NotGiven
        BY <3>3, <4>2, ZeroFits DEF NotGiven
      <4>4. QED
        BY <3>7, <4>1, <4>3
    <3>8. CASE a \in Sent[f]
      <4> HIDE DEF a, b, f, p
      <4>1. a \in Sent[p.attr]
        BY <3>3, <3>8 DEF p
      <4>2. \/ p.type = Text /\ args[i] = a.value
            \/ Convert(args[i], UInt(a.size)) = a.value
            \/ kind # "sms" /\ a.size > p.type.bytes
        BY <3>1, <3>3, <3>4, <3>6, <4>1, SentIsRead DEF p
      <4>3. QED
        BY <3>5, <3>8, <4>2 DEF a, f
    <3>9. QED
      BY <3>4, <3>7, <3>8
  <2>2. QED
    BY <2>1 DEF ArgumentsAreSent
<1>2. QED
  BY <1>1, ParamsInvariant, PTL

\* No request with the attributes of the test client is rejected, and an SMS is
\* accepted with no others.
THEOREM TesterAccepted ==
  Spec => []TesterRequestsAccepted
<1>1. ASSUME ParamsInv
      PROVE  TesterRequestsAccepted
  <2>1. kind \in Kinds /\ DOMAIN Params(kind) = 1 .. Len(Params(kind)) /\ Len(Params(kind)) \in Nat
    BY <1>1, ParamsShape DEF ParamsInv, ShapeInv
  <2>2. ASSUME stage = "rejected", LikeTester
        PROVE  FALSE
    <3> DEFINE p == Params(kind)[next]
               a == attrs[p.attr]
    <3>1. next \in DOMAIN Params(kind)
      BY <1>1, <2>1, <2>2 DEF ParamsInv, ShapeInv
    <3>2. /\ GoodParam(p, kind) /\ p.attr \in Fields
          /\ a \in Sent[p.attr] \cup {Missing} /\ ~Sets(p, a)
      BY <1>1, <2>1, <2>2, <3>1, ParamsGood DEF ParamsInv, ReadInv, Found
    <3>3. a # Unset
      BY <3>2, SentIsThere, ValueAssumption
    <3>4. \/ a = Missing /\ p.attr = "VLD_IMSI"
          \/ a # Missing /\ TesterLengths[p.attr] \in {0, a.size}
      BY <2>2, <3>2, <3>3 DEF LikeTester
    <3> HIDE DEF a, p
    <3>5. CASE p.set = "string"
      BY <3>2, <3>4, <3>5 DEF Sets, GoodParam
    <3>6. CASE p.set # "string" /\ a # Missing
      <4>1. a.size = TesterLengths[p.attr] /\ a.size \in Widths
        BY <3>2, <3>4, <3>6 DEF GoodParam, Widths
      <4>2. p.size = 0 \/ a.size = p.size
        BY <3>2, <3>6, <4>1 DEF GoodParam
      <4>3. IsInt(p, a)
        BY <3>6, <4>1, <4>2 DEF IsInt, Widths
      <4>4. QED
        BY <3>2, <3>6, <4>3 DEF Sets, GoodParam
    <3>7. CASE a = Missing /\ p.attr = "VLD_IMSI"
      BY <3>2, <3>7 DEF Sets, GoodParam
    <3>8. QED
      BY <3>4, <3>5, <3>6, <3>7
  <2>3. ASSUME stage = "accepted", kind = "sms", NEW f \in Fields, attrs[f] # Unset
        PROVE  \/ attrs[f] = Missing /\ f = "VLD_IMSI"
               \/ attrs[f] # Missing /\ TesterLengths[f] \in {0, attrs[f].size}
    <3>1. PICK j \in DOMAIN Params(kind) : Params(kind)[j].attr = f
      BY <1>1, <2>3 DEF ParamsInv, ReadInv
    <3> DEFINE p == Params(kind)[j]
               a == attrs[f]
    <3>2. GoodParam(p, kind) /\ Sets(p, a)
      <4>1. j < next /\ j \in Nat
        BY <1>1, <2>1, <2>3, <3>1 DEF ParamsInv, ShapeInv
      <4>2. QED
        BY <1>1, <2>1, <3>1, <4>1, ParamsGood DEF ParamsInv, ReadInv
    <3>3. p.attr = f
      BY <3>1
    <3> HIDE DEF a, p
    <3>4. CASE p.set = "string"
      BY <3>2, <3>3, <3>4 DEF Sets, GoodParam, a
    <3>5. CASE a = Missing /\ p.set # "string"
      BY <3>2, <3>3, <3>5 DEF Sets, IsInt, GoodParam, a
    <3>6. CASE p.set # "string" /\ a # Missing
      <4>1. IsInt(p, a)
        BY <3>2, <3>6 DEF Sets, GoodParam
      <4>2. p.size = TesterLengths[f] /\ p.size # 0
        BY <2>3, <3>2, <3>3, <3>6 DEF GoodParam, Widths
      <4>3. a.size = TesterLengths[f]
        BY <4>1, <4>2 DEF IsInt
      <4>4. QED
        BY <3>6, <4>3 DEF a
    <3>7. QED
      BY <3>4, <3>5, <3>6
  <2>4. QED
    BY <2>2, <2>3 DEF TesterRequestsAccepted, LikeTester
<1>2. QED
  BY <1>1, ParamsInvariant, PTL

\* What the client reads in an answer is what the database decided.
THEOREM AnswerTellsResult ==
  Spec => []AnswerMeansResult
<1>1. ASSUME ParamsInv
      PROVE  AnswerMeansResult
  <2>1. ASSUME stage = "refused"
        PROVE  ClientReads(answer).code = BAD_REQUEST
    <3>1. SInt(4) \in IntTypes /\ SInt(4).bytes = 4 /\ SInt(4).signed /\ BAD_REQUEST \in Int
      BY IntTypesHave DEF Widths, BAD_REQUEST
    <3>2. Read(Wire(BAD_REQUEST, 4), SInt(4)) = Convert(BAD_REQUEST, SInt(4))
      BY <3>1, WireIsRead
    <3>3. Wire(BAD_REQUEST, 4) # Missing
      BY <3>1, WireIsRead, ValueAssumption
    <3>4. answer = RefusalAnswer
      BY <1>1, <2>1 DEF ParamsInv, AnswerInv
    <3>5. ClientReads(answer).code = Read(Wire(BAD_REQUEST, 4), SInt(4))
      BY <3>3, <3>4 DEF ClientReads, RefusalAnswer
    <3>6. Fits(BAD_REQUEST, SInt(4))
      <4>1. ByteValues[4] \in Nat /\ ByteValues[4] >= 256
        <5>1. \A x \in Nat : x >= 4 => x * x \in Nat /\ x * x >= 16
          OBVIOUS
        <5>2. \A x \in Nat : x >= 16 => x * x \in Nat /\ x * x >= 256
          OBVIOUS
        <5>3. QED
          BY <5>1, <5>2, Powers, ByteAssumption
      <4>2. InRange(BAD_REQUEST, SInt(4))
        BY <3>1, <4>1 DEF InRange, BAD_REQUEST
      <4>3. QED
        BY <3>1, <4>2, FitsInRange
    <3>7. QED
      BY <3>2, <3>5, <3>6 DEF Fits
  <2>2. ASSUME stage = "answered", kind # "callFinish"
        PROVE  LET reads == ClientReads(answer)
               IN /\ reads.code = result.code /\ result.code \in Int
                  /\ result.code = Convert(returned.code, SInt(1))
                  /\ kind = "quota" =>
                       /\ reads.quota = IF result.code = OPERATION_SUCCESS THEN result.quota ELSE Missing
                       /\ reads.chunks = IF result.code = OPERATION_SUCCESS /\ result.chunks > 0
                                           THEN Convert(result.chunks, UInt(4)) ELSE Missing
                       /\ result.quota \in Int /\ result.quota = Convert(returned.quota, SInt(1))
                       /\ result.chunks \in Int /\ result.chunks = returned.chunks
                       /\ Convert(result.chunks, UInt(4)) \in Int
    <3>1. stage \in Done /\ stage \in {"answered", "logged"}
      BY <2>2 DEF Done
    <3>2. UInt(4) \in IntTypes
      BY IntTypesHave DEF Widths
    <3>3. kind = "quota" => result.chunks \in Int /\ Convert(result.chunks, UInt(4)) \in Int
      BY <1>1, <3>1, <3>2, ResultNumbers, ConvertFits
    <3>4. QED
      BY <1>1, <2>2, <3>1, <3>3, ReadsResult, ResultNumbers
  <2>3. Missing \notin Int
    BY ValueAssumption
  <2>4. stage = "answered" /\ kind # "callFinish" /\ Fits(returned.code, SInt(1)) =>
          ClientReads(answer).code = returned.code
    BY <2>2 DEF Fits
  <2>5. ASSUME stage = "answered", kind = "quota"
        PROVE  LET reads == ClientReads(answer)
               IN /\ (reads.quota # Missing) <=> (reads.code = OPERATION_SUCCESS)
                  /\ reads.quota # Missing /\ Fits(returned.quota, SInt(1)) =>
                       reads.quota = returned.quota
                  /\ (reads.chunks # Missing) <=>
                       (reads.code = OPERATION_SUCCESS /\ returned.chunks > 0)
                  /\ reads.chunks # Missing /\ Fits(returned.chunks, UInt(4)) =>
                       reads.chunks = returned.chunks
    BY <2>2, <2>3, <2>5 DEF Fits
  <2>6. QED
    BY <2>1, <2>4, <2>5 DEF AnswerMeansResult
<1>2. QED
  BY <1>1, ParamsInvariant, PTL

\* The record agrees with the answer the client reads and the request it sent.
THEOREM CdrAgrees ==
  Spec => []CdrAgreesWithAnswer
<1>1. ASSUME ParamsInv, stage = "logged"
      PROVE  LET reads    == ClientReads(answer)
                 duration == field["CAMEL_TOTAL_DURATION"]
             IN /\ kind = "quota" =>
                     (cdr # Missing) <=> (reads.code = OPERATION_SUCCESS /\ reads.quota \notin {0, 1})
                /\ cdr # Missing =>
                     /\ kind = "sms" => cdr.result = reads.code
                     /\ kind = "quota" => cdr.result = reads.quota
                     /\ kind = "callFinish" /\ Fits(returned.quota, SInt(4)) =>
                          cdr.result = returned.quota
                     /\ \A f \in DOMAIN cdr.fields \ {"VLD_IMSI"} :
                          attrs[f] \in Sent[f] =>
                            Convert(cdr.fields[f], UInt(attrs[f].size)) = attrs[f].value
                     /\ kind = "callFinish" /\ Fits(Tenth(duration), SInt(4)) =>
                          duration - 10 * cdr.seconds \in -9 .. 9
  <2>1. kind \in Kinds /\ stage \in Done
    BY <1>1 DEF ParamsInv, ShapeInv, Done
  <2>2. cdr = IF LogsCdr(kind, Outcome) THEN Record ELSE Missing
    BY <1>1 DEF ParamsInv, CdrInv
  <2>3. Record # Missing
    BY <1>1, <2>1, RecordType, MissingAssumption
  <2>4. /\ SInt(1) \in IntTypes /\ SInt(4) \in IntTypes
        /\ \A v \in Int : Fits(v, SInt(1)) => Convert(v, SInt(4)) = v
    <3>1. /\ SInt(1) \in IntTypes /\ SInt(4) \in IntTypes
          /\ SInt(1).bytes = 1 /\ SInt(4).bytes = 4
      BY IntTypesHave DEF Widths
    <3>2. SInt(1).signed = SInt(4).signed
      BY DEF SInt
    <3>3. QED
      BY <3>1, <3>2, FitsWider DEF Fits
  <2>5. ASSUME kind = "quota"
        PROVE  /\ (cdr # Missing) <=> /\ ClientReads(answer).code = OPERATION_SUCCESS
                                      /\ ClientReads(answer).quota \notin {0, 1}
               /\ cdr # Missing => cdr.result = ClientReads(answer).quota
    <3>1. /\ ClientReads(answer).code = result.code
          /\ ClientReads(answer).quota =
               IF result.code = OPERATION_SUCCESS THEN result.quota ELSE Missing
      BY <1>1, <2>5, ReadsResult
    <3>2. LogsCdr(kind, Outcome) <=> result.code = OPERATION_SUCCESS /\ result.quota \notin {0, 1}
      <4>1. Outcome = [code |-> IF result.code = OPERATION_SUCCESS THEN "success" ELSE "reject",
                       quota |-> CASE result.quota = 0 -> "requestAgain"
                                   [] result.quota = 1 -> "dropAfterQuota"
                                   [] OTHER            -> "other"]
        BY <2>5 DEF Outcome
      <4>2. LogsCdr(kind, Outcome) <=> Outcome.code = "success" /\ Outcome.quota = "other"
        BY <2>5 DEF LogsCdr, LogsQuotaCdr
      <4>3. Outcome.code = "success" <=> result.code = OPERATION_SUCCESS
        BY <4>1
      <4>4. Outcome.quota = "other" <=> result.quota \notin {0, 1}
        BY <4>1
      <4>5. QED
        BY <4>2, <4>3, <4>4
    <3>3. result.quota \in Int /\ Fits(result.quota, SInt(1))
      BY <1>1, <2>1, <2>5, ResultNumbers
    <3>4. Record.result = result.quota
      BY <2>4, <2>5, <3>3 DEF Record, RecordedResult
    <3>5. QED
      BY <2>2, <2>3, <3>1, <3>2, <3>4
  <2>6. cdr # Missing /\ kind = "sms" => cdr.result = ClientReads(answer).code
    <3>1. ASSUME kind = "sms"
          PROVE  Record.result = ClientReads(answer).code
      <4>1. ClientReads(answer).code = result.code
        BY <1>1, <3>1, ReadsResult
      <4>2. result.code \in Int /\ Fits(result.code, SInt(1))
        BY <1>1, <2>1, <3>1, ResultNumbers
      <4>3. QED
        BY <2>4, <3>1, <4>1, <4>2 DEF Record, RecordedResult
    <3>2. QED
      BY <2>2, <3>1
  <2>7. cdr # Missing /\ kind = "callFinish" /\ Fits(returned.quota, SInt(4)) =>
          cdr.result = returned.quota
    <3>1. kind = "callFinish" => Record.result = Convert(returned.quota, SInt(4))
      BY <1>1, <2>1 DEF Record, RecordedResult, ParamsInv, ResultInv
    <3>2. QED
      BY <2>2, <3>1 DEF Fits
  <2>8. ASSUME cdr # Missing, NEW f \in DOMAIN cdr.fields \ {"VLD_IMSI"}, attrs[f] \in Sent[f]
        PROVE  Convert(cdr.fields[f], UInt(attrs[f].size)) = attrs[f].value
    <3> DEFINE w == CdrType(kind)[f]
               a == attrs[f]
    <3>1. /\ f \in DOMAIN CdrType(kind) /\ f # "VLD_IMSI"
          /\ cdr.fields[f] = Convert(field[f], w)
      BY <2>2, <2>8 DEF Record
    <3>2. GoodRecordField(f, w, Params(kind), kind)
      BY <2>1, <3>1, CdrShape
    <3> HIDE DEF w, a
    <3>3. CASE kind = "callFinish" /\ f \in {"CAMEL_CALLING_PARTY", "CAMEL_CALLED_PARTY"}
      <4>1. f \in Fields /\ attrs[f] # Unset
        BY <2>8, <3>3, SentIsThere DEF Fields
      <4>2. PICK j \in DOMAIN Params(kind) : Params(kind)[j].attr = f
        BY <1>1, <4>1 DEF ParamsInv, ReadInv
      <4>3. GoodParam(Params(kind)[j], kind)
        BY <2>1, ParamsGood
      <4>4. QED
        BY <3>3, <4>2, <4>3 DEF GoodParam
    <3>4. ASSUME NEW j \in DOMAIN Params(kind), Params(kind)[j].attr = f,
                 Keeps(Params(kind)[j].type, w),
                 kind # "sms" => Params(kind)[j].type = UInt(8)
          PROVE  Convert(cdr.fields[f], UInt(a.size)) = a.value
      <4> DEFINE p == Params(kind)[j]
      <4>1. /\ GoodParam(p, kind) /\ Sets(p, a) /\ field[f] = Stored(p, a)
            /\ a \in Sent[p.attr]
        BY <1>1, <2>1, <2>8, <3>1, <3>4, ProcessedParams DEF a
      <4>2. IsAttribute(a)
        BY <4>1, SentIsThere DEF GoodParam
      <4> HIDE DEF p
      <4>3. \/ p.type = Text /\ Convert(Stored(p, a), w) = a.value
            \/ Convert(Convert(Stored(p, a), w), UInt(a.size)) = a.value
            \/ kind # "sms" /\ a.size \in Widths /\ a.size > p.type.bytes
        BY <2>1, <3>4, <4>1, SentIsRead DEF p
      <4>4. CASE kind # "sms" /\ a.size \in Widths /\ a.size > p.type.bytes
        <5>1. p.type.bytes = 8
          BY <3>4, <4>4, IntTypesHave DEF p, Widths
        <5>2. QED
          BY <4>4, <5>1 DEF Widths
      <4>5. QED
        BY <3>1, <4>1, <4>2, <4>3, <4>4, ValueFits
    <3>5. \/ \E j \in DOMAIN Params(kind) :
               /\ Params(kind)[j].attr = f /\ Keeps(Params(kind)[j].type, w)
               /\ kind # "sms" => Params(kind)[j].type = UInt(8)
          \/ kind = "callFinish" /\ f \in {"CAMEL_CALLING_PARTY", "CAMEL_CALLED_PARTY"}
      BY <3>2 DEF GoodRecordField
    <3>6. QED
      BY <3>3, <3>4, <3>5 DEF a
  <2>9. ASSUME cdr # Missing, kind = "callFinish",
               Fits(Tenth(field["CAMEL_TOTAL_DURATION"]), SInt(4))
        PROVE  field["CAMEL_TOTAL_DURATION"] - 10 * cdr.seconds \in -9 .. 9
    <3>1. PICK d \in Int : d = field["CAMEL_TOTAL_DURATION"]
      BY <1>1, <2>1, <2>9, DurationNumber
    <3>2. cdr.seconds = Tenth(d)
      BY <2>2, <2>9, <3>1 DEF Record, TotalDurationSeconds, Fits
    <3>3. d - 10 * Tenth(d) \in -9 .. 9
      BY DEF Tenth
    <3>4. QED
      BY <3>1, <3>2, <3>3
  <2>10. QED
    BY <2>5, <2>6, <2>7, <2>8, <2>9
<1>2. ParamsInv => CdrAgreesWithAnswer
  BY <1>1 DEF CdrAgreesWithAnswer
<1>3. QED
  BY <1>2, ParamsInvariant, PTL

=============================================================================
