--------------------------- MODULE ClientRequests ---------------------------
(***************************************************************************)
(* What the three request classes (SmsRequest, CamelRequest,               *)
(* CallFinishRequest) decide from the values the database hands back: the  *)
(* response packet and the charging record (CDR) for Kafka.  Constant      *)
(* level: the threads of ConnectionPool and Server use these operators.    *)
(*                                                                         *)
(* Values are abstracted to what the code branches on: resultCode (an      *)
(* int8_t by then) is OPERATION_SUCCESS or some rejection, an IMSI is      *)
(* known or origImsiNotGiven, a quota result is one of the two the enum    *)
(* names or another.                                                       *)
(***************************************************************************)
EXTENDS Naturals

Kinds == {"sms", "quota", "callFinish"}

Codes == {"success", "reject"}

QuotaResults == {"requestAgain", "dropAfterQuota", "other"}

\* What Process leaves in the request, whatever the stored procedure returns:
\* M2M.ValidateSMS, M2M.CallQuotaRequest and M2M.CallFinishRequest.
SmsResults        == [code : Codes, imsiKnown : BOOLEAN]
QuotaReqResults   == [code : Codes, quota : QuotaResults]
CallFinishResults == [code : {"success"}]

DbResults(k) ==
  CASE k = "sms"        -> SmsResults
    [] k = "quota"      -> QuotaReqResults
    [] k = "callFinish" -> CallFinishResults

AllDbResults == UNION {DbResults(k) : k \in Kinds}

\* The packet type SendResultToClient answers a request of kind k with.
ResponseType(k) ==
  CASE k = "sms"        -> "VALIDATEEX_RESP"
    [] k = "quota"      -> "QUOTA_RESP"
    [] k = "callFinish" -> "CALL_FINISH_ACK"

\* LogToKafka's early returns: does this result leave a CDR?
LogsSmsCdr(res)   == res.imsiKnown
LogsQuotaCdr(res) == res.code = "success" /\ res.quota = "other"

LogsCdr(k, res) ==
  \/ k = "sms" /\ LogsSmsCdr(res)
  \/ k = "quota" /\ LogsQuotaCdr(res)
  \/ k = "callFinish"

\* The CDR of request r.  Only the SMS CDR says whether the response was sent;
\* the numbers of a record are RequestParams's, its times are left out.
SmsCdr(r, res, sent) ==
  [request |-> r, validationRes |-> res.code, responseSendSuccess |-> sent]

CallCdr(r) == [request |-> r]

CdrOf(r, k, res, sent) == IF k = "sms" THEN SmsCdr(r, res, sent) ELSE CallCdr(r)

=============================================================================
