--------------------------- MODULE MCRequestParams ---------------------------
(***************************************************************************)
(* RequestParams with a byte of 4 values: int8_t is -2 .. 1, uint16_t is   *)
(* 0 .. 15, short -8 .. 7, int32_t -128 .. 127.  Each attribute may have   *)
(* the length the test client gives it, with a value that is small or has  *)
(* its highest bit set, or another length where the code may take or       *)
(* refuse it.                                                              *)
(***************************************************************************)
EXTENDS RequestParams

Attr(size, value) == [size |-> size, value |-> value]

MCSent ==
  [f \in Fields |->
     CASE f = "VLD_IMSI"             -> {Attr(8, 0), Attr(8, 65535), Attr(4, 1)}
       [] f \in {"VLD_OA", "VLD_DA"} -> {Attr(0, 0), Attr(3, 57)}
       [] f = "VLD_OAFLAGS"          -> {Attr(1, 1), Attr(1, 3), Attr(2, 1)}
       [] f = "VLD_DAFLAGS"          -> {Attr(1, 2)}
       [] f = "VLD_REFNUM"           -> {Attr(2, 7), Attr(2, 8), Attr(4, 130)}
       [] f = "VLD_TOTAL"            -> {Attr(1, 3)}
       [] f = "VLD_PART"             -> {Attr(1, 1), Attr(3, 1)}
       [] f = "VLD_SERVINGMSC"       -> {Attr(3, 33)}
       [] f = "CAMEL_IMSI"           -> {Attr(8, 65535), Attr(3, 5)}
       [] f = "CAMEL_CALLING_PARTY"  -> {Attr(8, 40000)}
       [] f = "CAMEL_CALLING_NOA"    -> {Attr(1, 3)}
       [] f = "CAMEL_CALLED_PARTY"   -> {Attr(8, 1), Attr(4, 255)}
       [] f = "CAMEL_CALLED_NOA"     -> {Attr(1, 1)}
       [] f = "CAMEL_CALL_REF_NUM"   -> {Attr(8, 33000)}
       [] f = "CAMEL_EVENT_TYPE"     -> {Attr(1, 3), Attr(2, 8), Attr(8, 20)}
       [] f = "CAMEL_SERVICE_KEY"    -> {Attr(1, 2), Attr(4, 200), Attr(0, 0)}
       [] f = "CAMEL_TOTAL_DURATION" -> {Attr(4, 200), Attr(8, 20001), Attr(8, 65524)}]

MCDbNumbers == {-8, -2, 0, 1, 4, 200, 256, 40000}

=============================================================================
