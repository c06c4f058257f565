---------------------------- MODULE ResponseCodec ----------------------------
(***************************************************************************)
(* What becomes of an answer between the SDK's struct and the object a     *)
(* MediaRespCallback is given: the handler puts it into a JSON object, the  *)
(* manager turns the JSON object into a bean.  A JSON object is a function *)
(* on its keys.  fastjson (external) sets a property for each key that has *)
(* a setter of that name and ignores the other keys.                       *)
(***************************************************************************)
EXTENDS Integers

CONSTANT IntRange   \* a jint is in -IntRange .. IntRange - 1: 2^31 in the program

ASSUME IntRangeAssumption == IntRange \in Nat \ {0}

\* The codes of the SDK; its user ids are UInt64.
UInt32 == 0 .. 2 * IntRange - 1

\* A number passed where the JVM takes an int.
jint(n) ==
    LET low == n % (2 * IntRange) IN
    IF low < IntRange THEN low ELSE low - 2 * IntRange

Fits(n) == n < IntRange

FaultyLoginJson(rsp) ==
    IF rsp.errCode = 0 THEN [code |-> 0, userId |-> jint(rsp.userId)]
                       ELSE [code |-> 0, errMsg |-> "errMsg"]
LoginJson(rsp) ==
    IF rsp.errCode = 0 THEN [code |-> 0, userId |-> jint(rsp.userId)]
                       ELSE [code |-> jint(rsp.errCode), errMsg |-> "errMsg"]

LogoutJson(rsp) ==
    IF rsp.errCode = 0 THEN [errCode |-> 0]
                       ELSE [errCode |-> jint(rsp.errCode), errMsg |-> "errMsg"]

\* The code is written as the string "-1", which fastjson reads as a number.
RefusalJson == [code |-> -1, errorMsg |-> "No Network or not login"]

\* A field keeps its initial value when no key sets it.
Field(json, key, initial) == IF key \in DOMAIN json THEN json[key] ELSE initial

FaultyUnset == 0
UnsetCode == -1

BaseModel(json) ==
    [code |-> Field(json, "code", UnsetCode),
     errorMsg |-> Field(json, "errorMsg", "null")]

LoginRespModel(json) ==
    [code |-> Field(json, "code", UnsetCode),
     errorMsg |-> Field(json, "errorMsg", "null"),
     userId |-> Field(json, "userId", 0)]

isSuccess(bean) == bean.code = 0 \/ bean.code = 10
=============================================================================
