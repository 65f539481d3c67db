----------------------------- MODULE WinHttpDefs -----------------------------
(***************************************************************************)
(* Vocabulary shared by the modules about the WinHTTP wrapper: the kinds   *)
(* of asynchronous steps a request handle performs, the error codes the    *)
(* properties tell apart and the result a step reports to its handler.     *)
(***************************************************************************)
EXTENDS Naturals

CONSTANT MaxLen     \* bound: the longest transfer one step reports, in bytes

ASSUME MaxLenAssumption == MaxLen \in Nat

\* The members of asio_request_context::state that name a running step.
StepOp == {"send_request", "headers_available", "data_available",
           "read_complete", "write_complete"}

CtxState == StepOp \cup {"idle", "error"}

\* Steps whose handler is void(error_code, size_t), completed by async_len_op.
LenOp == {"data_available", "read_complete", "write_complete"}

NoError == "no_error"

\* "failed" stands for any code WinHTTP reports on its own account.
ErrorCode == {"failed", "operation_cancelled", "invalid_handle"}

Result == [ec : ErrorCode \cup {NoError}, len : 0 .. MaxLen]

\* No result has been reported yet.
NoResult == [ec |-> "none", len |-> 0]

Failure(e) == [ec |-> e, len |-> 0]

Success(n) == [ec |-> NoError, len |-> n]

\* What a step of kind o can report: only LenOp steps carry a length.
ResultsOf(o) ==
  {Failure(e) : e \in ErrorCode} \cup
  {Success(n) : n \in IF o \in LenOp THEN 0 .. MaxLen ELSE {0}}

=============================================================================
