---- MODULE Errors ----
(***************************************************************************)
(* pkg/errors: the internal codes, the gRPC statuses the user service      *)
(* makes of them and the HTTP statuses the gateway answers with.           *)
(*                                                                         *)
(* An error is the pair of its gRPC code and the Reason of its ErrorInfo   *)
(* detail, "" when it has none.  Messages, request ids and the field       *)
(* violations copied into the body are left out.                           *)
(***************************************************************************)
EXTENDS Naturals

Code == {"internal_error", "validation_error", "not_found", "rate_limited",
         "email_in_use", "invalid_credentials", "weak_password"}

\* An error status.FromError does not recognise, such as ShouldBindJSON's.
NotStatus == [grpc |-> "none", reason |-> ""]

\* An error the gRPC client makes itself.
TransportError(g) == [grpc |-> g, reason |-> ""]

baseStatus(code) ==
  CASE code = "email_in_use" -> "AlreadyExists"
    [] code = "invalid_credentials" -> "Unauthenticated"
    [] code \in {"weak_password", "validation_error"} -> "InvalidArgument"
    [] code = "rate_limited" -> "ResourceExhausted"
    [] code = "not_found" -> "NotFound"
    [] OTHER -> "Internal"

StatusFromCode(code) == [grpc |-> baseStatus(code), reason |-> code]

\* 0: no mapping.
grpcToHTTP(g) ==
  CASE g = "InvalidArgument" -> 400
    [] g = "AlreadyExists" -> 409
    [] g = "NotFound" -> 404
    [] g = "Unauthenticated" -> 401
    [] g = "PermissionDenied" -> 403
    [] g = "ResourceExhausted" -> 429
    [] g = "Unavailable" -> 503
    [] g = "DeadlineExceeded" -> 504
    [] g = "FailedPrecondition" -> 412
    [] g = "Aborted" -> 409
    [] g = "Unimplemented" -> 501
    [] g = "Canceled" -> 400
    [] g \in {"Internal", "DataLoss", "Unknown"} -> 500
    [] OTHER -> 0

\* The status of the error envelope; a handler passes the one to fall back on.
HTTPErrorDefault(defaultHTTP, err) == defaultHTTP
HTTPError(defaultHTTP, err) ==
  IF err = NotStatus \/ grpcToHTTP(err.grpc) = 0 THEN defaultHTTP
                                                 ELSE grpcToHTTP(err.grpc)

(*************************** The way back to a code ************************)

HTTPStatus(code) ==
  CASE code = "validation_error" -> 400
    [] code = "email_in_use" -> 409
    [] code = "not_found" -> 404
    [] code = "invalid_credentials" -> 401
    [] code = "rate_limited" -> 429
    [] OTHER -> 500

extractCode(err) == IF err.reason = "" THEN "internal_error" ELSE err.reason

fallbackCodeFromGRPC(g) ==
  CASE g = "InvalidArgument" -> "validation_error"
    [] g = "AlreadyExists" -> "email_in_use"
    [] g = "NotFound" -> "not_found"
    [] g = "Unauthenticated" -> "invalid_credentials"
    [] g = "ResourceExhausted" -> "rate_limited"
    [] OTHER -> "internal_error"

Parse(err) ==
  IF err = NotStatus THEN "internal_error"
  ELSE IF extractCode(err) = "internal_error" THEN fallbackCodeFromGRPC(err.grpc)
  ELSE extractCode(err)
====
