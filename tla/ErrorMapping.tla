---------------------------- MODULE ErrorMapping ----------------------------
(***************************************************************************)
(* What a request is answered with when its handler throws: the domain     *)
(* errors, the mappers and GlobalExceptionFilter.  Titles, messages and    *)
(* details are left out; an error is a code and an HTTP status.            *)
(***************************************************************************)
EXTENDS Integers

\* The application's codes.
ErrorCodes ==
  {"CUSTOMER_DUPLICATE_EMAIL", "CUSTOMER_INVALID_ID", "CUSTOMER_NOT_FOUND",
   "CUSTOMER_ETAG_MISMATCH", "CUSTOMER_UPDATE_EMPTY", "CUSTOMER_MISSING_EMAIL",
   "QUEUE_INVALID_TYPE", "QUEUE_INVALID_PAYLOAD", "QUEUE_JOB_NOT_FOUND",
   "QUEUE_HANDLER_FAILED", "QUEUE_DLQ_NOT_FOUND", "QUEUE_DLQ_MOVE_FAILED",
   "IMPORT_INVALID_TYPE", "IMPORT_PATH_TRAVERSAL", "IMPORT_FILE_NOT_FOUND",
   "IMPORT_UNSUPPORTED_MEDIA_TYPE", "IMPORT_FILE_TOO_LARGE",
   "IMPORT_TYPE_INFERENCE_FAILED", "IMPORT_ROW_INVALID", "IMPORT_PARSE_FAILED",
   "IMPORT_MANIFEST_NOT_FOUND", "IMPORT_SHEET_NOT_FOUND", "IMPORT_NO_SHEETS",
   "IMPORT_CONFIG_NOT_FOUND", "IMPORT_MISSING_FILE", "IMPORT_MISSING_FILENAME",
   "DB_DUPLICATE_KEY", "DB_OPERATION_FAILED", "DB_CAST_ERROR",
   "VALIDATION_FAILED", "VALIDATION_INVALID_OBJECTID",
   "CONFIG_MONGODB_URI_MISSING", "INTERNAL_SERVER_ERROR", "UNKNOWN_ERROR"}

\* An error of code NoCode has none.
NoCode == "none"
DuplicateKey == "E11000"

Exception(class, code, status) ==
  [class |-> class, code |-> code, status |-> status]

AppError(code, status) == Exception("AppError", code, status)

ValidationError(code) == AppError(code, 400)
NotFoundError(code) == AppError(code, 404)
ConflictError(code) == AppError(code, 409)
PreconditionFailedError(code) == AppError(code, 412)
DatabaseError(code, status) == AppError(code, status)

\* What the driver and mongoose throw.
MongoError(code) == Exception("MongoError", code, 0)
CastError == Exception("CastError", NoCode, 0)
MongooseValidationError == Exception("MongooseValidationError", NoCode, 0)

MulterCodes ==
  {"LIMIT_PART_COUNT", "LIMIT_FILE_SIZE", "LIMIT_FILE_COUNT",
   "LIMIT_FIELD_KEY", "LIMIT_FIELD_VALUE", "LIMIT_FIELD_COUNT",
   "LIMIT_UNEXPECTED_FILE"}

-----------------------------------------------------------------------------
\* Anything with a code will do, which leaves nothing for isMulterError.
isMongoError(e) == e.class = "MongoError" \/ e.code # NoCode

isMongooseError(e) ==
  e.class \in {"CastError", "MongooseValidationError", "MongooseError"}

isMulterError(e) == e.code \in MulterCodes

wrapUnknown(e, code) == IF e.class = "AppError" THEN e ELSE AppError(code, 500)

mapMongoError(e) ==
  CASE isMongoError(e) /\ e.code = DuplicateKey ->
         ConflictError("DB_DUPLICATE_KEY")
    [] isMongoError(e) /\ e.code # DuplicateKey ->
         DatabaseError("DB_OPERATION_FAILED", 500)
    [] ~isMongoError(e) /\ isMongooseError(e) ->
         CASE e.class = "CastError" -> ValidationError("DB_CAST_ERROR")
           [] e.class = "MongooseValidationError" ->
                ValidationError("VALIDATION_FAILED")
           [] OTHER -> DatabaseError("DB_OPERATION_FAILED", 500)
    [] OTHER -> wrapUnknown(e, "DB_OPERATION_FAILED")

mapMulterError(e) ==
  CASE e.code = "LIMIT_FILE_SIZE" -> AppError("IMPORT_FILE_TOO_LARGE", 413)
    [] e.code \in {"LIMIT_FILE_COUNT", "LIMIT_UNEXPECTED_FILE"} ->
         AppError("IMPORT_MISSING_FILE", 400)
    [] e.code \in {"LIMIT_PART_COUNT", "LIMIT_FIELD_KEY", "LIMIT_FIELD_VALUE",
                   "LIMIT_FIELD_COUNT"} -> AppError("VALIDATION_FAILED", 400)
    [] OTHER -> AppError("IMPORT_PARSE_FAILED", 400)

mapUnknown(e) ==
  CASE e.class = "AppError" -> e
    [] e.class = "JoiError" -> ValidationError("VALIDATION_FAILED")
    [] e.class \notin {"AppError", "JoiError"} ->
         IF isMongoError(e) \/ isMongooseError(e) THEN mapMongoError(e)
         ELSE IF isMulterError(e) THEN mapMulterError(e)
         ELSE wrapUnknown(e, "UNKNOWN_ERROR")

getDefaultCodeForStatus(status) ==
  CASE status = 400 -> "VALIDATION_FAILED"
    [] status = 404 -> "CUSTOMER_NOT_FOUND"
    [] status = 409 -> "DB_DUPLICATE_KEY"
    [] OTHER -> "INTERNAL_SERVER_ERROR"

isValidErrorCode(code) == code \in ErrorCodes

\* Its response may carry one of the application's codes.
transformHttpException(e) ==
  AppError(IF isValidErrorCode(e.code) THEN e.code
                                       ELSE getDefaultCodeForStatus(e.status),
           e.status)

transformException(e) ==
  CASE e.class = "AppError" -> e
    [] e.class = "HttpException" -> transformHttpException(e)
    [] OTHER -> mapUnknown(e)

=============================================================================
