------------------------------- MODULE Probe --------------------------------
(***************************************************************************)
(* What the collectors of the components and the rules share: the class of  *)
(* an error (collector/probe.go and its siblings) and the rows of the rules *)
(* (model.CheckResult, checker.Summarize).                                  *)
(***************************************************************************)
EXTENDS Integers, FiniteSets, SequencesExt

NoError == ""

\* How a call through a driver fails: deadline or I/O timeout; not connected;
\* not let in; answered with another error; answered with something unreadable.
Errors == {"deadline", "refused", "denied", "server", "malformed"}

\* How curl fails: no connection; its own --max-time; killed with the context.
CurlErrors == {"refused", "max-time", "killed"}

ErrorClass == {"", "network", "auth", "protocol", "timeout", "unknown"}

\* By error type, then by the text of the error.
Classify(err) ==
    CASE err = NoError -> ""
      [] err = "deadline" -> "timeout"
      [] err = "refused" -> "network"
      [] err = "denied" -> "auth"
      [] OTHER -> "unknown"

\* An error number other than "access denied" is a protocol error.
classifyMySQL(err) == IF err = "server" THEN "protocol" ELSE Classify(err)

\* A number that does not parse is a protocol error.
classifyRedis(err) == IF err = "malformed" THEN "protocol" ELSE Classify(err)

\* A command error other than unauthorized is a protocol error.
classifyMongo(err) == IF err = "server" THEN "protocol" ELSE Classify(err)

\* By exit code; a curl that was killed has none.
curlErrClass(err) ==
    CASE err = NoError -> ""
      [] err = "refused" -> "network"
      [] err = "max-time" -> "timeout"
      [] OTHER -> "unknown"

-----------------------------------------------------------------------------
(* Rows *)

\* A field names the component, whom in it, and what was checked.
CheckResult(field, status) == [field |-> field, status |-> status]

RowIf(condition, field, status) ==
    IF condition THEN <<CheckResult(field, status)>> ELSE <<>>

OkOrWarn(ok, field) == <<CheckResult(field, IF ok THEN "ok" ELSE "warn")>>

\* The rows of each entry of a list, in its order.
RowsOfEach(list, Rows(_)) == FlattenSeq([i \in DOMAIN list |-> Rows(list[i])])

\* What a loop that appends under a condition keeps of a list.
Keep(list, Test(_)) ==
    FlattenSeq([i \in DOMAIN list |-> IF Test(list[i]) THEN <<list[i]>> ELSE <<>>])

Fields(rows, status) == {r.field : r \in {s \in ToSet(rows) : s.status = status}}

\* Notices are in no bucket.
Summarize(rows) ==
    LET Count(status) == Len(Keep(rows, LAMBDA r : r.status = status))
    IN  [OK |-> Count("ok"), Warn |-> Count("warn"), Unknown |-> Count("unknown"),
         Total |-> Count("ok") + Count("warn") + Count("unknown")]
=============================================================================
