----------------------------- MODULE TypedErrors ----------------------------
(***************************************************************************)
(* The error types of the standard library (src/std.rs).  The fields of an *)
(* error are kept in a registry of its type, under a number that the error *)
(* value carries as an object; copies of the value share the object, and   *)
(* the entry goes when the object does.  The types are independent of each *)
(* other and written out one by one; they differ in their categories.      *)
(***************************************************************************)
EXTENDS Naturals, TLC

CONSTANTS
  Threads, Types,
  Reported,   \* the categories operations select here
  MaxErrors, MaxRefs

VARIABLES
  type,    \* the type whose errors are followed
  next,    \* NEXT_..._ERROR_HANDLE
  errors,  \* ..._ERRORS: the category under each number
  object,  \* the object of each number: whose it is, the references to it, and
           \* as what the failing operation reported it
  pc       \* the number a thread is making a value for
vars == <<type, next, errors, object, pc>>

Handles == 1..MaxErrors
Null == 0

\* Categories an operation can select.
StdErrorKind ==
  {"invalid", "parse", "io", "os", "timeout", "unsupported", "not_found", "permission", "resolve",
   "overflow", "range", "protocol", "certificate", "handshake", "capture", "authentication", "state",
   "logger", "status", "transport", "callback", "config", "not_unicode", "spawn", "closed", "domain", "match"}

(***************************************************************************)
(* from_std_kind of each type: what it keeps, what it renames, and what is *)
(* left over becomes.                                                      *)
(***************************************************************************)
define_error_kind(kept, renamed, rest) ==
  [k \in StdErrorKind |-> IF k \in kept THEN k ELSE IF k \in DOMAIN renamed THEN renamed[k] ELSE rest]

define_data_error_kind(range, not_unicode) ==
  define_error_kind({"invalid", "parse", "io"},
                    "range" :> range @@ "overflow" :> range @@ "os" :> "io" @@ "not_unicode" :> not_unicode, "parse")

Os == "os" :> "io"

JsonErrorKind == define_data_error_kind("limit", "parse")
CsvErrorKind == define_data_error_kind("limit", "parse")
ByteErrorKind == define_data_error_kind("range", "parse")
BytesErrorKind == define_data_error_kind("range", "utf8")
CliErrorKind == define_error_kind({"io", "parse"}, Os @@ "invalid" :> "parse", "invalid")
CryptoErrorKind == define_error_kind({"io", "unsupported", "authentication"}, Os, "invalid")
RegexErrorKind == define_error_kind({"parse", "match", "capture"}, <<>>, "invalid")
LogErrorKind == define_error_kind({"io", "config", "state"}, Os, "invalid")
EnvErrorKind == define_error_kind({"invalid", "not_unicode"}, <<>>, "os")
FsErrorKind == define_error_kind({"invalid", "not_found", "permission", "not_unicode", "io"}, <<>>, "os")
IoErrorKind == define_error_kind({"invalid", "not_found", "permission", "not_unicode", "io", "closed"}, <<>>, "os")
NetErrorKind ==
  define_error_kind({"invalid", "timeout", "resolve", "unsupported"},
                    "parse" :> "invalid" @@ "range" :> "invalid" @@ "overflow" :> "invalid", "io")
UrlErrorKind == define_error_kind({"unsupported", "parse"}, "not_unicode" :> "parse", "invalid")
UuidErrorKind == define_error_kind({"not_unicode", "parse"}, <<>>, "invalid")
MathErrorKind == define_error_kind({"range", "overflow", "domain"}, <<>>, "invalid")
ProcessErrorKind == define_error_kind({"invalid", "spawn", "timeout", "not_found", "io"}, Os, "state")
TlsErrorKind ==
  define_error_kind({"timeout", "handshake", "certificate", "unsupported", "protocol", "io"}, Os, "invalid")
DateTimeErrorKind ==
  define_error_kind({"invalid", "range", "parse"}, "overflow" :> "range" @@ "io" :> "system" @@ "os" :> "system", "format")
RandomErrorKind == define_error_kind({"range", "unsupported", "io"}, Os @@ "overflow" :> "range", "invalid")
SyncErrorKind == define_error_kind({"invalid", "timeout", "closed", "callback", "spawn", "io"}, Os, "state")

from_std_kind ==
  [Json |-> JsonErrorKind, Csv |-> CsvErrorKind, Byte |-> ByteErrorKind, Bytes |-> BytesErrorKind,
   Cli |-> CliErrorKind, Crypto |-> CryptoErrorKind, Regex |-> RegexErrorKind, Log |-> LogErrorKind,
   Env |-> EnvErrorKind, Fs |-> FsErrorKind, Io |-> IoErrorKind, Net |-> NetErrorKind, Url |-> UrlErrorKind,
   Uuid |-> UuidErrorKind, Math |-> MathErrorKind, Process |-> ProcessErrorKind, Tls |-> TlsErrorKind,
   DateTime |-> DateTimeErrorKind, Random |-> RandomErrorKind, Sync |-> SyncErrorKind]

Gone == [owner |-> "none", refs |-> 0, reported |-> "none"]

Init ==
  /\ type \in Types /\ next = 1
  /\ errors = [h \in Handles |-> "none"] /\ object = [h \in Handles |-> Gone]
  /\ pc = [t \in Threads |-> Null]

(***************************************************************************)
(* A value is made: number, entry, object.  The object may not be had; the *)
(* caller then gets a text instead.                                        *)
(***************************************************************************)
error_value(t, kind) ==
  /\ pc[t] = Null /\ next <= MaxErrors
  /\ next' = next + 1 /\ pc' = [pc EXCEPT ![t] = next]
  /\ errors' = [errors EXCEPT ![next] = from_std_kind[type][kind]]
  /\ object' = [object EXCEPT ![next] = [owner |-> t, refs |-> 0, reported |-> kind]]
  /\ UNCHANGED type

\* Null, or the handle is written, the value cloned and the first reference released.
object_made(t) ==
  /\ pc[t] # Null /\ pc' = [pc EXCEPT ![t] = Null]
  /\ object' = [object EXCEPT ![pc[t]].refs = 1]
  /\ UNCHANGED <<type, next, errors>>

alloc_fails_keeps(t) ==
  /\ pc[t] # Null /\ pc' = [pc EXCEPT ![t] = Null]
  /\ object' = [object EXCEPT ![pc[t]] = Gone]
  /\ UNCHANGED <<type, next, errors>>

alloc_fails(t) ==
  /\ pc[t] # Null /\ pc' = [pc EXCEPT ![t] = Null]
  /\ errors' = [errors EXCEPT ![pc[t]] = "none"] /\ object' = [object EXCEPT ![pc[t]] = Gone]
  /\ UNCHANGED <<type, next>>

clone(t, h) ==
  /\ pc[t] = Null /\ object[h].owner = t /\ object[h].refs \in 1..(MaxRefs - 1)
  /\ object' = [object EXCEPT ![h].refs = @ + 1]
  /\ UNCHANGED <<type, next, errors, pc>>

\* The destructor of the object, run for its last reference.
drop_error_early(h) == errors' = [errors EXCEPT ![h] = "none"]
drop_error_never(h) == UNCHANGED errors

drop_error(h) == errors' = IF object[h].refs = 1 THEN [errors EXCEPT ![h] = "none"] ELSE errors

release(t, h) ==
  /\ pc[t] = Null /\ object[h].owner = t /\ object[h].refs > 0
  /\ drop_error(h)
  /\ object' = [object EXCEPT ![h] = IF @.refs = 1 THEN Gone ELSE [@ EXCEPT !.refs = @ - 1]]
  /\ UNCHANGED <<type, next, pc>>

\* What kind, detail, message and to_string find.
error_field(h) == IF errors[h] = "none" THEN "invalid handle" ELSE errors[h]

\* default: the category of from_message.
define_data_error(t, default) ==
  \/ \E kind \in Reported \cup {default} : error_value(t, kind)
  \/ object_made(t)
  \/ alloc_fails(t)
  \/ \E h \in Handles : clone(t, h) \/ release(t, h)

JsonError(t) == type = "Json" /\ define_data_error(t, "parse")
CsvError(t) == type = "Csv" /\ define_data_error(t, "parse")
ByteError(t) == type = "Byte" /\ define_data_error(t, "parse")
BytesError(t) == type = "Bytes" /\ define_data_error(t, "parse")
CliError(t) == type = "Cli" /\ define_data_error(t, "parse")
CryptoError(t) == type = "Crypto" /\ define_data_error(t, "invalid")
RegexError(t) == type = "Regex" /\ define_data_error(t, "invalid")
LogError(t) == type = "Log" /\ define_data_error(t, "logger")
EnvError(t) == type = "Env" /\ define_data_error(t, "os")
FsError(t) == type = "Fs" /\ define_data_error(t, "io")
IoError(t) == type = "Io" /\ define_data_error(t, "io")
NetError(t) == type = "Net" /\ define_data_error(t, "io")
UrlError(t) == type = "Url" /\ define_data_error(t, "parse")
UuidError(t) == type = "Uuid" /\ define_data_error(t, "parse")
MathError(t) == type = "Math" /\ define_data_error(t, "invalid")
ProcessError(t) == type = "Process" /\ define_data_error(t, "io")
TlsError(t) == type = "Tls" /\ define_data_error(t, "io")
DateTimeError(t) == type = "DateTime" /\ define_data_error(t, "parse")
RandomError(t) == type = "Random" /\ define_data_error(t, "invalid")
SyncError(t) == type = "Sync" /\ define_data_error(t, "state")

Next ==
  \E t \in Threads :
    \/ JsonError(t) \/ CsvError(t) \/ ByteError(t) \/ BytesError(t) \/ CliError(t) \/ CryptoError(t) \/ RegexError(t)
    \/ LogError(t) \/ EnvError(t) \/ FsError(t) \/ IoError(t) \/ NetError(t) \/ UrlError(t) \/ UuidError(t)
    \/ MathError(t) \/ ProcessError(t) \/ TlsError(t) \/ DateTimeError(t) \/ RandomError(t) \/ SyncError(t)

Spec == Init /\ [][Next]_vars

(***************************************************************************)
(* Properties                                                              *)
(***************************************************************************)

\* An entry of the registry belongs to one error that exists or is being made, and a live
\* error always finds its own, whoever makes, copies and drops others: nothing is left in
\* a registry that lives as long as the program.
EntriesExact ==
  /\ \A h \in Handles : errors[h] # "none" <=> object[h].refs > 0 \/ \E t \in Threads : pc[t] = h
  /\ \A h \in Handles : object[h].refs > 0 => error_field(h) = from_std_kind[type][object[h].reported]
=============================================================================
