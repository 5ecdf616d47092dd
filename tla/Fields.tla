------------------------------- MODULE Fields -------------------------------
(* How an attribute of an SDK dataclass is carried by a field of a protobuf *)
(* message (models/_converters.py and the _set_opt of the two _converters). *)
(* A message or object is a function from paths <<class, attribute>> to      *)
(* values. A class, and a converter, is a function from the paths it has,   *)
(* or carries, to their kinds: an object nested in another, or the one      *)
(* representative of a list of objects, is the paths of its class.          *)
EXTENDS Tables

\* Absent (None, an empty list); present and falsy (0, "", False, enumerator
\* 0, the epoch); present otherwise; an enumerator this SDK does not know; a
\* time finer than the double, or the microseconds, it is read through; a time
\* that raises when it is read: out of the years of a datetime, or so close to
\* their end, as datetime.max is, that it is rounded out of them.
Value == {"none", "zero", "set", "new", "fine", "far"}

\* What an object may hold in an attribute of each kind ...
Held ==
  [plain    |-> {"zero", "set"},
   optional |-> {"none", "zero", "set"},
   time     |-> {"none", "zero", "set", "fine", "far"},
   status   |-> {"zero", "set"},           \* enum, required
   type     |-> {"none", "zero", "set"},   \* enum, optional
   named    |-> {"none", "zero", "set"},   \* enum shown by its name
   code     |-> {"zero", "set", "new"},    \* enum shown by its name or number
   list     |-> {"none", "set"},
   count    |-> {"zero", "set"},           \* a number whose zero means "unset"
   id       |-> {"none", "zero", "set"},   \* drawn if the caller gives none
   switch   |-> {"none", "zero", "set"}]   \* a flag sent as False if None

\* ... and a message in the field for it. The enumerators of models/enums.py are
\* "zero" and "set"; a service built from a later proto may have more.
Stored(k) ==
  CASE k \in {"status", "type", "named"} -> Held[k] \cup {"new"}
    [] k = "count"                       -> Held[k] \cup {"none"}
    [] OTHER                             -> Held[k]

-----------------------------------------------------------------------------
(* Writing and reading one attribute.                                       *)

\* "if value:", where presence is tested by truth.
Truthy(v) == IF v = "zero" THEN "none" ELSE v

\* "tid or str(uuid.uuid4())"
FreshId(v) == "set"

\* "bool(value) if value is not None else False"
OrFalse(v) == IF v = "none" THEN "zero" ELSE v

\* An optional attribute is sent exactly when it is not None, falsy or not.
SetOpt_Truthy(v) == Truthy(v)          \* mutant: tests truth, not None
SetOpt(v) == v

\* A timestamp of zero is read as "no time", and one too fine is rounded to
\* another time, through "seconds + nanos / 1e9" ...
proto_ts_to_datetime(v) == IF v = "fine" THEN "set" ELSE Truthy(v)

\* ... though a datetime is written as it is, at the epoch and to the microsecond.
datetime_to_proto_ts(v) == v

\* The field's value if it is set, zero or not.
opt_field(v) == v

\* "TaskStatus(proto.status)" raises ValueError for an unknown number, though
\* the name of one is None; datetime.fromtimestamp for what is no datetime.
Raises(k, v) ==
  (k \in {"status", "type"} /\ v = "new") \/ (k = "time" /\ v = "far")
enum_name_Raw(v) == v                  \* mutant: shows what it does not know
enum_name(v) == IF v = "new" THEN "none" ELSE v

Written(k, v) ==
  CASE k = "optional" -> SetOpt(v)
    [] k = "time"     -> datetime_to_proto_ts(v)
    [] k = "count"    -> Truthy(v)
    [] k = "id"       -> FreshId(v)
    [] k = "switch"   -> OrFalse(v)
    [] OTHER          -> v

ReadAs(k, v) ==
  CASE k = "optional" -> opt_field(v)
    [] k = "time"     -> proto_ts_to_datetime(v)
    [] k = "named"    -> enum_name(v)
    [] OTHER          -> v

-----------------------------------------------------------------------------
(* Tables, and the conversion of a whole object by one.                     *)

\* Attributes by kind, as the paths of a class.
As(class, sort, names) == [p \in {class} \X names |-> sort]

\* A table without some attributes of a class, and its part for some paths.
Except(table, class, names) ==
  [p \in DOMAIN table \ ({class} \X names) |-> table[p]]
For(table, paths) == [p \in paths \cap DOMAIN table |-> table[p]]

\* A converter leaves unset what it does not carry.
Carried(table, m, Convert(_, _)) ==
  [p \in DOMAIN m |-> IF p \in DOMAIN table THEN Convert(table[p], m[p]) ELSE "none"]

Write(table, object) == Carried(table, object, Written)
Read(table, message) == Carried(table, message, ReadAs)
ReadRaises(table, message) ==
  \E p \in DOMAIN message \cap DOMAIN table : Raises(table[p], message[p])
=============================================================================
