--------------------------- MODULE DocumentsProofs ---------------------------
(* Theorems about Documents, for every kind of message, every attribute of  *)
(* it and every value of the bounds.                                        *)
EXTENDS ConvertersProofs

-----------------------------------------------------------------------------
(* One attribute.                                                           *)

LEMMA HeldIs ==
  /\ Held["plain"] = {"zero", "set"}
  /\ Held["optional"] = {"none", "zero", "set"}
  /\ Held["time"] = {"none", "zero", "set", "fine", "far"}
  /\ Held["status"] = {"zero", "set"}
  /\ Held["type"] = {"none", "zero", "set"}
  /\ Held["named"] = {"none", "zero", "set"}
  /\ Held["code"] = {"zero", "set", "new"}
  /\ Held["list"] = {"none", "set"}
  /\ Held["count"] = {"zero", "set"}
  /\ Held["id"] = {"none", "zero", "set"}
  /\ Held["switch"] = {"none", "zero", "set"}
  BY Zenon DEF Held

LEMMA StoredIs ==
  /\ Stored("plain") = Held["plain"]
  /\ Stored("optional") = Held["optional"]
  /\ Stored("time") = Held["time"]
  /\ Stored("status") = Held["status"] \cup {"new"}
  /\ Stored("type") = Held["type"] \cup {"new"}
  /\ Stored("named") = Held["named"] \cup {"new"}
  /\ Stored("code") = Held["code"]
  /\ Stored("list") = Held["list"]
  /\ Stored("count") = Held["count"] \cup {"none"}
  /\ Stored("id") = Held["id"]
  /\ Stored("switch") = Held["switch"]
  BY Zenon DEF Stored

LEMMA WrittenIs ==
  \A v :
    /\ Written("plain", v) = v /\ Written("optional", v) = v /\ Written("time", v) = v
    /\ Written("status", v) = v /\ Written("type", v) = v /\ Written("named", v) = v
    /\ Written("code", v) = v /\ Written("list", v) = v
    /\ Written("count", v) = Truthy(v) /\ Written("id", v) = "set"
    /\ Written("switch", v) = OrFalse(v)
  BY Zenon DEF Written, SetOpt, datetime_to_proto_ts, FreshId

LEMMA ReadIs ==
  \A v :
    /\ ReadAs("plain", v) = v /\ ReadAs("optional", v) = v
    /\ ReadAs("time", v) = proto_ts_to_datetime(v) /\ ReadAs("named", v) = enum_name(v)
    /\ ReadAs("status", v) = v /\ ReadAs("type", v) = v /\ ReadAs("code", v) = v
    /\ ReadAs("list", v) = v
  BY Zenon DEF ReadAs, opt_field

LEMMA MeaningIs ==
  \A v :
    /\ Meaning("plain", v) = v /\ Meaning("optional", v) = v
    /\ Meaning("status", v) = v /\ Meaning("type", v) = v
    /\ Meaning("code", v) = v /\ Meaning("list", v) = v
    /\ Meaning("time", v) = proto_ts_to_datetime(v)
    /\ Meaning("count", v) = IF v = "zero" THEN "none" ELSE v
    /\ Meaning("named", v) = IF v = "new" THEN "none" ELSE v
    /\ Meaning("switch", v) = IF v = "none" THEN "zero" ELSE v
    /\ Meaning("id", v) = "set"
  BY Zenon DEF Meaning

LEMMA ValuesHeld ==
  ASSUME NEW d \in DOMAIN Held
  PROVE  Held[d] \subseteq Stored(d) /\ Stored(d) \subseteq Value
  BY HeldKinds, HeldIs, StoredIs DEF Value

\* A value is written as one of the kind, of the same meaning ...
LEMMA WrittenValue ==
  ASSUME NEW d \in DOMAIN Held, NEW w, Names(w, d), NEW v \in Held[d]
  PROVE  Written(w, v) \in Stored(d) /\ Meaning(d, Written(w, v)) = Meaning(d, v)
  BY HeldKinds, HeldIs, StoredIs, WrittenIs, MeaningIs DEF Names, Truthy, OrFalse

\* ... and read as one of the kind, of the same meaning, unless that raises.
LEMMA ReadValue ==
  ASSUME NEW d \in FrameSorts, NEW r, Names(r, d), NEW v \in Stored(d), ~Raises(r, v)
  PROVE  ReadAs(r, v) \in Held[d] /\ Meaning(d, ReadAs(r, v)) = Meaning(d, v)
  BY HeldIs, StoredIs, ReadIs, MeaningIs
  DEF Names, FrameSorts, DocumentSorts, Raises, proto_ts_to_datetime, Truthy, enum_name

\* What is read of a document goes back as it came, but for some times.
LEMMA SameValue ==
  ASSUME NEW d \in DocumentSorts, NEW r, NEW w, Names(r, d), Names(w, d),
         NEW v \in Stored(d), ~Raises(r, v)
  PROVE  Written(w, ReadAs(r, v)) = v \/ (d = "time" /\ v \in {"zero", "fine"})
  BY HeldIs, StoredIs, ReadIs, WrittenIs
  DEF Names, DocumentSorts, Raises, proto_ts_to_datetime, Truthy

-----------------------------------------------------------------------------
(* The inductive invariant. The attribute watched is carried, or is one of  *)
(* the known losses; this is what ConvertersTheorem says of all of them.    *)

WriteInv(p) ==
  IF p \in DOMAIN writes THEN Names(writes[p], Kind(p))
  ELSE Kind(p) = "optional" /\ p \in Lost

ReadInv(p) ==
  /\ Kind(p) \in FrameSorts
  /\ p \notin DOMAIN ProtoOnly \/ p \notin DOMAIN reads
  /\ IF p \in DOMAIN reads THEN Names(reads[p], Kind(p))
     ELSE Kind(p) \in Missing /\ p \in Lost

AttributesInv ==
  /\ watched # {}
  /\ \A p \in watched :
       /\ Kind(p) \in DOMAIN Held
       /\ p \in DOMAIN ProtoOnly => Kind(p) = "optional"
       /\ Writable => WriteInv(p)
       /\ Readable => ReadInv(p)
       /\ Readable /\ Writable => Kind(p) \in DocumentSorts

\* A call writes an object of a kind that can be written, and an answer is of
\* one that can be read; tries have numbers of their own.
CallInv ==
  /\ request # Nothing => Writable /\ answer = Nothing /\ copy # Nothing
  /\ answer # Nothing => Readable
  /\ origin # Nothing => Readable /\ copy # Nothing
  /\ \A t, u \in under_way : t.number = u.number => t = u

DocInv == DocTypeOK /\ AttributesInv /\ CallInv

\* What is not edited is as it was read, and is being written as it was read.
CopyInv ==
  origin # Nothing =>
    /\ ~ReadRaises(reads, origin)
    /\ \A p \in watched \ edited : copy[p] = Read(reads, origin)[p]

RequestInv ==
  request # Nothing /\ origin # Nothing =>
    \A p \in watched \ edited : request[p] = Write(writes, Read(reads, origin))[p]

-----------------------------------------------------------------------------
(* Whole messages and objects.                                              *)

LEMMA MessageNotNothing ==
  ASSUME AttributesInv, NEW m \in Messages \cup Objects
  PROVE  m # Nothing /\ DOMAIN m = watched
<1>1. DOMAIN m = watched
  BY DEF Messages, Objects
<1>2. DOMAIN Nothing = {}
  BY DEF Nothing
<1>3. QED
  BY <1>1, <1>2 DEF AttributesInv

LEMMA ObjectHolds ==
  ASSUME AttributesInv, NEW m \in Objects, NEW p \in watched
  PROVE  m[p] \in Held[Kind(p)]
<1>1. CASE p \in DOMAIN ProtoOnly
  BY <1>1, HeldIs DEF Objects, AttributesInv
<1>2. CASE p \notin DOMAIN ProtoOnly
  BY <1>2 DEF Objects
<1>3. QED
  BY <1>1, <1>2

LEMMA WrittenMessage ==
  ASSUME AttributesInv, Writable, NEW m \in Objects
  PROVE  /\ Write(writes, m) \in Messages
         /\ View(Write(writes, m)) = View(m)
<1> DEFINE w == Write(writes, m)
<1>1. DOMAIN m = watched
  BY DEF Objects
<1>2. w = [p \in watched |-> IF p \in DOMAIN writes THEN Written(writes[p], m[p]) ELSE "none"]
  BY <1>1 DEF Write, Carried
<1>3. ASSUME NEW p \in watched
      PROVE  /\ w[p] \in Stored(Kind(p)) /\ w[p] \in Value
             /\ p \notin Lost => Meaning(Kind(p), w[p]) = Meaning(Kind(p), m[p])
  <2>1. m[p] \in Held[Kind(p)] /\ Kind(p) \in DOMAIN Held /\ WriteInv(p)
    BY ObjectHolds DEF AttributesInv
  <2>2. CASE p \in DOMAIN writes
    BY <1>2, <2>1, <2>2, WrittenValue, ValuesHeld DEF WriteInv
  <2>3. CASE p \notin DOMAIN writes
    BY <1>2, <2>1, <2>3, StoredIs, HeldIs DEF WriteInv, Value
  <2>4. QED
    BY <2>2, <2>3
<1> HIDE DEF w
<1>4. w \in Messages
  BY <1>2, <1>3 DEF Messages
<1>5. View(w) = View(m)
  BY <1>1, <1>2, <1>3 DEF View
<1>6. QED
  BY <1>4, <1>5 DEF w

LEMMA ReadObject ==
  ASSUME AttributesInv, Readable, NEW m \in Messages, ~ReadRaises(reads, m)
  PROVE  /\ Read(reads, m) \in Objects
         /\ View(Read(reads, m)) = View(m)
<1> DEFINE r == Read(reads, m)
<1>1. DOMAIN m = watched
  BY DEF Messages
<1>2. r = [p \in watched |-> IF p \in DOMAIN reads THEN ReadAs(reads[p], m[p]) ELSE "none"]
  BY <1>1 DEF Read, Carried
<1>3. ASSUME NEW p \in watched
      PROVE  /\ r[p] \in Held[Kind(p)] /\ r[p] \in Value
             /\ p \in DOMAIN ProtoOnly => r[p] = "none"
             /\ p \notin Lost => Meaning(Kind(p), r[p]) = Meaning(Kind(p), m[p])
  <2>1. /\ m[p] \in Stored(Kind(p)) /\ Kind(p) \in DOMAIN Held /\ ReadInv(p)
        /\ p \in DOMAIN reads => ~Raises(reads[p], m[p])
    BY <1>1 DEF AttributesInv, Messages, ReadRaises
  <2>2. CASE p \in DOMAIN reads
    BY <1>2, <2>1, <2>2, ReadValue, ValuesHeld DEF ReadInv
  <2>3. CASE p \notin DOMAIN reads
    BY <1>2, <2>1, <2>3, HeldIs DEF ReadInv, Value, Missing
  <2>4. QED
    BY <2>2, <2>3
<1> HIDE DEF r
<1>4. r \in Objects
  BY <1>2, <1>3 DEF Objects
<1>5. View(r) = View(m)
  BY <1>1, <1>2, <1>3 DEF View
<1>6. QED
  BY <1>4, <1>5 DEF r

-----------------------------------------------------------------------------
(* The invariant holds initially and every action preserves it.             *)

LEMMA TableInit == DocInit => AttributesInv
<1> SUFFICES ASSUME DocInit PROVE AttributesInv
  OBVIOUS
<1>1. PICK a \in DOMAIN Declared[kind] :
        attributes = For(Declared[kind], {a} \cup Beside(a))
  BY DEF DocInit
<1>2. /\ watched \subseteq DOMAIN Declared[kind] /\ a \in watched
      /\ \A p \in watched : Kind(p) = Declared[kind][p]
  BY <1>1 DEF watched, Kind, For
<1>3. ASSUME Writable
      PROVE  /\ DOMAIN writes = watched \cap DOMAIN Writer[kind]
             /\ \A p \in DOMAIN writes : writes[p] = Writer[kind][p]
  BY <1>3 DEF DocInit, For
<1>4. ASSUME Readable
      PROVE  /\ DOMAIN reads = watched \cap DOMAIN Reader[kind]
             /\ \A p \in DOMAIN reads : reads[p] = Reader[kind][p]
  BY <1>4 DEF DocInit, For
<1>5. ASSUME NEW p \in watched
      PROVE  /\ Kind(p) \in DOMAIN Held
             /\ p \in DOMAIN ProtoOnly => Kind(p) = "optional"
             /\ Writable => WriteInv(p)
             /\ Readable => ReadInv(p)
             /\ Readable /\ Writable => Kind(p) \in DocumentSorts
  <2>1. Carries(kind, p, Kind(p)) /\ (Loses(kind, p) => p \in Lost)
    BY <1>2, ConvertersTheorem DEF DocInit, Lost
  <2>2. Writable => WriteInv(p)
    BY <1>3, <2>1 DEF Carries, Writable, WriteInv
  <2>3. Readable => ReadInv(p)
    BY <1>4, <2>1 DEF Carries, Readable, ReadInv
  <2>4. QED
    BY <2>1, <2>2, <2>3 DEF Carries, Readable, Writable
<1>6. QED
  BY <1>2, <1>5 DEF AttributesInv

LEMMA InvInit == DocInit => DocInv
<1> SUFFICES ASSUME DocInit PROVE DocInv
  OBVIOUS
<1>1. AttributesInv
  BY TableInit
<1>2. DOMAIN writes \subseteq watched /\ DOMAIN reads \subseteq watched
  BY DEF DocInit, For, Nothing
<1>3. DocTypeOK
  BY <1>2, DocumentsAssumption DEF DocInit, DocTypeOK
<1>4. CallInv
  BY DEF DocInit, CallInv
<1>5. QED
  BY <1>1, <1>3, <1>4 DEF DocInv

\* What a behaviour is about never changes.
LEMMA AttributesKept ==
  AttributesInv /\ UNCHANGED about =>
    /\ AttributesInv' /\ Messages' = Messages /\ Objects' = Objects
    /\ watched' = watched /\ (Readable <=> Readable') /\ (Writable <=> Writable')
  BY DEF AttributesInv, about, WriteInv, ReadInv, Messages, Objects, watched, Kind, Lost,
         Readable, Writable

LEMMA NextKeepsAbout == [DocNext]_doc_vars => UNCHANGED about
  BY DEF DocNext, doc_vars, Change, Get, Decode, Compose, Edit, Send, SendUnknownConfig,
         Retry, Perform, Finish

\* What one more try changes.
TriesOK ==
  /\ sends \in 0..MaxWrites /\ tries \in 0..sends
  /\ under_way \subseteq [number : 1..sends, message : Messages]
  /\ \A t, u \in under_way : t.number = u.number => t = u

LEMMA TryStep ==
  ASSUME DocInv, Try, request' \in Messages, UNCHANGED about
  PROVE  TriesOK'
<1>1. /\ sends \in 0..MaxWrites /\ changes \in 0..MaxWrites /\ tries \in 0..sends
      /\ Messages' = Messages
      /\ under_way \subseteq [number : 1..sends, message : Messages]
      /\ \A t, u \in under_way : t.number = u.number => t = u
  BY AttributesKept DEF DocInv, DocTypeOK, CallInv
<1>2. PICK n : n = [number |-> sends', message |-> request']
  OBVIOUS
<1>3. /\ tries' = tries + 1 /\ sends' = sends + 1 /\ sends + changes < MaxWrites
      /\ under_way' = under_way \cup {n}
  BY <1>2 DEF Try
<1>4. n \in [number : 1..sends', message : Messages] /\ n.number = sends + 1
  BY <1>1, <1>2, <1>3
<1>5. sends' \in 0..MaxWrites /\ tries' \in 0..sends'
  BY <1>1, <1>3, DocumentsAssumption
<1>6. \A t \in under_way :
        t.number \in 1..sends /\ t \in [number : 1..sends', message : Messages]
  BY <1>1, <1>3
<1>7. \A t, u \in under_way' : t.number = u.number => t = u
  BY <1>1, <1>3, <1>4, <1>6
<1>8. QED
  BY <1>1, <1>3, <1>4, <1>5, <1>6, <1>7 DEF TriesOK

LEMMA InvNext == DocInv /\ [DocNext]_doc_vars => DocInv'
<1> SUFFICES ASSUME DocInv, [DocNext]_doc_vars PROVE DocInv'
  OBVIOUS
<1> USE DEF DocInv
<1>1. UNCHANGED about
  BY NextKeepsAbout
<1>2. /\ AttributesInv' /\ Messages' = Messages /\ Objects' = Objects
      /\ watched' = watched /\ (Readable <=> Readable') /\ (Writable <=> Writable')
  BY <1>1, AttributesKept
<1>3. Nothing' = Nothing
  BY DEF Nothing
<1>4. ASSUME NEW p \in watched, NEW v \in Value, Change(p, v)
      PROVE  DocTypeOK' /\ CallInv'
  <2>1. store \in Messages /\ v \in Stored(Kind(p)) /\ store' = [store EXCEPT ![p] = v]
    BY <1>4 DEF Change, DocTypeOK
  <2>2. store' \in Messages
    BY <1>4, <2>1 DEF Messages
  <2>3. changes' \in 0..MaxWrites
    BY <1>4, DocumentsAssumption DEF Change, DocTypeOK
  <2>4. QED
    BY <1>1, <1>2, <1>3, <1>4, <2>2, <2>3
    DEF Change, DocTypeOK, CallInv, about, caller, writing
<1>5. ASSUME NEW p \in watched, NEW v \in Value, Edit(p, v)
      PROVE  DocTypeOK' /\ CallInv'
  <2>1. copy \in Objects /\ p \notin DOMAIN ProtoOnly
    BY <1>5 DEF Edit, DocTypeOK, Nothing
  <2>2. copy' \in Objects
    BY <1>5, <2>1 DEF Objects, Edit
  <2>3. copy' # Nothing
    BY <2>2, MessageNotNothing
  <2>4. edits' \in 0..MaxEdits
    BY <1>5, DocumentsAssumption DEF Edit, DocTypeOK
  <2>5. QED
    BY <1>1, <1>2, <1>3, <1>5, <2>2, <2>3, <2>4 DEF Edit, DocTypeOK, CallInv, about, writing
<1>6. ASSUME Get PROVE DocTypeOK' /\ CallInv'
  BY <1>1, <1>2, <1>3, <1>6 DEF Get, Idle, DocTypeOK, CallInv, about, caller, writing
<1>7. ASSUME Decode PROVE DocTypeOK' /\ CallInv'
  <2>1. Readable /\ answer \in Messages
    BY <1>7 DEF Decode, DocTypeOK, CallInv
  <2>2. CASE ReadRaises(reads, answer)
    BY <1>1, <1>2, <1>3, <1>7, <2>2 DEF Decode, DocTypeOK, CallInv, about, caller, writing
  <2>3. CASE ~ReadRaises(reads, answer)
    <3>1. copy' \in Objects /\ copy' # Nothing /\ origin' = answer
      BY <1>7, <2>1, <2>3, ReadObject, MessageNotNothing DEF Decode
    <3>2. QED
      BY <1>1, <1>2, <1>3, <1>7, <2>1, <2>3, <3>1
      DEF Decode, DocTypeOK, CallInv, about, writing
  <2>4. QED
    BY <2>2, <2>3
<1>8. ASSUME Compose PROVE DocTypeOK' /\ CallInv'
  <2>1. copy' \in Objects /\ copy' # Nothing
    BY <1>8, MessageNotNothing DEF Compose
  <2>2. QED
    BY <1>1, <1>2, <1>3, <1>8, <2>1 DEF Compose, DocTypeOK, CallInv, about, writing
<1>9. ASSUME Send PROVE DocTypeOK' /\ CallInv'
  <2>1. request' \in Messages /\ request' # Nothing /\ copy # Nothing
    BY <1>9, WrittenMessage, MessageNotNothing DEF Send, DocTypeOK
  <2>2. TriesOK'
    BY <1>9, <2>1, TryStep DEF Send
  <2>3. QED
    BY <1>1, <1>2, <1>3, <1>9, <2>1, <2>2
    DEF Send, Idle, DocTypeOK, CallInv, TriesOK, about, caller
<1>10. ASSUME SendUnknownConfig PROVE DocTypeOK' /\ CallInv'
  BY <1>1, <1>2, <1>3, <1>10
  DEF SendUnknownConfig, Idle, DocTypeOK, CallInv, about, caller, writing
<1>11. ASSUME Retry PROVE DocTypeOK' /\ CallInv'
  <2>1. Writable /\ copy \in Objects /\ request \in Messages
    BY <1>11 DEF Retry, CallInv, DocTypeOK
  <2>2. request' \in Messages /\ request' # Nothing
    BY <1>11, <2>1, WrittenMessage, MessageNotNothing DEF Retry
  <2>3. TriesOK'
    BY <1>11, <2>2, TryStep DEF Retry
  <2>4. QED
    BY <1>1, <1>2, <1>3, <1>11, <2>1, <2>2, <2>3
    DEF Retry, DocTypeOK, CallInv, TriesOK, about, caller
<1>12. ASSUME NEW t \in under_way, Perform(t) PROVE DocTypeOK' /\ CallInv'
  <2>1. t.message \in Messages
    BY DEF DocTypeOK
  <2>2. /\ store' = t.message /\ under_way' = under_way \ {t}
        /\ UNCHANGED <<answer, caller, request, tries, sends, outcome, changes>>
    BY <1>12 DEF Perform
  <2>3. QED
    BY <1>1, <1>2, <1>3, <2>1, <2>2 DEF DocTypeOK, CallInv, about, caller
<1>13. ASSUME Finish PROVE DocTypeOK' /\ CallInv'
  BY <1>1, <1>2, <1>3, <1>13, DocumentsAssumption
  DEF Finish, DocTypeOK, CallInv, about, caller
<1>14. CASE UNCHANGED doc_vars
  BY <1>1, <1>2, <1>3, <1>14 DEF doc_vars, caller, writing, about, DocTypeOK, CallInv
<1>15. QED
  BY <1>2, <1>4, <1>5, <1>6, <1>7, <1>8, <1>9, <1>10, <1>11, <1>12, <1>13, <1>14 DEF DocNext

\* Every variable has its type: whatever is edited, read, written or retried,
\* the converters only make messages and objects of the kind declared.
THEOREM DocTypeTheorem == DocSpec => []DocTypeOK
<1>1. DocSpec => []DocInv
  BY InvInit, InvNext, PTL DEF DocSpec
<1>2. DocInv => DocTypeOK
  BY DEF DocInv
<1>3. QED
  BY <1>1, <1>2, PTL

-----------------------------------------------------------------------------
(* A write changes what was edited and nothing else.                        *)

UneditedInv == CopyInv /\ RequestInv

LEMMA CopyInit == DocInit => UneditedInv
  BY DEF DocInit, UneditedInv, CopyInv, RequestInv

\* Writing an object writes each of its attributes by itself.
LEMMA WrittenAlike ==
  ASSUME NEW table, NEW m, NEW n, NEW p \in DOMAIN m, p \in DOMAIN n, m[p] = n[p]
  PROVE  Write(table, m)[p] = Write(table, n)[p]
  BY DEF Write, Carried

LEMMA CopyStep == DocInv /\ UneditedInv /\ [DocNext]_doc_vars => UneditedInv'
<1> SUFFICES ASSUME DocInv, UneditedInv, [DocNext]_doc_vars PROVE UneditedInv'
  OBVIOUS
<1>1. UNCHANGED about /\ watched' = watched /\ Nothing' = Nothing
  BY NextKeepsAbout DEF about, watched, Nothing
<1>2. CASE UNCHANGED <<copy, origin, edited, request>>
  BY <1>1, <1>2 DEF UneditedInv, CopyInv, RequestInv, about
<1>3. ASSUME NEW p \in watched, NEW v \in Value, Edit(p, v) PROVE UneditedInv'
  <2>1. copy \in Objects
    BY <1>3 DEF Edit, DocInv, DocTypeOK, Nothing
  <2>2. \A q \in watched \ edited' : q \notin edited /\ copy'[q] = copy[q]
    BY <1>3, <2>1 DEF Edit, Objects
  <2>3. QED
    BY <1>1, <1>3, <2>2 DEF Edit, UneditedInv, CopyInv, RequestInv, about, writing
<1>4. ASSUME Decode PROVE UneditedInv'
  <2>1. CASE ReadRaises(reads, answer)
    BY <1>1, <1>4, <2>1 DEF Decode, UneditedInv, CopyInv, RequestInv, about, caller, writing
  <2>2. CASE ~ReadRaises(reads, answer)
    <3>1. request' = Nothing
      BY <1>4 DEF Decode, writing, DocInv, CallInv
    <3>2. QED
      BY <1>1, <1>4, <2>2, <3>1 DEF Decode, UneditedInv, CopyInv, RequestInv, about
  <2>3. QED
    BY <2>1, <2>2
<1>5. ASSUME Compose PROVE UneditedInv'
  BY <1>1, <1>5 DEF Compose, DocInv, CallInv, UneditedInv, CopyInv, RequestInv
<1>6. ASSUME copy # Nothing, request' = Write(writes, copy), UNCHANGED caller
      PROVE  UneditedInv'
  <2>1. CASE origin = Nothing
    BY <1>1, <1>6, <2>1 DEF UneditedInv, CopyInv, RequestInv, caller
  <2>2. CASE origin # Nothing
    <3>1. copy \in Objects /\ origin \in Messages
      BY <1>6, <2>2 DEF DocInv, DocTypeOK
    <3>2. DOMAIN copy = watched /\ DOMAIN Read(reads, origin) = watched
      BY <3>1 DEF Objects, Messages, Read, Carried
    <3>3. \A p \in watched \ edited : copy[p] = Read(reads, origin)[p]
      BY <2>2 DEF UneditedInv, CopyInv
    <3>4. \A p \in watched \ edited :
            Write(writes, copy)[p] = Write(writes, Read(reads, origin))[p]
      BY <3>2, <3>3, WrittenAlike
    <3>5. QED
      BY <1>1, <1>6, <3>4 DEF UneditedInv, CopyInv, RequestInv, caller, about
  <2>3. QED
    BY <2>1, <2>2
<1>7. ASSUME Send PROVE UneditedInv'
  BY <1>6, <1>7 DEF Send
<1>8. ASSUME Retry PROVE UneditedInv'
  <2>1. copy # Nothing /\ UNCHANGED <<copy, origin, edited>>
    BY <1>8 DEF Retry, DocInv, CallInv, caller
  <2>2. QED
    BY <1>2, <1>6, <1>8, <2>1 DEF Retry, caller
<1>9. ASSUME Finish PROVE UneditedInv'
  BY <1>1, <1>9 DEF Finish, UneditedInv, CopyInv, RequestInv, about, caller
<1>10. QED
  BY <1>2, <1>3, <1>4, <1>5, <1>7, <1>8, <1>9
  DEF DocNext, Change, Get, SendUnknownConfig, Perform, doc_vars, caller, writing

\* A document that is read, edited and written back keeps every field that was
\* not edited as it was read, but for the known losses, a time of zero and one
\* finer than a datetime.
THEOREM WriteKeepsUneditedTheorem == DocSpec => []WriteKeepsUnedited
<1>1. DocSpec => []DocInv
  BY InvInit, InvNext, PTL DEF DocSpec
<1>2. DocSpec => []UneditedInv
  BY <1>1, CopyInit, CopyStep, PTL DEF DocSpec
<1>3. DocInv /\ UneditedInv => WriteKeepsUnedited
  <2> SUFFICES ASSUME DocInv, UneditedInv, request # Nothing, origin # Nothing,
                      NEW p \in DOMAIN origin \ (edited \cup Lost)
               PROVE  \/ Kind(p) = "time" /\ origin[p] \in {"zero", "fine"}
                      \/ p \in DOMAIN request /\ request[p] = origin[p]
    BY DEF WriteKeepsUnedited
  <2>1. /\ origin \in Messages /\ request \in Messages /\ AttributesInv
        /\ Readable /\ Writable
    BY DEF DocInv, DocTypeOK, CallInv
  <2>2. DOMAIN origin = watched /\ DOMAIN request = watched
    BY <2>1 DEF Messages
  <2>3. /\ Kind(p) \in DocumentSorts /\ WriteInv(p) /\ ReadInv(p)
        /\ origin[p] \in Stored(Kind(p))
    BY <2>1, <2>2 DEF AttributesInv, Messages
  <2>4. p \in DOMAIN writes /\ p \in DOMAIN reads
    BY <2>3 DEF WriteInv, ReadInv
  <2>5. ~Raises(reads[p], origin[p])
    BY <2>2, <2>4 DEF UneditedInv, CopyInv, ReadRaises
  <2>6. request[p] = Written(writes[p], ReadAs(reads[p], origin[p]))
    BY <2>2, <2>4 DEF UneditedInv, RequestInv, Write, Read, Carried
  <2>7. QED
    BY <2>2, <2>3, <2>4, <2>5, <2>6, SameValue DEF WriteInv, ReadInv
<1>4. QED
  BY <1>1, <1>2, <1>3, PTL

-----------------------------------------------------------------------------
(* The service and its callers share a register.                            *)

LEMMA NoView == View(Nothing) = Register!Nothing
<1>1. DOMAIN Nothing = {} /\ DOMAIN Register!Nothing = {}
  BY DEF Nothing, Register!Nothing
<1>2. View(Nothing) = [p \in {} |-> Meaning(Kind(p), Nothing[p])]
  BY <1>1 DEF View
<1>3. QED
  BY <1>2 DEF Register!Nothing

\* A view depends on what it is a view of and on the table of attributes only.
LEMMA ViewKept ==
  UNCHANGED about =>
    /\ (UNCHANGED store => UNCHANGED View(store))
    /\ (UNCHANGED answer => UNCHANGED View(answer))
    /\ (UNCHANGED copy => UNCHANGED View(copy))
    /\ (UNCHANGED request => UNCHANGED View(request))
    /\ (answer' = store => View(answer)' = View(store))
    /\ (answer' = request => View(answer)' = View(request))
    /\ (answer' = Nothing => View(answer)' = Register!Nothing)
    /\ (request' = Nothing => View(request)' = Register!Nothing)
  BY NoView DEF View, about, Lost, watched, Kind

\* What is written or read is of the same view.
LEMMA ViewWritten ==
  ASSUME DocInv, UNCHANGED about, Writable, copy # Nothing, request' = Write(writes, copy)
  PROVE  View(request)' = View(copy)
<1>1. View(Write(writes, copy)) = View(copy)
  BY WrittenMessage DEF DocInv, DocTypeOK
<1>2. View(request)' = View(Write(writes, copy))
  BY DEF View, about, Lost, watched, Kind
<1>3. QED
  BY <1>1, <1>2

LEMMA ViewRead ==
  ASSUME DocInv, UNCHANGED about, answer # Nothing, ~ReadRaises(reads, answer),
         copy' = Read(reads, answer)
  PROVE  View(copy)' = View(answer)
<1>1. View(Read(reads, answer)) = View(answer)
  BY ReadObject DEF DocInv, DocTypeOK, CallInv
<1>2. View(copy)' = View(Read(reads, answer))
  BY DEF View, about, Lost, watched, Kind
<1>3. QED
  BY <1>1, <1>2

LEMMA ViewsAfter == UNCHANGED about => Views' = {Seen(t) : t \in under_way'}
  BY DEF Views, Seen, View, about, Lost, watched, Kind

\* One more try is one more in the register's eyes ...
LEMMA TryViews ==
  ASSUME DocInv, UNCHANGED about, Try
  PROVE  \E u \in Views' \ Views :
           u.message = View(request)' /\ Views' = Views \cup {u}
<1>1. PICK n : n = [number |-> sends', message |-> request']
  OBVIOUS
<1>2. under_way' = under_way \cup {n} /\ n.number = sends' /\ sends' = sends + 1
  BY <1>1 DEF Try
<1>3. Views' = Views \cup {Seen(n)}
  BY <1>2, ViewsAfter DEF Views
<1>4. Seen(n).number = sends + 1 /\ Seen(n).message = View(n.message)
  BY <1>2 DEF Seen
<1>5. Seen(n) \notin Views
  <2>1. \A t \in under_way : Seen(t).number \in 1..sends
    BY DEF Seen, DocInv, DocTypeOK
  <2>2. sends \in Nat
    BY DocumentsAssumption DEF DocInv, DocTypeOK
  <2>3. QED
    BY <1>4, <2>1, <2>2 DEF Views
<1>6. View(n.message) = View(request)'
  BY <1>1 DEF View, about, Lost, watched, Kind
<1>7. QED
  BY <1>3, <1>4, <1>5, <1>6

\* ... and a try executed is that one less.
LEMMA PerformViews ==
  ASSUME DocInv, UNCHANGED about, NEW t \in under_way, Perform(t)
  PROVE  \E u \in Views : View(store)' = u.message /\ Views' = Views \ {u}
<1>1. under_way' = under_way \ {t} /\ store' = t.message
  BY DEF Perform
<1>2. \A u \in under_way : Seen(u) = Seen(t) => u = t
  <2>1. \A u \in under_way : Seen(u).number = u.number
    BY DEF Seen
  <2>2. QED
    BY <2>1 DEF DocInv, CallInv
<1>3. Views' = Views \ {Seen(t)}
  BY <1>1, <1>2, ViewsAfter DEF Views
<1>4. View(store)' = Seen(t).message
  BY <1>1 DEF Seen, View, about, Lost, watched, Kind
<1>5. QED
  BY <1>3, <1>4 DEF Views

LEMMA RegisterInit == DocInit => Register!Init
  BY NoView DEF DocInit, Register!Init, Views

LEMMA RegisterStep == DocInv /\ [DocNext]_doc_vars => [Register!Next]_(Register!vars)
<1> SUFFICES ASSUME DocInv, [DocNext]_doc_vars
             PROVE  Register!Next \/ UNCHANGED Register!vars
  OBVIOUS
<1>1. UNCHANGED about
  BY NextKeepsAbout
<1> DEFINE S == View(store)
           A == View(answer)
           C == View(copy)
           R == View(request)
           U == Views
<1>2. /\ (UNCHANGED store => S' = S) /\ (UNCHANGED answer => A' = A)
      /\ (UNCHANGED copy => C' = C) /\ (UNCHANGED request => R' = R)
      /\ (answer' = store => A' = S)
      /\ (answer' = request => A' = R)
      /\ (answer' = Nothing => A' = Register!Nothing)
      /\ (request' = Nothing => R' = Register!Nothing)
  BY <1>1, ViewKept
<1>3. /\ Writable /\ copy # Nothing /\ request' = Write(writes, copy) => R' = C
      /\ answer # Nothing /\ ~ReadRaises(reads, answer) /\ copy' = Read(reads, answer)
           => C' = A
  BY <1>1, ViewWritten, ViewRead
<1>4. /\ (UNCHANGED under_way => U' = U)
       /\ (Try => \E u \in U' \ U : u.message = R' /\ U' = U \cup {u})
       /\ \A t \in under_way : Perform(t) =>
            \E u \in U : S' = u.message /\ U' = U \ {u}
  BY <1>1, TryViews, PerformViews, ViewsAfter DEF Views
<1> HIDE DEF S, A, C, R, U
<1>5. ASSUME NEW p \in watched, NEW v \in Value, Change(p, v) PROVE Register!Change
  BY <1>2, <1>4, <1>5 DEF Change, caller, writing, Register!Change, S, A, C, R, U
<1>6. ASSUME NEW p \in watched, NEW v \in Value, Edit(p, v) PROVE Register!Edit
  BY <1>2, <1>4, <1>6 DEF Edit, caller, writing, Register!Edit, S, A, C, R, U
<1>7. ASSUME Get PROVE Register!Fetch
  BY <1>2, <1>4, <1>7 DEF Get, caller, writing, Register!Fetch, S, A, C, R, U
<1>8. ASSUME Decode PROVE Register!Deliver
  BY <1>2, <1>3, <1>4, <1>8 DEF Decode, caller, writing, Register!Deliver, S, A, C, R, U
<1>9. ASSUME Compose PROVE Register!Edit
  BY <1>2, <1>4, <1>9 DEF Compose, writing, Register!Edit, S, A, C, R, U
<1>10. ASSUME Send PROVE Register!Send
  BY <1>2, <1>3, <1>4, <1>10 DEF Send, caller, Register!Send, Register!Sent, S, A, C, R, U
<1>11. ASSUME SendUnknownConfig PROVE UNCHANGED Register!vars
  BY <1>2, <1>4, <1>11 DEF SendUnknownConfig, caller, writing, Register!vars, S, A, C, R, U
<1>12. ASSUME Retry PROVE Register!Again
  <2>1. Writable /\ copy # Nothing
    BY <1>12 DEF Retry, DocInv, CallInv
  <2>2. QED
    BY <1>2, <1>3, <1>4, <1>12, <2>1 DEF Retry, caller, Register!Again, Register!Sent, S, A, C, R, U
<1>13. ASSUME NEW t \in under_way, Perform(t) PROVE Register!Execute
  BY <1>2, <1>4, <1>13 DEF Perform, caller, Register!Execute, S, A, C, R, U
<1>14. ASSUME Finish PROVE Register!Finish
  <2>1. answer = Nothing
    BY <1>14 DEF Finish, DocInv, CallInv
  <2>2. QED
    BY <1>2, <1>4, <1>14, <2>1 DEF Finish, caller, Register!Finish, S, A, C, R, U
<1>15. CASE UNCHANGED doc_vars
  BY <1>2, <1>4, <1>15 DEF doc_vars, caller, writing, Register!vars, S, A, C, R, U
<1>16. QED
  BY <1>5, <1>6, <1>7, <1>8, <1>9, <1>10, <1>11, <1>12, <1>13, <1>14, <1>15
  DEF DocNext, Register!Next

\* The SDK and a service implement the register: but for the known losses, a
\* caller reads what the service has, and the service stores what the caller had
\* when it made a try, for any number of calls and tries, executed late and in
\* any order.
THEOREM RegisterTheorem == DocSpec => KeepsRegister
<1>1. DocSpec => []DocInv
  BY InvInit, InvNext, PTL DEF DocSpec
<1>2. QED
  BY <1>1, RegisterInit, RegisterStep, PTL DEF DocSpec, KeepsRegister, Register!Spec
=============================================================================
