------------------------------ MODULE Records -------------------------------
(***************************************************************************)
(* A record on its way from Erlang to a C++ program.  Porter is sent the   *)
(* user and the job by wm_porter_protocol, a scheduler its tables; the     *)
(* constructor of the record's class reads it field by field.  Some        *)
(* fields may hold any of the values their Erlang types allow, the others  *)
(* the plainest, and so may the records in a list.                         *)
(*                                                                         *)
(* A job's record comes back: what has become of the job is written into   *)
(* it, and after a requeue Porter reads it again.                          *)
(***************************************************************************)
EXTENDS Eterm

CONSTANTS Entity,     \* the records that are sent
          MaxRuns,    \* bound: how often a job is sent to Porter
          MaxList,    \* bound: elements of a list, entries of a map
          MaxDepth,   \* bound: how deep lists and records are nested
          MaxChanged  \* bound: fields of one record that are not plain

ASSUME RecordsAssumption ==
    Entity \subseteq DOMAIN Schema /\ {MaxRuns, MaxList, MaxDepth, MaxChanged} \subseteq Nat

VARIABLES
    entity, \* which record this is
    record, \* its fields, as terms
    phase,  \* "stored", "reading", "read", "cut": the constructor gave up, "ended"
    field,  \* the field that is read next
    at,     \* the constructor's index
    taken,  \* for each field read, the positions its decoder has copied
    runs,   \* how often it has been sent
    failed  \* a run of the job has ended without an exit code
vars == <<entity, record, phase, field, at, taken, runs, failed>>

Fields(e) == Schema[e]
Name == RecordOf(<<>>)                                      \* {Name, ...}
Buffer == RecordOf(record)
StartOf(k) == Len(Name) + Len(FlattenSeq(SubSeq(record, 1, k - 1))) + 1
SentIn(k) == StartOf(k) .. StartOf(k + 1) - 1               \* the positions of field k
DataIn(k) == {i \in SentIn(k) : Buffer[i].data}

(***************************************************************************)
(* What Erlang keeps in a field of the type the decoder stands for.  An    *)
(* address map of a partition has atoms for keys and a list of addresses,  *)
(* and the runtime map of a remote atoms for keys (wm_gate_parsers and     *)
(* src/priv/setup); prices are numbers by account.                         *)
(***************************************************************************)
Lists(ts) == BoundedSeq(ts, MaxList)
Maps(ks, vs) == {MapOf(es) : es \in Lists(UNION {{k \o v : v \in vs} : k \in ks})}
Text == {Term("STRING"), Term("NIL"), Term("BINARY")}
Prices == Maps({Term("STRING")}, {Term("FLOAT"), Term("INTEGER")})
Addresses == Maps({Term("ATOM")}, {Term("STRING"), ListOf(<<Term("STRING")>>)})

(* The plainest value.                                                     *)
Simple == [str |-> Term("STRING"), atom |-> Term("ATOM"), uint64 |-> Term("INTEGER"),
           int64 |-> Term("INTEGER"), double |-> Term("FLOAT"), map |-> EmptyMap]
PlainIn(d) ==
    CASE d \in DOMAIN Simple -> Simple[d]
      [] d = "executable" ->
             RecordOf([k \in DOMAIN ExecutableSchema |-> Simple[ExecutableSchema[k][2]]])
      [] OTHER -> Term("NIL")
PlainRecord(e) == [k \in DOMAIN Schema[e] |-> PlainIn(Schema[e][k][2])]

(* The records whose fields are plain but for some, which are of values.   *)
RecordsIn(e, values) ==
    LET Of(k) == values[Schema[e][k][2]]
    IN UNION {{[k \in DOMAIN Schema[e] |-> IF k \in K THEN v[k] ELSE PlainRecord(e)[k]] :
                   v \in {v \in [K -> UNION {Of(k) : k \in K}] : \A k \in K : v[k] \in Of(k)}} :
              K \in {Range(ks) : ks \in [1 .. MaxChanged -> DOMAIN Schema[e]]}}

(* The values that are read as they are, by decoder, with inside them the  *)
(* ones that are nested less deep.                                         *)
Flat == [str |-> Text, atom |-> {Term("ATOM")}, uint64 |-> {Term("INTEGER")},
         int64 |-> {Term("INTEGER"), Term("NEGATIVE")}, double |-> {Term("FLOAT")},
         map |-> Prices, term |-> {Term("ATOM"), ListOf(<<Term("STRING"), Term("INTEGER")>>)}]
Pairs(d) == UNION {{TupleTerm(<<v, w>>) : w \in Flat[PartsOf[d][2]]} :
                   v \in Flat[PartsOf[d][1]]}
ValuesOver(inside) == [d \in Decoder |->
    CASE d \in DOMAIN Flat -> Flat[d]
      [] d \in DOMAIN PartsOf \ {"entry"} -> Pairs(d)
      [] d \in DOMAIN ElementOf ->
             {ListOf(ts) : ts \in Lists(inside[ElementOf[d]])}
             \union (IF d = "uint64s" THEN {Term("STRING")} ELSE {})
      [] d \in DOMAIN Schema ->
             {RecordOf(r) : r \in {PlainRecord(d)} \union RecordsIn(d, inside)}
      [] OTHER -> {}]
Values(depth) ==
    LET upTo[n \in 0 .. depth] ==
            ValuesOver(IF n = 0 THEN [d \in Decoder |-> {}] ELSE upTo[n - 1])
    IN upTo[depth]

(* In a field of a record that is sent there is more.                      *)
Lossy == {LongText} \union Addresses
Sent == [d \in Decoder |-> Values(MaxDepth)[d] \union
            CASE d = "str" -> {LongText} [] d = "map" -> Addresses [] OTHER -> {}]

Init ==
    /\ entity \in Entity
    /\ record \in RecordsIn(entity, Sent)
    /\ phase = "stored"
    /\ field = 0
    /\ at = 1
    /\ taken = <<>>
    /\ runs = 0
    /\ failed = FALSE

(* term_to_binary of the record, and parse_data up to the constructor.     *)
Send ==
    /\ phase = "stored"
    /\ phase' = "reading"
    /\ field' = 0
    /\ at' = 1
    /\ taken' = <<>>
    /\ runs' = runs + 1
    /\ UNCHANGED <<entity, record, failed>>

(* The tuple's header, of any arity, and its first atom.                   *)
ReadHeader ==
    /\ phase = "reading" /\ field = 0
    /\ Kind(Buffer, at) = "TUPLE"
    /\ field' = 1
    /\ at' = SkipTerm(Buffer, at + 1)
    /\ UNCHANGED <<entity, record, phase, taken, runs, failed>>

(* The next field; the constructor returns at the first that fails, with   *)
(* no way to say so, and the members after it keep their first values.     *)
ReadField ==
    /\ phase = "reading" /\ field \in DOMAIN Fields(entity)
    /\ LET r == Read(Fields(entity)[field][2], Buffer, at)
       IN /\ at' = r.at
          /\ taken' = IF r.ok THEN Append(taken, r.took) ELSE taken
          /\ phase' = CASE ~r.ok -> "cut"
                        [] r.ok /\ field = Len(Fields(entity)) -> "read"
                        [] OTHER -> "reading"
    /\ field' = field + 1
    /\ UNCHANGED <<entity, record, runs, failed>>

(* What becomes of the job is written into its record: a code and no       *)
(* signal, no code and the signal it died of, or the numbers of a new      *)
(* process when it could not be started.                                   *)
JobField(name) == CHOOSE k \in DOMAIN JobSchema : JobSchema[k][1] = name
JobEnds(exitcode, signal) ==
    /\ entity = "job" /\ phase \in {"read", "cut"}
    /\ record' = [record EXCEPT ![JobField("exitcode")] = Term(exitcode),
                                ![JobField("signal")] = Term(signal)]
    /\ phase' = "ended"
    /\ failed' = (failed \/ exitcode = "NEGATIVE")
    /\ UNCHANGED <<entity, field, at, taken, runs>>

(* A requeue changes the state alone.                                      *)
Requeue ==
    /\ phase = "ended" /\ runs < MaxRuns
    /\ phase' = "stored"
    /\ UNCHANGED <<entity, record, field, at, taken, runs, failed>>

Next ==
    \/ Send \/ ReadHeader \/ ReadField \/ Requeue
    \/ JobEnds("INTEGER", "INTEGER")
    \/ JobEnds("NEGATIVE", "INTEGER")
    \/ JobEnds("NEGATIVE", "NEGATIVE")
Spec == Init /\ [][Next]_vars

(***************************************************************************)
(* Properties.                                                             *)
(***************************************************************************)

(* The constructor stays in step with the term: it stands at the first     *)
(* token of the field it is about to read, and no field takes the value of *)
(* another, whatever lists, maps and records are before it                 *)
(* (the indexes the decoders of wm_entity_utils.cpp leave).                *)
InStep ==
    /\ phase = "reading" /\ field > 0 => at = StartOf(field)
    /\ phase # "ended" /\ phase # "stored" =>
           \A k \in DOMAIN taken : taken[k] \subseteq SentIn(k)

(* No value that Erlang keeps in a field makes the constructor return      *)
(* early, but for the -1 that an earlier run has left in the exit code of  *)
(* a job; then all that is lost is what stands after the exit code (the    *)
(* returns of the constructors, ei_buffer_to_uint64_t).                    *)
CutOnlyAfterFailure ==
    phase = "cut" => failed /\ field > JobField("exitcode")

(* What has been read has its value: only a text of more than 65535 bytes, *)
(* and in a map the keys that are atoms and the lists, are read as empty   *)
(* (ei_buffer_to_str, ei_buffer_to_map).                                   *)
NothingElseLost ==
    phase \in {"read", "cut"} =>
        \A k \in DOMAIN taken : DataIn(k) # taken[k] => record[k] \in Lossy

(* The script Porter saves and starts is the script that was submitted     *)
(* (SwmJob::script_content).                                               *)
ScriptArrives ==
    entity = "job" /\ phase = "read" =>
        DataIn(JobField("script_content")) = taken[JobField("script_content")]
=============================================================================
