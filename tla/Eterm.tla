------------------------------- MODULE Eterm --------------------------------
(***************************************************************************)
(* Erlang terms in the external format, and the decoders of                *)
(* src/c_src/lib/wm_entity_utils.cpp.  A term is the sequence of its       *)
(* tokens: one token for an atom, a number or a text, and for a compound   *)
(* one token with its arity before the terms in it; a list has one more    *)
(* term, its tail.  The buffer of a record is one such sequence, and what  *)
(* is not read as it was written puts everything after it out of step.     *)
(*                                                                         *)
(* A decoder gives back whether it succeeded, the index it leaves, and the *)
(* positions of the buffer whose values have gone into the C++ object.     *)
(***************************************************************************)
EXTENDS Integers, FiniteSetsExt, SequencesExt, Entities

(***************************************************************************)
(* Terms.  ei_get_type makes one kind of every encoding of an atom, of a   *)
(* float and of an integer that fits 64 bits.  term_to_binary writes a     *)
(* list of bytes as a STRING up to 65535 of them and as a LIST beyond, and *)
(* the empty string as NIL.                                                *)
(***************************************************************************)
Scalar == {"ATOM", "STRING", "BINARY", "INTEGER", "NEGATIVE", "FLOAT"}
Token(kind, arity) == [kind |-> kind, arity |-> arity, data |-> kind \in Scalar]
Term(kind) == <<Token(kind, 0)>>
Compound(kind, arity, ts) == <<Token(kind, arity)>> \o FlattenSeq(ts)
ListOf(ts) == IF ts = <<>> THEN Term("NIL")
              ELSE Compound("LIST", Len(ts), Append(ts, Term("NIL")))
TupleTerm(ts) == Compound("TUPLE", Len(ts), ts)
MapOf(es) == Compound("MAP", Len(es), es)            \* of entries: key \o value
RecordOf(ts) == Compound("TUPLE", Len(ts) + 1,
                         <<<<[Token("ATOM", 0) EXCEPT !.data = FALSE]>>>> \o ts)
EmptyMap == Term("MAP")
LongText == ListOf(<<Term("INTEGER"), Term("INTEGER")>>)    \* more than 65535 bytes

(* Reading a buffer.  Beyond its end there is nothing that decodes.        *)
Kind(b, i) == IF i \in 1 .. Len(b) THEN b[i].kind ELSE "BEYOND"
Arity(b, i) == IF i \in 1 .. Len(b) THEN b[i].arity ELSE 0
Good(i, took) == [ok |-> TRUE, at |-> i, took |-> took]
Bad(i) == [ok |-> FALSE, at |-> i, took |-> {}]

(* ei_skip_term: the index after need more terms.                          *)
Parts(t) == CASE t.kind = "LIST" -> t.arity + 1
              [] t.kind = "MAP" -> 2 * t.arity
              [] OTHER -> t.arity
SkipTerms(b, i, need) ==
    LET skip[j \in Nat] == [n \in Nat |->
            IF n = 0 \/ j > Len(b) THEN j ELSE skip[j + 1][n - 1 + Parts(b[j])]]
    IN skip[i][need]
SkipTerm(b, i) == SkipTerms(b, i, 1)

(***************************************************************************)
(* Scalars.                                                                *)
(***************************************************************************)
Take(b, i, kinds) == IF Kind(b, i) \in kinds THEN Good(i + 1, {i}) ELSE Bad(i)

ReadAtom(b, i) == Take(b, i, {"ATOM"})
ReadUint64(b, i) == Take(b, i, {"INTEGER"})         \* ei_decode_ulong: not negative
ReadInt64(b, i) == Take(b, i, {"INTEGER", "NEGATIVE"})
ReadDouble(b, i) == Take(b, i, {"FLOAT"})

(* Anything that is not a text is skipped and read as the empty string.    *)
ReadStrBinaryOnly(b, i) ==                                          \* mutant
    IF Kind(b, i) = "BINARY" THEN Good(i + 1, {i}) ELSE Good(SkipTerm(b, i), {})
ReadStr(b, i) == IF Kind(b, i) \in {"BINARY", "STRING"} THEN Good(i + 1, {i})
                 ELSE Good(SkipTerm(b, i), {})

CopyTerm(b, i) ==
    Good(SkipTerm(b, i), {j \in i .. SkipTerm(b, i) - 1 : j \in DOMAIN b /\ b[j].data})

(***************************************************************************)
(* What is in a compound term is read by the decoders with these names:    *)
(* the elements of a list, the parts of a tuple or of an entry of a map,   *)
(* the fields of a record.  reads is the function that does so, from the   *)
(* name of a decoder and an index.                                         *)
(***************************************************************************)
ElementOf == [strs |-> "str", str_strs |-> "str_str", atom_strs |-> "atom_str",
              atom_buffs |-> "atom_buff", uint64s |-> "uint64", resources |-> "resource",
              timetables |-> "timetable", metrics |-> "metric"]
PartsOf == [str_str |-> <<"str", "str">>, atom_str |-> <<"atom", "str">>,
            atom_buff |-> <<"atom", "term">>, entry |-> <<"str", "map_value">>]
Decoder == {"str", "atom", "uint64", "int64", "double", "map", "map_value", "term"}
           \union DOMAIN ElementOf \union DOMAIN PartsOf \union DOMAIN Schema

(* One term after the other; the first failure is where it ends.           *)
And(first, next) ==
    IF first.ok THEN [ok |-> next.ok, at |-> next.at, took |-> first.took \union next.took]
    ELSE first
ReadAll(reads, decoders, i) ==
    LET after[k \in 0 .. Len(decoders)] ==
            IF k = 0 THEN Good(i, {})
            ELSE LET before == after[k - 1]
                 IN And(before, reads[decoders[k]][before.at])
    IN after[Len(decoders)]

(* Tuples.  Only atom_str looks at the arity.                              *)
ReadTuple(reads, decoder, b, i) ==
    IF Kind(b, i) # "TUPLE" \/ (decoder = "atom_str" /\ Arity(b, i) # 2) THEN Bad(i)
    ELSE ReadAll(reads, PartsOf[decoder], i + 1)

(***************************************************************************)
(* Maps become maps of texts: the key is read as a text, so that an atom   *)
(* gives the empty one, and so is a list; a value of another kind is left  *)
(* where it is.                                                            *)
(***************************************************************************)
ReadMapValue(b, i) ==
    CASE Kind(b, i) \in {"LIST", "STRING"} -> ReadStr(b, i)
      [] Kind(b, i) \in {"ATOM", "FLOAT", "INTEGER", "NEGATIVE"} -> Good(i + 1, {i})
      [] Kind(b, i) = "NIL" -> Good(i + 1, {})
      [] OTHER -> Good(i, {})
ReadMap(reads, b, i) ==
    IF Kind(b, i) # "MAP" THEN Bad(i)
    ELSE ReadAll(reads, [k \in 1 .. Arity(b, i) |-> "entry"], i + 1)

(***************************************************************************)
(* Lists: the elements with their decoder, and the tail skipped.           *)
(***************************************************************************)
ListEndsInTail(b, i) == Good(i, {})         \* mutant: the tail is not skipped
ListEnds(b, i) == Good(SkipTerm(b, i), {})
ReadList(reads, decoder, b, i) ==
    CASE Kind(b, i) = "NIL" -> Good(i + 1, {})
      [] Kind(b, i) = "LIST" ->
             LET elements == ReadAll(reads, [k \in 1 .. Arity(b, i) |-> decoder], i + 1)
             IN And(elements, ListEnds(b, elements.at))
      [] OTHER -> Bad(i)

(* Small numbers only come as a STRING, their bytes taken as they are.     *)
ReadUint64sAsList(reads, b, i) == ReadList(reads, "uint64", b, i)   \* mutant
ReadUint64s(reads, b, i) == IF Kind(b, i) = "STRING" THEN Good(i + 1, {i})
                            ELSE ReadList(reads, "uint64", b, i)

(***************************************************************************)
(* Records.  The constructor skips the name and ends at the first field    *)
(* that fails; inside another record nobody hears of it.  In a list of     *)
(* records what is not a tuple is left where it is.                        *)
(***************************************************************************)
ReadRecord(reads, e, b, i) ==
    IF Kind(b, i) # "TUPLE" THEN Good(i, {})
    ELSE LET decoders == [k \in DOMAIN Schema[e] |-> Schema[e][k][2]]
             fields == ReadAll(reads, decoders, SkipTerm(b, i + 1))
         IN Good(fields.at, fields.took)

ReadWith(reads, decoder, b, i) ==
    CASE decoder = "str" -> ReadStr(b, i)
      [] decoder = "atom" -> ReadAtom(b, i)
      [] decoder = "uint64" -> ReadUint64(b, i)
      [] decoder = "int64" -> ReadInt64(b, i)
      [] decoder = "double" -> ReadDouble(b, i)
      [] decoder = "map" -> ReadMap(reads, b, i)
      [] decoder = "map_value" -> ReadMapValue(b, i)
      [] decoder = "term" -> CopyTerm(b, i)
      [] decoder = "entry" -> ReadAll(reads, PartsOf["entry"], i)
      [] decoder \in DOMAIN PartsOf \ {"entry"} -> ReadTuple(reads, decoder, b, i)
      [] decoder = "uint64s" -> ReadUint64s(reads, b, i)
      [] decoder \in DOMAIN ElementOf \ {"uint64s"} ->
             ReadList(reads, ElementOf[decoder], b, i)
      [] OTHER -> ReadRecord(reads, decoder, b, i)

(* Each level of nesting has a token of its own, so that no more levels    *)
(* are needed than the buffer has tokens.                                  *)
Read(decoder, b, i) ==
    LET level[n \in 0 .. Len(b)] == [d \in Decoder |-> [j \in Nat |->
            IF n = 0 THEN Bad(j) ELSE ReadWith(level[n - 1], d, b, j)]]
    IN level[Len(b)][decoder][i]
=============================================================================
