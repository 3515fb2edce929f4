---------------------------- MODULE JsonColumns ----------------------------
(***************************************************************************)
(* The tabular exports of src/modality_docs.cpp, ukv_docs_gist and         *)
(* ukv_docs_gather, and its conversions between JSON, BSON and MsgPack.    *)
(***************************************************************************)
EXTENDS Json

CONSTANT PathLimit      \* field_path_len_limit_k, in tokens

-----------------------------------------------------------------------------
(* ukv_docs_gist: the paths of the leaves, each exported when first met.   *)
(* A gist is [ok, paths]; `path` is the buffer shared by the recursion.    *)

ExportPath(path, gist) ==
    IF \E i \in 1..Len(gist.paths) : gist.paths[i] = path THEN gist
    ELSE [gist EXCEPT !.paths = Append(@, path)]

RECURSIVE GistRecursively(_, _, _), GistChildren(_, _, _)
GistRecursively(node, path, gist) ==
    CASE node.kind = "obj" -> GistChildren(node.members, path, gist)
      [] node.kind = "arr" ->
           GistChildren([i \in 1..Len(node.elems) |-> Member(Token(i), node.elems[i])], path, gist)
      [] OTHER -> ExportPath(path, gist)
GistChildren(members, path, gist) ==
    IF members = <<>> \/ ~gist.ok THEN gist
    ELSE IF Len(path) + 1 > PathLimit THEN [gist EXCEPT !.ok = FALSE]
    ELSE GistChildren(Tail(members), path,
                      GistRecursively(Head(members).val, Append(path, Head(members).key), gist))

RECURSIVE GistOf(_, _)
GistOf(docs, gist) ==
    IF docs = <<>> \/ ~gist.ok THEN gist
    ELSE GistOf(Tail(docs), IF Head(docs) = Missing THEN gist
                            ELSE GistRecursively(Head(docs), <<>>, gist))

Gist(docs) == GistOf(docs, [ok |-> TRUE, paths |-> <<>>])

-----------------------------------------------------------------------------
(* ukv_docs_gather.  The column types are told apart by what decides the   *)
(* bits of json_to_scalar: booleans, signed and unsigned integers, floats, *)
(* and strings.                                                            *)

ScalarTypes == {"bool", "int", "uint", "float"}

(* parse_entire_number: the strings that are entirely a value of the type. *)
Parses(str, type) == CASE type = "bool" -> str = "true" [] OTHER -> str = "7"

(* The bits json_to_scalar and json_to_string decide on. *)
Bits(convert, collide, valid) == [convert |-> convert, collide |-> collide, valid |-> valid]

JsonToScalar(value, type) ==
    CASE value.kind = "null" -> Bits(FALSE, FALSE, FALSE)
      [] value.kind \in {"none", "obj", "arr"} -> Bits(FALSE, TRUE, FALSE)
      [] value.kind = "bool" -> Bits(type # "bool", FALSE, TRUE)
      [] value.kind = "str" /\ Parses(value.str, type) -> Bits(TRUE, FALSE, TRUE)
      [] value.kind = "str" /\ ~Parses(value.str, type) -> Bits(FALSE, TRUE, FALSE)
      [] value.kind = "uint" -> Bits(type \notin {"uint", "bool"}, FALSE, TRUE)
      [] value.kind = "sint" -> Bits(type # "int", FALSE, TRUE)
      [] value.kind = "real" -> Bits(type # "float", FALSE, TRUE)

JsonToString(value) ==
    CASE value.kind = "null" -> Bits(FALSE, FALSE, FALSE)
      [] value.kind \in {"none", "obj", "arr"} -> Bits(FALSE, TRUE, FALSE)
      [] value.kind = "str" -> Bits(FALSE, FALSE, TRUE)
      [] OTHER -> Bits(TRUE, FALSE, TRUE)

BitsOf(value, type) ==
    IF type \in ScalarTypes THEN JsonToScalar(value, type) ELSE JsonToString(value)

(* The bitmaps of a column.  One that was not requested shares the memory  *)
(* of the validities, so the order of the three stores matters.            *)
MapOf(bit, wanted) == IF bit \in wanted THEN bit ELSE "valid"
Store(maps, bit, wanted, to) == [maps EXCEPT ![MapOf(bit, wanted)] = to]
(* Mutant: the validity is stored first. *)
SetBitsValidFirst(maps, bits, wanted) ==
    Store(Store(Store(maps, "valid", wanted, bits.valid),
                "convert", wanted, bits.convert),
          "collide", wanted, bits.collide)

SetBits(maps, bits, wanted) ==
    Store(Store(Store(maps, "convert", wanted, bits.convert),
                "collide", wanted, bits.collide),
          "valid", wanted, bits.valid)

(* The bits of one document in one column, from the garbage of the arena.  *)
(* The bits of a document that is not there are never set.                 *)
GatherBits(doc, field, type, wanted, garbage) ==
    LET fresh == [b \in {"convert", "collide", "valid"} |-> garbage]
    IN  IF doc = Missing THEN fresh
        ELSE SetBits(fresh, BitsOf(Lookup(doc, field), type), wanted)

(* The characters json_to_string returns.  A boolean comes with its        *)
(* terminator: string_view(true_k, 5).                                     *)
CharsOf(value) ==
    CASE value.kind = "str" -> IF value.str = "" THEN <<>> ELSE <<value.str>>
      [] value.kind = "bool" -> <<value.bool, "nul">>
      [] value.kind \in {"uint", "sint"} -> <<"digits", value.num>>
      [] value.kind = "real" -> <<"digits">>
      [] OTHER -> <<>>

(* set_str: the value is appended to the joined strings, which hold the    *)
(* values of all the columns document after document.                      *)
SetStr(out, doc, field, with_separator, is_last) ==
    LET str == CharsOf(Lookup(doc, field))
        tape == out.tape \o str \o (IF with_separator THEN <<"nul">> ELSE <<>>)
    IN  [tape |-> tape,
         cells |-> Append(out.cells, [off |-> Len(out.tape), len |-> Len(str)]),
         end |-> IF is_last THEN Len(tape) ELSE out.end]

RECURSIVE GatherRow(_, _, _, _), GatherStrings(_, _, _)
GatherRow(out, doc, columns, is_last) ==
    IF columns = <<>> THEN out
    ELSE GatherRow(SetStr(out, doc, Head(columns).field, Head(columns).type = "str", is_last),
                   doc, Tail(columns), is_last)
GatherStrings(out, docs, columns) ==
    IF docs = <<>> THEN out
    ELSE GatherStrings(IF Head(docs) = Missing THEN out
                       ELSE GatherRow(out, Head(docs), columns, Len(docs) = 1),
                       Tail(docs), columns)

Gather(docs, columns) ==
    GatherStrings([tape |-> <<>>, cells |-> <<>>, end |-> 0], docs, columns)

-----------------------------------------------------------------------------
(* Conversions.  The JSON a converter prints from a document in another    *)
(* format is either well-formed or refused by json_parse.                  *)

(* print_number of a float: "%f" without its last digit. *)
PrintReal(r) == IF r = "fine" THEN "coarse" ELSE r

(* The BSON visitor prints the indexes of arrays as keys, and a brace and  *)
(* a quote after every double: json_parse refuses both.                    *)
RECURSIVE BsonPrints(_)
BsonPrints(val) ==
    CASE val.kind = "obj" -> \A i \in 1..Len(val.members) : BsonPrints(val.members[i].val)
      [] val.kind = "arr" -> val.elems = <<>>
      [] OTHER -> val.kind # "real"

(* Texts with characters that JSON escapes.  The MsgPack reader prints the *)
(* bytes of texts and keys as they are: json_parse takes a backslash for   *)
(* an escape, ends at a quote, with a rest that is no JSON, and refuses a  *)
(* zero byte, which can only be in a key, since a text ends before it.     *)
Special == {"backslash", "quote", "zero"}
Raw(text) ==
    CASE text = "backslash" -> "escape"
      [] text = "zero" -> "before zero"
      [] OTHER -> text

(* The MsgPack reader prints no comma between elements, and takes a text   *)
(* up to the next zero byte: its own, or that behind the whole message.    *)
RECURSIVE PackPrints(_, _)
PackPrints(val, at_end) ==
    CASE val.kind = "obj" ->
           \A i \in 1..Len(val.members) :
               /\ val.members[i].key \notin {"quote", "zero"}
               /\ PackPrints(val.members[i].val, at_end /\ i = Len(val.members))
      [] val.kind = "arr" ->
           /\ Len(val.elems) <= 1
           /\ \A i \in 1..Len(val.elems) : PackPrints(val.elems[i], at_end)
      [] val.kind = "str" -> val.str # "quote" /\ (at_end \/ val.str = "zero")
      [] OTHER -> TRUE

RECURSIVE Printed(_)
Printed(val) ==
    CASE val.kind = "obj" ->
           Obj([i \in 1..Len(val.members) |->
                  Member(Raw(val.members[i].key), Printed(val.members[i].val))])
      [] val.kind = "arr" -> Arr([i \in 1..Len(val.elems) |-> Printed(val.elems[i])])
      [] val.kind = "str" -> Str(Raw(val.str))
      [] val.kind = "real" -> Real(PrintReal(val.real))
      [] OTHER -> val

(* any_parse of a document that arrives in `format`. *)
AnyParse(val, format) ==
    CASE format = "bson" -> IF BsonPrints(val) THEN Ok(val) ELSE Failed(Missing)
      [] format = "msgpack" -> IF PackPrints(val, TRUE) THEN Ok(Printed(val)) ELSE Failed(Missing)
      [] OTHER -> Ok(val)
=============================================================================
