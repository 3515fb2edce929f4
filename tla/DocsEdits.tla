------------------------------ MODULE DocsEdits ------------------------------
(***************************************************************************)
(* The algorithms of src/modality_docs.cpp at work: the clients of Docs,   *)
(* with the documents of Json, or one document, `tree`, that every kind of *)
(* update modifies in turn and on which the algorithms of Json and         *)
(* JsonColumns are compared with what they should compute.                 *)
(***************************************************************************)
EXTENDS Docs, JsonColumns, SequencesExt

CONSTANTS
    Edits,          \* the updates of `tree`: [how, field, modifier]
    Trees,          \* where `tree` starts
    MaxEdits        \* bound: updates of `tree`

VARIABLES
    kind,       \* "clients" or "tree": which half a behaviour exercises
    tree,
    edits       \* how many updates of `tree` there were

vars == <<docsVars, kind, tree, edits>>

Becomes(done) == done.ok /\ tree' = done.val

Edit(e) ==
    /\ edits < MaxEdits
    /\ Becomes(ModifyDoc(tree, e.modifier, e.field, e.how))
    /\ edits' = edits + 1
    /\ UNCHANGED <<kind, docsVars>>

Init ==
    /\ DocsInit
    /\ kind \in {"clients", "tree"}
    /\ tree \in (IF kind = "tree" THEN Trees ELSE {Missing})
    /\ edits = 0

Next ==
    \/ kind = "clients" /\ DocsNext /\ UNCHANGED <<kind, tree, edits>>
    \/ kind = "tree" /\ \E e \in Edits : Edit(e)

Spec == Init /\ [][Next]_vars

-----------------------------------------------------------------------------
(* References for the algorithms: a document as the set of its leaves. *)

Leaf(path, val) == [path |-> path, val |-> val]

RECURSIVE Leaves(_, _)
Leaves(val, path) ==
    CASE val.kind = "obj" ->
           UNION {Leaves(val.members[i].val, Append(path, val.members[i].key)) :
                    i \in 1..Len(val.members)}
      [] val.kind = "arr" ->
           UNION {Leaves(val.elems[i], Append(path, Token(i))) : i \in 1..Len(val.elems)}
      [] OTHER -> {Leaf(path, val)}

LeavesOf(val) == Leaves(val, <<>>)
Below(leaves, path) == {l \in leaves : IsPrefix(path, l.path)}

(* The index of an element after another one of its array came or went. *)
Shifted(leaf, path, by) ==
    LET n == Len(path)
        moves == /\ Len(leaf.path) >= n
                 /\ FrontOf(path) = SubSeq(leaf.path, 1, n - 1)
                 /\ IsIdx(leaf.path[n]) /\ IsIdx(path[n])
                 /\ Indexes[leaf.path[n]] >= Indexes[path[n]]
    IN  IF moves THEN [leaf EXCEPT !.path[n] = Token(Indexes[@] + by + 1)] ELSE leaf

LeavesWithout(doc, path) ==
    LET left == LeavesOf(doc) \ Below(LeavesOf(doc), path)
    IN  IF GetPointer(doc, FrontOf(path)).kind = "arr"
        THEN {Shifted(l, path, -1) : l \in left} ELSE left
LeavesWith(doc, path, val) ==
    LET left == LeavesOf(doc)
    IN  (IF GetPointer(doc, FrontOf(path)).kind = "arr"
         THEN {Shifted(l, path, 1) : l \in left} ELSE left \ Below(left, path))
        \cup Leaves(val, path)

(* What RFC 6902 makes of the leaves of a document. *)
RfcLeaves(doc, op) ==
    CASE op.op = "remove" -> LeavesWithout(doc, op.path)
      [] op.op = "replace" ->
           (LeavesOf(doc) \ Below(LeavesOf(doc), op.path)) \cup Leaves(op.value, op.path)
      [] op.op = "add" -> LeavesWith(doc, op.path, op.value)
      [] op.op = "copy" -> LeavesWith(doc, op.path, GetPointer(doc, op.from))
      [] op.op = "move" ->
           LET left == LeavesWithout(doc, op.from)
           IN  (left \ Below(left, op.path)) \cup Leaves(GetPointer(doc, op.from), op.path)

(* The operations on which patch follows the RFC: it adds a second member  *)
(* where one is present, and copies over an element instead of before it.  *)
FollowsRfc(doc, op) ==
    LET parent == GetPointer(doc, FrontOf(op.path))
    IN  /\ LastOf(op.path) # "-"
        /\ op.op = "add" => GetPointer(doc, op.path) = Missing \/ parent.kind = "arr"
        /\ op.op \in {"copy", "move"} => parent.kind = "obj"
        /\ op.op = "move" => ~IsPrefix(op.from, op.path) /\ ~IsPrefix(op.path, op.from)
        /\ parent.kind \in {"obj", "arr"}

RECURSIVE Single(_)
Single(val) ==
    CASE val.kind = "obj" ->
           \A i \in 1..Len(val.members) :
               Single(val.members[i].val) /\ Places(val, val.members[i].key) = {i}
      [] val.kind = "arr" -> \A i \in 1..Len(val.elems) : Single(val.elems[i])
      [] OTHER -> TRUE

(* A JSON Patch operation that succeeds leaves the document RFC 6902       *)
(* describes, for every operation the two agree on, in every document      *)
(* without repeated members (patch and modify_field).                      *)
PatchFollowsRfc ==
    kind = "tree" /\ Single(tree) =>
        \A e \in Edits :
            e.how = "patch" /\ e.field = NoField =>
                LET op == e.modifier.ops[1]
                    done == Patch(tree, <<op>>, NoField)
                IN  done.ok /\ op.op # "test" /\ FollowsRfc(tree, op) =>
                        LeavesOf(done.val) = RfcLeaves(tree, op)

(* An update or upsert of a field makes that field read back as written    *)
(* and leaves every leaf outside of it alone, also below repeated members  *)
(* (modify_field, json_lookup).                                            *)
EditsStayInside ==
    kind = "tree" => \A e \in Edits :
        LET parent == ParentOf(tree, e.field)
            done == ModifyField(tree, e.modifier, e.field, e.how)
            past == /\ parent.kind = "arr" /\ IsIdx(LastOf(e.field.path))
                    /\ Indexes[LastOf(e.field.path)] > Len(parent.elems)
        IN  /\ e.how \in {"update", "upsert"} /\ e.field # NoField
            /\ done.ok /\ parent.kind \in {"obj", "arr"}
            /\ LastOf(e.field.path) # "-" /\ ~past
            => /\ Lookup(done.val, e.field) = e.modifier
               /\ LeavesOf(done.val) \ Below(LeavesOf(done.val), e.field.path) =
                    LeavesOf(tree) \ Below(LeavesOf(tree), e.field.path)

(* ukv_docs_gist lists the path of every leaf of every document, and lists *)
(* none twice, whatever repeats within and between the documents.          *)
GistListsLeaves ==
    tree # Missing => \A start \in Trees :
        LET gist == Gist(<<tree, start, tree>>)
        IN  gist.ok =>
              /\ IsInjective(gist.paths)
              /\ {gist.paths[i] : i \in 1..Len(gist.paths)} =
                   {l.path : l \in LeavesOf(tree) \cup LeavesOf(start)}

Columns == {e.field : e \in Edits}
ColumnTypes == ScalarTypes \cup {"str", "bin"}

(* The validity of a cell that ukv_docs_gather exports does not depend on  *)
(* which other bitmaps were requested, nor on what the memory held before; *)
(* a valid cell never counts as a collision, and an invalid one never as a *)
(* conversion ("validity is the last bit to be set").                      *)
ValidityKept ==
    tree # Missing =>
        \A f \in Columns, t \in ColumnTypes, garbage \in BOOLEAN,
           wanted \in SUBSET {"convert", "collide"} :
            LET cell == GatherBits(tree, f, t, wanted, garbage)
                all == GatherBits(tree, f, t, {"convert", "collide"}, FALSE)
            IN  /\ cell["valid"] = all["valid"]
                /\ \A b \in wanted : cell[b] = all[b]
                /\ "collide" \in wanted => ~(cell["valid"] /\ cell["collide"])
                /\ "convert" \in wanted => (cell["convert"] => cell["valid"])

(* Every cell of a column of strings is where its offset and length say,   *)
(* the cells are joined document after document, and the last offset is    *)
(* the length of the joined strings (set_str).                             *)
StringsDelimited ==
    tree # Missing =>
        \A f, g \in Columns, t \in {"str", "bin"} :
            LET columns == <<[field |-> f, type |-> t], [field |-> g, type |-> "str"]>>
                out == Gather(<<tree, tree>>, columns)
            IN  /\ out.end = Len(out.tape)
                /\ \A i \in 1..4 :
                     LET cell == out.cells[i]
                     IN  SubSeq(out.tape, cell.off + 1, cell.off + cell.len) =
                           CharsOf(Lookup(tree, columns[IF i % 2 = 1 THEN 1 ELSE 2].field))

(* A leaf without a text and a key that JSON would have to escape. *)
Unescaped(leaf) ==
    /\ leaf.val \notin {Str(text) : text \in Special}
    /\ \A i \in 1..Len(leaf.path) : leaf.path[i] \notin Special
PathsOf(leaves) == {l.path : l \in leaves}

(* A document that is written in BSON is refused or stored with the same   *)
(* leaves.  One that is written in MsgPack is refused or keeps its leaves  *)
(* up to the digits of real numbers, but for those with a backslash, a     *)
(* quote or a zero byte in a text or a key, which the reader prints as     *)
(* they are: such a leaf becomes another one, alone (any_parse).           *)
ConversionsKeep ==
    tree.kind = "obj" =>
        LET before == LeavesOf(tree)
            bson == AnyParse(tree, "bson")
            pack == AnyParse(tree, "msgpack")
            after == LeavesOf(pack.val)
            kept == {l \in before : Unescaped(l)}
        IN  /\ bson.ok => LeavesOf(bson.val) = before
            /\ pack.ok =>
                 /\ {l \in kept : l.val.kind # "real"} \subseteq after
                 /\ PathsOf(kept) \subseteq PathsOf(after)
                 /\ Cardinality(after) <= Cardinality(before)

(* Documents are modified as the caller asked, by patches and by fields.   *)
EditsAsAsked == PatchFollowsRfc /\ EditsStayInside

(* What is parsed, listed and exported says what the document says.        *)
ExportsFaithful == GistListsLeaves /\ ValidityKept /\ StringsDelimited /\ ConversionsKeep
=============================================================================
