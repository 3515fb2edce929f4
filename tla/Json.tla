-------------------------------- MODULE Json --------------------------------
(***************************************************************************)
(* The document algorithms of src/modality_docs.cpp: looking a field up,   *)
(* modifying it, JSON Patch and JSON Merge-Patch.                          *)
(***************************************************************************)
EXTENDS JsonValues, Integers, Sequences, FiniteSets

(* The tokens of pointers that are digits, and their values. *)
Digits == <<"0", "1", "2", "3", "4", "5", "6", "7">>
Indexes == [t \in {Digits[i] : i \in 1..Len(Digits)} |-> CHOOSE i \in 0..7 : Digits[i + 1] = t]
Token(i) == Digits[i]
IsIdx(token) == token \in DOMAIN Indexes

FrontOf(s) == SubSeq(s, 1, Len(s) - 1)
LastOf(s) == s[Len(s)]

-----------------------------------------------------------------------------
(* The yyjson calls the code makes, by what the code relies on. *)

Places(obj, key) == {i \in 1..Len(obj.members) : obj.members[i].key = key}
First(S) == CHOOSE i \in S : \A j \in S : i <= j

ObjGet(obj, key) ==
    IF obj.kind # "obj" \/ Places(obj, key) = {} THEN Missing
    ELSE obj.members[First(Places(obj, key))].val
ObjAdd(obj, key, val) == Obj(Append(obj.members, Member(key, val)))
ObjReplace(obj, key, val) == Obj([obj.members EXCEPT ![First(Places(obj, key))].val = val])
ObjRemove(obj, key) == Obj(SelectSeq(obj.members, LAMBDA m : m.key # key))

ArrGet(arr, idx) == IF idx < Len(arr.elems) THEN arr.elems[idx + 1] ELSE Missing
ArrReplace(arr, idx, val) == Arr([arr.elems EXCEPT ![idx + 1] = val])
ArrInsert(arr, idx, val) ==
    Arr(SubSeq(arr.elems, 1, idx) \o <<val>> \o SubSeq(arr.elems, idx + 1, Len(arr.elems)))
ArrRemove(arr, idx) ==
    Arr(SubSeq(arr.elems, 1, idx) \o SubSeq(arr.elems, idx + 2, Len(arr.elems)))

RECURSIVE GetPointer(_, _)
GetPointer(val, path) ==
    IF path = <<>> \/ val = Missing THEN val
    ELSE CASE val.kind = "obj" -> GetPointer(ObjGet(val, Head(path)), Tail(path))
           [] val.kind = "arr" /\ IsIdx(Head(path)) ->
                GetPointer(ArrGet(val, Indexes[Head(path)]), Tail(path))
           [] OTHER -> Missing

(* The document after the value at `path`, which exists, became `new`. *)
RECURSIVE PutAt(_, _, _)
PutAt(val, path, new) ==
    IF path = <<>> THEN new
    ELSE IF val.kind = "obj"
         THEN ObjReplace(val, Head(path), PutAt(ObjGet(val, Head(path)), Tail(path), new))
         ELSE LET idx == Indexes[Head(path)]
              IN ArrReplace(val, idx, PutAt(ArrGet(val, idx), Tail(path), new))

(* yyjson_mut_merge_patch: RFC 7386. *)
RECURSIVE MergePatch(_, _)
MergePatch(orig, patch) ==
    IF patch.kind # "obj" THEN patch
    ELSE LET base == IF orig.kind = "obj" THEN orig.members ELSE <<>>
             wanted(m) == ObjGet(patch, m.key)
             kept == SelectSeq(base, LAMBDA m : wanted(m) # Null)
             merged == [i \in 1..Len(kept) |->
                          IF wanted(kept[i]) = Missing THEN kept[i]
                          ELSE Member(kept[i].key, MergePatch(kept[i].val, wanted(kept[i])))]
             fresh == SelectSeq(patch.members, LAMBDA m :
                          m.val # Null /\ \A i \in 1..Len(base) : base[i].key # m.key)
             added == [i \in 1..Len(fresh) |->
                          Member(fresh[i].key, MergePatch(Missing, fresh[i].val))]
         IN Obj(merged \o added)

-----------------------------------------------------------------------------
(* Lookups and modifications. *)

(* json_lookup and simdjson_lookup. *)
Lookup(val, field) ==
    CASE field.form = "null" -> val
      [] field.form = "pointer" -> GetPointer(val, field.path)
      [] OTHER -> ObjGet(val, field.path[1])

(* json_lookupn with the length of everything before the last slash.  A    *)
(* bare name alone has no slash: the length is npos, and no key has that   *)
(* length; followed by one more token (in a patch) it is found by name.    *)
ParentOf(root, field) ==
    CASE field.form = "pointer" -> GetPointer(root, FrontOf(field.path))
      [] field.form = "bare" /\ Len(field.path) = 2 -> ObjGet(root, field.path[1])
      [] OTHER -> Missing

(* The branch of modify_field for an array.  "-" leaves idx at zero. *)
ModifyElement(arr, modifier, token, how) ==
    LET idx == IF IsIdx(token) THEN Indexes[token] ELSE 0
        size == Len(arr.elems)
    IN  IF ~IsIdx(token) /\ token # "-" THEN Failed(arr)
        ELSE CASE how = "merge" ->
                    IF idx < size
                    THEN Ok(ArrReplace(arr, idx, MergePatch(ArrGet(arr, idx), modifier)))
                    ELSE Failed(arr)
               [] how = "insert" /\ IsIdx(token) ->
                    IF idx <= size THEN Ok(ArrInsert(arr, idx, modifier)) ELSE Failed(arr)
               [] how = "insert" -> Ok(ArrInsert(arr, size, modifier))
               [] how = "remove" ->
                    IF idx < size THEN Ok(ArrRemove(arr, idx)) ELSE Failed(arr)
               [] how = "update" ->
                    IF idx < size THEN Ok(ArrReplace(arr, idx, modifier)) ELSE Failed(arr)
               [] how = "upsert" ->
                    IF idx < size THEN Ok(ArrReplace(arr, idx, modifier))
                    ELSE Ok(ArrInsert(arr, size, modifier))

(* Mutant: an upsert replaces a member that may not be there. *)
ModifyMemberReplaces(obj, modifier, key, how) ==
    LET present == Places(obj, key) # {}
    IN  CASE how = "insert" -> Ok(ObjAdd(obj, key, modifier))
          [] how = "remove" -> IF present THEN Ok(ObjRemove(obj, key)) ELSE Failed(obj)
          [] how = "upsert" -> IF present THEN Ok(ObjReplace(obj, key, modifier)) ELSE Ok(obj)
          [] OTHER -> IF present THEN Ok(ObjReplace(obj, key, modifier)) ELSE Failed(obj)

(* The branch of modify_field for an object.  A merge into an absent       *)
(* member replaces nothing and reports nothing.                            *)
ModifyMember(obj, modifier, key, how) ==
    LET present == Places(obj, key) # {}
    IN  CASE how = "merge" ->
               IF present THEN Ok(ObjReplace(obj, key, MergePatch(ObjGet(obj, key), modifier)))
               ELSE Ok(obj)
          [] how = "insert" -> Ok(ObjAdd(obj, key, modifier))
          [] how = "remove" -> IF present THEN Ok(ObjRemove(obj, key)) ELSE Failed(obj)
          [] how = "update" -> IF present THEN Ok(ObjReplace(obj, key, modifier)) ELSE Failed(obj)
          [] how = "upsert" -> IF present THEN Ok(ObjReplace(obj, key, modifier))
                               ELSE Ok(ObjAdd(obj, key, modifier))

(* Both branches.  A scalar has no fields: modify_field then does nothing, *)
(* without error.                                                          *)
ModifyParent(parent, modifier, token, how) ==
    CASE parent.kind = "arr" -> ModifyElement(parent, modifier, token, how)
      [] parent.kind = "obj" -> ModifyMember(parent, modifier, token, how)
      [] parent.kind = "none" -> Failed(parent)
      [] OTHER -> Ok(parent)

Within(root, path, result) ==
    IF result.val = Missing THEN Failed(root)
    ELSE [ok |-> result.ok, val |-> PutAt(root, path, result.val)]

ModifyField(root, modifier, field, how) ==
    Within(root, FrontOf(field.path),
           ModifyParent(ParentOf(root, field), modifier, LastOf(field.path), how))

(* field_concat: the null pointer when both are empty.  A bare field with  *)
(* a pointer behind it stays bare.                                         *)
FieldConcat(field, suffix) ==
    CASE field.form = "null" /\ suffix = <<>> -> NoField
      [] field.form = "null" -> Pointer(suffix)
      [] OTHER -> [field EXCEPT !.path = @ \o suffix]

(* Behind the removal of a "move". *)
MovedTo(left, copied, path) ==
    [ModifyField(left.val, copied, path, "upsert") EXCEPT !.ok = @ /\ left.ok]

(* One entry of a JSON Patch.  `from` is looked up from the root, while    *)
(* the place it is removed from is nested under `field`.  An operation     *)
(* with any other name is skipped.                                         *)
ApplyOp(root, op, field) ==
    LET path == FieldConcat(field, op.path)
        whole == path = NoField
        copied == GetPointer(root, op.from)
    IN  CASE op.op \in {"add", "replace"} ->
               IF whole THEN Ok(op.value)
               ELSE ModifyField(root, op.value, path,
                                IF op.op = "add" THEN "insert" ELSE "update")
          [] op.op = "remove" ->
               IF whole THEN Failed(root) ELSE ModifyField(root, Missing, path, "remove")
          [] op.op = "copy" ->
               IF copied = Missing THEN Failed(root)
               ELSE ModifyField(root, copied, path, "upsert")
          [] op.op = "move" ->
               IF copied = Missing THEN Failed(root)
               ELSE MovedTo(ModifyField(root, Missing, FieldConcat(field, op.from), "remove"),
                            copied, path)
          [] OTHER -> Ok(root)

(* The entries one after the other, up to the first that fails. *)
RECURSIVE PatchFrom(_, _, _)
PatchFrom(done, ops, field) ==
    IF ops = <<>> \/ ~done.ok THEN done
    ELSE PatchFrom(ApplyOp(done.val, Head(ops), field), Tail(ops), field)

Patch(root, ops, field) == PatchFrom(Ok(root), ops, field)

(* modify: a missing document becomes the modifier, whatever was asked. *)
ModifyDoc(original, modifier, field, how) ==
    CASE original = Missing -> Ok(modifier)
      [] original # Missing /\ field # NoField /\ how # "patch" ->
           ModifyField(original, modifier, field, how)
      [] original # Missing /\ field = NoField /\ how = "merge" ->
           Ok(MergePatch(original, modifier))
      [] original # Missing /\ how = "patch" ->
           IF modifier.kind = "patch" THEN Patch(original, modifier.ops, field)
           ELSE Failed(original)
      [] OTHER -> Ok(modifier)
=============================================================================
