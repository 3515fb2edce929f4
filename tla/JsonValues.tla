----------------------------- MODULE JsonValues -----------------------------
(***************************************************************************)
(* JSON values, the fields of documents, and the outcome of an update, as  *)
(* src/modality_docs.cpp passes them around.                               *)
(*                                                                         *)
(* A JSON value is a record with a "kind".  An object is a SEQUENCE of     *)
(* members, because yyjson allows the same key twice and finds the first.  *)
(* A field is absent (NoField), a bare name or a JSON pointer.             *)
(***************************************************************************)

Missing == [kind |-> "none"]
Null == [kind |-> "null"]
Bool(b) == [kind |-> "bool", bool |-> b]
Uint(n) == [kind |-> "uint", num |-> n]
Sint(n) == [kind |-> "sint", num |-> n]
Real(r) == [kind |-> "real", real |-> r]
Str(s) == [kind |-> "str", str |-> s]
Obj(members) == [kind |-> "obj", members |-> members]
Arr(elems) == [kind |-> "arr", elems |-> elems]
Member(key, val) == [key |-> key, val |-> val]

NoField == [form |-> "null", path |-> <<>>]
Bare(name) == [form |-> "bare", path |-> <<name>>]
Pointer(path) == [form |-> "pointer", path |-> path]

Ok(val) == [ok |-> TRUE, val |-> val]
Failed(val) == [ok |-> FALSE, val |-> val]
=============================================================================
