------------------------------- MODULE MCDocs -------------------------------
(* DocsEdits for TLC: two clients and two documents, and one document that *)
(* every kind of update modifies in turn.                                  *)
EXTENDS DocsEdits, TLC

Symmetry == Permutations(Clients)

A == Pointer(<<"a">>)
B == Pointer(<<"b">>)
One == Uint(1)
Two == Str("xy")
Pair == Obj(<<Member("a", One), Member("b", Two)>>)

Task(key, field, content) == [key |-> key, field |-> field, content |-> content]
Call(tasks, how, format, dont_watch) ==
    [tasks |-> tasks, how |-> how, format |-> format, dont_watch |-> dont_watch]
PatchOf(op, path, value, from) ==
    [kind |-> "patch", ops |-> <<[op |-> op, path |-> path, value |-> value, from |-> from]>>]

MCWrites == {
    Call(<<Task(1, NoField, Pair)>>, "upsert", "json", FALSE),
    Call(<<Task(2, NoField, Pair), Task(1, NoField, Missing)>>, "upsert", "json", FALSE),
    Call(<<Task(1, A, Two)>>, "upsert", "json", TRUE),
    Call(<<Task(2, A, Two), Task(1, B, One)>>, "upsert", "json", FALSE),
    Call(<<Task(1, NoField, Pair)>>, "insert", "json", FALSE),
    Call(<<Task(1, B, One), Task(2, Bare("a"), One)>>, "update", "json", FALSE),
    Call(<<Task(1, NoField, Obj(<<Member("b", Null)>>))>>, "merge", "json", FALSE),
    Call(<<Task(1, NoField, PatchOf("remove", <<"a">>, Missing, <<>>))>>, "patch", "json", TRUE),
    Call(<<Task(2, NoField, Obj(<<Member("a", Arr(<<One, One>>))>>))>>, "upsert", "msgpack", FALSE),
    Call(<<Task(2, A, One), Task(1, A, Missing), Task(2, B, One)>>, "upsert", "json", FALSE)}

MCReads == {
    [tasks |-> <<Task(1, NoField, Missing)>>, dont_watch |-> FALSE],
    [tasks |-> <<Task(2, A, Missing), Task(1, B, Missing), Task(2, B, Missing)>>,
     dont_watch |-> TRUE]}

\* The documents that the calls can make of each other satisfy what the
\* theorem about ReadsRight assumes.
Makes(D) ==
    UNION {{Modify(d, Parse(task.content, w.format).val, task.field, w.how).val :
              task \in {t \in TasksIn(w) :
                          /\ t.content # Missing /\ Parse(t.content, w.format).ok
                          /\ Modify(d, Parse(t.content, w.format).val, t.field, w.how).ok}} :
             d \in D, w \in Writes}

RECURSIVE MadeFrom(_)
MadeFrom(D) == IF Makes(D) \subseteq D THEN D ELSE MadeFrom(D \cup Makes(D))

ASSUME DocumentsAssumption == MakesDocuments(MadeFrom({Missing, Pair}))

L == Pointer(<<"l">>)
MCTrees == {
    Pair,
    Obj(<<Member("a", Obj(<<Member("b", Sint(-1))>>)), Member("l", Arr(<<Str("7"), One>>))>>),
    Obj(<<Member("l", Arr(<<Obj(<<Member("a", Real("fine"))>>)>>)), Member("b", Bool(TRUE))>>),
    Obj(<<Member("l", Arr(<<Str("quote")>>)), Member("a", Str("zero")), Member("backslash", One),
          Member("b", Str("backslash"))>>)}

Fields == {A, B, Pointer(<<"a", "b">>), Pointer(<<"l", "0">>), Pointer(<<"l", "1">>),
           Pointer(<<"l", "-">>), Pointer(<<"l", "0", "a">>)}

\* What is copied and moved: scalars, an object and an element.
Sources == {A, B, Pointer(<<"l", "0">>)}

MCEdits ==
    {[how |-> h, field |-> f, modifier |-> v] :
        h \in {"update", "upsert", "insert", "merge"}, f \in Fields, v \in {Str("7")}}
    \cup {[how |-> "merge", field |-> NoField, modifier |-> Obj(<<Member(k, v)>>)] :
             k \in {"a", "b"}, v \in {Null, Obj(<<Member("b", Null)>>)}}
    \cup {[how |-> "patch", field |-> NoField, modifier |-> PatchOf(o, f.path, v, <<>>)] :
             o \in {"add", "replace", "test"}, f \in Fields, v \in {Two, Null}}
    \cup {[how |-> "patch", field |-> NoField, modifier |-> PatchOf("remove", f.path, Missing, <<>>)] :
             f \in Fields}
    \cup {[how |-> "patch", field |-> NoField, modifier |-> PatchOf(o, f.path, Missing, g.path)] :
             o \in {"copy", "move"}, f \in Fields, g \in Sources}
    \cup {[how |-> "patch", field |-> Bare("a"), modifier |-> PatchOf("add", <<"b">>, One, <<>>)]}
=============================================================================
