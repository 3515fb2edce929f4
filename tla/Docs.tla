-------------------------------- MODULE Docs --------------------------------
(***************************************************************************)
(* The document modality, src/modality_docs.cpp: ukv_docs_write and        *)
(* ukv_docs_read of concurrent clients, with and without transactions.     *)
(*                                                                         *)
(* A write that cannot be passed on as it is reads the documents with      *)
(* ukv_read, modifies them in the client and writes them with ukv_write:   *)
(* two calls of the engine, with other clients in between.  The engine is  *)
(* the external part: it reads and writes a batch at once, and a           *)
(* transaction commits when nothing it watched has changed.                *)
(*                                                                         *)
(* How a document is parsed, modified and looked into are constants here:  *)
(* DocsEdits gives them the algorithms of Json and JsonColumns.            *)
(***************************************************************************)
EXTENDS JsonValues, Integers, FiniteSets, Sequences

CONSTANTS
    Clients,
    Keys,               \* a set of integers
    Writes,             \* the calls of ukv_docs_write a client may make
    Reads,              \* the calls of ukv_docs_read a client may make
    Parse(_, _),        \* any_parse: content, format
    Modify(_, _, _, _), \* modify: document, modifier, field, how
    FieldOf(_, _),      \* json_lookup: document, field
    MaxVersion,         \* bound: changes of one document
    MaxCalls            \* bound: docs calls of the clients

TasksIn(w) == {w.tasks[i] : i \in 1..Len(w.tasks)}

ASSUME CallsAssumption ==
    /\ Keys \subseteq Int
    /\ \A w \in Writes \cup Reads : Len(w.tasks) \in Nat /\ \A task \in TasksIn(w) : task.key \in Keys
    /\ MaxVersion \in Nat /\ MaxCalls \in Nat

VARIABLES
    store,      \* key -> document, Missing when there is none
    version,    \* key -> how many times the engine changed it
    txn,        \* client -> its transaction
    call,       \* client -> the docs call in progress, or the last answer
    calls       \* how many docs calls there were

docsVars == <<store, version, txn, call, calls>>

-----------------------------------------------------------------------------
(* The engine, as src/modality_docs.cpp uses it. *)

Txn(open, watched, changes, base) ==
    [open |-> open, watched |-> watched, changes |-> changes, base |-> base]
Closed == Txn(FALSE, <<>>, <<>>, <<>>)
Opened == Txn(TRUE, <<>>, <<>>, <<>>)

Sees(c, k) == IF txn[c].open /\ k \in DOMAIN txn[c].changes
              THEN txn[c].changes[k] ELSE store[k]

(* f with the pairs of g where f has none, and with those of g instead. *)
Under(f, g) == [k \in DOMAIN f \cup DOMAIN g |-> IF k \in DOMAIN f THEN f[k] ELSE g[k]]
Over(f, g) == Under(g, f)

(* ukv_read in a transaction remembers the versions, unless told not to.   *)
(* `base` remembers the documents a rewrite started from.                  *)
Watch(c, ks, dont_watch, rewrite) ==
    LET fresh == ks \ DOMAIN txn[c].changes
    IN  IF ~txn[c].open THEN UNCHANGED txn
        ELSE txn' = [txn EXCEPT ![c] = Txn(TRUE,
               IF dont_watch THEN txn[c].watched
               ELSE Under(txn[c].watched, [k \in fresh |-> version[k]]),
               txn[c].changes,
               IF rewrite THEN Under(txn[c].base, [k \in fresh |-> store[k]]) ELSE txn[c].base)]

(* The changes are visible at once, each a version of its own. *)
Stores(written) ==
    /\ \A k \in DOMAIN written : version[k] < MaxVersion
    /\ store' = Over(store, written)
    /\ version' = [k \in Keys |-> version[k] + (IF k \in DOMAIN written THEN 1 ELSE 0)]

(* Documents at their places, the later ones last. *)
Placed(places, docs) ==
    [k \in {places[i] : i \in DOMAIN places} |->
        docs[CHOOSE i \in DOMAIN places :
                places[i] = k /\ \A j \in DOMAIN places : i < j => places[j] # k]]

(* ukv_write. *)
EngineWrite(c, written) ==
    IF txn[c].open
    THEN /\ txn' = [txn EXCEPT ![c] = Txn(TRUE, txn[c].watched,
                                          Over(txn[c].changes, written), txn[c].base)]
         /\ UNCHANGED <<store, version>>
    ELSE Stores(written) /\ UNCHANGED txn

Returned(c) == call[c].at # "write"

Begin(c) ==
    /\ Returned(c) /\ ~txn[c].open
    /\ txn' = [txn EXCEPT ![c] = Opened]
    /\ UNCHANGED <<store, version, call, calls>>

Unchanged(c) == \A k \in DOMAIN txn[c].watched : version[k] = txn[c].watched[k]

Commit(c) ==
    /\ Returned(c) /\ txn[c].open
    /\ IF Unchanged(c) THEN Stores(txn[c].changes) ELSE UNCHANGED <<store, version>>
    /\ txn' = [txn EXCEPT ![c] = Closed]
    /\ UNCHANGED <<call, calls>>

-----------------------------------------------------------------------------
(* ukv_docs_write.  A call is [tasks, how, format, dont_watch]; a task is  *)
(* [key, field, content], and a content that is absent is Missing.         *)

KeysOf(tasks) == {tasks[i].key : i \in 1..Len(tasks)}
HasFields(tasks) == \E i \in 1..Len(tasks) : tasks[i].field # NoField
Distinct(tasks) == Cardinality(KeysOf(tasks)) = Len(tasks)

(* all_ascending, sort_and_deduplicate. *)
AllAscending(tasks) == \A i \in 1..Len(tasks) - 1 : tasks[i].key < tasks[i + 1].key
Sorted(S) ==
    CHOOSE s \in [1..Cardinality(S) -> S] :
        /\ \A i, j \in 1..Cardinality(S) : i < j => s[i] < s[j]
        /\ \A k \in S : \E i \in 1..Cardinality(S) : s[i] = k
UniqueKeys(tasks) == Sorted(KeysOf(tasks))

(* Mutant: the documents are always written in the order of their keys. *)
UniquePlacesSorted(tasks) == UniqueKeys(tasks)

(* The documents that are written: the tasks' own, or the unique ones. *)
UniquePlaces(tasks) ==
    IF AllAscending(tasks) \/ Distinct(tasks)
    THEN [i \in 1..Len(tasks) |-> tasks[i].key] ELSE UniqueKeys(tasks)

NeedValues(w) == HasFields(w.tasks) \/ w.how \in {"patch", "merge"}

(* Whether documents are read, or only their presences: presences are      *)
(* enough when no key is repeated and the whole documents are replaced.    *)
ReadsValues(w) == ~Distinct(w.tasks) \/ NeedValues(w)

(* The callback of read_modify_write: the new text of one document. *)
Rewritten(doc, task, w) ==
    LET parsed == Parse(task.content, w.format)
    IN  IF task.content = Missing THEN Ok(doc)
        ELSE IF parsed.ok THEN Modify(doc, parsed.val, task.field, w.how)
        ELSE Failed(doc)

(* What read_modify_docs makes of a task with the callback, which is given *)
(* the document, or nothing when only presences were read.  Without        *)
(* repeated keys an insertion of a whole document checks that there is     *)
(* none.                                                                   *)
TapeOf(c, w) ==
    [i \in 1..Len(w.tasks) |->
        LET task == w.tasks[i]
            doc == Sees(c, task.key)
        IN  IF ~ReadsValues(w) /\ doc # Missing /\ w.how = "insert" THEN Failed(doc)
            ELSE Rewritten(IF ReadsValues(w) THEN doc ELSE Missing, task, w)]

(* Absent contents can only be copied from documents that are there: for   *)
(* the others read_modify_write follows a null pointer.                    *)
Copies(c, w) ==
    \A i \in 1..Len(w.tasks) :
        w.tasks[i].content = Missing => Sees(c, w.tasks[i].key) # Missing /\ ReadsValues(w)

IsDirect(w) == ~HasFields(w.tasks) /\ w.format = "json" /\ w.how = "upsert"

(* Mutant: the read keeps the caller's options. *)
ReadOptionsKept(c, w) == w.dont_watch

(* The options of the read: a transaction always watches what it rewrites. *)
ReadOptions(c, w) == IF txn[c].open THEN FALSE ELSE w.dont_watch

Answered(ok) == [at |-> "idle", ok |-> ok]

Calls(c) ==
    /\ Returned(c)
    /\ calls < MaxCalls /\ calls' = calls + 1

(* An error of any task ends the call before the write. *)
AllOk(done) == \A i \in DOMAIN done : done[i].ok
Proceeds(done) == AllOk(done)

(* The first engine call of read_modify_write and the callbacks, which     *)
(* leave a tape.                                                           *)
ReadsInto(c, w, done) ==
    call' = [call EXCEPT ![c] =
               IF Proceeds(done)
               THEN [at |-> "write", write |-> w, ok |-> AllOk(done),
                     read |-> [k \in KeysOf(w.tasks) |-> Sees(c, k)],
                     tape |-> [i \in DOMAIN done |-> done[i].val]]
               ELSE Answered(FALSE)]

ReadModify(c, w) ==
    /\ Calls(c)
    /\ ~IsDirect(w) /\ Copies(c, w)
    /\ Watch(c, KeysOf(w.tasks), ReadOptions(c, w), TRUE)
    /\ ReadsInto(c, w, TapeOf(c, w))
    /\ UNCHANGED <<store, version>>

(* The second one: as many documents as there are unique places. *)
WriteBack(c) ==
    /\ call[c].at = "write"
    /\ EngineWrite(c, Placed(UniquePlaces(call[c].write.tasks), call[c].tape))
    /\ call' = [call EXCEPT ![c] = Answered(call[c].ok)]
    /\ UNCHANGED calls

(* A whole document in the internal format is only validated.  An absent   *)
(* content is an empty text, which is no JSON.                             *)
WriteDirect(c, w) ==
    /\ Calls(c) /\ IsDirect(w)
    /\ IF \A i \in 1..Len(w.tasks) : w.tasks[i].content # Missing
       THEN /\ EngineWrite(c, Placed([i \in 1..Len(w.tasks) |-> w.tasks[i].key],
                                     [i \in 1..Len(w.tasks) |-> w.tasks[i].content]))
            /\ call' = [call EXCEPT ![c] = Answered(TRUE)]
       ELSE /\ call' = [call EXCEPT ![c] = Answered(FALSE)]
            /\ UNCHANGED <<store, version, txn>>

-----------------------------------------------------------------------------
(* ukv_docs_read: one engine call, then a join of the tasks with the       *)
(* unique documents.  An absent document answers with an empty text.  The  *)
(* fields that are asked for are there: get_value cannot report a missing  *)
(* one.                                                                    *)

(* Mutant: the search takes the keys for descending. *)
OffsetInSortedDown(elems, wanted) == Cardinality({j \in DOMAIN elems : elems[j] > wanted})

(* offset_in_sorted: how many come before. *)
OffsetInSorted(elems, wanted) == Cardinality({j \in DOMAIN elems : elems[j] < wanted})

(* The document a task is answered from: its own, or the one found at the  *)
(* place of its key among the unique ones.                                 *)
FoundFor(c, tasks, i) ==
    LET unique == UniqueKeys(tasks)
        found == [j \in DOMAIN unique |-> Sees(c, unique[j])]
    IN  IF AllAscending(tasks) \/ Distinct(tasks) THEN Sees(c, tasks[i].key)
        ELSE found[OffsetInSorted(unique, tasks[i].key) + 1]

GetValue(doc, field) == IF doc = Missing THEN Missing ELSE FieldOf(doc, field)

DocsRead(c, r) ==
    /\ Calls(c)
    /\ \A i \in 1..Len(r.tasks) :
         Sees(c, r.tasks[i].key) = Missing
         \/ FieldOf(Sees(c, r.tasks[i].key), r.tasks[i].field) # Missing
    /\ Watch(c, KeysOf(r.tasks), r.dont_watch, FALSE)
    /\ call' = [call EXCEPT ![c] =
                  [at |-> "answered", ok |-> TRUE, tasks |-> r.tasks,
                   read |-> [k \in KeysOf(r.tasks) |-> Sees(c, k)],
                   answers |-> [i \in 1..Len(r.tasks) |->
                                  GetValue(FoundFor(c, r.tasks, i), r.tasks[i].field)]]]
    /\ UNCHANGED <<store, version>>

-----------------------------------------------------------------------------
DocsInit ==
    /\ calls = 0
    /\ store = [k \in Keys |-> Missing]
    /\ version = [k \in Keys |-> 0]
    /\ txn = [c \in Clients |-> Closed]
    /\ call = [c \in Clients |-> Answered(TRUE)]

DocsNext ==
    \E c \in Clients : \/ Begin(c) \/ Commit(c) \/ WriteBack(c)
                       \/ \E w \in Writes : ReadModify(c, w) \/ WriteDirect(c, w)
                       \/ \E r \in Reads : DocsRead(c, r)

DocsSpec == DocsInit /\ [][DocsNext]_docsVars

-----------------------------------------------------------------------------
(* Documents and calls are well formed: an open transaction changes and    *)
(* watches known keys, and the tape of a pending write has one document    *)
(* for every task (growing_tape_t of read_modify_write).                   *)
TypeOK ==
    /\ version \in [Keys -> 0..MaxVersion]
    /\ DOMAIN store = Keys
    /\ \A k \in Keys : version[k] = 0 => store[k] = Missing
    /\ \A c \in Clients :
         /\ call[c].at = "write" =>
              /\ DOMAIN call[c].tape = 1..Len(call[c].write.tasks)
              /\ \A i \in DOMAIN call[c].tape : call[c].tape[i] # Missing
         /\ txn[c].open => DOMAIN txn[c].changes \cup DOMAIN txn[c].watched \subseteq Keys

(* A transaction that updated documents in part commits only if those      *)
(* documents are still the ones it read: no concurrent update is lost,     *)
(* even when the caller asked not to watch (read_modify_write clears       *)
(* ukv_option_transaction_dont_watch_k).                                   *)
RewritesFresh ==
    [][\A c \in Clients :
          txn[c].open /\ ~txn'[c].open /\ store' # store =>
              \A k \in DOMAIN txn[c].base : store[k] = txn[c].base[k]]_docsVars

(* A batch of distinct documents ends with every document the update of    *)
(* its own earlier text by its own task, and no other document changed,    *)
(* whatever the order of the keys (read_modify_docs, read_modify_write).   *)
OwnDocuments ==
    \A c \in Clients :
          LET w == call[c].write
          IN  call[c].at = "write" /\ call'[c].at = "idle" /\ ~txn[c].open /\ Distinct(w.tasks) =>
              /\ \A k \in Keys \ KeysOf(w.tasks) : store'[k] = store[k]
              /\ \A i \in 1..Len(w.tasks) :
                   LET task == w.tasks[i]
                       whole == task.field = NoField /\ w.how \notin {"patch", "merge"}
                       old == IF whole /\ ~HasFields(w.tasks) THEN Missing ELSE call[c].read[task.key]
                   IN  task.content # Missing =>
                         store'[task.key] =
                           Modify(old, Parse(task.content, w.format).val,
                                     task.field, w.how).val

(* A call that reports an error has written nothing: neither the store nor *)
(* the caller's transaction changes (every task is modified before the     *)
(* only ukv_write of read_modify_write).                                   *)
FailedWritesNothing ==
    \A c \in Clients :
          call'[c] # call[c] /\ ~call'[c].ok /\ call'[c].at = "idle" =>
              /\ store' = store
              /\ txn[c].open => txn'[c].changes = txn[c].changes

(* A batch writes all of its documents, each to its own place, or none.    *)
BatchesWhole == [][OwnDocuments /\ FailedWritesNothing]_docsVars

(* Every task of a read is answered from its own document, in the order of *)
(* the tasks, also when keys repeat and are out of order (the join with    *)
(* the unique documents in read_modify_docs).                              *)
AnsweredInOrder(c) ==
    call[c].at = "answered" =>
        \A i \in 1..Len(call[c].tasks) :
            LET task == call[c].tasks[i]
            IN  call[c].answers[i] = GetValue(call[c].read[task.key], task.field)
ReadsInOrder == \A c \in Clients : AnsweredInOrder(c)

(* Reads are answered in order; the store, the calls and the transactions  *)
(* keep their shape: a call that writes has a document for every task.     *)
ReadsRight == TypeOK /\ ReadsInOrder

-----------------------------------------------------------------------------
(* The inductive invariant behind the properties.                           *)

(* What a transaction has watched is no newer than the store, and a        *)
(* document it rewrites is the one it read for as long as the version is.  *)
BaseWatched(c) ==
    LET t == txn[c]
    IN  t.open =>
          /\ DOMAIN t.changes \subseteq Keys
          /\ DOMAIN t.watched \subseteq Keys
          /\ DOMAIN t.base \subseteq DOMAIN t.watched
          /\ \A k \in DOMAIN t.watched : t.watched[k] \in Nat /\ t.watched[k] <= version[k]
          /\ \A k \in DOMAIN t.base : t.watched[k] = version[k] => store[k] = t.base[k]

(* The document the callback of a task is given. *)
Given(read, task, w) == IF ReadsValues(w) THEN read[task.key] ELSE Missing

(* The tape of a pending write has, for every task, the update of what was *)
(* read, or a copy of it.                                                  *)
Updated(p, i) ==
    LET task == p.write.tasks[i]
        parsed == Parse(task.content, p.write.format)
        given == Given(p.read, task, p.write)
        made == Modify(given, parsed.val, task.field, p.write.how)
    IN  IF task.content = Missing THEN given # Missing /\ p.tape[i] = given
        ELSE parsed.ok /\ made.ok /\ p.tape[i] = made.val
TapeReady(c) ==
    call[c].at = "write" =>
        /\ call[c].ok = TRUE
        /\ call[c].write \in Writes
        /\ DOMAIN call[c].tape = 1..Len(call[c].write.tasks)
        /\ \A i \in DOMAIN call[c].tape : Updated(call[c], i)

Shape ==
    /\ version \in [Keys -> 0..MaxVersion]
    /\ DOMAIN store = Keys /\ DOMAIN txn = Clients /\ DOMAIN call = Clients
    /\ \A k \in Keys : version[k] = 0 => store[k] = Missing

DocsInv ==
    /\ Shape
    /\ \A c \in Clients : BaseWatched(c) /\ TapeReady(c) /\ AnsweredInOrder(c)

(* What the theorem about ReadsRight assumes of the algorithms: D holds    *)
(* the documents, and Missing; whole documents are written as they came,   *)
(* and modify makes a document of any other one, or of none, when it       *)
(* succeeds.                                                               *)
MakesDocuments(D) ==
    /\ Missing \in D
    /\ \A w \in Writes : \A i \in 1..Len(w.tasks) :
          LET task == w.tasks[i]
              parsed == Parse(task.content, w.format)
          IN  /\ IsDirect(w) => task.content \in D
              /\ task.content # Missing /\ parsed.ok =>
                   \A d \in D : LET made == Modify(d, parsed.val, task.field, w.how)
                                IN  made.ok => made.val \in D \ {Missing}
=============================================================================
