-------------------------------- MODULE Wire --------------------------------
(***************************************************************************)
(* How the arguments and the results of the C API cross the network: the   *)
(* Flight client (src/flight_client.cpp) turns a call into a command with  *)
(* parameters and Arrow columns, the handlers of the Flight server         *)
(* (src/flight_server.cpp) turn those back into the call of the engine,    *)
(* and the engine's results travel back as columns.  One behaviour is one  *)
(* call: Send, Serve, Receive.  What the engine finds is chosen freely.    *)
(*                                                                         *)
(* An optional value is <<>> or <<x>>.  A pointer is the number of the     *)
(* tape (allocation) it points into, 0 for NULL; collection 0 is           *)
(* ukv_collection_main_k.                                                  *)
(***************************************************************************)
EXTENDS Integers, SequencesExt

CONSTANTS
    Calls,      \* the calls a client makes
    Payloads    \* the values the engine may hold

VARIABLES
    call,       \* the arguments the client passed
    stage,      \* "made", "sent", "served", "returned"
    request,    \* what the server received, once sent
    args,       \* what the server passed to the engine, once served
    found,      \* what the engine found for each task
    result      \* what the client's output arguments hold

wireVars == <<call, stage, request, args, found, result>>

None == <<>>
Some(x) == <<x>>
Missing == -1          \* ukv_length_missing_k
BitsPerSlot == 8       \* CHAR_BIT

Const(n, x) == [i \in 1..n |-> x]
Total(lens) == SumFunctionOnSet(lens, DOMAIN lens)
\* The running sums a loop over the lengths stores, with the total at the end.
OffsetsOf(lens) == [i \in 1..Len(lens) + 1 |-> Total(SubSeq(lens, 1, i - 1))]
Lengths(bins) == [i \in DOMAIN bins |-> Len(bins[i])]
Glue(bins) == FlattenSeq(bins)
Cut(offs, tape, i) == SubSeq(tape, offs[i] + 1, offs[i + 1])

-----------------------------------------------------------------------------
(* Variable-length arguments.  A layout has the tapes it points into, one  *)
(* pointer per task, optional offsets, lengths and presence bits, and the  *)
(* separator that ends strings without a length: for paths, that of the    *)
(* caller.                                                                 *)

\* The length of a string without a length: up to the first separator on its
\* tape, which has one.
UpToSeparator(tape, sep) ==
    CHOOSE n \in 0..Len(tape) : tape[n + 1] = sep /\ \A k \in 1..n : tape[k] # sep

At(c, i) ==
    IF c.ptrs[i] = 0 \/ (c.pres # None /\ ~c.pres[1][i]) THEN None
    ELSE LET off == IF c.offs = None THEN 0 ELSE c.offs[1][i]
             len == CASE c.lens # None -> c.lens[1][i]
                      [] c.lens = None /\ c.offs # None -> c.offs[1][i + 1] - off
                      [] OTHER -> UpToSeparator(c.tapes[c.ptrs[i]], c.sep)
         IN Some([tape |-> c.ptrs[i], from |-> off, to |-> off + len])

ViewBegin(v) == IF v = None THEN <<0, 0>> ELSE <<v[1].tape, v[1].from>>
ViewEnd(v) == IF v = None THEN <<0, 0>> ELSE <<v[1].tape, v[1].to>>
ViewBytes(c, v) == IF v = None THEN <<>> ELSE SubSeq(c.tapes[v[1].tape], v[1].from + 1, v[1].to)

IsArrow(c) == c.repeats /\ c.offs # None /\ c.lens = None

\* "As continuous as its neighbours touch": an absent value lies at NULL.
IsContinuous(c) == \A i \in 2..Len(c.ptrs) : ViewBegin(At(c, i)) = ViewEnd(At(c, i - 1))

\* What the caller means: for every task an absent value or some bytes.
Meaning(c) == [i \in DOMAIN c.ptrs |->
    LET v == At(c, i) IN IF v = None THEN None ELSE Some(ViewBytes(c, v))]

Sizes(c) == [i \in DOMAIN c.ptrs |-> Len(ViewBytes(c, At(c, i)))]
FirstTape(c) == IF c.ptrs[1] = 0 THEN <<>> ELSE c.tapes[c.ptrs[1]]
Joined(c) == Glue([i \in DOMAIN c.ptrs |-> ViewBytes(c, At(c, i))])
PresenceOf(c) == [i \in DOMAIN c.ptrs |-> At(c, i) # None]

\* The value column of ukv_write.  Values that touch are sent from their first
\* tape with offsets counted from its START, whatever the first offset was.
PackContents(c) ==
    CASE ~IsContinuous(c) ->
            [valid |-> Some(PresenceOf(c)), offs |-> Some(OffsetsOf(Sizes(c))), tape |-> Joined(c)]
      [] IsContinuous(c) /\ ~IsArrow(c) ->
            [valid |-> Some(PresenceOf(c)), offs |-> Some(OffsetsOf(Sizes(c))), tape |-> FirstTape(c)]
      [] OTHER ->
            [valid |-> c.pres, offs |-> c.offs, tape |-> FirstTape(c)]

\* The strings of the path calls (and their values): no presence bits, and the
\* offsets of a layout that is Arrow's already are left unset.
ToContinuousBin(c) ==
    CASE ~IsContinuous(c) -> [valid |-> None, offs |-> Some(OffsetsOf(Sizes(c))), tape |-> Joined(c)]
      [] IsContinuous(c) /\ ~IsArrow(c) -> [valid |-> None, offs |-> Some(OffsetsOf(Sizes(c))), tape |-> FirstTape(c)]
      [] OTHER -> [valid |-> None, offs |-> None, tape |-> FirstTape(c)]

\* Arrow sends no validity bitmap for a column without nulls.
Transport(col) ==
    IF col.valid # None /\ \A i \in DOMAIN col.valid[1] : col.valid[1][i]
    THEN [col EXCEPT !.valid = None] ELSE col

\* The column as a layout again: one tape that every task points into.
GetContents(col, n) ==
    [tapes |-> <<col.tape>>, ptrs |-> Const(n, 1), repeats |-> TRUE,
     offs |-> col.offs, lens |-> None, pres |-> col.valid, sep |-> 0]

\* What the engine reads; nothing can be said when the offsets were left unset.
Decoded(col, n) == IF col.offs = None THEN None ELSE Some(Meaning(GetContents(col, n)))

-----------------------------------------------------------------------------
(* Places and parameters. *)

SameCollection(cols) == cols = None \/ \A i \in DOMAIN cols[1] : cols[1][i] = cols[1][1]
SameCollectionsAreNamed(cols) == cols # None /\ cols[1][1] # 0

HasCollectionsColumn(cols) == cols # None /\ ~SameCollection(cols)
CollectionsColumn(cols) == IF HasCollectionsColumn(cols) THEN cols ELSE None

\* The collection parameter of the calls that read, and of those that write.
NamedParam(cols) ==
    IF SameCollection(cols) /\ SameCollectionsAreNamed(cols) THEN Some(cols[1][1]) ELSE None
WriteParam(cols) ==
    IF ~HasCollectionsColumn(cols) /\ cols # None THEN Some(cols[1][1]) ELSE None

TxnParam(c) == IF c.txn # 0 THEN Some(c.txn) ELSE None
ExportOptions(options) == options \cap {"shared", "dont_watch"}
WriteFlags(options) == options \cap {"flush"}

NoParams == [txn |-> None, snap |-> None, col |-> None, part |-> None, flags |-> {}, name |-> None, mode |-> None]
NoColumns == [cols |-> None, keys |-> None, limits |-> None, paths |-> None,
              prevs |-> None, vals |-> None]

\* What a read asks for, by the outputs the caller gave an address for.
ReadPart(outs) ==
    CASE "presences" \in outs /\ "lengths" \notin outs /\ "values" \notin outs -> Some("presences")
      [] "lengths" \in outs /\ "values" \notin outs -> Some("lengths")
      [] OTHER -> None

ReadRequest(c) ==
    [cmd |-> "read", rows |-> Len(c.keys),
     params |-> [NoParams EXCEPT !.txn = TxnParam(c), !.snap = Some(c.snap), !.col = NamedParam(c.cols),
                                 !.part = ReadPart(c.outs), !.flags = ExportOptions(c.options)],
     columns |-> [NoColumns EXCEPT !.cols = CollectionsColumn(c.cols), !.keys = Some(c.keys)]]

WriteRequest(c) ==
    [cmd |-> "write", rows |-> Len(c.keys),
     params |-> [NoParams EXCEPT !.txn = TxnParam(c), !.col = WriteParam(c.cols), !.flags = WriteFlags(c.options)],
     columns |-> [NoColumns EXCEPT !.cols = CollectionsColumn(c.cols), !.keys = Some(c.keys),
                     !.vals = IF c.vals = None THEN None ELSE Some(Transport(PackContents(c.vals[1])))]]

PathsWriteRequest(c) ==
    [cmd |-> "write_path", rows |-> Len(c.paths.ptrs),
     params |-> [NoParams EXCEPT !.txn = TxnParam(c), !.col = WriteParam(c.cols), !.flags = WriteFlags(c.options)],
     columns |-> [NoColumns EXCEPT !.cols = CollectionsColumn(c.cols),
                     !.paths = Some(ToContinuousBin(c.paths)),
                     !.vals = IF c.vals = None THEN None
                              ELSE Some(Transport([ToContinuousBin(c.vals[1]) EXCEPT !.valid = c.vals[1].pres]))]]

\* "Only the counts" is sent as the part "presences".
PathsMatchRequest(c) ==
    [cmd |-> "match_path", rows |-> Len(c.paths.ptrs),
     params |-> [NoParams EXCEPT !.txn = TxnParam(c), !.col = NamedParam(c.cols),
                                 !.part = IF "paths" \notin c.outs THEN Some("presences") ELSE None,
                                 !.flags = ExportOptions(c.options)],
     columns |-> [NoColumns EXCEPT !.cols = CollectionsColumn(c.cols), !.limits = c.limits,
                     !.paths = Some(ToContinuousBin(c.paths)),
                     !.prevs = IF c.prevs = None THEN None ELSE Some(ToContinuousBin(c.prevs[1]))]]

PathsReadRequest(c) ==
    [cmd |-> "read_path", rows |-> Len(c.paths.ptrs),
     params |-> [NoParams EXCEPT !.txn = TxnParam(c), !.snap = Some(c.snap), !.col = NamedParam(c.cols),
                                 !.part = ReadPart(c.outs), !.flags = ExportOptions(c.options)],
     columns |-> [NoColumns EXCEPT !.cols = CollectionsColumn(c.cols), !.paths = Some(ToContinuousBin(c.paths))]]

ScanRequest(c) ==
    [cmd |-> "scan", rows |-> Len(c.keys),
     params |-> [NoParams EXCEPT !.txn = TxnParam(c), !.snap = Some(c.snap), !.col = NamedParam(c.cols),
                                 !.flags = ExportOptions(c.options)],
     columns |-> [NoColumns EXCEPT !.cols = CollectionsColumn(c.cols), !.keys = Some(c.keys), !.limits = c.limits]]

SampleRequest(c) ==
    [cmd |-> "sample", rows |-> Len(c.limits[1]),
     params |-> [NoParams EXCEPT !.txn = TxnParam(c), !.snap = Some(c.snap), !.col = NamedParam(c.cols),
                                 !.flags = ExportOptions(c.options)],
     columns |-> [NoColumns EXCEPT !.cols = CollectionsColumn(c.cols), !.limits = c.limits]]

ListRequest(c) ==
    [cmd |-> "list_collections", rows |-> 0, params |-> [NoParams EXCEPT !.txn = TxnParam(c)], columns |-> NoColumns]

\* The commands sent with DoAction, which carry parameters only.
Command(cmd, params) == [cmd |-> cmd, rows |-> 0, params |-> params, columns |-> NoColumns]

\* The configuration is sent without its terminator, and dropped for that.
ColCreateRequest(c) == Command("create_collection", [NoParams EXCEPT !.name = Some(c.name)])

DropModeParam(mode) ==
    CASE mode = "drop_vals" -> "values"
      [] mode = "drop_keys_vals" -> "contents"
      [] mode = "drop_keys_vals_handle" -> "collection"
ColDropRequest(c) == Command("remove_collection",
    [NoParams EXCEPT !.col = Some(c.col), !.mode = Some(DropModeParam(c.mode))])

SnapCreateRequest(c) == Command("create_snapshot", NoParams)
\* A snapshot is dropped with the command that creates one.
SnapDropRequest(c) == Command("create_snapshot", [NoParams EXCEPT !.snap = Some(c.snap)])

TxnBeginRequest(c) == Command("begin_transaction",
    [NoParams EXCEPT !.txn = TxnParam(c), !.flags = c.options \cap {"dont_watch"}])
TxnCommitRequest(c) == Command("commit_transaction",
    [NoParams EXCEPT !.txn = Some(c.txn), !.flags = WriteFlags(c.options)])

RequestOf(c) ==
    CASE c.op = "read" -> ReadRequest(c)
      [] c.op = "write" -> WriteRequest(c)
      [] c.op = "paths_write" -> PathsWriteRequest(c)
      [] c.op = "paths_match" -> PathsMatchRequest(c)
      [] c.op = "paths_read" -> PathsReadRequest(c)
      [] c.op = "scan" -> ScanRequest(c)
      [] c.op = "sample" -> SampleRequest(c)
      [] c.op = "list" -> ListRequest(c)
      [] c.op = "col_create" -> ColCreateRequest(c)
      [] c.op = "col_drop" -> ColDropRequest(c)
      [] c.op = "snap_create" -> SnapCreateRequest(c)
      [] c.op = "snap_drop" -> SnapDropRequest(c)
      [] c.op = "txn_begin" -> TxnBeginRequest(c)
      [] c.op = "txn_commit" -> TxnCommitRequest(c)

-----------------------------------------------------------------------------
(* The handlers: the call of the engine a request becomes. *)

\* The transaction of the session; 0, no transaction, when no id was sent.
SessionTxn(r) == IF r.params.txn = None THEN 0 ELSE r.params.txn[1]

InputCollections(r) ==
    IF r.params.col # None THEN Some(Const(r.rows, r.params.col[1])) ELSE r.columns.cols

\* The collection every task of a call addresses.
Addressed(cols, n) == IF cols = None THEN Const(n, 0) ELSE cols[1]

NoArgs == [op |-> "none", txn |-> 0, snap |-> 0, cols |-> <<>>, keys |-> <<>>, limits |-> None,
           paths |-> None, prevs |-> None, vals |-> None, options |-> {}, part |-> None,
           name |-> None, mode |-> None]

Shared(r) == [NoArgs EXCEPT !.op = r.cmd, !.txn = SessionTxn(r), !.options = r.params.flags,
                            !.cols = Addressed(InputCollections(r), r.rows)]

ReadHandler(r) == [Shared(r) EXCEPT !.keys = r.columns.keys[1],
    !.snap = IF r.params.snap = None THEN 0 ELSE r.params.snap[1], !.part = r.params.part]

\* The snapshot is not passed on by the handlers of paths, scans and samples.
PathsReadHandler(r) == [Shared(r) EXCEPT !.paths = Decoded(r.columns.paths[1], r.rows), !.part = r.params.part]

\* "Only the counts" is recognised as the part "lengths", which is never sent.
PathsMatchHandler(r) == [Shared(r) EXCEPT
    !.paths = Decoded(r.columns.paths[1], r.rows), !.limits = r.columns.limits,
    !.prevs = IF r.columns.prevs = None THEN None ELSE Some(Decoded(r.columns.prevs[1], r.rows)),
    !.part = IF r.params.part = Some("lengths") THEN Some("counts") ELSE None]

ScanHandler(r) == [Shared(r) EXCEPT !.keys = r.columns.keys[1], !.limits = r.columns.limits]

SampleHandler(r) == [Shared(r) EXCEPT !.limits = r.columns.limits]

\* A write without a value column removes.
ValuesArg(r) == IF r.columns.vals = None THEN Some(Const(r.rows, None)) ELSE Decoded(r.columns.vals[1], r.rows)

WriteHandler(r) == [Shared(r) EXCEPT !.keys = r.columns.keys[1], !.vals = ValuesArg(r)]

PathsWriteHandler(r) == [Shared(r) EXCEPT !.paths = Decoded(r.columns.paths[1], r.rows), !.vals = ValuesArg(r)]

ListHandler(r) == [NoArgs EXCEPT !.op = r.cmd, !.txn = SessionTxn(r), !.options = r.params.flags]

Refused == [NoArgs EXCEPT !.op = "refused"]

ColOpenAction(r) == IF r.params.name = None THEN Refused
                    ELSE [NoArgs EXCEPT !.op = "create_collection", !.name = r.params.name]

\* Anything but the two modes that keep the collection drops it.
DropMode(param) ==
    CASE param = Some("values") -> Some("drop_vals")
      [] param = Some("contents") -> Some("drop_keys_vals")
      [] OTHER -> Some("drop_keys_vals_handle")
ColDropAction(r) == IF r.params.col = None THEN Refused
    ELSE [NoArgs EXCEPT !.op = "remove_collection", !.cols = <<r.params.col[1]>>, !.mode = DropMode(r.params.mode)]

\* With a snapshot in its parameters the command is refused.
SnapOpenAction(r) == IF r.params.snap # None THEN Refused ELSE [NoArgs EXCEPT !.op = "create_snapshot"]

TxnBeginAction(r) == [NoArgs EXCEPT !.op = "begin_transaction", !.txn = SessionTxn(r), !.options = r.params.flags]
TxnCommitAction(r) == IF r.params.txn = None THEN Refused
    ELSE [NoArgs EXCEPT !.op = "commit_transaction", !.txn = SessionTxn(r), !.options = r.params.flags]

ArgsOf(r) ==
    CASE r.cmd = "read" -> ReadHandler(r)
      [] r.cmd = "write" -> WriteHandler(r)
      [] r.cmd = "write_path" -> PathsWriteHandler(r)
      [] r.cmd = "match_path" -> PathsMatchHandler(r)
      [] r.cmd = "read_path" -> PathsReadHandler(r)
      [] r.cmd = "scan" -> ScanHandler(r)
      [] r.cmd = "sample" -> SampleHandler(r)
      [] r.cmd = "list_collections" -> ListHandler(r)
      [] r.cmd = "create_collection" -> ColOpenAction(r)
      [] r.cmd = "remove_collection" -> ColDropAction(r)
      [] r.cmd = "create_snapshot" -> SnapOpenAction(r)
      [] r.cmd = "begin_transaction" -> TxnBeginAction(r)
      [] r.cmd = "commit_transaction" -> TxnCommitAction(r)

-----------------------------------------------------------------------------
(* The answers.  The engine finds an optional value for each task of a     *)
(* read, and a sequence of keys, paths or names for each task of the       *)
(* others; its columns are exported as they are.                           *)

Finds(op, n) ==
    CASE op \in {"read", "read_path"} -> [1..n -> {None} \union {Some(p) : p \in Payloads}]
      [] op \in {"scan", "sample", "match_path"} -> [1..n -> {<<>>, <<1>>, <<1, 2>>}]
      [] op = "list_collections" -> {<<>>, <<<<1, <<1>>>>>>, <<<<1, <<1>>>>, <<2, <<2, 1>>>>>>}
      [] op \in {"create_collection", "create_snapshot", "begin_transaction"} -> {<<1>>, <<2>>}
      [] OTHER -> {<<>>}

ByteOf(v) == IF v = None THEN <<>> ELSE v[1]
IsPresent(v) == v # None

ContentColumn(f) == Transport([valid |-> Some([i \in DOMAIN f |-> IsPresent(f[i])]),
    offs |-> Some(OffsetsOf(Lengths([i \in DOMAIN f |-> ByteOf(f[i])]))),
    tape |-> Glue([i \in DOMAIN f |-> ByteOf(f[i])])])

LengthColumn(f) == Transport([valid |-> Some([i \in DOMAIN f |-> IsPresent(f[i])]), offs |-> None,
    tape |-> [i \in DOMAIN f |-> IF IsPresent(f[i]) THEN Len(f[i][1]) ELSE Missing]])

ListColumn(f) == [valid |-> None, offs |-> Some(OffsetsOf(Lengths(f))), tape |-> Glue(f)]

\* The bits arrow_replace_missing_scalars looks at: what remains is counted
\* from the number of slots instead of scalars, and an unsigned number.
Visited(n) == LET slots == (n + BitsPerSlot - 1) \div BitsPerSlot
                  count(s) == LET left == slots - s * BitsPerSlot
                              IN IF left < 0 \/ left > BitsPerSlot THEN BitsPerSlot ELSE left
              IN {i \in 1..n : (i - 1) % BitsPerSlot < count((i - 1) \div BitsPerSlot)}

\* A set bit says the scalar is present; it is the one replaced.
ReplaceMissingScalars(valid, scalars) ==
    [i \in DOMAIN scalars |-> IF i \in Visited(Len(scalars)) /\ valid[i] THEN Missing ELSE scalars[i]]

NoResult == [pres |-> None, lens |-> None, bins |-> None, lists |-> None, id |-> None]

\* MUTANT of LengthsFrom: the validity bits are not looked at.
LengthsFromOffsets(col) == [i \in 1..Len(col.offs[1]) - 1 |-> col.offs[1][i + 1] - col.offs[1][i]]

LengthsFrom(col) == [i \in 1..Len(col.offs[1]) - 1 |->
    IF col.valid = None \/ col.valid[1][i] THEN col.offs[1][i + 1] - col.offs[1][i] ELSE Missing]
BinsFrom(col) == [i \in 1..Len(col.offs[1]) - 1 |-> Cut(col.offs[1], col.tape, i)]

\* The outputs of ukv_read and ukv_paths_read, by what was asked for.
Unpacked(c, f) ==
    CASE ReadPart(c.outs) = Some("presences") ->
            [NoResult EXCEPT !.pres = Some([i \in DOMAIN f |-> IsPresent(f[i])])]
      [] ReadPart(c.outs) = Some("lengths") ->
            LET col == LengthColumn(f) IN
            [NoResult EXCEPT
                !.lens = Some(IF col.valid = None THEN col.tape ELSE ReplaceMissingScalars(col.valid[1], col.tape)),
                !.pres = IF "presences" \in c.outs THEN col.valid ELSE None]
      [] OTHER ->
            LET col == ContentColumn(f) IN
            [NoResult EXCEPT !.pres = IF "presences" \in c.outs THEN col.valid ELSE None,
                             !.lens = IF "lengths" \in c.outs THEN Some(LengthsFrom(col)) ELSE None,
                             !.bins = Some(BinsFrom(col))]

ReadResult(c, f) == Unpacked(c, f)
PathsReadResult(c, f) == Unpacked(c, f)

ScanResult(c, f) == [NoResult EXCEPT !.lists = Some(BinsFrom(ListColumn(f))), !.lens = Some(LengthsFrom(ListColumn(f)))]
SampleResult(c, f) == [NoResult EXCEPT !.lists = Some(BinsFrom(ListColumn(f))), !.lens = Some(LengthsFrom(ListColumn(f)))]

\* The counts travel in a column with one row per PATH found (one row of an
\* unset count when there is none): the rows past its end are not sent.
MatchRows(f) == LET total == Total(Lengths(f)) IN IF total = 0 THEN 1 ELSE total
MatchCounts(f) == IF Total(Lengths(f)) = 0 THEN {}
                  ELSE {<<i, Len(f[i])>> : i \in 1..(IF MatchRows(f) < Len(f) THEN MatchRows(f) ELSE Len(f))}
MatchResult(c, f) == [NoResult EXCEPT !.lens = Some(MatchCounts(f)),
    !.bins = IF "paths" \in c.outs THEN Some(Glue(f)) ELSE None]

ListResult(c, f) == [NoResult EXCEPT !.lens = Some([i \in DOMAIN f |-> f[i][1]]),
    !.bins = Some(BinsFrom(ListColumn([i \in DOMAIN f |-> f[i][2]])))]

\* The scalar an action answers with is copied to the caller's id; the others
\* are not answered at all.
IdResult(c, f) == [NoResult EXCEPT !.id = Some(f[1])]

ResultOf(c, f) ==
    CASE c.op = "read" -> ReadResult(c, f)
      [] c.op = "paths_read" -> PathsReadResult(c, f)
      [] c.op = "scan" -> ScanResult(c, f)
      [] c.op = "sample" -> SampleResult(c, f)
      [] c.op = "paths_match" -> MatchResult(c, f)
      [] c.op = "list" -> ListResult(c, f)
      [] c.op \in {"col_create", "snap_create", "txn_begin"} -> IdResult(c, f)
      [] OTHER -> NoResult

-----------------------------------------------------------------------------

NoRequest == [cmd |-> "none", rows |-> 0, params |-> NoParams, columns |-> NoColumns]

WireInit ==
    /\ call \in Calls
    /\ stage = "made"
    /\ request = NoRequest /\ args = NoArgs /\ found = <<>> /\ result = NoResult

Exchanged(c) == c.op \in {"read", "scan", "sample", "paths_read", "paths_match"}

\* A batch without rows is exchanged with nobody, though a write is sent all the
\* same; the main collection, which has no name, is not created, and handle 0
\* is not committed.
ReturnsAtOnce(c, r) ==
    \/ Exchanged(c) /\ r.rows = 0
    \/ c.op = "col_create" /\ c.name = 0
    \/ c.op = "txn_commit" /\ c.txn = 0

Send ==
    /\ stage = "made"
    /\ request' = RequestOf(call)
    /\ stage' = IF ReturnsAtOnce(call, request') THEN "returned" ELSE "sent"
    /\ UNCHANGED <<call, args, found, result>>

Serve ==
    /\ stage = "sent"
    /\ args' = ArgsOf(request)
    /\ found' \in Finds(request.cmd, request.rows)
    /\ stage' = "served"
    /\ UNCHANGED <<call, request, result>>

Receive ==
    /\ stage = "served"
    /\ result' = ResultOf(call, found)
    /\ stage' = "returned"
    /\ UNCHANGED <<call, request, args, found>>

WireNext == Send \/ Serve \/ Receive

-----------------------------------------------------------------------------
(* Properties *)

Reached == args.op # "none"
Commands == {"col_create", "col_drop", "snap_create", "snap_drop", "txn_begin", "txn_commit"}

\* The engine behind the server is called with the transaction, the collections,
\* the keys and the limits the client passed, whichever of the parameter, the
\* column and the default carried the collections; a read also with its
\* snapshot, and everything but a write with its options.  The commands reach it
\* with their name, drop mode and handle, except that a snapshot to be dropped
\* is refused and stays.
PlacesArrive == Reached =>
    /\ call.op \notin {"col_create", "col_drop", "snap_create", "snap_drop"} => args.txn = call.txn
    /\ (args.op = "refused") = (call.op = "snap_drop")
    /\ call.op = "col_create" => args.name = Some(call.name)
    /\ call.op = "col_drop" => args.cols = <<call.col>> /\ args.mode = Some(call.mode)
    /\ call.op = "txn_begin" => args.options = call.options \cap {"dont_watch"}
    /\ call.op \in {"write", "paths_write", "txn_commit"} => args.options = WriteFlags(call.options)
    /\ call.op \notin Commands \union {"list"} => args.cols = Addressed(call.cols, request.rows)
    /\ call.op \in {"read", "write", "scan"} => args.keys = call.keys
    /\ call.op \in {"scan", "sample", "paths_match"} => args.limits = call.limits
    /\ call.op = "read" => args.snap = call.snap
    /\ Exchanged(call) => args.options = ExportOptions(call.options)

\* Values that touch but begin inside their tape arrive shifted to its start:
\* other bytes of it, but as many, and none where the value is absent.
ShiftedToStart(c) == IsContinuous(c) /\ ~IsArrow(c) /\ c.offs # None /\ c.offs[1][1] > 0
SameShape(a, b) == \A i \in DOMAIN a : IF a[i] = None THEN b[i] = None ELSE Len(b[i][1]) = Len(a[i][1])
Arrive(c, meant, decoded) ==
    IF ShiftedToStart(c) THEN SameShape(meant, decoded[1]) ELSE decoded = Some(meant)
\* A layout that is Arrow's already reaches the path calls without offsets.
LosesOffsets(c) == IsContinuous(c) /\ IsArrow(c)
\* The path calls tell an absent value by its presence bit only.
ByPresence(c) == [i \in DOMAIN c.ptrs |->
    IF At(c, i) = None /\ (c.pres = None \/ c.pres[1][i]) THEN Some(<<>>) ELSE Meaning(c)[i]]
\* The client ends a string without a length at the path separator, which the
\* caller sets; an engine ends it at the zero byte whatever the separator is.
EndsAtSeparator(c) == c.lens = None /\ c.offs = None /\ c.sep # 0
InTheEngine(c) == [c EXCEPT !.sep = 0]
PathArrives(c, decoded) ==
    LosesOffsets(c) \/ Arrive(c, ByPresence(IF EndsAtSeparator(c) THEN c ELSE InTheEngine(c)), decoded)

\* Whatever layout the caller used (Arrow's, offsets and lengths, separate
\* pointers, terminated strings; with or without presence bits), the engine
\* reads the same bytes for every task as if it were linked to the caller, and
\* an absent value stays apart from an empty one.  The layouts the code is known
\* to garble are named above: of a path that ends at another separator than the
\* zero byte it reads what comes before the first separator.
ContentsArrive == Reached =>
    /\ (call.op = "write" /\ call.vals = None) => args.vals = Some(Const(request.rows, None))
    /\ (call.op = "write" /\ call.vals # None) =>
           Arrive(call.vals[1], Meaning(call.vals[1]), args.vals)
    /\ call.op \in {"paths_write", "paths_read", "paths_match"} => PathArrives(call.paths, args.paths)
    /\ (call.op = "paths_match" /\ call.prevs # None) => PathArrives(call.prevs[1], args.prevs[1])
    /\ (call.op = "paths_write" /\ call.vals # None) => PathArrives(call.vals[1], args.vals)

\* A read of the lengths alone, in which something is missing, reports present
\* values as missing: arrow_replace_missing_scalars reads the bits inverted.
Misreported(i) == /\ ReadPart(call.outs) = Some("lengths")
                  /\ \E j \in DOMAIN found : ~IsPresent(found[j])
                  /\ i \in Visited(Len(found)) /\ IsPresent(found[i])

\* The client's outputs say what the engine found: presence bits (NULL when
\* nothing is missing), lengths with the mark of a missing value, bytes cut by
\* the offsets, keys and names in order, and the match counts whenever there
\* are as many paths as patterns.
AnswersArrive == (stage = "returned" /\ Reached) =>
    /\ call.op \in {"read", "paths_read"} =>
          /\ "presences" \in call.outs =>
                IF result.pres = None THEN \A i \in DOMAIN found : IsPresent(found[i])
                ELSE \A i \in DOMAIN found : result.pres[1][i] = IsPresent(found[i])
          /\ "lengths" \in call.outs => \A i \in DOMAIN found :
                \/ Misreported(i)
                \/ result.lens[1][i] = IF IsPresent(found[i]) THEN Len(found[i][1]) ELSE Missing
          /\ "values" \in call.outs => \A i \in DOMAIN found : result.bins[1][i] = ByteOf(found[i])
    /\ call.op \in {"scan", "sample"} => result.lists = Some(found) /\ result.lens = Some(Lengths(found))
    /\ (call.op = "paths_match" /\ Total(Lengths(found)) >= Len(found)) =>
          \A i \in DOMAIN found : <<i, Len(found[i])>> \in result.lens[1]
    /\ call.op \in {"col_create", "snap_create", "txn_begin"} => result.id = Some(found[1])
    /\ call.op = "list" => \A i \in DOMAIN found : found[i] = <<result.lens[1][i], result.bins[1][i]>>

\* A call over the network is the same call: its places, its contents and its
\* answers arrive, but for the cases named above.
CallsArrive == PlacesArrive /\ ContentsArrive /\ AnswersArrive
=============================================================================
