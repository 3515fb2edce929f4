-------------------------------- MODULE Paths -------------------------------
(***************************************************************************)
(* The path modality, src/modality_paths.cpp: values under strings.  The   *)
(* paths with one hash share a bucket, the value of that hash in the       *)
(* engine.  ukv_paths_write reads the buckets with ukv_read, changes them  *)
(* in the client and writes them with ukv_write; ukv_paths_match scans the *)
(* collection page by page: other clients act in between.  The engine is   *)
(* the external part: it reads and writes a batch at once, and a           *)
(* transaction commits when nothing it watched has changed.                *)
(*                                                                         *)
(* A bucket is a sequence of members.  Its bytes matter in two places: the *)
(* removal of a member moves bytes that are not the bucket's, and a read   *)
(* exports values into the memory the buckets are in.  The bytes that a    *)
(* removal moves behind all that is in use are left out.                   *)
(***************************************************************************)
EXTENDS Integers, Sequences, FiniteSets, FiniteSetsExt, SequencesExt

CONSTANTS
    Clients,
    PathNames,
    Hash,           \* path -> the key of its bucket, a positive integer
    PathBytes,      \* the length of a path
    Paddings,       \* what may lie between the tape and the array behind it
    Writes,         \* calls of ukv_paths_write: [tasks, dont_watch]
    Reads,          \* calls of ukv_paths_read: sequences of paths
    Patterns,       \* patterns: [form, paths], form "prefix", "regex" or "bad"
    Limits,         \* values of match_counts_limits
    MaxVersion,     \* bound: changes of one bucket
    MaxCalls        \* bound: calls of the clients

Missing == -1       \* no value
Overwritten == -2
NoPath == "none"
NoBucket == <<[path |-> NoPath, val |-> Missing]>>
Damaged == <<[path |-> NoPath, val |-> Overwritten]>>    \* bytes that are no bucket any more
Buckets == {Hash[p] : p \in PathNames}

VARIABLES
    buckets,    \* key -> members [path, val], NoBucket or Damaged
    version,    \* key -> how many times the engine changed it
    txn,        \* client -> the open transaction, or Closed
    call,       \* client -> the call in progress, or the last answer
    calls,      \* how many calls there were
    match,      \* the reader that pages through the matches
    seen,       \* history: what it has found
    touched     \* history: the paths that changed or moved meanwhile

engine == <<buckets, version, txn>>
pathsVars == <<buckets, version, txn, call, calls, match, seen, touched>>

-----------------------------------------------------------------------------
(* The engine, as src/modality_paths.cpp uses it. *)

Closed == [open |-> FALSE]
Opened == [open |-> TRUE, watched |-> <<>>, changes |-> <<>>, wrote |-> <<>>]
    \* wrote is a history: the paths written in the transaction
Idle == [at |-> "idle"]

Under(f, g) == [k \in DOMAIN f \cup DOMAIN g |-> IF k \in DOMAIN f THEN f[k] ELSE g[k]]
Over(f, g) == Under(g, f)

(* What the members of a bucket are; of a missing one there are none. *)
MembersOf(b) == IF b = NoBucket THEN <<>> ELSE b

Sees(c, k) == IF txn[c].open /\ k \in DOMAIN txn[c].changes
              THEN txn[c].changes[k] ELSE buckets[k]

Watched(c, ks, dont_watch) ==
    IF txn[c].open /\ ~dont_watch
    THEN [txn EXCEPT ![c].watched =
            Under(@, [k \in ks \ DOMAIN txn[c].changes |-> version[k]])]
    ELSE txn

PathsIn(b) == {MembersOf(b)[i].path : i \in 1..Len(MembersOf(b))}

(* What a reader may trip over: members that were, or will be, in a bucket *)
(* that is replaced.                                                       *)
Moved(new) ==
    UNION {PathsIn(buckets[k]) \cup (IF new[k] = Damaged THEN {} ELSE PathsIn(new[k])) :
              k \in {k \in Buckets : new[k] # buckets[k]}}

Store(new, ks) ==
    /\ \A k \in ks : version[k] < MaxVersion
    /\ buckets' = Over(buckets, new)
    /\ version' = [k \in Buckets |-> version[k] + (IF k \in ks THEN 1 ELSE 0)]
    /\ touched' = IF match.at = "none" THEN touched
                  ELSE touched \cup Moved(Over(buckets, new))

Begin(c) ==
    /\ call[c].at = "idle" /\ ~txn[c].open
    /\ txn' = [txn EXCEPT ![c] = Opened]
    /\ UNCHANGED <<buckets, version, call, calls, match, seen, touched>>

Unchanged(c) == \A k \in DOMAIN txn[c].watched : version[k] = txn[c].watched[k]

Commit(c) ==
    /\ call[c].at = "idle" /\ txn[c].open
    /\ IF Unchanged(c) THEN Store(txn[c].changes, DOMAIN txn[c].changes)
       ELSE UNCHANGED <<buckets, version, touched>>
    /\ txn' = [txn EXCEPT ![c] = Closed]
    /\ UNCHANGED <<call, calls, match, seen>>

-----------------------------------------------------------------------------
(* Buckets. *)

(* Mutant: the paths of a bucket are not compared. *)
FindInBucketAny(b, path) == Len(MembersOf(b))

(* The place of the last member with the path, 0 when there is none. *)
FindInBucket(b, path) ==
    LET at == {i \in 1..Len(MembersOf(b)) : MembersOf(b)[i].path = path}
    IN  IF at = {} THEN 0 ELSE CHOOSE i \in at : \A j \in at : j <= i

ValueIn(b, path) ==
    IF FindInBucket(b, path) = 0 THEN Missing ELSE MembersOf(b)[FindInBucket(b, path)].val

Header == 4
Counters(n) == 2 * 4 * n
ValBytes(b, i) == b[i].val
ValsBefore(b, i) == FoldLeft(LAMBDA sum, m : sum + m.val, 0, SubSeq(b, 1, i - 1))
BucketBytes(b) ==
    LET n == Len(MembersOf(b))
    IN  IF n = 0 THEN 0
        ELSE Header + Counters(n) + n * PathBytes + ValsBefore(MembersOf(b), n + 1)
ValOffset(b, i) == Header + Counters(Len(b)) + Len(b) * PathBytes + ValsBefore(b, i)

Without(b, i) == SubSeq(b, 1, i - 1) \o SubSeq(b, i + 1, Len(b))

(* The new or changed member is the last one. *)
UpsertInBucket(b, path, val) ==
    LET i == FindInBucket(b, path)
        rest == IF i = 0 THEN MembersOf(b) ELSE Without(b, i)
    IN  Append(rest, [path |-> path, val |-> val])

(* Mutant: every bucket is taken for one with a single entry. *)
RemoveFromBucketWhole(b, path) == IF FindInBucket(b, path) = 0 THEN b ELSE NoBucket

(* The last member takes the bucket with it. *)
RemoveFromBucket(b, path) ==
    LET i == FindInBucket(b, path)
    IN  IF i = 0 THEN b
        ELSE IF Len(b) = 1 THEN NoBucket
        ELSE Without(b, i)

(* Where remove_part stops writing: it moves as many bytes as the bucket   *)
(* keeps, from behind the removed value.  Removing the path and the two    *)
(* counters moves less far.                                                *)
MovedUpTo(b, path) ==
    LET i == FindInBucket(b, path)
    IN  IF i = 0 \/ Len(b) = 1 THEN 0
        ELSE ValOffset(b, i) + BucketBytes(b) - ValBytes(b, i)

-----------------------------------------------------------------------------
(* ukv_paths_write.  `work` maps each unique bucket to what it holds,      *)
(* where it lies and where it begins there: "tape" is the memory ukv_read  *)
(* returned, "arena" is where upsert_in_bucket puts buckets.               *)

(* What a batch leaves of a map from paths to values. *)
Applied(map, tasks) ==
    Over(map, [p \in {tasks[i].path : i \in 1..Len(tasks)} |->
                 tasks[CHOOSE i \in 1..Len(tasks) :
                         tasks[i].path = p /\ \A j \in i + 1..Len(tasks) : tasks[j].path # p].val])

KeysOf(tasks) == {Hash[tasks[i].path] : i \in 1..Len(tasks)}

(* Buckets follow each other on the tape in the order of their keys. *)
TapeStart(read, k) ==
    MapThenSumSet(LAMBDA j : BucketBytes(read[j]), {j \in DOMAIN read : j < k})

(* An absent bucket is read as an empty one: ukv_paths_write asks for no   *)
(* presences.                                                              *)
OnTape(read) ==
    [k \in DOMAIN read |-> [bucket |-> MembersOf(read[k]), where |-> "tape",
                            start |-> TapeStart(read, k)]]

(* updated_buckets, a pointer and a length for each unique bucket, is      *)
(* allocated behind the tape.                                              *)
PtrBytes == 8
ViewBytes == 16
Views(read, padding) ==
    MapThenSumSet(LAMBDA j : BucketBytes(read[j]), DOMAIN read) + padding
ViewStart(work, views, j) == views + ViewBytes * Cardinality({i \in DOMAIN work : i < j})

(* The bytes behind a bucket belong to the next ones, and those behind the *)
(* tape to updated_buckets.  Where an empty bucket points to makes no      *)
(* difference.  The pointer and the length of k are assigned once more.    *)
Overwrites(work, views, k, j, path) ==
    LET end == work[k].start + MovedUpTo(work[k].bucket, path)
        empty == work[j].bucket \in {NoBucket, <<>>}
    IN  \/ /\ work[j].where = work[k].where /\ work[j].start > work[k].start
           /\ ~empty /\ work[j].start < end
        \/ /\ work[k].where = "tape"
           /\ ViewStart(work, views, j) + (IF empty THEN PtrBytes ELSE 0) < end

ArenaTop(work) ==
    LET ends == {work[k].start + BucketBytes(work[k].bucket) :
                    k \in {k \in DOMAIN work : work[k].where = "arena"}}
    IN  IF ends = {} THEN 0 ELSE CHOOSE e \in ends : \A f \in ends : f <= e

UpdateBucket(work, views, task) ==
    LET k == Hash[task.path]
        b == work[k].bucket
    IN  IF \E j \in DOMAIN work : work[j].bucket = Damaged THEN work
        ELSE IF task.val # Missing
        THEN [work EXCEPT ![k] = [bucket |-> UpsertInBucket(b, task.path, task.val),
                                  where |-> "arena", start |-> ArenaTop(work)]]
        ELSE IF b = NoBucket THEN work
        ELSE [j \in DOMAIN work |->
                IF j = k THEN [work[k] EXCEPT !.bucket = RemoveFromBucket(b, task.path)]
                ELSE IF Overwrites(work, views, k, j, task.path)
                THEN [work[j] EXCEPT !.bucket = Damaged] ELSE work[j]]

(* An empty bucket points into the tape, which is NULL if there is nothing *)
(* on it: then it is missing once it is written.                           *)
UpdatedBuckets(read, views, tasks) ==
    LET work == FoldLeft(LAMBDA w, task : UpdateBucket(w, views, task), OnTape(read), tasks)
        blank == \A k \in DOMAIN read : BucketBytes(read[k]) = 0
    IN  [k \in DOMAIN read |-> IF work[k].bucket = <<>> /\ blank THEN NoBucket ELSE work[k].bucket]

(* Mutant: the read keeps the caller's options. *)
ReadOptionsKept(c, w) == w.dont_watch

(* A transaction always watches the buckets it rewrites. *)
ReadOptions(c, w) == IF txn[c].open THEN FALSE ELSE w.dont_watch

(* What follows damage is undefined and left out. *)
Sane ==
    /\ \A k \in Buckets : buckets[k] # Damaged
    /\ \A c \in Clients : txn[c].open =>
         \A k \in DOMAIN txn[c].changes : txn[c].changes[k] # Damaged

Calls(c) ==
    /\ Sane /\ call[c].at = "idle"
    /\ calls < MaxCalls /\ calls' = calls + 1

WriteReads(c, w) ==
    /\ Calls(c)
    /\ txn' = Watched(c, KeysOf(w.tasks), ReadOptions(c, w))
    /\ call' = [call EXCEPT ![c] = [at |-> "write", tasks |-> w.tasks,
                                    read |-> [k \in KeysOf(w.tasks) |-> Sees(c, k)]]]
    /\ UNCHANGED <<buckets, version, match, seen, touched>>

WriteBack(c) ==
    /\ Sane /\ call[c].at = "write"
    /\ \E padding \in Paddings :
       LET new == UpdatedBuckets(call[c].read, Views(call[c].read, padding), call[c].tasks)
       IN  IF txn[c].open
           THEN /\ txn' = [txn EXCEPT ![c].changes = Over(@, new),
                                      ![c].wrote = Applied(@, call[c].tasks)]
                /\ UNCHANGED <<buckets, version, touched>>
           ELSE Store(new, DOMAIN new) /\ UNCHANGED txn
    /\ call' = [call EXCEPT ![c] = Idle]
    /\ UNCHANGED <<calls, match, seen>>

-----------------------------------------------------------------------------
(* ukv_paths_read: every task reads a bucket of its own; the values are    *)
(* moved to the front of the same memory, each with a terminator.          *)

(* Mutant: a bucket is exported as a whole, with its terminator. *)
ExportedVolumeWhole(read, found, i) ==
    MapThenSumSet(LAMBDA j : IF found[j] = Missing THEN 0 ELSE BucketBytes(read[j]) + 1, 1..i - 1)

(* exported_volume before a task. *)
ExportedVolume(read, found, i) ==
    MapThenSumSet(LAMBDA j : IF found[j] = Missing THEN 0 ELSE found[j] + 1, 1..i - 1)

PathsRead(c, paths) ==
    LET read == [i \in 1..Len(paths) |-> Sees(c, Hash[paths[i]])]
        found == [i \in 1..Len(paths) |-> ValueIn(read[i], paths[i])]
        starts == [i \in 1..Len(paths) |->
                     FoldLeft(LAMBDA sum, b : sum + BucketBytes(b), 0, SubSeq(read, 1, i - 1))]
    IN  /\ Calls(c)
        /\ txn' = Watched(c, {Hash[paths[i]] : i \in 1..Len(paths)}, FALSE)
        /\ call' = [call EXCEPT ![c] =
                      [at |-> "idle", paths |-> paths, read |-> read,
                       answers |-> [i \in 1..Len(paths) |->
                                      IF ExportedVolume(read, found, i) > starts[i] THEN Overwritten ELSE found[i]]]]
        /\ UNCHANGED <<buckets, version, match, seen, touched>>

-----------------------------------------------------------------------------
(* ukv_paths_match, called again with the last path it found for as long   *)
(* as it finds as many as it may: full_scan_collection from the bucket of  *)
(* that path on, with scan_in_bucket as its callback.                      *)

NoMatch == [at |-> "none"]

SeekTo(prev) == IF prev = NoPath THEN 0 ELSE Hash[prev]

(* A regular expression has to compile first. *)
Compiles(pattern) == pattern.form # "bad"

(* starts_with of a pattern that is_prefix, a match of an expression. *)
Matches(pattern, path) == path \in pattern.paths

MatchBegins(pattern, limit) ==
    /\ Sane /\ match.at = "none"
    /\ match' = [at |-> IF Compiles(pattern) THEN "scan" ELSE "failed", pattern |-> pattern, limit |-> limit, prev |-> NoPath,
                 start |-> SeekTo(NoPath), reached |-> TRUE, found |-> <<>>, page |-> <<>>]
    /\ seen' = <<>> /\ touched' = {}
    /\ UNCHANGED <<engine, call, calls>>

(* Mutant: the next call starts behind the bucket of the last path. *)
ResumeBehind(m) ==
    [m EXCEPT !.at = "scan", !.prev = Last(m.found), !.start = SeekTo(Last(m.found)) + 1,
              !.reached = FALSE, !.found = <<>>, !.page = <<>>]

(* The next call of ukv_paths_match. *)
Resume(m) ==
    [m EXCEPT !.at = "scan", !.prev = Last(m.found), !.start = SeekTo(Last(m.found)),
              !.reached = FALSE, !.found = <<>>, !.page = <<>>]

(* The call returns: the reader goes on when it has found all it asked for. *)
Returns(m) == IF Len(m.found) = m.limit THEN Resume(m) ELSE [m EXCEPT !.at = "done"]

Ascending(S) ==
    [i \in 1..Cardinality(S) |-> CHOOSE k \in S : Cardinality({j \in S : j < k}) = i - 1]

(* ukv_scan; one key or none is taken for the end of the collection. *)
MatchScans ==
    LET keys == Ascending({k \in Buckets : k >= match.start /\ buckets[k] # NoBucket})
        ahead == IF match.limit < 2 THEN 2 ELSE match.limit
        page == SubSeq(keys, 1, IF Len(keys) < ahead THEN Len(keys) ELSE ahead)
    IN  /\ Sane /\ match.at = "scan"
        /\ match' = IF Len(page) <= 1 THEN Returns(match)
                    ELSE [match EXCEPT !.at = "read", !.page = page]
        /\ seen' = IF Len(page) <= 1 THEN seen \o match.found ELSE seen
        /\ UNCHANGED <<engine, call, calls, touched>>

(* scan_in_bucket of one member. *)
ScanMember(m, path) ==
    IF ~Matches(m.pattern, path) THEN m
    ELSE IF path = m.prev THEN [m EXCEPT !.reached = TRUE]
    ELSE IF ~m.reached \/ Len(m.found) >= m.limit THEN m
    ELSE [m EXCEPT !.found = Append(@, path)]

ScanInBucket(m, b) ==
    IF Len(m.found) >= m.limit THEN m
    ELSE FoldLeft(LAMBDA n, member : ScanMember(n, member.path), m, MembersOf(b))

(* ukv_read of the page and the callbacks. *)
MatchReads ==
    LET page == match.page
        after == FoldLeft(ScanInBucket, match, [i \in 1..Len(page) |-> buckets[page[i]]])
        stops == Len(after.found) >= after.limit
    IN  /\ Sane /\ match.at = "read"
        /\ match' = IF stops THEN Returns(after)
                    ELSE [after EXCEPT !.at = "scan", !.start = Last(page) + 1, !.page = <<>>]
        /\ seen' = IF stops THEN seen \o after.found ELSE seen
        /\ UNCHANGED <<engine, call, calls, touched>>

-----------------------------------------------------------------------------
PathsInit ==
    /\ buckets = [k \in Buckets |-> NoBucket]
    /\ version = [k \in Buckets |-> 0]
    /\ txn = [c \in Clients |-> Closed]
    /\ call = [c \in Clients |-> Idle]
    /\ calls = 0
    /\ match = NoMatch /\ seen = <<>> /\ touched = {}

PathsNext ==
    \/ \E c \in Clients : \/ Begin(c) \/ Commit(c) \/ WriteBack(c)
                          \/ \E w \in Writes : WriteReads(c, w)
                          \/ \E r \in Reads : PathsRead(c, r)
    \/ \E p \in Patterns, l \in Limits : MatchBegins(p, l)
    \/ MatchScans \/ MatchReads

-----------------------------------------------------------------------------
(* A bucket holds paths with its hash only, and none of them twice         *)
(* (upsert_in_bucket).                                                     *)
BucketsSound ==
    \A k \in Buckets :
        buckets[k] \notin {NoBucket, Damaged} =>
            /\ \A i \in 1..Len(buckets[k]) : Hash[buckets[k][i].path] = k
            /\ Cardinality(PathsIn(buckets[k])) = Len(buckets[k])

PathsNow == [p \in PathNames |-> ValueIn(buckets[Hash[p]], p)]
PathsThen == [p \in PathNames |-> ValueIn(buckets'[Hash[p]], p)]

(* When nothing else changed its buckets a write leaves every path of the  *)
(* batch with the value of its last task and every other path as it was,   *)
(* colliding or not, unless a removal has moved bytes that are not its own *)
(* (ukv_paths_write).                                                      *)
BatchApplied ==
    [][\A c \in Clients :
          /\ call[c].at = "write" /\ call'[c].at = "idle" /\ ~txn[c].open
          /\ \A k \in DOMAIN call[c].read : call[c].read[k] = buckets[k]
          /\ \A k \in Buckets : buckets'[k] # Damaged
          => PathsThen = Applied(PathsNow, call[c].tasks)]_pathsVars

(* A transaction that commits leaves the paths it wrote as it wrote them   *)
(* and every other path as it is, even if others wrote to the same buckets *)
(* meanwhile and whatever the caller asked to be watched (ukv_paths_write  *)
(* clears ukv_option_transaction_dont_watch_k).                            *)
CommitKeepsOthers ==
    [][\A c \in Clients :
          txn[c].open /\ ~txn'[c].open /\ buckets' # buckets /\ Sane =>
              PathsThen = Over(PathsNow, txn[c].wrote)]_pathsVars

(* Every task of a read is answered with the value of its own path: moving *)
(* the values to the front of the memory never reaches a bucket that is    *)
(* still to be read (ukv_paths_read).                                      *)
ReadsOwnValues ==
    \A c \in Clients :
        "answers" \in DOMAIN call[c] =>
            \A i \in 1..Len(call[c].paths) :
                LET held == {m.val : m \in {MembersOf(call[c].read[i])[j] :
                                               j \in {j \in 1..Len(MembersOf(call[c].read[i])) :
                                                  MembersOf(call[c].read[i])[j].path = call[c].paths[i]}}}
                IN  IF held = {} THEN call[c].answers[i] = Missing
                    ELSE call[c].answers[i] \in held

(* Paging through the matches finds every matching path that stayed where  *)
(* it was exactly once, except for those of the last bucket, unless the    *)
(* last path of some page was moved (ukv_paths_match, scan_in_bucket).     *)
PagesCover ==
    [][match.at \notin {"none", "done"} /\ match'.at = "done" =>
          LET kept(p) == Hash[p] \notin {Hash[q] : q \in touched}
              last(k) == \A j \in Buckets : j > k => buckets[j] = NoBucket
          IN  /\ \A p \in PathNames : kept(p) => Cardinality({i \in DOMAIN seen' : seen'[i] = p}) <= 1
              /\ \A i \in DOMAIN seen' : Matches(match.pattern, seen'[i])
              /\ (\A i \in DOMAIN seen' : kept(seen'[i])) =>
                   \A k \in Buckets : ~last(k) => \A p \in PathsIn(buckets[k]) \cap match.pattern.paths :
                       kept(p) => \E i \in DOMAIN seen' : seen'[i] = p]_pathsVars

(* A path is where it is looked for, once, and reads find it there.        *)
PathsFound == BucketsSound /\ ReadsOwnValues
=============================================================================
