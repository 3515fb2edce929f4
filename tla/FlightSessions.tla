--------------------------- MODULE FlightSessions ---------------------------
(***************************************************************************)
(* The session table of the Arrow Flight server (sessions_t in             *)
(* src/flight_server.cpp) under concurrent RPC handlers.                   *)
(*                                                                         *)
(* The server owns a fixed pool of transaction handles and memory arenas.  *)
(* A TxnBegin action takes one of each and parks them in client_to_txn_    *)
(* under the caller's session id; reads and writes of that transaction     *)
(* borrow them (lock, ~session_lock_t); TxnCommit gives them back.  A call *)
(* outside a transaction borrows an arena only.  When the pool is empty an *)
(* idle session is evicted.                                                *)
(*                                                                         *)
(* Every critical section of mutex_ is one action; the engine call between *)
(* two sections touches handles private to the call and is merged into the *)
(* section that follows it.                                                *)
(***************************************************************************)
EXTENDS Integers, FiniteSets, Functions

CONSTANTS
    Calls,          \* handler threads of the Flight server
    Sessions,       \* session ids with a transaction part (session_id_t)
    Handles,        \* names of the live transaction and arena objects
    Null,           \* nullptr: a pool entry whose object is not created yet
    NoSession,      \* the session id of a call outside any transaction
    Capacity,       \* sessions_t(db, n)
    Timeout,        \* milliseconds_timeout
    Word,           \* 2^w, the range of std::size_t
    MaxAge,         \* bound: ages are counted up to this many milliseconds
    MaxFree,        \* bound: failed locks stop being modelled past this pool size
    SerialClients,  \* no two calls in flight on one transaction id
    InitMayFail     \* ukv_transaction_init may report an error

ASSUME SessionsAssumption ==
    /\ Null \notin Handles
    /\ NoSession \notin Sessions

ASSUME NumbersAssumption ==
    /\ Capacity \in Nat \ {0}
    /\ MaxFree \in Nat
    /\ MaxAge \in Nat
    /\ Timeout \in Nat \ {0}
    /\ Word \in Nat
    /\ MaxAge + Timeout < Word

ASSUME FlagsAssumption ==
    /\ SerialClients \in BOOLEAN
    /\ InitMayFail \in BOOLEAN

VARIABLES
    free_arenas,    \* free_arenas_, a bag: how many entries hold each handle
    free_txns,      \* free_txns_, likewise
    client_to_txn,  \* client_to_txn_: live session id -> running_txn_t
    at,             \* what each call is doing between two critical sections
    id,             \* the session id of each call
    run,            \* the running_txn_t (or session_lock_t) each call carries
    crashed         \* the process died in pop()

vars == <<free_arenas, free_txns, client_to_txn, at, id, run, crashed>>

pool == <<free_arenas, free_txns>>

-----------------------------------------------------------------------------

Handle == Handles \cup {Null}

\* running_txn_t; the last access is kept as an age in milliseconds.
Running == [txn : Handle, arena : Handle, age : 0..MaxAge, executing : BOOLEAN]

\* running_txn_t {}: what the failing paths return.
NoRunning == [txn |-> Null, arena |-> Null, age |-> 0, executing |-> FALSE]

\* A session as request_txn and continue_txn hand it out, and as hold_txn
\* parks it.
Touched(r) == [txn |-> r.txn, arena |-> r.arena, age |-> 0, executing |-> TRUE]
Parked(t, a, age) == [txn |-> t, arena |-> a, age |-> age, executing |-> FALSE]

\* "begin": between request_txn and hold_txn.     "commit": between
\* continue_txn and release_txn.   "commit_failed": continue_txn reported an
\* error.   "locked": between lock and ~session_lock_t.   "lock_failed": lock
\* reported an error.   "streaming": the handler returned, Arrow still reads
\* the exported buffers.
Steps == {"idle", "begin", "commit", "commit_failed",
          "locked", "lock_failed", "streaming"}

Live == DOMAIN client_to_txn

Idle(s) == ~client_to_txn[s].executing

TypeOK ==
    /\ free_arenas \in [Handle -> Nat]
    /\ free_txns \in [Handle -> Nat]
    /\ Live \subseteq Sessions
    /\ client_to_txn \in [Live -> Running]
    /\ at \in [Calls -> Steps]
    /\ id \in [Calls -> Sessions \cup {NoSession}]
    /\ run \in [Calls -> Running]
    /\ crashed \in BOOLEAN

\* vector::push_back and the removal of some entry (the order of the entries
\* is abstracted away: back() is any entry).
Push(free, h) == [free EXCEPT ![h] = @ + 1]
Drop(free, h) == [free EXCEPT ![h] = @ - 1]
Entries(free) == {h \in Handle : free[h] > 0}
Empty(free) == Entries(free) = {}

Insert(s, r) == [x \in Live \cup {s} |-> IF x = s THEN r ELSE client_to_txn[x]]
Erase(s) == Restrict(client_to_txn, Live \ {s})

\* Objects nobody refers to: the name a constructor may give to a new one.
FreshTxns ==
    {h \in Handles : /\ free_txns[h] = 0
                     /\ \A s \in Live : client_to_txn[s].txn # h
                     /\ \A c \in Calls : run[c].txn # h}
FreshArenas ==
    {h \in Handles : /\ free_arenas[h] = 0
                     /\ \A s \in Live : client_to_txn[s].arena # h
                     /\ \A c \in Calls : run[c].arena # h}

Init ==
    /\ free_arenas = [h \in Handle |-> IF h = Null THEN Capacity ELSE 0]
    /\ free_txns = [h \in Handle |-> IF h = Null THEN Capacity ELSE 0]
    /\ client_to_txn = [s \in {} |-> NoRunning]
    /\ at = [c \in Calls |-> "idle"]
    /\ id = [c \in Calls |-> NoSession]
    /\ run = [c \in Calls |-> NoRunning]
    /\ crashed = FALSE

-----------------------------------------------------------------------------
(* pop(): std::min_element over the table, with a comparator that prefers   *)
(* the left session when it is strictly older and not executing.  Whatever  *)
(* the iteration order of the unordered_map, the result is a session no     *)
(* idle session is strictly older than.                                     *)

Victims ==
    {v \in Live : \A s \in Live : Idle(s) =>
                     client_to_txn[s].age <= client_to_txn[v].age}

\* `age.count() < milliseconds_timeout`: last_access - now is zero or
\* negative, and is converted to the unsigned type of the right-hand side.
BelowTimeout(age) == (Word - age) % Word < Timeout

\* Variant: a session with a call in flight is evicted too.
EvictableExecuting(v) == ~BelowTimeout(client_to_txn[v].age)

Evictable(v) == ~BelowTimeout(client_to_txn[v].age) /\ Idle(v)

\* end() of the empty table is dereferenced: a null node in the build's
\* standard library, so the process dies.
PopOfEmptyTable ==
    /\ Live = {}
    /\ crashed' = TRUE
    /\ UNCHANGED <<pool, client_to_txn, at, id, run>>

-----------------------------------------------------------------------------
(* What a client may send.                                                  *)

Starts(c, s) ==
    /\ ~crashed
    /\ at[c] = "idle"
    /\ SerialClients => \A d \in Calls : at[d] # "idle" => id[d] # s

StartsPlain(c) == ~crashed /\ at[c] = "idle"

Goes(c, step, s, r) ==
    /\ at' = [at EXCEPT ![c] = step]
    /\ id' = [id EXCEPT ![c] = s]
    /\ run' = [run EXCEPT ![c] = r]

Returns(c) == Goes(c, "idle", NoSession, NoRunning)

-----------------------------------------------------------------------------
(* DoAction, TxnBegin.  The early returns of request_txn ("Such transaction *)
(* is already running", "Too many concurrent sessions") change nothing and  *)
(* are stuttering steps.                                                    *)

NeedsEviction == Empty(free_txns) \/ Empty(free_arenas)

TxnBegin(c, s) ==
    /\ Starts(c, s)
    /\ s \notin Live
    /\ \E t \in Entries(free_txns), a \in Entries(free_arenas) :
          /\ free_txns' = Drop(free_txns, t)
          /\ free_arenas' = Drop(free_arenas, a)
          /\ Goes(c, "begin", s, Touched([txn |-> t, arena |-> a]))
    /\ UNCHANGED <<client_to_txn, crashed>>

TxnBeginEvicting(c, s) ==
    /\ Starts(c, s)
    /\ s \notin Live
    /\ NeedsEviction
    /\ \E v \in Victims :
          /\ Evictable(v)
          /\ client_to_txn' = Erase(v)
          /\ Goes(c, "begin", s, Touched(client_to_txn[v]))
    /\ UNCHANGED <<pool, crashed>>

TxnBeginCrashes(c, s) ==
    /\ Starts(c, s)
    /\ NeedsEviction
    /\ PopOfEmptyTable

\* The engine creates or resets the transaction, then hold_txn parks it; the
\* last access is still that of request_txn.
TxnHold(c) ==
    /\ ~crashed
    /\ at[c] = "begin"
    /\ \E t \in IF run[c].txn = Null THEN FreshTxns ELSE {run[c].txn} :
          client_to_txn' = Insert(id[c], Parked(t, run[c].arena, run[c].age))
    /\ Returns(c)
    /\ UNCHANGED <<pool, crashed>>

\* release_txn(session_id): by id, whatever the table holds under it.
ReleaseTxn(s) ==
    IF s \in Live
    THEN /\ free_arenas' = Push(free_arenas, client_to_txn[s].arena)
         /\ free_txns' = Push(free_txns, client_to_txn[s].txn)
         /\ client_to_txn' = Erase(s)
    ELSE UNCHANGED <<pool, client_to_txn>>

TxnInitFails(c) ==
    /\ InitMayFail
    /\ ~crashed
    /\ at[c] = "begin"
    /\ ReleaseTxn(id[c])
    /\ Returns(c)
    /\ UNCHANGED crashed

-----------------------------------------------------------------------------
(* continue_txn, shared by TxnCommit and by the lock of a transactional     *)
(* read or write.                                                           *)

CanContinue(s) == s \in Live /\ Idle(s)

\* Variant: the session is not marked as executing.
ContinueTxnUnmarked(c, s, step) ==
    /\ CanContinue(s)
    /\ Goes(c, step, s, [client_to_txn[s] EXCEPT !.age = 0])
    /\ UNCHANGED <<pool, client_to_txn, crashed>>

ContinueTxn(c, s, step) ==
    /\ CanContinue(s)
    /\ client_to_txn' = Insert(s, Touched(client_to_txn[s]))
    /\ Goes(c, step, s, Touched(client_to_txn[s]))
    /\ UNCHANGED <<pool, crashed>>

TxnCommit(c, s) ==
    /\ Starts(c, s)
    /\ ContinueTxn(c, s, "commit")

TxnCommitFails(c, s) ==
    /\ Starts(c, s)
    /\ ~CanContinue(s)
    /\ Goes(c, "commit_failed", s, NoRunning)
    /\ UNCHANGED <<pool, client_to_txn, crashed>>

\* After the engine's commit, successful or not, and also after a continue_txn
\* that failed: the session is released by its id.
TxnCommitReturns(c) ==
    /\ ~crashed
    /\ at[c] \in {"commit", "commit_failed"}
    /\ ReleaseTxn(id[c])
    /\ Returns(c)
    /\ UNCHANGED crashed

-----------------------------------------------------------------------------
(* lock and ~session_lock_t around the engine call of DoExchange, DoPut and *)
(* DoGet.                                                                   *)

Lock(c, s) ==
    /\ Starts(c, s)
    /\ ContinueTxn(c, s, "locked")

LockFails(c, s) ==
    /\ Starts(c, s)
    /\ ~CanContinue(s)
    /\ free_arenas[Null] < MaxFree
    /\ Goes(c, "lock_failed", s, NoRunning)
    /\ UNCHANGED <<pool, client_to_txn, crashed>>

\* request_arena, for a call outside any transaction.
RequestArena(c) ==
    /\ StartsPlain(c)
    /\ \E a \in Entries(free_arenas) :
          /\ free_arenas' = Drop(free_arenas, a)
          /\ Goes(c, "locked", NoSession, [NoRunning EXCEPT !.arena = a])
    /\ UNCHANGED <<free_txns, client_to_txn, crashed>>

\* Variant: the transaction handle of the evicted session is dropped.
RequestArenaDropsTxn(c) ==
    /\ StartsPlain(c)
    /\ Empty(free_arenas)
    /\ \E v \in Victims :
          /\ Evictable(v)
          /\ client_to_txn' = Erase(v)
          /\ Goes(c, "locked", NoSession,
                  [NoRunning EXCEPT !.arena = client_to_txn[v].arena])
    /\ UNCHANGED <<pool, crashed>>

RequestArenaEvicting(c) ==
    /\ StartsPlain(c)
    /\ Empty(free_arenas)
    /\ \E v \in Victims :
          /\ Evictable(v)
          /\ client_to_txn' = Erase(v)
          /\ free_txns' = Push(free_txns, client_to_txn[v].txn)
          /\ Goes(c, "locked", NoSession,
                  [NoRunning EXCEPT !.arena = client_to_txn[v].arena])
    /\ UNCHANGED <<free_arenas, crashed>>

RequestArenaFails(c) ==
    /\ StartsPlain(c)
    /\ Empty(free_arenas)
    /\ \E v \in Victims : ~Evictable(v)
    /\ Goes(c, "lock_failed", NoSession, NoRunning)
    /\ UNCHANGED <<pool, client_to_txn, crashed>>

RequestArenaCrashes(c) ==
    /\ StartsPlain(c)
    /\ Empty(free_arenas)
    /\ PopOfEmptyTable

\* The destructor: hold_txn for a transaction, release_arena otherwise.  The
\* engine may have created the arena's memory in between.  DoGet hands Arrow
\* a stream over that memory, which is read after the handler returned.
Unlock(c) ==
    /\ ~crashed
    /\ at[c] = "locked"
    /\ \E a \in IF run[c].arena = Null THEN FreshArenas \cup {Null} ELSE {run[c].arena} :
          /\ IF run[c].txn # Null
             THEN /\ client_to_txn' =
                        Insert(id[c], Parked(run[c].txn, a, 0))
                  /\ UNCHANGED free_arenas
             ELSE /\ free_arenas' = Push(free_arenas, a)
                  /\ UNCHANGED client_to_txn
          /\ \/ Returns(c)
             \/ /\ a # Null
                /\ Goes(c, "streaming", id[c], [NoRunning EXCEPT !.arena = a])
    /\ UNCHANGED <<free_txns, crashed>>

\* The same destructor after a failed lock: both members are nullptr.
UnlockFailed(c) ==
    /\ ~crashed
    /\ at[c] = "lock_failed"
    /\ free_arenas' = Push(free_arenas, Null)
    /\ Returns(c)
    /\ UNCHANGED <<free_txns, client_to_txn, crashed>>

StreamEnds(c) ==
    /\ ~crashed
    /\ at[c] = "streaming"
    /\ Returns(c)
    /\ UNCHANGED <<pool, client_to_txn, crashed>>

-----------------------------------------------------------------------------

Older(r) == [r EXCEPT !.age = IF @ < MaxAge THEN @ + 1 ELSE @]

\* A millisecond passes.  The age a call carries matters until hold_txn.
Tick ==
    /\ ~crashed
    /\ client_to_txn' = [s \in Live |-> Older(client_to_txn[s])]
    /\ run' = [c \in Calls |-> IF at[c] = "begin" THEN Older(run[c]) ELSE run[c]]
    /\ <<client_to_txn, run>>' # <<client_to_txn, run>>
    /\ UNCHANGED <<pool, at, id, crashed>>

\* Nothing happens after the process died.
Dead == crashed /\ UNCHANGED vars

Next ==
    \/ \E c \in Calls :
          \/ \E s \in Sessions :
                \/ TxnBegin(c, s) \/ TxnBeginEvicting(c, s) \/ TxnBeginCrashes(c, s)
                \/ TxnCommit(c, s) \/ TxnCommitFails(c, s)
                \/ Lock(c, s) \/ LockFails(c, s)
          \/ TxnHold(c) \/ TxnInitFails(c) \/ TxnCommitReturns(c)
          \/ RequestArena(c) \/ RequestArenaEvicting(c)
          \/ RequestArenaFails(c) \/ RequestArenaCrashes(c)
          \/ Unlock(c) \/ UnlockFailed(c) \/ StreamEnds(c)
    \/ Tick
    \/ Dead

Spec == Init /\ [][Next]_vars

-----------------------------------------------------------------------------
(* Properties.                                                              *)

\* The call may touch the handles it carries.
Using(c) == at[c] \in {"begin", "commit", "locked"}

\* No transaction handle and no arena is used by two calls at once, is in the
\* free list while a call uses it, or is parked under a session other than
\* the one of the call that uses it.  "transactions are not thread-safe"
\* (src/flight_server.cpp:513) and every call clears the arena it is given.
HandlesExclusive ==
    \A c \in Calls : Using(c) =>
       /\ run[c].txn # Null =>
             /\ free_txns[run[c].txn] = 0
             /\ \A s \in Live \ {id[c]} : client_to_txn[s].txn # run[c].txn
             /\ \A d \in Calls \ {c} : Using(d) => run[d].txn # run[c].txn
       /\ run[c].arena # Null =>
             /\ free_arenas[run[c].arena] = 0
             /\ \A s \in Live \ {id[c]} : client_to_txn[s].arena # run[c].arena
             /\ \A d \in Calls \ {c} : Using(d) => run[d].arena # run[c].arena

Beginning == {c \in Calls : at[c] = "begin"}
PlainLocked == {c \in Calls : at[c] = "locked" /\ id[c] = NoSession}

\* The entries of a free list, those with one handle numbered.
Listed(free) == UNION {{h} \X (1..free[h]) : h \in Handle}

TxnsHeld ==
    Cardinality(Listed(free_txns)) + Cardinality(Live) + Cardinality(Beginning)
ArenasHeld ==
    Cardinality(Listed(free_arenas)) + Cardinality(Live) + Cardinality(Beginning)
       + Cardinality(PlainLocked)

\* Every handle of the pool stays in a free list, in the session table or with
\* a call that will give it back ("if a client goes mute or disconnects, we
\* can reuse same memory", src/flight_server.cpp:259-261).  The only step that
\* loses one is the error path of a TxnBegin whose ukv_transaction_init fails:
\* it releases by an id that is not in the table yet.
NoHandleLost ==
    [][TxnsHeld' < TxnsHeld \/ ArenasHeld' < ArenasHeld =>
          \E c \in Calls : TxnInitFails(c)]_vars

\* The session of a call in flight stays in the table until that call itself
\* commits, and a session whose client is between two calls leaves it only
\* when a free list is empty.
EvictionOnlyUnderPressure ==
    [][\A s \in Live \ Live' :
          \/ \E c \in Calls : at[c] = "commit" /\ id[c] = s /\ at'[c] = "idle"
          \/ Idle(s) /\ NeedsEviction]_vars

\* A session is evicted only after it was idle for the timeout.
EvictionHonoursTimeout ==
    [][\A s \in Live \ Live' : Idle(s) => client_to_txn[s].age >= Timeout]_vars

\* The arena a response is still streamed from is not used by another call.
StreamedArenaUntouched ==
    \A c, d \in Calls :
       at[c] = "streaming" /\ at[d] = "locked" => run[d].arena # run[c].arena

-----------------------------------------------------------------------------
(* The inductive invariant behind HandlesExclusive, for clients that send   *)
(* one call at a time on a transaction id.                                  *)

\* What a call carries goes with the kind of call, for any client.
CallsWellFormed ==
    \A c \in Calls :
       /\ at[c] \in {"begin", "commit", "commit_failed"} => id[c] \in Sessions
       /\ at[c] = "locked" /\ id[c] = NoSession => run[c].txn = Null

OneCallPerSession ==
    \A c, d \in Calls :
       /\ c # d
       /\ at[c] # "idle" /\ at[d] # "idle"
       /\ id[c] = id[d]
       => id[c] = NoSession

\* A call carries what the table has under its session id, and marked it.
MatchesTable(c) ==
    /\ at[c] \in {"begin", "commit_failed"} => id[c] \notin Live
    /\ at[c] \in {"commit", "locked"} /\ id[c] # NoSession =>
          /\ id[c] \in Live
          /\ ~Idle(id[c])
          /\ run[c].txn = client_to_txn[id[c]].txn
          /\ run[c].arena = client_to_txn[id[c]].arena

CallsMatchTable == \A c \in Calls : MatchesTable(c)

\* A session is marked as executing only while a call works on it.
MarkedSessionsHaveCalls ==
    \A s \in Live : ~Idle(s) =>
       \E c \in Calls : at[c] \in {"commit", "locked"} /\ id[c] = s

TxnsOwnedOnce ==
    /\ \A h \in Handles : free_txns[h] <= 1
    /\ \A s \in Live : /\ client_to_txn[s].txn # Null
                       /\ free_txns[client_to_txn[s].txn] = 0
    /\ \A s, u \in Live : s # u => client_to_txn[s].txn # client_to_txn[u].txn
    /\ \A c \in Calls : at[c] = "begin" /\ run[c].txn # Null =>
          /\ free_txns[run[c].txn] = 0
          /\ \A s \in Live : client_to_txn[s].txn # run[c].txn
          /\ \A d \in Calls \ {c} : at[d] = "begin" => run[d].txn # run[c].txn

\* The calls that own their arena; any other borrows it from its session.
OwnsArena(c) == at[c] = "begin" \/ (at[c] = "locked" /\ id[c] = NoSession)

ArenasOwnedOnce ==
    /\ \A h \in Handles : free_arenas[h] <= 1
    /\ \A s \in Live : client_to_txn[s].arena # Null =>
          /\ free_arenas[client_to_txn[s].arena] = 0
          /\ \A u \in Live \ {s} : client_to_txn[u].arena # client_to_txn[s].arena
    /\ \A c \in Calls : OwnsArena(c) /\ run[c].arena # Null =>
          /\ free_arenas[run[c].arena] = 0
          /\ \A s \in Live : client_to_txn[s].arena # run[c].arena
          /\ \A d \in Calls \ {c} : OwnsArena(d) => run[d].arena # run[c].arena

Ownership ==
    /\ TypeOK
    /\ CallsWellFormed
    /\ OneCallPerSession
    /\ CallsMatchTable
    /\ MarkedSessionsHaveCalls
    /\ TxnsOwnedOnce
    /\ ArenasOwnedOnce
=============================================================================
