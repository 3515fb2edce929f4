-------------------------------- MODULE Rpc ---------------------------------
(***************************************************************************)
(* Transactions over Arrow Flight, end to end: clients that call the C API *)
(* of src/flight_client.cpp one call at a time, requests that travel and   *)
(* may outlive the call that sent them, and the handlers of                *)
(* src/flight_server.cpp, each a step that locks its session and a step    *)
(* that calls the engine and lets the session go.  Connections break.      *)
(*                                                                         *)
(* What the client cannot see matters here: a write is not answered, so a  *)
(* refusal by the server is lost; a commit returns once it is on its way.  *)
(* The pool of handles behind the sessions is the subject of               *)
(* FlightSessions; here an idle session may be evicted at any time.        *)
(***************************************************************************)
EXTENDS Integers, FiniteSets, Functions

CONSTANTS
    Clients,    \* connections, each used by one thread
    RpcKeys,
    MaxId,      \* transaction ids are 1..MaxId, and 0
    MaxCalls    \* bound on the calls of one client

ASSUME RpcAssumption == MaxId \in Nat /\ MaxCalls \in Nat

VARIABLES
    rpcStore,   \* the value of each key, named by the call that wrote it
    sessions,   \* the running transactions by client and id
    requests,   \* what was sent and is not done with, by client and call number
    client      \* the state of each client, and what it believes

rpcVars == <<rpcStore, sessions, requests, client>>

Ids == 0..MaxId
Stamps == (Clients \X (1..MaxCalls)) \union {<<>>}
Ops == {"begin", "read", "write", "commit"}
Stages == {"sent", "locked", "answered", "refused"}
NoWrites == [k \in {} |-> <<>>]
WriteSets == UNION {[K -> Stamps] : K \in SUBSET RpcKeys}

Session == [busy : BOOLEAN, writes : WriteSets]
Fresh == [busy |-> FALSE, writes |-> NoWrites]

\* Records with every field, so that a request of any kind has one type.
Request == [op : Ops, id : Ids, key : RpcKeys \union {0}, stage : Stages, value : Stamps,
            expect : WriteSets, sure : BOOLEAN]    \* what a commit expects to be applied
\* "sure": no write of the transaction was refused or cut off unnoticed.
Client == [calls : 0..MaxCalls, waiting : BOOLEAN, handle : Ids, open : BOOLEAN,
           writes : WriteSets, sure : BOOLEAN]

RpcTypeOK ==
    /\ rpcStore \in [RpcKeys -> Stamps]
    /\ DOMAIN sessions \subseteq Clients \X Ids /\ \A s \in DOMAIN sessions : sessions[s] \in Session
    /\ DOMAIN requests \subseteq Clients \X (1..MaxCalls) /\ \A r \in DOMAIN requests : requests[r] \in Request
    /\ client \in [Clients -> Client]

Without(f, x) == Restrict(f, DOMAIN f \ {x})
With(f, x, y) == [z \in DOMAIN f \union {x} |-> IF z = x THEN y ELSE f[z]]

RpcInit ==
    /\ rpcStore = [k \in RpcKeys |-> <<>>]
    /\ sessions = [s \in {} |-> Fresh]
    /\ requests = [r \in {} |-> <<>>]
    /\ client = [c \in Clients |-> [calls |-> 0, waiting |-> FALSE, handle |-> 0, open |-> FALSE,
                                    writes |-> NoWrites, sure |-> TRUE]]

-----------------------------------------------------------------------------
(* The client *)

MayCall(c) == ~client[c].waiting /\ client[c].calls < MaxCalls

\* The call goes on its way; outside a transaction no id is sent.
Sends(c, op, id, key) ==
    LET n == client[c].calls + 1 IN
    /\ requests' = With(requests, <<c, n>>,
          [op |-> op, id |-> id, key |-> key, stage |-> "sent", value |-> <<>>,
           expect |-> IF op = "commit" THEN client[c].writes ELSE NoWrites,
           sure |-> op = "commit" => client[c].sure])
    /\ client' = [client EXCEPT ![c].calls = n, ![c].waiting = TRUE]
    /\ UNCHANGED <<rpcStore, sessions>>

\* ukv_transaction_init: the handle, unless 0, is sent as the id to start anew.
\* ukv_transaction_free does nothing but let the caller forget the handle.
\* Assumed: the commit that returned early is over before its handle is reused.
TransactionInit(c) ==
    /\ MayCall(c) /\ ~client[c].open
    /\ \E id \in {0, client[c].handle} :
          /\ id # 0 => \A r \in DOMAIN requests : r[1] = c => requests[r].id # id
          /\ Sends(c, "begin", id, 0)

Read(c) == MayCall(c) /\ \E k \in RpcKeys :
    Sends(c, "read", IF client[c].open THEN client[c].handle ELSE 0, k)

Write(c) == MayCall(c) /\ \E k \in RpcKeys :
    Sends(c, "write", IF client[c].open THEN client[c].handle ELSE 0, k)

\* ukv_transaction_commit refuses handle 0 before anything is sent.
TransactionCommit(c) ==
    /\ MayCall(c) /\ client[c].open
    /\ IF client[c].handle = 0
       THEN /\ client' = [client EXCEPT ![c].calls = @ + 1, ![c].open = FALSE]
            /\ UNCHANGED <<rpcStore, sessions, requests>>
       ELSE Sends(c, "commit", client[c].handle, 0)

\* A client that sees an error gives its transaction up, handle and all.
GivenUp(v) == [v EXCEPT !.waiting = FALSE, !.open = FALSE, !.handle = 0, !.writes = NoWrites, !.sure = TRUE]
Begun(v, id) == [v EXCEPT !.waiting = FALSE, !.open = TRUE, !.handle = id, !.writes = NoWrites, !.sure = TRUE]
Wrote(v, r, stamp, sure) == [v EXCEPT !.waiting = FALSE,
    !.writes = IF v.open THEN With(@, r.key, stamp) ELSE @, !.sure = @ /\ (sure \/ ~v.open)]

\* The state of the client after the answer or the refusal of its call.  A write
\* succeeds either way.
Returned(v, r, stamp) ==
    CASE r.op = "begin" /\ r.stage = "answered" -> Begun(v, r.id)
      [] r.op = "read" /\ r.stage = "answered" -> [v EXCEPT !.waiting = FALSE]
      [] r.op = "write" -> Wrote(v, r, stamp, r.stage = "answered")
      [] r.op = "commit" -> [v EXCEPT !.waiting = FALSE, !.open = FALSE, !.writes = NoWrites]
      [] OTHER -> GivenUp(v)

Done(r) == requests[r].stage \in {"answered", "refused"}

Return(c) ==
    LET n == <<c, client[c].calls>> IN
    /\ client[c].waiting
    /\ Done(n) \/ requests[n].op = "commit"
    /\ client' = [client EXCEPT ![c] = Returned(@, requests[n], n)]
    /\ requests' = IF Done(n) THEN Without(requests, n) ELSE requests
    /\ UNCHANGED <<rpcStore, sessions>>

\* The connection breaks.  The server does not know, and the client sees an
\* error.  For a write that was sent in full it sees nothing at all; that such a
\* write is not still being handled is the discipline FlightSessions asks of
\* clients: one call of a transaction at a time.
Disconnect(c) ==
    LET n == <<c, client[c].calls>> IN
    /\ client[c].waiting
    /\ \/ /\ client' = [client EXCEPT ![c] = GivenUp(@)]
          /\ requests' = IF Done(n) THEN Without(requests, n) ELSE requests
       \/ /\ requests[n].op = "write" /\ requests[n].stage # "locked"
          /\ client' = [client EXCEPT ![c] = Wrote(@, requests[n], n, FALSE)]
          /\ requests' = Without(requests, n)
    /\ UNCHANGED <<rpcStore, sessions>>

Awaited(r) == client[r[1]].waiting /\ client[r[1]].calls = r[2]

\* A request nobody waits for never arrives.
Lose(r) ==
    /\ ~Awaited(r) /\ requests[r].stage = "sent"
    /\ requests' = Without(requests, r)
    /\ UNCHANGED <<rpcStore, sessions, client>>

-----------------------------------------------------------------------------
(* The server.  A session is known by the client's address and the id. *)

Of(r) == <<r[1], requests[r].id>>
Available(s) == s \in DOMAIN sessions /\ ~sessions[s].busy
\* The outcome of a request nobody waits for goes nowhere.
Becomes(r, q) == requests' = IF q.stage \in {"answered", "refused"} /\ ~Awaited(r)
                             THEN Without(requests, r) ELSE [requests EXCEPT ![r] = q]
Moves(r, stage) == Becomes(r, [requests[r] EXCEPT !.stage = stage])

\* std::rand(), assumed never to repeat an id the client still has around; 0
\* is one of its values.
RandomIds(c) == {0} \union {id \in 1..MaxId :
    /\ <<c, id>> \notin DOMAIN sessions /\ client[c].handle # id
    /\ \A r \in DOMAIN requests : r[1] = c => requests[r].id # id}

\* request_txn: a running session is not started again.
LockBegin(r) == \E id \in (IF requests[r].id = 0 THEN RandomIds(r[1]) ELSE {requests[r].id}) :
    /\ Becomes(r, [requests[r] EXCEPT !.id = id,
           !.stage = IF <<r[1], id>> \in DOMAIN sessions THEN "refused" ELSE "locked"])
    /\ UNCHANGED <<rpcStore, sessions, client>>

\* MUTANT of LockCall: a write whose session is gone starts it again.
LockCallRestarts(r) ==
    /\ IF requests[r].id = 0 THEN Moves(r, "locked") /\ UNCHANGED sessions
       ELSE IF Available(Of(r)) \/ (requests[r].op = "write" /\ Of(r) \notin DOMAIN sessions)
       THEN Moves(r, "locked") /\ sessions' = With(sessions, Of(r),
               [busy |-> TRUE, writes |-> IF Available(Of(r)) THEN sessions[Of(r)].writes ELSE NoWrites])
       ELSE Moves(r, "refused") /\ UNCHANGED sessions
    /\ UNCHANGED <<rpcStore, client>>

\* continue_txn: the session is marked; calls without an id only take an arena.
LockCall(r) ==
    /\ IF requests[r].id = 0 THEN Moves(r, "locked") /\ UNCHANGED sessions
       ELSE IF Available(Of(r)) THEN Moves(r, "locked") /\ sessions' = [sessions EXCEPT ![Of(r)].busy = TRUE]
       ELSE Moves(r, "refused") /\ UNCHANGED sessions
    /\ UNCHANGED <<rpcStore, client>>

\* The commit that cannot continue the session releases it.
LockCommit(r) ==
    /\ IF Available(Of(r)) THEN Moves(r, "locked") /\ sessions' = [sessions EXCEPT ![Of(r)].busy = TRUE]
       ELSE Moves(r, "refused") /\ sessions' = Without(sessions, Of(r))
    /\ UNCHANGED <<rpcStore, client>>

LockSession(r) ==
    /\ requests[r].stage = "sent"
    /\ CASE requests[r].op = "begin" -> LockBegin(r)
         [] requests[r].op = "commit" -> LockCommit(r)
         [] OTHER -> LockCall(r)

\* MUTANT of Held: a call the engine refused keeps the session marked.
HeldWhenAnswered(s, session, ok) == With(sessions, s, [session EXCEPT !.busy = ~ok])

\* hold_txn, on every way out of a handler: the session is back, unmarked.
Held(s, session, ok) == With(sessions, s, [session EXCEPT !.busy = FALSE])

\* The engine starts the transaction, or fails to: then there is no session.
ServeBegin(r) == \E ok \in BOOLEAN :
    /\ Moves(r, IF ok THEN "answered" ELSE "refused")
    /\ sessions' = IF ok THEN With(sessions, Of(r), Fresh) ELSE Without(sessions, Of(r))
    /\ UNCHANGED <<rpcStore, client>>

\* MUTANT of Visible: a transaction reads around its own writes.
VisibleCommitted(s, k) == rpcStore[k]

\* What the engine finds for a key in a transaction.
Visible(s, k) == IF k \in DOMAIN sessions[s].writes THEN sessions[s].writes[k] ELSE rpcStore[k]

ServeRead(r) == \E ok \in BOOLEAN :
    LET q == requests[r] IN
    /\ Becomes(r, [q EXCEPT !.stage = IF ok THEN "answered" ELSE "refused",
           !.value = IF q.id = 0 THEN rpcStore[q.key] ELSE Visible(Of(r), q.key)])
    /\ sessions' = IF q.id = 0 THEN sessions ELSE Held(Of(r), sessions[Of(r)], ok)
    /\ UNCHANGED <<rpcStore, client>>

ServeWrite(r) == \E ok \in BOOLEAN :
    LET q == requests[r]
        after == IF ok THEN [sessions[Of(r)] EXCEPT !.writes = With(@, q.key, r)] ELSE sessions[Of(r)] IN
    /\ Moves(r, IF ok THEN "answered" ELSE "refused")
    /\ sessions' = IF q.id = 0 THEN sessions ELSE Held(Of(r), after, ok)
    /\ rpcStore' = IF ok /\ q.id = 0 THEN [rpcStore EXCEPT ![q.key] = r] ELSE rpcStore
    /\ UNCHANGED client

\* The engine commits, or refuses for a conflict; either way the session ends.
ServeCommit(r) == \E ok \in BOOLEAN :
    /\ Moves(r, IF ok THEN "answered" ELSE "refused")
    /\ rpcStore' = IF ok THEN [k \in RpcKeys |-> Visible(Of(r), k)] ELSE rpcStore
    /\ sessions' = Without(sessions, Of(r))
    /\ UNCHANGED client

\* The session a handler marked stays in the table until it is served.
ServeRequest(r) ==
    /\ requests[r].stage = "locked"
    /\ CASE requests[r].op = "begin" -> ServeBegin(r)
         [] requests[r].op = "read" -> ServeRead(r)
         [] requests[r].op = "write" -> ServeWrite(r)
         [] requests[r].op = "commit" -> ServeCommit(r)

\* Another call needs handles and an idle session is the oldest.
Evict(s) ==
    /\ ~sessions[s].busy
    /\ sessions' = Without(sessions, s)
    /\ UNCHANGED <<rpcStore, requests, client>>

-----------------------------------------------------------------------------

ClientNext(c) == \/ TransactionInit(c) \/ Read(c) \/ Write(c) \/ TransactionCommit(c)
                 \/ Return(c) \/ Disconnect(c)
ServerNext == \/ \E r \in DOMAIN requests : LockSession(r) \/ ServeRequest(r) \/ Lose(r)
              \/ \E s \in DOMAIN sessions : Evict(s)
RpcNext == ServerNext \/ \E c \in Clients : ClientNext(c)

RpcSpec == RpcInit /\ [][RpcNext]_rpcVars

\* Handlers run, and answers that arrived are picked up.
RpcFairness ==
    /\ \A r \in Clients \X (1..MaxCalls) :
           WF_rpcVars(r \in DOMAIN requests /\ (LockSession(r) \/ ServeRequest(r)))
    /\ \A c \in Clients : WF_rpcVars(Return(c))

-----------------------------------------------------------------------------
(* Properties *)

\* A commit that takes effect applies every write its transaction reported as
\* done and nothing else, unless a write had been lost unnoticed: no eviction,
\* broken connection, late request or retried begin lets a part of a
\* transaction through.
WholeCommits == [][\A r \in DOMAIN requests :
    (/\ requests[r].op = "commit" /\ requests[r].stage = "locked" /\ requests[r].sure
     /\ Of(r) \notin DOMAIN sessions' /\ rpcStore' # rpcStore)
        => rpcStore' = [k \in RpcKeys |->
                          IF k \in DOMAIN requests[r].expect THEN requests[r].expect[k]
                          ELSE rpcStore[k]]]_rpcVars

\* A read that succeeds inside a transaction (one whose id is not 0) returns the
\* transaction's own write of that key, if it made one and none was lost
\* unnoticed: neither a late request of the client nor an eviction between two
\* calls shows in what it reads.
ReadsOwnWrites == [][\A c \in Clients :
    LET r == requests[<<c, client[c].calls>>] IN
    (/\ client[c].waiting /\ ~client'[c].waiting
     /\ r.op = "read" /\ r.id # 0 /\ r.stage = "answered" /\ client'[c].open
     /\ r.key \in DOMAIN client[c].writes /\ client[c].sure)
        => r.value = client[c].writes[r.key]]_rpcVars

\* Every call returns: a handler never waits for another one.
CallsReturn == \A c \in Clients : client[c].waiting ~> ~client[c].waiting

\* No session stays marked as executing, which would refuse all later calls of
\* its transaction and keep its handles for good.
SessionsSettle == \A s \in Clients \X Ids :
    (s \in DOMAIN sessions /\ sessions[s].busy) ~> (s \notin DOMAIN sessions \/ ~sessions[s].busy)

\* Nothing waits for ever: neither clients nor the sessions of the server.
AllSettles == CallsReturn /\ SessionsSettle

-----------------------------------------------------------------------------
(* The inductive invariant behind WholeCommits and ReadsOwnWrites.          *)

LastCall(c) == <<c, client[c].calls>>

\* What the arguments of a request say of it.
WellFormed(r) ==
    /\ r[2] <= client[r[1]].calls
    /\ requests[r].op \in {"read", "write"} => requests[r].key \in RpcKeys
    /\ requests[r].op = "commit" => requests[r].id # 0

\* The call a client waits for was sent, and belongs to its transaction.
WaitsForCall(c) == client[c].waiting =>
    /\ LastCall(c) \in DOMAIN requests
    /\ client[c].open => requests[LastCall(c)].op # "begin" /\ requests[LastCall(c)].id = client[c].handle
    /\ ~client[c].open => /\ requests[LastCall(c)].op # "commit"
                          /\ requests[LastCall(c)].op # "begin" => requests[LastCall(c)].id = 0

\* A transaction has one request at a time, and it is the one its client made
\* last.
OneAtATime == \A r, q \in DOMAIN requests :
    r[1] = q[1] /\ requests[r].id = requests[q].id /\ requests[r].id # 0 => r = q
InTransaction(c) == client[c].open /\ client[c].handle # 0
NothingElse(c) == InTransaction(c) =>
    \A r \in DOMAIN requests : r[1] = c /\ requests[r].id = client[c].handle => Awaited(r)

\* The session of a handler is in the table, marked.
KeepsSession(r) ==
    requests[r].stage = "locked" /\ requests[r].op # "begin" /\ requests[r].id # 0 =>
       Of(r) \in DOMAIN sessions /\ sessions[Of(r)].busy

\* A session, while there is one, has the writes that its client knows of, and
\* that its commit expects.
Knows(c) ==
    IF client[c].waiting /\ requests[LastCall(c)].op = "write" /\ requests[LastCall(c)].stage = "answered"
    THEN With(client[c].writes, requests[LastCall(c)].key, LastCall(c))
    ELSE client[c].writes
SessionKnown(c) ==
    InTransaction(c) /\ client[c].sure /\ <<c, client[c].handle>> \in DOMAIN sessions =>
       sessions[<<c, client[c].handle>>].writes = Knows(c)
SessionExpected(r) ==
    /\ requests[r].op = "commit" /\ requests[r].sure /\ Of(r) \in DOMAIN sessions =>
          sessions[Of(r)].writes = requests[r].expect
    /\ (/\ requests[r].op = "begin" /\ requests[r].stage = "answered" /\ requests[r].id # 0
        /\ Of(r) \in DOMAIN sessions) => sessions[Of(r)].writes = NoWrites

\* An answer on its way has the transaction's own write, if there is one.
AnswerRight(c) ==
    LET r == requests[LastCall(c)] IN
    (/\ client[c].waiting /\ InTransaction(c) /\ client[c].sure
     /\ r.op = "read" /\ r.stage = "answered" /\ r.key \in DOMAIN client[c].writes)
        => r.value = client[c].writes[r.key]

RpcInv ==
    /\ RpcTypeOK
    /\ OneAtATime
    /\ \A r \in DOMAIN requests : WellFormed(r) /\ KeepsSession(r) /\ SessionExpected(r)
    /\ \A c \in Clients : WaitsForCall(c) /\ NothingElse(c) /\ SessionKnown(c) /\ AnswerRight(c)
=============================================================================
