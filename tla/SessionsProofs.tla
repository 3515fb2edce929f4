--------------------------- MODULE SessionsProofs ---------------------------
(***************************************************************************)
(* The session table of the Arrow Flight server: type correctness for      *)
(* every client, and the exclusive use of handles for clients that         *)
(* serialise the calls they make on one transaction: every step keeps each *)
(* handle with one owner, and none but a failed initialization loses one.  *)
(***************************************************************************)
EXTENDS FlightSessions, FiniteSetTheorems, TLAPS

\* Removing an entry keeps the free list a bag, adding one does too.
LEMMA PoolTypes ==
    ASSUME NEW free \in [Handle -> Nat], NEW h \in Handle
    PROVE  /\ Push(free, h) \in [Handle -> Nat]
           /\ h \in Entries(free) => Drop(free, h) \in [Handle -> Nat]
BY DEF Push, Drop, Entries

\* NoRunning, running_txn_t {}, is a record of the right type.
LEMMA NoRunningType == NoRunning \in Running
BY NumbersAssumption DEF NoRunning, Running, Handle

\* Moving a call to a step keeps the types of what calls carry.
LEMMA GoesType ==
    ASSUME TypeOK, NEW c \in Calls, NEW step \in Steps,
           NEW s \in Sessions \cup {NoSession}, NEW r \in Running,
           Goes(c, step, s, r)
    PROVE  /\ at' \in [Calls -> Steps]
           /\ id' \in [Calls -> Sessions \cup {NoSession}]
           /\ run' \in [Calls -> Running]
BY Zenon DEF Goes, TypeOK

\* The type of what a call carries after it returned.
LEMMA ReturnsType ==
    ASSUME TypeOK, NEW c \in Calls, Returns(c)
    PROVE  /\ at' \in [Calls -> Steps]
           /\ id' \in [Calls -> Sessions \cup {NoSession}]
           /\ run' \in [Calls -> Running]
BY Zenon, GoesType, NoRunningType DEF Returns, Steps

\* insert_or_assign and erase keep the table a map from ids to sessions.
LEMMA InsertType ==
    ASSUME TypeOK, NEW s \in Sessions, NEW r \in Running,
           client_to_txn' = Insert(s, r)
    PROVE  /\ Live' = Live \cup {s}
           /\ Live' \subseteq Sessions
           /\ client_to_txn' \in [Live' -> Running]
BY Zenon DEF TypeOK, Insert, Live

LEMMA EraseType ==
    ASSUME TypeOK, NEW s, client_to_txn' = Erase(s)
    PROVE  /\ Live' = Live \ {s}
           /\ Live' \subseteq Sessions
           /\ client_to_txn' \in [Live' -> Running]
BY Zenon DEF TypeOK, Erase, Restrict, Live

\* release_txn keeps the types, whatever the table holds under the id.
LEMMA ReleaseTxnType ==
    ASSUME TypeOK, NEW s \in Sessions \cup {NoSession}, ReleaseTxn(s)
    PROVE  /\ free_arenas' \in [Handle -> Nat]
           /\ free_txns' \in [Handle -> Nat]
           /\ Live' \subseteq Sessions
           /\ client_to_txn' \in [Live' -> Running]
<1>1. CASE s \in Live
  <2>1. client_to_txn[s] \in Running /\ s \in Sessions
    BY Zenon, <1>1 DEF TypeOK
  <2>2. client_to_txn' = Erase(s)
    BY Zenon, <1>1 DEF ReleaseTxn
  <2>3. free_arenas' = Push(free_arenas, client_to_txn[s].arena)
        /\ free_txns' = Push(free_txns, client_to_txn[s].txn)
    BY Zenon, <1>1 DEF ReleaseTxn
  <2>4. client_to_txn[s].arena \in Handle /\ client_to_txn[s].txn \in Handle
    BY Zenon, <2>1 DEF Running
  <2> QED
    BY Zenon, <2>2, <2>3, <2>4, PoolTypes, EraseType DEF TypeOK
<1>2. CASE s \notin Live
  BY Zenon, <1>2 DEF ReleaseTxn, TypeOK, Live, pool
<1> QED
  BY Zenon, <1>1, <1>2

\* The records the critical sections build have the type of the table.
LEMMA SessionTypes ==
    ASSUME NEW t \in Handle, NEW a \in Handle, NEW age \in 0..MaxAge
    PROVE  /\ Parked(t, a, age) \in Running
           /\ \A r : r.txn = t /\ r.arena = a => Touched(r) \in Running
BY NumbersAssumption DEF Parked, Touched, Running

-----------------------------------------------------------------------------

\* The session table starts empty, the free lists full of nullptr.
LEMMA TypeInit == Init => TypeOK /\ CallsWellFormed
<1> SUFFICES ASSUME Init PROVE TypeOK /\ CallsWellFormed
  BY Zenon
<1>1. free_arenas \in [Handle -> Nat] /\ free_txns \in [Handle -> Nat]
  BY Zenon, NumbersAssumption DEF Init
<1>2. Live = {} /\ client_to_txn \in [Live -> Running]
  BY Zenon DEF Init, Live
<1> QED
  BY <1>1, <1>2, NoRunningType, Zenon DEF Init, TypeOK, CallsWellFormed, Steps

\* TypeOK is not inductive alone: that hold_txn inserts under a session id
\* needs that a call with a transaction has one.
LEMMA TypeStep ==
    ASSUME TypeOK, CallsWellFormed, [Next]_vars
    PROVE  TypeOK' /\ CallsWellFormed'
<1> USE NoRunningType, NumbersAssumption, SessionsAssumption
<1>0. /\ 0 \in 0..MaxAge
      /\ \A c \in Calls : /\ run[c] \in Running
                          /\ run[c].txn \in Handle
                          /\ run[c].arena \in Handle
                          /\ run[c].age \in 0..MaxAge
      /\ \A s \in Live : /\ s \in Sessions
                         /\ client_to_txn[s] \in Running
                         /\ client_to_txn[s].txn \in Handle
                         /\ client_to_txn[s].arena \in Handle
      /\ Null \in Handle
  BY DEF TypeOK, Running, Handle
<1>1. ASSUME NEW c \in Calls, NEW s \in Sessions, TxnBegin(c, s)
      PROVE  TypeOK' /\ CallsWellFormed'
  <2>1. PICK t \in Entries(free_txns), a \in Entries(free_arenas) :
           /\ free_txns' = Drop(free_txns, t)
           /\ free_arenas' = Drop(free_arenas, a)
           /\ Goes(c, "begin", s, Touched([txn |-> t, arena |-> a]))
    BY Zenon, <1>1 DEF TxnBegin
  <2>2. t \in Handle /\ a \in Handle
    BY Zenon DEF Entries
  <2>3. Touched([txn |-> t, arena |-> a]) \in Running
    BY Zenon, <1>0, <2>2, SessionTypes
  <2>4. TypeOK'
    BY <1>1, <2>1, <2>2, <2>3, PoolTypes, GoesType, Zenon DEF TxnBegin, TypeOK, Live, Steps
  <2> QED
    BY Zenon, <2>1, <2>4 DEF CallsWellFormed, Goes, TypeOK
<1>2. ASSUME NEW c \in Calls, NEW s \in Sessions, TxnBeginEvicting(c, s)
      PROVE  TypeOK' /\ CallsWellFormed'
  <2>1. PICK v \in Victims :
           /\ client_to_txn' = Erase(v)
           /\ Goes(c, "begin", s, Touched(client_to_txn[v]))
    BY Zenon, <1>2 DEF TxnBeginEvicting
  <2>2. v \in Sessions /\ Touched(client_to_txn[v]) \in Running
    BY Zenon, <1>0, SessionTypes DEF Victims
  <2>3. TypeOK'
    BY Zenon, <1>2, <2>1, <2>2, EraseType, GoesType
    DEF TxnBeginEvicting, TypeOK, Steps, pool
  <2> QED
    BY Zenon, <2>1, <2>3 DEF CallsWellFormed, Goes, TypeOK
<1>3. ASSUME NEW c \in Calls, NEW s \in Sessions, NEW step \in {"commit", "locked"},
             ContinueTxn(c, s, step)
      PROVE  TypeOK' /\ CallsWellFormed'
  <2>1. Touched(client_to_txn[s]) \in Running
    BY Zenon, <1>0, <1>3, SessionTypes DEF ContinueTxn, CanContinue
  <2>2. TypeOK'
    BY <1>3, <2>1, InsertType, GoesType DEF ContinueTxn, TypeOK, Steps, pool
  <2> QED
    BY Zenon, <1>3, <2>2 DEF ContinueTxn, CallsWellFormed, Goes, TypeOK
<1>4. ASSUME NEW c \in Calls, TxnHold(c)
      PROVE  TypeOK' /\ CallsWellFormed'
  <2>1. PICK t \in IF run[c].txn = Null THEN FreshTxns ELSE {run[c].txn} :
           client_to_txn' = Insert(id[c], Parked(t, run[c].arena, run[c].age))
    BY Zenon, <1>4 DEF TxnHold
  <2>2. t \in Handle
    BY Zenon, <1>0 DEF FreshTxns, Handle
  <2>3. Parked(t, run[c].arena, run[c].age) \in Running /\ id[c] \in Sessions
    BY Zenon, <1>0, <1>4, <2>2, SessionTypes DEF TxnHold, CallsWellFormed
  <2>4. Live' \subseteq Sessions /\ client_to_txn' \in [Live' -> Running]
    BY Zenon, <2>1, <2>3, InsertType
  <2>5. TypeOK'
    BY Zenon, <1>4, <2>4, ReturnsType DEF TxnHold, TypeOK, pool
  <2> QED
    BY Zenon, <1>4, <2>5 DEF TxnHold, CallsWellFormed, Returns, Goes, TypeOK
<1>5. ASSUME NEW c \in Calls, ReleaseTxn(id[c]), Returns(c), UNCHANGED crashed
      PROVE  TypeOK' /\ CallsWellFormed'
  <2>1. id[c] \in Sessions \cup {NoSession}
    BY Zenon DEF TypeOK
  <2>2. TypeOK'
    BY Zenon, <1>5, <2>1, ReleaseTxnType, ReturnsType DEF TypeOK
  <2> QED
    BY Zenon, <1>5, <2>2 DEF CallsWellFormed, Returns, Goes, TypeOK
<1>6. ASSUME NEW c \in Calls, NEW s \in Sessions \cup {NoSession},
             NEW step \in {"commit_failed", "lock_failed"},
             step = "commit_failed" => s \in Sessions,
             Goes(c, step, s, NoRunning), UNCHANGED <<pool, client_to_txn, crashed>>
      PROVE  TypeOK' /\ CallsWellFormed'
  <2>1. TypeOK'
    BY <1>6, GoesType DEF TypeOK, Live, Steps, pool
  <2> QED
    BY Zenon, <1>6, <2>1 DEF CallsWellFormed, Goes, TypeOK
<1>7. ASSUME NEW c \in Calls, RequestArena(c) \/ RequestArenaEvicting(c)
      PROVE  TypeOK' /\ CallsWellFormed'
  <2> DEFINE OnlyArena(a) == [NoRunning EXCEPT !.arena = a]
  <2>1. \A a \in Handle : OnlyArena(a) \in Running /\ OnlyArena(a).txn = Null
    BY Zenon DEF NoRunning, Running
  <2>2. CASE RequestArena(c)
    <3>1. PICK a \in Entries(free_arenas) :
             /\ free_arenas' = Drop(free_arenas, a)
             /\ Goes(c, "locked", NoSession, OnlyArena(a))
      BY Zenon, <2>2 DEF RequestArena
    <3>2. a \in Handle
      BY Zenon DEF Entries
    <3>3. TypeOK'
      BY <2>1, <2>2, <3>1, <3>2, PoolTypes, GoesType, Zenon
      DEF RequestArena, TypeOK, Live, Steps
    <3> QED
      BY Zenon, <2>1, <3>1, <3>2, <3>3 DEF CallsWellFormed, Goes, TypeOK
  <2>3. CASE RequestArenaEvicting(c)
    <3>1. PICK v \in Victims :
             /\ client_to_txn' = Erase(v)
             /\ free_txns' = Push(free_txns, client_to_txn[v].txn)
             /\ Goes(c, "locked", NoSession, OnlyArena(client_to_txn[v].arena))
      BY Zenon, <2>3 DEF RequestArenaEvicting
    <3>2. /\ v \in Sessions
          /\ client_to_txn[v] \in Running
          /\ client_to_txn[v].txn \in Handle
          /\ client_to_txn[v].arena \in Handle
      BY Zenon, <1>0 DEF Victims
    <3>3. TypeOK'
      BY <2>1, <2>3, <3>1, <3>2, PoolTypes, EraseType, GoesType, Zenon
      DEF RequestArenaEvicting, TypeOK, Steps
    <3> QED
      BY Zenon, <2>1, <3>1, <3>2, <3>3 DEF CallsWellFormed, Goes, TypeOK
  <2> QED
    BY Zenon, <1>7, <2>2, <2>3
<1>8. ASSUME NEW c \in Calls, Unlock(c)
      PROVE  TypeOK' /\ CallsWellFormed'
  <2> DEFINE OnlyArena(a) == [NoRunning EXCEPT !.arena = a]
  <2>1. \A a \in Handle : OnlyArena(a) \in Running
    BY Zenon DEF NoRunning, Running
  <2>2. PICK a \in IF run[c].arena = Null THEN FreshArenas \cup {Null}
                                          ELSE {run[c].arena} :
           /\ IF run[c].txn # Null
              THEN /\ client_to_txn' = Insert(id[c], Parked(run[c].txn, a, 0))
                   /\ UNCHANGED free_arenas
              ELSE /\ free_arenas' = Push(free_arenas, a)
                   /\ UNCHANGED client_to_txn
           /\ Returns(c) \/ Goes(c, "streaming", id[c], OnlyArena(a))
    BY Zenon, <1>8 DEF Unlock
  <2>3. a \in Handle
    BY Zenon, <1>0 DEF FreshArenas, Handle
  <2>4. /\ at' \in [Calls -> Steps]
        /\ id' \in [Calls -> Sessions \cup {NoSession}]
        /\ run' \in [Calls -> Running]
    <3>1. id[c] \in Sessions \cup {NoSession} /\ "streaming" \in Steps
      BY Zenon DEF TypeOK, Steps
    <3> QED
      BY Zenon, <2>1, <2>2, <2>3, <3>1, GoesType, ReturnsType
  <2>5. /\ free_arenas' \in [Handle -> Nat]
        /\ Live' \subseteq Sessions
        /\ client_to_txn' \in [Live' -> Running]
    <3>1. CASE run[c].txn # Null
      <4>1. id[c] \in Sessions
        BY Zenon, <1>8, <3>1 DEF Unlock, CallsWellFormed, TypeOK
      <4>2. Parked(run[c].txn, a, 0) \in Running
        BY Zenon, <1>0, <2>3, SessionTypes
      <4>3. client_to_txn' = Insert(id[c], Parked(run[c].txn, a, 0))
            /\ UNCHANGED free_arenas
        BY Zenon, <2>2, <3>1
      <4> QED
        BY Zenon, <4>1, <4>2, <4>3, InsertType DEF TypeOK
    <3>2. CASE run[c].txn = Null
      BY Zenon, <2>2, <2>3, <3>2, PoolTypes DEF TypeOK, Live
    <3> QED
      BY Zenon, <3>1, <3>2
  <2>6. TypeOK'
    BY Zenon, <1>8, <2>4, <2>5 DEF TypeOK, Unlock
  <2> QED
    BY <2>2, <2>6 DEF CallsWellFormed, Returns, Goes, TypeOK
<1>9. ASSUME NEW c \in Calls, UnlockFailed(c) \/ StreamEnds(c)
      PROVE  TypeOK' /\ CallsWellFormed'
  <2>1. TypeOK'
    BY <1>0, <1>9, PoolTypes, ReturnsType
    DEF UnlockFailed, StreamEnds, TypeOK, Live, pool
  <2> QED
    BY <1>9, <2>1 DEF UnlockFailed, StreamEnds, CallsWellFormed, Returns, Goes, TypeOK
<1>10. ASSUME Tick
       PROVE  TypeOK' /\ CallsWellFormed'
  <2>1. \A r \in Running : Older(r) \in Running /\ Older(r).txn = r.txn
    BY DEF Older, Running
  <2>2. TypeOK'
    BY Zenon, <1>0, <1>10, <2>1 DEF Tick, TypeOK, Live, pool
  <2>3. \A c \in Calls : run'[c].txn = run[c].txn
    BY Zenon, <1>0, <1>10, <2>1 DEF Tick
  <2> QED
    BY Zenon, <1>10, <2>2, <2>3 DEF Tick, CallsWellFormed
<1>11. ASSUME PopOfEmptyTable \/ UNCHANGED vars
       PROVE  TypeOK' /\ CallsWellFormed'
  BY <1>11, Zenon DEF PopOfEmptyTable, vars, pool, TypeOK, CallsWellFormed, Live
<1> QED
  BY Zenon, <1>1, <1>2, <1>3, <1>4, <1>5, <1>6, <1>7, <1>8, <1>9, <1>10, <1>11
  DEF Next, TxnBeginCrashes, TxnCommit, TxnCommitFails, Lock, LockFails,
      TxnInitFails, TxnCommitReturns, RequestArenaFails, RequestArenaCrashes, Dead

\* Type correctness of the session table for every pool size, any number of
\* handler threads and clients that overlap their calls as they like: the
\* free lists are never popped when empty and the table never holds anything
\* but running transactions.
THEOREM TypeCorrect == Spec => []TypeOK
<1>1. TypeOK /\ CallsWellFormed /\ [Next]_vars => TypeOK' /\ CallsWellFormed'
  BY Zenon, TypeStep
<1> QED
  BY <1>1, TypeInit, PTL DEF Spec

-----------------------------------------------------------------------------

\* A call starts on a session id only when no other call in flight has it,
\* and keeps its id until it returns.
LEMMA SerialStep ==
    ASSUME SerialClients, TypeOK, OneCallPerSession, [Next]_vars
    PROVE  OneCallPerSession'
<1>1. ASSUME NEW c \in Calls, NEW s \in Sessions, NEW step \in Steps, NEW r,
             Starts(c, s), Goes(c, step, s, r)
      PROVE  OneCallPerSession'
  BY Zenon, <1>1 DEF Starts, Goes, OneCallPerSession, TypeOK
<1>2. ASSUME NEW c \in Calls, NEW step \in Steps, NEW r,
             Goes(c, step, NoSession, r)
      PROVE  OneCallPerSession'
  BY Zenon, <1>2 DEF Goes, OneCallPerSession, TypeOK
<1>3. ASSUME NEW c \in Calls, NEW r, at[c] = "locked",
             Goes(c, "streaming", id[c], r)
      PROVE  OneCallPerSession'
  BY ZenonT(60), <1>3 DEF Goes, OneCallPerSession, TypeOK
<1>4. ASSUME UNCHANGED <<at, id>>
      PROVE  OneCallPerSession'
  BY Zenon, <1>4 DEF OneCallPerSession
<1>5. ASSUME NEW c \in Calls, NEW s \in Sessions,
             \/ TxnBegin(c, s) \/ TxnBeginEvicting(c, s) \/ TxnBeginCrashes(c, s)
             \/ TxnCommit(c, s) \/ TxnCommitFails(c, s)
             \/ Lock(c, s) \/ LockFails(c, s)
      PROVE  OneCallPerSession'
  BY <1>1, <1>4, <1>5, Zenon
  DEF TxnBegin, TxnBeginEvicting, TxnBeginCrashes, PopOfEmptyTable, TxnCommit,
      TxnCommitFails, Lock, LockFails, ContinueTxn, Steps
<1>6. ASSUME NEW c \in Calls,
             \/ TxnHold(c) \/ TxnInitFails(c) \/ TxnCommitReturns(c)
             \/ RequestArena(c) \/ RequestArenaEvicting(c)
             \/ RequestArenaFails(c) \/ RequestArenaCrashes(c)
             \/ Unlock(c) \/ UnlockFailed(c) \/ StreamEnds(c)
      PROVE  OneCallPerSession'
  BY <1>2, <1>3, <1>4, <1>6, Zenon
  DEF TxnHold, TxnInitFails, TxnCommitReturns, RequestArena, RequestArenaEvicting,
      RequestArenaFails, RequestArenaCrashes, PopOfEmptyTable, Unlock,
      UnlockFailed, StreamEnds, Returns, Steps
<1>7. ASSUME Tick \/ Dead \/ UNCHANGED vars
      PROVE  OneCallPerSession'
  BY Zenon, <1>4, <1>7 DEF Tick, Dead, vars
<1> QED
  BY Zenon, <1>5, <1>6, <1>7 DEF Next

-----------------------------------------------------------------------------
(* The steps that preserve Ownership, action by action.  The lemmas below   *)
(* give the successor state pointwise.                                      *)

\* The table after erase.
LEMMA EraseValues ==
    ASSUME TypeOK, NEW s, client_to_txn' = Erase(s)
    PROVE  /\ Live' = Live \ {s}
           /\ \A u \in Live \ {s} : client_to_txn'[u] = client_to_txn[u]
BY Zenon DEF Erase, Restrict, Live

\* The calls after one of them moved.
LEMMA GoesValues ==
    ASSUME TypeOK, NEW c \in Calls, NEW step, NEW s, NEW r, Goes(c, step, s, r)
    PROVE  /\ at'[c] = step /\ id'[c] = s /\ run'[c] = r
           /\ \A d \in Calls \ {c} : /\ at'[d] = at[d]
                                     /\ id'[d] = id[d]
                                     /\ run'[d] = run[d]
BY Zenon DEF Goes, TypeOK

\* The free list after push_back and pop_back.
LEMMA PoolValues ==
    ASSUME NEW free \in [Handle -> Nat], NEW h \in Handle
    PROVE  /\ Push(free, h)[h] = free[h] + 1
           /\ Drop(free, h)[h] = free[h] - 1
           /\ \A g \in Handle \ {h} : /\ Push(free, h)[g] = free[g]
                                      /\ Drop(free, h)[g] = free[g]
BY Zenon DEF Push, Drop

\* What the records of the table and of the calls hold.
HandleTypes ==
    /\ \A c \in Calls : run[c].txn \in Handle /\ run[c].arena \in Handle
    /\ \A s \in Live : /\ s \in Sessions
                       /\ client_to_txn[s].txn \in Handle
                       /\ client_to_txn[s].arena \in Handle
    /\ \A h \in Handle : free_txns[h] \in Nat /\ free_arenas[h] \in Nat

LEMMA OwnershipTypes == Ownership => HandleTypes
BY Zenon DEF Ownership, TypeOK, Running, HandleTypes

\* TxnBegin with free handles.
LEMMA TxnBeginOwns ==
    ASSUME Ownership, SerialClients, NEW c \in Calls, NEW s \in Sessions, TxnBegin(c, s)
    PROVE  CallsMatchTable' /\ MarkedSessionsHaveCalls' /\ TxnsOwnedOnce' /\ ArenasOwnedOnce'
<1>1. PICK t \in Entries(free_txns), a \in Entries(free_arenas) :
         /\ free_txns' = Drop(free_txns, t)
         /\ free_arenas' = Drop(free_arenas, a)
         /\ Goes(c, "begin", s, Touched([txn |-> t, arena |-> a]))
  BY Zenon DEF TxnBegin
<1>2. /\ t \in Handle /\ free_txns[t] > 0
      /\ a \in Handle /\ free_arenas[a] > 0
  BY Zenon DEF Entries
<1>3. /\ Live' = Live /\ client_to_txn' = client_to_txn
      /\ at[c] = "idle" /\ s \notin Live
      /\ \A d \in Calls : at[d] # "idle" => id[d] # s
  BY Zenon DEF TxnBegin, Starts, Live
<1>4. /\ at'[c] = "begin" /\ id'[c] = s /\ run'[c].txn = t /\ run'[c].arena = a
      /\ \A d \in Calls \ {c} : at'[d] = at[d] /\ id'[d] = id[d] /\ run'[d] = run[d]
  BY SMTT(60), <1>1, GoesValues DEF Ownership, Touched
<1>5. /\ free_txns'[t] = free_txns[t] - 1
      /\ \A g \in Handle \ {t} : free_txns'[g] = free_txns[g]
      /\ free_arenas'[a] = free_arenas[a] - 1
      /\ \A g \in Handle \ {a} : free_arenas'[g] = free_arenas[g]
  BY Zenon, <1>1, <1>2, PoolValues DEF Ownership, TypeOK
<1> USE DEF Ownership
<1>0. HandleTypes
  BY Zenon, OwnershipTypes
<1>6. CallsMatchTable'
  BY ZenonT(60), <1>3, <1>4 DEF CallsMatchTable, MatchesTable, Idle
<1>7. MarkedSessionsHaveCalls'
  BY SMTT(60), <1>3, <1>4 DEF MarkedSessionsHaveCalls, Idle
<1>8. TxnsOwnedOnce'
  BY SMTT(60), <1>0, <1>2, <1>3, <1>4, <1>5, SessionsAssumption DEF TxnsOwnedOnce, HandleTypes, Handle
<1>9. ArenasOwnedOnce'
  BY <1>0, <1>2, <1>3, <1>4, <1>5, SessionsAssumption DEF ArenasOwnedOnce, OwnsArena, HandleTypes, Handle
<1> QED
  BY Zenon, <1>6, <1>7, <1>8, <1>9

\* TxnBegin that evicts an idle session: its handles change owner.
LEMMA TxnBeginEvictingOwns ==
    ASSUME Ownership, SerialClients, NEW c \in Calls, NEW s \in Sessions,
           TxnBeginEvicting(c, s)
    PROVE  CallsMatchTable' /\ MarkedSessionsHaveCalls' /\ TxnsOwnedOnce' /\ ArenasOwnedOnce'
<1>1. PICK v \in Victims :
         /\ Evictable(v)
         /\ client_to_txn' = Erase(v)
         /\ Goes(c, "begin", s, Touched(client_to_txn[v]))
  BY Zenon DEF TxnBeginEvicting
<1>2. v \in Live /\ Idle(v)
  BY Zenon, <1>1 DEF Victims, Evictable
<1>3. /\ free_txns' = free_txns /\ free_arenas' = free_arenas
      /\ at[c] = "idle" /\ s \notin Live
      /\ \A d \in Calls : at[d] # "idle" => id[d] # s
  BY Zenon DEF TxnBeginEvicting, Starts, pool
<1>4. /\ at'[c] = "begin" /\ id'[c] = s
      /\ run'[c].txn = client_to_txn[v].txn /\ run'[c].arena = client_to_txn[v].arena
      /\ \A d \in Calls \ {c} : at'[d] = at[d] /\ id'[d] = id[d] /\ run'[d] = run[d]
  BY <1>1, GoesValues DEF Ownership, Touched
<1>5. /\ Live' = Live \ {v}
      /\ \A u \in Live \ {v} : client_to_txn'[u] = client_to_txn[u]
  BY Zenon, <1>1, EraseValues DEF Ownership
<1> USE DEF Ownership
<1>0. HandleTypes
  BY Zenon, OwnershipTypes
<1>6. CallsMatchTable'
  BY <1>2, <1>3, <1>4, <1>5 DEF CallsMatchTable, MatchesTable, Idle
<1>7. MarkedSessionsHaveCalls'
  BY SMTT(60), <1>3, <1>4, <1>5 DEF MarkedSessionsHaveCalls, Idle
<1>8. TxnsOwnedOnce'
  BY SMTT(60), <1>0, <1>2, <1>3, <1>4, <1>5, SessionsAssumption DEF TxnsOwnedOnce, HandleTypes, Handle
<1>9. ArenasOwnedOnce'
  BY SMTT(60), <1>0, <1>2, <1>3, <1>4, <1>5, SessionsAssumption DEF ArenasOwnedOnce, OwnsArena, HandleTypes, Handle
<1> QED
  BY Zenon, <1>6, <1>7, <1>8, <1>9

\* continue_txn, from TxnCommit and from lock.
LEMMA ContinueOwns ==
    ASSUME Ownership, SerialClients, NEW c \in Calls, NEW s \in Sessions,
           NEW step \in {"commit", "locked"}, Starts(c, s), ContinueTxn(c, s, step)
    PROVE  CallsMatchTable' /\ MarkedSessionsHaveCalls' /\ TxnsOwnedOnce' /\ ArenasOwnedOnce'
<1>1. /\ s \in Live
      /\ client_to_txn' = Insert(s, Touched(client_to_txn[s]))
      /\ Goes(c, step, s, Touched(client_to_txn[s]))
      /\ free_txns' = free_txns /\ free_arenas' = free_arenas
  BY Zenon DEF ContinueTxn, CanContinue, pool
<1>2. /\ at[c] = "idle"
      /\ \A d \in Calls : at[d] # "idle" => id[d] # s
  BY Zenon DEF Starts
<1>3. /\ at'[c] = step /\ id'[c] = s
      /\ run'[c].txn = client_to_txn[s].txn /\ run'[c].arena = client_to_txn[s].arena
      /\ \A d \in Calls \ {c} : at'[d] = at[d] /\ id'[d] = id[d] /\ run'[d] = run[d]
  BY <1>1, GoesValues DEF Ownership, Touched
<1>4. /\ Live' = Live
      /\ client_to_txn'[s].txn = client_to_txn[s].txn
      /\ client_to_txn'[s].arena = client_to_txn[s].arena
      /\ client_to_txn'[s].executing
      /\ \A u \in Live \ {s} : client_to_txn'[u] = client_to_txn[u]
  BY Zenon, <1>1 DEF Ownership, TypeOK, Insert, Live, Touched
<1> USE DEF Ownership
<1>0. HandleTypes
  BY Zenon, OwnershipTypes
<1>5. CallsMatchTable'
  BY SMTT(60), <1>1, <1>2, <1>3, <1>4 DEF CallsMatchTable, MatchesTable, Idle
<1>6. MarkedSessionsHaveCalls'
  BY SMTT(60), <1>2, <1>3, <1>4 DEF MarkedSessionsHaveCalls, Idle
<1>7. TxnsOwnedOnce'
  BY SMTT(60), <1>0, <1>1, <1>2, <1>3, <1>4, SessionsAssumption DEF TxnsOwnedOnce, HandleTypes, Handle
<1>8. ArenasOwnedOnce'
  BY SMTT(60), <1>0, <1>1, <1>2, <1>3, <1>4, SessionsAssumption DEF ArenasOwnedOnce, OwnsArena, HandleTypes, Handle
<1> QED
  BY Zenon, <1>5, <1>6, <1>7, <1>8

\* hold_txn at the end of TxnBegin: a new or reset transaction is parked.
LEMMA TxnHoldOwns ==
    ASSUME Ownership, NEW c \in Calls, TxnHold(c)
    PROVE  CallsMatchTable' /\ MarkedSessionsHaveCalls' /\ TxnsOwnedOnce' /\ ArenasOwnedOnce'
<1> DEFINE s == id[c]
<1>1. PICK t \in IF run[c].txn = Null THEN FreshTxns ELSE {run[c].txn} :
         client_to_txn' = Insert(s, Parked(t, run[c].arena, run[c].age))
  BY Zenon DEF TxnHold
<1>2. /\ at[c] = "begin" /\ s \in Sessions /\ s \notin Live
      /\ free_txns' = free_txns /\ free_arenas' = free_arenas
      /\ Goes(c, "idle", NoSession, NoRunning)
  BY Zenon DEF TxnHold, Returns, Ownership, CallsWellFormed, CallsMatchTable, MatchesTable, pool
<1>3. /\ t \in Handles
      /\ run[c].txn = Null =>
            /\ free_txns[t] = 0
            /\ \A u \in Live : client_to_txn[u].txn # t
            /\ \A d \in Calls : run[d].txn # t
      /\ run[c].txn # Null => t = run[c].txn
  BY Zenon, OwnershipTypes DEF FreshTxns, Ownership, Handle, HandleTypes
<1>4. /\ at'[c] = "idle" /\ id'[c] = NoSession
      /\ \A d \in Calls \ {c} : at'[d] = at[d] /\ id'[d] = id[d] /\ run'[d] = run[d]
  BY Zenon, <1>2, GoesValues DEF Ownership
<1>5. /\ Live' = Live \cup {s}
      /\ client_to_txn'[s].txn = t
      /\ client_to_txn'[s].arena = run[c].arena
      /\ ~client_to_txn'[s].executing
      /\ \A u \in Live : client_to_txn'[u] = client_to_txn[u]
  BY Zenon, <1>1, <1>2 DEF Ownership, TypeOK, Insert, Live, Parked
<1> HIDE DEF s
<1>6. \A d \in Calls \ {c} : at[d] # "idle" => id[d] # s
  BY Zenon, <1>2, SessionsAssumption DEF Ownership, OneCallPerSession, s
<1> USE DEF Ownership
<1>0. HandleTypes
  BY Zenon, OwnershipTypes
<1>7. CallsMatchTable'
  BY SMTT(60), <1>2, <1>4, <1>5, <1>6 DEF CallsMatchTable, MatchesTable, Idle
<1>8. MarkedSessionsHaveCalls'
  BY SMTT(60), <1>2, <1>4, <1>5, <1>6 DEF MarkedSessionsHaveCalls, Idle
<1>9. TxnsOwnedOnce'
  BY SMTT(60), <1>0, <1>2, <1>3, <1>4, <1>5, SessionsAssumption DEF TxnsOwnedOnce, HandleTypes, Handle
<1>10. ArenasOwnedOnce'
  BY SMTT(60), <1>0, <1>2, <1>4, <1>5, SessionsAssumption DEF ArenasOwnedOnce, OwnsArena, HandleTypes, Handle
<1> QED
  BY Zenon, <1>7, <1>8, <1>9, <1>10

\* Steps that leave the transaction handles where they are.
LEMMA TxnsUntouched ==
    ASSUME TxnsOwnedOnce, free_txns' = free_txns, Live' = Live,
           \A u \in Live : client_to_txn'[u].txn = client_to_txn[u].txn,
           \A d \in Calls : at'[d] = "begin" => at[d] = "begin" /\ run'[d] = run[d]
    PROVE  TxnsOwnedOnce'
<1>1. /\ \A h \in Handles : free_txns'[h] <= 1
      /\ \A u \in Live' : client_to_txn'[u].txn # Null /\ free_txns'[client_to_txn'[u].txn] = 0
      /\ \A t, u \in Live' : t # u => client_to_txn'[t].txn # client_to_txn'[u].txn
  BY DEF TxnsOwnedOnce
<1>2. ASSUME NEW d \in Calls, at'[d] = "begin", run'[d].txn # Null
      PROVE  /\ free_txns'[run'[d].txn] = 0
             /\ \A u \in Live' : client_to_txn'[u].txn # run'[d].txn
             /\ \A e \in Calls \ {d} : at'[e] = "begin" => run'[e].txn # run'[d].txn
  <2>1. at[d] = "begin" /\ run'[d] = run[d]
    BY Zenon, <1>2
  <2>2. /\ free_txns[run[d].txn] = 0
        /\ \A u \in Live : client_to_txn[u].txn # run[d].txn
        /\ \A e \in Calls \ {d} : at[e] = "begin" => run[e].txn # run[d].txn
    BY Zenon, <1>2, <2>1 DEF TxnsOwnedOnce
  <2> QED
    BY Zenon, <2>1, <2>2
<1> QED
  BY Zenon, <1>1, <1>2 DEF TxnsOwnedOnce

\* Steps after which every session that is still marked was marked before,
\* and the call that works on it goes on.
LEMMA MarksUntouched ==
    ASSUME MarkedSessionsHaveCalls,
           \A u \in Live' : u \in Live /\ (~Idle(u)' => ~Idle(u)),
           \A u \in Live', d \in Calls :
              ~Idle(u)' /\ at[d] \in {"commit", "locked"} /\ id[d] = u
              => at'[d] = at[d] /\ id'[d] = id[d]
    PROVE  MarkedSessionsHaveCalls'
<1>1. ASSUME NEW u \in Live', ~Idle(u)'
      PROVE  \E d \in Calls : at'[d] \in {"commit", "locked"} /\ id'[d] = u
  <2>1. u \in Live /\ ~Idle(u)
    BY Zenon, <1>1
  <2>2. PICK d \in Calls : at[d] \in {"commit", "locked"} /\ id[d] = u
    BY Zenon, <2>1 DEF MarkedSessionsHaveCalls
  <2>3. at'[d] = at[d] /\ id'[d] = id[d]
    BY Zenon, <1>1, <2>2
  <2> QED
    BY Zenon, <2>2, <2>3
<1> QED
  BY Zenon, <1>1 DEF MarkedSessionsHaveCalls

\* A session leaves the table and its transaction handle becomes free.
LEMMA TxnGivenBack ==
    ASSUME Ownership, NEW s \in Live,
           Live' = Live \ {s},
           \A u \in Live \ {s} : client_to_txn'[u] = client_to_txn[u],
           free_txns'[client_to_txn[s].txn] = free_txns[client_to_txn[s].txn] + 1,
           \A g \in Handle \ {client_to_txn[s].txn} : free_txns'[g] = free_txns[g],
           \A d \in Calls : at'[d] = "begin" => at[d] = "begin" /\ run'[d] = run[d]
    PROVE  TxnsOwnedOnce'
<1> DEFINE h == client_to_txn[s].txn
<1>0. TxnsOwnedOnce /\ HandleTypes
  BY Zenon, OwnershipTypes DEF Ownership
<1>1. h \in Handle /\ h # Null /\ free_txns[h] = 0
  BY Zenon, <1>0 DEF TxnsOwnedOnce, HandleTypes
<1>2. \A u \in Live \ {s} : client_to_txn[u].txn \in Handle \ {h}
  BY Zenon, <1>0 DEF TxnsOwnedOnce, HandleTypes
<1>3. \A d \in Calls : at[d] = "begin" /\ run[d].txn # Null => run[d].txn \in Handle \ {h}
  BY Zenon, <1>0 DEF TxnsOwnedOnce, HandleTypes
<1>4. free_txns'[h] = 1 /\ \A g \in Handle \ {h} : free_txns'[g] = free_txns[g]
  BY <1>1
<1> HIDE DEF h
<1>5. \A g \in Handles : free_txns'[g] <= 1
  BY SMTT(60), <1>0, <1>4 DEF TxnsOwnedOnce, Handle
<1>6. \A u \in Live' : client_to_txn'[u].txn # Null /\ free_txns'[client_to_txn'[u].txn] = 0
  BY SMTT(60), <1>0, <1>2, <1>4 DEF TxnsOwnedOnce
<1>7. \A t, u \in Live' : t # u => client_to_txn'[t].txn # client_to_txn'[u].txn
  BY <1>0 DEF TxnsOwnedOnce
<1>8. ASSUME NEW d \in Calls, at'[d] = "begin", run'[d].txn # Null
      PROVE  /\ free_txns'[run'[d].txn] = 0
             /\ \A u \in Live' : client_to_txn'[u].txn # run'[d].txn
             /\ \A e \in Calls \ {d} : at'[e] = "begin" => run'[e].txn # run'[d].txn
  <2>1. at[d] = "begin" /\ run'[d] = run[d]
    BY Zenon, <1>8
  <2>2. free_txns'[run[d].txn] = 0
    BY Zenon, <1>0, <1>3, <1>4, <1>8, <2>1 DEF TxnsOwnedOnce
  <2>3. \A u \in Live' : client_to_txn'[u].txn # run[d].txn
    BY SMTT(60), <1>0, <1>8, <2>1 DEF TxnsOwnedOnce
  <2>4. \A e \in Calls \ {d} : at'[e] = "begin" => run'[e].txn # run[d].txn
    BY <1>0, <1>8, <2>1 DEF TxnsOwnedOnce
  <2> QED
    BY Zenon, <2>1, <2>2, <2>3, <2>4
<1> QED
  BY Zenon, <1>5, <1>6, <1>7, <1>8 DEF TxnsOwnedOnce

\* release_txn at the end of TxnCommit, or after a failed initialization.
LEMMA ReleaseOwns ==
    ASSUME Ownership, NEW c \in Calls,
           at[c] \in {"begin", "commit", "commit_failed"},
           ReleaseTxn(id[c]), Returns(c)
    PROVE  CallsMatchTable' /\ MarkedSessionsHaveCalls' /\ TxnsOwnedOnce' /\ ArenasOwnedOnce'
<1> DEFINE s == id[c]
<1>1. s \in Sessions
  BY Zenon DEF Ownership, CallsWellFormed
<1>2. /\ at'[c] = "idle" /\ id'[c] = NoSession
      /\ \A d \in Calls \ {c} : at'[d] = at[d] /\ id'[d] = id[d] /\ run'[d] = run[d]
  BY Zenon, GoesValues DEF Ownership, Returns
<1>3. \A d \in Calls \ {c} : at[d] # "idle" => id[d] # s
  BY Zenon, <1>1, SessionsAssumption DEF Ownership, OneCallPerSession
<1> USE DEF Ownership
<1>0. HandleTypes
  BY Zenon, OwnershipTypes
<1>4. CASE s \in Live
  <2>1. /\ client_to_txn' = Erase(s)
        /\ free_txns' = Push(free_txns, client_to_txn[s].txn)
        /\ free_arenas' = Push(free_arenas, client_to_txn[s].arena)
    BY Zenon, <1>4 DEF ReleaseTxn
  <2>2. /\ Live' = Live \ {s}
        /\ \A u \in Live \ {s} : client_to_txn'[u] = client_to_txn[u]
    BY Zenon, <2>1, EraseValues
  <2>3. /\ free_txns'[client_to_txn[s].txn] = free_txns[client_to_txn[s].txn] + 1
        /\ \A g \in Handle \ {client_to_txn[s].txn} : free_txns'[g] = free_txns[g]
        /\ free_arenas'[client_to_txn[s].arena] = free_arenas[client_to_txn[s].arena] + 1
        /\ \A g \in Handle \ {client_to_txn[s].arena} : free_arenas'[g] = free_arenas[g]
    <3>1. client_to_txn[s].txn \in Handle /\ client_to_txn[s].arena \in Handle
      BY Zenon, <1>0, <1>4 DEF HandleTypes
    <3> QED
      BY Zenon, <2>1, <3>1 DEF TypeOK, Push
  <2> HIDE DEF s
  <2>4. CallsMatchTable'
    BY SMTT(60), <1>2, <1>3, <2>2 DEF CallsMatchTable, MatchesTable, Idle
  <2>5. MarkedSessionsHaveCalls'
    BY SMTT(60), <1>2, <1>3, <2>2 DEF MarkedSessionsHaveCalls, Idle, s
  <2>6. TxnsOwnedOnce'
    <3>1. \A d \in Calls : at'[d] = "begin" => at[d] = "begin" /\ run'[d] = run[d]
      BY Zenon, <1>2
    <3> QED
      BY Zenon, <1>4, <2>2, <2>3, <3>1, TxnGivenBack
  <2>7. ArenasOwnedOnce'
    BY <1>0, <1>2, <1>4, <2>2, <2>3, SessionsAssumption DEF ArenasOwnedOnce, OwnsArena, HandleTypes, Handle
  <2> QED
    BY Zenon, <2>4, <2>5, <2>6, <2>7
<1>5. CASE s \notin Live
  <2>1. /\ client_to_txn' = client_to_txn /\ Live' = Live
        /\ free_txns' = free_txns /\ free_arenas' = free_arenas
    BY Zenon, <1>5 DEF ReleaseTxn, pool, Live
  <2>2. CallsMatchTable'
    BY Zenon, <1>2, <2>1 DEF CallsMatchTable, MatchesTable, Idle
  <2>3. MarkedSessionsHaveCalls'
    BY SMTT(60), <1>2, <1>5, <2>1 DEF MarkedSessionsHaveCalls, Idle
  <2>4. TxnsOwnedOnce'
    BY SMTT(60), <1>2, <2>1 DEF TxnsOwnedOnce
  <2>5. ArenasOwnedOnce'
    BY <1>2, <2>1 DEF ArenasOwnedOnce, OwnsArena
  <2> QED
    BY Zenon, <2>2, <2>3, <2>4, <2>5
<1> QED
  BY Zenon, <1>4, <1>5

\* A call whose continue_txn or request_arena failed carries nothing.
LEMMA FailureOwns ==
    ASSUME Ownership, NEW c \in Calls, NEW s \in Sessions \cup {NoSession},
           NEW step \in {"commit_failed", "lock_failed"},
           at[c] = "idle", step = "commit_failed" => s \notin Live,
           Goes(c, step, s, NoRunning), UNCHANGED <<pool, client_to_txn>>
    PROVE  CallsMatchTable' /\ MarkedSessionsHaveCalls' /\ TxnsOwnedOnce' /\ ArenasOwnedOnce'
<1>1. /\ at'[c] = step /\ id'[c] = s
      /\ \A d \in Calls \ {c} : at'[d] = at[d] /\ id'[d] = id[d] /\ run'[d] = run[d]
  BY ZenonT(60), GoesValues DEF Ownership
<1>2. /\ client_to_txn' = client_to_txn /\ Live' = Live
      /\ free_txns' = free_txns /\ free_arenas' = free_arenas
  BY Zenon DEF pool, Live
<1> USE DEF Ownership
<1>3. CallsMatchTable'
  BY Zenon, <1>1, <1>2 DEF CallsMatchTable, MatchesTable, Idle
<1>4. MarkedSessionsHaveCalls'
  BY SMTT(60), <1>1, <1>2 DEF MarkedSessionsHaveCalls, Idle
<1>5. TxnsOwnedOnce'
  BY SMTT(60), <1>1, <1>2 DEF TxnsOwnedOnce, HandleTypes, Handle
<1>6. ArenasOwnedOnce'
  BY <1>1, <1>2 DEF ArenasOwnedOnce, OwnsArena, HandleTypes, Handle
<1> QED
  BY Zenon, <1>3, <1>4, <1>5, <1>6


\* continue_txn fails for a client that serialises its calls only when its
\* session is gone: the release that TxnCommit does next finds nothing.
LEMMA NoOtherCallInFlight ==
    ASSUME Ownership, SerialClients, NEW c \in Calls, NEW s \in Sessions,
           Starts(c, s), ~CanContinue(s)
    PROVE  s \notin Live
BY Zenon DEF Ownership, MarkedSessionsHaveCalls, Starts, CanContinue

\* request_arena, from the free list or from an evicted session.
LEMMA RequestArenaOwns ==
    ASSUME Ownership, NEW c \in Calls, RequestArena(c) \/ RequestArenaEvicting(c)
    PROVE  CallsMatchTable' /\ MarkedSessionsHaveCalls' /\ TxnsOwnedOnce' /\ ArenasOwnedOnce'
<1> USE DEF Ownership
<1>0. HandleTypes
  BY Zenon, OwnershipTypes
<1> DEFINE OnlyArena(a) == [NoRunning EXCEPT !.arena = a]
<1>2. at[c] = "idle"
  BY Zenon DEF RequestArena, RequestArenaEvicting, StartsPlain
<1>3. CASE RequestArena(c)
  <2>1. PICK a \in Entries(free_arenas) :
           /\ free_arenas' = Drop(free_arenas, a)
           /\ Goes(c, "locked", NoSession, OnlyArena(a))
    BY Zenon, <1>3 DEF RequestArena
  <2>2. a \in Handle /\ free_arenas[a] > 0
    BY Zenon DEF Entries
  <2>3. /\ client_to_txn' = client_to_txn /\ Live' = Live /\ free_txns' = free_txns
    BY Zenon, <1>3 DEF RequestArena, Live
  <2>4. /\ at'[c] = "locked" /\ id'[c] = NoSession
        /\ run'[c].txn = Null /\ run'[c].arena = a
        /\ \A d \in Calls \ {c} : at'[d] = at[d] /\ id'[d] = id[d] /\ run'[d] = run[d]
    BY Zenon, <2>1 DEF TypeOK, Goes, NoRunning
  <2>5. /\ free_arenas'[a] = free_arenas[a] - 1
        /\ \A g \in Handle \ {a} : free_arenas'[g] = free_arenas[g]
    BY Zenon, <2>1, <2>2 DEF TypeOK, Drop
  <2>6. CallsMatchTable'
    BY Zenon, <2>3, <2>4 DEF CallsMatchTable, MatchesTable, Idle
  <2>7. MarkedSessionsHaveCalls'
    BY SMTT(60), <1>2, <2>3, <2>4 DEF MarkedSessionsHaveCalls, Idle
  <2>8. TxnsOwnedOnce'
    BY SMTT(60), <1>0, <2>3, <2>4, SessionsAssumption DEF TxnsOwnedOnce, HandleTypes, Handle
  <2>9. ArenasOwnedOnce'
    BY <1>0, <1>2, <2>2, <2>3, <2>4, <2>5, SessionsAssumption DEF ArenasOwnedOnce, OwnsArena, HandleTypes, Handle
  <2> QED
    BY Zenon, <2>6, <2>7, <2>8, <2>9
<1>4. CASE RequestArenaEvicting(c)
  <2>1. PICK v \in Victims :
           /\ Evictable(v)
           /\ client_to_txn' = Erase(v)
           /\ free_txns' = Push(free_txns, client_to_txn[v].txn)
           /\ Goes(c, "locked", NoSession, OnlyArena(client_to_txn[v].arena))
    BY Zenon, <1>4 DEF RequestArenaEvicting
  <2>2. v \in Live /\ Idle(v) /\ free_arenas' = free_arenas
    BY Zenon, <1>4, <2>1 DEF Victims, Evictable, RequestArenaEvicting
  <2>3. /\ Live' = Live \ {v}
        /\ \A u \in Live \ {v} : client_to_txn'[u] = client_to_txn[u]
    BY Zenon, <2>1, EraseValues
  <2>4. /\ at'[c] = "locked" /\ id'[c] = NoSession
        /\ run'[c].txn = Null /\ run'[c].arena = client_to_txn[v].arena
        /\ \A d \in Calls \ {c} : at'[d] = at[d] /\ id'[d] = id[d] /\ run'[d] = run[d]
    BY Zenon, <2>1 DEF TypeOK, Goes, NoRunning
  <2>5. /\ free_txns'[client_to_txn[v].txn] = free_txns[client_to_txn[v].txn] + 1
        /\ \A g \in Handle \ {client_to_txn[v].txn} : free_txns'[g] = free_txns[g]
    BY Zenon, <1>0, <2>1, <2>2 DEF HandleTypes, TypeOK, Push
  <2>6. CallsMatchTable'
    <3>1. MatchesTable(c)'
      BY Zenon, <2>4 DEF MatchesTable
    <3>2. ASSUME NEW d \in Calls \ {c} PROVE MatchesTable(d)'
      <4>1. MatchesTable(d)
        BY Zenon DEF CallsMatchTable
      <4>2. at'[d] = at[d] /\ id'[d] = id[d] /\ run'[d] = run[d]
        BY Zenon, <2>4
      <4> QED
        BY Zenon, <2>2, <2>3, <4>1, <4>2 DEF MatchesTable, Idle
    <3> QED
      BY Zenon, <3>1, <3>2 DEF CallsMatchTable
  <2>7. MarkedSessionsHaveCalls'
    <3>1. \A u \in Live' : u \in Live /\ (~Idle(u)' => ~Idle(u))
      BY Zenon, <2>3 DEF Idle
    <3>2. \A d \in Calls : at[d] \in {"commit", "locked"} => at'[d] = at[d] /\ id'[d] = id[d]
      BY Zenon, <1>2, <2>4
    <3> QED
      BY Zenon, <3>1, <3>2, MarksUntouched
  <2>8. TxnsOwnedOnce'
    <3>1. \A d \in Calls : at'[d] = "begin" => at[d] = "begin" /\ run'[d] = run[d]
      BY Zenon, <2>4
    <3> QED
      BY Zenon, <2>2, <2>3, <2>5, <3>1, TxnGivenBack
  <2>9. ArenasOwnedOnce'
    <3> DEFINE a == client_to_txn[v].arena
    <3>1. \A h \in Handles : free_arenas'[h] <= 1
      BY Zenon, <2>2 DEF ArenasOwnedOnce
    <3>2. a # Null => free_arenas[a] = 0 /\ \A u \in Live \ {v} : client_to_txn[u].arena # a
      BY Zenon, <2>2 DEF ArenasOwnedOnce
    <3>3. \A d \in Calls : OwnsArena(d) /\ run[d].arena # Null => run[d].arena # a
      BY Zenon, <2>2 DEF ArenasOwnedOnce
    <3>4. OwnsArena(c)' /\ run'[c].arena = a
      BY Zenon, <2>4 DEF OwnsArena
    <3>5. \A d \in Calls \ {c} : OwnsArena(d)' = OwnsArena(d) /\ run'[d] = run[d]
      BY Zenon, <2>4 DEF OwnsArena
    <3> HIDE DEF a
    <3>6. \A u \in Live' : client_to_txn'[u].arena # Null =>
             /\ free_arenas'[client_to_txn'[u].arena] = 0
             /\ \A w \in Live' \ {u} : client_to_txn'[w].arena # client_to_txn'[u].arena
      BY SMTT(60), <2>2, <2>3 DEF ArenasOwnedOnce
    <3>7. ASSUME NEW d \in Calls, OwnsArena(d)', run'[d].arena # Null
          PROVE  /\ free_arenas'[run'[d].arena] = 0
                 /\ \A u \in Live' : client_to_txn'[u].arena # run'[d].arena
                 /\ \A e \in Calls \ {d} : OwnsArena(e)' => run'[e].arena # run'[d].arena
      <4>1. CASE d = c
        BY Zenon, <2>2, <2>3, <3>2, <3>3, <3>4, <3>5, <3>7, <4>1
      <4>2. CASE d # c
        <5>1. OwnsArena(d) /\ run'[d] = run[d] /\ run[d].arena # Null
          BY Zenon, <3>5, <3>7, <4>2
        <5>2. free_arenas'[run[d].arena] = 0 /\ \A u \in Live' : client_to_txn'[u].arena # run[d].arena
          BY SMTT(60), <2>2, <2>3, <5>1 DEF ArenasOwnedOnce
        <5>3. \A e \in Calls \ {d} : OwnsArena(e)' => run'[e].arena # run[d].arena
          BY SMTT(60), <3>3, <3>4, <3>5, <5>1 DEF ArenasOwnedOnce
        <5> QED
          BY Zenon, <5>1, <5>2, <5>3
      <4> QED
        BY Zenon, <4>1, <4>2
    <3> QED
      BY Zenon, <3>1, <3>6, <3>7 DEF ArenasOwnedOnce
  <2> QED
    BY Zenon, <2>6, <2>7, <2>8, <2>9
<1> QED
  BY Zenon, <1>3, <1>4

\* ~session_lock_t: the session is parked again, or the arena goes back.
LEMMA UnlockOwns ==
    ASSUME Ownership, NEW c \in Calls, Unlock(c)
    PROVE  CallsMatchTable' /\ MarkedSessionsHaveCalls' /\ TxnsOwnedOnce' /\ ArenasOwnedOnce'
<1> USE DEF Ownership
<1>0. HandleTypes
  BY Zenon, OwnershipTypes
<1> DEFINE s == id[c]
<1>1. PICK a \in IF run[c].arena = Null THEN FreshArenas \cup {Null}
                                        ELSE {run[c].arena} :
         /\ IF run[c].txn # Null
            THEN /\ client_to_txn' = Insert(s, Parked(run[c].txn, a, 0))
                 /\ UNCHANGED free_arenas
            ELSE /\ free_arenas' = Push(free_arenas, a)
                 /\ UNCHANGED client_to_txn
         /\ \/ Returns(c)
            \/ Goes(c, "streaming", id[c], [NoRunning EXCEPT !.arena = a])
  BY Zenon DEF Unlock
<1>2. at[c] = "locked" /\ free_txns' = free_txns
  BY Zenon DEF Unlock
<1>3. /\ at'[c] \in {"idle", "streaming"}
      /\ \A d \in Calls \ {c} : at'[d] = at[d] /\ id'[d] = id[d] /\ run'[d] = run[d]
  BY Zenon, <1>1 DEF TypeOK, Goes, Returns
<1>4. /\ a \in Handle
      /\ run[c].arena = Null /\ a # Null =>
            /\ free_arenas[a] = 0
            /\ \A u \in Live : client_to_txn[u].arena # a
            /\ \A d \in Calls : run[d].arena # a
      /\ run[c].arena # Null => a = run[c].arena
  BY Zenon, <1>0 DEF FreshArenas, HandleTypes, Handle
<1>5. CASE run[c].txn # Null
  <2>1. /\ s \in Live /\ s \in Sessions /\ s # NoSession
        /\ client_to_txn[s].txn = run[c].txn
        /\ client_to_txn[s].arena = run[c].arena
    BY Zenon, <1>2, <1>5, SessionsAssumption DEF TypeOK, CallsWellFormed, CallsMatchTable, MatchesTable
  <2>2. \A d \in Calls \ {c} : at[d] # "idle" => id[d] # s
    BY Zenon, <1>2, <2>1 DEF OneCallPerSession
  <2>3. /\ free_arenas' = free_arenas
        /\ Live' = Live
        /\ client_to_txn'[s].txn = client_to_txn[s].txn
        /\ client_to_txn'[s].arena = a
        /\ ~client_to_txn'[s].executing
        /\ \A u \in Live \ {s} : client_to_txn'[u] = client_to_txn[u]
    BY SMTT(60), <1>1, <1>5, <2>1 DEF TypeOK, Insert, Live, Parked
  <2> HIDE DEF s
  <2>4. CallsMatchTable'
    <3>1. MatchesTable(c)'
      BY Zenon, <1>3 DEF MatchesTable
    <3>2. ASSUME NEW d \in Calls \ {c} PROVE MatchesTable(d)'
      <4>1. MatchesTable(d)
        BY Zenon DEF CallsMatchTable
      <4>2. at'[d] = at[d] /\ id'[d] = id[d] /\ run'[d] = run[d]
        BY Zenon, <1>3
      <4>3. at[d] # "idle" => id[d] # s
        BY Zenon, <2>2
      <4> QED
        BY Zenon, <2>3, <4>1, <4>2, <4>3 DEF MatchesTable, Idle
    <3> QED
      BY Zenon, <3>1, <3>2 DEF CallsMatchTable
  <2>5. MarkedSessionsHaveCalls'
    <3>1. \A u \in Live' : u \in Live /\ (~Idle(u)' => u # s /\ ~Idle(u))
      BY Zenon, <2>3 DEF Idle
    <3>2. \A d \in Calls : at[d] \in {"commit", "locked"} /\ id[d] # s
                          => at'[d] = at[d] /\ id'[d] = id[d]
      BY Zenon, <1>3 DEF s
    <3> QED
      BY Zenon, <3>1, <3>2, MarksUntouched
  <2>6. TxnsOwnedOnce'
    <3>1. \A u \in Live : client_to_txn'[u].txn = client_to_txn[u].txn
      BY Zenon, <2>3
    <3>2. \A d \in Calls : at'[d] = "begin" => at[d] = "begin" /\ run'[d] = run[d]
      BY Zenon, <1>3
    <3> QED
      BY Zenon, <1>2, <2>3, <3>1, <3>2, TxnsUntouched
  <2>7. ArenasOwnedOnce'
    BY SMTT(60), <1>0, <1>2, <1>3, <1>4, <2>1, <2>3, SessionsAssumption DEF ArenasOwnedOnce, OwnsArena, HandleTypes, Handle
  <2> QED
    BY Zenon, <2>4, <2>5, <2>6, <2>7
<1>6. CASE run[c].txn = Null
  <2>1. s = NoSession
    <3>1. s # NoSession => s \in Live /\ client_to_txn[s].txn = Null
      BY Zenon, <1>2, <1>6 DEF CallsMatchTable, MatchesTable
    <3> QED
      BY Zenon, <3>1 DEF TxnsOwnedOnce
  <2>2. /\ client_to_txn' = client_to_txn /\ Live' = Live
        /\ free_arenas'[a] = free_arenas[a] + 1
        /\ \A g \in Handle \ {a} : free_arenas'[g] = free_arenas[g]
    BY Zenon, <1>1, <1>4, <1>6 DEF TypeOK, Push, Live
  <2>3. CallsMatchTable'
    BY Zenon, <1>3, <2>2 DEF CallsMatchTable, MatchesTable, Idle
  <2>4. MarkedSessionsHaveCalls'
    <3>1. \A u \in Live' : u \in Live /\ (~Idle(u)' => u # s /\ ~Idle(u))
      BY Zenon, <1>0, <2>1, <2>2, SessionsAssumption DEF Idle, HandleTypes
    <3>2. \A d \in Calls : at[d] \in {"commit", "locked"} /\ id[d] # s
                          => at'[d] = at[d] /\ id'[d] = id[d]
      BY Zenon, <1>3
    <3> QED
      BY Zenon, <3>1, <3>2, MarksUntouched
  <2>5. TxnsOwnedOnce'
    <3>1. \A d \in Calls : at'[d] = "begin" => at[d] = "begin" /\ run'[d] = run[d]
      BY Zenon, <1>3
    <3> QED
      BY Zenon, <1>2, <2>2, <3>1, TxnsUntouched
  <2>6. ArenasOwnedOnce'
    BY SMTT(60), <1>0, <1>2, <1>3, <1>4, <2>1, <2>2, SessionsAssumption DEF ArenasOwnedOnce, OwnsArena, HandleTypes, Handle
  <2> QED
    BY Zenon, <2>3, <2>4, <2>5, <2>6
<1> QED
  BY Zenon, <1>5, <1>6

\* The end of a call that carries nothing, and the nullptr it pushes.
LEMMA EmptyReturnOwns ==
    ASSUME Ownership, NEW c \in Calls, UnlockFailed(c) \/ StreamEnds(c)
    PROVE  CallsMatchTable' /\ MarkedSessionsHaveCalls' /\ TxnsOwnedOnce' /\ ArenasOwnedOnce'
<1> USE DEF Ownership
<1>0. HandleTypes
  BY Zenon, OwnershipTypes
<1>1. /\ at[c] \in {"lock_failed", "streaming"} /\ at'[c] = "idle"
      /\ \A d \in Calls \ {c} : at'[d] = at[d] /\ id'[d] = id[d] /\ run'[d] = run[d]
  BY Zenon DEF UnlockFailed, StreamEnds, Returns, Goes, TypeOK
<1>2. /\ client_to_txn' = client_to_txn /\ Live' = Live /\ free_txns' = free_txns
      /\ \A g \in Handles : free_arenas'[g] = free_arenas[g]
  BY Zenon, SessionsAssumption DEF UnlockFailed, StreamEnds, Push, Handle, TypeOK, pool, Live
<1>3. CallsMatchTable'
  BY Zenon, <1>1, <1>2 DEF CallsMatchTable, MatchesTable, Idle
<1>4. MarkedSessionsHaveCalls'
  <2>1. \A u \in Live' : u \in Live /\ (~Idle(u)' => ~Idle(u))
    BY Zenon, <1>2 DEF Idle
  <2>2. \A d \in Calls : at[d] \in {"commit", "locked"} => at'[d] = at[d] /\ id'[d] = id[d]
    BY Zenon, <1>1
  <2> QED
    BY Zenon, <2>1, <2>2, MarksUntouched
<1>5. TxnsOwnedOnce'
  <2>1. \A d \in Calls : at'[d] = "begin" => at[d] = "begin" /\ run'[d] = run[d]
    BY Zenon, <1>1
  <2> QED
    BY Zenon, <1>2, <2>1, TxnsUntouched
<1>6. ArenasOwnedOnce'
  BY <1>0, <1>1, <1>2, SessionsAssumption DEF ArenasOwnedOnce, OwnsArena, HandleTypes, Handle
<1> QED
  BY Zenon, <1>3, <1>4, <1>5, <1>6

\* Time changes ages only.
LEMMA TickOwns ==
    ASSUME Ownership, Tick
    PROVE  CallsMatchTable' /\ MarkedSessionsHaveCalls' /\ TxnsOwnedOnce' /\ ArenasOwnedOnce'
<1>1. \A r \in Running : /\ Older(r).txn = r.txn
                         /\ Older(r).arena = r.arena
                         /\ Older(r).executing = r.executing
  BY Zenon DEF Older, Running
<1>2. /\ Live' = Live
      /\ \A s \in Live : /\ client_to_txn'[s].txn = client_to_txn[s].txn
                         /\ client_to_txn'[s].arena = client_to_txn[s].arena
                         /\ client_to_txn'[s].executing = client_to_txn[s].executing
  BY Zenon, <1>1 DEF Tick, Ownership, TypeOK, Live
<1>3. \A c \in Calls : run'[c].txn = run[c].txn /\ run'[c].arena = run[c].arena
  BY Zenon, <1>1 DEF Tick, Ownership, TypeOK
<1>4. at' = at /\ id' = id /\ free_txns' = free_txns /\ free_arenas' = free_arenas
  BY Zenon DEF Tick, pool
<1> USE DEF Ownership
<1>5. CallsMatchTable'
  BY ZenonT(40), <1>2, <1>3, <1>4 DEF CallsMatchTable, MatchesTable, Idle
<1>6. MarkedSessionsHaveCalls'
  BY Zenon, <1>2, <1>4 DEF MarkedSessionsHaveCalls, Idle
<1>7. TxnsOwnedOnce'
  BY SMTT(60), <1>2, <1>3, <1>4 DEF TxnsOwnedOnce
<1>8. ArenasOwnedOnce'
  BY <1>2, <1>3, <1>4 DEF ArenasOwnedOnce, OwnsArena
<1> QED
  BY Zenon, <1>5, <1>6, <1>7, <1>8

-----------------------------------------------------------------------------

\* Every step of the server preserves the ownership of handles.
LEMMA OwnershipStep ==
    ASSUME SerialClients, Ownership, [Next]_vars
    PROVE  Ownership'
<1> DEFINE Kept == CallsMatchTable' /\ MarkedSessionsHaveCalls'
                   /\ TxnsOwnedOnce' /\ ArenasOwnedOnce'
<1>1. ASSUME NEW c \in Calls, NEW s \in Sessions,
             TxnBegin(c, s) \/ TxnBeginEvicting(c, s)
      PROVE  Kept
  BY Zenon, <1>1, TxnBeginOwns, TxnBeginEvictingOwns
<1>2. ASSUME NEW c \in Calls, NEW s \in Sessions, TxnCommit(c, s) \/ Lock(c, s)
      PROVE  Kept
  BY Zenon, <1>2, ContinueOwns DEF TxnCommit, Lock
<1>3. ASSUME NEW c \in Calls, NEW s \in Sessions,
             TxnCommitFails(c, s) \/ LockFails(c, s)
      PROVE  Kept
  <2>1. at[c] = "idle" /\ s \notin Live
    BY Zenon, <1>3, NoOtherCallInFlight DEF TxnCommitFails, LockFails, Starts
  <2> QED
    BY Zenon, <1>3, <2>1, FailureOwns DEF TxnCommitFails, LockFails
<1>4. ASSUME NEW c \in Calls, TxnHold(c) PROVE Kept
  BY Zenon, <1>4, TxnHoldOwns
<1>5. ASSUME NEW c \in Calls, TxnInitFails(c) \/ TxnCommitReturns(c) PROVE Kept
  BY Zenon, <1>5, ReleaseOwns DEF TxnInitFails, TxnCommitReturns
<1>6. ASSUME NEW c \in Calls, RequestArena(c) \/ RequestArenaEvicting(c) PROVE Kept
  BY Zenon, <1>6, RequestArenaOwns
<1>7. ASSUME NEW c \in Calls, RequestArenaFails(c) PROVE Kept
  BY Zenon, <1>7, FailureOwns DEF RequestArenaFails, StartsPlain
<1>8. ASSUME NEW c \in Calls, Unlock(c) PROVE Kept
  BY <1>8, UnlockOwns, Zenon
<1>9. ASSUME NEW c \in Calls, UnlockFailed(c) \/ StreamEnds(c) PROVE Kept
  BY Zenon, <1>9, EmptyReturnOwns
<1>10. ASSUME Tick PROVE Kept
  BY Zenon, <1>10, TickOwns
<1>11. ASSUME PopOfEmptyTable \/ UNCHANGED vars PROVE Kept
  BY SMTT(60), <1>11 DEF PopOfEmptyTable, vars, pool, Ownership, CallsMatchTable, MatchesTable, Live, Idle,
               MarkedSessionsHaveCalls, TxnsOwnedOnce, ArenasOwnedOnce, OwnsArena
<1>12. Kept
  BY Zenon, <1>1, <1>2, <1>3, <1>4, <1>5, <1>6, <1>7, <1>8, <1>9, <1>10, <1>11
  DEF Next, TxnBeginCrashes, RequestArenaCrashes, Dead
<1> QED
  BY Zenon, <1>12, TypeStep, SerialStep DEF Ownership

\* The pool starts with every handle in the free lists and nothing in use.
LEMMA OwnershipInit == Init => Ownership
<1> SUFFICES ASSUME Init PROVE Ownership
  BY Zenon
<1>1. TypeOK /\ CallsWellFormed
  BY Zenon, TypeInit
<1>2. Live = {} /\ \A c \in Calls : at[c] = "idle"
  BY Zenon DEF Init, Live
<1>3. \A h \in Handles : free_txns[h] = 0 /\ free_arenas[h] = 0
  BY Zenon, SessionsAssumption DEF Init, Handle
<1>4. TxnsOwnedOnce /\ ArenasOwnedOnce
  BY SMTT(60), <1>2, <1>3 DEF TxnsOwnedOnce, ArenasOwnedOnce, OwnsArena
<1>5. OneCallPerSession /\ CallsMatchTable /\ MarkedSessionsHaveCalls
  BY Zenon, <1>2 DEF OneCallPerSession, CallsMatchTable, MatchesTable, MarkedSessionsHaveCalls
<1> QED
  BY Zenon, <1>1, <1>4, <1>5 DEF Ownership

\* What a call uses is either its own or its session's, and a session has one
\* call: ownership gives exclusive use.
LEMMA OwnershipExclusive == Ownership => HandlesExclusive
<1> SUFFICES ASSUME Ownership, NEW c \in Calls, Using(c)
             PROVE  /\ run[c].txn # Null =>
                          /\ free_txns[run[c].txn] = 0
                          /\ \A s \in Live \ {id[c]} : client_to_txn[s].txn # run[c].txn
                          /\ \A d \in Calls \ {c} : Using(d) => run[d].txn # run[c].txn
                    /\ run[c].arena # Null =>
                          /\ free_arenas[run[c].arena] = 0
                          /\ \A s \in Live \ {id[c]} : client_to_txn[s].arena # run[c].arena
                          /\ \A d \in Calls \ {c} : Using(d) => run[d].arena # run[c].arena
  BY Zenon DEF HandlesExclusive
<1> USE SessionsAssumption DEF Ownership
<1> DEFINE Borrows(d) == at[d] \in {"commit", "locked"} /\ id[d] # NoSession
<1>1. \A d \in Calls : Using(d) => OwnsArena(d) \/ Borrows(d)
  BY Zenon DEF Using, OwnsArena, CallsWellFormed
<1>2. \A d \in Calls : Borrows(d) =>
         /\ id[d] \in Live
         /\ run[d].txn = client_to_txn[id[d]].txn
         /\ run[d].arena = client_to_txn[id[d]].arena
  BY Zenon DEF CallsMatchTable, MatchesTable
<1>3. \A d, e \in Calls : Borrows(d) /\ Borrows(e) /\ d # e => id[d] # id[e]
  BY Zenon DEF OneCallPerSession
<1>4. \A d \in Calls : OwnsArena(d) /\ run[d].txn # Null => at[d] = "begin"
  BY Zenon DEF OwnsArena, CallsWellFormed
<1> HIDE DEF Borrows
<1>5. run[c].txn # Null =>
         /\ free_txns[run[c].txn] = 0
         /\ \A s \in Live \ {id[c]} : client_to_txn[s].txn # run[c].txn
         /\ \A d \in Calls \ {c} : Using(d) => run[d].txn # run[c].txn
  BY SMTT(60), <1>1, <1>2, <1>3, <1>4 DEF TxnsOwnedOnce
<1>6. run[c].arena # Null =>
         /\ free_arenas[run[c].arena] = 0
         /\ \A s \in Live \ {id[c]} : client_to_txn[s].arena # run[c].arena
         /\ \A d \in Calls \ {c} : Using(d) => run[d].arena # run[c].arena
  BY <1>1, <1>2, <1>3 DEF ArenasOwnedOnce
<1> QED
  BY Zenon, <1>5, <1>6

\* For any pool size, any number of handler threads and sessions, with
\* evictions, failed locks and failed initializations: as long as clients do
\* not overlap calls on one transaction id, no transaction handle and no arena
\* is ever used by two calls, or free while it is used.
THEOREM ExclusiveUse == SerialClients => (Spec => []HandlesExclusive)
<1> SUFFICES ASSUME SerialClients PROVE Spec => []HandlesExclusive
  BY Zenon
<1>1. Ownership /\ [Next]_vars => Ownership'
  BY Zenon, OwnershipStep
<1> QED
  BY <1>1, OwnershipInit, OwnershipExclusive, PTL DEF Spec

\* Under the same discipline a session leaves the table only through its own
\* commit, or while no call works on it and a free list is empty.
THEOREM EvictionSafe == SerialClients => (Spec => EvictionOnlyUnderPressure)
<1> SUFFICES ASSUME SerialClients PROVE Spec => EvictionOnlyUnderPressure
  BY Zenon
<1> DEFINE Leaves == \A s \in Live \ Live' :
              \/ \E c \in Calls : at[c] = "commit" /\ id[c] = s /\ at'[c] = "idle"
              \/ Idle(s) /\ NeedsEviction
<1>1. Ownership /\ [Next]_vars => [Leaves]_vars
  <2> SUFFICES ASSUME Ownership, Next PROVE Leaves
    BY Zenon
  <2>1. ASSUME NEW c \in Calls, NEW s \in Sessions, TxnBeginEvicting(c, s) PROVE Leaves
    BY Zenon, <2>1 DEF TxnBeginEvicting, Evictable, Erase, Restrict, Live
  <2>2. ASSUME NEW c \in Calls, RequestArenaEvicting(c) PROVE Leaves
    BY Zenon, <2>2 DEF RequestArenaEvicting, Evictable, Erase, Restrict, Live, NeedsEviction
  <2>3. ASSUME NEW c \in Calls, TxnInitFails(c) \/ TxnCommitReturns(c) PROVE Leaves
    <3>1. at'[c] = "idle" /\ ReleaseTxn(id[c])
      BY Zenon, <2>3 DEF TxnInitFails, TxnCommitReturns, Returns, Goes, Ownership, TypeOK
    <3>2. Live \ Live' \subseteq {id[c]}
      BY Zenon, <3>1 DEF ReleaseTxn, Erase, Restrict, Live
    <3>3. at[c] # "commit" => id[c] \notin Live
      BY Zenon, <2>3 DEF TxnInitFails, TxnCommitReturns, Ownership, CallsMatchTable, MatchesTable
    <3> QED
      BY Zenon, <3>1, <3>2, <3>3
  <2>4. ASSUME Live \subseteq Live' PROVE Leaves
    BY Zenon, <2>4
  <2>5. ASSUME NEW c \in Calls, NEW s \in Sessions,
               \/ TxnBegin(c, s) \/ TxnBeginCrashes(c, s) \/ TxnCommit(c, s)
               \/ TxnCommitFails(c, s) \/ Lock(c, s) \/ LockFails(c, s)
        PROVE  Leaves
    BY Zenon, <2>4, <2>5
    DEF TxnBegin, TxnBeginCrashes, PopOfEmptyTable, TxnCommit, TxnCommitFails,
        Lock, LockFails, ContinueTxn, Insert, Live
  <2>6. ASSUME NEW c \in Calls, TxnHold(c)
        PROVE  Leaves
    BY Zenon, <2>4, <2>6 DEF TxnHold, Insert, Live
  <2>7. ASSUME NEW c \in Calls,
               \/ RequestArena(c) \/ RequestArenaFails(c) \/ RequestArenaCrashes(c)
               \/ Unlock(c) \/ UnlockFailed(c) \/ StreamEnds(c)
        PROVE  Leaves
    BY Zenon, <2>4, <2>7
    DEF RequestArena, RequestArenaFails, RequestArenaCrashes, PopOfEmptyTable,
        Unlock, UnlockFailed, StreamEnds, Insert, Live
  <2>8. ASSUME Tick \/ Dead PROVE Leaves
    BY Zenon, <2>4, <2>8 DEF Tick, Dead, vars, Live
  <2> QED
    BY Zenon, <2>1, <2>2, <2>3, <2>5, <2>6, <2>7, <2>8 DEF Next
<1>2. Ownership /\ [Next]_vars => Ownership'
  BY Zenon, OwnershipStep
<1> QED
  BY <1>1, <1>2, OwnershipInit, PTL DEF Spec, EvictionOnlyUnderPressure


-----------------------------------------------------------------------------
(* Counting the handles.                                                    *)

\* What one element more, or less, makes of the size of a finite set.
LEMMA OneMoreOrLess ==
    ASSUME NEW S, IsFiniteSet(S), NEW x
    PROVE  /\ Cardinality(S) \in Nat
           /\ IsFiniteSet(S \cup {x}) /\ IsFiniteSet(S \ {x})
           /\ x \notin S => /\ Cardinality(S \cup {x}) = Cardinality(S) + 1
                            /\ S \ {x} = S
           /\ x \in S => /\ Cardinality(S \ {x}) = Cardinality(S) - 1
                         /\ S \cup {x} = S
<1>1. Cardinality(S) \in Nat
  BY FS_CardinalityType
<1>2. IsFiniteSet(S \cup {x}) /\ (x \notin S => Cardinality(S \cup {x}) = Cardinality(S) + 1)
  BY FS_AddElement
<1>3. IsFiniteSet(S \ {x}) /\ (x \in S => Cardinality(S \ {x}) = Cardinality(S) - 1)
  BY FS_RemoveElement
<1>4. (x \notin S => S \ {x} = S) /\ (x \in S => S \cup {x} = S)
  OBVIOUS
<1> QED
  BY <1>1, <1>2, <1>3, <1>4

\* The numbered entries of a free list.
LEMMA ListedEntry ==
    ASSUME NEW free \in [Handle -> Nat], NEW e
    PROVE  e \in Listed(free) <=>
              \E h \in Handle, i \in Nat : e = <<h, i>> /\ 1 <= i /\ i <= free[h]
<1>1. ASSUME e \in Listed(free)
      PROVE  \E h \in Handle, i \in Nat : e = <<h, i>> /\ 1 <= i /\ i <= free[h]
  <2>1. PICK h \in Handle : e \in {h} \X (1..free[h])
    BY Zenon, <1>1 DEF Listed
  <2>2. PICK i \in 1..free[h] : e = <<h, i>>
    BY <2>1
  <2>3. i \in Nat /\ 1 <= i /\ i <= free[h]
    BY <2>2
  <2> QED
    BY Zenon, <2>2, <2>3
<1>2. ASSUME NEW h \in Handle, NEW i \in Nat, e = <<h, i>>, 1 <= i, i <= free[h]
      PROVE  e \in Listed(free)
  <2>1. i \in 1..free[h]
    BY <1>2
  <2>2. e \in {h} \X (1..free[h])
    BY <1>2, <2>1
  <2> QED
    BY Zenon, <2>2 DEF Listed
<1> QED
  BY Zenon, <1>1, <1>2

\* push_back lengthens a free list by one, and taking an entry shortens it.
LEMMA ListedPush ==
    ASSUME NEW free \in [Handle -> Nat], NEW h \in Handle, IsFiniteSet(Listed(free))
    PROVE  /\ IsFiniteSet(Listed(Push(free, h)))
           /\ Cardinality(Listed(Push(free, h))) = Cardinality(Listed(free)) + 1
<1> DEFINE new == <<h, free[h] + 1>>
<1>1. Push(free, h) \in [Handle -> Nat]
  BY Zenon, PoolTypes
<1>2. new \notin Listed(free)
  <2>1. SUFFICES ASSUME NEW g \in Handle, NEW i \in Nat, new = <<g, i>>, i <= free[g]
                 PROVE  FALSE
    BY Zenon, ListedEntry
  <2> QED
    BY <2>1
<1>3. Listed(Push(free, h)) = Listed(free) \cup {new}
  <2>1. ASSUME NEW e \in Listed(Push(free, h)) PROVE e \in Listed(free) \cup {new}
    <3>1. PICK g \in Handle, i \in Nat : e = <<g, i>> /\ 1 <= i /\ i <= Push(free, h)[g]
      BY Zenon, <1>1, <2>1, ListedEntry
    <3>2. i <= free[g] \/ (g = h /\ i = free[h] + 1)
      BY <3>1 DEF Push
    <3> QED
      BY Zenon, <3>1, <3>2, ListedEntry
  <2>2. ASSUME NEW e \in Listed(free) PROVE e \in Listed(Push(free, h))
    <3>1. PICK g \in Handle, i \in Nat : e = <<g, i>> /\ 1 <= i /\ i <= free[g]
      BY Zenon, <2>2, ListedEntry
    <3>2. i <= Push(free, h)[g]
      BY <3>1 DEF Push
    <3> QED
      BY Zenon, <1>1, <3>1, <3>2, ListedEntry
  <2>3. new \in Listed(Push(free, h))
    <3>1. free[h] + 1 \in Nat /\ 1 <= free[h] + 1 /\ free[h] + 1 <= Push(free, h)[h]
      BY DEF Push
    <3> QED
      BY Zenon, <1>1, <3>1, ListedEntry
  <2> QED
    BY Zenon, <2>1, <2>2, <2>3
<1>4. /\ IsFiniteSet(Listed(free) \cup {new})
      /\ Cardinality(Listed(free) \cup {new}) = Cardinality(Listed(free)) + 1
  <2> HIDE DEF new
  <2> QED
    BY Zenon, <1>2, OneMoreOrLess
<1> QED
  BY Zenon, <1>3, <1>4

LEMMA ListedDrop ==
    ASSUME NEW free \in [Handle -> Nat], NEW h \in Entries(free), IsFiniteSet(Listed(free))
    PROVE  /\ IsFiniteSet(Listed(Drop(free, h)))
           /\ Cardinality(Listed(Drop(free, h))) = Cardinality(Listed(free)) - 1
<1>0. h \in Handle /\ free[h] \in Nat /\ free[h] > 0
  BY DEF Entries
<1>1. Drop(free, h) \in [Handle -> Nat]
  BY Zenon, <1>0, PoolTypes
<1> DEFINE last == <<h, free[h]>>
<1>2. last \in Listed(free)
  <2>1. 1 <= free[h] /\ free[h] <= free[h]
    BY <1>0
  <2> QED
    BY Zenon, <1>0, <2>1, ListedEntry
<1>3. Listed(Drop(free, h)) = Listed(free) \ {last}
  <2>1. ASSUME NEW e \in Listed(Drop(free, h)) PROVE e \in Listed(free) /\ e # last
    <3>1. PICK g \in Handle, i \in Nat : e = <<g, i>> /\ 1 <= i /\ i <= Drop(free, h)[g]
      BY Zenon, <1>1, <2>1, ListedEntry
    <3>2. i <= free[g] /\ (g = h => i # free[h])
      BY <1>0, <3>1 DEF Drop
    <3>3. e # last
      BY <3>1, <3>2
    <3> QED
      BY Zenon, <3>1, <3>2, <3>3, ListedEntry
  <2>2. ASSUME NEW e \in Listed(free), e # last PROVE e \in Listed(Drop(free, h))
    <3>1. PICK g \in Handle, i \in Nat : e = <<g, i>> /\ 1 <= i /\ i <= free[g]
      BY Zenon, <2>2, ListedEntry
    <3>2. ~(g = h /\ i = free[h])
      BY Zenon, <2>2, <3>1
    <3>3. i <= Drop(free, h)[g]
      BY <1>0, <3>1, <3>2 DEF Drop
    <3> QED
      BY Zenon, <1>1, <3>1, <3>3, ListedEntry
  <2> QED
    BY Zenon, <2>1, <2>2
<1>4. /\ IsFiniteSet(Listed(free) \ {last})
      /\ Cardinality(Listed(free) \ {last}) = Cardinality(Listed(free)) - 1
  <2> HIDE DEF last
  <2> QED
    BY Zenon, <1>2, OneMoreOrLess
<1> QED
  BY Zenon, <1>3, <1>4

\* The calls that hold handles, after a call went to another step.
LEMMA HoldersAfter ==
    ASSUME TypeOK, NEW c \in Calls, NEW step, NEW s, NEW r, Goes(c, step, s, r)
    PROVE  /\ Beginning' = IF step = "begin" THEN Beginning \cup {c} ELSE Beginning \ {c}
           /\ PlainLocked' = IF step = "locked" /\ s = NoSession
                             THEN PlainLocked \cup {c} ELSE PlainLocked \ {c}
<1>1. \A d \in Calls : at'[d] = (IF d = c THEN step ELSE at[d])
                       /\ id'[d] = (IF d = c THEN s ELSE id[d])
  BY Zenon DEF Goes, TypeOK
<1> QED
  BY Zenon, <1>1 DEF Beginning, PlainLocked

-----------------------------------------------------------------------------

\* The sets that TxnsHeld and ArenasHeld count.
Countable ==
    /\ IsFiniteSet(Listed(free_txns)) /\ IsFiniteSet(Listed(free_arenas))
    /\ IsFiniteSet(Live) /\ IsFiniteSet(Beginning) /\ IsFiniteSet(PlainLocked)

NoneLost == Countable' /\ TxnsHeld' >= TxnsHeld /\ ArenasHeld' >= ArenasHeld

\* The two totals are numbers.
LEMMA Counts ==
    ASSUME Countable
    PROVE  /\ Cardinality(Listed(free_txns)) \in Nat
           /\ Cardinality(Listed(free_arenas)) \in Nat
           /\ Cardinality(Live) \in Nat
           /\ Cardinality(Beginning) \in Nat
           /\ Cardinality(PlainLocked) \in Nat
BY Zenon, FS_CardinalityType DEF Countable

\* A call that holds nothing before its step or after it.
LEMMA NothingMoves ==
    ASSUME Countable, UNCHANGED <<free_txns, free_arenas>>, Live' = Live,
           Beginning' = Beginning, PlainLocked' = PlainLocked
    PROVE  NoneLost
<1>1. Listed(free_txns)' = Listed(free_txns) /\ Listed(free_arenas)' = Listed(free_arenas)
  BY Zenon DEF Listed
<1>2. TxnsHeld' = TxnsHeld /\ ArenasHeld' = ArenasHeld
  BY Zenon, <1>1 DEF TxnsHeld, ArenasHeld
<1>3. TxnsHeld \in Nat /\ ArenasHeld \in Nat
  BY Counts DEF TxnsHeld, ArenasHeld
<1> QED
  BY <1>1, <1>2, <1>3 DEF NoneLost, Countable

\* request_txn takes one entry of each list, and the call has them.
LEMMA TxnBeginKeeps ==
    ASSUME Ownership, Countable, NEW c \in Calls, NEW s \in Sessions, TxnBegin(c, s)
    PROVE  NoneLost
<1>1. PICK t \in Entries(free_txns), a \in Entries(free_arenas) :
         /\ free_txns' = Drop(free_txns, t)
         /\ free_arenas' = Drop(free_arenas, a)
         /\ Goes(c, "begin", s, Touched([txn |-> t, arena |-> a]))
  BY Zenon DEF TxnBegin
<1>2. Beginning' = Beginning \cup {c} /\ PlainLocked' = PlainLocked \ {c}
  BY <1>1, HoldersAfter DEF Ownership
<1>3. c \notin Beginning /\ c \notin PlainLocked
  BY DEF TxnBegin, Starts, Beginning, PlainLocked
<1>4. Live' = Live
  BY Zenon DEF TxnBegin, Live
<1>5. Listed(free_txns)' = Listed(Drop(free_txns, t)) /\ Listed(free_arenas)' = Listed(Drop(free_arenas, a))
  BY Zenon, <1>1 DEF Listed
<1>6. /\ IsFiniteSet(Listed(free_txns)')
      /\ Cardinality(Listed(free_txns)') = Cardinality(Listed(free_txns)) - 1
      /\ IsFiniteSet(Listed(free_arenas)')
      /\ Cardinality(Listed(free_arenas)') = Cardinality(Listed(free_arenas)) - 1
  BY Zenon, <1>5, ListedDrop DEF Ownership, TypeOK, Countable
<1>7. /\ IsFiniteSet(Beginning')
      /\ Cardinality(Beginning') = Cardinality(Beginning) + 1
      /\ PlainLocked' = PlainLocked
  BY Zenon, <1>2, <1>3, OneMoreOrLess DEF Countable
<1>8. TxnsHeld' = TxnsHeld /\ ArenasHeld' = ArenasHeld
  BY <1>4, <1>6, <1>7, Counts DEF TxnsHeld, ArenasHeld
<1>9. TxnsHeld \in Nat /\ ArenasHeld \in Nat
  BY Counts DEF TxnsHeld, ArenasHeld
<1> QED
  BY <1>4, <1>6, <1>7, <1>8, <1>9 DEF NoneLost, Countable

\* A call that begins with the handles of an evicted session.
LEMMA TxnBeginEvictingKeeps ==
    ASSUME Ownership, Countable, NEW c \in Calls, NEW s \in Sessions, TxnBeginEvicting(c, s)
    PROVE  NoneLost
<1>1. PICK v \in Victims : /\ client_to_txn' = Erase(v)
                           /\ Goes(c, "begin", s, Touched(client_to_txn[v]))
  BY Zenon DEF TxnBeginEvicting
<1>2. Beginning' = Beginning \cup {c} /\ PlainLocked' = PlainLocked \ {c}
  BY <1>1, HoldersAfter DEF Ownership
<1>3. c \notin Beginning /\ c \notin PlainLocked
  BY DEF TxnBeginEvicting, Starts, Beginning, PlainLocked
<1>4. v \in Live /\ Live' = Live \ {v}
  BY Zenon, <1>1, EraseType DEF Victims, Ownership
<1>5. Listed(free_txns)' = Listed(free_txns) /\ Listed(free_arenas)' = Listed(free_arenas)
  BY Zenon DEF TxnBeginEvicting, pool, Listed
<1>6. /\ IsFiniteSet(Beginning') /\ Cardinality(Beginning') = Cardinality(Beginning) + 1
      /\ PlainLocked' = PlainLocked
      /\ IsFiniteSet(Live') /\ Cardinality(Live') = Cardinality(Live) - 1
  BY Zenon, <1>2, <1>3, <1>4, OneMoreOrLess DEF Countable
<1>7. Countable'
  BY Zenon, <1>5, <1>6 DEF Countable
<1> QED
  BY <1>5, <1>6, <1>7, Counts DEF NoneLost, TxnsHeld, ArenasHeld

\* hold_txn moves the handles from the call to the table.  The id is not in
\* the table: a second session under it would displace the first.
LEMMA TxnHoldKeeps ==
    ASSUME Ownership, Countable, NEW c \in Calls, TxnHold(c)
    PROVE  NoneLost
<1>1. PICK t \in IF run[c].txn = Null THEN FreshTxns ELSE {run[c].txn} :
         client_to_txn' = Insert(id[c], Parked(t, run[c].arena, run[c].age))
  BY Zenon DEF TxnHold
<1>2. at[c] = "begin" /\ Goes(c, "idle", NoSession, NoRunning)
  BY Zenon DEF TxnHold, Returns
<1>3. Beginning' = Beginning \ {c} /\ PlainLocked' = PlainLocked \ {c}
  BY <1>2, HoldersAfter DEF Ownership
<1>4. c \in Beginning /\ c \notin PlainLocked
  BY <1>2 DEF Beginning, PlainLocked
<1>5. id[c] \notin Live
  BY Zenon, <1>2 DEF Ownership, CallsMatchTable, MatchesTable
<1>6. Live' = Live \cup {id[c]}
  BY Zenon, <1>1 DEF Insert, Live
<1>7. Listed(free_txns)' = Listed(free_txns) /\ Listed(free_arenas)' = Listed(free_arenas)
  BY Zenon DEF TxnHold, pool, Listed
<1>8. /\ IsFiniteSet(Beginning') /\ Cardinality(Beginning') = Cardinality(Beginning) - 1
      /\ PlainLocked' = PlainLocked
      /\ IsFiniteSet(Live') /\ Cardinality(Live') = Cardinality(Live) + 1
  BY Zenon, <1>3, <1>4, <1>5, <1>6, OneMoreOrLess DEF Countable
<1>9. Countable'
  BY Zenon, <1>7, <1>8 DEF Countable
<1> QED
  BY <1>7, <1>8, <1>9, Counts DEF NoneLost, TxnsHeld, ArenasHeld

\* release_txn gives both handles of the session back, or does nothing when
\* the id is not in the table.
LEMMA ReleaseCounts ==
    ASSUME Ownership, Countable, NEW s, ReleaseTxn(s)
    PROVE  \E n \in {0, 1} :
              /\ IsFiniteSet(Listed(free_txns)')
              /\ Cardinality(Listed(free_txns)') = Cardinality(Listed(free_txns)) + n
              /\ IsFiniteSet(Listed(free_arenas)')
              /\ Cardinality(Listed(free_arenas)') = Cardinality(Listed(free_arenas)) + n
              /\ IsFiniteSet(Live') /\ Cardinality(Live') = Cardinality(Live) - n
<1>1. CASE s \in Live
  <2>1. /\ free_arenas' = Push(free_arenas, client_to_txn[s].arena)
        /\ free_txns' = Push(free_txns, client_to_txn[s].txn)
        /\ client_to_txn' = Erase(s)
    BY Zenon, <1>1 DEF ReleaseTxn
  <2>2. client_to_txn[s].txn \in Handle /\ client_to_txn[s].arena \in Handle
    BY Zenon, <1>1 DEF Ownership, TypeOK, Running
  <2>3. /\ Listed(free_txns)' = Listed(Push(free_txns, client_to_txn[s].txn))
        /\ Listed(free_arenas)' = Listed(Push(free_arenas, client_to_txn[s].arena))
    BY Zenon, <2>1 DEF Listed
  <2>4. Live' = Live \ {s}
    BY Zenon, <2>1, EraseType DEF Ownership
  <2>5. /\ IsFiniteSet(Listed(free_txns)')
        /\ Cardinality(Listed(free_txns)') = Cardinality(Listed(free_txns)) + 1
        /\ IsFiniteSet(Listed(free_arenas)')
        /\ Cardinality(Listed(free_arenas)') = Cardinality(Listed(free_arenas)) + 1
    BY Zenon, <2>2, <2>3, ListedPush DEF Ownership, TypeOK, Countable
  <2>6. IsFiniteSet(Live') /\ Cardinality(Live') = Cardinality(Live) - 1
    BY Zenon, <1>1, <2>4, OneMoreOrLess DEF Countable
  <2> QED
    BY Zenon, <2>5, <2>6
<1>2. CASE s \notin Live
  <2>1. /\ Listed(free_txns)' = Listed(free_txns) /\ Listed(free_arenas)' = Listed(free_arenas)
        /\ Live' = Live
    BY Zenon, <1>2 DEF ReleaseTxn, pool, Listed, Live
  <2>2. /\ Cardinality(Listed(free_txns)') = Cardinality(Listed(free_txns)) + 0
        /\ Cardinality(Listed(free_arenas)') = Cardinality(Listed(free_arenas)) + 0
        /\ Cardinality(Live') = Cardinality(Live) - 0
    BY <2>1, Counts
  <2> QED
    BY Zenon, <2>1, <2>2 DEF Countable
<1> QED
  BY Zenon, <1>1, <1>2

LEMMA TxnCommitReturnsKeeps ==
    ASSUME Ownership, Countable, NEW c \in Calls, TxnCommitReturns(c)
    PROVE  NoneLost
<1>1. /\ at[c] \in {"commit", "commit_failed"} /\ ReleaseTxn(id[c])
      /\ Goes(c, "idle", NoSession, NoRunning)
  BY Zenon DEF TxnCommitReturns, Returns
<1>2. Beginning' = Beginning \ {c} /\ PlainLocked' = PlainLocked \ {c}
  BY <1>1, HoldersAfter DEF Ownership
<1>3. c \notin Beginning /\ c \notin PlainLocked
  BY <1>1 DEF Beginning, PlainLocked
<1>4. PICK n \in {0, 1} :
              /\ IsFiniteSet(Listed(free_txns)')
              /\ Cardinality(Listed(free_txns)') = Cardinality(Listed(free_txns)) + n
              /\ IsFiniteSet(Listed(free_arenas)')
              /\ Cardinality(Listed(free_arenas)') = Cardinality(Listed(free_arenas)) + n
              /\ IsFiniteSet(Live') /\ Cardinality(Live') = Cardinality(Live) - n
  BY Zenon, <1>1, ReleaseCounts
<1>5. Beginning' = Beginning /\ PlainLocked' = PlainLocked
  BY Zenon, <1>2, <1>3
<1>6. Countable'
  BY Zenon, <1>4, <1>5 DEF Countable
<1> QED
  BY <1>4, <1>5, <1>6, Counts DEF NoneLost, TxnsHeld, ArenasHeld

\* A failed initialization leaves a finite pool, with a handle less of each kind.
LEMMA TxnInitFailsCounts ==
    ASSUME Ownership, Countable, NEW c \in Calls, TxnInitFails(c)
    PROVE  Countable'
<1>1. ReleaseTxn(id[c]) /\ Goes(c, "idle", NoSession, NoRunning)
  BY Zenon DEF TxnInitFails, Returns
<1>2. Beginning' = Beginning \ {c} /\ PlainLocked' = PlainLocked \ {c}
  BY <1>1, HoldersAfter DEF Ownership
<1>3. /\ IsFiniteSet(Listed(free_txns)') /\ IsFiniteSet(Listed(free_arenas)')
      /\ IsFiniteSet(Live')
  BY Zenon, <1>1, ReleaseCounts
<1> QED
  BY Zenon, <1>2, <1>3, OneMoreOrLess DEF Countable

\* A call outside a transaction takes an arena, from the list or from a
\* session whose transaction goes back to its list.
LEMMA RequestArenaKeeps ==
    ASSUME Ownership, Countable, NEW c \in Calls,
           RequestArena(c) \/ RequestArenaEvicting(c)
    PROVE  NoneLost
<1>1. /\ at[c] = "idle" /\ \E r : Goes(c, "locked", NoSession, r)
  BY Zenon DEF RequestArena, RequestArenaEvicting, StartsPlain
<1>2. Beginning' = Beginning \ {c} /\ PlainLocked' = PlainLocked \cup {c}
  BY <1>1, HoldersAfter DEF Ownership
<1>3. c \notin Beginning /\ c \notin PlainLocked
  BY <1>1 DEF Beginning, PlainLocked
<1>4. /\ Beginning' = Beginning
      /\ IsFiniteSet(PlainLocked') /\ Cardinality(PlainLocked') = Cardinality(PlainLocked) + 1
  BY Zenon, <1>2, <1>3, OneMoreOrLess DEF Countable
<1>5. CASE RequestArena(c)
  <2>1. PICK a \in Entries(free_arenas) : free_arenas' = Drop(free_arenas, a)
    BY Zenon, <1>5 DEF RequestArena
  <2>2. Listed(free_arenas)' = Listed(Drop(free_arenas, a)) /\ Listed(free_txns)' = Listed(free_txns)
        /\ Live' = Live
    BY Zenon, <1>5, <2>1 DEF RequestArena, Listed, Live
  <2>3. /\ IsFiniteSet(Listed(free_arenas)')
        /\ Cardinality(Listed(free_arenas)') = Cardinality(Listed(free_arenas)) - 1
    BY Zenon, <2>2, ListedDrop DEF Ownership, TypeOK, Countable
  <2>4. Countable'
    BY Zenon, <1>4, <2>2, <2>3 DEF Countable
  <2> QED
    BY <1>4, <2>2, <2>3, <2>4, Counts DEF NoneLost, TxnsHeld, ArenasHeld
<1>6. CASE RequestArenaEvicting(c)
  <2>1. PICK v \in Victims : /\ client_to_txn' = Erase(v)
                             /\ free_txns' = Push(free_txns, client_to_txn[v].txn)
    BY Zenon, <1>6 DEF RequestArenaEvicting
  <2>2. v \in Live /\ Live' = Live \ {v}
    BY Zenon, <2>1, EraseType DEF Victims, Ownership
  <2>3. client_to_txn[v].txn \in Handle
    BY Zenon, <2>2 DEF Ownership, TypeOK, Running
  <2>4. /\ Listed(free_txns)' = Listed(Push(free_txns, client_to_txn[v].txn))
        /\ Listed(free_arenas)' = Listed(free_arenas)
    BY Zenon, <1>6, <2>1 DEF RequestArenaEvicting, Listed
  <2>5. /\ IsFiniteSet(Listed(free_txns)')
        /\ Cardinality(Listed(free_txns)') = Cardinality(Listed(free_txns)) + 1
    BY Zenon, <2>3, <2>4, ListedPush DEF Ownership, TypeOK, Countable
  <2>6. IsFiniteSet(Live') /\ Cardinality(Live') = Cardinality(Live) - 1
    BY Zenon, <2>2, OneMoreOrLess DEF Countable
  <2>7. Countable'
    BY Zenon, <1>4, <2>4, <2>5, <2>6 DEF Countable
  <2> QED
    BY <1>4, <2>4, <2>5, <2>6, <2>7, Counts DEF NoneLost, TxnsHeld, ArenasHeld
<1> QED
  BY Zenon, <1>5, <1>6

\* ~session_lock_t parks what the call borrowed from its session, or gives
\* back the arena of a call outside a transaction.
LEMMA UnlockKeeps ==
    ASSUME Ownership, Countable, NEW c \in Calls, Unlock(c)
    PROVE  NoneLost
<1>1. PICK a \in IF run[c].arena = Null THEN FreshArenas \cup {Null} ELSE {run[c].arena} :
         /\ IF run[c].txn # Null
            THEN /\ client_to_txn' = Insert(id[c], Parked(run[c].txn, a, 0))
                 /\ UNCHANGED free_arenas
            ELSE /\ free_arenas' = Push(free_arenas, a)
                 /\ UNCHANGED client_to_txn
         /\ Goes(c, "idle", NoSession, NoRunning)
            \/ Goes(c, "streaming", id[c], [NoRunning EXCEPT !.arena = a])
  BY Zenon DEF Unlock, Returns
<1>2. at[c] = "locked" /\ UNCHANGED free_txns
  BY Zenon DEF Unlock
<1>3. Beginning' = Beginning \ {c} /\ PlainLocked' = PlainLocked \ {c}
  BY <1>1, HoldersAfter DEF Ownership
<1>4. a \in Handle
  BY ZenonT(60), <1>1 DEF FreshArenas, Handle, Ownership, TypeOK, Running
<1>5. Beginning' = Beginning /\ Listed(free_txns)' = Listed(free_txns)
  BY <1>2, <1>3 DEF Beginning, Listed
<1>6. id[c] # NoSession =>
         id[c] \in Live /\ run[c].txn = client_to_txn[id[c]].txn /\ run[c].txn # Null
  BY ZenonT(60), <1>2 DEF Ownership, CallsMatchTable, MatchesTable, TxnsOwnedOnce
<1>7. id[c] = NoSession => run[c].txn = Null
  BY Zenon, <1>2 DEF Ownership, CallsWellFormed
<1>8. CASE run[c].txn # Null
  <2>1. id[c] \in Live /\ c \notin PlainLocked
    BY Zenon, <1>6, <1>7, <1>8 DEF PlainLocked
  <2>2. PlainLocked' = PlainLocked
    BY Zenon, <1>3, <2>1
  <2>3. Live' = Live
    BY Zenon, <1>1, <1>8, <2>1 DEF Insert, Live
  <2> QED
    BY Zenon, <1>1, <1>2, <1>5, <1>8, <2>2, <2>3, NothingMoves
<1>9. CASE run[c].txn = Null
  <2>1. c \in PlainLocked
    BY Zenon, <1>2, <1>6, <1>9 DEF PlainLocked
  <2>2. IsFiniteSet(PlainLocked') /\ Cardinality(PlainLocked') = Cardinality(PlainLocked) - 1
    BY Zenon, <1>3, <2>1, OneMoreOrLess DEF Countable
  <2>3. Listed(free_arenas)' = Listed(Push(free_arenas, a)) /\ Live' = Live
    BY Zenon, <1>1, <1>9 DEF Listed, Live
  <2>4. /\ IsFiniteSet(Listed(free_arenas)')
        /\ Cardinality(Listed(free_arenas)') = Cardinality(Listed(free_arenas)) + 1
    BY Zenon, <1>4, <2>3, ListedPush DEF Ownership, TypeOK, Countable
  <2>5. Countable'
    BY Zenon, <1>5, <2>2, <2>3, <2>4 DEF Countable
  <2> QED
    BY <1>5, <2>2, <2>3, <2>4, <2>5, Counts DEF NoneLost, TxnsHeld, ArenasHeld
<1> QED
  BY Zenon, <1>8, <1>9

\* The destructor after a failed lock pushes a nullptr nobody took.
LEMMA UnlockFailedKeeps ==
    ASSUME Ownership, Countable, NEW c \in Calls, UnlockFailed(c)
    PROVE  NoneLost
<1>1. /\ at[c] = "lock_failed" /\ free_arenas' = Push(free_arenas, Null)
      /\ Goes(c, "idle", NoSession, NoRunning)
      /\ UNCHANGED <<free_txns, client_to_txn>>
  BY Zenon DEF UnlockFailed, Returns
<1>2. Beginning' = Beginning \ {c} /\ PlainLocked' = PlainLocked \ {c}
  BY <1>1, HoldersAfter DEF Ownership
<1>3. Beginning' = Beginning /\ PlainLocked' = PlainLocked
  BY <1>1, <1>2 DEF Beginning, PlainLocked
<1>4. /\ Listed(free_arenas)' = Listed(Push(free_arenas, Null)) /\ Live' = Live
      /\ Listed(free_txns)' = Listed(free_txns)
  BY Zenon, <1>1 DEF Listed, Live
<1>5. /\ IsFiniteSet(Listed(free_arenas)')
      /\ Cardinality(Listed(free_arenas)') = Cardinality(Listed(free_arenas)) + 1
  BY Zenon, <1>4, ListedPush DEF Ownership, TypeOK, Countable, Handle
<1>6. Countable'
  BY Zenon, <1>3, <1>4, <1>5 DEF Countable
<1> QED
  BY <1>3, <1>4, <1>5, <1>6, Counts DEF NoneLost, TxnsHeld, ArenasHeld

\* The remaining steps leave the pool, the ids of the table and the calls that
\* hold handles as they are.
LEMMA IdleStepKeeps ==
    ASSUME Ownership, Countable, NEW c \in Calls, NEW step, NEW s, NEW r,
           at[c] = "idle" \/ at[c] = "streaming",
           step # "begin", step = "locked" => s # NoSession,
           Goes(c, step, s, r), UNCHANGED pool, Live' = Live
    PROVE  NoneLost
<1>1. Beginning' = Beginning \ {c} /\ PlainLocked' = PlainLocked \ {c}
  BY HoldersAfter DEF Ownership
<1>2. Beginning' = Beginning /\ PlainLocked' = PlainLocked
  BY <1>1 DEF Beginning, PlainLocked
<1> QED
  BY Zenon, <1>2, NothingMoves DEF pool

\* A step that moves no call.
LEMMA NoCallKeeps ==
    ASSUME Countable, UNCHANGED <<pool, at, id>>, Live' = Live
    PROVE  NoneLost
<1>1. Beginning' = Beginning /\ PlainLocked' = PlainLocked
  BY Zenon DEF Beginning, PlainLocked
<1> QED
  BY Zenon, <1>1, NothingMoves DEF pool

\* The only step that loses a handle is a TxnBegin whose initialization fails.
LEMMA HandlesStep ==
    ASSUME Ownership, Countable, [Next]_vars
    PROVE  Countable' /\ (NoneLost \/ \E c \in Calls : TxnInitFails(c))
<1> DEFINE Goal == Countable' /\ (NoneLost \/ \E c \in Calls : TxnInitFails(c))
<1>0. ASSUME NoneLost PROVE Goal
  BY Zenon, <1>0 DEF NoneLost
<1>1. ASSUME NEW c \in Calls, TxnInitFails(c) PROVE Goal
  BY Zenon, <1>1, TxnInitFailsCounts
<1>2. ASSUME NEW c \in Calls, NEW s \in Sessions, NEW step \in {"commit", "locked"},
             Starts(c, s), ContinueTxn(c, s, step)
      PROVE  NoneLost
  <2>1. at[c] = "idle" /\ s \in Live /\ UNCHANGED pool
        /\ Goes(c, step, s, Touched(client_to_txn[s]))
    BY Zenon, <1>2 DEF Starts, ContinueTxn, CanContinue
  <2>2. Live' = Live
    BY Zenon, <1>2, <2>1 DEF ContinueTxn, Insert, Live
  <2>3. step # "begin" /\ s # NoSession
    BY SessionsAssumption
  <2> QED
    BY Zenon, <2>1, <2>2, <2>3, IdleStepKeeps
<1>3. ASSUME NEW c \in Calls, NEW s \in Sessions,
             TxnCommit(c, s) \/ Lock(c, s)
      PROVE  NoneLost
  BY Zenon, <1>2, <1>3 DEF TxnCommit, Lock
<1>4. ASSUME NEW c \in Calls, NEW s \in Sessions \cup {NoSession},
             NEW step \in {"commit_failed", "lock_failed", "idle"},
             at[c] = "idle" \/ at[c] = "streaming", Goes(c, step, s, NoRunning),
             UNCHANGED <<pool, client_to_txn>>
      PROVE  NoneLost
  <2>1. Live' = Live /\ UNCHANGED pool
    BY Zenon, <1>4 DEF Live
  <2>2. step # "begin" /\ step # "locked"
    OBVIOUS
  <2> QED
    BY Zenon, <1>4, <2>1, <2>2, IdleStepKeeps
<1>5. ASSUME NEW c \in Calls, NEW s \in Sessions,
             TxnCommitFails(c, s) \/ LockFails(c, s)
      PROVE  NoneLost
  <2>1. /\ at[c] = "idle" /\ UNCHANGED <<pool, client_to_txn>>
        /\ \E step \in {"commit_failed", "lock_failed"} : Goes(c, step, s, NoRunning)
    BY Zenon, <1>5 DEF TxnCommitFails, LockFails, Starts
  <2> QED
    BY Zenon, <1>4, <2>1
<1>6. ASSUME NEW c \in Calls, RequestArenaFails(c) \/ StreamEnds(c)
      PROVE  NoneLost
  <2>1. /\ at[c] = "idle" \/ at[c] = "streaming"
        /\ UNCHANGED <<pool, client_to_txn>>
        /\ \E step \in {"lock_failed", "idle"} : Goes(c, step, NoSession, NoRunning)
    BY Zenon, <1>6 DEF RequestArenaFails, StartsPlain, StreamEnds, Returns
  <2> QED
    BY Zenon, <1>4, <2>1
<1>7. ASSUME PopOfEmptyTable \/ Tick \/ UNCHANGED vars
      PROVE  NoneLost
  <2>1. UNCHANGED <<pool, at, id>> /\ Live' = Live
    BY Zenon, <1>7 DEF PopOfEmptyTable, Tick, vars, pool, Live
  <2> QED
    BY Zenon, <2>1, NoCallKeeps
<1>8. ASSUME NEW c \in Calls, NEW s \in Sessions,
             \/ TxnBegin(c, s) \/ TxnBeginEvicting(c, s) \/ TxnBeginCrashes(c, s)
             \/ TxnCommit(c, s) \/ TxnCommitFails(c, s)
             \/ Lock(c, s) \/ LockFails(c, s)
      PROVE  NoneLost
  BY Zenon, <1>3, <1>5, <1>7, <1>8, TxnBeginKeeps, TxnBeginEvictingKeeps DEF TxnBeginCrashes
<1>9. ASSUME NEW c \in Calls,
             \/ TxnHold(c) \/ TxnCommitReturns(c)
             \/ RequestArena(c) \/ RequestArenaEvicting(c)
             \/ RequestArenaFails(c) \/ RequestArenaCrashes(c)
             \/ Unlock(c) \/ UnlockFailed(c) \/ StreamEnds(c)
      PROVE  NoneLost
  BY Zenon, <1>6, <1>7, <1>9, TxnHoldKeeps, TxnCommitReturnsKeeps, RequestArenaKeeps,
     UnlockKeeps, UnlockFailedKeeps DEF RequestArenaCrashes
<1> HIDE DEF Goal
<1>10. Goal
  BY Zenon, <1>0, <1>1, <1>7, <1>8, <1>9 DEF Next, Dead
<1> QED
  BY Zenon, <1>10 DEF Goal

\* At the start each list is Capacity times nullptr.
LEMMA CountableInit == Init => Countable
<1> SUFFICES ASSUME Init PROVE Countable
  BY Zenon
<1>1. ASSUME NEW free, free = [h \in Handle |-> IF h = Null THEN Capacity ELSE 0]
      PROVE  IsFiniteSet(Listed(free))
  <2>1. free \in [Handle -> Nat]
    BY Zenon, <1>1, NumbersAssumption
  <2>2. IsFiniteSet({Null} \X (1..Capacity))
    <3>1. IsFiniteSet({Null})
      BY Zenon, FS_Singleton
    <3>2. 1 \in Int /\ Capacity \in Int
      BY NumbersAssumption
    <3>3. IsFiniteSet(1..Capacity)
      BY Zenon, <3>2, FS_Interval
    <3> QED
      BY Zenon, <3>1, <3>3, FS_Product
  <2>3. Listed(free) \subseteq {Null} \X (1..Capacity)
    <3> SUFFICES ASSUME NEW e \in Listed(free) PROVE e \in {Null} \X (1..Capacity)
      BY Zenon
    <3>1. PICK h \in Handle, i \in Nat : e = <<h, i>> /\ 1 <= i /\ i <= free[h]
      BY Zenon, <2>1, ListedEntry
    <3> QED
      BY <1>1, <3>1, NumbersAssumption
  <2> QED
    BY Zenon, <2>2, <2>3, FS_Subset
<1>2. IsFiniteSet(Listed(free_txns)) /\ IsFiniteSet(Listed(free_arenas))
  BY Zenon, <1>1 DEF Init
<1>3. Live = {} /\ Beginning = {} /\ PlainLocked = {}
  BY DEF Init, Live, Beginning, PlainLocked
<1> QED
  BY Zenon, <1>2, <1>3, FS_EmptySet DEF Countable

\* For any pool size and any number of threads and sessions, as long as
\* clients do not overlap calls on one transaction id: no eviction, failed
\* lock, failed commit or stream loses a handle of the pool; the error path of
\* a TxnBegin whose ukv_transaction_init fails is the only step that does.
THEOREM HandlesStay == SerialClients => (Spec => NoHandleLost)
<1> SUFFICES ASSUME SerialClients PROVE Spec => NoHandleLost
  BY Zenon
<1> DEFINE Inv == Ownership /\ Countable
           Loses == TxnsHeld' < TxnsHeld \/ ArenasHeld' < ArenasHeld
           Fails == \E c \in Calls : TxnInitFails(c)
<1>1. Init => Inv
  BY Zenon, OwnershipInit, CountableInit
<1>2. Inv /\ [Next]_vars => Inv'
  BY Zenon, OwnershipStep, HandlesStep
<1>3. Inv /\ [Next]_vars => [Loses => Fails]_vars
  <2> SUFFICES ASSUME Inv, [Next]_vars, Loses PROVE Fails
    BY Zenon
  <2>1. Countable' /\ (NoneLost \/ Fails)
    BY Zenon, HandlesStep
  <2>2. /\ TxnsHeld \in Nat /\ ArenasHeld \in Nat
    BY Counts DEF TxnsHeld, ArenasHeld
  <2>3. Countable' => TxnsHeld' \in Nat /\ ArenasHeld' \in Nat
    <3> SUFFICES ASSUME Countable' PROVE TxnsHeld' \in Nat /\ ArenasHeld' \in Nat
      OBVIOUS
    <3>1. /\ Cardinality(Listed(free_txns)') \in Nat
          /\ Cardinality(Listed(free_arenas)') \in Nat
          /\ Cardinality(Live') \in Nat
          /\ Cardinality(Beginning') \in Nat
          /\ Cardinality(PlainLocked') \in Nat
      BY Zenon, FS_CardinalityType DEF Countable
    <3> QED
      BY <3>1 DEF TxnsHeld, ArenasHeld
  <2>4. ~NoneLost
    BY <2>1, <2>2, <2>3 DEF NoneLost
  <2> QED
    BY Zenon, <2>1, <2>4
<1> QED
  BY <1>1, <1>2, <1>3, PTL DEF Spec, NoHandleLost
=============================================================================
