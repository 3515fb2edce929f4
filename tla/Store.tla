------------------------------- MODULE Store --------------------------------
(***************************************************************************)
(* What a transactional engine promises behind the interface of            *)
(* include/ukv/blobs.h and include/ukv/db.h, without how it keeps it: the  *)
(* engines are shown to implement this specification.                      *)
(*   - a batch written outside transactions takes effect at once;          *)
(*   - a transaction takes effect at once, and only if every value it      *)
(*     read and watched is still the value of its place;                   *)
(*   - after a crash every place has the value that was persisted last.    *)
(***************************************************************************)
CONSTANTS
    Clients,     \* threads, each with a transaction of its own
    Places,      \* a collection and a key
    Values,      \* blobs
    Missing,     \* the value of a place without a blob
    Unchanged    \* a place that a batch does not write

VARIABLES
    contents,    \* the value of every place
    stable,      \* the value that a crash would leave
    open,        \* which clients are in a transaction
    reads,       \* the watched reads of each transaction: place and value
    changes      \* what each transaction is going to write

Content == Values \cup {Missing}
Batch == [Places -> Content \cup {Unchanged}]
Nothing == [p \in Places |-> Unchanged]
Over(batch, f) == [p \in Places |-> IF batch[p] = Unchanged THEN f[p] ELSE batch[p]]

data == <<contents, stable>>
mine == <<open, reads, changes>>
vars == <<contents, stable, open, reads, changes>>

Init ==
    /\ contents = [p \in Places |-> Missing]
    /\ stable = contents
    /\ open = [c \in Clients |-> FALSE]
    /\ reads = [c \in Clients |-> {}]
    /\ changes = [c \in Clients |-> Nothing]

\* Any values for the places of P, at once.
Write(P, flush) ==
    /\ contents' \in [Places -> Content]
    /\ \A p \in Places \ P : contents'[p] = contents[p]
    /\ stable' = IF flush
                 THEN [p \in Places |-> IF p \in P THEN contents'[p] ELSE stable[p]]
                 ELSE stable
    /\ UNCHANGED mine

\* Begins a transaction, or ends one without its changes.
Reset(c, begun) ==
    /\ open' = [open EXCEPT ![c] = begun]
    /\ reads' = [reads EXCEPT ![c] = {}]
    /\ changes' = [changes EXCEPT ![c] = Nothing]
    /\ UNCHANGED data

Read(c, p) ==
    /\ open[c]
    /\ reads' = [reads EXCEPT ![c] = @ \cup {<<p, contents[p]>>}]
    /\ UNCHANGED <<data, open, changes>>

Change(c) ==
    /\ open[c]
    /\ changes' \in [Clients -> Batch]
    /\ \A d \in Clients \ {c} : changes'[d] = changes[d]
    /\ UNCHANGED <<data, open, reads>>

Commit(c) ==
    /\ open[c]
    /\ \A r \in reads[c] : contents[r[1]] = r[2]
    /\ contents' = Over(changes[c], contents)
    /\ reads' = [reads EXCEPT ![c] = {}]
    /\ changes' = [changes EXCEPT ![c] = Nothing]
    /\ UNCHANGED <<stable, open>>

Persist(P) ==
    /\ stable' = [p \in Places |-> IF p \in P THEN contents[p] ELSE stable[p]]
    /\ UNCHANGED <<contents, mine>>

Crash ==
    /\ contents' = stable
    /\ open' = [c \in Clients |-> FALSE]
    /\ reads' = [c \in Clients |-> {}]
    /\ changes' = [c \in Clients |-> Nothing]
    /\ UNCHANGED stable

Next ==
    \/ \E P \in SUBSET Places, flush \in BOOLEAN : Write(P, flush)
    \/ \E c \in Clients, begun \in BOOLEAN : Reset(c, begun)
    \/ \E c \in Clients, p \in Places : Read(c, p)
    \/ \E c \in Clients : Change(c) \/ Commit(c)
    \/ \E P \in SUBSET Places : Persist(P)
    \/ Crash

Spec == Init /\ [][Next]_vars
=============================================================================
