------------------------------- MODULE MCRpc -------------------------------
(***************************************************************************)
(* Two questions in one run: one call whose arguments and results cross    *)
(* the network (Wire), or transactions of several calls (Rpc).             *)
(***************************************************************************)
EXTENDS Wire, Rpc

VARIABLE side   \* "wire" or "rpc", chosen at the start


CallPayloads == {<<>>, <<7>>}

NoLayout == [tapes |-> <<>>, ptrs |-> <<>>, repeats |-> FALSE, offs |-> None, lens |-> None, pres |-> None,
             sep |-> 0]
Presences(n) == {None} \union {Some(p) : p \in [1..n -> BOOLEAN]}

Tape == <<5, 6, 7, 8>>
\* One tape: Arrow's offsets; offsets and lengths, touching or not.
ArrowLayouts == {[NoLayout EXCEPT !.tapes = <<Tape>>, !.ptrs = <<1, 1>>, !.repeats = TRUE, !.pres = p,
                     !.offs = Some(<<o, o + a, o + a + b>>)] :
                 o \in 0..1, a \in 0..1, b \in 0..2, p \in Presences(2)}
EmbeddedLayouts == {[NoLayout EXCEPT !.tapes = <<Tape>>, !.ptrs = <<1, 1>>, !.repeats = TRUE, !.pres = p,
                        !.offs = Some(<<o, q>>), !.lens = Some(<<a, b>>)] :
                    o \in 0..1, q \in 0..2, a \in 0..1, b \in 0..2, p \in Presences(2)}
\* Separate allocations, some of them NULL, with lengths or terminated.
PointerLayouts == {[NoLayout EXCEPT !.tapes = <<<<5, 6>>, <<7>>, <<8>>>>, !.ptrs = q, !.pres = p,
                       !.lens = Some(<<a, b, 1>>)] :
                   q \in {0, 1} \X {0, 2} \X {0, 3}, a \in 0..2, b \in 0..1, p \in Presences(3)}
Strings(tapes, sep) == {[NoLayout EXCEPT !.tapes = tapes, !.ptrs = q, !.sep = sep] : q \in (1..3) \X (1..3)}
StringLayouts == Strings(<<<<5, 6, 0>>, <<0>>, <<8, 0>>>>, 0)
Layouts == ArrowLayouts \union EmbeddedLayouts \union PointerLayouts \union StringLayouts

\* Paths that end at another separator, which comes before or behind their zero.
Slash == 47
PathLayouts == StringLayouts \union Strings(<<<<5, Slash, 6, 0>>, <<Slash, 0>>, <<8, 0, 9, Slash>>>>, Slash)

Plain == [NoLayout EXCEPT !.tapes = <<<<5>>, <<6>>>>, !.ptrs = <<1, 2>>, !.lens = Some(<<1, 1>>)]
Collections(n) == {None} \union {Some(c) : c \in [1..n -> 0..2]}
Outs == {o \in SUBSET {"presences", "lengths", "values"} : o # {}}
Options == SUBSET {"shared", "dont_watch", "flush"}
Batch == {<<>>, <<1>>, <<2, 1>>}
Many == [i \in 1..10 |-> i]

\* Every way to name the places; every layout of the contents; every output.
Places == {<<t, s, k, c, o>> \in (0..1) \X (0..1) \X Batch \X (UNION {Collections(n) : n \in 1..2}) \X Options :
              c = None \/ Len(c[1]) = Len(k)}
Reads == {[op |-> "read", txn |-> p[1], snap |-> p[2], keys |-> p[3], cols |-> p[4], options |-> p[5],
           outs |-> {"values", "presences"}] : p \in {q \in Places : q[3] # <<>> \/ q[5] = {}}}
         \union {[op |-> "read", txn |-> 0, snap |-> 0, keys |-> k, cols |-> None, options |-> {}, outs |-> o] :
                 k \in Batch \union {<<1, 2, 2>>}, o \in Outs}
PathReads == {[op |-> "paths_read", txn |-> 1, snap |-> 1, paths |-> l, cols |-> None, options |-> {}, outs |-> o] :
              l \in {Plain}, o \in Outs}
             \union {[op |-> "paths_read", txn |-> 0, snap |-> 0, paths |-> l, cols |-> Some(Const(Len(l.ptrs), 1)),
                      options |-> {}, outs |-> {"presences"}] : l \in {k \in Layouts \union PathLayouts : Len(k.ptrs) = 2 /\ k.pres = None}}
Writes == {[op |-> "write", txn |-> p[1], keys |-> p[3], cols |-> p[4], options |-> p[5], vals |-> None] :
           p \in {q \in Places : q[2] = 0 /\ q[3] # <<>>}}
          \union {[op |-> "write", txn |-> 0, keys |-> Const(Len(l.ptrs), 1), cols |-> None, options |-> {},
                   vals |-> Some(l)] : l \in Layouts}
PathWrites == {[op |-> "paths_write", txn |-> 0, paths |-> [l EXCEPT !.pres = None], cols |-> None, options |-> {},
                vals |-> None] : l \in PathLayouts}
              \union {[op |-> "paths_write", txn |-> 0, paths |-> Plain, cols |-> Some(<<1, 2>>), options |-> {"flush"},
                       vals |-> Some(l)] : l \in {k \in Layouts : Len(k.ptrs) = 2}}
Matches == {[op |-> "paths_match", txn |-> 0, paths |-> l, prevs |-> v, limits |-> m, cols |-> c, options |-> {},
             outs |-> o] : l \in PathLayouts, v \in {None, Some(Plain)}, m \in {None, Some(<<3, 1>>)},
             c \in {None, Some(<<0, 2>>)}, o \in {{"counts"}, {"counts", "paths"}}}
Scans == {[op |-> "scan", txn |-> p[1], snap |-> p[2], keys |-> p[3], cols |-> p[4], options |-> p[5],
           limits |-> Some([i \in DOMAIN p[3] |-> i])] : p \in {q \in Places : q[5] \subseteq {"shared"}}}
Samples == {[op |-> "sample", txn |-> p[1], snap |-> 0, cols |-> p[4], options |-> p[5],
             limits |-> Some([i \in DOMAIN p[3] |-> i])] : p \in {q \in Places : q[2] = 0 /\ q[5] \subseteq {"shared"}}}
Lists == {[op |-> "list", txn |-> t] : t \in 0..1}
Creates == {[op |-> "col_create", name |-> n] : n \in 0..2}
Drops == {[op |-> "col_drop", col |-> n, mode |-> m] :
          n \in 0..2, m \in {"drop_vals", "drop_keys_vals", "drop_keys_vals_handle"}}
Snapshots == {[op |-> "snap_create"]} \union {[op |-> "snap_drop", snap |-> n] : n \in 1..2}
Transactions == {[op |-> o, txn |-> n, options |-> p] : o \in {"txn_begin", "txn_commit"}, n \in 0..2, p \in Options}
ApiCalls == Creates \union Drops \union Snapshots \union Transactions \union
            Reads \union PathReads \union Writes \union PathWrites \union Matches \union Scans \union Samples \union Lists

mcVars == <<side, wireVars, rpcVars>>

Init ==
    /\ side \in {"wire", "rpc"}
    /\ RpcInit
    /\ IF side = "wire" THEN WireInit
       ELSE /\ call = [op |-> "snap_create"] /\ stage = "made"
            /\ request = NoRequest /\ args = NoArgs /\ found = <<>> /\ result = NoResult

\* Both keys are written, the first one is read.
ReadsFirst == \A r \in DOMAIN requests' : requests'[r].op = "read" => requests'[r].key = 1

Next ==
    /\ UNCHANGED side
    /\ \/ side = "wire" /\ WireNext /\ UNCHANGED rpcVars
       \/ side = "rpc" /\ RpcNext /\ ReadsFirst /\ UNCHANGED wireVars

Spec == Init /\ [][Next]_mcVars /\ RpcFairness

\* What crosses the network arrives, and the server keeps its tables in shape.
NetworkSound == CallsArrive /\ RpcTypeOK
=============================================================================
