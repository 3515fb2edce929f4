--------------------------- MODULE UMemDiskProofs ---------------------------
(***************************************************************************)
(* Collections of the in-memory engine have handles of their own, saves    *)
(* that were acknowledged are on disk between two files, and closing the   *)
(* database keeps its pairs, for any number of threads, collections, keys, *)
(* crashes and commits: DiskInv of module UMemDisk is inductive.           *)
(***************************************************************************)
EXTENDS UMemDisk, TLAPS

-----------------------------------------------------------------------------
(* Files, handles and pairs.                                                *)

LEMMA FileNames ==
    /\ Files \subseteq Nat /\ Names \subseteq Files /\ Main \in Files /\ Main \in Handles
    /\ Main \notin Names /\ \A n \in Files : Main <= n /\ (n <= Main => n = Main)
BY DiskAssumption DEF Files, Main

LEMMA FileStates ==
    /\ Torn.state = "torn" /\ NoFile.state = "absent"
    /\ \A r : Whole(r).state = "whole" /\ Whole(r).rows = r
    /\ "torn" # "absent" /\ "torn" # "whole" /\ "whole" # "absent"
BY DEF Torn, NoFile, Whole

LEMMA FilesTyped ==
    /\ Torn \in File /\ NoFile \in File
    /\ NoRows \in Rows /\ \A r \in Rows : Whole(r) \in File
BY DEF Torn, NoFile, NoRows, Rows, Whole, File

LEMMA ExistingFiles ==
    ASSUME CollectionsSound, NEW n \in Existing
    PROVE  n \in Files /\ HandleOf(n) \in Handles
BY Zenon, FileNames DEF CollectionsSound, TypeOK, Existing, HandleOf, Files

\* Collections are told apart by their handles.
LEMMA HandlesApart ==
    ASSUME CollectionsSound, NEW m \in Existing, NEW n \in Existing, HandleOf(m) = HandleOf(n)
    PROVE  m = n
<1>1. CASE m = Main /\ n = Main
  BY Zenon, <1>1
<1>2. CASE m = Main /\ n # Main
  BY Zenon, <1>2 DEF CollectionsSound, HandlesDistinct, Existing, HandleOf
<1>3. CASE m # Main /\ n = Main
  BY Zenon, <1>3 DEF CollectionsSound, HandlesDistinct, Existing, HandleOf
<1>4. CASE m # Main /\ n # Main
  BY Zenon, <1>4 DEF CollectionsSound, HandlesDistinct, Existing, HandleOf
<1> QED
  BY Zenon, <1>1, <1>2, <1>3, <1>4

Pairs == [Handles \X Keys -> Stored]

Written(old, h, k, v) == [old EXCEPT ![<<h, k>>] = v]

LEMMA PairWritten ==
    ASSUME NEW old \in Pairs, NEW h \in Handles, NEW k \in Keys, NEW v \in Stored
    PROVE  /\ Written(old, h, k, v) \in Pairs
           /\ Written(old, h, k, v)[<<h, k>>] = v
<1>1. <<h, k>> \in Handles \X Keys
  BY Zenon
<1> QED
  BY Zenon, <1>1 DEF Pairs, Written

LEMMA PairLeft ==
    ASSUME NEW old \in Pairs, NEW h \in Handles, NEW k \in Keys, NEW v \in Stored,
           NEW g \in Handles, NEW j \in Keys, g # h \/ j # k
    PROVE  Written(old, h, k, v)[<<g, j>>] = old[<<g, j>>]
<1>1. <<g, j>> # <<h, k>> /\ <<g, j>> \in Handles \X Keys
  OBVIOUS
<1> QED
  BY Zenon, <1>1 DEF Pairs, Written

\* The rows of a file are what the pairs are saved as.
LEMMA RowsTyped ==
    ASSUME CollectionsSound, NEW n \in Existing
    PROVE  /\ RowsOf(n) \in Rows
           /\ \A k \in Keys : RowsOf(n)[k] = Saved(pairs[<<HandleOf(n), k>>])
<1>1. ASSUME NEW k \in Keys PROVE Saved(pairs[<<HandleOf(n), k>>]) \in Values \cup {Missing, NullRange}
  <2>1. pairs[<<HandleOf(n), k>>] \in Stored
    <3>1. <<HandleOf(n), k>> \in Handles \X Keys
      BY Zenon, ExistingFiles
    <3> QED
      BY Zenon, <3>1 DEF CollectionsSound, TypeOK
  <2> QED
    BY Zenon, <2>1 DEF Saved, Stored
<1> QED
  BY Zenon, <1>1 DEF RowsOf, Rows

\* A pair that a transaction wrote is saved as it is, and loaded as it is.
LEMMA ValuesKept ==
    ASSUME NEW v \in Values \cup {Missing}
    PROVE  Saved(v) = v /\ Loaded(v) = v /\ Shown(v) = v
BY Zenon, DiskAssumption DEF Saved, Loaded, Shown

\* Any other pair comes back as it was, unless it is a null range.
LEMMA PairsKept ==
    ASSUME NEW v \in Stored, v # NullRange
    PROVE  Shown(Loaded(Saved(v))) = v
BY Zenon, DiskAssumption DEF Saved, Loaded, Shown, Stored

-----------------------------------------------------------------------------
(* Promises.                                                                *)

LEMMA NonePromised ==
    /\ NoPromise \in Promises
    /\ \A n \in Files, k \in Keys : NoPromise[<<n, k>>] = Nothing
BY Zenon DEF NoPromise, Promises, Places

LEMMA OverwrittenTyped ==
    ASSUME NEW promise \in Promises, NEW cells
    PROVE  Overwritten(cells, promise) \in Promises
BY Zenon DEF Overwritten, Promises

LEMMA OverwrittenPair ==
    ASSUME NEW promise \in Promises, NEW cells, NEW n \in Files, NEW k \in Keys,
           Overwritten(cells, promise)[<<n, k>>] # Nothing
    PROVE  /\ <<n, k>> \notin cells
           /\ Overwritten(cells, promise)[<<n, k>>] = promise[<<n, k>>]
BY Zenon DEF Overwritten, Promises, Places

LEMMA ForgetTyped ==
    ASSUME TypeOK, NEW cells, Forget(cells)
    PROVE  pending' \in [Threads -> Promises] /\ promised' \in Promises
<1>1. promised \in Promises /\ pending \in [Threads -> Promises]
  BY Zenon DEF TypeOK
<1> QED
  BY Zenon, <1>1, OverwrittenTyped DEF Forget

LEMMA PromisedLeft ==
    ASSUME TypeOK, NEW cells, promised' = Overwritten(cells, promised),
           NEW n \in Files, NEW k \in Keys, promised'[<<n, k>>] # Nothing
    PROVE  <<n, k>> \notin cells /\ promised'[<<n, k>>] = promised[<<n, k>>]
<1>1. promised \in Promises /\ Overwritten(cells, promised)[<<n, k>>] # Nothing
  BY Zenon DEF TypeOK
<1>2. <<n, k>> \notin cells /\ Overwritten(cells, promised)[<<n, k>>] = promised[<<n, k>>]
  BY SMT, <1>1, OverwrittenPair
<1> QED
  BY Zenon, <1>2

LEMMA PendingLeft ==
    ASSUME TypeOK, NEW cells, NEW t \in Threads, pending'[t] = Overwritten(cells, pending[t]),
           NEW n \in Files, NEW k \in Keys, pending'[t][<<n, k>>] # Nothing
    PROVE  <<n, k>> \notin cells /\ pending'[t][<<n, k>>] = pending[t][<<n, k>>]
<1>1. pending[t] \in Promises /\ Overwritten(cells, pending[t])[<<n, k>>] # Nothing
  BY Zenon DEF TypeOK
<1>2. <<n, k>> \notin cells /\ Overwritten(cells, pending[t])[<<n, k>>] = pending[t][<<n, k>>]
  BY SMT, <1>1, OverwrittenPair
<1> QED
  BY Zenon, <1>2

-----------------------------------------------------------------------------
(* Writes to memory.                                                        *)

\* What a step leaves in memory of the collections.
Remains(n, k) ==
    n \in Existing' /\ HandleOf(n)' = HandleOf(n) /\ pairs'[<<HandleOf(n), k>>] = pairs[<<HandleOf(n), k>>]

\* Steps that write pairs, and forget the promises about them.
LEMMA MemoryStep ==
    ASSUME DiskInv, CollectionsSound', UNCHANGED <<up, files, saver>>, NEW cells, Forget(cells),
           \A t \in Threads : saving[t] # "close",
           \A t \in Threads : Saves(t)',
           \A n \in Existing, k \in Keys : <<n, k>> \notin cells => Remains(n, k)
    PROVE  DiskInv'
<1>1. TypeOK
  BY Zenon DEF DiskInv, CollectionsSound
<1>2. /\ up' = up /\ files' = files /\ saving' = saving /\ file' = file /\ writing' = writing
      /\ rows' = rows /\ shared' = shared
  BY Zenon DEF saver, buffers
<1>3. ASSUME NEW n \in Files, NEW k \in Keys, promised'[<<n, k>>] # Nothing
      PROVE  /\ promised'[<<n, k>>] \in Values \cup {Missing}
             /\ up' = "up" => Keeps(n, k, promised[<<n, k>>])'
             /\ Stores(n, k, promised[<<n, k>>])'
  <2>1. <<n, k>> \notin cells /\ promised'[<<n, k>>] = promised[<<n, k>>] /\ promised[<<n, k>>] # Nothing
    BY Zenon, <1>1, <1>3, PromisedLeft DEF Forget
  <2>2. /\ promised[<<n, k>>] \in Values \cup {Missing}
        /\ up = "up" => Keeps(n, k, promised[<<n, k>>])
        /\ Stores(n, k, promised[<<n, k>>])
    BY Zenon, <2>1 DEF DiskInv, PromisedKept
  <2> QED
    BY Zenon, <1>2, <2>1, <2>2 DEF Keeps, Stores, Remains
<1>4. ASSUME NEW t \in Threads, NEW n \in Files, NEW k \in Keys, pending'[t][<<n, k>>] # Nothing
      PROVE  /\ saving'[t] = "commit"
             /\ pending'[t][<<n, k>>] \in Values \cup {Missing}
             /\ Keeps(n, k, pending[t][<<n, k>>])'
             /\ Past(t, n)' => Stores(n, k, pending[t][<<n, k>>])'
  <2>1. <<n, k>> \notin cells /\ pending'[t][<<n, k>>] = pending[t][<<n, k>>] /\ pending[t][<<n, k>>] # Nothing
    <3>1. pending'[t] = Overwritten(cells, pending[t])
      BY Zenon DEF Forget
    <3> QED
      BY Zenon, <1>1, <1>4, <3>1, PendingLeft
  <2>2. /\ saving[t] = "commit"
        /\ pending[t][<<n, k>>] \in Values \cup {Missing}
        /\ Keeps(n, k, pending[t][<<n, k>>])
        /\ Past(t, n) => Stores(n, k, pending[t][<<n, k>>])
    BY Zenon, <2>1 DEF DiskInv, PendingKept
  <2>3. Past(t, n)' => Past(t, n)
    BY Zenon, <1>2 DEF Past
  <2> QED
    BY Zenon, <1>2, <2>1, <2>2, <2>3 DEF Keeps, Stores, Remains
<1>5. \A t \in Threads : ClosingDone(t)' /\ SharedKnown(t)'
  BY Zenon, <1>2 DEF DiskInv, ClosingDone, SharedKnown, HasOpen
<1>6. PromisedKept' /\ \A t \in Threads : PendingKept(t)'
  BY Zenon, <1>3, <1>4 DEF PromisedKept, PendingKept
<1> QED
  BY Zenon, <1>5, <1>6 DEF DiskInv

\* Names and savers that do not change leave the savers as they are.
LEMMA SavesKept ==
    ASSUME \A t \in Threads : Saves(t), UNCHANGED <<up, names, saver, freed>>
    PROVE  \A t \in Threads : Saves(t)'
BY Zenon DEF Saves, saver, Existing

LEMMA HeadWriteKeeps ==
    ASSUME DiskInv, NEW n \in Files, NEW k \in Keys, NEW v \in HeadValues, HeadWrite(n, k, v)
    PROVE  DiskInv'
<1>1. CollectionsSound /\ TypeOK /\ n \in Existing
  BY Zenon DEF DiskInv, CollectionsSound, HeadWrite
<1>2. /\ UNCHANGED <<up, names, files, saver, freed, bounds>>
      /\ Forget({<<n, k>>}) /\ pairs' = [pairs EXCEPT ![<<HandleOf(n), k>>] = v]
      /\ \A t \in Threads : saving[t] # "close"
  BY Zenon DEF HeadWrite, Running
<1>3. v \in Stored /\ pairs \in Pairs /\ HandleOf(n) \in Handles
  BY Zenon, <1>1, DiskAssumption, ExistingFiles DEF Stored, Pairs, TypeOK
<1>4. pairs' = Written(pairs, HandleOf(n), k, v) /\ pairs' \in Pairs
  <2>1. pairs' = Written(pairs, HandleOf(n), k, v)
    BY Zenon, <1>2 DEF Written
  <2> QED
    BY Zenon, <1>3, <2>1, PairWritten
<1>5. TypeOK'
  BY Zenon, <1>1, <1>2, <1>4, ForgetTyped DEF TypeOK, Pairs, saver, buffers, bounds
<1>6. CollectionsSound'
  BY Zenon, <1>1, <1>2, <1>5 DEF CollectionsSound, HandlesDistinct
<1>7. \A t \in Threads : Saves(t)'
  BY Zenon, <1>2, SavesKept DEF DiskInv
<1>8. ASSUME NEW m \in Existing, NEW j \in Keys, <<m, j>> \notin {<<n, k>>} PROVE Remains(m, j)
  <2>1. m # n \/ j # k
    BY Zenon, <1>8
  <2>2. HandleOf(m) # HandleOf(n) \/ j # k
    BY Zenon, <1>1, <2>1, HandlesApart
  <2>3. m \in Existing' /\ HandleOf(m)' = HandleOf(m)
    BY Zenon, <1>2 DEF Existing, HandleOf
  <2>4. pairs'[<<HandleOf(m), j>>] = pairs[<<HandleOf(m), j>>]
    <3>1. HandleOf(m) \in Handles
      BY Zenon, <1>1, ExistingFiles
    <3> QED
      BY SMT, <1>3, <1>4, <2>2, <3>1, PairLeft
  <2> QED
    BY Zenon, <2>3, <2>4 DEF Remains
<1> QED
  BY Zenon, <1>2, <1>6, <1>7, <1>8, MemoryStep

\* A transaction writes its key in the default collection and in another.
LEMMA Applied ==
    ASSUME CollectionsSound, NEW n \in DOMAIN names, NEW k \in Keys,
           NEW v \in Values \cup {Missing}, Apply(n, k, v), UNCHANGED names
    PROVE  /\ pairs' \in Pairs
           /\ pairs'[<<Main, k>>] = v /\ pairs'[<<HandleOf(n), k>>] = v
           /\ \A m \in Existing, j \in Keys : <<m, j>> \notin Changes(n, k) => Remains(m, j)
<1>1. n \in Existing /\ Main \in Existing /\ HandleOf(Main) = Main
  BY Zenon DEF Existing, HandleOf
<1>2. v \in Stored /\ pairs \in Pairs /\ HandleOf(n) \in Handles /\ Main \in Handles
  BY Zenon, <1>1, ExistingFiles DEF CollectionsSound, TypeOK, Stored, Pairs
<1> DEFINE first == Written(pairs, Main, k, v)
<1>3. first \in Pairs /\ first[<<Main, k>>] = v
  BY Zenon, <1>2, PairWritten
<1>4. pairs' = Written(first, HandleOf(n), k, v)
  BY Zenon DEF Apply, Written
<1>5. ASSUME NEW g \in Handles, NEW j \in Keys, g # Main \/ j # k
      PROVE  first[<<g, j>>] = pairs[<<g, j>>]
  BY SMT, <1>2, <1>5, PairLeft
<1> HIDE DEF first
<1>6. pairs' \in Pairs /\ pairs'[<<HandleOf(n), k>>] = v
  BY Zenon, <1>2, <1>3, <1>4, PairWritten
<1>7. ASSUME NEW g \in Handles, NEW j \in Keys, g # HandleOf(n) \/ j # k
      PROVE  pairs'[<<g, j>>] = first[<<g, j>>]
  BY SMT, <1>2, <1>3, <1>4, <1>7, PairLeft
<1>8. pairs'[<<Main, k>>] = v
  <2>1. CASE HandleOf(n) = Main
    BY Zenon, <1>6, <2>1
  <2>2. CASE HandleOf(n) # Main
    BY Zenon, <1>2, <1>3, <1>7, <2>2
  <2> QED
    BY Zenon, <2>1, <2>2
<1>9. ASSUME NEW m \in Existing, NEW j \in Keys, <<m, j>> \notin Changes(n, k) PROVE Remains(m, j)
  <2>1. (m # n \/ j # k) /\ (m # Main \/ j # k)
    BY Zenon, <1>9 DEF Changes
  <2>2. /\ HandleOf(m) # HandleOf(n) \/ j # k
        /\ HandleOf(m) # Main \/ j # k
    BY Zenon, <1>1, <2>1, HandlesApart
  <2>3. m \in Existing' /\ HandleOf(m)' = HandleOf(m)
    BY Zenon DEF Existing, HandleOf
  <2>4. pairs'[<<HandleOf(m), j>>] = pairs[<<HandleOf(m), j>>]
    <3>1. HandleOf(m) \in Handles
      BY Zenon, ExistingFiles
    <3> QED
      BY Zenon, <1>5, <1>7, <2>2, <3>1
  <2> QED
    BY Zenon, <2>3, <2>4 DEF Remains
<1> QED
  BY Zenon, <1>6, <1>8, <1>9

LEMMA CommitKeeps ==
    ASSUME DiskInv, NEW n \in Files, NEW k \in Keys, NEW v \in Values \cup {Missing},
           Commit(n, k, v)
    PROVE  DiskInv'
<1>1. CollectionsSound /\ TypeOK
  BY Zenon DEF DiskInv, CollectionsSound
<1>2. /\ UNCHANGED <<up, names, files, saver, freed, bounds>>
      /\ Forget(Changes(n, k)) /\ Apply(n, k, v) /\ n \in DOMAIN names
      /\ \A t \in Threads : saving[t] # "close"
  BY Zenon DEF Commit, Running
<1>3. /\ pairs' \in Pairs
      /\ \A m \in Existing, j \in Keys : <<m, j>> \notin Changes(n, k) => Remains(m, j)
  BY Zenon, <1>1, <1>2, Applied
<1>4. TypeOK'
  BY Zenon, <1>1, <1>2, <1>3, ForgetTyped DEF TypeOK, Pairs, saver, buffers, bounds
<1>5. CollectionsSound'
  BY Zenon, <1>1, <1>2, <1>4 DEF CollectionsSound, HandlesDistinct
<1>6. \A t \in Threads : Saves(t)'
  BY Zenon, <1>2, SavesKept DEF DiskInv
<1> QED
  BY Zenon, <1>2, <1>3, <1>5, <1>6, MemoryStep

\* Nothing is forgotten.
LEMMA ForgetNone ==
    ASSUME TypeOK, UNCHANGED <<pending, promised>>
    PROVE  Forget({})
<1>1. \A promise \in Promises : Overwritten({}, promise) = promise
  BY Zenon DEF Overwritten, Promises
<1>2. promised \in Promises /\ pending \in [Threads -> Promises]
  BY Zenon DEF TypeOK
<1>3. promised' = Overwritten({}, promised)
  BY Zenon, <1>1, <1>2
<1>4. \A t \in Threads : Overwritten({}, pending[t]) = pending[t]
  BY Zenon, <1>1, <1>2
<1>5. pending' = [t \in Threads |-> Overwritten({}, pending[t])]
  BY Zenon, <1>2, <1>4
<1> QED
  BY Zenon, <1>3, <1>5 DEF Forget

LEMMA CreateKeeps ==
    ASSUME DiskInv, NEW t \in Threads, NEW n \in Names, NEW h \in Handles, Create(t, n, h)
    PROVE  DiskInv'
<1>1. CollectionsSound /\ TypeOK
  BY Zenon DEF DiskInv, CollectionsSound
<1>2. /\ UNCHANGED <<up, pairs, files, saver, freed, pending, promised, bounds>>
      /\ names' = [m \in DOMAIN names \cup {n} |-> IF m = n THEN h ELSE names[m]]
      /\ n \notin DOMAIN names /\ h # Main /\ \A m \in DOMAIN names : names[m] # h
      /\ \A u \in Threads : saving[u] # "close"
  BY Zenon DEF Create, Idle, Running, Fresh
<1>3. /\ DOMAIN names' = DOMAIN names \cup {n} /\ names'[n] = h
      /\ \A m \in DOMAIN names : names'[m] = names[m]
  BY Zenon, <1>2
<1>4. DOMAIN names' \subseteq Names /\ \A m \in DOMAIN names' : names'[m] \in Handles
  BY Zenon, <1>1, <1>3 DEF TypeOK
<1>5. TypeOK'
  BY Zenon, <1>1, <1>2, <1>4 DEF TypeOK, saver, buffers, bounds
<1>6. HandlesDistinct'
  <2> SUFFICES ASSUME NEW m \in DOMAIN names', NEW o \in DOMAIN names'
               PROVE  names'[m] # Main /\ (names'[m] = names'[o] => m = o)
    BY Zenon DEF HandlesDistinct
  <2>1. CASE m = n /\ o = n
    BY Zenon, <1>2, <1>3, <2>1
  <2>2. CASE m = n /\ o # n
    BY Zenon, <1>2, <1>3, <2>2
  <2>3. CASE m # n /\ o = n
    BY Zenon, <1>1, <1>2, <1>3, <2>3 DEF CollectionsSound, HandlesDistinct
  <2>4. CASE m # n /\ o # n
    BY Zenon, <1>1, <1>3, <2>4 DEF CollectionsSound, HandlesDistinct
  <2> QED
    BY Zenon, <2>1, <2>2, <2>3, <2>4
<1>7. Existing \subseteq Existing'
  BY Zenon, <1>3 DEF Existing
<1>8. \A u \in Threads : Saves(u)'
  BY Zenon, <1>2, <1>7 DEF DiskInv, Saves, saver
<1>9. ASSUME NEW m \in Existing, NEW j \in Keys PROVE Remains(m, j)
  <2>1. HandleOf(m)' = HandleOf(m)
    BY Zenon, <1>3 DEF HandleOf, Existing
  <2> QED
    BY Zenon, <1>2, <1>7, <2>1 DEF Remains
<1>10. Forget({})
  BY Zenon, <1>1, <1>2, ForgetNone
<1> QED
  BY Zenon, <1>2, <1>5, <1>6, <1>8, <1>9, <1>10, MemoryStep DEF CollectionsSound

LEMMA DropKeeps ==
    ASSUME DiskInv, NEW t \in Threads, NEW n \in Files, NEW mode \in DropModes, Drop(t, n, mode)
    PROVE  DiskInv'
<1>1. CollectionsSound /\ TypeOK
  BY Zenon DEF DiskInv, CollectionsSound
<1>2. /\ n \in Existing /\ UNCHANGED <<up, files, saver, bounds>> /\ Forget({n} \X Keys)
      /\ ~freed /\ \A u \in Threads : saving[u] # "close"
      /\ mode = "keys_vals_handle" => n # Main
  BY Zenon DEF Drop, Idle, Running
<1>3. ASSUME NEW c \in Handles \X Keys
      PROVE  /\ pairs'[c] \in Stored
             /\ c[1] # HandleOf(n) => pairs'[c] = pairs[c]
  <2>1. pairs[c] \in Stored /\ Missing \in Stored /\ Empty \in Stored
    BY Zenon, <1>1 DEF TypeOK, Stored
  <2>2. pairs'[c] = CASE c[1] # HandleOf(n) -> pairs[c]
                      [] c[1] = HandleOf(n) /\ mode = "vals" ->
                            IF pairs[c] = Missing THEN Missing ELSE Empty
                      [] OTHER -> Missing
    BY Zenon DEF Drop
  <2> QED
    BY SMT, <2>1, <2>2
<1>4. pairs' \in Pairs
  <2>1. pairs' = [c \in Handles \X Keys |-> pairs'[c]]
    BY Zenon DEF Drop
  <2> QED
    BY Zenon, <1>3, <2>1 DEF Pairs
<1>5. \/ /\ mode = "keys_vals_handle"
         /\ names' = [m \in DOMAIN names \ {n} |-> names[m]]
         /\ freed' = \E u \in Threads : saving[u] = "commit" /\ file[u] = n
      \/ mode # "keys_vals_handle" /\ names' = names /\ freed' = freed
  BY Zenon DEF Drop
<1>6. /\ DOMAIN names' \subseteq DOMAIN names
      /\ \A m \in DOMAIN names' : names'[m] = names[m]
      /\ \A m \in DOMAIN names : m # n => m \in DOMAIN names'
      /\ freed' \in BOOLEAN
  BY Zenon, <1>1, <1>5 DEF TypeOK
<1>7. TypeOK'
  BY Zenon, <1>1, <1>2, <1>4, <1>6, ForgetTyped DEF TypeOK, Pairs, saver, buffers, bounds
<1>8. HandlesDistinct'
  BY Zenon, <1>1, <1>6 DEF CollectionsSound, HandlesDistinct
<1>9. ASSUME NEW u \in Threads PROVE Saves(u)'
  <2>1. Saves(u)
    BY Zenon DEF DiskInv
  <2>2. ASSUME saving[u] # "no", ~freed' PROVE file[u] \in Existing'
    <3>1. saving[u] = "commit" /\ file[u] \in Existing
      BY Zenon, <1>1, <1>2, <2>1, <2>2 DEF Saves, TypeOK
    <3>2. file[u] # n \/ names' = names
      BY Zenon, <1>5, <2>2, <3>1
    <3> QED
      BY Zenon, <1>6, <3>1, <3>2 DEF Existing
  <2> QED
    BY Zenon, <1>2, <2>1, <2>2 DEF Saves, saver
<1>10. ASSUME NEW m \in Existing, NEW j \in Keys, <<m, j>> \notin {n} \X Keys PROVE Remains(m, j)
  <2>1. m # n
    BY Zenon, <1>10
  <2>2. m \in Existing' /\ HandleOf(m)' = HandleOf(m)
    BY Zenon, <1>6, <2>1 DEF Existing, HandleOf
  <2>3. <<HandleOf(m), j>> \in Handles \X Keys
    BY Zenon, <1>1, ExistingFiles
  <2>4. <<HandleOf(m), j>>[1] # HandleOf(n)
    <3>1. HandleOf(m) # HandleOf(n)
      BY Zenon, <1>1, <1>2, <2>1, HandlesApart
    <3> QED
      BY <3>1
  <2> QED
    BY Zenon, <1>3, <2>2, <2>3, <2>4 DEF Remains
<1> QED
  BY Zenon, <1>2, <1>7, <1>8, <1>9, <1>10, MemoryStep DEF CollectionsSound

-----------------------------------------------------------------------------
(* Writes to files.                                                         *)

\* A file that is opened.
LEMMA OpenFileTyped ==
    ASSUME TypeOK, NEW t \in Threads, NEW f \in Files, OpenFile(t, f)
    PROVE  /\ files' \in [Files -> File] /\ file' \in [Threads -> Files] /\ rows' = rows
           /\ writing' \in [Threads -> {"no", "open", "rows"}] /\ shared' \in [Threads -> BOOLEAN]
           /\ files'[f] = Torn /\ \A n \in Files : n # f => files'[n] = files[n]
           /\ file'[t] = f /\ writing'[t] = "open"
           /\ \A u \in Threads \ {t} :
                 /\ file'[u] = file[u] /\ writing'[u] = writing[u]
                 /\ shared'[u] <=> shared[u] \/ HasOpen(u, f)
           /\ ~shared'[t] => \A u \in Threads \ {t} : ~HasOpen(u, f)
<1>1. /\ files' = [files EXCEPT ![f] = Torn] /\ file' = [file EXCEPT ![t] = f]
      /\ writing' = [writing EXCEPT ![t] = "open"] /\ rows' = rows
      /\ shared' = [u \in Threads |->
            IF u = t THEN \E o \in Threads \ {t} : HasOpen(o, f) ELSE shared[u] \/ HasOpen(u, f)]
  BY Zenon DEF OpenFile
<1>2. /\ files \in [Files -> File] /\ file \in [Threads -> Files] /\ shared \in [Threads -> BOOLEAN]
      /\ writing \in [Threads -> {"no", "open", "rows"}]
  BY Zenon DEF TypeOK
<1>3. /\ files' \in [Files -> File] /\ files'[f] = Torn /\ \A n \in Files : n # f => files'[n] = files[n]
  BY Zenon, <1>1, <1>2, FilesTyped
<1>4. /\ file' \in [Threads -> Files] /\ writing' \in [Threads -> {"no", "open", "rows"}]
      /\ file'[t] = f /\ writing'[t] = "open"
      /\ \A u \in Threads \ {t} : file'[u] = file[u] /\ writing'[u] = writing[u]
  BY Zenon, <1>1, <1>2
<1>5. ASSUME NEW u \in Threads PROVE shared'[u] \in BOOLEAN
  BY Zenon, <1>1, <1>2 DEF HasOpen
<1>6. shared' \in [Threads -> BOOLEAN]
  BY Zenon, <1>1, <1>5
<1>7. \A u \in Threads \ {t} : shared'[u] <=> shared[u] \/ HasOpen(u, f)
  BY Zenon, <1>1
<1>8. ~shared'[t] => \A u \in Threads \ {t} : ~HasOpen(u, f)
  BY Zenon, <1>1
<1> QED
  BY Zenon, <1>1, <1>3, <1>4, <1>6, <1>7, <1>8

LEMMA OpenFileShares ==
    ASSUME TypeOK, \A u \in Threads : SharedKnown(u), NEW t \in Threads, NEW f \in Files, OpenFile(t, f)
    PROVE  \A u \in Threads : SharedKnown(u)'
<1>1. /\ file'[t] = f /\ writing'[t] = "open"
      /\ \A u \in Threads \ {t} :
            /\ file'[u] = file[u] /\ writing'[u] = writing[u]
            /\ shared'[u] <=> shared[u] \/ HasOpen(u, f)
      /\ ~shared'[t] => \A u \in Threads \ {t} : ~HasOpen(u, f)
  BY Zenon, OpenFileTyped
<1>2. SharedKnown(t)'
  <2>1. writing'[t] # "no"
    BY Zenon, <1>1
  <2>2. ASSUME ~shared'[t], NEW u \in Threads \ {t} PROVE ~HasOpen(u, file[t])'
    BY Zenon, <1>1, <2>2 DEF HasOpen
  <2> QED
    BY Zenon, <2>1, <2>2 DEF SharedKnown
<1>3. ASSUME NEW u \in Threads \ {t} PROVE SharedKnown(u)'
  <2>1. SharedKnown(u) /\ file'[u] = file[u] /\ writing'[u] = writing[u]
    BY Zenon, <1>1
  <2>2. ASSUME writing'[u] # "no", ~shared'[u], NEW w \in Threads \ {u} PROVE ~HasOpen(w, file[u])'
    <3>1. ~shared[u] /\ ~HasOpen(u, f)
      BY Zenon, <1>1, <2>2
    <3>2. file[u] # f
      BY Zenon, <2>1, <2>2, <3>1 DEF HasOpen
    <3>3. CASE w = t
      BY Zenon, <1>1, <2>1, <3>2, <3>3 DEF HasOpen
    <3>4. CASE w # t
      <4>1. file'[w] = file[w] /\ writing'[w] = writing[w]
        BY Zenon, <1>1, <3>4
      <4>2. ~HasOpen(w, file[u])
        BY Zenon, <2>1, <2>2, <3>1 DEF SharedKnown
      <4> QED
        BY Zenon, <2>1, <4>1, <4>2 DEF HasOpen
    <3> QED
      BY Zenon, <3>3, <3>4
  <2>3. ASSUME writing'[u] = "no" PROVE ~shared'[u]
    BY Zenon, <1>1, <2>1, <2>3 DEF SharedKnown, HasOpen
  <2> QED
    BY Zenon, <2>2, <2>3 DEF SharedKnown
<1> QED
  BY Zenon, <1>2, <1>3

\* What its writers have is not affected; of one that nobody else has open
\* nothing is known.
LEMMA OpenFileStores ==
    ASSUME TypeOK, NEW t \in Threads, NEW f \in Files, OpenFile(t, f),
           NEW n \in Files, NEW k \in Keys, NEW v, Stores(n, k, v) \/ (n = f /\ ~shared'[t])
    PROVE  Stores(n, k, v)'
<1>1. /\ files'[f] = Torn /\ rows' = rows /\ writing'[t] = "open"
      /\ \A u \in Threads \ {t} : file'[u] = file[u] /\ writing'[u] = writing[u]
  BY Zenon, OpenFileTyped
<1>4. n # f => files'[n] = files[n]
  BY Zenon DEF OpenFile, TypeOK
<1>5. ~shared'[t] => \A u \in Threads \ {t} : ~HasOpen(u, f)
  BY Zenon DEF OpenFile
<1>2. files'[n].state # "absent" /\ (files'[n].state = "whole" => files'[n].rows[k] = v)
  BY Zenon, <1>1, <1>4, FileStates DEF Stores
<1>3. ASSUME NEW u \in Threads, writing'[u] = "rows", file'[u] = n PROVE rows'[u][k] = v
  <2>1. u # t
    BY Zenon, <1>1, <1>3
  <2>2. file[u] = n /\ writing[u] = "rows"
    BY Zenon, <1>1, <1>3, <2>1
  <2>3. HasOpen(u, n)
    BY Zenon, <2>2 DEF HasOpen
  <2>4. Stores(n, k, v)
    BY Zenon, <1>5, <2>1, <2>3
  <2> QED
    BY Zenon, <1>1, <2>2, <2>4 DEF Stores
<1> QED
  BY Zenon, <1>2, <1>3 DEF Stores

\* What a step of a saver may do to pairs that are in memory.
StoresKept ==
    \A n \in Files, k \in Keys, v \in Values \cup {Missing} :
       Keeps(n, k, v) /\ Stores(n, k, v) => Stores(n, k, v)'

PendingFollows ==
    \A t \in Threads, n \in Files, k \in Keys : pending'[t][<<n, k>>] # Nothing =>
       /\ pending'[t][<<n, k>>] = pending[t][<<n, k>>]
       /\ n \in Existing /\ Past(t, n)' => Past(t, n) \/ Stores(n, k, pending[t][<<n, k>>])'

\* Steps of savers.
LEMMA FileStep ==
    ASSUME DiskInv, CollectionsSound', UNCHANGED <<up, memory, promised>>, up = "up",
           \A t \in Threads : Saves(t)',
           \A t \in Threads : SharedKnown(t)',
           \A t \in Threads : ClosingDone(t)',
           \A t \in Threads : saving[t] = "commit" => saving'[t] = "commit",
           StoresKept, PendingFollows
    PROVE  DiskInv'
<1>1. up' = up /\ names' = names /\ pairs' = pairs /\ promised' = promised
  BY Zenon DEF memory
<1>2. ASSUME NEW n \in Files, NEW k \in Keys, promised'[<<n, k>>] # Nothing
      PROVE  /\ promised'[<<n, k>>] \in Values \cup {Missing}
             /\ up' = "up" => Keeps(n, k, promised[<<n, k>>])'
             /\ Stores(n, k, promised[<<n, k>>])'
  <2>3. PICK v : v = promised[<<n, k>>]
    OBVIOUS
  <2>1. v \in Values \cup {Missing} /\ Keeps(n, k, v) /\ Stores(n, k, v) /\ promised'[<<n, k>>] = v
    BY Zenon, <1>1, <1>2, <2>3 DEF DiskInv, PromisedKept
  <2>2. Stores(n, k, v)' /\ Keeps(n, k, v)'
    BY Zenon, <1>1, <2>1 DEF StoresKept, Keeps, Existing, HandleOf
  <2> QED
    BY Zenon, <2>1, <2>2 DEF Stores, Keeps
<1>3. ASSUME NEW t \in Threads, NEW n \in Files, NEW k \in Keys, pending'[t][<<n, k>>] # Nothing
      PROVE  /\ saving'[t] = "commit"
             /\ pending'[t][<<n, k>>] \in Values \cup {Missing}
             /\ Keeps(n, k, pending[t][<<n, k>>])'
             /\ Past(t, n)' => Stores(n, k, pending[t][<<n, k>>])'
  <2>5. PICK v : v = pending[t][<<n, k>>]
    OBVIOUS
  <2>1. /\ pending'[t][<<n, k>>] = v /\ v # Nothing
        /\ n \in Existing /\ Past(t, n)' => Past(t, n) \/ Stores(n, k, pending[t][<<n, k>>])'
    BY Zenon, <1>3, <2>5 DEF PendingFollows
  <2>2. /\ saving[t] = "commit" /\ v \in Values \cup {Missing}
        /\ Keeps(n, k, v) /\ (Past(t, n) => Stores(n, k, v))
    BY Zenon, <2>1, <2>5 DEF DiskInv, PendingKept
  <2>3. Keeps(n, k, pending[t][<<n, k>>])' /\ n \in Existing
    BY Zenon, <1>1, <2>1, <2>2 DEF Keeps, Existing, HandleOf
  <2>4. ASSUME Past(t, n)' PROVE Stores(n, k, pending[t][<<n, k>>])'
    <3>1. CASE Past(t, n)
      <4>1. Stores(n, k, v)'
        BY Zenon, <2>2, <3>1 DEF StoresKept
      <4> QED
        BY Zenon, <2>1, <4>1 DEF Stores
    <3> QED
      BY Zenon, <2>1, <2>3, <2>4, <3>1
  <2> QED
    BY Zenon, <2>1, <2>2, <2>3, <2>4
<1>4. PromisedKept' /\ \A t \in Threads : PendingKept(t)'
  BY Zenon, <1>2, <1>3 DEF PromisedKept, PendingKept
<1> QED
  BY Zenon, <1>4 DEF DiskInv

LEMMA OpenFileKeepsStores ==
    ASSUME TypeOK, NEW t \in Threads, NEW f \in Files, OpenFile(t, f)
    PROVE  StoresKept
BY Zenon, OpenFileStores DEF StoresKept

LEMMA CloseKeeps ==
    ASSUME DiskInv, NEW t \in Threads, CloseDatabase(t)
    PROVE  DiskInv'
<1>1. CollectionsSound /\ TypeOK
  BY Zenon DEF DiskInv, CollectionsSound
<1>2. /\ up = "up" /\ \A u \in Threads : saving[u] = "no"
      /\ saving' = [saving EXCEPT ![t] = "close"]
      /\ OpenFile(t, Main) /\ UNCHANGED <<up, memory, freed, pending, promised, bounds>>
  BY Zenon DEF CloseDatabase, Running
<1>3. Main \in Existing /\ Main \in Files
  BY Zenon, FileNames DEF Existing
<1>4. saving'[t] = "close" /\ \A u \in Threads \ {t} : saving'[u] = "no"
  BY Zenon, <1>1, <1>2 DEF TypeOK
<1>5. /\ files' \in [Files -> File] /\ file' \in [Threads -> Files] /\ rows' = rows
      /\ writing' \in [Threads -> {"no", "open", "rows"}] /\ shared' \in [Threads -> BOOLEAN]
      /\ file'[t] = Main /\ writing'[t] = "open"
      /\ \A u \in Threads \ {t} : file'[u] = file[u] /\ writing'[u] = writing[u]
  BY Zenon, <1>1, <1>2, <1>3, OpenFileTyped
<1>6. \A u \in Threads : writing[u] = "no"
  BY Zenon, <1>2 DEF DiskInv, Saves
<1>7. CollectionsSound'
  <2>1. TypeOK'
    BY Zenon, <1>1, <1>2, <1>5 DEF TypeOK, memory, bounds
  <2> QED
    BY Zenon, <1>1, <1>2, <2>1 DEF CollectionsSound, HandlesDistinct, memory
<1>8. ASSUME NEW u \in Threads PROVE Saves(u)'
  <2>1. Existing' = Existing /\ up' = "up"
    BY Zenon, <1>2 DEF Existing, memory
  <2>2. CASE u = t
    BY Zenon, <1>3, <1>4, <1>5, <2>1, <2>2 DEF Saves
  <2>3. CASE u # t
    BY Zenon, <1>4, <1>5, <1>6, <2>3 DEF Saves
  <2> QED
    BY Zenon, <2>2, <2>3
<1>9. \A u \in Threads : SharedKnown(u)'
  BY Zenon, <1>1, <1>2, <1>3, OpenFileShares DEF DiskInv
<1>10. ASSUME NEW u \in Threads PROVE ClosingDone(u)'
  <2>1. CASE u = t
    <3>1. ASSUME NEW n \in Existing', n < Main PROVE FALSE
      <4>1. n \in Files
        BY Zenon, <1>7, ExistingFiles DEF CollectionsSound, TypeOK, Existing, Files
      <4> QED
        BY <3>1, <4>1, FileNames
    <3>2. ~shared'[t]
      BY Zenon, <1>2, <1>6 DEF OpenFile, HasOpen
    <3> QED
      BY Zenon, <1>5, <2>1, <3>1, <3>2 DEF ClosingDone
  <2>2. CASE u # t
    BY Zenon, <1>4, <2>2 DEF ClosingDone
  <2> QED
    BY Zenon, <2>1, <2>2
<1>11. StoresKept
  BY Zenon, <1>1, <1>2, <1>3, OpenFileKeepsStores
<1>12. PendingFollows
  <2>1. ASSUME NEW u \in Threads, NEW n \in Files, NEW k \in Keys PROVE pending[u][<<n, k>>] = Nothing
    BY Zenon, <1>2 DEF DiskInv, PendingKept
  <2> QED
    BY Zenon, <1>2, <2>1 DEF PendingFollows
<1>13. \A u \in Threads : saving[u] = "commit" => saving'[u] = "commit"
  BY Zenon, <1>2
<1> QED
  BY Zenon, <1>2, <1>7, <1>8, <1>9, <1>10, <1>11, <1>12, <1>13, FileStep

\* Only one thread saves while one closes the database.
LEMMA ClosesAlone ==
    ASSUME DiskInv, NEW t \in Threads, saving[t] # "no", NEW u \in Threads, saving[u] = "close"
    PROVE  u = t
BY Zenon DEF DiskInv, Saves

LEMMA BufferRowsKeeps ==
    ASSUME DiskInv, NEW t \in Threads, BufferRows(t)
    PROVE  DiskInv'
<1>1. CollectionsSound /\ TypeOK /\ Saves(t)
  BY Zenon DEF DiskInv, CollectionsSound
<1>2. /\ writing[t] = "open" /\ ~freed
      /\ rows' = [rows EXCEPT ![t] = RowsOf(file[t])] /\ writing' = [writing EXCEPT ![t] = "rows"]
      /\ UNCHANGED <<up, memory, files, saving, file, shared, freed, pending, promised, bounds>>
  BY Zenon DEF BufferRows
<1>3. saving[t] # "no" /\ up = "up" /\ file[t] \in Existing /\ file[t] \in Files
  BY Zenon, <1>1, <1>2 DEF Saves, TypeOK
<1>4. RowsOf(file[t]) \in Rows /\ \A k \in Keys : RowsOf(file[t])[k] = Saved(pairs[<<HandleOf(file[t]), k>>])
  BY Zenon, <1>1, <1>3, RowsTyped
<1>5. /\ rows' \in [Threads -> Rows] /\ writing' \in [Threads -> {"no", "open", "rows"}]
      /\ rows'[t] = RowsOf(file[t]) /\ writing'[t] = "rows"
      /\ \A u \in Threads \ {t} : rows'[u] = rows[u] /\ writing'[u] = writing[u]
  BY Zenon, <1>1, <1>2, <1>4 DEF TypeOK
<1>6. CollectionsSound'
  <2>1. TypeOK'
    BY Zenon, <1>1, <1>2, <1>5 DEF TypeOK, memory, bounds
  <2> QED
    BY Zenon, <1>1, <1>2, <2>1 DEF CollectionsSound, HandlesDistinct, memory
<1>7. \A u \in Threads : (writing'[u] = "no" <=> writing[u] = "no") /\ (writing'[u] # "no" <=> writing[u] # "no")
  BY Zenon, <1>2, <1>5
<1>8. ASSUME NEW u \in Threads PROVE Saves(u)' /\ SharedKnown(u)'
  <2>1. Saves(u) /\ SharedKnown(u) /\ Existing' = Existing
    BY Zenon, <1>2 DEF DiskInv, Existing, memory
  <2>2. Saves(u)'
    BY Zenon, <1>2, <1>7, <2>1 DEF Saves
  <2>3. \A w \in Threads : HasOpen(w, file[u])' => HasOpen(w, file[u])
    BY Zenon, <1>2, <1>7 DEF HasOpen
  <2> QED
    BY Zenon, <1>2, <1>7, <2>1, <2>2, <2>3 DEF SharedKnown
<1>9. ASSUME NEW u \in Threads, saving'[u] = "close" PROVE ClosingDone(u)'
  <2>1. u = t /\ ClosingDone(t) /\ saving[t] = "close"
    BY Zenon, <1>2, <1>3, <1>9, ClosesAlone DEF DiskInv
  <2>2. Existing' = Existing /\ \A n \in Existing : RowsOf(n)' = RowsOf(n)
    BY Zenon, <1>2 DEF Existing, RowsOf, HandleOf, memory
  <2>3. rows'[t] = RowsOf(file[t])' /\ ~shared'[t]
    BY Zenon, <1>2, <1>3, <1>5, <2>1, <2>2 DEF ClosingDone, RowsOf, HandleOf, memory
  <2>4. ASSUME NEW n \in Existing', n < file'[t] \/ (n = file'[t] /\ writing'[t] = "no")
        PROVE  files'[n] = Whole(RowsOf(n)')
    <3>1. n < file[t] /\ n \in Existing
      BY Zenon, <1>2, <1>5, <2>2, <2>4
    <3>2. files[n] = Whole(RowsOf(n))
      BY Zenon, <2>1, <3>1 DEF ClosingDone
    <3> QED
      BY Zenon, <1>2, <2>2, <3>1, <3>2
  <2> QED
    BY Zenon, <2>1, <2>3, <2>4 DEF ClosingDone, Whole
<1>10. \A u \in Threads : ClosingDone(u)'
  BY Zenon, <1>9 DEF ClosingDone
<1>11. StoresKept
  <2> SUFFICES ASSUME NEW n \in Files, NEW k \in Keys, NEW v \in Values \cup {Missing},
                      Keeps(n, k, v), Stores(n, k, v)
               PROVE  Stores(n, k, v)'
    BY Zenon DEF StoresKept
  <2>1. ASSUME NEW u \in Threads, writing'[u] = "rows", file'[u] = n PROVE rows'[u][k] = v
    <3>1. CASE u = t
      <4>1. Saved(v) = v
        BY Zenon, ValuesKept
      <4> QED
        BY Zenon, <1>2, <1>4, <1>5, <2>1, <3>1, <4>1 DEF Keeps
    <3>2. CASE u # t
      BY Zenon, <1>2, <1>5, <2>1, <3>2 DEF Stores
    <3> QED
      BY Zenon, <3>1, <3>2
  <2> QED
    BY Zenon, <1>2, <2>1 DEF Stores
<1>12. PendingFollows
  BY Zenon, <1>2 DEF PendingFollows, Past
<1>13. \A u \in Threads : saving[u] = "commit" => saving'[u] = "commit"
  BY Zenon, <1>2
<1> QED
  BY Zenon, <1>2, <1>3, <1>6, <1>8, <1>10, <1>11, <1>12, <1>13, FileStep

LEMMA WriteCollectionKeeps ==
    ASSUME DiskInv, NEW t \in Threads, WriteCollection(t)
    PROVE  DiskInv'
<1>1. CollectionsSound /\ TypeOK /\ Saves(t)
  BY Zenon DEF DiskInv, CollectionsSound
<1>2. /\ writing[t] = "rows" /\ ~freed /\ writing' = [writing EXCEPT ![t] = "no"]
      /\ rows' = [rows EXCEPT ![t] = NoRows] /\ shared' = [shared EXCEPT ![t] = FALSE]
      /\ pending' = [pending EXCEPT ![t] = IF shared[t] THEN Overwritten({file[t]} \X Keys, @) ELSE @]
      /\ UNCHANGED <<up, memory, saving, file, freed, promised, bounds>>
  BY Zenon DEF WriteCollection
<1>3. saving[t] # "no" /\ up = "up" /\ file[t] \in Existing /\ file[t] \in Files
  BY Zenon, <1>1, <1>2 DEF Saves, TypeOK
<1> DEFINE f == file[t]
<1>4. \/ files' = [files EXCEPT ![f] = Whole(rows[t])]
      \/ shared[t] /\ files' = [files EXCEPT ![f] = Torn]
  BY Zenon DEF WriteCollection
<1>5. /\ writing'[t] = "no" /\ rows'[t] = NoRows /\ shared'[t] = FALSE
      /\ pending'[t] = IF shared[t] THEN Overwritten({f} \X Keys, pending[t]) ELSE pending[t]
      /\ \A u \in Threads \ {t} : /\ writing'[u] = writing[u] /\ rows'[u] = rows[u]
                                  /\ shared'[u] = shared[u] /\ pending'[u] = pending[u]
  BY Zenon, <1>1, <1>2 DEF TypeOK
<1>6. /\ files' \in [Files -> File] /\ \A n \in Files : n # f => files'[n] = files[n]
      /\ files'[f] = Whole(rows[t]) \/ (shared[t] /\ files'[f] = Torn)
  <2>1. Whole(rows[t]) \in File /\ Torn \in File /\ files \in [Files -> File]
    BY Zenon, <1>1, FilesTyped DEF TypeOK
  <2> QED
    BY Zenon, <1>3, <1>4, <2>1
<1>7. pending' \in [Threads -> Promises]
  <2>1. pending[t] \in Promises /\ pending \in [Threads -> Promises]
    BY Zenon, <1>1 DEF TypeOK
  <2>2. Overwritten({f} \X Keys, pending[t]) \in Promises
    BY Zenon, <2>1, OverwrittenTyped
  <2> QED
    BY Zenon, <1>2, <2>1, <2>2
<1>8. CollectionsSound'
  <2>1. /\ writing' \in [Threads -> {"no", "open", "rows"}] /\ rows' \in [Threads -> Rows]
        /\ shared' \in [Threads -> BOOLEAN]
    BY Zenon, <1>1, <1>2, FilesTyped DEF TypeOK
  <2>2. TypeOK'
    BY Zenon, <1>1, <1>2, <1>6, <1>7, <2>1 DEF TypeOK, memory, bounds
  <2> QED
    BY Zenon, <1>1, <1>2, <2>2 DEF CollectionsSound, HandlesDistinct, memory
<1>9. ASSUME NEW u \in Threads PROVE Saves(u)' /\ SharedKnown(u)'
  <2>1. Saves(u) /\ SharedKnown(u) /\ Existing' = Existing
    BY Zenon, <1>2 DEF DiskInv, Existing, memory
  <2>2. writing'[u] # "no" => writing[u] # "no"
    BY Zenon, <1>5
  <2>3. Saves(u)'
    BY Zenon, <1>2, <2>1, <2>2 DEF Saves
  <2>4. \A w \in Threads : HasOpen(w, file[u])' => HasOpen(w, file[u])
    BY Zenon, <1>2, <1>5 DEF HasOpen
  <2>5. CASE u = t
    BY Zenon, <1>5, <2>3, <2>5 DEF SharedKnown
  <2>6. CASE u # t
    BY Zenon, <1>2, <1>5, <2>1, <2>3, <2>4, <2>6 DEF SharedKnown
  <2> QED
    BY Zenon, <2>5, <2>6
<1>10. ASSUME NEW u \in Threads, saving'[u] = "close" PROVE ClosingDone(u)'
  <2>1. u = t /\ ClosingDone(t) /\ saving[t] = "close"
    BY Zenon, <1>2, <1>3, <1>10, ClosesAlone DEF DiskInv
  <2>2. files'[f] = Whole(RowsOf(f))
    BY Zenon, <1>2, <1>6, <2>1 DEF ClosingDone
  <2>3. ASSUME NEW n \in Existing', n < file'[t] \/ (n = file'[t] /\ writing'[t] = "no")
        PROVE  files'[n] = Whole(RowsOf(n)')
    <3>1. n \in Existing /\ RowsOf(n)' = RowsOf(n) /\ file'[t] = f
      BY Zenon, <1>2 DEF Existing, RowsOf, HandleOf, memory
    <3>2. n \in Files
      BY Zenon, <1>1, <3>1, ExistingFiles
    <3>3. CASE n = f
      BY Zenon, <2>2, <3>1, <3>3
    <3>4. CASE n # f
      <4>1. files[n] = Whole(RowsOf(n))
        BY Zenon, <2>1, <2>3, <3>1, <3>4 DEF ClosingDone
      <4> QED
        BY Zenon, <1>6, <3>1, <3>2, <3>4, <4>1
    <3> QED
      BY Zenon, <3>3, <3>4
  <2> QED
    BY Zenon, <1>5, <2>1, <2>3 DEF ClosingDone, Whole
<1>11. \A u \in Threads : ClosingDone(u)'
  BY Zenon, <1>10 DEF ClosingDone
<1>12. StoresKept
  <2> SUFFICES ASSUME NEW n \in Files, NEW k \in Keys, NEW v \in Values \cup {Missing},
                      Keeps(n, k, v), Stores(n, k, v)
               PROVE  Stores(n, k, v)'
    BY Zenon DEF StoresKept
  <2>1. files'[n].state # "absent" /\ (files'[n].state = "whole" => files'[n].rows[k] = v)
    <3>1. CASE n # f
      BY Zenon, <1>6, <3>1 DEF Stores
    <3>2. CASE n = f /\ files'[f] = Torn
      BY Zenon, <3>2, FileStates
    <3>3. CASE n = f /\ files'[f] = Whole(rows[t])
      <4>1. rows[t][k] = v
        BY Zenon, <1>2, <3>3 DEF Stores
      <4> QED
        BY Zenon, <3>3, <4>1, FileStates
    <3> QED
      BY Zenon, <1>6, <3>1, <3>2, <3>3
  <2>2. ASSUME NEW u \in Threads, writing'[u] = "rows", file'[u] = n PROVE rows'[u][k] = v
    <3>1. u # t
      BY Zenon, <1>5, <2>2
    <3> QED
      BY Zenon, <1>2, <1>5, <2>2, <3>1 DEF Stores
  <2> QED
    BY Zenon, <2>1, <2>2 DEF Stores
<1>13. PendingFollows
  <2> SUFFICES ASSUME NEW u \in Threads, NEW n \in Files, NEW k \in Keys, pending'[u][<<n, k>>] # Nothing
               PROVE  /\ pending'[u][<<n, k>>] = pending[u][<<n, k>>]
                      /\ Past(u, n)' => Past(u, n)
    BY Zenon DEF PendingFollows
  <2>1. CASE u # t
    BY Zenon, <1>2, <1>5, <2>1 DEF Past
  <2>2. CASE u = t /\ ~shared[t]
    BY Zenon, <1>2, <1>5, <2>2 DEF Past
  <2>3. CASE u = t /\ shared[t]
    <3>1. pending'[t] = Overwritten({f} \X Keys, pending[t]) /\ pending'[t][<<n, k>>] # Nothing
      BY Zenon, <1>5, <2>3
    <3> HIDE DEF f
    <3>2. <<n, k>> \notin {f} \X Keys /\ pending'[t][<<n, k>>] = pending[t][<<n, k>>]
      BY SMT, <1>1, <3>1, PendingLeft
    <3>3. n # f
      BY Zenon, <3>2
    <3> QED
      BY Zenon, <1>2, <2>3, <3>2, <3>3 DEF Past, f
  <2> QED
    BY Zenon, <2>1, <2>2, <2>3
<1>14. \A u \in Threads : saving[u] = "commit" => saving'[u] = "commit"
  BY Zenon, <1>2
<1> QED
  BY Zenon, <1>2, <1>3, <1>8, <1>9, <1>11, <1>12, <1>13, <1>14, FileStep

LEMMA NextFileKeeps ==
    ASSUME DiskInv, NEW t \in Threads, NextFile(t)
    PROVE  DiskInv'
<1>1. CollectionsSound /\ TypeOK /\ Saves(t)
  BY Zenon DEF DiskInv, CollectionsSound
<1>2. /\ saving[t] # "no" /\ writing[t] = "no" /\ ~freed
      /\ UNCHANGED <<up, memory, saving, freed, pending, promised, bounds>>
  BY Zenon DEF NextFile, Between
<1>3. PICK f \in Following(t) : (\A o \in Following(t) : f <= o) /\ OpenFile(t, f)
  BY Zenon DEF NextFile
<1>4. f \in DOMAIN names /\ f > file[t] /\ f \in Existing /\ f \in Files
  BY Zenon, <1>1, ExistingFiles DEF Following, Existing
<1>5. up = "up" /\ file[t] \in Existing /\ file[t] \in Files /\ ~shared[t]
  BY Zenon, <1>1, <1>2 DEF DiskInv, Saves, SharedKnown, TypeOK
<1>6. /\ files' \in [Files -> File] /\ file' \in [Threads -> Files] /\ rows' = rows
      /\ writing' \in [Threads -> {"no", "open", "rows"}] /\ shared' \in [Threads -> BOOLEAN]
      /\ \A n \in Files : n # f => files'[n] = files[n]
      /\ file'[t] = f /\ writing'[t] = "open"
      /\ \A u \in Threads \ {t} :
            /\ file'[u] = file[u] /\ writing'[u] = writing[u]
            /\ shared'[u] <=> shared[u] \/ HasOpen(u, f)
  <2>1. TypeOK /\ OpenFile(t, f) /\ f \in Files
    BY Zenon, <1>1, <1>3, <1>4
  <2>2. /\ files' \in [Files -> File] /\ file' \in [Threads -> Files] /\ rows' = rows
        /\ writing' \in [Threads -> {"no", "open", "rows"}] /\ shared' \in [Threads -> BOOLEAN]
        /\ file'[t] = f /\ writing'[t] = "open"
        /\ \A u \in Threads \ {t} :
              /\ file'[u] = file[u] /\ writing'[u] = writing[u]
              /\ shared'[u] <=> shared[u] \/ HasOpen(u, f)
    BY Zenon, <2>1, OpenFileTyped
  <2>3. \A n \in Files : n # f => files'[n] = files[n]
    BY Zenon, <2>1 DEF OpenFile, TypeOK
  <2> QED
    BY Zenon, <2>2, <2>3
<1>7. CollectionsSound'
  <2>1. TypeOK'
    BY Zenon, <1>1, <1>2, <1>6 DEF TypeOK, memory, bounds
  <2> QED
    BY Zenon, <1>1, <1>2, <2>1 DEF CollectionsSound, HandlesDistinct, memory
<1>8. ASSUME NEW u \in Threads PROVE Saves(u)'
  <2>1. Saves(u) /\ Existing' = Existing
    BY Zenon, <1>2 DEF DiskInv, Existing, memory
  <2>2. CASE u = t
    BY Zenon, <1>2, <1>4, <1>6, <2>1, <2>2 DEF Saves
  <2>3. CASE u # t
    BY Zenon, <1>2, <1>6, <2>1, <2>3 DEF Saves
  <2> QED
    BY Zenon, <2>2, <2>3
<1>9. \A u \in Threads : SharedKnown(u)'
  BY Zenon, <1>1, <1>3, <1>4, OpenFileShares DEF DiskInv
\* What comes before the next file is not after the last one.
<1>10. ASSUME NEW n \in Existing, n < f PROVE n < file[t] \/ n = file[t]
  <2>1. n \in Nat /\ f \in Nat /\ file[t] \in Nat
    BY Zenon, <1>1, <1>4, <1>5, ExistingFiles, FileNames
  <2>2. CASE n = Main
    <3>1. Main <= file[t]
      BY Zenon, <1>5, FileNames
    <3> QED
      BY <2>1, <2>2, <3>1
  <2>3. CASE n # Main
    <3>1. n \in Following(t) => f <= n
      BY Zenon, <1>3
    <3>2. n > file[t] => n \in Following(t)
      BY Zenon, <2>3 DEF Existing, Following
    <3> QED
      BY <1>10, <2>1, <3>1, <3>2
  <2> QED
    BY Zenon, <2>2, <2>3
<1>11. ASSUME NEW u \in Threads, saving'[u] = "close" PROVE ClosingDone(u)'
  <2>1. u = t /\ saving[t] = "close"
    BY Zenon, <1>2, <1>11, ClosesAlone
  <2>2. ASSUME NEW n \in Existing', n < file'[t] \/ (n = file'[t] /\ writing'[t] = "no")
        PROVE  files'[n] = Whole(RowsOf(n)')
    <3>1. n \in Existing /\ RowsOf(n)' = RowsOf(n) /\ n < f
      BY Zenon, <1>2, <1>6, <2>2 DEF Existing, RowsOf, HandleOf, memory
    <3>2. n \in Files /\ n \in Nat /\ f \in Nat
      BY Zenon, <1>1, <1>4, <3>1, ExistingFiles, FileNames
    <3>3. n # f
      BY <3>1, <3>2
    <3>4. files[n] = Whole(RowsOf(n))
      BY Zenon, <1>2, <1>10, <2>1, <3>1 DEF DiskInv, ClosingDone
    <3> QED
      BY Zenon, <1>6, <3>1, <3>2, <3>3, <3>4
  <2>3. ~shared'[t]
    <3>1. ASSUME NEW o \in Threads \ {t} PROVE ~HasOpen(o, f)
      BY Zenon, <2>1 DEF DiskInv, Saves, HasOpen
    <3> QED
      BY Zenon, <1>3, <3>1 DEF OpenFile
  <2> QED
    BY Zenon, <1>6, <2>1, <2>2, <2>3 DEF ClosingDone, Whole
<1>12. \A u \in Threads : ClosingDone(u)'
  BY Zenon, <1>11 DEF ClosingDone
<1>13. StoresKept
  BY Zenon, <1>1, <1>3, <1>4, OpenFileKeepsStores
<1>14. PendingFollows
  <2> SUFFICES ASSUME NEW u \in Threads, NEW n \in Existing, NEW k \in Keys, n \in Files, Past(u, n)'
               PROVE  Past(u, n) \/ Stores(n, k, pending[u][<<n, k>>])'
    BY Zenon, <1>2 DEF PendingFollows
  <2>1. CASE u # t
    BY Zenon, <1>6, <2>1 DEF Past
  <2>2. CASE u = t
    <3>1. n < f \/ (n = f /\ ~shared'[t])
      BY Zenon, <1>6, <2>2 DEF Past
    <3>2. CASE n < f
      BY Zenon, <1>5, <1>10, <2>2, <3>2 DEF Past
    <3>3. CASE n = f /\ ~shared'[t]
      <4>1. \A v : Stores(n, k, v)'
        BY Zenon, <1>1, <1>3, <1>4, <3>3, OpenFileStores
      <4> QED
        BY Zenon, <1>2, <4>1
    <3> QED
      BY Zenon, <3>1, <3>2, <3>3
  <2> QED
    BY Zenon, <2>1, <2>2
<1>15. \A u \in Threads : saving[u] = "commit" => saving'[u] = "commit"
  BY Zenon, <1>2
<1> QED
  BY Zenon, <1>2, <1>5, <1>7, <1>8, <1>9, <1>12, <1>13, <1>14, <1>15, FileStep

-----------------------------------------------------------------------------
(* Commits that save.                                                       *)

LEMMA CommitFlushKeeps ==
    ASSUME DiskInv, NEW t \in Threads, NEW n \in Names, NEW k \in Keys,
           NEW v \in Values \cup {Missing}, CommitFlush(t, n, k, v)
    PROVE  DiskInv'
<1> DEFINE cells == Changes(n, k)
<1>1. CollectionsSound /\ TypeOK
  BY Zenon DEF DiskInv, CollectionsSound
<1>2. /\ up = "up" /\ saving[t] = "no" /\ ~freed /\ \A u \in Threads : saving[u] # "close"
      /\ n \in DOMAIN names /\ Apply(n, k, v) /\ OpenFile(t, Main)
      /\ saving' = [saving EXCEPT ![t] = "commit"]
      /\ promised' = Overwritten(cells, promised)
      /\ UNCHANGED <<up, names, freed, stops>> /\ commits' = commits + 1
  BY Zenon DEF CommitFlush, Idle, Running
<1>3. /\ pending' = [u \in Threads |->
            IF u = t THEN [c \in Places |-> IF c \in cells THEN v ELSE Nothing]
                     ELSE Overwritten(cells, pending[u])]
  BY Zenon DEF CommitFlush
<1>4. /\ pending'[t] = [c \in Places |-> IF c \in cells THEN v ELSE Nothing]
      /\ \A u \in Threads \ {t} : pending'[u] = Overwritten(cells, pending[u])
  BY Zenon, <1>3
<1>5. Main \in Files /\ Main \in Existing /\ Existing' = Existing /\ n \in Existing /\ n \in Files
  BY Zenon, <1>2, FileNames DEF Existing
<1>6. /\ files' \in [Files -> File] /\ file' \in [Threads -> Files] /\ rows' = rows
      /\ writing' \in [Threads -> {"no", "open", "rows"}] /\ shared' \in [Threads -> BOOLEAN]
      /\ file'[t] = Main /\ writing'[t] = "open"
      /\ \A u \in Threads \ {t} :
            /\ file'[u] = file[u] /\ writing'[u] = writing[u]
            /\ shared'[u] <=> shared[u] \/ HasOpen(u, Main)
  BY Zenon, <1>1, <1>2, <1>5, OpenFileTyped
<1>7. saving'[t] = "commit" /\ \A u \in Threads \ {t} : saving'[u] = saving[u]
  BY Zenon, <1>1, <1>2 DEF TypeOK
<1>8. /\ pairs' \in Pairs
      /\ pairs'[<<Main, k>>] = v /\ pairs'[<<HandleOf(n), k>>] = v
      /\ \A m \in Existing, j \in Keys : <<m, j>> \notin cells => Remains(m, j)
  BY Zenon, <1>1, <1>2, Applied
<1>9. TypeOK'
  <2>1. promised' \in Promises
    BY Zenon, <1>1, <1>2, OverwrittenTyped DEF TypeOK
  <2>2. pending'[t] \in Promises
    BY Zenon, <1>4 DEF Promises
  <2>3. ASSUME NEW u \in Threads PROVE pending'[u] \in Promises
    <3>1. pending[u] \in Promises
      BY Zenon, <1>1 DEF TypeOK
    <3>2. CASE u = t
      BY Zenon, <2>2, <3>2
    <3>3. CASE u # t
      <4>1. pending'[u] = Overwritten(cells, pending[u])
        BY Zenon, <1>4, <3>3
      <4> QED
        BY Zenon, <3>1, <4>1, OverwrittenTyped
    <3> QED
      BY Zenon, <3>2, <3>3
  <2>4. pending' \in [Threads -> Promises]
    BY Zenon, <1>3, <2>3
  <2>5. commits' \in Nat
    <3>1. commits \in Nat
      BY Zenon, <1>1 DEF TypeOK
    <3> QED
      BY <1>2, <3>1
  <2> QED
    BY Zenon, <1>1, <1>2, <1>6, <1>8, <2>1, <2>4, <2>5 DEF TypeOK, Pairs
<1>10. CollectionsSound'
  BY Zenon, <1>1, <1>2, <1>9 DEF CollectionsSound, HandlesDistinct
<1>11. ASSUME NEW u \in Threads PROVE Saves(u)' /\ ClosingDone(u)'
  <2>1. Saves(u) /\ saving'[u] # "close"
    BY Zenon, <1>2, <1>7 DEF DiskInv
  <2>2. up' = "up" /\ "commit" # "no"
    BY Zenon, <1>2
  <2>3. CASE u = t
    <3>1. saving'[u] = "commit" /\ file'[u] \in Existing'
      BY Zenon, <1>5, <1>6, <1>7, <2>3
    <3> QED
      BY Zenon, <2>1, <2>2, <3>1 DEF Saves, ClosingDone
  <2>4. CASE u # t
    <3>1. saving'[u] = saving[u] /\ file'[u] = file[u] /\ writing'[u] = writing[u]
      BY Zenon, <1>6, <1>7, <2>4
    <3>2. freed' = freed /\ Existing' = Existing
      BY Zenon, <1>2, <1>5
    <3> QED
      BY Zenon, <2>1, <2>2, <3>1, <3>2 DEF Saves, ClosingDone
  <2> QED
    BY Zenon, <2>3, <2>4
<1>12. \A u \in Threads : SharedKnown(u)'
  BY Zenon, <1>1, <1>2, <1>5, OpenFileShares DEF DiskInv
<1>13. ASSUME NEW m \in Files, NEW j \in Keys, NEW w, Stores(m, j, w) \/ (m = Main /\ ~shared'[t])
       PROVE  Stores(m, j, w)'
  BY Zenon, <1>1, <1>2, <1>5, <1>13, OpenFileStores
<1>14. ASSUME NEW m \in Files, NEW j \in Keys, promised'[<<m, j>>] # Nothing
       PROVE  /\ promised'[<<m, j>>] \in Values \cup {Missing}
              /\ up' = "up" => Keeps(m, j, promised[<<m, j>>])'
              /\ Stores(m, j, promised[<<m, j>>])'
  <2>1. <<m, j>> \notin cells /\ promised'[<<m, j>>] = promised[<<m, j>>] /\ promised[<<m, j>>] # Nothing
    BY Zenon, <1>1, <1>2, <1>14, PromisedLeft
  <2>2. /\ promised[<<m, j>>] \in Values \cup {Missing}
        /\ Keeps(m, j, promised[<<m, j>>]) /\ Stores(m, j, promised[<<m, j>>])
    BY Zenon, <1>2, <2>1 DEF DiskInv, PromisedKept
  <2>3. Keeps(m, j, promised[<<m, j>>])'
    BY Zenon, <1>8, <2>1, <2>2 DEF Keeps, Remains
  <2>4. PICK w : w = promised[<<m, j>>]
    OBVIOUS
  <2>5. Stores(m, j, w)'
    BY Zenon, <1>13, <2>2, <2>4
  <2>6. promised'[<<m, j>>] = w
    BY Zenon, <2>1, <2>4
  <2>7. Stores(m, j, promised[<<m, j>>])'
    BY Zenon, <2>5, <2>6 DEF Stores
  <2> QED
    BY Zenon, <2>1, <2>2, <2>3, <2>7
<1>15. ASSUME NEW m \in Files, NEW j \in Keys, pending'[t][<<m, j>>] # Nothing
       PROVE  /\ pending'[t][<<m, j>>] = v /\ Keeps(m, j, pending[t][<<m, j>>])'
              /\ Past(t, m)' => Stores(m, j, pending[t][<<m, j>>])'
  <2>1. <<m, j>> \in cells /\ pending'[t][<<m, j>>] = v
    BY Zenon, <1>4, <1>15 DEF Places
  <2>2. (m = Main \/ m = n) /\ j = k
    BY <2>1 DEF Changes
  <2>3. m \in Existing' /\ pairs'[<<HandleOf(m)', j>>] = v
    <3>1. HandleOf(m)' = HandleOf(m) /\ HandleOf(Main) = Main
      BY Zenon, <1>2 DEF HandleOf
    <3> QED
      BY Zenon, <1>5, <1>8, <2>2, <3>1
  <2>4. Past(t, m)' => m = Main /\ ~shared'[t]
    <3>1. ~(m < Main)
      <4>1. m \in Nat /\ Main <= m
        BY Zenon, FileNames
      <4> QED
        BY <4>1 DEF Main
    <3> QED
      BY Zenon, <1>6, <3>1 DEF Past
  <2>5. Past(t, m)' => Stores(m, j, v)'
    BY Zenon, <1>13, <2>4
  <2> QED
    BY Zenon, <2>1, <2>3, <2>5 DEF Keeps, Stores
<1>16. ASSUME NEW u \in Threads \ {t}, NEW m \in Files, NEW j \in Keys, pending'[u][<<m, j>>] # Nothing
       PROVE  /\ saving'[u] = "commit" /\ pending'[u][<<m, j>>] \in Values \cup {Missing}
              /\ Keeps(m, j, pending[u][<<m, j>>])'
              /\ Past(u, m)' => Stores(m, j, pending[u][<<m, j>>])'
  <2>1. <<m, j>> \notin cells /\ pending'[u][<<m, j>>] = pending[u][<<m, j>>] /\ pending[u][<<m, j>>] # Nothing
    <3>1. u \in Threads /\ pending'[u] = Overwritten(cells, pending[u])
      BY Zenon, <1>4
    <3> HIDE DEF cells
    <3>2. <<m, j>> \notin cells /\ pending'[u][<<m, j>>] = pending[u][<<m, j>>]
      BY SMT, <1>1, <1>16, <3>1, PendingLeft
    <3> QED
      BY Zenon, <1>16, <3>2
  <2>2. /\ saving[u] = "commit" /\ pending[u][<<m, j>>] \in Values \cup {Missing}
        /\ Keeps(m, j, pending[u][<<m, j>>])
        /\ Past(u, m) => Stores(m, j, pending[u][<<m, j>>])
    BY Zenon, <2>1 DEF DiskInv, PendingKept
  <2>3. Keeps(m, j, pending[u][<<m, j>>])'
    BY Zenon, <1>8, <2>1, <2>2 DEF Keeps, Remains
  <2>4. Past(u, m)' => Past(u, m)
    BY Zenon, <1>6 DEF Past
  <2>5. PICK w : w = pending[u][<<m, j>>]
    OBVIOUS
  <2>6. Past(u, m)' => Stores(m, j, w)'
    BY Zenon, <1>13, <2>2, <2>4, <2>5
  <2>7. pending'[u][<<m, j>>] = w
    BY Zenon, <2>1, <2>5
  <2>8. Past(u, m)' => Stores(m, j, pending[u][<<m, j>>])'
    BY Zenon, <2>6, <2>7 DEF Stores
  <2> QED
    BY Zenon, <1>7, <2>1, <2>2, <2>3, <2>8
<1>17. PromisedKept'
  BY Zenon, <1>14 DEF PromisedKept
<1>18. ASSUME NEW u \in Threads PROVE PendingKept(u)'
  <2>1. CASE u = t
    BY Zenon, <1>7, <1>15, <2>1 DEF PendingKept
  <2>2. CASE u # t
    BY Zenon, <1>16, <2>2 DEF PendingKept
  <2> QED
    BY Zenon, <2>1, <2>2
<1> QED
  BY Zenon, <1>10, <1>11, <1>12, <1>17, <1>18 DEF DiskInv

\* A commit is acknowledged once every collection that exists was saved.
LEMMA FlushedKeeps ==
    ASSUME DiskInv, NEW t \in Threads, Flushed(t)
    PROVE  DiskInv'
<1>1. CollectionsSound /\ TypeOK
  BY Zenon DEF DiskInv, CollectionsSound
<1>2. /\ saving[t] = "commit" /\ writing[t] = "no" /\ Following(t) = {}
      /\ saving' = [saving EXCEPT ![t] = "no"]
      /\ file' = [file EXCEPT ![t] = Main]
      /\ pending' = [pending EXCEPT ![t] = NoPromise]
      /\ UNCHANGED <<up, memory, files, writing, buffers, freed, bounds>>
      /\ promised' = [c \in Places |-> IF pending[t][c] # Nothing THEN pending[t][c] ELSE promised[c]]
  BY Zenon DEF Flushed, AllWritten, Between
<1>3. /\ up' = up /\ names' = names /\ pairs' = pairs /\ files' = files
      /\ writing' = writing /\ rows' = rows /\ shared' = shared
  BY Zenon, <1>2 DEF memory, buffers
<1>4. /\ saving'[t] = "no" /\ pending'[t] = NoPromise
      /\ \A u \in Threads \ {t} :
            saving'[u] = saving[u] /\ file'[u] = file[u] /\ pending'[u] = pending[u]
  BY Zenon, <1>1, <1>2 DEF TypeOK
<1>5. TypeOK'
  <2>1. promised' \in Promises
    <3>1. pending[t] \in Promises /\ promised \in Promises
      BY Zenon, <1>1 DEF TypeOK
    <3> QED
      BY Zenon, <1>2, <3>1 DEF Promises
  <2>2. pending' \in [Threads -> Promises]
    BY Zenon, <1>1, <1>2, NonePromised DEF TypeOK
  <2>3. file' \in [Threads -> Files]
    BY Zenon, <1>1, <1>2, FileNames DEF TypeOK
  <2> QED
    BY Zenon, <1>1, <1>2, <1>3, <2>1, <2>2, <2>3 DEF TypeOK, bounds
<1>6. CollectionsSound'
  BY Zenon, <1>1, <1>3, <1>5 DEF CollectionsSound, HandlesDistinct
<1>7. Existing' = Existing
  BY Zenon, <1>3 DEF Existing
<1>8. ASSUME NEW u \in Threads PROVE Saves(u)' /\ ClosingDone(u)' /\ SharedKnown(u)'
  <2>1. Saves(u) /\ ClosingDone(u) /\ SharedKnown(u)
    BY Zenon DEF DiskInv
  <2>2. CASE u = t
    BY Zenon, <1>2, <1>3, <1>4, <2>1, <2>2 DEF Saves, ClosingDone, SharedKnown
  <2>3. CASE u # t
    <3>1. saving'[u] = saving[u] /\ file'[u] = file[u] /\ writing'[u] = writing[u]
      BY Zenon, <1>3, <1>4, <2>3
    <3>4. \A w \in Threads : HasOpen(w, file[u])' => HasOpen(w, file[u])
      BY Zenon, <1>2, <1>3, <1>4, <3>1 DEF HasOpen
    <3>5. SharedKnown(u)'
      BY Zenon, <1>3, <2>1, <3>1, <3>4 DEF SharedKnown
    <3>2. saving[u] # "close"
      <4>1. saving[t] # "no"
        BY Zenon, <1>2
      <4> QED
        BY Zenon, <2>3, <4>1, ClosesAlone
    <3>3. freed' = freed
      BY Zenon, <1>2
    <3> QED
      BY Zenon, <1>3, <1>7, <2>1, <3>1, <3>2, <3>3, <3>5 DEF Saves, ClosingDone
  <2> QED
    BY Zenon, <2>2, <2>3
<1>9. \A n \in Existing : Past(t, n)
  <2> SUFFICES ASSUME NEW n \in Existing PROVE n < file[t] \/ n = file[t]
    BY Zenon, <1>2 DEF DiskInv, SharedKnown, Past
  <2>1. n \in Nat /\ file[t] \in Nat /\ file[t] \in Files
    BY Zenon, <1>1, ExistingFiles, FileNames DEF TypeOK
  <2>2. CASE n = Main
    <3>1. Main <= file[t]
      BY Zenon, <2>1, FileNames
    <3> QED
      BY <2>1, <2>2, <3>1
  <2>3. CASE n # Main
    <3>1. ~(n > file[t])
      BY Zenon, <1>2, <2>3 DEF Existing, Following
    <3> QED
      BY <2>1, <3>1
  <2> QED
    BY Zenon, <2>2, <2>3
<1>13. ASSUME NEW n \in Files, NEW k \in Keys, NEW v, Stores(n, k, v) PROVE Stores(n, k, v)'
  <2>1. ASSUME NEW u \in Threads, writing'[u] = "rows", file'[u] = n PROVE rows'[u][k] = v
    <3>1. u # t
      BY Zenon, <1>2, <1>3, <2>1
    <3> QED
      BY Zenon, <1>3, <1>4, <1>13, <2>1, <3>1 DEF Stores
  <2> QED
    BY Zenon, <1>3, <1>13, <2>1 DEF Stores
<1>10. ASSUME NEW n \in Files, NEW k \in Keys, promised'[<<n, k>>] # Nothing
       PROVE  /\ promised'[<<n, k>>] \in Values \cup {Missing}
              /\ up' = "up" => Keeps(n, k, promised[<<n, k>>])'
              /\ Stores(n, k, promised[<<n, k>>])'
  <2>3. PICK v : v = promised'[<<n, k>>]
    OBVIOUS
  <2>1. \/ pending[t][<<n, k>>] # Nothing /\ v = pending[t][<<n, k>>]
        \/ promised[<<n, k>>] # Nothing /\ v = promised[<<n, k>>]
    <3>1. v = IF pending[t][<<n, k>>] # Nothing THEN pending[t][<<n, k>>] ELSE promised[<<n, k>>]
      BY Zenon, <1>2, <2>3 DEF Places
    <3> QED
      BY Zenon, <1>10, <2>3, <3>1
  <2>2. v \in Values \cup {Missing} /\ (up = "up" => Keeps(n, k, v)) /\ Stores(n, k, v)
    <3>1. CASE pending[t][<<n, k>>] # Nothing /\ v = pending[t][<<n, k>>]
      <4>1. /\ v \in Values \cup {Missing} /\ Keeps(n, k, v)
            /\ Past(t, n) => Stores(n, k, v)
        BY Zenon, <3>1 DEF DiskInv, PendingKept
      <4> QED
        BY Zenon, <1>9, <4>1 DEF Keeps
    <3>2. CASE promised[<<n, k>>] # Nothing /\ v = promised[<<n, k>>]
      BY Zenon, <3>2 DEF DiskInv, PromisedKept
    <3> QED
      BY Zenon, <2>1, <3>1, <3>2
  <2>4. Stores(n, k, v)' /\ (up' = "up" => Keeps(n, k, v)')
    BY Zenon, <1>3, <1>13, <2>2 DEF Keeps, Existing, HandleOf
  <2> QED
    BY Zenon, <2>2, <2>3, <2>4 DEF Keeps, Stores
<1>11. ASSUME NEW u \in Threads PROVE PendingKept(u)'
  <2>1. CASE u = t
    BY Zenon, <1>4, <2>1, NonePromised DEF PendingKept
  <2>2. CASE u # t
    <3>1. saving'[u] = saving[u] /\ file'[u] = file[u] /\ pending'[u] = pending[u] /\ PendingKept(u)
      BY Zenon, <1>4, <2>2 DEF DiskInv
    <3>2. ASSUME NEW n \in Files, NEW k \in Keys, NEW v, pending[u][<<n, k>>] = v, v # Nothing
          PROVE  /\ saving'[u] = "commit" /\ v \in Values \cup {Missing}
                 /\ Keeps(n, k, v)' /\ (Past(u, n)' => Stores(n, k, v)')
      <4>1. /\ saving[u] = "commit" /\ v \in Values \cup {Missing}
            /\ Keeps(n, k, v) /\ (Past(u, n) => Stores(n, k, v))
        BY Zenon, <3>1, <3>2 DEF PendingKept
      <4>2. Keeps(n, k, v)' /\ (Past(u, n)' => Past(u, n))
        BY Zenon, <1>3, <3>1, <4>1 DEF Keeps, Existing, HandleOf, Past
      <4> QED
        BY Zenon, <1>13, <3>1, <4>1, <4>2
    <3>3. ASSUME NEW n \in Files, NEW k \in Keys, pending'[u][<<n, k>>] # Nothing
          PROVE  /\ saving'[u] = "commit" /\ pending'[u][<<n, k>>] \in Values \cup {Missing}
                 /\ Keeps(n, k, pending[u][<<n, k>>])'
                 /\ Past(u, n)' => Stores(n, k, pending[u][<<n, k>>])'
      <4>1. PICK v : v = pending[u][<<n, k>>] /\ pending'[u][<<n, k>>] = v
        BY Zenon, <3>1
      <4>2. /\ saving'[u] = "commit" /\ v \in Values \cup {Missing}
            /\ Keeps(n, k, v)' /\ (Past(u, n)' => Stores(n, k, v)')
        BY Zenon, <3>2, <3>3, <4>1
      <4> QED
        BY Zenon, <4>1, <4>2 DEF Keeps, Stores
    <3> QED
      BY Zenon, <3>3 DEF PendingKept
  <2> QED
    BY Zenon, <2>1, <2>2
<1>12. PromisedKept'
  BY Zenon, <1>10 DEF PromisedKept
<1> QED
  BY Zenon, <1>6, <1>8, <1>11, <1>12 DEF DiskInv

-----------------------------------------------------------------------------
(* The process.                                                             *)

\* Nothing but the files and what was acknowledged outlives it.
LEMMA StopKeeps ==
    ASSUME DiskInv, Stop
    PROVE  DiskInv'
<1>1. TypeOK
  BY Zenon DEF DiskInv, CollectionsSound
<1>2. /\ up' = "down" /\ stops' = stops + 1 /\ names' = NoNames /\ pairs' = NoPairs
      /\ saving' = [t \in Threads |-> "no"] /\ file' = [t \in Threads |-> Main]
      /\ writing' = [t \in Threads |-> "no"] /\ freed' = FALSE
      /\ rows' = [t \in Threads |-> NoRows] /\ shared' = [t \in Threads |-> FALSE]
      /\ pending' = [t \in Threads |-> NoPromise]
      /\ files' = files /\ promised' = promised /\ commits' = commits
  BY Zenon DEF Stop
<1>3. DOMAIN names' = {}
  BY Zenon, <1>2 DEF NoNames
<1>4. stops' \in Nat
  <2>1. stops \in Nat
    BY Zenon, <1>1 DEF TypeOK
  <2> QED
    BY <1>2, <2>1
<1>5. TypeOK'
  <2>1. pairs' \in [Handles \X Keys -> Stored]
    BY Zenon, <1>2 DEF NoPairs, Stored
  <2>2. pending' \in [Threads -> Promises] /\ file' \in [Threads -> Files] /\ rows' \in [Threads -> Rows]
    BY Zenon, <1>2, NonePromised, FileNames, FilesTyped
  <2> QED
    BY Zenon, <1>1, <1>2, <1>3, <1>4, <2>1, <2>2 DEF TypeOK
<1>6. CollectionsSound'
  BY Zenon, <1>3, <1>5 DEF CollectionsSound, HandlesDistinct
<1>7. ASSUME NEW t \in Threads PROVE Saves(t)' /\ SharedKnown(t)' /\ ClosingDone(t)' /\ PendingKept(t)'
  <2>1. saving'[t] = "no" /\ writing'[t] = "no" /\ ~shared'[t] /\ pending'[t] = NoPromise
    BY Zenon, <1>2
  <2> QED
    BY Zenon, <2>1, NonePromised DEF Saves, SharedKnown, ClosingDone, PendingKept
<1>8. PromisedKept'
  BY Zenon, <1>2 DEF DiskInv, PromisedKept, Stores
<1> QED
  BY Zenon, <1>6, <1>7, <1>8 DEF DiskInv

\* No thread saves before the database is open.
LEMMA NobodySaves ==
    ASSUME DiskInv, up # "up", NEW t \in Threads
    PROVE  /\ saving[t] = "no" /\ writing[t] = "no" /\ ~shared[t]
           /\ \A n \in Files, k \in Keys : pending[t][<<n, k>>] = Nothing
BY Zenon DEF DiskInv, Saves, SharedKnown, PendingKept

LEMMA OpenFailsKeeps ==
    ASSUME DiskInv, OpenFails
    PROVE  DiskInv'
<1>1. /\ up = "down" /\ up' = "failed" /\ names' = names /\ pairs' = pairs /\ files' = files
      /\ saving' = saving /\ file' = file /\ writing' = writing /\ rows' = rows
      /\ shared' = shared /\ freed' = freed
      /\ pending' = pending /\ promised' = promised /\ stops' = stops /\ commits' = commits
  BY Zenon DEF OpenFails, memory, saver, buffers, bounds
<1>2. up # "up" /\ up' # "up" /\ up' \in {"down", "up", "failed"}
  BY Zenon, <1>1
<1>3. CollectionsSound'
  BY Zenon, <1>1, <1>2 DEF DiskInv, CollectionsSound, TypeOK, HandlesDistinct
<1>4. ASSUME NEW t \in Threads PROVE Saves(t)' /\ SharedKnown(t)' /\ ClosingDone(t)' /\ PendingKept(t)'
  BY Zenon, <1>1, <1>2, NobodySaves DEF Saves, SharedKnown, ClosingDone, PendingKept
<1>5. PromisedKept'
  BY Zenon, <1>1, <1>2 DEF DiskInv, PromisedKept, Stores
<1> QED
  BY Zenon, <1>3, <1>4, <1>5 DEF DiskInv

\* Opening the database finds every pair that was acknowledged.
LEMMA OpenKeeps ==
    ASSUME DiskInv, OpenDatabase
    PROVE  DiskInv'
<1>1. TypeOK /\ up = "down" /\ up # "up" /\ \A f \in Files : files[f].state # "torn"
  BY Zenon DEF DiskInv, CollectionsSound, OpenDatabase
<1>2. PICK handles \in [Readable \ {Main} -> Handles \ {Main}] :
         /\ IsInjective(handles) /\ names' = handles
         /\ pairs' = [c \in Handles \X Keys |-> LoadedPair(handles, c[1], c[2])]
  BY Zenon DEF OpenDatabase
<1>3. /\ up' = "up" /\ commits' = 0 /\ files' = files /\ saving' = saving /\ file' = file
      /\ writing' = writing /\ rows' = rows /\ shared' = shared /\ freed' = freed
      /\ pending' = pending /\ promised' = promised /\ stops' = stops
  BY Zenon DEF OpenDatabase, saver, buffers
<1>4. /\ DOMAIN names' = Readable \ {Main}
      /\ \A n \in DOMAIN names' : names'[n] \in Handles /\ names'[n] # Main
      /\ \A m, n \in DOMAIN names' : names'[m] = names'[n] => m = n
  BY Zenon, <1>2 DEF IsInjective
<1> DEFINE owners(h) == LoadedFrom(handles, h)
<1>5. ASSUME NEW h \in Handles, NEW k \in Keys
      PROVE  pairs'[<<h, k>>] = IF owners(h) = {} THEN Missing
                                ELSE Loaded(files[CHOOSE n \in owners(h) : TRUE].rows[k])
  <2>1. pairs'[<<h, k>>] = LoadedPair(handles, h, k)
    BY SMT, <1>2
  <2> QED
    BY Zenon, <2>1 DEF LoadedPair
<1>6. ASSUME NEW h \in Handles, NEW k \in Keys PROVE pairs'[<<h, k>>] \in Stored
  <2>1. CASE owners(h) = {}
    BY Zenon, <1>5, <2>1 DEF Stored
  <2>2. CASE owners(h) # {}
    <3> DEFINE n == CHOOSE n \in owners(h) : TRUE
    <3>1. n \in owners(h)
      BY Zenon, <2>2
    <3>2. files[n] \in File
      BY Zenon, <1>1, <3>1 DEF LoadedFrom, Readable, TypeOK
    <3>3. files[n].rows[k] \in Values \cup {Missing, NullRange}
      BY Zenon, <3>2 DEF File, Rows
    <3>4. pairs'[<<h, k>>] = Loaded(files[n].rows[k])
      BY Zenon, <1>5, <2>2
    <3> HIDE DEF n
    <3> QED
      BY Zenon, <3>3, <3>4 DEF Loaded, Stored
  <2> QED
    BY Zenon, <2>1, <2>2
<1>7. pairs' \in [Handles \X Keys -> Stored]
  <2>1. ASSUME NEW c \in Handles \X Keys PROVE pairs'[c] \in Stored
    <3>1. PICK h \in Handles, k \in Keys : c = <<h, k>>
      OBVIOUS
    <3> QED
      BY Zenon, <1>6, <3>1
  <2>2. pairs' = [c \in Handles \X Keys |-> pairs'[c]]
    BY SMT, <1>2
  <2> QED
    BY Zenon, <2>1, <2>2
<1>8. TypeOK'
  <2>1. DOMAIN names' \subseteq Names
    BY Zenon, <1>4 DEF Readable, Files
  <2>2. 0 \in Nat
    OBVIOUS
  <2> QED
    BY Zenon, <1>1, <1>3, <1>4, <1>7, <2>1, <2>2 DEF TypeOK
<1>9. CollectionsSound'
  BY Zenon, <1>4, <1>8 DEF CollectionsSound, HandlesDistinct
<1>10. ASSUME NEW t \in Threads PROVE Saves(t)' /\ SharedKnown(t)' /\ ClosingDone(t)' /\ PendingKept(t)'
  <2>1. /\ saving'[t] = "no" /\ writing'[t] = "no" /\ ~shared'[t]
        /\ \A n \in Files, k \in Keys : pending'[t][<<n, k>>] = Nothing
    BY Zenon, <1>1, <1>3, NobodySaves
  <2> QED
    BY Zenon, <2>1 DEF Saves, SharedKnown, ClosingDone, PendingKept
<1>11. ASSUME NEW n \in Files, NEW k \in Keys, promised'[<<n, k>>] # Nothing
       PROVE  /\ promised'[<<n, k>>] \in Values \cup {Missing}
              /\ Keeps(n, k, promised[<<n, k>>])'
              /\ Stores(n, k, promised[<<n, k>>])'
  <2> DEFINE v == promised[<<n, k>>]
  <2>1. v \in Values \cup {Missing} /\ Stores(n, k, v) /\ promised'[<<n, k>>] = v
    BY Zenon, <1>3, <1>11 DEF DiskInv, PromisedKept
  <2> HIDE DEF v
  <2>2. files[n].state = "whole" /\ files[n].rows[k] = v
    <3>1. files[n] \in File
      BY Zenon, <1>1 DEF TypeOK
    <3>2. files[n].state \in {"absent", "torn", "whole"}
      BY Zenon, <3>1 DEF File
    <3> QED
      BY Zenon, <1>1, <2>1, <3>2 DEF Stores
  <2>3. n \in Readable /\ n \in Existing'
    BY Zenon, <1>4, <2>2 DEF Readable, Existing
  <2>4. HandleOf(n)' \in Handles
    BY Zenon, <1>4, <2>3, FileNames DEF HandleOf
  <2>5. n \in owners(HandleOf(n)')
    BY Zenon, <1>2, <2>3 DEF LoadedFrom, HandleOf
  <2>6. ASSUME NEW m \in owners(HandleOf(n)') PROVE m = n
    <3>1. m \in Existing' /\ n \in Existing' /\ HandleOf(m)' = HandleOf(n)'
      BY Zenon, <1>2, <1>4, <2>3 DEF Existing, LoadedFrom, HandleOf
    <3>2. CASE m = Main \/ n = Main
      BY Zenon, <1>4, <3>1, <3>2 DEF HandleOf, Existing
    <3>3. CASE m # Main /\ n # Main
      BY Zenon, <1>4, <3>1, <3>3 DEF HandleOf, Existing
    <3> QED
      BY Zenon, <3>2, <3>3
  <2>7. (CHOOSE m \in owners(HandleOf(n)') : TRUE) = n
    BY Zenon, <2>5, <2>6
  <2>8. pairs'[<<HandleOf(n)', k>>] = Loaded(files[n].rows[k])
    BY Zenon, <1>5, <2>4, <2>5, <2>7
  <2>9. pairs'[<<HandleOf(n)', k>>] = v
    BY Zenon, <2>1, <2>2, <2>8, ValuesKept
  <2> QED
    BY Zenon, <1>3, <2>1, <2>3, <2>9 DEF Keeps, Stores
<1>12. PromisedKept'
  BY Zenon, <1>11 DEF PromisedKept
<1> QED
  BY Zenon, <1>9, <1>10, <1>12 DEF DiskInv

-----------------------------------------------------------------------------
(* The theorems.                                                            *)

LEMMA DiskInit == Init => DiskInv
<1> SUFFICES ASSUME Init PROVE DiskInv
  BY Zenon
<1>1. DOMAIN names = {}
  BY Zenon DEF Init, NoNames
<1>2. TypeOK
  <2>1. pairs \in [Handles \X Keys -> Stored]
    BY Zenon DEF Init, NoPairs, Stored
  <2>2. pending \in [Threads -> Promises] /\ file \in [Threads -> Files] /\ promised \in Promises
    BY Zenon, NonePromised, FileNames DEF Init
  <2>3. files \in [Files -> File] /\ rows \in [Threads -> Rows]
    BY Zenon, FilesTyped DEF Init
  <2>4. stops \in Nat /\ commits \in Nat
    BY DEF Init
  <2> QED
    BY Zenon, <1>1, <2>1, <2>2, <2>3, <2>4 DEF Init, TypeOK
<1>3. CollectionsSound
  BY Zenon, <1>1, <1>2 DEF CollectionsSound, HandlesDistinct
<1>4. ASSUME NEW t \in Threads PROVE Saves(t) /\ SharedKnown(t) /\ ClosingDone(t) /\ PendingKept(t)
  <2>1. saving[t] = "no" /\ writing[t] = "no" /\ ~shared[t] /\ pending[t] = NoPromise
    BY Zenon DEF Init
  <2> QED
    BY Zenon, <2>1, NonePromised DEF Saves, SharedKnown, ClosingDone, PendingKept
<1>5. PromisedKept
  BY Zenon, NonePromised DEF Init, PromisedKept
<1> QED
  BY Zenon, <1>3, <1>4, <1>5 DEF DiskInv

LEMMA DiskStep == DiskInv /\ [Next]_vars => DiskInv'
<1> SUFFICES ASSUME DiskInv, [Next]_vars PROVE DiskInv'
  BY Zenon
<1>1. CASE UNCHANGED vars
  <2>1. /\ up' = up /\ names' = names /\ pairs' = pairs /\ files' = files
        /\ saving' = saving /\ file' = file /\ writing' = writing /\ rows' = rows
        /\ shared' = shared /\ freed' = freed /\ pending' = pending
        /\ promised' = promised /\ stops' = stops /\ commits' = commits
    BY Zenon, <1>1 DEF vars
  <2>2. CollectionsSound' /\ PromisedKept'
    BY ZenonT(60), <2>1 DEF DiskInv, CollectionsSound, TypeOK, HandlesDistinct, PromisedKept,
       Keeps, Stores, Existing, HandleOf
  <2>3. ASSUME NEW t \in Threads PROVE Saves(t)' /\ SharedKnown(t)' /\ PendingKept(t)'
    <3>1. Saves(t) /\ SharedKnown(t) /\ PendingKept(t)
      BY Zenon DEF DiskInv
    <3>2. Saves(t)' /\ SharedKnown(t)'
      BY Zenon, <2>1, <3>1 DEF Saves, SharedKnown, HasOpen, Existing
    <3>3. PendingKept(t)'
      BY ZenonT(60), <2>1, <3>1 DEF PendingKept, Past, Keeps, Stores, Existing, HandleOf
    <3> QED
      BY Zenon, <3>2, <3>3
  <2>4. \A t \in Threads : ClosingDone(t)'
    BY Zenon, <2>1 DEF DiskInv, ClosingDone, Existing, RowsOf, HandleOf
  <2> QED
    BY Zenon, <2>2, <2>3, <2>4 DEF DiskInv
<1>2. CASE Crash \/ \E t \in Threads : Closed(t)
  BY Zenon, <1>2, StopKeeps DEF Crash, Closed
<1>3. CASE Next
  BY Zenon, <1>2, <1>3, OpenKeeps, OpenFailsKeeps, HeadWriteKeeps, CommitKeeps, CreateKeeps,
     DropKeeps, CommitFlushKeeps, CloseKeeps, BufferRowsKeeps, WriteCollectionKeeps, NextFileKeeps, FlushedKeeps
     DEF Next
<1> QED
  BY Zenon, <1>1, <1>3

\* Collections have handles of their own, and no name or file is lost track of,
\* whatever is created, dropped, saved, loaded or cut off by a crash
\* (new_collection, ukv_database_init).
THEOREM DiskCollectionsSound == Spec => []CollectionsSound
<1>1. DiskInv => CollectionsSound
  BY Zenon DEF DiskInv
<1> QED
  BY <1>1, DiskInit, DiskStep, PTL DEF Spec

\* Between two files, of one save or of several, the disk holds every pair
\* whose saving ukv_transaction_commit acknowledged and that was not written
\* since, however many threads save, write and drop before and after; only
\* pairs whose file others had open while the commit wrote it are excepted
\* (write_collection).
THEOREM DiskHoldsFlushed == Spec => []FlushedOnDisk
<1>1. DiskInv => FlushedOnDisk
  <2> SUFFICES ASSUME DiskInv, \A f \in Files : files[f].state # "torn",
                      NEW c \in Places, promised[c] # Nothing
               PROVE  c[1] \in Readable /\ OnDisk[c[1]][c[2]] = Shown(promised[c])
    BY Zenon DEF FlushedOnDisk
  <2>1. PICK n \in Files, k \in Keys : c = <<n, k>>
    BY DEF Places
  <2>2. c[1] = n /\ c[2] = k
    BY <2>1
  <2>3. promised[c] \in Values \cup {Missing} /\ Stores(n, k, promised[c])
    BY Zenon, <2>1 DEF DiskInv, PromisedKept
  <2>4. files[n].state = "whole" /\ files[n].rows[k] = promised[c]
    <3>1. files[n] \in File
      BY Zenon DEF DiskInv, CollectionsSound, TypeOK
    <3>2. files[n].state \in {"absent", "torn", "whole"}
      BY Zenon, <3>1 DEF File
    <3> QED
      BY Zenon, <2>3, <3>2 DEF Stores
  <2>5. n \in Readable
    BY Zenon, <2>4 DEF Readable
  <2>6. OnDisk[n][k] = Shown(Loaded(files[n].rows[k]))
    BY Zenon, <2>5 DEF OnDisk
  <2>7. Shown(Loaded(promised[c])) = Shown(promised[c])
    BY Zenon, <2>3, ValuesKept
  <2> QED
    BY Zenon, <2>2, <2>4, <2>5, <2>6, <2>7
<1> QED
  BY <1>1, DiskInit, DiskStep, PTL DEF Spec

ClosedKept ==
    \A t \in Threads : Closed(t) =>
       \A n \in Existing, k \in Keys :
          pairs[<<HandleOf(n), k>>] # NullRange =>
             /\ n \in DOMAIN OnDisk'
             /\ OnDisk'[n][k] = pairs[<<HandleOf(n), k>>]

\* ukv_database_free leaves every collection on disk with its pairs and the
\* absence of its keys, whatever saves and crashes came before; null ranges,
\* which deletions outside transactions leave, are the exception.
THEOREM DiskCloseKeepsPairs == Spec => CloseKeepsPairs
<1>1. DiskInv => ClosedKept
  <2> SUFFICES ASSUME DiskInv, NEW t \in Threads, Closed(t), NEW n \in Existing, NEW k \in Keys,
                      pairs[<<HandleOf(n), k>>] # NullRange
               PROVE  n \in DOMAIN OnDisk' /\ OnDisk'[n][k] = pairs[<<HandleOf(n), k>>]
    BY Zenon DEF ClosedKept
  <2> DEFINE v == pairs[<<HandleOf(n), k>>]
  <2>1. CollectionsSound /\ TypeOK
    BY Zenon DEF DiskInv, CollectionsSound
  <2>2. saving[t] = "close" /\ writing[t] = "no" /\ Following(t) = {} /\ files' = files
    BY Zenon DEF Closed, AllWritten, Between, Stop
  <2>3. n < file[t] \/ n = file[t]
    <3>1. n \in Nat /\ file[t] \in Nat /\ file[t] \in Files
      BY Zenon, <2>1, ExistingFiles, FileNames DEF TypeOK
    <3>2. CASE n = Main
      <4>1. Main <= file[t]
        BY Zenon, <3>1, FileNames
      <4> QED
        BY <3>1, <3>2, <4>1
    <3>3. CASE n # Main
      <4>1. ~(n > file[t])
        BY Zenon, <2>2, <3>3 DEF Existing, Following
      <4> QED
        BY <3>1, <4>1
    <3> QED
      BY Zenon, <3>2, <3>3
  <2>4. files[n] = Whole(RowsOf(n))
    BY Zenon, <2>2, <2>3 DEF DiskInv, ClosingDone
  <2>5. files'[n].state = "whole" /\ files'[n].rows[k] = Saved(v)
    <3>1. RowsOf(n)[k] = Saved(v)
      BY SMT, <2>1, RowsTyped
    <3>2. Whole(RowsOf(n)).state = "whole" /\ Whole(RowsOf(n)).rows = RowsOf(n)
      BY Zenon, FileStates
    <3>3. files'[n] = Whole(RowsOf(n))
      BY Zenon, <2>2, <2>4
    <3> QED
      BY Zenon, <3>1, <3>2, <3>3
  <2>6. n \in Readable'
    BY Zenon, <2>1, <2>5, ExistingFiles DEF Readable
  <2>7. n \in DOMAIN OnDisk' /\ OnDisk'[n][k] = Shown(Loaded(files'[n].rows[k]))
    BY Zenon, <2>6 DEF OnDisk
  <2>8. v \in Stored
    <3>1. <<HandleOf(n), k>> \in Handles \X Keys
      BY Zenon, <2>1, ExistingFiles
    <3> QED
      BY Zenon, <2>1, <3>1 DEF TypeOK
  <2>9. Shown(Loaded(Saved(v))) = v
    BY Zenon, <2>8, PairsKept
  <2> QED
    BY Zenon, <2>5, <2>7, <2>9
<1>2. DiskInv /\ [Next]_vars => [ClosedKept]_vars
  BY Zenon, <1>1
<1>3. CloseKeepsPairs <=> [][ClosedKept]_vars
  BY PTL DEF CloseKeepsPairs, ClosedKept
<1> QED
  BY <1>2, <1>3, DiskInit, DiskStep, PTL DEF Spec
=============================================================================
