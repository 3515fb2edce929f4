----------------------------- MODULE RocksBase ------------------------------
(* What the modules about the engine over RocksDB are parameterised by.    *)
EXTENDS Integers, FiniteSets, Sequences

CONSTANTS
    Threads,         \* each with a ukv_transaction_t of its own
    Families,        \* column families: rocks_collection_t
    Values,          \* blobs that are not empty
    Missing,         \* no pair under the key
    None             \* no thread, no name, no snapshot
=============================================================================
