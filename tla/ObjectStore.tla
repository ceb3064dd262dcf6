---------------------------- MODULE ObjectStore ----------------------------
(***************************************************************************)
(* What the Store interface promises the features built on it: a key holds *)
(* one whole object or none, a write or a removal of a key happens at one  *)
(* moment, and a blob holds the bytes its name is the hash of.             *)
(***************************************************************************)
CONSTANTS
    Keys,       \* object keys
    Contents,   \* the bytes of objects
    NoObject,   \* what a key without an object holds
    Fits(_, _)  \* the contents a key may hold

VARIABLE objects

Put(k, c) == Fits(k, c) /\ objects' = [objects EXCEPT ![k] = c]

Remove(k) == objects' = [objects EXCEPT ![k] = NoObject]

StoreInit == objects = [k \in Keys |-> NoObject]

StoreNext == \E k \in Keys : Remove(k) \/ \E c \in Contents : Put(k, c)

StoreSpec == StoreInit /\ [][StoreNext]_objects
=============================================================================
