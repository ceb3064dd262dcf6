----------------------------- MODULE LocalStore -----------------------------
(***************************************************************************)
(* The object store on a directory (STORAGE_MODE=local): an object is a    *)
(* file, a prefix a directory, and every operation several system calls    *)
(* that those of other requests, and crashes of the server, fall between.  *)
(* Temporary files of uploads live next to their target.                   *)
(***************************************************************************)
EXTENDS Naturals, FiniteSets

CONSTANTS
    Keys,       \* object keys
    Dirs,       \* the directories below the root
    Root,       \* the directory of the store
    DirOf,      \* the directory of a key
    Up,         \* the parent of a directory
    Contents,   \* the bytes of objects
    NoObject,   \* a file that does not exist
    Blobs,      \* the keys under cas/
    Digest,     \* the blob a content hashes to
    Clients     \* requests in flight

ASSUME LayoutAssumption ==
    /\ Root \notin Dirs
    /\ DirOf \in [Keys -> Dirs] /\ Up \in [Dirs -> Dirs \cup {Root}]
    /\ Blobs \subseteq Keys /\ Digest \in [Contents -> Keys]
    /\ NoObject \notin Contents /\ Keys # {}

VARIABLES
    files,      \* the objects
    dirs,       \* the directories that exist
    temp,       \* how much of its temporary file a request has written
    orphans,    \* directories with a temporary file nobody will remove
    client,     \* requests: what they do, and to what
    troubled    \* a write failed, the server crashed or a prefix was deleted (history)

localVars == <<files, dirs, temp, orphans, client, troubled>>

NoClient == [pc |-> "idle", key |-> CHOOSE k \in Keys : TRUE, body |-> NoObject, dir |-> Root]

LocalInit ==
    /\ files = [k \in Keys |-> NoObject]
    /\ dirs = {} /\ orphans = {}
    /\ temp = [o \in Clients |-> "none"]
    /\ client = [o \in Clients |-> NoClient]
    /\ troubled = FALSE

-----------------------------------------------------------------------------
\* A blob must hash to its own name.
Fits(k, c) == k \in Blobs => Digest[c] = k

\* The directories from d up to the root, and the ones from d down.
Ancestors(d) == {d} \cup {x \in Dirs : x = Up[d] \/ \E y \in Dirs : y = Up[d] /\ x = Up[y]}
Within(d) == {x \in dirs : d \in Ancestors(x)}

TempsIn(d) == {o \in Clients : temp[o] # "none" /\ DirOf[client[o].key] = d}
FilesIn(d) == {k \in Keys : files[k] # NoObject /\ DirOf[k] = d}
Empty(d) == FilesIn(d) = {} /\ TempsIn(d) = {} /\ d \notin orphans /\ \A x \in dirs : Up[x] # d

Turn(o, c) == client' = [client EXCEPT ![o] = c]

-----------------------------------------------------------------------------
(* Put.                                                                      *)

\* The directories of the key are made.
MkdirAll(o, pc, k, c) ==
    /\ dirs' = dirs \cup Ancestors(DirOf[k])
    /\ Turn(o, [NoClient EXCEPT !.pc = pc, !.key = k, !.body = c])
    /\ UNCHANGED <<files, temp, orphans, troubled>>

\* HandleUpload: the body of a request under the key its token grants.
HandleUpload(o, k, c) == client[o].pc = "idle" /\ MkdirAll(o, "create", k, c)

\* Copy opens its source, which stays what it was when opened, and puts it.
Copy(o, from, to) ==
    /\ client[o].pc = "idle" /\ files[from] # NoObject /\ to \notin Blobs
    /\ MkdirAll(o, "create", to, files[from])

\* A put ends with an error; its temporary file is removed.
Fail(o) ==
    /\ temp' = [temp EXCEPT ![o] = "none"]
    /\ Turn(o, NoClient)
    /\ troubled' = TRUE
    /\ UNCHANGED <<files, dirs, orphans>>

\* CreateTemp, in a directory that may be gone again.
CreateTemp(o) ==
    /\ client[o].pc = "create"
    /\ IF DirOf[client[o].key] \in dirs
       THEN /\ temp' = [temp EXCEPT ![o] = "partial"]
            /\ Turn(o, [client[o] EXCEPT !.pc = "copy"])
            /\ UNCHANGED <<files, dirs, orphans, troubled>>
       ELSE Fail(o)

\* Mutant: any body is taken.
AnyBody(o) == TRUE

\* hashCheckedReader: the end of a body that does not hash to the blob's name is an
\* error.
BodyAccepted(o) == Fits(client[o].key, client[o].body)

\* io.Copy, Sync and Close of a body that arrives whole.
CopyBody(o) ==
    /\ client[o].pc = "copy"
    /\ IF BodyAccepted(o)
       THEN /\ temp' = [temp EXCEPT ![o] = IF @ = "none" THEN @ ELSE "whole"]
            /\ Turn(o, [client[o] EXCEPT !.pc = "rename"])
            /\ UNCHANGED <<files, dirs, orphans, troubled>>
       ELSE Fail(o)

\* The body breaks off, or a system call fails.
BreakOff(o) == client[o].pc \in {"create", "copy", "rename"} /\ Fail(o)

\* Rename puts the file in place, if DeletePrefix has not taken it.
Rename(o) ==
    /\ client[o].pc = "rename"
    /\ IF temp[o] = "whole"
       THEN /\ files' = [files EXCEPT ![client[o].key] = client[o].body]
            /\ temp' = [temp EXCEPT ![o] = "none"]
            /\ Turn(o, NoClient)
            /\ UNCHANGED <<dirs, orphans, troubled>>
       ELSE Fail(o)

-----------------------------------------------------------------------------
(* Delete and DeletePrefix.                                                  *)

\* The file is removed, if it is there, before the directories it leaves empty.
Delete(o, k) ==
    /\ client[o].pc = "idle"
    /\ files' = [files EXCEPT ![k] = NoObject]
    /\ Turn(o, [NoClient EXCEPT !.pc = "prune", !.key = k, !.dir = DirOf[k]])
    /\ UNCHANGED <<dirs, temp, orphans, troubled>>

\* Mutant: only the directory of the key is removed.
PruneOne(d) == Root

\* The directory to remove after d.
NextToPrune(d) == Up[d]

\* One directory is removed; the first that is not empty, or not there, ends it.
Prune(o) ==
    LET d == client[o].dir IN
    /\ client[o].pc = "prune"
    /\ IF d # Root /\ d \in dirs /\ Empty(d)
       THEN dirs' = dirs \ {d} /\ Turn(o, [client[o] EXCEPT !.dir = NextToPrune(d)])
       ELSE UNCHANGED dirs /\ Turn(o, NoClient)
    /\ UNCHANGED <<files, temp, orphans, troubled>>

\* DeletePrefix of a directory, never of the root.
DeletePrefix(o, d) ==
    /\ client[o].pc = "idle"
    /\ Turn(o, [NoClient EXCEPT !.pc = "wipe", !.dir = d])
    /\ troubled' = TRUE
    /\ UNCHANGED <<files, dirs, temp, orphans>>

\* RemoveAll takes one entry below the directory: an object, a temporary file, or an
\* empty directory.
RemoveEntry(o) ==
    LET below == Within(client[o].dir) IN
    /\ client[o].pc = "wipe"
    /\ \/ \E k \in Keys : /\ DirOf[k] \in below /\ files[k] # NoObject
                          /\ files' = [files EXCEPT ![k] = NoObject]
                          /\ UNCHANGED <<dirs, temp, orphans>>
       \/ \E p \in Clients : /\ \E d \in below : p \in TempsIn(d)
                             /\ temp' = [temp EXCEPT ![p] = "none"]
                             /\ UNCHANGED <<files, dirs, orphans>>
       \/ \E d \in orphans \cap below : orphans' = orphans \ {d} /\ UNCHANGED <<files, dirs, temp>>
       \/ \E d \in below : Empty(d) /\ dirs' = dirs \ {d} /\ UNCHANGED <<files, temp, orphans>>
    /\ UNCHANGED <<client, troubled>>

\* It ends when the directory is gone.
FinishDeletePrefix(o) ==
    /\ client[o].pc = "wipe" /\ client[o].dir \notin dirs
    /\ Turn(o, NoClient)
    /\ UNCHANGED <<files, dirs, temp, orphans, troubled>>

\* The server dies: what was written stays, temporary files included.
CrashServer ==
    /\ \E o \in Clients : client[o].pc # "idle"
    /\ client' = [o \in Clients |-> NoClient]
    /\ temp' = [o \in Clients |-> "none"]
    /\ orphans' = orphans \cup {d \in dirs : TempsIn(d) # {}}
    /\ troubled' = TRUE
    /\ UNCHANGED <<files, dirs>>

LocalNext ==
    \/ \E o \in Clients :
        \/ \E k \in Keys, c \in Contents : HandleUpload(o, k, c)
        \/ \E from, to \in Keys : Copy(o, from, to)
        \/ CreateTemp(o) \/ CopyBody(o) \/ BreakOff(o) \/ Rename(o)
        \/ \E k \in Keys : Delete(o, k)
        \/ Prune(o)
        \/ \E d \in Dirs : DeletePrefix(o, d)
        \/ RemoveEntry(o) \/ FinishDeletePrefix(o)
    \/ CrashServer

LocalSpec == LocalInit /\ [][LocalNext]_localVars

-----------------------------------------------------------------------------
Objects == INSTANCE ObjectStore WITH objects <- files

\* The directory is an object store: whatever is interrupted, and whatever runs at
\* once, a key holds a whole object or none, "an interrupted write leaves nothing at
\* the key", and a blob hashes to its name.
ImplementsObjectStore == Objects!StoreSpec

\* ListPrefixes: the directories of a prefix.
ListPrefixes(d) == {x \in dirs : Up[x] = d}

\* "A directory is not an object and must not be listed as a prefix": once the
\* requests are over a listed prefix holds an object, however puts, copies and
\* deletions in the same directories overlapped.  (A put that fails leaves the
\* directories it made, and DeletePrefix the parents of its directory.)
PrefixesHoldObjects ==
    ~troubled /\ (\A o \in Clients : client[o].pc = "idle") =>
        \A d \in Dirs \cup {Root} : \A x \in ListPrefixes(d) : \E y \in Within(x) : FilesIn(y) # {}
=============================================================================
