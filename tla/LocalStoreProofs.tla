-------------------------- MODULE LocalStoreProofs --------------------------
(***************************************************************************)
(* The directory implements the object store, for any keys, contents and   *)
(* number of requests.                                                     *)
(***************************************************************************)
EXTENDS LocalStore, TLAPS

Putting == {"create", "copy", "rename"}

\* What a request between its first and its last step carries.
Carries(o) ==
    /\ client[o].key \in Keys
    /\ client[o].pc \in Putting => client[o].body \in Contents
    /\ client[o].pc = "rename" => Fits(client[o].key, client[o].body)

\* The state is typed; a put that is under way has a key and a whole body, which is
\* checked against the key before the rename.
LocalInv ==
    /\ files \in [Keys -> Contents \cup {NoObject}]
    /\ client \in [Clients -> [pc : Putting \cup {"idle", "prune", "wipe"}, key : Keys,
                               body : Contents \cup {NoObject}, dir : Dirs \cup {Root}]]
    /\ \A o \in Clients : Carries(o)

-----------------------------------------------------------------------------
\* A caller that does nothing is one the types allow.
LEMMA NoClientTyped ==
    /\ NoClient.pc = "idle" /\ NoClient.key \in Keys
    /\ NoClient \in [pc : Putting \cup {"idle", "prune", "wipe"}, key : Keys,
                     body : Contents \cup {NoObject}, dir : Dirs \cup {Root}]
<1>1. (CHOOSE k \in Keys : TRUE) \in Keys
  BY LayoutAssumption
<1> QED BY <1>1 DEF NoClient, Putting

\* LocalStore starts without objects and without requests.
LEMMA LocalInitial == LocalInit => LocalInv /\ Objects!StoreInit
<1> SUFFICES ASSUME LocalInit PROVE LocalInv /\ Objects!StoreInit
  OBVIOUS
<1>1. files \in [Keys -> Contents \cup {NoObject}]
  BY DEF LocalInit
<1>2. client \in [Clients -> [pc : Putting \cup {"idle", "prune", "wipe"}, key : Keys,
                              body : Contents \cup {NoObject}, dir : Dirs \cup {Root}]]
  BY NoClientTyped DEF LocalInit
<1>3. ASSUME NEW o \in Clients PROVE Carries(o)
  BY NoClientTyped DEF LocalInit, Carries, Putting
<1>4. Objects!StoreInit
  BY DEF LocalInit, Objects!StoreInit
<1> QED BY <1>1, <1>2, <1>3, <1>4 DEF LocalInv

-----------------------------------------------------------------------------
Client == [pc : Putting \cup {"idle", "prune", "wipe"}, key : Keys,
           body : Contents \cup {NoObject}, dir : Dirs \cup {Root}]

\* A request as Carries wants it.
Sound(c) ==
    /\ c \in Client
    /\ c.pc \in Putting => c.body \in Contents
    /\ c.pc = "rename" => Fits(c.key, c.body)

\* A step that turns one request into a sound one and leaves the files, or changes them
\* as the store does, keeps the invariant.
LEMMA TurnKeeps ==
    ASSUME LocalInv, NEW o \in Clients, NEW c, Turn(o, c), Sound(c),
           files' \in [Keys -> Contents \cup {NoObject}]
    PROVE  LocalInv'
<1>1. client' \in [Clients -> Client]
  BY DEF LocalInv, Turn, Sound, Client
<1>2. ASSUME NEW p \in Clients PROVE Carries(p)'
  <2>1. CASE p = o
    BY <2>1 DEF LocalInv, Turn, Sound, Client, Carries, Fits
  <2>2. CASE p # o
    BY <2>2 DEF LocalInv, Turn, Carries, Fits
  <2> QED BY <2>1, <2>2
<1> QED BY <1>1, <1>2 DEF LocalInv, Client

\* Every step of the directory keeps the invariant, and is a put, a removal or nothing
\* to the objects: Rename puts a body that was checked, Delete and RemoveAll take one
\* object each, and every other system call leaves the objects alone.
LEMMA LocalStep ==
    ASSUME LocalInv, [LocalNext]_localVars
    PROVE  LocalInv' /\ [Objects!StoreNext]_files
<1> USE LayoutAssumption, NoClientTyped
<1> DEFINE Silent == files' = files
<1>1. CASE UNCHANGED localVars
  BY <1>1 DEF LocalInv, localVars, Carries, Fits
<1>2. Sound(NoClient)
  BY DEF Sound, Client, Putting
<1>3. ASSUME NEW o \in Clients, Fail(o) PROVE LocalInv' /\ Silent
  BY <1>2, <1>3, TurnKeeps DEF Fail, LocalInv
<1>4. ASSUME NEW o \in Clients, NEW k \in Keys, NEW c \in Contents, MkdirAll(o, "create", k, c)
      PROVE  LocalInv' /\ Silent
  <2> DEFINE new == [NoClient EXCEPT !.pc = "create", !.key = k, !.body = c]
  <2>1. Sound(new)
    BY DEF Sound, Client, Putting
  <2>2. Turn(o, new) /\ files' = files
    BY <1>4 DEF MkdirAll
  <2> HIDE DEF new
  <2> QED BY <2>1, <2>2, TurnKeeps DEF LocalInv
<1>5. ASSUME NEW o \in Clients, NEW k \in Keys, NEW c \in Contents, HandleUpload(o, k, c)
      PROVE  LocalInv' /\ Silent
  BY <1>4, <1>5 DEF HandleUpload
<1>6. ASSUME NEW o \in Clients, NEW from \in Keys, NEW to \in Keys, Copy(o, from, to)
      PROVE  LocalInv' /\ Silent
  <2>1. files[from] \in Contents
    BY <1>6 DEF Copy, LocalInv
  <2> QED BY <1>4, <1>6, <2>1 DEF Copy
<1>7. ASSUME NEW o \in Clients, CreateTemp(o) PROVE LocalInv' /\ Silent
  <2> DEFINE new == [client[o] EXCEPT !.pc = "copy"]
  <2>1. CASE Fail(o)
    BY <1>3, <2>1
  <2>2. CASE Turn(o, new) /\ UNCHANGED files
    <3>1. Sound(new)
      BY <1>7 DEF CreateTemp, Sound, Client, LocalInv, Carries, Putting
    <3> HIDE DEF new
    <3> QED BY <2>2, <3>1, TurnKeeps DEF LocalInv
  <2> QED BY <1>7, <2>1, <2>2 DEF CreateTemp
<1>8. ASSUME NEW o \in Clients, CopyBody(o) PROVE LocalInv' /\ Silent
  <2> DEFINE new == [client[o] EXCEPT !.pc = "rename"]
  <2>1. CASE Fail(o)
    BY <1>3, <2>1
  <2>2. CASE BodyAccepted(o) /\ Turn(o, new) /\ UNCHANGED files
    <3>1. Sound(new)
      BY <1>8, <2>2 DEF CopyBody, BodyAccepted, Sound, Client, LocalInv, Carries, Putting
    <3> HIDE DEF new
    <3> QED BY <2>2, <3>1, TurnKeeps DEF LocalInv
  <2> QED BY <1>8, <2>1, <2>2 DEF CopyBody
<1>9. ASSUME NEW o \in Clients, Rename(o) PROVE LocalInv' /\ [Objects!StoreNext]_files
  <2>1. CASE Fail(o)
    BY <1>3, <2>1
  <2>2. CASE /\ files' = [files EXCEPT ![client[o].key] = client[o].body]
             /\ Turn(o, NoClient)
    <3> DEFINE k == client[o].key
               c == client[o].body
    <3>1. k \in Keys /\ c \in Contents /\ Fits(k, c)
      BY <1>9 DEF Rename, LocalInv, Carries, Putting
    <3>2. files' \in [Keys -> Contents \cup {NoObject}]
      BY <2>2, <3>1 DEF LocalInv
    <3>3. Objects!Put(k, c)
      BY <2>2, <3>1 DEF Objects!Put
    <3>4. Objects!StoreNext
      BY <3>1, <3>3 DEF Objects!StoreNext
    <3> QED BY <1>2, <2>2, <3>2, <3>4, TurnKeeps
  <2> QED BY <1>9, <2>1, <2>2 DEF Rename
<1>10. ASSUME NEW o \in Clients, NEW k \in Keys, Delete(o, k)
       PROVE  LocalInv' /\ [Objects!StoreNext]_files
  <2> DEFINE new == [NoClient EXCEPT !.pc = "prune", !.key = k, !.dir = DirOf[k]]
  <2>1. Sound(new)
    BY DEF Sound, Client, Putting
  <2>2. Turn(o, new) /\ files' = [files EXCEPT ![k] = NoObject]
    BY <1>10 DEF Delete
  <2>3. files' \in [Keys -> Contents \cup {NoObject}]
    BY <2>2 DEF LocalInv
  <2>4. Objects!StoreNext
    BY <2>2 DEF Objects!StoreNext, Objects!Remove
  <2> HIDE DEF new
  <2> QED BY <2>1, <2>2, <2>3, <2>4, TurnKeeps
<1>11. ASSUME NEW o \in Clients, Prune(o) PROVE LocalInv' /\ Silent
  <2> DEFINE d == client[o].dir
             new == [client[o] EXCEPT !.dir = NextToPrune(d)]
  <2>1. CASE Turn(o, NoClient) /\ UNCHANGED files
    BY <1>2, <2>1, TurnKeeps DEF LocalInv
  <2>2. CASE d # Root /\ Turn(o, new) /\ UNCHANGED files
    <3>1. d \in Dirs
      BY <2>2 DEF LocalInv
    <3>2. NextToPrune(d) \in Dirs \cup {Root}
      BY <3>1 DEF NextToPrune
    <3>3. Sound(new)
      BY <1>11, <3>2 DEF Prune, Sound, Client, LocalInv, Carries, Putting
    <3> HIDE DEF new
    <3> QED BY <2>2, <3>3, TurnKeeps DEF LocalInv
  <2> QED BY <1>11, <2>1, <2>2 DEF Prune
<1>12. ASSUME NEW o \in Clients, NEW d \in Dirs, DeletePrefix(o, d) PROVE LocalInv' /\ Silent
  <2> DEFINE new == [NoClient EXCEPT !.pc = "wipe", !.dir = d]
  <2>1. Sound(new)
    BY DEF Sound, Client, Putting
  <2>2. Turn(o, new) /\ files' = files
    BY <1>12 DEF DeletePrefix
  <2> HIDE DEF new
  <2> QED BY <2>1, <2>2, TurnKeeps DEF LocalInv
<1>13. ASSUME NEW o \in Clients, RemoveEntry(o) PROVE LocalInv' /\ [Objects!StoreNext]_files
  <2>1. client' = client
    BY <1>13 DEF RemoveEntry
  <2>2. files' = files \/ \E k \in Keys : files' = [files EXCEPT ![k] = NoObject]
    BY <1>13 DEF RemoveEntry
  <2>3. files' \in [Keys -> Contents \cup {NoObject}]
    BY <2>2 DEF LocalInv
  <2>4. LocalInv'
    BY <2>1, <2>3 DEF LocalInv, Carries, Fits
  <2>5. [Objects!StoreNext]_files
    BY <2>2 DEF Objects!StoreNext, Objects!Remove
  <2> QED BY <2>4, <2>5
<1>14. ASSUME NEW o \in Clients, FinishDeletePrefix(o) PROVE LocalInv' /\ Silent
  BY <1>2, <1>14, TurnKeeps DEF FinishDeletePrefix, LocalInv
<1>15. ASSUME CrashServer PROVE LocalInv' /\ Silent
  <2>1. files' = files /\ client' = [o \in Clients |-> NoClient]
    BY <1>15 DEF CrashServer
  <2>2. client' \in [Clients -> Client]
    BY <2>1, <1>2 DEF Sound
  <2>3. ASSUME NEW o \in Clients PROVE Carries(o)'
    BY <2>1 DEF Carries, Putting
  <2> QED BY <2>1, <2>2, <2>3 DEF LocalInv, Client
<1>16. ASSUME NEW o \in Clients, BreakOff(o) PROVE LocalInv' /\ Silent
  BY <1>3, <1>16 DEF BreakOff
<1> HIDE DEF Silent
<1>17. Silent => [Objects!StoreNext]_files
  BY DEF Silent
<1> QED
  BY <1>1, <1>5, <1>6, <1>7, <1>8, <1>9, <1>10, <1>11, <1>12, <1>13, <1>14, <1>15, <1>16, <1>17
  DEF LocalNext, Silent

\* The local store implements ObjectStore (store.go: "an interrupted write leaves nothing
\* at the key"): however puts, copies, deletions of keys and of prefixes, failures and
\* crashes interleave, the files change by whole puts of bodies that fit their keys and
\* by removals.
THEOREM LocalStoreIsAnObjectStore == LocalSpec => ImplementsObjectStore
<1>1. LocalInit => LocalInv /\ Objects!StoreInit
  BY LocalInitial
<1>2. LocalInv /\ [LocalNext]_localVars => LocalInv' /\ [Objects!StoreNext]_files
  BY LocalStep
<1> QED BY <1>1, <1>2, PTL DEF LocalSpec, ImplementsObjectStore, Objects!StoreSpec
=============================================================================
