----------------------------- MODULE WebStorage -----------------------------
(***************************************************************************)
(* localStorage: one file for each value, an index of keys, and a          *)
(* directory that is the lock of the processes sharing an identity.        *)
(*                                                                         *)
(* Every write replaces one file whole, and any of them may fail or be the *)
(* last before a crash.  A lock outlives a crashed holder until another    *)
(* process finds it too old, and looking and breaking are two steps.       *)
(* The order of keys, encodings and the copies kept of damaged files are   *)
(* left out.                                                               *)
(*                                                                         *)
(* External: the disk, which may damage a file.                            *)
(***************************************************************************)
EXTENDS Naturals, Sequences, SequencesExt

CONSTANTS
    Sharers,   \* the processes of one identity
    MaxStores, \* bound: operations begun
    MaxDamage  \* bound: files damaged

StoreKeys == {"theme", "count"}
Stored == {"dark", "light"}

Missing == "missing"
Corrupt == "corrupt"
NoIndex == {Missing}
BadIndex == {Corrupt}
NoSharer == "nobody"

\* What an operation asks for: the value to set, or what else to do.
StoreRequests == [key : StoreKeys, as : Stored \cup {"get", "remove", "clear"}]

VARIABLES
    keyIndex,       \* index.json: the keys, or NoIndex or BadIndex
    items,          \* items/: key -> value, Missing or Corrupt
    dirLock,        \* .lock: its maker, and whether it is older than STALE_LOCK
    sharer,         \* process -> where it is, its request, the writes it has left
    stores, damage, \* operations begun, files damaged
    kept,           \* history: key -> what a reader may be told
    crowded         \* history: two processes have held the lock at once

storeVars == <<keyIndex, items, dirLock, sharer, stores, damage, kept, crowded>>

NoDirLock == [by |-> NoSharer, old |-> FALSE]
Unoccupied == [at |-> "resting", request |-> [key |-> "theme", as |-> "get"], todo |-> <<>>]

StorageInit ==
    /\ keyIndex = NoIndex
    /\ items = [k \in StoreKeys |-> Missing]
    /\ dirLock = NoDirLock
    /\ sharer = [p \in Sharers |-> Unoccupied]
    /\ stores = 0 /\ damage = 0
    /\ kept = [k \in StoreKeys |-> {Missing}]
    /\ crowded = FALSE

(***************************************************************************)
(* What an operation writes, in its order                                  *)
(***************************************************************************)
WriteIndex(keys) == [file |-> "index", to |-> keys]
WriteItem(k, value) == [file |-> k, to |-> value]

\* rebuild_index: the keys of the items that can be read.
Rebuilt == {k \in StoreKeys : items[k] \in Stored}

Usable == keyIndex \notin {NoIndex, BadIndex}
IndexKeys == IF Usable THEN keyIndex ELSE Rebuilt

\* A damaged file is renamed away before what replaces it is written.
SetAside(files) == [i \in 1..Len(files) |-> WriteItem(files[i], Missing)]

Rebuilding ==
    IF Usable THEN <<>>
    ELSE (IF keyIndex = BadIndex THEN <<WriteIndex(NoIndex)>> ELSE <<>>)
         \o SetAside(SetToSeq({k \in StoreKeys : items[k] = Corrupt}))
         \o <<WriteIndex(Rebuilt)>>

\* A mutant: the file is removed before the index forgets the key.
RemovingFileFirst(k) ==
    IF k \notin IndexKeys THEN <<>>
    ELSE <<WriteItem(k, Missing), WriteIndex(IndexKeys \ {k})>>

Removing(k) ==
    IF k \notin IndexKeys THEN <<>>
    ELSE <<WriteIndex(IndexKeys \ {k}), WriteItem(k, Missing)>>

Dropping(k) ==
    IF k \in IndexKeys /\ items[k] = Corrupt
    THEN <<WriteIndex(IndexKeys \ {k}), WriteItem(k, Missing)>>
    ELSE <<>>

Setting(k, value) ==
    <<WriteItem(k, value)>>
    \o (IF k \in IndexKeys THEN <<>> ELSE <<WriteIndex(IndexKeys \cup {k})>>)

\* clear reads no index, and removes every file it finds.
Clearing ==
    <<WriteIndex({})>> \o SetAside(SetToSeq({k \in StoreKeys : items[k] # Missing}))

WritesOf(request) ==
    CASE request.as = "clear" -> Clearing
      [] request.as = "remove" -> Rebuilding \o Removing(request.key)
      [] request.as = "get" -> Rebuilding \o Dropping(request.key)
      [] OTHER -> Rebuilding \o Setting(request.key, request.as)

(***************************************************************************)
(* The lock and the operations                                             *)
(***************************************************************************)
\* What a request makes of key k, and what it touches.
Outcome(request) == IF request.as \in Stored THEN request.as ELSE Missing
Touches(request) ==
    CASE request.as = "clear" -> StoreKeys
      [] request.as = "get" -> {}
      [] OTHER -> {request.key}

Holders == {p \in Sharers : sharer[p].at = "inside"}

AskStore(p) ==
    /\ sharer[p].at = "resting" /\ stores < MaxStores
    /\ stores' = stores + 1
    /\ \E request \in StoreRequests :
           /\ request.as = "clear" => request.key = "theme"
           /\ sharer' = [sharer EXCEPT ![p] = [@ EXCEPT !.at = "waiting", !.request = request]]
    /\ UNCHANGED <<keyIndex, items, dirLock, damage, kept, crowded>>

\* mkdir succeeds: the operation reads what is there and knows its writes.
TakeLock(p) ==
    /\ sharer[p].at = "waiting" /\ dirLock = NoDirLock
    /\ dirLock' = [by |-> p, old |-> FALSE]
    /\ sharer' = [sharer EXCEPT ![p].at = "inside", ![p].todo = WritesOf(sharer[p].request)]
    /\ kept' = [k \in StoreKeys |->
                    IF k \in Touches(sharer[p].request)
                    THEN kept[k] \cup {Outcome(sharer[p].request)}
                    ELSE kept[k]]
    /\ crowded' = (crowded \/ Holders # {})
    /\ UNCHANGED <<keyIndex, items, stores, damage>>

\* STALE_LOCK passes: the holder crashed, is slow, or its machine slept.
LockAges ==
    /\ dirLock # NoDirLock /\ ~dirLock.old
    /\ dirLock' = [dirLock EXCEPT !.old = TRUE]
    /\ UNCHANGED <<keyIndex, items, sharer, stores, damage, kept, crowded>>

JudgeStale(p) ==
    /\ sharer[p].at = "waiting" /\ dirLock.old
    /\ sharer' = [sharer EXCEPT ![p].at = "breaking"]
    /\ UNCHANGED <<keyIndex, items, dirLock, stores, damage, kept, crowded>>

\* The rename moves whatever has the name by now.
BreakLock(p) ==
    /\ sharer[p].at = "breaking"
    /\ dirLock' = NoDirLock
    /\ sharer' = [sharer EXCEPT ![p].at = "waiting"]
    /\ UNCHANGED <<keyIndex, items, stores, damage, kept, crowded>>

GiveUp(p) ==
    /\ sharer[p].at = "waiting" /\ dirLock # NoDirLock
    /\ sharer' = [sharer EXCEPT ![p] = Unoccupied]
    /\ UNCHANGED <<keyIndex, items, dirLock, stores, damage, kept, crowded>>

ApplyWrite(write) ==
    IF write.file = "index"
    THEN keyIndex' = write.to /\ UNCHANGED items
    ELSE items' = [items EXCEPT ![write.file] = write.to] /\ UNCHANGED keyIndex

PerformWrite(p) ==
    /\ sharer[p].at = "inside" /\ sharer[p].todo # <<>>
    /\ ApplyWrite(Head(sharer[p].todo))
    /\ sharer' = [sharer EXCEPT ![p].todo = Tail(@)]
    /\ UNCHANGED <<dirLock, stores, damage, kept, crowded>>

\* Dropping the lock removes the directory of that name.
Leave(p) ==
    /\ dirLock' = NoDirLock
    /\ sharer' = [sharer EXCEPT ![p] = Unoccupied]

FinishStore(p) ==
    /\ sharer[p].at = "inside" /\ sharer[p].todo = <<>>
    /\ Leave(p)
    /\ kept' = [k \in StoreKeys |->
                    IF k \in Touches(sharer[p].request)
                    THEN {Outcome(sharer[p].request)} ELSE kept[k]]
    /\ UNCHANGED <<keyIndex, items, stores, damage, crowded>>

\* A write fails, before its rename or when the directory is flushed after it.
WriteFails(p) ==
    /\ sharer[p].at = "inside" /\ sharer[p].todo # <<>>
    /\ ApplyWrite(Head(sharer[p].todo)) \/ UNCHANGED <<keyIndex, items>>
    /\ Leave(p)
    /\ UNCHANGED <<stores, damage, kept, crowded>>

\* The process dies, and is started again when it next asks.
CrashSharer(p) ==
    /\ sharer[p].at # "resting"
    /\ sharer' = [sharer EXCEPT ![p] = Unoccupied]
    /\ UNCHANGED <<keyIndex, items, dirLock, stores, damage, kept, crowded>>

\* A damaged item is lost.  Without an index every item found counts, those
\* that an unfinished operation left behind too.
Damage ==
    /\ damage < MaxDamage /\ Holders = {}
    /\ damage' = damage + 1
    /\ \/ /\ keyIndex # NoIndex
          /\ keyIndex' = BadIndex /\ UNCHANGED items
          /\ kept' = [k \in StoreKeys |->
                          IF items[k] \in Stored THEN kept[k] \cup {items[k]} ELSE kept[k]]
       \/ \E k \in StoreKeys :
              /\ items[k] # Missing
              /\ items' = [items EXCEPT ![k] = Corrupt] /\ UNCHANGED keyIndex
              /\ kept' = [kept EXCEPT ![k] = @ \cup {Missing}]
    /\ UNCHANGED <<dirLock, sharer, stores, crowded>>

StorageNext ==
    \/ \E p \in Sharers :
           \/ AskStore(p) \/ TakeLock(p) \/ JudgeStale(p) \/ BreakLock(p) \/ GiveUp(p)
           \/ PerformWrite(p) \/ FinishStore(p) \/ WriteFails(p) \/ CrashSharer(p)
    \/ LockAges \/ Damage

StorageSpec == StorageInit /\ [][StorageNext]_storeVars

(***************************************************************************)
(* Properties                                                              *)
(***************************************************************************)
\* What a reader is told of k: an indexed key whose file is gone is an error.
ToldOf(k) ==
    IF k \notin IndexKeys \/ items[k] = Corrupt THEN Missing
    ELSE IF items[k] = Missing THEN "error" ELSE items[k]

\* As long as the lock has kept processes apart, every key reads as what the
\* last finished operation made of it, and after one that failed or crashed as
\* it was or as it was to become: no other process, crash, failed write or
\* broken lock between two files loses a value or brings one back, and none
\* leaves a key that cannot be read (storage.rs:3, storage.rs:4).
OldOrNew == ~crowded => \A k \in StoreKeys : ToldOf(k) \in kept[k]
=============================================================================
