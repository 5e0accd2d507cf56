------------------------------ MODULE Lockable ------------------------------
(***************************************************************************)
(* cache.Lockable (cache/lockableLRU.go): the LRU cache with values that   *)
(* carry a mutex.  The values the LRU stores are addresses of lockableItem *)
(* structures, here boxes; what they hold is left out.                     *)
(*                                                                         *)
(* What happens under c.lock is one step.  Outside it is the last line of  *)
(* GetAndLock and PutAndLock, "it.value.lock.Lock()": it reads the value   *)
(* of the list's item, and waits for the mutex it found there.             *)
(*                                                                         *)
(* The rest is history: `madeFor` is the key a box was made for, `crowded` *)
(* the keys two goroutines were after at once, `lost` those that left the  *)
(* cache in use, `strays` the boxes taken by the user of another key, and  *)
(* `abandoned` those whose user was told ErrNotFound and left.             *)
(***************************************************************************)
EXTENDS LRU

CONSTANTS Locker      \* goroutines

VARIABLES boxes,      \* the boxes made so far
          locked,     \* those whose mutex is locked
          lockLeaked, \* c.lock was not given up
          fatal,      \* "sync: unlock of unlocked mutex" ended the process
          user,       \* where each goroutine is, and with which key, item, box
          madeFor, crowded, lost, strays, abandoned

Box == Value
lockables == <<boxes, locked, lockLeaked, fatal, user>>
why == <<madeFor, crowded, lost, strays, abandoned>>
lockVars == <<vars, lockables, why>>

Away == [at |-> "away", key |-> Nil, item |-> Nil, box |-> Nil]

LockInit ==
  /\ Init
  /\ boxes = {} /\ locked = {}
  /\ lockLeaked = FALSE /\ fatal = FALSE
  /\ user = [g \in Locker |-> Away]
  /\ madeFor = [b \in Box |-> Nil]
  /\ crowded = {} /\ lost = {} /\ strays = {} /\ abandoned = {}

-----------------------------------------------------------------------------
(* c.lock can be taken. *)
Entered == ~panicked /\ ~fatal /\ ~lockLeaked

After(k) == {g \in Locker : user[g].key = k}

(* Keys that leave the cache in a step while somebody is after them. *)
Dropped == {k \in Present : index'[k] = Nil /\ After(k) # {}}

UnchangedCache == UNCHANGED vars

(* The lookup of GetAndLock and PutAndLock, and their setItem; the second  *)
(* move to the head that setItem makes after findItem's changes nothing.   *)
LookupAndSet(g, k) ==
  /\ UNCHANGED res
  /\ IF findItemOk(k)
     THEN /\ findItem(k)
          /\ UNCHANGED <<boxes, madeFor>>
     ELSE \E b \in Box \ boxes :
            /\ \A c \in Box \ boxes : b <= c
            /\ setItem(k, b, {user[h].item : h \in Locker})
            /\ boxes' = boxes \cup {b}
            /\ madeFor' = [madeFor EXCEPT ![b] = k]
  /\ user' = [user EXCEPT ![g] = [at |-> "entered", key |-> k,
                                  item |-> index'[k], box |-> Nil]]
  /\ crowded' = IF After(k) # {} THEN crowded \cup {k} ELSE crowded
  /\ lost' = lost \cup Dropped
  /\ UNCHANGED <<locked, lockLeaked, fatal, strays, abandoned>>

(* The loader fails: GetAndLock returns with c.lock locked. *)
LoaderFails(g, k) ==
  /\ ~findItemOk(k)
  /\ lockLeaked' = TRUE
  /\ UnchangedCache
  /\ UNCHANGED <<boxes, locked, fatal, user, why>>

GetAndLock(g, k) ==
  /\ Entered /\ user[g] = Away
  /\ LookupAndSet(g, k) \/ LoaderFails(g, k)

(* PutAndLock has its value already. *)
PutAndLock(g, k) == Entered /\ user[g] = Away /\ LookupAndSet(g, k)

(* it.value, read after c.lock is given up. *)
ReadValue(g) ==
  /\ ~fatal /\ user[g].at = "entered"
  /\ user' = [user EXCEPT ![g].at = "waits", ![g].box = content[user[g].item].value]
  /\ UnchangedCache
  /\ UNCHANGED <<boxes, locked, lockLeaked, fatal, why>>

(* lock.Lock() returns. *)
TakeLock(g) ==
  /\ ~fatal /\ user[g].at = "waits"
  /\ user[g].box \notin locked
  /\ locked' = locked \cup {user[g].box}
  /\ user' = [user EXCEPT ![g].at = "holds"]
  /\ strays' = IF madeFor[user[g].box] = user[g].key THEN strays
               ELSE strays \cup {user[g].box}
  /\ UnchangedCache
  /\ UNCHANGED <<boxes, lockLeaked, fatal, madeFor, crowded, lost, abandoned>>

(* Mutation: Unlock looks the value up and leaves the mutex. *)
UnlockLooksOnly(g) ==
  /\ Entered /\ user[g].at = "holds"
  /\ user' = [user EXCEPT ![g] = Away]
  /\ UnchangedCache
  /\ UNCHANGED <<boxes, locked, lockLeaked, fatal, why>>

(* Unlock: the mutex of whatever the key leads to now, nothing when the    *)
(* key is gone.                                                            *)
Unlock(g) ==
  LET k == user[g].key
      b == content[index[k]].value
  IN  /\ Entered /\ user[g].at = "holds"
      /\ IF k \in Present
         THEN /\ locked' = locked \ {b}
              /\ fatal' = (b \notin locked)
         ELSE UNCHANGED <<locked, fatal>>
      /\ user' = [user EXCEPT ![g] = Away]
      /\ UnchangedCache
      /\ UNCHANGED <<boxes, lockLeaked, why>>

(* SaveAndUnlock.  The saver is called and the mutex released only when    *)
(* findItem reports a hit; otherwise the caller gets ErrNotFound, and      *)
(* leaves or tries again.                                                  *)
SaveAndUnlock(g) ==
  LET k == user[g].key
      b == content[index[k]].value
  IN  /\ Entered /\ user[g].at = "holds"
      /\ findItem(k) /\ UNCHANGED res
      /\ IF findItemOk(k)
         THEN /\ locked' = locked \ {b}
              /\ fatal' = (b \notin locked)
              /\ user' = [user EXCEPT ![g] = Away]
              /\ UNCHANGED abandoned
         ELSE /\ UNCHANGED <<locked, fatal>>
              /\ \/ UNCHANGED <<user, abandoned>>
                 \/ /\ user' = [user EXCEPT ![g] = Away]
                    /\ abandoned' = abandoned \cup {user[g].box}
      /\ UNCHANGED <<boxes, lockLeaked, madeFor, crowded, lost, strays>>

(* Remove is the LRU's own, which Lockable embeds. *)
LockableRemove(k) ==
  /\ Entered
  /\ Remove(k)
  /\ lost' = lost \cup Dropped
  /\ UNCHANGED <<lockables, madeFor, crowded, strays, abandoned>>

LockNext ==
  \/ \E g \in Locker, k \in Key : GetAndLock(g, k) \/ PutAndLock(g, k)
  \/ \E g \in Locker : ReadValue(g) \/ TakeLock(g) \/ Unlock(g) \/ SaveAndUnlock(g)
  \/ \E k \in Key : LockableRemove(k)

LockSpec == LockInit /\ [][LockNext]_lockVars

-----------------------------------------------------------------------------
(* While one goroutine at a time is after a key and the key stays in the   *)
(* cache, the mutex its user holds is the one that Unlock will find, still *)
(* locked: no call for another key gives it up or puts another there.      *)
AloneIsExclusive ==
  \A g \in Locker :
    LET k == user[g].key
    IN  user[g].at = "holds" /\ k \notin crowded \cup lost =>
          /\ k \in Present
          /\ content[index[k]].value = user[g].box
          /\ user[g].box \in locked

(* The process is not ended by an Unlock unless two were after one key.    *)
(* No mutex stays locked that nobody holds, but for a key that two were    *)
(* after at once or that left the cache in use, a user SaveAndUnlock sent  *)
(* away, or one that met the item of its key reused for another.           *)
LocksExplained ==
  /\ fatal => crowded # {}
  /\ \A b \in locked : \/ \E g \in Locker : user[g].at = "holds" /\ user[g].box = b
                       \/ b \in abandoned \cup strays
                       \/ madeFor[b] \in crowded \cup lost
  /\ \A b \in strays : lost \ {madeFor[b]} # {}

(* What a lock is for: both of these.                                      *)
LocksKept == AloneIsExclusive /\ LocksExplained
=============================================================================
