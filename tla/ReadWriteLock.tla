--------------------------- MODULE ReadWriteLock ---------------------------
(***************************************************************************)
(* What a reader-writer lock that prefers writers promises to its clients: *)
(* one writer alone or readers together, and no reader starts while a      *)
(* writer is in the queue.  Nothing is said of words, counts or wake-ups.  *)
(***************************************************************************)
CONSTANT Threads

VARIABLE role   \* what each thread does with the lock

Roles == {"out", "queued", "writing", "reading"}

With(r) == {t \in Threads : role[t] = r}

Becomes(t, r) == role' = [role EXCEPT ![t] = r]

LockInit == role = [t \in Threads |-> "out"]

Queue(t) == role[t] = "out" /\ Becomes(t, "queued")

\* A thread that has not queued gets the lock too, if it is free
StartWriting(t) ==
    /\ role[t] \in {"out", "queued"}
    /\ With("writing") = {} /\ With("reading") = {}
    /\ Becomes(t, "writing")

StartReading(t) ==
    /\ role[t] = "out"
    /\ With("writing") = {} /\ With("queued") = {}
    /\ Becomes(t, "reading")

Stop(t) == role[t] \in {"writing", "reading"} /\ Becomes(t, "out")

\* After a fork the child has the thread that forked, and nobody uses the lock
Forget(t) == role[t] = "writing" /\ role' = [u \in Threads |-> "out"]

LockNext ==
    \E t \in Threads :
        Queue(t) \/ StartWriting(t) \/ StartReading(t) \/ Stop(t) \/ Forget(t)

LockSpec == LockInit /\ [][LockNext]_role
=============================================================================
