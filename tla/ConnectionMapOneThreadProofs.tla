---------------------- MODULE ConnectionMapOneThreadProofs ----------------------
(***************************************************************************)
(* What ConnectionMap guarantees when a single thread w delivers every     *)
(* event.  No ended connection is forgotten, whatever happens (Plain).     *)
(* As long as no id has been read from a context that a stream's end had   *)
(* deleted (Intact), the queue also holds each ended connection once, so   *)
(* that the job finds the context it looks up, and deletes it once (Sound).*)
(***************************************************************************)
EXTENDS ConnectionMapProofs

Pending == head..(tail - 1)

\* An id the job can act on.
Ready(id) == \E c \in Conns : /\ conn[c] = "closed" /\ ctx[c] = "live"
                              /\ idOf[c] = id /\ <<id, c>> \in mapped

CursorsOrdered(w) ==
    /\ head <= tail /\ tail <= QueueCells + 1
    /\ \A i \in Pending : slots[i] # Unwritten
    /\ pc[w] \in {"front", "pop"} => head < tail
    /\ pc[w] = "pop" => loc[w].cursor = head /\ loc[w].key = slots[head]
    /\ pc[w] = "advance" => loc[w].cursor = tail /\ tail <= QueueCells /\ slots[tail] = loc[w].key

Carrying == {"pop", "at", "erase", "delete", "store", "advance"}

\* ClosedIsPending without the quantifier over threads.
StillPending(w) ==
    \A c \in Conns : conn[c] = "closed" /\ ctx[c] = "live" =>
        \/ \E i \in Pending : slots[i] = idOf[c]
        \/ pc[w] \in Carrying /\ loc[w].key = idOf[c]

\* The context the job deletes is the one it looked up, and is out of the map by then.
VictimIsKeys(w) ==
    /\ pc[w] \in {"erase", "delete"} => idOf[loc[w].victim] = loc[w].key
    /\ pc[w] = "delete" => \A entry \in mapped : entry[1] # loc[w].key

\* A connection being accepted has its context, and enters the map before it opens.
Entering(w) ==
    /\ pc[w] \in {"insert", "configure"} => ctx[loc[w].conn] = "live"
    /\ pc[w] = "configure" => <<idOf[loc[w].conn], loc[w].conn>> \in mapped

Plain(w) ==
    /\ CursorsOrdered(w)
    /\ StillPending(w)
    /\ VictimIsKeys(w)
    /\ Entering(w)

QueueReady ==
    /\ \A i \in Pending : Ready(slots[i])
    /\ \A i, j \in Pending : slots[i] = slots[j] => i = j

\* The id w has taken from the queue, or is about to put there, is not in it.
KeyReady(w) ==
    /\ pc[w] \in {"at", "erase", "store", "advance"} => Ready(loc[w].key)
    /\ pc[w] \in {"at", "erase", "delete", "store", "advance"} =>
          \A i \in Pending : slots[i] # loc[w].key
    /\ pc[w] \in {"erase", "delete"} => ctx[loc[w].victim] = "live" /\ conn[loc[w].victim] = "closed"

OpenKept == \A c \in Conns : conn[c] = "open" =>
    ctx[c] \in {"live", "lost"} /\ <<idOf[c], c>> \in mapped

EntriesAllocated == \A entry \in mapped : ctx[entry[2]] \in {"live", "lost"}

Sound(w) ==
    /\ QueueReady
    /\ KeyReady(w)
    /\ OpenKept
    /\ EntriesAllocated

OneInv(w) == Plain(w) /\ (Intact => Sound(w))

-----------------------------------------------------------------------------
\* With one thread no map operation overlaps with another.
LEMMA NoCollision ==
    ASSUME NEW w \in Threads, Threads = {w}, NEW entries, MapBecomes(w, entries)
    PROVE  mapped' = entries /\ proc' = proc
    BY DEF MapBecomes, Collides

\* Once an id has come from a deleted context, that stays so.
LEMMA IntactBefore == ASSUME IInv, [Next]_vars PROVE Intact' => Intact
    BY EndedForGood DEF Intact

(* What keeps an id ready. *)

\* An ended connection stays ready to reclaim while nothing of it changes.
LEMMA ReadyStays ==
    ASSUME NEW id, Ready(id),
           \A c \in Conns : conn[c] = "closed" /\ ctx[c] = "live" /\ idOf[c] = id =>
               conn'[c] = "closed" /\ ctx'[c] = "live" /\ idOf'[c] = id,
           \A c \in Conns : <<id, c>> \in mapped => <<id, c>> \in mapped'
    PROVE  Ready(id)'
    BY Zenon DEF Ready

\* Accepting or ending a connection does not disturb an ended one.
LEMMA OthersStayReady ==
    ASSUME IInv, NEW t \in Threads, Threads = {t},
           \/ Generate(t) \/ Insert(t) \/ Configure(t)
           \/ \E c \in Conns : NewConnection(t, c) \/ ShutdownComplete(t, c)
    PROVE  \A id : Ready(id) => Ready(id)'
<1> SUFFICES ASSUME NEW id, Ready(id) PROVE Ready(id)'
    OBVIOUS
<1> USE DEF IInv, TypeOK, At, heap
<1>1. mapped \subseteq mapped'
    BY NoCollision DEF Generate, Insert, Configure, NewConnection, ShutdownComplete
<1>2. ASSUME NEW c \in Conns, conn[c] = "closed", ctx[c] = "live", idOf[c] = id
      PROVE  conn'[c] = "closed" /\ ctx'[c] = "live" /\ idOf'[c] = id
  <2>1. CASE Generate(t)
    BY <1>2, <2>1 DEF Generate, Accepting, InListener
  <2>2. CASE Insert(t)
    BY <1>2, <2>2 DEF Insert
  <2>3. CASE Configure(t)
    BY <1>2, <2>3 DEF Configure, Accepting, InListener
  <2>4. CASE \E d \in Conns : NewConnection(t, d) \/ ShutdownComplete(t, d)
    BY <1>2, <2>4 DEF NewConnection, ShutdownComplete
  <2>5. QED
    BY <2>1, <2>2, <2>3, <2>4
<1>3. QED
    BY <1>1, <1>2, ReadyStays

\* The queue goes on naming ended connections while the heap is untouched.
LEMMA QueueStaysReady ==
    ASSUME QueueReady, UNCHANGED queue, \A i \in Pending : Ready(slots[i]) => Ready(slots[i])'
    PROVE  QueueReady'
    BY DEF QueueReady, Pending, queue

\* A step that leaves the heap and the map alone leaves readiness alone.
LEMMA SameHeapSameReady ==
    ASSUME UNCHANGED <<conn, ctx, idOf, mapped>>
    PROVE  \A id : Ready(id)' <=> Ready(id)
    BY DEF Ready

-----------------------------------------------------------------------------
\* The single-thread invariant holds before any connection.
LEMMA OneInit == ASSUME NEW w \in Threads, Init PROVE OneInv(w)
<1>1. Pending = {}
    BY DEF Init, Pending
<1>2. Plain(w)
    BY <1>1, ConnectionMapAssumption
       DEF Init, Plain, CursorsOrdered, StillPending, VictimIsKeys, Entering
<1>3. Sound(w)
    BY <1>1 DEF Init, Sound, QueueReady, KeyReady, OpenKept, EntriesAllocated
<1>4. QED
    BY <1>2, <1>3 DEF OneInv

\* Whatever the only thread does, it forgets no ended connection.
LEMMA PlainStep ==
    ASSUME NEW w \in Threads, Threads = {w}, IInv, Plain(w), [Next]_vars
    PROVE  Plain(w)'
<1> USE ConnectionMapAssumption DEF Plain, At, Goto
<1>t. TypeOK
    BY DEF IInv
<1>p. \A i \in Pending : i \in Cells /\ i \in Int
    BY <1>t DEF CursorsOrdered, Pending, Cells, TypeOK
<1>1. CASE UNCHANGED vars
    BY <1>1 DEF vars, CursorsOrdered, StillPending, VictimIsKeys, Entering, Pending
\* Steps that leave the heap, the map and the queue alone.
<1>2. ASSUME TestEmpty(w) \/ Front(w) \/ Lookup(w) \/ LookupThrows(w) \/ StopComplete(w)
      PROVE  Plain(w)'
  <2>1. UNCHANGED <<slots, head, tail, conn, ctx, idOf, mapped>>
    BY <1>2 DEF TestEmpty, Front, Lookup, LookupThrows, StopComplete, queue, heap
  <2>2. CASE TestEmpty(w)
    <3>1. pc[w] = "empty" /\ pc'[w] = (IF head # tail THEN "front" ELSE IF loc[w].conn = NoConn THEN "idle" ELSE "generate")
      BY <1>t, <2>2 DEF TestEmpty, TypeOK
    <3>2. CursorsOrdered(w)'
      BY <1>t, <2>1, <3>1 DEF CursorsOrdered, Pending, TypeOK
    <3>3. StillPending(w)' /\ VictimIsKeys(w)' /\ Entering(w)'
      BY <2>1, <3>1 DEF StillPending, VictimIsKeys, Entering, Pending, Carrying
    <3>4. QED
      BY <3>2, <3>3
  <2>3. CASE Front(w)
    <3>1. pc[w] = "front" /\ pc'[w] = "pop"
      BY <1>t, <2>3 DEF Front, TypeOK
    <3>2. head \in Pending /\ head \in Cells
      BY <1>p, <1>t, <3>1 DEF CursorsOrdered, Pending, TypeOK
    <3>3. CellValues(head) = {slots[head]}
      BY <3>2 DEF CellValues, CursorsOrdered
    <3>4. loc'[w].key = slots[head] /\ loc'[w].cursor = head
      BY <1>t, <2>3, <3>3 DEF Front, TypeOK
    <3>5. QED
      BY <2>1, <3>1, <3>4
         DEF CursorsOrdered, StillPending, VictimIsKeys, Entering, Pending, Carrying
  <2>4. CASE Lookup(w)
    <3>1. pc[w] = "at" /\ pc'[w] = "erase" /\ loc'[w].key = loc[w].key
      BY <1>t, <2>4 DEF Lookup, TypeOK
    <3>2. PICK entry \in mapped : entry[1] = loc[w].key /\ loc'[w].victim = entry[2]
      BY <1>t, <2>4 DEF Lookup, TypeOK
    <3>3. idOf[loc'[w].victim] = loc[w].key
      BY <3>2 DEF IInv, EntriesAreOwn
    <3>4. QED
      BY <2>1, <3>1, <3>3
         DEF CursorsOrdered, StillPending, VictimIsKeys, Entering, Pending, Carrying
  <2>5. CASE LookupThrows(w)
    BY <2>1, <2>5 DEF LookupThrows, CursorsOrdered, StillPending, VictimIsKeys, Entering, Pending
  <2>6. CASE StopComplete(w)
    <3>1. pc[w] = "idle" /\ pc'[w] = "empty"
      BY <1>t, <2>6 DEF StopComplete, TypeOK
    <3>2. QED
      BY <2>1, <3>1 DEF CursorsOrdered, StillPending, VictimIsKeys, Entering, Pending, Carrying
  <2>7. QED
    BY <1>2, <2>2, <2>3, <2>4, <2>5, <2>6
<1>3. ASSUME Pop(w) PROVE Plain(w)'
  <2>1. /\ head' = head + 1 /\ head < tail
        /\ pc[w] = "pop" /\ pc'[w] = "at" /\ loc' = loc /\ loc[w].key = slots[head]
    BY <1>t, <1>3 DEF Pop, CursorsOrdered, TypeOK
  <2>2. UNCHANGED <<slots, tail, conn, ctx, idOf, mapped>>
    BY <1>3 DEF Pop, heap
  <2>3. head \in Pending /\ Pending' \subseteq Pending /\ Pending \subseteq Pending' \cup {head}
    BY <1>t, <2>1, <2>2 DEF Pending, TypeOK
  <2>4. CursorsOrdered(w)'
    BY <1>t, <2>1, <2>2, <2>3 DEF CursorsOrdered, TypeOK
  <2>5. StillPending(w)' /\ VictimIsKeys(w)' /\ Entering(w)'
    BY <2>1, <2>2, <2>3 DEF StillPending, VictimIsKeys, Entering, Carrying
  <2>6. QED
    BY <2>4, <2>5
<1>4. ASSUME Erase(w) PROVE Plain(w)'
  <2>1. /\ pc[w] = "erase" /\ pc'[w] = "delete"
        /\ UNCHANGED <<slots, head, tail, conn, ctx, idOf, loc>>
    BY <1>t, <1>4 DEF Erase, TypeOK, queue, heap
  <2>2. mapped' = {entry \in mapped : entry[1] # loc[w].key}
    BY <1>4, NoCollision DEF Erase
  <2>3. QED
    BY <2>1, <2>2 DEF CursorsOrdered, StillPending, VictimIsKeys, Entering, Pending, Carrying
\* The two deletes.
<1>5. ASSUME Delete(w) \/ \E c \in Conns : StreamEnds(w, c) PROVE Plain(w)'
  <2>1. PICK c \in Conns, stage \in {"lost", "freed"} :
            /\ ctx[c] # "none" /\ DeleteContext(c, stage)
            /\ \/ pc[w] = "delete" /\ c = loc[w].victim /\ pc'[w] = "empty"
               \/ pc[w] = "idle" /\ pc'[w] = "idle"
    BY <1>t, <1>5 DEF Delete, StreamEnds, IInv, VictimKnown, ContextFollowsConnection, TypeOK
  <2>2. UNCHANGED <<slots, head, tail, conn, idOf, mapped, loc>>
    BY <1>5 DEF Delete, StreamEnds, queue
  <2>3. \A d \in Conns : ctx'[d] = "live" => ctx[d] = "live" /\ d # c
    BY <1>t, <2>1, DeleteEffects DEF TypeOK, CtxStages
  <2>4. CursorsOrdered(w)' /\ VictimIsKeys(w)' /\ Entering(w)'
    BY <2>1, <2>2 DEF CursorsOrdered, VictimIsKeys, Entering, Pending
  <2>5. \A d \in Conns : d # c /\ pc[w] = "delete" => idOf[d] # loc[w].key \/ idOf[d] = 0
    BY <2>1 DEF VictimIsKeys, IInv, IdsUnique
  <2>6. \A d \in Conns : ctx[d] = "live" => idOf[d] # 0
    BY DEF IInv, IdsUnique
  <2>7. StillPending(w)'
    BY <2>1, <2>2, <2>3, <2>5, <2>6 DEF StillPending, Pending, Carrying
  <2>8. QED
    BY <2>4, <2>7
\* Steps of a connection that is being accepted, and a client's attempt.
<1>6. ASSUME \/ Generate(w) \/ Insert(w) \/ Configure(w)
             \/ \E c \in Conns : NewConnection(w, c)
      PROVE  Plain(w)'
  <2>1. /\ pc[w] \in {"idle", "generate", "insert", "configure"}
        /\ pc'[w] \in {"idle", "empty", "insert", "configure"}
        /\ UNCHANGED <<slots, head, tail>>
    BY <1>t, <1>6 DEF Generate, Insert, Configure, NewConnection, TypeOK, queue
  <2>2. CursorsOrdered(w)' /\ VictimIsKeys(w)'
    BY <2>1 DEF CursorsOrdered, VictimIsKeys, Pending
  <2>3. \A c \in Conns : conn'[c] = "closed" /\ ctx'[c] = "live" =>
            conn[c] = "closed" /\ ctx[c] = "live" /\ idOf'[c] = idOf[c]
    BY <1>t, <1>6 DEF Generate, Insert, Configure, NewConnection, TypeOK, heap, IInv, Accepting,
                      InListener
  <2>4. StillPending(w)'
    BY <2>1, <2>3 DEF StillPending, Pending, Carrying
  <2>5. CASE Generate(w)
    <3>1. pc'[w] = "insert" /\ ctx'[loc'[w].conn] = "live"
      BY <1>t, <2>5 DEF Generate, TypeOK, IInv, Accepting
    <3>2. QED
      BY <2>2, <2>4, <3>1 DEF Entering
  <2>6. CASE Insert(w)
    <3>1. pc[w] = "insert" /\ pc'[w] = "configure" /\ UNCHANGED <<loc, ctx, idOf>>
      BY <1>t, <2>6 DEF Insert, TypeOK, heap
    <3>2. \A entry \in mapped : entry[1] # loc[w].key
      <4>1. SUFFICES ASSUME NEW entry \in mapped, entry[1] = loc[w].key PROVE FALSE
        OBVIOUS
      <4>2. loc[w].conn \in Conns /\ idOf[loc[w].conn] = loc[w].key /\ InListener(w)
        BY <1>t, <3>1 DEF IInv, TypeOK, Accepting, InListener
      <4>3. entry[2] \in Conns /\ idOf[entry[2]] = loc[w].key /\ idOf[entry[2]] # 0
        BY <1>t, <4>1 DEF IInv, TypeOK, EntriesAreOwn, IdsUnique
      <4>4. QED
        BY <3>1, <4>2, <4>3 DEF IInv, IdsUnique, EntriesAreOwn
    <3>3. mapped' = mapped \cup {<<loc[w].key, loc[w].conn>>}
      BY <2>6, <3>2, NoCollision DEF Insert
    <3>4. Entering(w)'
      BY <3>1, <3>3 DEF Entering, IInv, Accepting
    <3>5. QED
      BY <2>2, <2>4, <3>4
  <2>7. CASE Configure(w) \/ \E c \in Conns : NewConnection(w, c)
    <3>1. pc'[w] \in {"idle", "empty"}
      BY <1>t, <2>7 DEF Configure, NewConnection, TypeOK
    <3>2. QED
      BY <2>2, <2>4, <3>1 DEF Entering
  <2>8. QED
    BY <1>6, <2>5, <2>6, <2>7
<1>7. ASSUME NEW c \in Conns, ShutdownComplete(w, c) PROVE Plain(w)'
  <2>1. /\ conn[c] = "open" /\ conn' = [conn EXCEPT ![c] = "closed"]
        /\ pc[w] = "idle" /\ pc'[w] = "store"
        /\ UNCHANGED <<slots, head, tail, ctx, idOf, mapped>>
    BY <1>t, <1>7 DEF ShutdownComplete, TypeOK, queue
  <2>2. ctx[c] = "live" => loc'[w].key = idOf[c]
    BY <1>t, <1>7 DEF ShutdownComplete, TypeOK
  <2>3. CursorsOrdered(w)' /\ VictimIsKeys(w)' /\ Entering(w)'
    BY <2>1 DEF CursorsOrdered, VictimIsKeys, Entering, Pending
  <2>4. StillPending(w)'
    BY <1>t, <2>1, <2>2 DEF StillPending, Pending, Carrying, TypeOK
  <2>5. QED
    BY <2>3, <2>4
<1>8. ASSUME PushStore(w) PROVE Plain(w)'
  <2>1. /\ tail \in Cells /\ slots' = [slots EXCEPT ![tail] = loc[w].key]
        /\ pc[w] = "store" /\ pc'[w] = "advance"
        /\ loc'[w].key = loc[w].key /\ loc'[w].cursor = tail
        /\ UNCHANGED <<head, tail, conn, ctx, idOf, mapped>>
    BY <1>t, <1>8 DEF PushStore, TypeOK, heap
  <2>2. Pending' = Pending /\ \A i \in Pending : i # tail /\ slots'[i] = slots[i]
    BY <1>p, <1>t, <2>1 DEF Pending, TypeOK
  <2>3. slots'[tail] = loc[w].key
    BY <1>t, <2>1 DEF TypeOK
  <2>4. CursorsOrdered(w)'
    BY <1>t, <2>1, <2>2, <2>3 DEF CursorsOrdered, Cells, TypeOK
  <2>5. StillPending(w)' /\ VictimIsKeys(w)' /\ Entering(w)'
    BY <2>1, <2>2 DEF StillPending, VictimIsKeys, Entering, Carrying
  <2>6. QED
    BY <2>4, <2>5
<1>9. ASSUME PushAdvance(w) PROVE Plain(w)'
  <2>1. /\ tail' = tail + 1 /\ slots[tail] = loc[w].key /\ tail <= QueueCells
        /\ pc[w] = "advance" /\ pc'[w] = "idle"
        /\ UNCHANGED <<slots, head, conn, ctx, idOf, mapped>>
    BY <1>t, <1>9 DEF PushAdvance, CursorsOrdered, TypeOK, heap
  <2>2. Pending' = Pending \cup {tail}
    BY <1>t, <2>1 DEF Pending, CursorsOrdered, TypeOK
  <2>3. slots[tail] # Unwritten
    BY <1>t, <2>1 DEF TypeOK
  <2>4. CursorsOrdered(w)'
    BY <1>t, <2>1, <2>2, <2>3 DEF CursorsOrdered, TypeOK
  <2>5. StillPending(w)' /\ VictimIsKeys(w)' /\ Entering(w)'
    BY <2>1, <2>2 DEF StillPending, VictimIsKeys, Entering, Carrying
  <2>6. QED
    BY <2>4, <2>5
<1>10. QED
    BY <1>1, <1>2, <1>3, <1>4, <1>5, <1>6, <1>7, <1>8, <1>9 DEF Next, Callback

\* As long as no id has come from a deleted context, the job has what it needs.
LEMMA SoundStep ==
    ASSUME NEW w \in Threads, Threads = {w}, IInv, Plain(w), Sound(w), [Next]_vars, Intact'
    PROVE  Sound(w)'
<1> USE ConnectionMapAssumption DEF Sound, At, Goto
<1>t. TypeOK
    BY DEF IInv
<1>p. \A i \in Pending : i \in Cells /\ i \in Int
    BY <1>t DEF Plain, CursorsOrdered, Pending, Cells, TypeOK
<1>1. CASE UNCHANGED vars
  <2>1. QueueReady'
    BY <1>1, QueueStaysReady, SameHeapSameReady DEF vars, queue
  <2>2. KeyReady(w)' /\ OpenKept' /\ EntriesAllocated'
    BY <1>1 DEF vars, KeyReady, OpenKept, EntriesAllocated, Pending, Ready
  <2>3. QED
    BY <2>1, <2>2
\* Steps that leave the heap, the map and the queue alone.
<1>2. ASSUME TestEmpty(w) \/ Front(w) \/ Lookup(w) \/ LookupThrows(w) \/ StopComplete(w)
      PROVE  Sound(w)'
  <2>1. UNCHANGED <<queue, slots, head, tail, conn, ctx, idOf, mapped>>
    BY <1>2 DEF TestEmpty, Front, Lookup, LookupThrows, StopComplete, queue, heap
  <2>2. QueueReady' /\ OpenKept' /\ EntriesAllocated'
    BY <2>1, QueueStaysReady, SameHeapSameReady DEF OpenKept, EntriesAllocated
  <2>3. CASE TestEmpty(w) \/ Front(w) \/ StopComplete(w)
    <3>1. pc'[w] \in {"front", "idle", "generate", "pop", "empty"}
      BY <1>t, <2>3 DEF TestEmpty, Front, StopComplete, TypeOK
    <3>2. QED
      BY <2>2, <3>1 DEF KeyReady
  <2>4. CASE Lookup(w)
    <3>1. pc[w] = "at" /\ pc'[w] = "erase" /\ loc'[w].key = loc[w].key
      BY <1>t, <2>4 DEF Lookup, TypeOK
    <3>2. PICK entry \in mapped : entry[1] = loc[w].key /\ loc'[w].victim = entry[2]
      BY <1>t, <2>4 DEF Lookup, TypeOK
    <3>3. PICK c \in Conns : conn[c] = "closed" /\ ctx[c] = "live" /\ idOf[c] = loc[w].key
      BY <3>1 DEF KeyReady, Ready
    <3>4. entry[2] = c
      BY <1>t, <3>2, <3>3 DEF TypeOK, IInv, EntriesAreOwn, IdsUnique
    <3>5. KeyReady(w)'
      BY <2>1, <3>1, <3>2, <3>3, <3>4 DEF KeyReady, Pending, Ready
    <3>6. QED
      BY <2>2, <3>5
  <2>5. CASE LookupThrows(w)
    BY <2>1, <2>2, <2>5 DEF LookupThrows, KeyReady, Pending, Ready
  <2>6. QED
    BY <1>2, <2>3, <2>4, <2>5
<1>3. ASSUME Pop(w) PROVE Sound(w)'
  <2>1. /\ head' = head + 1 /\ head < tail
        /\ pc[w] = "pop" /\ pc'[w] = "at" /\ loc' = loc /\ loc[w].key = slots[head]
    BY <1>t, <1>3 DEF Pop, Plain, CursorsOrdered, TypeOK
  <2>2. UNCHANGED <<slots, tail, conn, ctx, idOf, mapped>>
    BY <1>3 DEF Pop, heap
  <2>3. head \in Pending /\ Pending' \subseteq Pending \ {head}
    BY <1>t, <2>1, <2>2 DEF Pending, TypeOK
  <2>4. QueueReady'
    BY <2>2, <2>3, SameHeapSameReady DEF QueueReady
  <2>5. KeyReady(w)'
    BY <2>1, <2>2, <2>3, SameHeapSameReady DEF KeyReady, QueueReady
  <2>6. QED
    BY <2>2, <2>4, <2>5 DEF OpenKept, EntriesAllocated
<1>4. ASSUME Erase(w) PROVE Sound(w)'
  <2>1. /\ pc[w] = "erase" /\ pc'[w] = "delete"
        /\ UNCHANGED <<queue, slots, head, tail, conn, ctx, idOf, loc>>
    BY <1>t, <1>4 DEF Erase, TypeOK, queue, heap
  <2>2. mapped' = {entry \in mapped : entry[1] # loc[w].key}
    BY <1>4, NoCollision DEF Erase
  <2>3. PICK c \in Conns : conn[c] = "closed" /\ ctx[c] = "live" /\ idOf[c] = loc[w].key
    BY <2>1 DEF KeyReady, Ready
  <2>4. \A id : Ready(id) /\ id # loc[w].key => Ready(id)'
    BY <2>1, <2>2, ReadyStays
  <2>5. QueueReady'
    BY <2>1, <2>4, QueueStaysReady DEF KeyReady
  <2>6. KeyReady(w)'
    BY <2>1 DEF KeyReady, Pending
  <2>7. idOf[c] # 0
    BY <2>3 DEF IInv, IdsUnique
  <2>8. OpenKept' /\ EntriesAllocated'
    BY <2>1, <2>2, <2>3, <2>7 DEF OpenKept, EntriesAllocated, IInv, IdsUnique
  <2>9. QED
    BY <2>5, <2>6, <2>8
<1>5. ASSUME Delete(w) PROVE Sound(w)'
  <2> DEFINE v == loc[w].victim
  <2>1. /\ pc[w] = "delete" /\ pc'[w] = "empty" /\ DeleteContext(v, "freed")
        /\ UNCHANGED <<queue, slots, head, tail, conn, idOf, mapped, loc>>
    BY <1>t, <1>5 DEF Delete, TypeOK, queue
  <2>2. v \in Conns /\ ctx[v] = "live" /\ conn[v] = "closed" /\ idOf[v] = loc[w].key
    BY <2>1 DEF KeyReady, Plain, VictimIsKeys, IInv, VictimKnown
  <2>3. ctx' = [ctx EXCEPT ![v] = "freed"]
    BY <1>t, <2>1, <2>2, DeleteEffects DEF TypeOK, CtxStages
  <2>4. \A id : Ready(id) /\ id # loc[w].key => Ready(id)'
    BY <1>t, <2>1, <2>2, <2>3, ReadyStays DEF TypeOK
  <2>5. QueueReady'
    BY <2>1, <2>4, QueueStaysReady DEF KeyReady
  <2>6. \A entry \in mapped : entry[2] # v
    BY <2>1, <2>2 DEF Plain, VictimIsKeys, IInv, EntriesAreOwn
  <2>7. OpenKept' /\ EntriesAllocated'
    BY <1>t, <2>1, <2>2, <2>3, <2>6 DEF TypeOK, OpenKept, EntriesAllocated
  <2>8. KeyReady(w)'
    BY <2>1 DEF KeyReady
  <2>9. QED
    BY <2>5, <2>7, <2>8
<1>6. ASSUME NEW c \in Conns, StreamEnds(w, c) PROVE Sound(w)'
  <2>1. /\ conn[c] = "open" /\ pc[w] = "idle" /\ pc' = pc /\ DeleteContext(c, "lost")
        /\ UNCHANGED <<queue, slots, head, tail, conn, idOf, mapped>>
    BY <1>6 DEF StreamEnds, queue
  <2>2. ctx[c] \in {"live", "lost"}
    BY <2>1 DEF OpenKept
  <2>3. \A d \in Conns : ctx'[d] = ctx[d] \/ (ctx[d] = "live" /\ ctx'[d] = "lost")
    <3>1. ctx'[c] = "lost"
      BY <1>t, <2>1, <2>2, DeleteEffects DEF TypeOK, CtxStages
    <3>2. QED
      BY <1>t, <2>1, <2>2, <3>1, DeleteEffects DEF TypeOK, CtxStages
  <2>4. \A id : Ready(id) => Ready(id)'
    BY <2>1, <2>3, ReadyStays DEF Intact
  <2>5. QueueReady'
    BY <2>1, <2>4, QueueStaysReady
  <2>6. OpenKept' /\ EntriesAllocated'
    BY <1>t, <2>1, <2>3 DEF OpenKept, EntriesAllocated, TypeOK
  <2>7. KeyReady(w)'
    BY <2>1 DEF KeyReady
  <2>8. QED
    BY <2>5, <2>6, <2>7
\* Steps of a connection that is being accepted, and a client's attempt.
<1>7. ASSUME \/ Generate(w) \/ Insert(w) \/ Configure(w)
             \/ \E c \in Conns : NewConnection(w, c)
      PROVE  Sound(w)'
  <2>1. /\ pc'[w] \in {"idle", "empty", "insert", "configure"}
        /\ UNCHANGED <<queue, slots, head, tail>>
    BY <1>t, <1>7 DEF Generate, Insert, Configure, NewConnection, TypeOK, queue
  <2>2. QueueReady' /\ KeyReady(w)'
    BY <1>7, <2>1, OthersStayReady, QueueStaysReady DEF KeyReady
  <2>3. CASE Generate(w)
    <3>1. loc[w].conn \in Conns /\ conn[loc[w].conn] = "offered"
      BY <1>t, <2>3 DEF Generate, TypeOK, IInv, Accepting, InListener
    <3>2. ctx' = [ctx EXCEPT ![loc[w].conn] = "live"] /\ UNCHANGED <<conn, mapped>>
          /\ \A c \in Conns : c # loc[w].conn => idOf'[c] = idOf[c]
      BY <1>t, <2>3 DEF Generate, TypeOK
    <3>3. OpenKept' /\ EntriesAllocated'
      BY <1>t, <3>1, <3>2 DEF TypeOK, OpenKept, EntriesAllocated
    <3>4. QED
      BY <2>2, <3>3
  <2>4. CASE Insert(w)
    <3>1. mapped' \subseteq mapped \cup {<<loc[w].key, loc[w].conn>>} /\ mapped \subseteq mapped'
      BY <2>4, NoCollision DEF Insert
    <3>2. UNCHANGED <<conn, ctx, idOf>> /\ ctx[loc[w].conn] = "live"
      BY <2>4 DEF Insert, heap, Plain, Entering
    <3>3. QED
      BY <2>2, <3>1, <3>2 DEF OpenKept, EntriesAllocated
  <2>5. CASE Configure(w)
    <3>1. /\ loc[w].conn \in Conns
          /\ ctx[loc[w].conn] = "live" /\ <<idOf[loc[w].conn], loc[w].conn>> \in mapped
      BY <1>t, <2>5 DEF Configure, TypeOK, IInv, Accepting, Plain, Entering
    <3>2. /\ UNCHANGED <<ctx, idOf, mapped>>
          /\ \A c \in Conns : c # loc[w].conn => conn'[c] = conn[c]
      BY <1>t, <2>5 DEF Configure, TypeOK
    <3>3. QED
      BY <2>2, <3>1, <3>2 DEF OpenKept, EntriesAllocated
  <2>6. CASE \E c \in Conns : NewConnection(w, c)
    BY <1>t, <2>2, <2>6 DEF NewConnection, TypeOK, OpenKept, EntriesAllocated
  <2>7. QED
    BY <1>7, <2>3, <2>4, <2>5, <2>6
<1>8. ASSUME NEW c \in Conns, ShutdownComplete(w, c) PROVE Sound(w)'
  <2>1. /\ conn[c] = "open" /\ conn' = [conn EXCEPT ![c] = "closed"]
        /\ pc[w] = "idle" /\ pc'[w] = "store"
        /\ UNCHANGED <<queue, slots, head, tail, ctx, idOf, mapped>>
    BY <1>t, <1>8 DEF ShutdownComplete, TypeOK, queue
  <2>2. QueueReady'
    BY <1>8, <2>1, OthersStayReady, QueueStaysReady
  <2>3. ctx[c] = "live" /\ <<idOf[c], c>> \in mapped /\ idOf[c] # 0
    BY <1>t, <2>1 DEF OpenKept, IInv, IdsUnique, Intact, TypeOK
  <2>4. loc'[w].key = idOf[c]
    BY <1>t, <1>8, <2>3 DEF ShutdownComplete, TypeOK
  <2>5. Ready(loc[w].key)'
    <3>1. conn'[c] = "closed" /\ ctx'[c] = "live" /\ idOf'[c] = loc'[w].key
          /\ <<loc'[w].key, c>> \in mapped'
      BY <1>t, <2>1, <2>3, <2>4 DEF TypeOK
    <3>2. QED
      BY <3>1, Zenon DEF Ready
  <2>6. \A i \in Pending : slots[i] # idOf[c]
    <3>1. SUFFICES ASSUME NEW i \in Pending, slots[i] = idOf[c] PROVE FALSE
      OBVIOUS
    <3>2. PICK d \in Conns : conn[d] = "closed" /\ idOf[d] = idOf[c]
      <4>1. Ready(idOf[c])
        BY <3>1 DEF QueueReady
      <4>2. QED
        BY <4>1, Zenon DEF Ready
    <3>3. QED
      BY <2>1, <2>3, <3>2 DEF IInv, IdsUnique
  <2>7. KeyReady(w)'
    BY <2>1, <2>4, <2>5, <2>6 DEF KeyReady, Pending
  <2>8. OpenKept' /\ EntriesAllocated'
    BY <1>t, <2>1 DEF TypeOK, OpenKept, EntriesAllocated
  <2>9. QED
    BY <2>2, <2>7, <2>8
<1>9. ASSUME PushStore(w) PROVE Sound(w)'
  <2>1. /\ tail \in Cells /\ slots' = [slots EXCEPT ![tail] = loc[w].key]
        /\ pc[w] = "store" /\ pc'[w] = "advance"
        /\ loc'[w].key = loc[w].key
        /\ UNCHANGED <<head, tail, conn, ctx, idOf, mapped>>
    BY <1>t, <1>9 DEF PushStore, TypeOK, heap
  <2>2. Pending' = Pending /\ \A i \in Pending : slots'[i] = slots[i]
    BY <1>p, <1>t, <2>1 DEF Pending, TypeOK
  <2>3. QueueReady'
    BY <2>1, <2>2, SameHeapSameReady DEF QueueReady
  <2>4. KeyReady(w)'
    BY <2>1, <2>2, SameHeapSameReady DEF KeyReady
  <2>5. QED
    BY <2>1, <2>3, <2>4 DEF OpenKept, EntriesAllocated
<1>10. ASSUME PushAdvance(w) PROVE Sound(w)'
  <2>1. /\ tail' = tail + 1 /\ slots[tail] = loc[w].key
        /\ pc[w] = "advance" /\ pc'[w] = "idle"
        /\ UNCHANGED <<slots, head, conn, ctx, idOf, mapped>>
    BY <1>t, <1>10 DEF PushAdvance, Plain, CursorsOrdered, TypeOK, heap
  <2>2. Pending' = Pending \cup {tail}
    BY <1>t, <2>1 DEF Pending, Plain, CursorsOrdered, TypeOK
  <2>3. QueueReady'
    BY <2>1, <2>2, SameHeapSameReady DEF QueueReady, KeyReady
  <2>4. KeyReady(w)'
    BY <2>1 DEF KeyReady
  <2>5. QED
    BY <2>1, <2>3, <2>4 DEF OpenKept, EntriesAllocated
<1>11. QED
    BY <1>1, <1>2, <1>3, <1>4, <1>5, <1>6, <1>7, <1>8, <1>9, <1>10 DEF Next, Callback

-----------------------------------------------------------------------------
\* The inductive invariant of ConnectionMap with a single thread.
THEOREM OneInvHolds == ASSUME NEW w, Threads = {w} PROVE Spec => []OneInv(w)
<1>1. w \in Threads
    OBVIOUS
<1>2. Init => OneInv(w)
    BY <1>1, OneInit
<1>3. IInv /\ OneInv(w) /\ [Next]_vars => OneInv(w)'
    BY <1>1, PlainStep, SoundStep, IntactBefore DEF OneInv
<1>4. QED
    BY <1>2, <1>3, InvHolds, PTL DEF Spec

\* When one thread delivers every event, an open connection is in the map under its
\* id, and only a stream's end can have deleted its context.
THEOREM OneThreadKeepsOpenContexts ==
    ASSUME NEW w, Threads = {w} PROVE Spec => []OpenConnectionKeepsContext
<1>1. OneInv(w) => OpenConnectionKeepsContext
    BY DEF OneInv, Sound, OpenKept, OpenConnectionKeepsContext
<1>2. QED
    BY <1>1, OneInvHolds, PTL

\* When one thread delivers every event, connection_map refers to no context that
\* the job has deleted, and to each under its own id.
THEOREM OneThreadMapNeverDangles ==
    ASSUME NEW w, Threads = {w} PROVE Spec => []MapHoldsLiveContexts
<1>1. IInv /\ OneInv(w) => MapHoldsLiveContexts
    BY DEF IInv, EntriesAreOwn, OneInv, Sound, EntriesAllocated, MapHoldsLiveContexts
<1>2. QED
    BY <1>1, InvHolds, OneInvHolds, PTL

\* When one thread delivers every event, ConnectionCloseJob finds each id it
\* takes from the queue in the map, and deletes each context once.
THEOREM OneThreadFindsContexts ==
    ASSUME NEW w, Threads = {w} PROVE Spec => []JobFindsContext
<1>1. OneInv(w) => JobFindsContext
  <2> SUFFICES ASSUME OneInv(w), Intact PROVE JobFindsContext
    BY DEF JobFindsContext
  <2>0. KeyReady(w)
    BY DEF OneInv, Sound
  <2>1. pc[w] = "at" => \E entry \in mapped : entry[1] = loc[w].key
    <3>1. \A id, c : <<id, c>> \in mapped => \E entry \in mapped : entry[1] = id
      OBVIOUS
    <3>2. QED
      BY <2>0, <3>1 DEF KeyReady, Ready
  <2>2. pc[w] \in {"erase", "delete"} => ctx[loc[w].victim] = "live"
    BY <2>0 DEF KeyReady
  <2>3. QED
    BY <2>1, <2>2 DEF JobFindsContext
<1>2. QED
    BY <1>1, OneInvHolds, PTL

\* When one thread delivers every event, no ended connection is forgotten: its
\* id is in the queue, or the thread is carrying it, until it is deleted.
THEOREM OneThreadForgetsNoConnection ==
    ASSUME NEW w, Threads = {w} PROVE Spec => []ClosedIsPending
<1>1. IInv /\ OneInv(w) => ClosedIsPending
  <2> SUFFICES ASSUME IInv, OneInv(w) PROVE ClosedIsPending
    OBVIOUS
  <2>1. \A i \in Pending : i \in Cells /\ head <= i /\ i < tail
    BY ConnectionMapAssumption DEF OneInv, Plain, IInv, TypeOK, CursorsOrdered, Pending, Cells
  <2>2. QED
    BY <2>1 DEF OneInv, Plain, StillPending, ClosedIsPending, Queued, Carried, Carrying
<1>2. QED
    BY <1>1, InvHolds, OneInvHolds, PTL

\* The job of a listener callback ends only with an empty queue.
JobIsDone(w) == pc[w] \in {"generate", "insert", "configure"} => head = tail

\* As long as the callback goes on, nothing is queued: the only thread is in it.
LEMMA JobStaysDone ==
    ASSUME NEW w \in Threads, Threads = {w} PROVE Spec => []JobIsDone(w)
<1>1. Init => JobIsDone(w)
    BY DEF Init, JobIsDone
<1>2. IInv /\ JobIsDone(w) /\ [Next]_vars => JobIsDone(w)'
  <2> SUFFICES ASSUME IInv, JobIsDone(w), [Next]_vars PROVE JobIsDone(w)'
    OBVIOUS
  <2> USE DEF JobIsDone, At, Goto, queue
  <2>0. pc \in [Threads -> Places]
    BY DEF IInv, TypeOK
  <2>1. CASE UNCHANGED vars
    BY <2>1 DEF vars
  <2>2. CASE TestEmpty(w)
    BY <2>0, <2>2 DEF TestEmpty
  <2>3. CASE Generate(w) \/ Insert(w)
    BY <2>0, <2>3 DEF Generate, Insert
  <2>4. CASE Front(w) \/ Pop(w) \/ Lookup(w) \/ LookupThrows(w) \/ Erase(w) \/ Delete(w)
    BY <2>0, <2>4 DEF Front, Pop, Lookup, LookupThrows, Erase, Delete
  <2>5. CASE Configure(w) \/ PushStore(w) \/ PushAdvance(w)
    BY <2>0, <2>5 DEF Configure, PushStore, PushAdvance
  <2>6. CASE StopComplete(w) \/ \E c \in Conns : \/ NewConnection(w, c) \/ StreamEnds(w, c)
                                                 \/ ShutdownComplete(w, c)
    BY <2>0, <2>6 DEF StopComplete, NewConnection, StreamEnds, ShutdownComplete
  <2>7. QED
    BY <2>1, <2>2, <2>3, <2>4, <2>5, <2>6 DEF Next, Callback
<1>3. QED
    BY <1>1, <1>2, InvHolds, PTL DEF Spec

\* When one thread delivers every event, the listener callback that builds a context
\* has reclaimed those of all connections that ended before: what is left of
\* ReclaimedByNextCallback is that the callback comes so far.
THEOREM OneThreadReclaimsAll ==
    ASSUME NEW w, Threads = {w} PROVE Spec => []JobReclaimsAll
<1>1. IInv /\ OneInv(w) /\ JobIsDone(w) => JobReclaimsAll
  <2> SUFFICES ASSUME IInv, OneInv(w), JobIsDone(w), NEW c \in Conns,
                      pc[w] \in {"generate", "insert", "configure"},
                      conn[c] = "closed", ctx[c] = "live"
               PROVE  FALSE
    BY DEF JobReclaimsAll
  <2>1. Pending = {}
    BY DEF JobIsDone, Pending, IInv, TypeOK
  <2>2. pc[w] \notin Carrying
    BY DEF Carrying
  <2>3. QED
    BY <2>1, <2>2 DEF OneInv, Plain, StillPending
<1>2. w \in Threads
    OBVIOUS
<1>3. QED
    BY <1>1, <1>2, InvHolds, OneInvHolds, JobStaysDone, PTL
-----------------------------------------------------------------------------
(* With one thread, ConnectionMap implements ContextLifetime until a stream ends. *)

\* The stage a connection and its context are in, case by case.
Stage(c) ==
    CASE ctx[c] = "none"  -> "absent"
      [] ctx[c] = "live"  -> CASE conn[c] = "refused" -> "refused"
                               [] conn[c] = "closed"  -> "ended"
                               [] OTHER -> "serving"
      [] ctx[c] = "freed" -> "reclaimed"
      [] ctx[c] = "twice" -> "reclaimed again"
      [] OTHER -> "lost"

\* The stage of a connection, read off the variables.
LEMMA LifeByStage ==
    /\ Life = [c \in Conns |-> Stage(c)]
    /\ \A c \in Conns : ctx[c] = "none" => Stage(c) = "absent"
    /\ \A c \in Conns : ctx[c] = "freed" => Stage(c) = "reclaimed"
    /\ \A c \in Conns : ctx[c] = "live" /\ conn[c] = "refused" => Stage(c) = "refused"
    /\ \A c \in Conns : ctx[c] = "live" /\ conn[c] = "closed" => Stage(c) = "ended"
    /\ \A c \in Conns : ctx[c] = "live" /\ conn[c] \in {"offered", "open"} => Stage(c) = "serving"
<1>1. Life = [c \in Conns |-> Stage(c)]
    BY Zenon DEF Life, Stage
<1>2. QED
    BY <1>1 DEF Stage

\* A step that moves one connection from one stage to the next.
LEMMA MoveByStage ==
    ASSUME NEW c \in Conns, NEW from, NEW to, Stage(c) = from, Stage(c)' = to,
           \A d \in Conns : d # c => Stage(d)' = Stage(d)
    PROVE  Lifetime!Move(c, from, to)
<1>1. Life = [d \in Conns |-> Stage(d)] /\ Life' = [d \in Conns |-> Stage(d)']
    BY LifeByStage, Zenon DEF Life, Stage
<1>2. Life' = [Life EXCEPT ![c] = to]
    BY <1>1
<1>3. QED
    BY <1>1, <1>2 DEF Lifetime!Move

NoneLost == \A c \in Conns : ctx[c] # "lost"

\* Every step that takes no context by a stream's end moves at most one connection
\* one stage on.
LEMMA LifetimeStep ==
    ASSUME NEW w \in Threads, Threads = {w}, IInv, OneInv(w), [Next]_vars, NoneLost'
    PROVE  [Lifetime!Next]_Life
<1> USE DEF At, heap
<1>t. TypeOK
    BY DEF IInv
<1>n. NoneLost
    BY EndedForGood DEF NoneLost
<1>k. Plain(w) /\ Sound(w)
    BY <1>n DEF NoneLost, Intact, OneInv
<1>0. \A c \in Conns : (conn'[c] = conn[c] /\ ctx'[c] = ctx[c]) => Stage(c)' = Stage(c)
    BY DEF Stage
<1>s. ASSUME \A c \in Conns : Stage(c)' = Stage(c) PROVE Life' = Life
  <2>1. Life = [d \in Conns |-> Stage(d)] /\ Life' = [d \in Conns |-> Stage(d)']
    BY LifeByStage, Zenon DEF Life, Stage
  <2>2. QED
    BY <1>s, <2>1
<1>1. CASE UNCHANGED <<conn, ctx>>
    BY <1>0, <1>1, <1>s
<1>2. ASSUME \/ TestEmpty(w) \/ Front(w) \/ Pop(w) \/ Lookup(w) \/ LookupThrows(w)
             \/ Erase(w) \/ Insert(w) \/ PushStore(w) \/ PushAdvance(w) \/ StopComplete(w)
      PROVE  UNCHANGED <<conn, ctx>>
    BY <1>2 DEF TestEmpty, Front, Pop, Lookup, LookupThrows, Erase, Insert, PushStore,
                PushAdvance, StopComplete
<1>3. ASSUME NEW c \in Conns, NewConnection(w, c) PROVE Life' = Life
  <2>1. ctx[c] = "none" /\ ctx' = ctx /\ conn' = [conn EXCEPT ![c] = "offered"]
    BY <1>3 DEF NewConnection, IInv, ContextFollowsConnection
  <2>2. Stage(c)' = Stage(c)
    BY <2>1 DEF Stage
  <2>3. QED
    BY <1>0, <1>s, <1>t, <2>1, <2>2 DEF TypeOK
<1>4. ASSUME Generate(w) PROVE \E c \in Conns : Lifetime!Create(c)
  <2>1. PICK c \in Conns : c = loc[w].conn /\ conn[c] = "offered" /\ ctx[c] = "none"
    BY <1>t, <1>4 DEF Generate, TypeOK, IInv, Accepting, InListener
  <2>2. conn' = conn /\ ctx' = [ctx EXCEPT ![c] = "live"]
    BY <1>4, <2>1 DEF Generate
  <2>3. Stage(c) = "absent" /\ Stage(c)' = "serving"
    BY <1>t, <2>1, <2>2 DEF TypeOK, Stage
  <2>4. \A d \in Conns : d # c => Stage(d)' = Stage(d)
    BY <1>0, <1>t, <2>2 DEF TypeOK
  <2>5. QED
    BY <2>1, <2>3, <2>4, MoveByStage DEF Lifetime!Create
<1>5. ASSUME Configure(w)
      PROVE  Life' = Life \/ \E c \in Conns : Lifetime!Refuse(c)
  <2>1. PICK c \in Conns : c = loc[w].conn /\ conn[c] = "offered" /\ ctx[c] = "live"
    BY <1>k, <1>t, <1>5 DEF Configure, TypeOK, IInv, Accepting, InListener, Plain, Entering
  <2>2. ctx' = ctx /\ (conn' = [conn EXCEPT ![c] = "open"] \/ conn' = [conn EXCEPT ![c] = "refused"])
    BY <1>5, <2>1 DEF Configure
  <2>3. Stage(c) = "serving" /\ Stage(c)' \in {"serving", "refused"}
    BY <1>t, <2>1, <2>2 DEF TypeOK, Stage
  <2>4. \A d \in Conns : d # c => Stage(d)' = Stage(d)
    BY <1>0, <1>t, <2>2 DEF TypeOK
  <2>5. CASE Stage(c)' = "serving"
    BY <1>s, <2>3, <2>4, <2>5
  <2>6. CASE Stage(c)' = "refused"
    BY <2>1, <2>3, <2>4, <2>6, MoveByStage DEF Lifetime!Refuse
  <2>7. QED
    BY <2>3, <2>5, <2>6
<1>6. ASSUME NEW c \in Conns, ShutdownComplete(w, c)
      PROVE  Lifetime!End(c)
  <2>1. conn[c] = "open" /\ ctx' = ctx /\ conn' = [conn EXCEPT ![c] = "closed"]
    BY <1>6 DEF ShutdownComplete
  <2>2. ctx[c] = "live"
    BY <1>k, <1>n, <2>1 DEF Sound, OpenKept, NoneLost
  <2>3. Stage(c) = "serving" /\ Stage(c)' = "ended"
    BY <1>t, <2>1, <2>2 DEF TypeOK, Stage
  <2>4. \A d \in Conns : d # c => Stage(d)' = Stage(d)
    BY <1>0, <1>t, <2>1 DEF TypeOK
  <2>5. QED
    BY <2>3, <2>4, MoveByStage DEF Lifetime!End
<1>7. ASSUME NEW c \in Conns, StreamEnds(w, c) PROVE FALSE
  <2>1. conn[c] = "open" /\ DeleteContext(c, "lost")
    BY <1>7 DEF StreamEnds
  <2>2. ctx[c] = "live"
    BY <1>k, <1>n, <2>1 DEF Sound, OpenKept, NoneLost
  <2>3. ctx'[c] = "lost"
    BY <1>t, <2>1, <2>2, DeleteEffects DEF TypeOK, CtxStages
  <2>4. QED
    BY <2>3 DEF NoneLost
<1>8. ASSUME Delete(w) PROVE \E c \in Conns : Lifetime!Reclaim(c)
  <2>1. PICK c \in Conns : c = loc[w].victim /\ conn[c] = "closed" /\ ctx[c] = "live"
    BY <1>k, <1>8 DEF Delete, Sound, KeyReady, IInv, VictimKnown
  <2>2. conn' = conn /\ ctx' = [ctx EXCEPT ![c] = "freed"]
    BY <1>t, <1>8, <2>1, DeleteEffects DEF Delete, TypeOK, CtxStages
  <2>3. Stage(c) = "ended" /\ Stage(c)' = "reclaimed"
    BY <1>t, <2>1, <2>2 DEF TypeOK, Stage
  <2>4. \A d \in Conns : d # c => Stage(d)' = Stage(d)
    BY <1>0, <1>t, <2>2 DEF TypeOK
  <2>5. QED
    BY <2>1, <2>3, <2>4, MoveByStage DEF Lifetime!Reclaim
<1>9. QED
    BY <1>1, <1>2, <1>3, <1>4, <1>5, <1>6, <1>7, <1>8 DEF Next, Callback, vars, Lifetime!Next

\* When one thread delivers every event, each context is built once, serves until
\* its connection ends and is only then deleted, and only once: until a stream ends,
\* ConnectionMap implements ContextLifetime.
THEOREM OneThreadImplementsContextLifetime ==
    ASSUME NEW w, Threads = {w} PROVE Spec => ContextLifetimeKept
<1>1. w \in Threads
    OBVIOUS
<1>2. Init => Lifetime!Init
    BY LifeByStage DEF Init, Life, Lifetime!Init
<1>3. IInv /\ OneInv(w) /\ [Next]_vars => [(\A c \in Conns : ctx'[c] # "lost") => Lifetime!Next]_Life
    BY <1>1, LifetimeStep, Zenon DEF NoneLost
<1>4. QED
    BY <1>2, <1>3, InvHolds, OneInvHolds, PTL DEF Spec, ContextLifetimeKept
================================================================================
