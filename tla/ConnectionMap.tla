----------------------------- MODULE ConnectionMap -----------------------------
(***************************************************************************)
(* Server/ConnectionMap.h with the two callbacks that drive it: the        *)
(* listener callback (QUICServer.cpp), which first reclaims the contexts   *)
(* of ended connections and then builds one for the new connection, and    *)
(* the SHUTDOWN_COMPLETE branch of the connection callback                 *)
(* (ServerConnectionContext.cpp), which queues the id to reclaim.  The end *)
(* of a stream is here as well, because it deletes the context of the      *)
(* stream's connection and knows nothing of the map.                       *)
(*                                                                         *)
(* No lock protects connection_map or connection_close_q, so a step is one *)
(* access other threads can interleave with.  The std::queue is its memory *)
(* cells and two cursors: push stores a cell and then advances the tail,   *)
(* pop advances the head, and an advance may use the cursor its thread     *)
(* loaded before (nothing forces a reload).  An operation on the           *)
(* std::unordered_map that overlaps with a write of another thread may     *)
(* lose entries, miss the one it looks for, or crash.                      *)
(***************************************************************************)
EXTENDS Integers

CONSTANTS
    Conns,        \* connections clients attempt
    Workers,      \* msquic threads that deliver connection and listener events
    StopThreads,  \* threads STOP_COMPLETE may be delivered on ({}: never stopped)
    QueueCells,   \* bound: cells of connection_close_q ever written
    Garbage,      \* what memory may hold that was never written, or was freed
    MapTears,     \* operations on the map that overlap may harm it
    NoConn,
    Unwritten     \* no value: the cell holds garbage

ASSUME ConnectionMapAssumption ==
    /\ NoConn \notin Conns
    /\ Unwritten \notin Nat
    /\ QueueCells \in Nat
    /\ Garbage \subseteq Nat
    /\ MapTears \in BOOLEAN

Threads == Workers \cup StopThreads
Cells == 1..QueueCells

VARIABLES
    conn,          \* msquic's view of each connection
    ctx,           \* the heap: each connection's ServerConnectionContext is "live",
                   \* "freed" by the job, deleted "twice", or "lost" to a stream's end
    idOf,          \* ServerConnectionContext::id, 0 while there is none
    generator,     \* connection_id_generator
    mapped,        \* connection_map, as pairs <<id, connection of the context>>
    slots, head, tail,   \* connection_close_q
    listening,     \* the listener has not delivered STOP_COMPLETE
    pc, loc,       \* each thread's place in a callback and its locals
    proc           \* the process is "up", or "terminated"

vars == <<conn, ctx, idOf, generator, mapped, slots, head, tail, listening, pc, loc, proc>>
queue == <<slots, head, tail>>
heap  == <<conn, ctx, idOf, generator>>

Init ==
    /\ conn = [c \in Conns |-> "none"]
    /\ ctx = [c \in Conns |-> "none"]
    /\ idOf = [c \in Conns |-> 0]
    /\ generator = 1
    /\ mapped = {}
    /\ slots = [i \in Cells |-> Unwritten]
    /\ head = 1 /\ tail = 1
    /\ listening = TRUE
    /\ pc = [t \in Threads |-> "idle"]
    /\ loc = [t \in Threads |-> [conn |-> NoConn, key |-> 0, victim |-> NoConn, cursor |-> 1]]
    /\ proc = "up"

At(t, place) == proc = "up" /\ pc[t] = place
Goto(t, place) == pc' = [pc EXCEPT ![t] = place]

\* What reading a cell of the queue yields.
CellValues(i) == IF i \in Cells /\ slots[i] # Unwritten THEN {slots[i]} ELSE Garbage

InListener(t) == pc[t] \notin {"idle", "store", "advance"}

\* The map operation t is at may overlap with one of another thread, and one of
\* the two writes.
Writes(t) == pc[t] \in {"erase", "insert"}
Collides(t) ==
    MapTears /\ \E u \in Threads \ {t} : /\ pc[u] \in {"at", "erase", "insert"}
                                         /\ Writes(t) \/ Writes(u)

\* A map operation that would leave the given entries.
MapBecomes(t, entries) ==
    \/ mapped' = entries /\ UNCHANGED proc
    \/ /\ Collides(t)
       /\ mapped' \in SUBSET entries
       /\ proc' \in {proc, "terminated"}

\* delete of a context.  Memory deleted before may belong to another context by
\* now, which is then lost, or the allocator notices and ends the process.
DeleteContext(c, stage) ==
    \/ ctx[c] = "live" /\ ctx' = [ctx EXCEPT ![c] = stage] /\ UNCHANGED proc
    \/ /\ ctx[c] # "live"
       /\ LET again == [ctx EXCEPT ![c] = IF @ = "lost" THEN "lost" ELSE "twice"] IN
          \/ ctx' = again
          \/ \E d \in Conns : ctx[d] = "live" /\ ctx' = [again EXCEPT ![d] = "lost"]
       /\ proc' \in {proc, "terminated"}

-----------------------------------------------------------------------------
(* The listener callback. *)

\* NEW_CONNECTION: entry of ServerListenerCallback.
NewConnection(t, c) ==
    /\ At(t, "idle") /\ t \in Workers /\ listening /\ conn[c] = "none"
    /\ conn' = [conn EXCEPT ![c] = "offered"]
    /\ loc' = [loc EXCEPT ![t].conn = c]
    /\ Goto(t, "empty")
    /\ UNCHANGED <<ctx, idOf, generator, mapped, queue, listening, proc>>

\* STOP_COMPLETE, after every other listener callback has returned, runs the
\* same job; connection callbacks go on.
StopComplete(t) ==
    /\ At(t, "idle") /\ t \in StopThreads /\ listening
    /\ \A u \in Threads : ~InListener(u)
    /\ listening' = FALSE
    /\ loc' = [loc EXCEPT ![t].conn = NoConn]
    /\ Goto(t, "empty")
    /\ UNCHANGED <<heap, mapped, queue, proc>>

\* while(!connection_close_q.empty())
TestEmpty(t) ==
    /\ At(t, "empty")
    /\ Goto(t, IF head # tail THEN "front"
               ELSE IF loc[t].conn = NoConn THEN "idle" ELSE "generate")
    /\ UNCHANGED <<heap, mapped, queue, listening, loc, proc>>

Front(t) ==
    /\ At(t, "front")
    /\ \E key \in CellValues(head) :
          loc' = [loc EXCEPT ![t].key = key, ![t].cursor = head]
    /\ Goto(t, "pop")
    /\ UNCHANGED <<heap, mapped, queue, listening, proc>>

\* Fault: pop is forgotten, so the next round takes the same id again.
PopForgotten(t) ==
    /\ At(t, "pop")
    /\ Goto(t, "at")
    /\ UNCHANGED <<heap, mapped, queue, listening, loc, proc>>

\* Fault: pop is called twice for one front.
PopTwice(t) ==
    /\ At(t, "pop")
    /\ head' = head + 2
    /\ Goto(t, "at")
    /\ UNCHANGED <<heap, mapped, slots, tail, listening, loc, proc>>

Pop(t) ==
    /\ At(t, "pop")
    /\ \E cursor \in {head, loc[t].cursor} : head' = cursor + 1
    /\ Goto(t, "at")
    /\ UNCHANGED <<heap, mapped, slots, tail, listening, loc, proc>>

\* Fault: connection_map[id], which inserts a null context for an unknown id.
LookupInserts(t) ==
    /\ At(t, "at")
    /\ \A entry \in mapped : entry[1] # loc[t].key
    /\ mapped' = mapped \cup {<<loc[t].key, NoConn>>}
    /\ loc' = [loc EXCEPT ![t].victim = NoConn]
    /\ Goto(t, "erase")
    /\ UNCHANGED <<heap, queue, listening, proc>>

\* connection_map.at(id)
Lookup(t) ==
    /\ At(t, "at")
    /\ \E entry \in mapped :
          /\ entry[1] = loc[t].key
          /\ loc' = [loc EXCEPT ![t].victim = entry[2]]
    /\ Goto(t, "erase")
    /\ UNCHANGED <<heap, mapped, queue, listening, proc>>

\* ... throws std::out_of_range, which nothing catches on an msquic thread.
LookupThrows(t) ==
    /\ At(t, "at")
    /\ Collides(t) \/ \A entry \in mapped : entry[1] # loc[t].key
    /\ proc' = "terminated"
    /\ UNCHANGED <<heap, mapped, queue, listening, pc, loc>>

\* Fault: the context is deleted with its entry left in the map.
EraseForgotten(t) ==
    /\ At(t, "erase")
    /\ Goto(t, "delete")
    /\ UNCHANGED <<heap, mapped, queue, listening, loc, proc>>

Erase(t) ==
    /\ At(t, "erase")
    /\ MapBecomes(t, {entry \in mapped : entry[1] # loc[t].key})
    /\ Goto(t, "delete")
    /\ UNCHANGED <<heap, queue, listening, loc>>

\* Fault: `if` for `while`: one id is reclaimed in a listener callback.
DeleteOnce(t) ==
    /\ At(t, "delete")
    /\ DeleteContext(loc[t].victim, "freed")
    /\ Goto(t, IF loc[t].conn = NoConn THEN "idle" ELSE "generate")
    /\ UNCHANGED <<conn, idOf, generator, mapped, queue, listening, loc>>

Delete(t) ==
    /\ At(t, "delete")
    /\ DeleteContext(loc[t].victim, "freed")
    /\ Goto(t, "empty")
    /\ UNCHANGED <<conn, idOf, generator, mapped, queue, listening, loc>>

\* Fault: the id is read without being advanced.
GenerateStale(t) ==
    LET c == loc[t].conn IN
    /\ At(t, "generate")
    /\ idOf' = [idOf EXCEPT ![c] = generator]
    /\ ctx' = [ctx EXCEPT ![c] = "live"]
    /\ loc' = [loc EXCEPT ![t].key = generator]
    /\ Goto(t, "insert")
    /\ UNCHANGED <<conn, generator, mapped, queue, listening, proc>>

\* GenerateConnectionId, new ServerConnectionContext, SetCallbackHandler
Generate(t) ==
    LET c == loc[t].conn IN
    /\ At(t, "generate")
    /\ generator' = generator + 1
    /\ idOf' = [idOf EXCEPT ![c] = generator]
    /\ ctx' = [ctx EXCEPT ![c] = "live"]
    /\ loc' = [loc EXCEPT ![t].key = generator]
    /\ Goto(t, "insert")
    /\ UNCHANGED <<conn, mapped, queue, listening, proc>>

\* unordered_map::insert keeps an entry that is already there.
Insert(t) ==
    /\ At(t, "insert")
    /\ MapBecomes(t, IF \E entry \in mapped : entry[1] = loc[t].key THEN mapped
                     ELSE mapped \cup {<<loc[t].key, loc[t].conn>>})
    /\ Goto(t, "configure")
    /\ UNCHANGED <<heap, queue, listening, loc>>

\* ConnectionSetConfiguration and the return: on failure msquic drops the
\* connection and delivers no event for it.
Configure(t) ==
    /\ At(t, "configure")
    /\ \E outcome \in {"open", "refused"} : conn' = [conn EXCEPT ![loc[t].conn] = outcome]
    /\ Goto(t, "idle")
    /\ UNCHANGED <<ctx, idOf, generator, mapped, queue, listening, loc, proc>>

-----------------------------------------------------------------------------
(* The callbacks of a connection and of its streams. *)

\* A stream's SHUTDOWN_COMPLETE: delete stream_ctx, which is the connection's
\* context (ServerConnection shows why).
StreamEnds(t, c) ==
    /\ At(t, "idle") /\ t \in Workers /\ conn[c] = "open"
    /\ DeleteContext(c, "lost")
    /\ UNCHANGED <<conn, idOf, generator, mapped, queue, listening, pc, loc>>

\* Fault: the removal is registered when the shutdown is only initiated.
ShutdownInitiated(t, c) ==
    /\ At(t, "idle") /\ t \in Workers /\ conn[c] = "open"
    /\ loc' = [loc EXCEPT ![t].key = idOf[c]]
    /\ Goto(t, "store")
    /\ UNCHANGED <<heap, mapped, queue, listening, proc>>

\* SHUTDOWN_COMPLETE: ConnectionClose, then read this_context->id, from memory
\* that may have been freed and be another's.
ShutdownComplete(t, c) ==
    LET deleted == ctx[c] # "live" IN
    /\ At(t, "idle") /\ t \in Workers /\ conn[c] = "open"
    /\ conn' = [conn EXCEPT ![c] = "closed"]
    /\ \E id \in {idOf[c]} \cup (IF deleted THEN Garbage ELSE {}) :
          loc' = [loc EXCEPT ![t].key = id]
    /\ Goto(t, "store")
    /\ proc' \in IF deleted THEN {proc, "terminated"} ELSE {proc}
    /\ UNCHANGED <<ctx, idOf, generator, mapped, queue, listening>>

\* connection_close_q.push(key): write the cell, then advance the tail.
PushStore(t) ==
    /\ At(t, "store") /\ tail \in Cells
    /\ slots' = [slots EXCEPT ![tail] = loc[t].key]
    /\ loc' = [loc EXCEPT ![t].cursor = tail]
    /\ Goto(t, "advance")
    /\ UNCHANGED <<heap, mapped, head, tail, listening, proc>>

PushAdvance(t) ==
    /\ At(t, "advance")
    /\ \E cursor \in {tail, loc[t].cursor} : tail' = cursor + 1
    /\ Goto(t, "idle")
    /\ UNCHANGED <<heap, mapped, slots, head, listening, loc, proc>>

-----------------------------------------------------------------------------
Callback(t) ==
    \/ TestEmpty(t) \/ Front(t) \/ Pop(t) \/ Lookup(t) \/ LookupThrows(t)
    \/ Erase(t) \/ Delete(t) \/ Generate(t) \/ Insert(t) \/ Configure(t)
    \/ PushStore(t) \/ PushAdvance(t)

Next ==
    \E t \in Threads :
        \/ Callback(t)
        \/ StopComplete(t)
        \/ \E c \in Conns : NewConnection(t, c) \/ StreamEnds(t, c) \/ ShutdownComplete(t, c)

Spec == Init /\ [][Next]_vars

\* A thread that has entered a callback goes on with it; clients and the
\* network owe the server nothing.
FairSpec == Spec /\ \A t \in Threads : WF_vars(Callback(t))
-----------------------------------------------------------------------------
Places == {"idle", "empty", "front", "pop", "at", "erase", "delete",
           "generate", "insert", "configure", "store", "advance"}

TypeOK ==
    /\ conn \in [Conns -> {"none", "offered", "open", "refused", "closed"}]
    /\ ctx \in [Conns -> {"none", "live", "lost", "freed", "twice"}]
    /\ idOf \in [Conns -> Nat]
    /\ generator \in Nat \ {0}
    /\ mapped \subseteq Nat \X Conns
    /\ slots \in [Cells -> Nat \cup {Unwritten}]
    /\ head \in Nat \ {0} /\ tail \in Nat \ {0}
    /\ listening \in BOOLEAN
    /\ pc \in [Threads -> Places]
    /\ loc \in [Threads -> [conn : Conns \cup {NoConn}, key : Nat,
                            victim : Conns \cup {NoConn}, cursor : Nat \ {0}]]
    /\ proc \in {"up", "terminated"}

\* InsertConnection ignores the result of insert, which keeps an entry that is
\* there: whatever the threads do to the map, the id a new connection is entered
\* under is free.
NewIdIsFree ==
    \A t \in Threads : pc[t] = "insert" => \A entry \in mapped : entry[1] # loc[t].key

\* No id has been read yet from a context that a stream's end had deleted.
Intact == \A c \in Conns : ~(ctx[c] = "lost" /\ conn[c] = "closed")

\* The registry never takes the context of a connection that can still call back:
\* it is there under the connection's own id, unless a stream's end deleted it.
\* Holds when one thread delivers every event; two that insert at once lose entries.
OpenConnectionKeepsContext ==
    Intact => \A c \in Conns : conn[c] = "open" =>
        ctx[c] \in {"live", "lost"} /\ <<idOf[c], c>> \in mapped

\* connection_map never refers to a context that the job has deleted, nor to one
\* under another connection's id.  Holds when one thread delivers every event.
MapHoldsLiveContexts ==
    Intact => \A entry \in mapped : /\ ctx[entry[2]] \in {"live", "lost"}
                                    /\ idOf[entry[2]] = entry[1]

\* ConnectionCloseJob removes the contexts of ended connections: every id it
\* takes from the queue is in the map, and the context it deletes is there to
\* delete.  Holds when one thread delivers every event, and only then, as long as
\* no id came from a context that a stream's end had deleted.
JobFindsContext ==
    \A t \in Threads : Intact /\ proc = "up" =>
        /\ pc[t] = "at" => \E entry \in mapped : entry[1] = loc[t].key
        /\ pc[t] \in {"erase", "delete"} => ctx[loc[t].victim] = "live"

Queued(c) == \E i \in Cells : head <= i /\ i < tail /\ slots[i] = idOf[c]
Carried(c) ==
    \E t \in Threads : /\ pc[t] \in {"store", "advance", "pop", "at", "erase", "delete"}
                       /\ loc[t].key = idOf[c]

\* RegisterConnectionRemove is never lost: an ended connection whose context is
\* still allocated is in the queue, or a thread is just moving it.
ClosedIsPending ==
    \A c \in Conns : conn[c] = "closed" /\ ctx[c] = "live" => Queued(c) \/ Carried(c)

\* ConnectionCloseJob leaves nothing behind: when the listener callback goes on to
\* build the next context, that of every connection that has ended is gone.
JobReclaimsAll ==
    \A t \in Threads, c \in Conns :
        pc[t] \in {"generate", "insert", "configure"} => ~(conn[c] = "closed" /\ ctx[c] = "live")

\* The next listener callback reclaims every connection that had ended before it,
\* unless an id read from a deleted context brings the process down first.
ReclaimedByNextCallback ==
    \A c \in Conns :
        (conn[c] = "closed" /\ ctx[c] = "live" /\ \E t \in Threads : pc[t] = "empty")
            ~> (ctx[c] # "live" \/ (~Intact /\ proc = "terminated"))

\* The stage of each context, in the words of ContextLifetime; the last two have
\* no place there.
Life == [c \in Conns |->
    CASE ctx[c] = "none"  -> "absent"
      [] ctx[c] = "live"  -> CASE conn[c] = "refused" -> "refused"
                               [] conn[c] = "closed"  -> "ended"
                               [] OTHER -> "serving"
      [] ctx[c] = "freed" -> "reclaimed"
      [] ctx[c] = "twice" -> "reclaimed again"
      [] OTHER -> "lost"]

Lifetime == INSTANCE ContextLifetime WITH life <- Life

\* Until a stream ends, each context goes through the stages of ContextLifetime:
\* it is deleted after its connection's end only, and only once.  Holds when one
\* thread delivers every event.
ContextLifetimeKept ==
    /\ Lifetime!Init
    /\ [][(\A c \in Conns : ctx'[c] # "lost") => Lifetime!Next]_Life
================================================================================
