---------------------------- MODULE ClientHttp3Proofs ----------------------------
(***************************************************************************)
(* Proofs about ClientHttp3, for any number of callers and streams, any    *)
(* number of vectors for each and any number of them in one write.         *)
(*                                                                         *)
(* All rests on one fact: the flag lets one caller pump at a time.  While  *)
(* a write is in its hands nothing else moves the offset it began at, and  *)
(* so the name of its array is new and its vectors follow those sent.      *)
(***************************************************************************)
EXTENDS ClientHttp3, TLAPS

OnePump ==
    /\ \A c \in Callers : Pumping(c) => pumping
    /\ \A c, d \in Callers : Pumping(c) /\ Pumping(d) => c = d

\* The write in hand is within what the stream has.
WriteFits ==
    \A c \in Callers : InHand(c) =>
        /\ write[c].count > 0
        /\ write[c].from + write[c].count <= Vectors[write[c].stream]

\* What was sent is what nghttp3 has been told, or is about to be.
SentIsCounted ==
    \A s \in Streams : \A i \in DOMAIN sent[s] :
        \/ sent[s][i].vector <= offset[s]
        \/ \E c \in Callers : /\ at[c] = "offset" /\ write[c].stream = s
                              /\ sent[s][i].vector <= offset[s] + write[c].count

\* An array msquic holds was made for an earlier write than the one in hand.
HeldIsCounted ==
    \A array \in held :
        \/ array[2] < offset[array[1]]
        \/ \E c \in Callers : at[c] = "offset" /\ array = Array(write[c])

InHandIsAllocated ==
    \A c \in Callers : at[c] \in {"check", "send"} => Array(write[c]) \in allocated \ held

\* A request whose caller's pump has not ended with nothing left.
StillToPump(s) ==
    s \in Callers /\ (at[s] \in {"flag", "skipped", "gaveup"} \/ Pumping(s))

\* Once a pump has found nothing left, only requests are queued, and none of a
\* caller whose own pump ended so.
PumpLooked ==
    /\ \A c \in Callers : at[c] = "submit" => c \notin queued
    /\ \A c \in Callers : at[c] \in {"clear", "returned"} =>
           c \notin queued /\ \A s \in queued : StillToPump(s)

IInv ==
    /\ TypeOK /\ OnePump /\ WriteFits /\ WriteIsCurrent
    /\ SentIsCounted /\ SentInOrder
    /\ HeldIsCounted /\ InHandIsAllocated /\ ArraysHaveOneOwner
    /\ PumpLooked /\ NothingLeftBehind
-----------------------------------------------------------------------------
LEMMA InvInit == Init => IInv
<1> SUFFICES ASSUME Init PROVE IInv
    OBVIOUS
<1>1. ASSUME NEW c \in Callers PROVE NoWrite \in [stream : Streams, from : Nat, count : Nat]
  <2>1. (CHOOSE s \in Streams : TRUE) \in Streams
    BY <1>1 DEF Streams
  <2>2. QED
    BY <2>1 DEF NoWrite
<1>2. write \in [Callers -> [stream : Streams, from : Nat, count : Nat]]
    BY <1>1 DEF Init
<1>3. TypeOK
  <2>1. sent \in [Streams -> Seq([vector : Nat, fin : BOOLEAN])]
    BY DEF Init
  <2>2. queued \subseteq Streams /\ held \subseteq Arrays /\ allocated \subseteq Arrays
    BY DEF Init, Streams, Arrays
  <2>3. offset \in [Streams -> Nat] /\ \A s \in Streams : offset[s] <= Vectors[s]
    BY ClientHttp3Assumption DEF Init
  <2>4. QED
    BY <1>2, <2>1, <2>2, <2>3 DEF Init, TypeOK
<1>4. QED
    BY <1>3, ClientHttp3Assumption
       DEF Init, IInv, OnePump, WriteFits, WriteIsCurrent, SentIsCounted, SentInOrder,
           HeldIsCounted, InHandIsAllocated, ArraysHaveOneOwner, PumpLooked, NothingLeftBehind,
           Pumping, InHand

\* The types, one step per action.
LEMMA TypeStep == IInv /\ [Next]_vars => TypeOK'
<1> SUFFICES ASSUME IInv, [Next]_vars PROVE TypeOK'
    OBVIOUS
<1> USE ClientHttp3Assumption DEF IInv, TypeOK, Goto, nghttp3, buffers, Arrays
<1>1. CASE UNCHANGED vars
    BY <1>1 DEF vars
<1>2. ASSUME NEW c \in Callers, Submit(c) PROVE TypeOK'
    BY <1>2 DEF Submit, Streams
<1>3. ASSUME NEW c \in Callers, TestAndSet(c) PROVE TypeOK'
    BY <1>3 DEF TestAndSet
<1>4. ASSUME NEW c \in Callers, Writev(c) PROVE TypeOK'
  <2>1. PICK s \in queued, count \in 1..MaxVectors :
           write' = [write EXCEPT ![c] = [stream |-> s, from |-> offset[s], count |-> count]]
    BY <1>4 DEF Writev
  <2>2. [stream |-> s, from |-> offset[s], count |-> count]
           \in [stream : Streams, from : Nat, count : Nat]
    OBVIOUS
  <2>3. write' \in [Callers -> [stream : Streams, from : Nat, count : Nat]]
    BY <2>1, <2>2
  <2>4. Array(write'[c]) \in Streams \X Nat
    BY <2>3 DEF Array
  <2>5. QED
    BY <1>4, <2>3, <2>4 DEF Writev
<1>5. ASSUME NEW c \in Callers, WritevEmpty(c) PROVE TypeOK'
    BY <1>5 DEF WritevEmpty
<1>6. ASSUME NEW c \in Callers, WritevFails(c) \/ Check(c) PROVE TypeOK'
    BY <1>6 DEF WritevFails, Check
<1>7. ASSUME NEW c \in Callers, SendAccepted(c) PROVE TypeOK'
  <2> DEFINE s == write[c].stream
             entry == [vector |-> write[c].from + 1, fin |-> Fin(write[c])]
  <2>1. s \in Streams /\ write[c].from \in Nat /\ Array(write[c]) \in Streams \X Nat
    BY DEF Array
  <2>2. Fin(write[c]) \in BOOLEAN
    BY DEF Fin
  <2>3. entry \in [vector : Nat, fin : BOOLEAN]
    BY <2>1, <2>2
  <2>4. Append(sent[s], entry) \in Seq([vector : Nat, fin : BOOLEAN])
    BY <2>1, <2>3
  <2>5. sent' = [sent EXCEPT ![s] = Append(sent[s], entry)]
    BY <1>7, Zenon DEF SendAccepted
  <2>6. sent' \in [Streams -> Seq([vector : Nat, fin : BOOLEAN])]
    BY <2>1, <2>4, <2>5
  <2>7. QED
    BY <1>7, <2>1, <2>6 DEF SendAccepted
<1>8. ASSUME NEW c \in Callers, SendRefused(c) PROVE TypeOK'
    BY <1>8 DEF SendRefused
<1>9. ASSUME NEW c \in Callers, AddWriteOffset(c) PROVE TypeOK'
  <2> DEFINE s == write[c].stream
  <2>1. s \in Streams /\ offset[s] \in Nat /\ write[c].count \in Nat
    OBVIOUS
  <2>2. offset[s] + write[c].count <= Vectors[s]
    BY <1>9 DEF AddWriteOffset, WriteFits, WriteIsCurrent, InHand
  <2>3. /\ at' = [at EXCEPT ![c] = "writev"] /\ queued' \subseteq queued
        /\ offset' = [offset EXCEPT ![s] = offset[s] + write[c].count]
        /\ UNCHANGED <<connection_ok, pumping, write, sent, allocated, held>>
    BY <1>9 DEF AddWriteOffset
  <2>4. offset' \in [Streams -> Nat] /\ \A t \in Streams : offset'[t] <= Vectors[t]
    BY <2>1, <2>2, <2>3
  <2>5. QED
    BY <2>3, <2>4
<1>10. ASSUME NEW c \in Callers, Clear(c) PROVE TypeOK'
    BY <1>10 DEF Clear
<1>11. CASE ConnectionDown
    BY <1>11 DEF ConnectionDown
<1>12. ASSUME NEW array \in held, SendComplete(array) PROVE TypeOK'
    BY <1>12 DEF SendComplete
<1>13. QED
    BY <1>1, <1>2, <1>3, <1>4, <1>5, <1>6, <1>7, <1>8, <1>9, <1>10, <1>11, <1>12 DEF Next, Send

\* The flag: only TestAndSet starts a pump, and only when no pump runs.
LEMMA PumpStep == IInv /\ [Next]_vars => OnePump' /\ PumpLooked' /\ NothingLeftBehind'
<1> SUFFICES ASSUME IInv, [Next]_vars PROVE OnePump' /\ PumpLooked' /\ NothingLeftBehind'
    OBVIOUS
<1> USE ClientHttp3Assumption
    DEF IInv, TypeOK, Goto, nghttp3, buffers, OnePump, PumpLooked, NothingLeftBehind, Pumping,
        StillToPump
<1>1. CASE UNCHANGED vars
    BY <1>1 DEF vars
<1>2. ASSUME NEW c \in Callers, Submit(c) PROVE OnePump' /\ PumpLooked' /\ NothingLeftBehind'
  <2>1. /\ UNCHANGED pumping /\ at[c] = "submit"
        /\ \/ queued' = queued \cup {c} /\ at' = [at EXCEPT ![c] = "flag"]
           \/ queued' = queued /\ at' = [at EXCEPT ![c] = "refused"]
    BY <1>2 DEF Submit
  <2>2. OnePump'
    <3>1. \A d \in Callers : Pumping(d)' => Pumping(d)
      BY <2>1
    <3>2. QED
      BY <2>1, <3>1, Zenon
  <2>3. c \notin queued /\ \A d \in Callers \ {c} : at'[d] = at[d]
    BY <2>1
  <2>4. \A s \in queued' : s \in queued \/ (s = c /\ at'[c] = "flag")
    BY <2>1
  <2>5. \A s \in queued : StillToPump(s) => StillToPump(s)'
    BY <2>3
  <2>6. StillToPump(c)' \/ queued' = queued
    BY <2>1
  <2>7. at'[c] \notin {"submit", "clear", "returned"}
    BY <2>1
  <2>8. PumpLooked'
    <3> HIDE DEF StillToPump, Pumping, TypeOK, OnePump, NothingLeftBehind
    <3>1. ASSUME NEW d \in Callers, at'[d] = "submit" PROVE d \notin queued'
      BY <2>3, <2>4, <2>7, <3>1
    <3>2. ASSUME NEW d \in Callers, at'[d] \in {"clear", "returned"}
          PROVE  d \notin queued' /\ \A s \in queued' : StillToPump(s)'
      <4>1. d # c /\ at[d] \in {"clear", "returned"}
        BY <2>3, <2>7, <3>2
      <4>2. d \notin queued /\ \A s \in queued : StillToPump(s)
        BY <4>1
      <4>3. QED
        BY <2>3, <2>4, <2>5, <2>6, <4>1, <4>2
    <3>3. QED
      BY <3>1, <3>2
  <2>9. NothingLeftBehind'
    <3>1. ASSUME ~pumping, NEW d \in Callers, at[d] = "returned"
          PROVE  \A s \in queued : at[s] \in {"flag", "skipped", "gaveup"} /\ s \in Callers
      BY <3>1
    <3>2. \A d \in Callers : at'[d] = "returned" => at[d] = "returned"
      BY <2>3, <2>7
    <3>3. \A s \in queued : s \in Callers => at'[s] = at[s]
      BY <2>3
    <3>4. queued' = queued \/ (at'[c] = "flag" /\ queued' = queued \cup {c})
      BY <2>1
    <3>5. QED
      BY <2>1, <3>1, <3>2, <3>3, <3>4
  <2>10. QED
    BY <2>2, <2>8, <2>9
<1>3. ASSUME NEW c \in Callers, TestAndSet(c) PROVE OnePump' /\ PumpLooked' /\ NothingLeftBehind'
    BY <1>3 DEF TestAndSet
<1>4. ASSUME NEW c \in Callers,
             \/ Writev(c) \/ WritevEmpty(c) \/ WritevFails(c) \/ Check(c)
             \/ SendAccepted(c) \/ SendRefused(c)
      PROVE  OnePump' /\ PumpLooked' /\ NothingLeftBehind'
  <2>1. /\ UNCHANGED <<pumping, queued>> /\ Pumping(c)
        /\ \E place \in {"writev", "check", "send", "offset", "clear", "abandon"} :
              /\ at' = [at EXCEPT ![c] = place]
              /\ place = "clear" => queued = {}
    BY <1>4 DEF Writev, WritevEmpty, WritevFails, Check, SendAccepted, SendRefused
  <2>2. QED
    BY <2>1
<1>5. ASSUME NEW c \in Callers, AddWriteOffset(c)
      PROVE  OnePump' /\ PumpLooked' /\ NothingLeftBehind'
  <2>1. UNCHANGED pumping /\ Pumping(c) /\ queued' \subseteq queued
        /\ at[c] = "offset" /\ at' = [at EXCEPT ![c] = "writev"]
    BY <1>5 DEF AddWriteOffset
  <2>2. OnePump' /\ NothingLeftBehind'
    BY <2>1
  <2>3. \A d \in Callers : at'[d] \in {"submit", "clear", "returned"} => at[d] = at'[d]
    BY <2>1
  <2>4. \A s \in queued : StillToPump(s) => StillToPump(s)'
    BY <2>1
  <2>5. PumpLooked'
    BY <2>1, <2>3, <2>4
  <2>6. QED
    BY <2>2, <2>5
<1>6. ASSUME NEW c \in Callers, Clear(c) PROVE OnePump' /\ PumpLooked' /\ NothingLeftBehind'
    BY <1>6 DEF Clear
<1>7. CASE ConnectionDown
    BY <1>7 DEF ConnectionDown
<1>8. ASSUME NEW array \in held, SendComplete(array)
      PROVE  OnePump' /\ PumpLooked' /\ NothingLeftBehind'
    BY <1>8 DEF SendComplete
<1>9. QED
    BY <1>1, <1>2, <1>3, <1>4, <1>5, <1>6, <1>7, <1>8 DEF Next, Send

\* The write in hand begins at the offset: the pump alone moves it.
LEMMA WriteStep == IInv /\ [Next]_vars => WriteFits' /\ WriteIsCurrent'
<1> SUFFICES ASSUME IInv, [Next]_vars PROVE WriteFits' /\ WriteIsCurrent'
    OBVIOUS
<1> USE ClientHttp3Assumption
    DEF IInv, TypeOK, Goto, nghttp3, buffers, WriteFits, WriteIsCurrent, InHand
<1>1. CASE UNCHANGED vars
    BY <1>1 DEF vars
<1>2. ASSUME NEW c \in Callers,
             \/ Submit(c) \/ TestAndSet(c) \/ WritevEmpty(c) \/ WritevFails(c) \/ Check(c)
             \/ SendAccepted(c) \/ SendRefused(c) \/ Clear(c)
      PROVE  WriteFits' /\ WriteIsCurrent'
  <2>1. /\ UNCHANGED <<offset, write>> /\ queued \subseteq queued'
        /\ \A d \in Callers : InHand(d)' => InHand(d)
    BY <1>2 DEF Submit, TestAndSet, WritevEmpty, WritevFails, Check, SendAccepted, SendRefused,
              Clear
  <2>2. QED
    BY <2>1
<1>3. ASSUME NEW c \in Callers, Writev(c) PROVE WriteFits' /\ WriteIsCurrent'
  <2>1. PICK s \in queued, count \in 1..MaxVectors :
           /\ offset[s] + count <= Vectors[s]
           /\ write' = [write EXCEPT ![c] = [stream |-> s, from |-> offset[s], count |-> count]]
    BY <1>3 DEF Writev
  <2>2. /\ UNCHANGED <<offset, queued>>
        /\ \A d \in Callers \ {c} : InHand(d)' => InHand(d)
    BY <1>3 DEF Writev
  <2>3. QED
    BY <2>1, <2>2, SMTT(30)
<1>4. ASSUME NEW c \in Callers, AddWriteOffset(c) PROVE WriteFits' /\ WriteIsCurrent'
  <2>1. \A d \in Callers : ~InHand(d)'
    BY <1>4 DEF AddWriteOffset, OnePump, Pumping
  <2>2. QED
    BY <2>1
<1>5. CASE ConnectionDown
    BY <1>5 DEF ConnectionDown
<1>6. ASSUME NEW array \in held, SendComplete(array) PROVE WriteFits' /\ WriteIsCurrent'
    BY <1>6 DEF SendComplete
<1>7. QED
    BY <1>1, <1>2, <1>3, <1>4, <1>5, <1>6 DEF Next, Send

\* Entries of a sequence, and of one with an entry more.
LEMMA SeqEntries ==
    ASSUME NEW S, NEW q \in Seq(S)
    PROVE  Len(q) \in Nat /\ DOMAIN q = 1..Len(q) /\ \A i \in DOMAIN q : q[i] \in S
OBVIOUS

LEMMA AppendEntries ==
    ASSUME NEW S, NEW q \in Seq(S), NEW e \in S
    PROVE  /\ DOMAIN Append(q, e) = 1..Len(q) + 1
           /\ \A i \in DOMAIN q : Append(q, e)[i] = q[i]
           /\ Append(q, e)[Len(q) + 1] = e
<1>1. Len(q) \in Nat /\ DOMAIN q = 1..Len(q)
    BY SeqEntries
<1>2. QED
    BY <1>1

LEMMA SentVectors ==
    TypeOK => \A s \in Streams : \A i \in DOMAIN sent[s] : sent[s][i].vector \in Nat
<1> SUFFICES ASSUME TypeOK, NEW s \in Streams, NEW i \in DOMAIN sent[s]
             PROVE  sent[s][i].vector \in Nat
    OBVIOUS
<1>1. sent[s] \in Seq([vector : Nat, fin : BOOLEAN])
    BY DEF TypeOK
<1>2. sent[s][i] \in [vector : Nat, fin : BOOLEAN]
    BY <1>1, SeqEntries
<1>3. QED
    BY <1>2

\* What msquic is given next lies behind all it was given for the stream.
LEMMA SentStep == IInv /\ TypeOK' /\ [Next]_vars => SentIsCounted' /\ SentInOrder'
<1> SUFFICES ASSUME IInv, TypeOK', [Next]_vars PROVE SentIsCounted' /\ SentInOrder'
    OBVIOUS
<1> USE ClientHttp3Assumption DEF IInv, TypeOK, Goto, nghttp3, buffers
<1>1. CASE UNCHANGED vars
    BY <1>1 DEF vars, SentIsCounted, SentInOrder
<1>2. ASSUME NEW c \in Callers,
             \/ Submit(c) \/ TestAndSet(c) \/ WritevEmpty(c) \/ WritevFails(c)
             \/ Check(c) \/ SendRefused(c) \/ Clear(c)
      PROVE  SentIsCounted' /\ SentInOrder'
  <2>1. UNCHANGED <<offset, write, sent>> /\ \A d \in Callers : at[d] = "offset" => at'[d] = "offset"
    BY <1>2 DEF Submit, TestAndSet, WritevEmpty, WritevFails, Check, SendRefused, Clear
  <2>2. QED
    BY <2>1 DEF SentIsCounted, SentInOrder
<1>3. ASSUME NEW c \in Callers, Writev(c) PROVE SentIsCounted' /\ SentInOrder'
  <2>1. \A d \in Callers : at[d] # "offset"
    BY <1>3 DEF Writev, OnePump, Pumping
  <2>2. UNCHANGED <<offset, sent>>
    BY <1>3 DEF Writev
  <2>3. QED
    BY <2>1, <2>2 DEF SentIsCounted, SentInOrder
<1>4. ASSUME NEW c \in Callers, SendAccepted(c) PROVE SentIsCounted' /\ SentInOrder'
  <2> DEFINE s == write[c].stream
             entry == [vector |-> write[c].from + 1, fin |-> Fin(write[c])]
  <2>1. /\ sent' = [sent EXCEPT ![s] = Append(sent[s], entry)]
        /\ UNCHANGED <<offset, write>> /\ at[c] = "send" /\ at' = [at EXCEPT ![c] = "offset"]
    BY <1>4, Zenon DEF SendAccepted
  <2>2. \A d \in Callers : at[d] # "offset"
    BY <2>1 DEF OnePump, Pumping
  <2>3. \A t \in Streams : \A i \in DOMAIN sent[t] : sent[t][i].vector <= offset[t]
    BY <2>2 DEF SentIsCounted
  <2>4. s \in Streams /\ write[c].from = offset[s] /\ write[c].count > 0
    BY <2>1 DEF WriteFits, WriteIsCurrent, InHand
  <2>5. /\ Len(sent[s]) \in Nat /\ DOMAIN sent[s] = 1..Len(sent[s])
        /\ DOMAIN sent'[s] = 1..Len(sent[s]) + 1
        /\ \A i \in DOMAIN sent[s] : sent'[s][i] = sent[s][i]
        /\ sent'[s][Len(sent[s]) + 1] = entry
    <3>1. sent[s] \in Seq([vector : Nat, fin : BOOLEAN]) /\ sent'[s] = Append(sent[s], entry)
      BY <2>1, <2>4
    <3>2. entry \in [vector : Nat, fin : BOOLEAN]
      <4>1. Fin(write[c]) \in BOOLEAN
        BY DEF Fin
      <4>2. QED
        BY <2>4, <4>1
    <3> DEFINE Entry == [vector : Nat, fin : BOOLEAN]
    <3> HIDE DEF s, entry, Entry, IInv, TypeOK
    <3>3. sent[s] \in Seq(Entry) /\ entry \in Entry
      BY <3>1, <3>2 DEF Entry
    <3>4. Len(sent[s]) \in Nat /\ DOMAIN sent[s] = 1..Len(sent[s])
      BY <3>3, SeqEntries
    <3>5. QED
      BY <3>1, <3>3, <3>4, AppendEntries
  <2>6. \A t \in Streams : t # s => sent'[t] = sent[t]
    BY <2>1
  <2>7. entry.vector = offset[s] + 1
    BY <2>4
  <2>8. \A i \in DOMAIN sent'[s] : i \in DOMAIN sent[s] \/ i = Len(sent[s]) + 1
    BY <2>5, SMTT(30)
  <2>9. \A t \in Streams : \A i \in DOMAIN sent[t] : sent[t][i].vector \in Nat
    BY SentVectors
  <2>10. SentInOrder'
    <3>1. ASSUME NEW t \in Streams, NEW i \in DOMAIN sent'[t], NEW j \in DOMAIN sent'[t], i < j
          PROVE  sent'[t][i].vector < sent'[t][j].vector
      <4>1. CASE t # s
        BY <2>6, <3>1, <4>1 DEF SentInOrder
      <4>2. CASE t = s /\ j \in DOMAIN sent[s]
        <5>1. i \in DOMAIN sent[s]
          <6> HIDE DEF s, entry, IInv, TypeOK
          <6>1. /\ i \in 1..Len(sent[s]) + 1 /\ j \in 1..Len(sent[s]) /\ i < j
                /\ Len(sent[s]) \in Nat
            BY <2>5, <3>1, <4>2
          <6>2. i \in 1..Len(sent[s])
            BY <6>1
          <6>3. QED
            BY <2>5, <6>2
        <5>2. QED
          BY <2>4, <2>5, <3>1, <4>2, <5>1 DEF SentInOrder
      <4>3. CASE t = s /\ j = Len(sent[s]) + 1
        <5>1. i \in DOMAIN sent[s]
          <6> HIDE DEF s, entry, IInv, TypeOK
          <6>1. i \in 1..Len(sent[s]) + 1 /\ i < Len(sent[s]) + 1 /\ Len(sent[s]) \in Nat
            BY <2>5, <3>1, <4>3
          <6>2. i \in 1..Len(sent[s])
            BY <6>1
          <6>3. QED
            BY <2>5, <6>2
        <5>2. sent[s][i].vector <= offset[s] /\ sent[s][i].vector \in Nat /\ offset[s] \in Nat
          BY <2>3, <2>4, <2>9, <5>1
        <5>3. sent'[s][i].vector = sent[s][i].vector /\ sent'[s][j].vector = offset[s] + 1
          BY <2>5, <2>7, <4>3, <5>1
        <5>4. sent[s][i].vector < offset[s] + 1
          <6> HIDE DEF s, IInv, TypeOK
          <6>1. QED
            BY <5>2
        <5>5. QED
          BY <4>3, <5>3, <5>4
      <4>4. QED
        BY <2>8, <3>1, <4>1, <4>2, <4>3
    <3>2. QED
      BY <3>1 DEF SentInOrder
  <2>11. SentIsCounted'
    <3>1. ASSUME NEW t \in Streams, NEW i \in DOMAIN sent'[t]
          PROVE  \/ sent'[t][i].vector <= offset[t]
                 \/ t = s /\ sent'[t][i].vector <= offset[t] + write[c].count
      <4> HIDE DEF s, entry, IInv, TypeOK
      <4>1. CASE t # s
        BY <2>3, <2>6, <3>1, <4>1
      <4>2. CASE t = s /\ i \in DOMAIN sent[s]
        BY <2>3, <2>4, <2>5, <4>2
      <4>3. CASE t = s /\ i = Len(sent[s]) + 1
        <5>1. sent'[t][i].vector = offset[s] + 1
          BY <2>5, <2>7, <4>3
        <5>2. offset[s] \in Nat /\ write[c].count \in Nat
          BY <2>4 DEF IInv, TypeOK
        <5>3. QED
          BY <2>4, <4>3, <5>1, <5>2
      <4>4. QED
        BY <2>8, <3>1, <4>1, <4>2, <4>3
    <3>2. QED
      BY <2>1, <3>1 DEF SentIsCounted
  <2>12. QED
    BY <2>10, <2>11
<1>5. ASSUME NEW c \in Callers, AddWriteOffset(c) PROVE SentIsCounted' /\ SentInOrder'
  <2> DEFINE s == write[c].stream
  <2>1. /\ UNCHANGED sent /\ offset' = [offset EXCEPT ![s] = offset[s] + write[c].count]
        /\ at[c] = "offset"
    BY <1>5 DEF AddWriteOffset
  <2>2. \A d \in Callers : at[d] = "offset" => d = c
    BY <2>1 DEF OnePump, Pumping
  <2>3. \A t \in Streams : \A i \in DOMAIN sent[t] : sent[t][i].vector \in Nat
    BY SentVectors
  <2>4. ASSUME NEW t \in Streams, NEW i \in DOMAIN sent[t] PROVE sent[t][i].vector <= offset'[t]
    <3>1. \/ sent[t][i].vector <= offset[t]
          \/ t = s /\ sent[t][i].vector <= offset[t] + write[c].count
      BY <2>2, SMTT(30) DEF SentIsCounted
    <3>2. /\ offset[t] \in Nat /\ write[c].count \in Nat
          /\ offset'[t] = IF t = s THEN offset[s] + write[c].count ELSE offset[t]
      BY <2>1
    <3>3. sent[t][i].vector \in Nat
      BY <2>3
    <3> HIDE DEF s, IInv, TypeOK
    <3>4. CASE t = s
      <4>1. offset'[t] = offset[t] + write[c].count
        BY <3>2, <3>4
      <4>2. QED
        BY <3>1, <3>2, <3>3, <4>1
    <3>5. CASE t # s
      BY <3>1, <3>2, <3>3, <3>5
    <3>6. QED
      BY <3>4, <3>5
  <2>5. QED
    BY <2>1, <2>4 DEF SentIsCounted, SentInOrder
<1>6. CASE ConnectionDown
    BY <1>6 DEF ConnectionDown, SentIsCounted, SentInOrder
<1>7. ASSUME NEW array \in held, SendComplete(array) PROVE SentIsCounted' /\ SentInOrder'
    BY <1>7 DEF SendComplete, SentIsCounted, SentInOrder
<1>8. QED
    BY <1>1, <1>2, <1>3, <1>4, <1>5, <1>6, <1>7 DEF Next, Send

\* An array is made under a name msquic does not hold, and has one owner from then on.
LEMMA ArraysStep ==
    IInv /\ [Next]_vars => HeldIsCounted' /\ InHandIsAllocated' /\ ArraysHaveOneOwner'
<1> SUFFICES ASSUME IInv, [Next]_vars
             PROVE  HeldIsCounted' /\ InHandIsAllocated' /\ ArraysHaveOneOwner'
    OBVIOUS
<1> USE ClientHttp3Assumption DEF IInv, TypeOK, Goto, nghttp3, buffers
<1> USE DEF HeldIsCounted, InHandIsAllocated, ArraysHaveOneOwner
<1>1. CASE UNCHANGED vars
    BY <1>1 DEF vars
<1>2. ASSUME NEW c \in Callers,
             Submit(c) \/ TestAndSet(c) \/ WritevEmpty(c) \/ WritevFails(c) \/ Clear(c)
      PROVE  HeldIsCounted' /\ InHandIsAllocated' /\ ArraysHaveOneOwner'
  <2>1. /\ UNCHANGED <<connection_ok, offset, write, allocated, held>>
        /\ \A d \in Callers : at[d] \in {"check", "send", "offset"} => at'[d] = at[d]
        /\ \A d \in Callers : at'[d] \in {"check", "send", "offset"} => at[d] = at'[d]
    BY <1>2 DEF Submit, TestAndSet, WritevEmpty, WritevFails, Clear
  <2>2. QED
    BY <2>1
<1>3. ASSUME NEW c \in Callers, Writev(c)
      PROVE  HeldIsCounted' /\ InHandIsAllocated' /\ ArraysHaveOneOwner'
  <2>1. \A d \in Callers : at[d] \notin {"check", "send", "offset"}
    BY <1>3 DEF Writev, OnePump, Pumping
  <2>2. PICK s \in queued, count \in 1..MaxVectors :
           write' = [write EXCEPT ![c] = [stream |-> s, from |-> offset[s], count |-> count]]
    BY <1>3 DEF Writev
  <2>3. Array(write'[c]) = <<s, offset[s]>>
    BY <2>2 DEF Array
  <2>4. /\ allocated' = allocated \cup {Array(write'[c])} /\ at' = [at EXCEPT ![c] = "check"]
        /\ UNCHANGED <<connection_ok, offset, held>>
    BY <1>3 DEF Writev
  <2>5. \A array \in held : array[2] < offset[array[1]]
    BY <2>1
  <2>6. Array(write'[c]) \notin held
    <3>1. s \in Streams /\ offset[s] \in Nat
      OBVIOUS
    <3>2. ~(<<s, offset[s]>>[2] < offset[<<s, offset[s]>>[1]])
      BY <3>1
    <3>3. QED
      BY <2>3, <2>5, <3>2
  <2>7. HeldIsCounted'
    BY <2>4, <2>5
  <2>8. InHandIsAllocated'
    <3>1. \A d \in Callers : at'[d] \in {"check", "send"} => d = c
      BY <2>1, <2>4
    <3>2. QED
      BY <2>4, <2>6, <3>1
  <2>9. ArraysHaveOneOwner'
    BY <2>1, <2>4
  <2>10. QED
    BY <2>7, <2>8, <2>9
<1>4. ASSUME NEW c \in Callers, Check(c)
      PROVE  HeldIsCounted' /\ InHandIsAllocated' /\ ArraysHaveOneOwner'
  <2>1. /\ UNCHANGED <<connection_ok, offset, write, allocated, held>> /\ at[c] = "check"
        /\ at' = [at EXCEPT ![c] = IF connection_ok THEN "send" ELSE "offset"]
    BY <1>4 DEF Check
  <2>2. QED
    BY <2>1
<1>5. ASSUME NEW c \in Callers, SendAccepted(c)
      PROVE  HeldIsCounted' /\ InHandIsAllocated' /\ ArraysHaveOneOwner'
  <2>1. \A d \in Callers : at[d] \in {"check", "send", "offset"} => d = c
    BY <1>5 DEF SendAccepted, OnePump, Pumping
  <2>2. /\ at[c] = "send" /\ at' = [at EXCEPT ![c] = "offset"]
        /\ held' = held \cup {Array(write[c])}
        /\ UNCHANGED <<connection_ok, offset, write, allocated>>
    BY <1>5 DEF SendAccepted
  <2>3. Array(write'[c]) = Array(write[c])
    BY <2>2 DEF Array
  <2>4. HeldIsCounted'
    BY <2>1, <2>2, <2>3
  <2>5. InHandIsAllocated' /\ ArraysHaveOneOwner'
    BY <2>1, <2>2
  <2>6. QED
    BY <2>4, <2>5
<1>6. ASSUME NEW c \in Callers, SendRefused(c)
      PROVE  HeldIsCounted' /\ InHandIsAllocated' /\ ArraysHaveOneOwner'
  <2>1. \A d \in Callers : at[d] \in {"check", "send", "offset"} => d = c
    BY <1>6 DEF SendRefused, OnePump, Pumping
  <2>2. /\ at[c] = "send" /\ at' = [at EXCEPT ![c] = "offset"]
        /\ allocated' = allocated \ {Array(write[c])}
        /\ UNCHANGED <<connection_ok, offset, write, held>>
    BY <1>6 DEF SendRefused
  <2>3. QED
    BY <2>1, <2>2
<1>7. ASSUME NEW c \in Callers, AddWriteOffset(c)
      PROVE  HeldIsCounted' /\ InHandIsAllocated' /\ ArraysHaveOneOwner'
  <2> DEFINE s == write[c].stream
  <2>1. \A d \in Callers : at[d] \in {"check", "send", "offset"} => d = c
    BY <1>7 DEF AddWriteOffset, OnePump, Pumping
  <2>2. /\ at[c] = "offset" /\ at' = [at EXCEPT ![c] = "writev"]
        /\ offset' = [offset EXCEPT ![s] = offset[s] + write[c].count]
        /\ UNCHANGED <<connection_ok, write, allocated, held>>
    BY <1>7 DEF AddWriteOffset
  <2>3. s \in Streams /\ write[c].from = offset[s] /\ write[c].count \in Nat /\ write[c].count > 0
    BY <2>2 DEF WriteFits, WriteIsCurrent, InHand
  <2>4. HeldIsCounted'
    <3>1. ASSUME NEW array \in held PROVE array[2] < offset'[array[1]]
      <4>1. array[1] \in Streams /\ array[2] \in Nat /\ offset[array[1]] \in Nat
        BY DEF Arrays
      <4>2. CASE array[2] < offset[array[1]]
        BY <2>2, <2>3, <4>1, <4>2
      <4>3. CASE array = Array(write[c])
        <5>1. array[1] = s /\ array[2] = offset[s]
          BY <2>3, <4>3 DEF Array
        <5>2. QED
          BY <2>2, <2>3, <5>1
      <4>4. QED
        BY <2>1, <4>2, <4>3
    <3>2. QED
      BY <2>2, <3>1
  <2>5. InHandIsAllocated' /\ ArraysHaveOneOwner'
    BY <2>1, <2>2
  <2>6. QED
    BY <2>4, <2>5
<1>8. CASE ConnectionDown
    BY <1>8 DEF ConnectionDown
<1>9. ASSUME NEW array \in held, SendComplete(array)
      PROVE  HeldIsCounted' /\ InHandIsAllocated' /\ ArraysHaveOneOwner'
    BY <1>9 DEF SendComplete
<1>10. QED
    BY <1>1, <1>2, <1>3, <1>4, <1>5, <1>6, <1>7, <1>8, <1>9 DEF Next, Send

LEMMA InvHolds == Spec => []IInv
<1>1. IInv /\ [Next]_vars => IInv'
    BY TypeStep, PumpStep, WriteStep, SentStep, ArraysStep DEF IInv
<1>2. QED
    BY <1>1, InvInit, PTL DEF Spec
-----------------------------------------------------------------------------
\* Every variable keeps its type; no stream is told of more vectors than it has.
THEOREM TypeCorrect == Spec => []TypeOK
<1>1. IInv => TypeOK
    BY DEF IInv
<1>2. QED
    BY <1>1, InvHolds, PTL

\* However many callers share the pump, the offset Send advances is the one its
\* write began at.
THEOREM OnePumpMovesTheOffset == Spec => []WriteIsCurrent
<1>1. IInv => WriteIsCurrent
    BY DEF IInv
<1>2. QED
    BY <1>1, InvHolds, PTL

\* msquic is given the vectors of a stream in order, and none twice.
THEOREM VectorsInOrder == Spec => []SentInOrder
<1>1. IInv => SentInOrder
    BY DEF IInv
<1>2. QED
    BY <1>1, InvHolds, PTL

\* No buffer array is freed while msquic or the pump may use it, and none is lost
\* while the connection is up.
THEOREM ArraysAreOwned == Spec => []ArraysHaveOneOwner
<1>1. IInv => ArraysHaveOneOwner
    BY DEF IInv
<1>2. QED
    BY <1>1, InvHolds, PTL

\* Once a pump has found nothing left, what is queued while no pump runs are
\* requests of callers that were skipped, are about to look, or whose own pump an
\* error of nghttp3 ended.
THEOREM PumpEmptiesTheQueue == Spec => []NothingLeftBehind
<1>1. IInv => NothingLeftBehind
    BY DEF IInv
<1>2. QED
    BY <1>1, InvHolds, PTL
================================================================================
