---------------------------- MODULE EventsProofs ----------------------------
(***************************************************************************)
(* Proofs about EventBus, Notifications and CallChain, which share no      *)
(* state: what a publication calls, what failover and the templates        *)
(* promise, and that the audit trail is complete.  Each part has its       *)
(* inductive invariant, lemmas for the steps and then the theorem.         *)
(***************************************************************************)
EXTENDS EventBus, Notifications, CallChain, SequenceTheorems, TLAPS

-----------------------------------------------------------------------------
(* EventBus.  The slots of the header's array that are in use hold the     *)
(* active subscriptions; a snapshot holds no subscription that was gone,   *)
(* and as long as nothing is removed exactly the registered ones, because  *)
(* an append writes beyond every snapshot or to an array of its own.       *)

\* What a slot may hold.
Slots == Sub \union {None}

Slot(i) == mem[hdr.arr][i]

\* The header reaches the active subscriptions, each once.
HeaderSound ==
    /\ hdr.arr = 0 => hdr.len = 0
    /\ hdr.arr # 0 => hdr.len <= Len(mem[hdr.arr])
    /\ \A i \in 1..hdr.len : Slot(i) \in Sub /\ status[Slot(i)] = "active"
    /\ \A s \in Sub : status[s] = "active" => \E i \in 1..hdr.len : Slot(i) = s
    /\ \A i, j \in 1..hdr.len : Slot(i) = Slot(j) => i = j

\* A removal under way knows where its subscription is.
ShiftSound ==
    WriteLocked =>
        /\ shift.sub \in Sub /\ hdr.arr # 0
        /\ shift.from \in 1..hdr.len /\ Slot(shift.from) = shift.sub

\* How a subscription ends.
Ended == {"cancelled", "closed"}

\* A slot of the snapshot of a publication.
Seen(p, i) == mem[pub[p].arr][i]

\* The snapshot of a publication holds none of the subscriptions that were gone.
SnapshotSound(p) ==
    /\ \A s \in gone[p] : status[s] \in Ended /\ calls[p][s] = 0
    /\ pub[p].pc = "idle" => \A s \in Sub : calls[p][s] = 0
    /\ pub[p].pc = "iterating" =>
          /\ pub[p].arr = 0 => pub[p].len = 0
          /\ pub[p].arr # 0 => pub[p].len <= Len(mem[pub[p].arr])
          /\ pub[p].next \in 1..(pub[p].len + 1)
          /\ \A i \in 1..pub[p].len : Seen(p, i) \in Sub \ gone[p]

\* While nothing is removed, it holds the registered ones, each once, and has called
\* those it has passed.
SnapshotExact(p) ==
    p \notin disturbed =>
        /\ pub[p].pc = "iterating" =>
              /\ ~WriteLocked
              /\ pub[p].arr = hdr.arr => pub[p].len <= hdr.len
              /\ \A i \in 1..pub[p].len : Seen(p, i) \in registered[p]
              /\ \A s \in registered[p] : \E i \in 1..pub[p].len : Seen(p, i) = s
              /\ \A i, j \in 1..pub[p].len : Seen(p, i) = Seen(p, j) => i = j
              /\ \A s \in Sub : calls[p][s] =
                    IF \E i \in 1..(pub[p].next - 1) : Seen(p, i) = s THEN 1 ELSE 0
        /\ pub[p].pc = "done" =>
              \A s \in Sub : calls[p][s] = IF s \in registered[p] THEN 1 ELSE 0

\* The inductive invariant of the bus.
BusInv ==
    /\ TypeOK /\ HeaderSound /\ ShiftSound
    /\ \A p \in Publisher : SnapshotSound(p) /\ SnapshotExact(p)

\* The registered handlers are the slots the header reaches.
LEMMA HandlersAre ==
    ASSUME TypeOK, HeaderSound
    PROVE  \A i \in 1..hdr.len : Handlers[i] = Slot(i)
<1> SUFFICES ASSUME NEW i \in 1..hdr.len PROVE Handlers[i] = Slot(i)
  OBVIOUS
<1>1. /\ hdr.arr \in 1..Len(mem) /\ hdr.len \in Nat /\ hdr.len <= Len(mem[hdr.arr])
      /\ mem[hdr.arr] \in Seq(Slots)
  BY DEF TypeOK, HeaderSound, Slots
<1> QED BY <1>1 DEF Handlers, Slot

\* What a publication can read, also in the middle of a removal: a subscription,
\* and none that was gone when the publication began.
LEMMA ReadIs ==
    ASSUME TypeOK, HeaderSound, ShiftSound, NEW p \in Publisher, SnapshotSound(p),
           pub[p].pc = "iterating", NEW i \in 1..pub[p].len, NEW s \in Read(pub[p].arr, i)
    PROVE  s \in Sub \ gone[p]
<1>1. pub[p].arr # 0 /\ Seen(p, i) \in Sub \ gone[p] /\ pub[p].len <= Len(mem[pub[p].arr])
  BY DEF SnapshotSound, TypeOK
<1>2. CASE s = Seen(p, i)
  BY <1>1, <1>2
<1>3. CASE WriteLocked /\ pub[p].arr = hdr.arr /\ s = Shifted[i]
  <2>1. i \in 1..Cap
    BY <1>1, <1>3 DEF Cap, TypeOK
  <2>2. CASE shift.from <= i /\ i < hdr.len
    <3>1. s = Slot(i + 1) /\ i + 1 \in 1..hdr.len
      BY <1>3, <2>1, <2>2 DEF Shifted, Slot, TypeOK
    <3>2. s \in Sub /\ status[s] = "active"
      BY <3>1 DEF HeaderSound
    <3> QED BY <3>2 DEF SnapshotSound, Ended
  <2>3. CASE ~(shift.from <= i /\ i < hdr.len)
    BY <1>1, <1>3, <2>1, <2>3 DEF Shifted, Seen
  <2> QED BY <2>2, <2>3
<1> QED BY <1>2, <1>3 DEF Read, Seen

\* The invariant implies the property.
LEMMA InvGivesExact == BusInv => PublicationsAreExact
<1> SUFFICES ASSUME BusInv PROVE PublicationsAreExact
  OBVIOUS
<1>1. UndisturbedIsExact
  BY DEF BusInv, SnapshotExact, UndisturbedIsExact
<1>2. NoCallAfterUnsubscribe
  <2>1. ASSUME NEW p \in Publisher, NEW s \in gone[p] PROVE calls[p][s] = 0
    BY DEF BusInv, SnapshotSound
  <2>2. ASSUME NEW p \in Publisher, pub[p].pc = "iterating",
               NEW i \in pub[p].next..pub[p].len
        PROVE  None \notin Read(pub[p].arr, i)
    <3>1. i \in 1..pub[p].len
      BY <2>2 DEF BusInv, SnapshotSound, TypeOK
    <3>2. \A s \in Read(pub[p].arr, i) : s \in Sub
      BY <2>2, <3>1, ReadIs DEF BusInv
    <3> QED BY <3>2, NoneAssumption
  <2> QED BY <2>1, <2>2 DEF NoCallAfterUnsubscribe
<1>3. RegisteredIsActive
  BY HandlersAre DEF BusInv, HeaderSound, RegisteredIsActive
<1> QED BY <1>1, <1>2, <1>3 DEF PublicationsAreExact

\* A step that changes arrays, header or statuses keeps the snapshots sound and
\* exact, if what it writes is no subscription that was gone, and if it leaves alone
\* the slots of the undisturbed.
LEMMA MemoryStep ==
    ASSUME BusInv, TypeOK', UNCHANGED <<pub, calls, registered, gone>>,
           \A a \in 1..Len(mem) : a \in 1..Len(mem') /\ Len(mem'[a]) = Len(mem[a]),
           \A p \in Publisher : pub[p].pc = "iterating" =>
               \A i \in 1..pub[p].len : mem'[pub[p].arr][i] \in Sub \ gone[p],
           \A p \in Publisher : pub[p].pc = "iterating" /\ p \notin disturbed' =>
               /\ ~WriteLocked'
               /\ pub[p].arr = hdr'.arr => pub[p].len <= hdr'.len
               /\ \A i \in 1..pub[p].len : mem'[pub[p].arr][i] = mem[pub[p].arr][i],
           \A s \in Sub : status[s] \in Ended => status'[s] \in Ended,
           disturbed \subseteq disturbed'
    PROVE  \A p \in Publisher : SnapshotSound(p)' /\ SnapshotExact(p)'
<1> SUFFICES ASSUME NEW p \in Publisher PROVE SnapshotSound(p)' /\ SnapshotExact(p)'
  OBVIOUS
<1>1. SnapshotSound(p) /\ SnapshotExact(p) /\ pub'[p] = pub[p] /\ calls'[p] = calls[p]
      /\ registered'[p] = registered[p] /\ gone'[p] = gone[p]
  BY DEF BusInv
<1>2. /\ pub[p].arr \in 0..Len(mem) /\ pub[p].len \in Nat /\ pub[p].next \in Nat
      /\ registered[p] \subseteq Sub /\ gone[p] \subseteq Sub /\ Len(mem) \in Nat
  BY DEF BusInv, TypeOK
<1>3. SnapshotSound(p)'
  <2>1. \A s \in gone'[p] : status'[s] \in Ended /\ calls'[p][s] = 0
    BY <1>1, <1>2 DEF SnapshotSound
  <2>2. pub'[p].pc = "idle" => \A s \in Sub : calls'[p][s] = 0
    BY <1>1 DEF SnapshotSound
  <2>3. ASSUME pub'[p].pc = "iterating"
        PROVE  /\ pub'[p].arr = 0 => pub'[p].len = 0
               /\ pub'[p].arr # 0 => pub'[p].len <= Len(mem'[pub'[p].arr])
               /\ pub'[p].next \in 1..(pub'[p].len + 1)
               /\ \A i \in 1..pub'[p].len : mem'[pub'[p].arr][i] \in Sub \ gone'[p]
    BY <1>1, <1>2, <2>3 DEF SnapshotSound
  <2> QED BY <2>1, <2>2, <2>3 DEF SnapshotSound, Seen
<1>4. ASSUME p \notin disturbed' PROVE SnapshotExact(p)'
  <2>1. p \notin disturbed
    BY <1>4
  <2>2. ASSUME pub[p].pc = "iterating"
        PROVE  /\ ~WriteLocked'
               /\ pub[p].arr = hdr'.arr => pub[p].len <= hdr'.len
               /\ \A i \in 1..pub[p].len : mem'[pub[p].arr][i] = Seen(p, i)
               /\ pub[p].next \in 1..(pub[p].len + 1)
               /\ \A i \in 1..pub[p].len : Seen(p, i) \in registered[p]
               /\ \A s \in registered[p] : \E i \in 1..pub[p].len : Seen(p, i) = s
               /\ \A i, j \in 1..pub[p].len : Seen(p, i) = Seen(p, j) => i = j
               /\ \A s \in Sub : calls[p][s] =
                     IF \E i \in 1..(pub[p].next - 1) : Seen(p, i) = s THEN 1 ELSE 0
    BY <1>1, <1>4, <2>1, <2>2 DEF SnapshotExact, Seen, SnapshotSound
  <2>3. ASSUME pub[p].pc = "iterating", NEW s \in Sub
        PROVE  calls[p][s] = IF \E i \in 1..(pub[p].next - 1) : mem'[pub[p].arr][i] = s
                             THEN 1 ELSE 0
    <3>1. \A i \in 1..(pub[p].next - 1) : i \in 1..pub[p].len
      BY <1>2, <2>2, <2>3
    <3> QED BY <2>2, <2>3, <3>1
  <2>4. pub[p].pc = "done" => \A s \in Sub : calls[p][s] = IF s \in registered[p] THEN 1 ELSE 0
    BY <1>1, <2>1 DEF SnapshotExact
  <2>5. pub[p].pc = "iterating" =>
          /\ ~WriteLocked'
          /\ pub[p].arr = hdr'.arr => pub[p].len <= hdr'.len
          /\ \A i \in 1..pub[p].len : mem'[pub[p].arr][i] \in registered[p]
          /\ \A s \in registered[p] : \E i \in 1..pub[p].len : mem'[pub[p].arr][i] = s
          /\ \A i, j \in 1..pub[p].len : mem'[pub[p].arr][i] = mem'[pub[p].arr][j] => i = j
    BY <2>2
  <2> QED BY <1>1, <2>3, <2>4, <2>5 DEF SnapshotExact, Seen
<1>5. p \in disturbed' => SnapshotExact(p)'
  BY DEF SnapshotExact
<1> QED BY <1>3, <1>4, <1>5

\* A step of one publication leaves the others and the registrations alone.
LEMMA PublicationStep ==
    ASSUME BusInv, NEW p \in Publisher, UNCHANGED <<mem, hdr, shift, status, disturbed>>,
           \A q \in Publisher \ {p} :
               pub'[q] = pub[q] /\ calls'[q] = calls[q] /\ registered'[q] = registered[q]
               /\ gone'[q] = gone[q]
    PROVE  /\ HeaderSound' /\ ShiftSound'
           /\ \A q \in Publisher \ {p} : SnapshotSound(q)' /\ SnapshotExact(q)'
<1>1. HeaderSound' /\ ShiftSound'
  BY DEF BusInv, HeaderSound, ShiftSound, Slot, WriteLocked
<1>2. ASSUME NEW q \in Publisher \ {p} PROVE SnapshotSound(q)' /\ SnapshotExact(q)'
  <2>1. SnapshotSound(q) /\ SnapshotExact(q) /\ pub'[q] = pub[q] /\ calls'[q] = calls[q]
        /\ registered'[q] = registered[q] /\ gone'[q] = gone[q]
    BY DEF BusInv
  <2>2. SnapshotSound(q)'
    BY <2>1 DEF SnapshotSound, Seen
  <2>3. SnapshotExact(q)'
    BY <2>1 DEF SnapshotExact, Seen, WriteLocked
  <2> QED BY <2>2, <2>3
<1> QED BY <1>1, <1>2

\* The snapshot of the active subscriptions.
LEMMA SnapshotStep == ASSUME BusInv, NEW p \in Publisher, Snapshot(p) PROVE BusInv'
<1> USE DEF Snapshot
<1>1. TypeOK'
  <2>1. pub' = [pub EXCEPT ![p] =
                 [pc |-> "iterating", arr |-> hdr.arr, len |-> hdr.len, next |-> 1]]
        /\ hdr.arr \in 0..Len(mem) /\ hdr.len \in Nat
    BY DEF BusInv, TypeOK
  <2>2. [pc |-> "iterating", arr |-> hdr.arr, len |-> hdr.len, next |-> 1] \in
          [pc : {"idle", "iterating", "done"}, arr : 0..Len(mem), len : Nat, next : Nat]
    BY <2>1
  <2> QED BY <2>1, <2>2 DEF BusInv, TypeOK
<1>2. /\ HeaderSound' /\ ShiftSound'
      /\ \A q \in Publisher \ {p} : SnapshotSound(q)' /\ SnapshotExact(q)'
  BY PublicationStep DEF BusInv, TypeOK
<1>3. /\ pub'[p] = [pc |-> "iterating", arr |-> hdr.arr, len |-> hdr.len, next |-> 1]
      /\ calls'[p] = calls[p]
      /\ registered'[p] = {s \in Sub : status[s] = "active"}
      /\ gone'[p] = {s \in Sub : status[s] \in {"cancelled", "closed"}}
      /\ mem' = mem /\ hdr' = hdr /\ status' = status /\ shift' = shift
  BY DEF BusInv, TypeOK
<1>4. \A s \in Sub : calls[p][s] = 0
  BY DEF BusInv, SnapshotSound
<1>5. /\ HeaderSound /\ hdr.len \in Nat /\ hdr.arr \in Nat
  BY DEF BusInv, TypeOK
<1>6. \A i \in 1..hdr.len : Slot(i) \in registered'[p] /\ Slot(i) \notin gone'[p]
  BY <1>3, <1>5 DEF HeaderSound
<1>7. SnapshotSound(p)'
  <2>1. \A s \in gone'[p] : status'[s] \in Ended /\ calls'[p][s] = 0
    BY <1>3, <1>4 DEF Ended
  <2>2. \A i \in 1..hdr.len : mem[hdr.arr][i] \in Sub \ gone'[p]
    BY <1>3, <1>5, <1>6 DEF HeaderSound, Slot
  <2>3. /\ hdr.arr = 0 => hdr.len = 0
        /\ hdr.arr # 0 => hdr.len <= Len(mem[hdr.arr])
        /\ 1 \in 1..(hdr.len + 1)
    BY <1>5 DEF HeaderSound
  <2>4. /\ pub'[p].pc = "iterating" /\ pub'[p].arr = hdr.arr /\ pub'[p].len = hdr.len
        /\ pub'[p].next = 1
    BY <1>3
  <2> QED BY <1>3, <2>1, <2>2, <2>3, <2>4 DEF SnapshotSound, Seen
<1>8. SnapshotExact(p)'
  <2>1. ~WriteLocked'
    BY <1>3 DEF WriteLocked
  <2>2. \A s \in registered'[p] : \E i \in 1..hdr.len : mem[hdr.arr][i] = s
    BY <1>3, <1>5 DEF HeaderSound, Slot
  <2>3. \A i, j \in 1..hdr.len : mem[hdr.arr][i] = mem[hdr.arr][j] => i = j
    BY <1>5 DEF HeaderSound, Slot
  <2>4. \A i \in 1..hdr.len : mem[hdr.arr][i] \in registered'[p]
    BY <1>6 DEF Slot
  <2>5. ASSUME NEW s \in Sub
        PROVE  calls'[p][s] = IF \E i \in 1..(pub'[p].next - 1) : Seen(p, i)' = s THEN 1 ELSE 0
    <3>1. 1..(pub'[p].next - 1) = {}
      BY <1>3
    <3> QED BY <1>3, <1>4, <3>1
  <2>6. /\ pub'[p].pc = "iterating" /\ pub'[p].arr = hdr.arr /\ pub'[p].len = hdr.len
        /\ hdr.len <= hdr.len
    BY <1>3, <1>5
  <2> QED BY <1>3, <2>1, <2>2, <2>3, <2>4, <2>5, <2>6 DEF SnapshotExact, Seen
<1> QED BY <1>1, <1>2, <1>7, <1>8 DEF BusInv

\* The loop has passed its last slot: everybody registered was called.
LEMMA ReturnStep == ASSUME BusInv, NEW p \in Publisher, Return(p) PROVE BusInv'
<1> USE DEF Return
<1>1. TypeOK'
  <2>1. pub' \in [Publisher ->
          [pc : {"idle", "iterating", "done"}, arr : 0..Len(mem), len : Nat, next : Nat]]
    <3>1. pub \in [Publisher ->
            [pc : {"idle", "iterating", "done"}, arr : 0..Len(mem), len : Nat, next : Nat]]
      BY DEF BusInv, TypeOK
    <3>2. pub' = [pub EXCEPT ![p].pc = "done"]
      OBVIOUS
    <3> QED BY <3>1, <3>2
  <2> QED BY <2>1 DEF BusInv, TypeOK
<1>2. /\ HeaderSound' /\ ShiftSound'
      /\ \A q \in Publisher \ {p} : SnapshotSound(q)' /\ SnapshotExact(q)'
  BY PublicationStep DEF BusInv, TypeOK
<1>3. SnapshotSound(p) /\ SnapshotExact(p) /\ pub'[p].pc = "done" /\ calls'[p] = calls[p]
      /\ registered'[p] = registered[p] /\ gone'[p] = gone[p] /\ status' = status
      /\ disturbed' = disturbed
  BY DEF BusInv, TypeOK
<1>4. SnapshotSound(p)'
  BY <1>3 DEF SnapshotSound
<1>5. SnapshotExact(p)'
  <2>1. pub[p].next - 1 = pub[p].len
    BY <1>3 DEF SnapshotSound, BusInv, TypeOK
  <2>2. ASSUME p \notin disturbed, NEW s \in Sub
        PROVE  calls[p][s] = IF s \in registered[p] THEN 1 ELSE 0
    <3>1. /\ \A i \in 1..pub[p].len : Seen(p, i) \in registered[p]
          /\ \A t \in registered[p] : \E i \in 1..pub[p].len : Seen(p, i) = t
          /\ calls[p][s] = IF \E i \in 1..(pub[p].next - 1) : Seen(p, i) = s THEN 1 ELSE 0
      BY <1>3, <2>2 DEF SnapshotExact
    <3>2. (\E i \in 1..pub[p].len : Seen(p, i) = s) <=> s \in registered[p]
      BY <3>1
    <3> QED BY <2>1, <3>1, <3>2
  <2> QED BY <1>3, <2>2 DEF SnapshotExact
<1> QED BY <1>1, <1>2, <1>4, <1>5 DEF BusInv

\* One turn of the loop: the slot it passes is one it had not passed before.
LEMMA CallStep == ASSUME BusInv, NEW p \in Publisher, CallNext(p) PROVE BusInv'
<1>1. PICK s \in Read(pub[p].arr, pub[p].next) : calls' = [calls EXCEPT ![p][s] = @ + 1]
  BY DEF CallNext
<1>2. /\ pub[p].pc = "iterating" /\ pub[p].next \in 1..pub[p].len /\ pub[p].len \in Nat
      /\ pub' = [pub EXCEPT ![p].next = @ + 1]
      /\ UNCHANGED <<mem, hdr, shift, status, registered, gone, disturbed>>
      /\ SnapshotSound(p) /\ SnapshotExact(p)
  BY DEF CallNext, BusInv, SnapshotSound, TypeOK
<1>3. s \in Sub \ gone[p]
  BY <1>1, <1>2, ReadIs DEF BusInv
<1>4. TypeOK'
  <2>1. pub' \in [Publisher ->
          [pc : {"idle", "iterating", "done"}, arr : 0..Len(mem), len : Nat, next : Nat]]
    BY <1>2 DEF BusInv, TypeOK
  <2>2. calls' \in [Publisher -> [Sub -> Nat]]
    BY <1>1, <1>3 DEF BusInv, TypeOK
  <2> QED BY <1>2, <2>1, <2>2 DEF BusInv, TypeOK
<1>5. /\ HeaderSound' /\ ShiftSound'
      /\ \A q \in Publisher \ {p} : SnapshotSound(q)' /\ SnapshotExact(q)'
  <2>1. \A q \in Publisher \ {p} :
           pub'[q] = pub[q] /\ calls'[q] = calls[q] /\ registered'[q] = registered[q]
           /\ gone'[q] = gone[q]
    BY <1>1, <1>2 DEF BusInv, TypeOK
  <2> QED BY <1>2, <2>1, PublicationStep
<1>6. /\ pub'[p].pc = "iterating" /\ pub'[p].arr = pub[p].arr /\ pub'[p].len = pub[p].len
      /\ pub'[p].next = pub[p].next + 1
      /\ \A t \in Sub : calls'[p][t] = IF t = s THEN calls[p][t] + 1 ELSE calls[p][t]
      /\ \A t \in Sub : calls[p][t] \in Nat
      /\ gone[p] \subseteq Sub /\ registered[p] \subseteq Sub
  BY <1>1, <1>2, <1>3 DEF BusInv, TypeOK
<1>7. SnapshotSound(p)'
  <2>1. \A t \in gone'[p] : status'[t] \in Ended /\ calls'[p][t] = 0
    BY <1>2, <1>3, <1>6 DEF SnapshotSound
  <2>2. /\ pub[p].arr = 0 => pub[p].len = 0
        /\ pub[p].arr # 0 => pub[p].len <= Len(mem[pub[p].arr])
        /\ pub[p].next + 1 \in 1..(pub[p].len + 1)
        /\ \A i \in 1..pub[p].len : Seen(p, i) \in Sub \ gone[p]
    BY <1>2 DEF SnapshotSound
  <2> QED BY <1>2, <1>6, <2>1, <2>2 DEF SnapshotSound, Seen
<1>8. ASSUME p \notin disturbed PROVE SnapshotExact(p)'
  <2>1. /\ ~WriteLocked
        /\ pub[p].arr = hdr.arr => pub[p].len <= hdr.len
        /\ \A i \in 1..pub[p].len : Seen(p, i) \in registered[p]
        /\ \A t \in registered[p] : \E i \in 1..pub[p].len : Seen(p, i) = t
        /\ \A i, j \in 1..pub[p].len : Seen(p, i) = Seen(p, j) => i = j
        /\ \A t \in Sub : calls[p][t] =
              IF \E i \in 1..(pub[p].next - 1) : Seen(p, i) = t THEN 1 ELSE 0
    BY <1>2, <1>8 DEF SnapshotExact
  <2>2. s = Seen(p, pub[p].next)
    BY <1>1, <2>1 DEF Read, Seen
  <2>3. ASSUME NEW t \in Sub
        PROVE  calls'[p][t] = IF \E i \in 1..pub[p].next : Seen(p, i) = t THEN 1 ELSE 0
    <3>1. CASE t = s
      <4>1. ~\E i \in 1..(pub[p].next - 1) : Seen(p, i) = t
        BY <1>2, <2>1, <2>2, <3>1
      <4>2. calls[p][t] = 0
        BY <2>1, <4>1
      <4>3. \E i \in 1..pub[p].next : Seen(p, i) = t
        BY <1>2, <2>2, <3>1
      <4> QED BY <1>6, <3>1, <4>2, <4>3
    <3>2. CASE t # s
      <4>1. (\E i \in 1..pub[p].next : Seen(p, i) = t)
              <=> \E i \in 1..(pub[p].next - 1) : Seen(p, i) = t
        BY <1>2, <2>2, <3>2
      <4> QED BY <1>6, <2>1, <3>2, <4>1
    <3> QED BY <3>1, <3>2
  <2>4. pub'[p].next - 1 = pub[p].next
    BY <1>2, <1>6
  <2> QED BY <1>2, <1>6, <2>1, <2>3, <2>4 DEF SnapshotExact, Seen, WriteLocked
<1>9. SnapshotExact(p)'
  BY <1>2, <1>8 DEF SnapshotExact
<1> QED BY <1>4, <1>5, <1>7, <1>9 DEF BusInv

\* With handlers that differ, the first match is the only one and the right one.
LEMMA FirstMatch ==
    ASSUME TypeOK, HeaderSound, NEW s \in Sub,
           \A t, u \in Sub : CodeOf[t] = CodeOf[u] => t = u,
           NEW i \in 1..hdr.len, Matches(s, i)
    PROVE  /\ Slot(i) = s /\ status[s] = "active"
           /\ {j \in 1..hdr.len : Matches(s, j)} = {i}
<1>1. \A j \in 1..hdr.len : Matches(s, j) => Slot(j) = s
  BY HandlersAre DEF Matches, HeaderSound
<1> QED BY <1>1 DEF HeaderSound

\* A removal begins, or there is nothing to remove.
LEMMA UnsubscribeStep ==
    ASSUME BusInv, NEW s \in Sub, Unsubscribe(s),
           \A t, u \in Sub : CodeOf[t] = CodeOf[u] => t = u
    PROVE  BusInv'
<1> DEFINE found == {i \in 1..hdr.len : Matches(s, i)}
<1>1. CASE found = {}
  <2>1. /\ status[s] \in {"active", "cancelled", "closed"}
        /\ status' = [status EXCEPT ![s] = "cancelled"]
        /\ UNCHANGED <<mem, hdr, shift, pub, calls, registered, gone, disturbed>>
        /\ ~WriteLocked
    BY <1>1 DEF Unsubscribe
  <2>2. status[s] # "active"
    <3>1. SUFFICES ASSUME status[s] = "active" PROVE FALSE
      OBVIOUS
    <3>2. PICK i \in 1..hdr.len : Slot(i) = s
      BY <3>1 DEF BusInv, HeaderSound
    <3>3. Matches(s, i)
      BY <3>2, HandlersAre DEF BusInv, Matches
    <3> QED BY <1>1, <3>3
  <2>3. TypeOK'
    BY <2>1 DEF BusInv, TypeOK
  <2>4. /\ \A t \in Sub : status'[t] = "active" <=> status[t] = "active"
        /\ \A t \in Sub : status[t] \in Ended => status'[t] \in Ended
    BY <2>1, <2>2 DEF BusInv, TypeOK, Ended
  <2>5. HeaderSound' /\ ShiftSound'
    BY <2>1, <2>4 DEF BusInv, HeaderSound, ShiftSound, Slot, WriteLocked
  <2>6. ASSUME NEW p \in Publisher, pub[p].pc = "iterating"
        PROVE  \A i \in 1..pub[p].len : mem'[pub[p].arr][i] \in Sub \ gone[p]
    BY <2>1, <2>6 DEF BusInv, SnapshotSound, Seen
  <2>7. ASSUME NEW p \in Publisher, pub[p].pc = "iterating", p \notin disturbed
        PROVE  pub[p].arr = hdr.arr => pub[p].len <= hdr.len
    BY <2>7 DEF BusInv, SnapshotExact
  <2>8. ~WriteLocked'
    BY <2>1 DEF WriteLocked
  <2>9. \A p \in Publisher : SnapshotSound(p)' /\ SnapshotExact(p)'
    BY <2>1, <2>3, <2>4, <2>6, <2>7, <2>8, MemoryStep
  <2> QED BY <2>3, <2>5, <2>9 DEF BusInv
<1>2. CASE found # {}
  <2>1. PICK i \in 1..hdr.len : Matches(s, i)
    BY <1>2
  <2>2. Slot(i) = s /\ status[s] = "active" /\ found = {i}
    BY <2>1, FirstMatch DEF BusInv
  <2>3. i = CHOOSE k \in found : \A j \in found : k <= j
    BY <2>2 DEF BusInv, TypeOK
  <2>4. /\ shift' = [sub |-> s, from |-> i]
        /\ disturbed' = disturbed \union {p \in Publisher : pub[p].pc = "iterating"}
        /\ UNCHANGED <<mem, hdr, status, pub, calls, registered, gone>>
    BY <1>2, <2>3 DEF Unsubscribe
  <2>5. TypeOK'
    <3>1. [sub |-> s, from |-> i] \in [sub : Sub \union {None}, from : Nat]
      OBVIOUS
    <3> QED BY <2>4, <3>1 DEF BusInv, TypeOK
  <2>6. HeaderSound'
    BY <2>4 DEF BusInv, HeaderSound, Slot
  <2>7. ShiftSound'
    BY <2>2, <2>4 DEF BusInv, ShiftSound, HeaderSound, Slot, TypeOK
  <2>8. ASSUME NEW p \in Publisher, pub[p].pc = "iterating"
        PROVE  /\ \A j \in 1..pub[p].len : mem'[pub[p].arr][j] \in Sub \ gone[p]
               /\ p \in disturbed'
    BY <2>4, <2>8 DEF BusInv, SnapshotSound, Seen
  <2>9. \A p \in Publisher : SnapshotSound(p)' /\ SnapshotExact(p)'
    BY <2>4, <2>5, <2>8, MemoryStep
  <2> QED BY <2>5, <2>6, <2>7, <2>9 DEF BusInv
<1> QED BY <1>1, <1>2

\* Close drops all registrations, but no array.
LEMMA CloseStep == ASSUME BusInv, Close PROVE BusInv'
<1>1. /\ ~WriteLocked /\ hdr' = Nil
      /\ status' = [s \in Sub |-> IF status[s] = "active" THEN "closed" ELSE status[s]]
      /\ UNCHANGED <<mem, shift, pub, calls, registered, gone, disturbed>>
  BY DEF Close
<1>2. TypeOK'
  <2>1. Nil \in [arr : 0..Len(mem), len : Nat]
    BY DEF BusInv, TypeOK, Nil
  <2> QED BY <1>1, <2>1 DEF BusInv, TypeOK
<1>3. /\ \A s \in Sub : status'[s] # "active"
      /\ \A s \in Sub : status[s] \in Ended => status'[s] \in Ended
      /\ hdr'.arr = 0 /\ hdr'.len = 0 /\ ~WriteLocked'
  BY <1>1 DEF Ended, Nil, WriteLocked
<1>4. HeaderSound' /\ ShiftSound'
  BY <1>3 DEF HeaderSound, ShiftSound
<1>5. ASSUME NEW p \in Publisher, pub[p].pc = "iterating"
      PROVE  /\ \A i \in 1..pub[p].len : mem'[pub[p].arr][i] \in Sub \ gone[p]
             /\ pub[p].arr = hdr'.arr => pub[p].len <= hdr'.len
  BY <1>1, <1>3, <1>5 DEF BusInv, SnapshotSound, Seen
<1>6. \A p \in Publisher : SnapshotSound(p)' /\ SnapshotExact(p)'
  BY <1>1, <1>2, <1>3, <1>5, MemoryStep
<1> QED BY <1>2, <1>4, <1>6 DEF BusInv

\* The array of the header, if it has one.
LEMMA ArrayIs ==
    ASSUME BusInv, hdr.arr # 0
    PROVE  /\ hdr.arr \in 1..Len(mem) /\ mem[hdr.arr] \in Seq(Slots)
           /\ Cap = Len(mem[hdr.arr]) /\ Cap \in Nat /\ hdr.len \in 0..Cap
           /\ mem \in Seq(Seq(Slots))
BY DEF BusInv, TypeOK, HeaderSound, Cap, Slots

\* The removal: the slots behind it move up by one, for whoever is iterating too.
LEMMA FinishStep == ASSUME BusInv, FinishUnsubscribe PROVE BusInv'
<1> DEFINE s == shift.sub
           k == shift.from
<1>1. /\ WriteLocked /\ mem' = [mem EXCEPT ![hdr.arr] = Shifted]
      /\ hdr' = [hdr EXCEPT !.len = @ - 1]
      /\ status' = [status EXCEPT ![s] = "cancelled"]
      /\ shift' = NoShift
      /\ UNCHANGED <<pub, calls, registered, gone, disturbed>>
  BY DEF FinishUnsubscribe
<1>2. /\ s \in Sub /\ hdr.arr # 0 /\ k \in 1..hdr.len /\ Slot(k) = s
  BY <1>1 DEF BusInv, ShiftSound
<1>3. /\ hdr.arr \in 1..Len(mem) /\ mem[hdr.arr] \in Seq(Slots)
      /\ Cap = Len(mem[hdr.arr]) /\ Cap \in Nat /\ hdr.len \in 0..Cap
      /\ mem \in Seq(Seq(Slots))
  BY <1>2, ArrayIs
<1>4. /\ Shifted \in Seq(Slots) /\ Len(Shifted) = Cap
      /\ \A i \in 1..Cap : Shifted[i] = IF k <= i /\ i < hdr.len THEN Slot(i + 1) ELSE Slot(i)
  <2>1. \A i \in 1..Cap : Slot(i) \in Slots
    BY <1>3, ElementOfSeq DEF Slot
  <2>2. \A i \in 1..Cap : (IF k <= i /\ i < hdr.len THEN Slot(i + 1) ELSE Slot(i)) \in Slots
    BY <1>2, <1>3, <2>1
  <2>3. Shifted = [i \in 1..Cap |-> IF k <= i /\ i < hdr.len THEN Slot(i + 1) ELSE Slot(i)]
    BY DEF Shifted, Slot
  <2>4. Shifted \in [1..Cap -> Slots]
    BY <2>2, <2>3
  <2>5. Shifted \in Seq(Slots)
    <3>1. Shifted \in UNION {[1..n -> Slots] : n \in Nat}
      BY <1>3, <2>4
    <3> QED BY <3>1, SeqDef
  <2>6. Len(Shifted) = Cap
    BY <1>3, <2>4, <2>5
  <2> QED BY <2>3, <2>5, <2>6
<1>5. /\ mem' \in Seq(Seq(Slots)) /\ Len(mem') = Len(mem)
      /\ \A a \in 1..Len(mem) : mem'[a] = IF a = hdr.arr THEN Shifted ELSE mem[a]
  BY <1>1, <1>3, <1>4, ExceptSeq
<1>6. /\ hdr'.arr = hdr.arr /\ hdr'.len = hdr.len - 1 /\ hdr.len - 1 \in Nat
      /\ hdr' \in [arr : 0..Len(mem), len : Nat] /\ k \in Nat
  <2>1. hdr \in [arr : 0..Len(mem), len : Nat]
    BY DEF BusInv, TypeOK
  <2>2. hdr.len - 1 \in Nat /\ k \in Nat
    BY <1>2, <2>1
  <2> QED BY <1>1, <2>1, <2>2
<1>7. TypeOK'
  <2>1. status' \in [Sub -> {"new", "active", "cancelled", "closed"}]
    BY <1>1, <1>2 DEF BusInv, TypeOK
  <2>2. shift' \in [sub : Sub \union {None}, from : Nat]
    BY <1>1 DEF NoShift
  <2> QED BY <1>1, <1>5, <1>6, <2>1, <2>2 DEF BusInv, TypeOK, Slots
<1>8. /\ ~WriteLocked' /\ ShiftSound'
  BY <1>1 DEF WriteLocked, ShiftSound
<1>9. \A i \in 1..hdr'.len : Slot(i)' = IF k <= i THEN Slot(i + 1) ELSE Slot(i)
  <2>1. ASSUME NEW i \in 1..hdr'.len
        PROVE  i \in 1..Cap /\ i < hdr.len
    BY <1>3, <1>6
  <2>2. \A i \in 1..Cap : Slot(i)' = Shifted[i]
    BY <1>3, <1>5, <1>6 DEF Slot
  <2> QED BY <1>4, <2>1, <2>2
<1>10. /\ \A i \in 1..hdr.len : Slot(i) \in Sub /\ status[Slot(i)] = "active"
       /\ \A t \in Sub : status[t] = "active" => \E i \in 1..hdr.len : Slot(i) = t
       /\ \A i, j \in 1..hdr.len : Slot(i) = Slot(j) => i = j
  BY DEF BusInv, HeaderSound
<1>11. \A t \in Sub : status'[t] = IF t = s THEN "cancelled" ELSE status[t]
  BY <1>1, <1>2 DEF BusInv, TypeOK
<1>12. HeaderSound'
  <2>1. hdr'.arr # 0 /\ hdr'.len <= Len(mem'[hdr'.arr])
    BY <1>2, <1>3, <1>4, <1>5, <1>6
  <2>2. ASSUME NEW i \in 1..hdr'.len PROVE Slot(i)' \in Sub /\ status'[Slot(i)'] = "active"
    <3>1. i \in 1..hdr.len /\ i + 1 \in 1..hdr.len /\ (k <= i => i + 1 # k)
      BY <1>3, <1>6
    <3>2. PICK j \in 1..hdr.len : Slot(i)' = Slot(j) /\ j # k
      BY <1>9, <3>1
    <3> QED BY <1>2, <1>10, <1>11, <3>2
  <2>3. ASSUME NEW t \in Sub, status'[t] = "active" PROVE \E i \in 1..hdr'.len : Slot(i)' = t
    <3>1. t # s /\ status[t] = "active"
      BY <1>11, <2>3
    <3>2. PICK j \in 1..hdr.len : Slot(j) = t
      BY <1>10, <3>1
    <3>3. CASE j < k
      <4>1. j \in 1..hdr'.len /\ ~(k <= j)
        BY <1>2, <1>3, <1>6, <3>3
      <4> QED BY <1>9, <3>2, <4>1
    <3>4. CASE k < j
      <4>1. j - 1 \in 1..hdr'.len /\ k <= j - 1 /\ (j - 1) + 1 = j
        BY <1>2, <1>3, <1>6, <3>4
      <4>2. Slot(j - 1)' = Slot((j - 1) + 1)
        BY <1>9, <4>1
      <4> QED BY <3>2, <4>1, <4>2
    <3> QED BY <1>2, <1>3, <1>6, <3>1, <3>2, <3>3, <3>4
  <2>4. ASSUME NEW i \in 1..hdr'.len, NEW j \in 1..hdr'.len, Slot(i)' = Slot(j)' PROVE i = j
    <3>1. i \in 1..hdr.len /\ i + 1 \in 1..hdr.len /\ j \in 1..hdr.len /\ j + 1 \in 1..hdr.len
      BY <1>3, <1>6
    <3>2. /\ Slot(i)' = IF k <= i THEN Slot(i + 1) ELSE Slot(i)
          /\ Slot(j)' = IF k <= j THEN Slot(j + 1) ELSE Slot(j)
      BY <1>9
    <3>3. (IF k <= i THEN i + 1 ELSE i) = (IF k <= j THEN j + 1 ELSE j)
      BY <1>10, <2>4, <3>1, <3>2
    <3>4. i \in Nat /\ j \in Nat
      BY <3>1
    <3> QED BY <1>6, <3>3, <3>4
  <2> QED BY <2>1, <2>2, <2>3, <2>4 DEF HeaderSound
<1>13. ASSUME NEW p \in Publisher, pub[p].pc = "iterating", NEW i \in 1..pub[p].len
       PROVE  mem'[pub[p].arr][i] \in Sub \ gone[p]
  <2>1. pub[p].arr # 0 /\ pub[p].arr \in 1..Len(mem) /\ SnapshotSound(p)
    BY <1>13 DEF BusInv, SnapshotSound, TypeOK
  <2>2. mem'[pub[p].arr][i] \in Read(pub[p].arr, i)
    BY <1>1, <1>5, <2>1 DEF Read
  <2> QED BY <1>13, <2>1, <2>2, ReadIs DEF BusInv
<1>14. \A p \in Publisher : pub[p].pc = "iterating" => p \in disturbed'
  BY <1>1 DEF BusInv, SnapshotExact
<1>15. \A t \in Sub : status[t] \in Ended => status'[t] \in Ended
  BY <1>11 DEF Ended
<1>16. \A a \in 1..Len(mem) : a \in 1..Len(mem') /\ Len(mem'[a]) = Len(mem[a])
  BY <1>3, <1>4, <1>5
<1>17. \A p \in Publisher : SnapshotSound(p)' /\ SnapshotExact(p)'
  BY <1>1, <1>7, <1>13, <1>14, <1>15, <1>16, MemoryStep
<1> QED BY <1>7, <1>8, <1>12, <1>17 DEF BusInv

\* An append adds one subscription behind the others.
LEMMA GrownHeader ==
    ASSUME BusInv, NEW s \in Sub, status[s] = "new", hdr'.arr # 0, hdr'.len = hdr.len + 1,
           hdr'.len <= Len(mem'[hdr'.arr]), mem'[hdr'.arr][hdr.len + 1] = s,
           \A i \in 1..hdr.len : mem'[hdr'.arr][i] = Slot(i),
           \A i \in 1..hdr'.len : i \in 1..hdr.len \/ i = hdr.len + 1,
           \A t \in Sub : status'[t] = IF t = s THEN "active" ELSE status[t]
    PROVE  HeaderSound'
<1>1. /\ \A i \in 1..hdr.len : Slot(i) \in Sub /\ status[Slot(i)] = "active"
      /\ \A t \in Sub : status[t] = "active" => \E i \in 1..hdr.len : Slot(i) = t
      /\ \A i, j \in 1..hdr.len : Slot(i) = Slot(j) => i = j
      /\ hdr.len \in Nat
  BY DEF BusInv, HeaderSound, TypeOK
<1>2. \A i \in 1..hdr.len : Slot(i) # s
  BY <1>1
<1>3. \A i \in 1..hdr'.len : mem'[hdr'.arr][i] = IF i = hdr.len + 1 THEN s ELSE Slot(i)
  BY <1>1
<1>4. ASSUME NEW i \in 1..hdr'.len
      PROVE  mem'[hdr'.arr][i] \in Sub /\ status'[mem'[hdr'.arr][i]] = "active"
  BY <1>1, <1>3
<1>5. ASSUME NEW t \in Sub, status'[t] = "active"
      PROVE  \E i \in 1..hdr'.len : mem'[hdr'.arr][i] = t
  <2>1. hdr.len + 1 \in 1..hdr'.len /\ 1..hdr.len \subseteq 1..hdr'.len
    BY <1>1
  <2>2. CASE t = s
    BY <1>1, <2>1, <2>2
  <2>3. CASE t # s
    <3>1. PICK i \in 1..hdr.len : Slot(i) = t
      BY <1>1, <1>5, <2>3
    <3> QED BY <2>1, <3>1
  <2> QED BY <2>2, <2>3
<1>6. ASSUME NEW i \in 1..hdr'.len, NEW j \in 1..hdr'.len,
             mem'[hdr'.arr][i] = mem'[hdr'.arr][j]
      PROVE  i = j
  BY <1>1, <1>2, <1>3, <1>6
<1> QED BY <1>4, <1>5, <1>6 DEF HeaderSound, Slot

\* An append in place writes a slot that no undisturbed snapshot reaches.
LEMMA ExtendStep ==
    ASSUME BusInv, NEW s \in Sub, Subscribe(s), Extend(s) PROVE BusInv'
<1>1. /\ ~WriteLocked /\ status[s] = "new"
      /\ status' = [status EXCEPT ![s] = "active"]
      /\ UNCHANGED <<shift, pub, calls, registered, gone, disturbed>>
      /\ hdr.len < Cap /\ mem' = [mem EXCEPT ![hdr.arr][hdr.len + 1] = s]
      /\ hdr' = [hdr EXCEPT !.len = @ + 1]
  BY DEF Subscribe, Extend
<1>2. hdr.arr # 0 /\ hdr.len \in Nat
  BY <1>1 DEF Cap, BusInv, TypeOK
<1>3. /\ hdr.arr \in 1..Len(mem) /\ mem[hdr.arr] \in Seq(Slots)
      /\ Cap = Len(mem[hdr.arr]) /\ Cap \in Nat /\ hdr.len \in 0..Cap
      /\ mem \in Seq(Seq(Slots)) /\ hdr.len + 1 \in 1..Cap /\ s \in Slots
  BY <1>1, <1>2, ArrayIs DEF Slots
<1> DEFINE new == [mem[hdr.arr] EXCEPT ![hdr.len + 1] = s]
<1>4. /\ new \in Seq(Slots) /\ Len(new) = Cap
      /\ \A i \in 1..Cap : new[i] = IF i = hdr.len + 1 THEN s ELSE Slot(i)
  BY <1>3, ExceptSeq DEF Slot
<1>5. mem' = [mem EXCEPT ![hdr.arr] = new]
  BY <1>1
<1>6. /\ mem' \in Seq(Seq(Slots)) /\ Len(mem') = Len(mem)
      /\ \A a \in 1..Len(mem) : mem'[a] = IF a = hdr.arr THEN new ELSE mem[a]
  <2> HIDE DEF new
  <2> QED BY <1>3, <1>4, <1>5, ExceptSeq
<1> HIDE DEF new
<1>7. /\ hdr'.arr = hdr.arr /\ hdr'.len = hdr.len + 1
      /\ hdr' \in [arr : 0..Len(mem), len : Nat]
  <2>1. hdr \in [arr : 0..Len(mem), len : Nat] /\ hdr.len + 1 \in Nat
    BY <1>2 DEF BusInv, TypeOK
  <2> QED BY <1>1, <2>1
<1>8. TypeOK'
  <2>1. status' \in [Sub -> {"new", "active", "cancelled", "closed"}]
    BY <1>1 DEF BusInv, TypeOK
  <2> QED BY <1>1, <1>6, <1>7, <2>1 DEF BusInv, TypeOK, Slots
<1>9. ~WriteLocked' /\ ShiftSound'
  BY <1>1 DEF WriteLocked, ShiftSound
<1>10. /\ mem'[hdr'.arr][hdr.len + 1] = s
       /\ \A i \in 1..hdr.len : mem'[hdr'.arr][i] = Slot(i)
       /\ \A i \in 1..hdr'.len : i \in 1..hdr.len \/ i = hdr.len + 1
  <2>1. \A i \in 1..Cap : mem'[hdr'.arr][i] = new[i]
    BY <1>3, <1>6, <1>7
  <2>2. mem'[hdr'.arr][hdr.len + 1] = s
    BY <1>3, <1>4, <2>1
  <2>3. \A i \in 1..hdr.len : i \in 1..Cap /\ i # hdr.len + 1
    BY <1>3
  <2> QED BY <1>3, <1>4, <1>7, <2>1, <2>2, <2>3
<1>11. \A t \in Sub : status'[t] = IF t = s THEN "active" ELSE status[t]
  BY <1>1 DEF BusInv, TypeOK
<1>12. HeaderSound'
  BY <1>1, <1>10, <1>11, GrownHeader, <1>2, <1>3, <1>4, <1>6, <1>7 DEF BusInv
<1>13. ASSUME NEW p \in Publisher, pub[p].pc = "iterating", NEW i \in 1..pub[p].len
       PROVE  /\ mem'[pub[p].arr][i] \in Sub \ gone[p]
              /\ p \notin disturbed => mem'[pub[p].arr][i] = mem[pub[p].arr][i]
  <2>1. /\ pub[p].arr \in 1..Len(mem) /\ SnapshotSound(p) /\ SnapshotExact(p)
        /\ i <= Len(mem[pub[p].arr]) /\ Seen(p, i) \in Sub \ gone[p]
    <3>1. SnapshotSound(p) /\ SnapshotExact(p)
      BY DEF BusInv
    <3>2. pub[p].arr \in 0..Len(mem) /\ pub[p].len \in Nat
      BY DEF BusInv, TypeOK
    <3>3. /\ pub[p].arr # 0 /\ pub[p].len <= Len(mem[pub[p].arr])
          /\ Seen(p, i) \in Sub \ gone[p]
      BY <1>13, <3>1, <3>2 DEF SnapshotSound
    <3>4. pub[p].arr \in 1..Len(mem) /\ mem[pub[p].arr] \in Seq(Slots)
      BY <1>3, <3>2, <3>3
    <3>5. Len(mem[pub[p].arr]) \in Nat
      BY <3>4
    <3> QED BY <1>13, <3>1, <3>2, <3>3, <3>4, <3>5
  <2>2. s \notin gone[p]
    BY <1>1, <2>1 DEF SnapshotSound, Ended
  <2>3. CASE pub[p].arr = hdr.arr
    <3>1. i \in 1..Cap
      BY <1>3, <2>1, <2>3
    <3>2. mem'[pub[p].arr][i] = IF i = hdr.len + 1 THEN s ELSE Seen(p, i)
      BY <1>3, <1>4, <1>6, <2>3, <3>1 DEF Slot, Seen
    <3>3. p \notin disturbed => i # hdr.len + 1
      BY <1>2, <1>13, <2>1, <2>3 DEF SnapshotExact, BusInv, TypeOK
    <3> QED BY <2>1, <2>2, <3>2, <3>3 DEF Seen
  <2>4. CASE pub[p].arr # hdr.arr
    BY <1>6, <2>1, <2>4 DEF Seen
  <2> QED BY <2>3, <2>4
<1>14. \A p \in Publisher : pub[p].pc = "iterating" /\ p \notin disturbed =>
          (pub[p].arr = hdr'.arr => pub[p].len <= hdr'.len)
  <2>1. ASSUME NEW p \in Publisher, pub[p].pc = "iterating", p \notin disturbed,
               pub[p].arr = hdr.arr
        PROVE  pub[p].len <= hdr.len + 1
    <3>1. pub[p].len <= hdr.len /\ pub[p].len \in Nat
      BY <2>1 DEF BusInv, SnapshotExact, TypeOK
    <3> QED BY <1>2, <3>1
  <2> QED BY <1>7, <2>1
<1>15. \A t \in Sub : status[t] \in Ended => status'[t] \in Ended
  BY <1>1, <1>11 DEF Ended
<1>16. \A a \in 1..Len(mem) : a \in 1..Len(mem') /\ Len(mem'[a]) = Len(mem[a])
  BY <1>3, <1>4, <1>6
<1>17. \A p \in Publisher : SnapshotSound(p)' /\ SnapshotExact(p)'
  BY <1>1, <1>8, <1>9, <1>13, <1>14, <1>15, <1>16, MemoryStep
<1> QED BY <1>8, <1>9, <1>12, <1>17 DEF BusInv

\* An append to a new array writes none that a snapshot refers to.
LEMMA ReallocateStep ==
    ASSUME BusInv, NEW s \in Sub, Subscribe(s), Reallocate(s) PROVE BusInv'
<1> DEFINE cap == IF Cap = 0 THEN 1 ELSE 2 * Cap
           new == [i \in 1..cap |-> IF i <= hdr.len THEN mem[hdr.arr][i]
                                    ELSE IF i = hdr.len + 1 THEN s ELSE None]
<1>1. /\ ~WriteLocked /\ status[s] = "new"
      /\ status' = [status EXCEPT ![s] = "active"]
      /\ UNCHANGED <<shift, pub, calls, registered, gone, disturbed>>
      /\ hdr.len = Cap /\ mem' = Append(mem, new)
      /\ hdr' = [arr |-> Len(mem) + 1, len |-> hdr.len + 1]
  BY DEF Subscribe, Reallocate
<1>2. /\ hdr.len \in Nat /\ mem \in Seq(Seq(Slots)) /\ Len(mem) \in Nat
      /\ hdr.arr \in 0..Len(mem) /\ s \in Slots /\ None \in Slots
  BY DEF BusInv, TypeOK, Slots
<1>3. cap \in Nat /\ hdr.len + 1 \in 1..cap
  BY <1>1, <1>2
<1>4. \A i \in 1..hdr.len : Slot(i) \in Slots
  BY DEF BusInv, HeaderSound, Slots
<1>5. /\ new \in Seq(Slots) /\ Len(new) = cap
      /\ \A i \in 1..cap : new[i] = IF i <= hdr.len THEN Slot(i)
                                    ELSE IF i = hdr.len + 1 THEN s ELSE None
  <2>1. \A i \in 1..cap : (IF i <= hdr.len THEN Slot(i)
                            ELSE IF i = hdr.len + 1 THEN s ELSE None) \in Slots
    BY <1>2, <1>3, <1>4
  <2>2. new \in [1..cap -> Slots]
    BY <2>1 DEF Slot
  <2>3. new \in Seq(Slots)
    <3> HIDE DEF new, cap
    <3>1. new \in UNION {[1..n -> Slots] : n \in Nat}
      BY <1>3, <2>2
    <3> QED BY <3>1, SeqDef
  <2>4. Len(new) = cap
    <3> HIDE DEF new, cap
    <3> QED BY <1>3, <2>2, <2>3
  <2> QED BY <2>3, <2>4 DEF Slot
<1> HIDE DEF new, cap
<1>6. /\ mem' \in Seq(Seq(Slots)) /\ Len(mem') = Len(mem) + 1
      /\ \A a \in 1..Len(mem) : mem'[a] = mem[a]
      /\ mem'[Len(mem) + 1] = new
  BY <1>1, <1>2, <1>5
<1>7. /\ hdr'.arr = Len(mem) + 1 /\ hdr'.len = hdr.len + 1
      /\ hdr' \in [arr : 0..(Len(mem) + 1), len : Nat]
  BY <1>1, <1>2
<1>8. TypeOK'
  <2>1. status' \in [Sub -> {"new", "active", "cancelled", "closed"}]
    BY <1>1 DEF BusInv, TypeOK
  <2>2. pub' \in [Publisher ->
          [pc : {"idle", "iterating", "done"}, arr : 0..(Len(mem) + 1), len : Nat, next : Nat]]
    <3>1. 0..Len(mem) \subseteq 0..(Len(mem) + 1)
      BY <1>2
    <3> QED BY <1>1, <3>1 DEF BusInv, TypeOK
  <2> QED BY <1>1, <1>6, <1>7, <2>1, <2>2 DEF BusInv, TypeOK, Slots
<1>9. ~WriteLocked' /\ ShiftSound'
  BY <1>1 DEF WriteLocked, ShiftSound
<1>10. /\ mem'[hdr'.arr][hdr.len + 1] = s
       /\ \A i \in 1..hdr.len : mem'[hdr'.arr][i] = Slot(i)
       /\ \A i \in 1..hdr'.len : i \in 1..hdr.len \/ i = hdr.len + 1
  <2>1. \A i \in 1..cap : mem'[hdr'.arr][i] = new[i]
    BY <1>6, <1>7
  <2>2. mem'[hdr'.arr][hdr.len + 1] = s
    BY <1>2, <1>3, <1>5, <2>1
  <2>3. \A i \in 1..hdr.len : i \in 1..cap
    BY <1>2, <1>3
  <2>4. \A i \in 1..hdr.len : mem'[hdr'.arr][i] = Slot(i)
    BY <1>2, <1>5, <2>1, <2>3
  <2>5. \A i \in 1..hdr'.len : i \in 1..hdr.len \/ i = hdr.len + 1
    BY <1>2, <1>7
  <2> QED BY <2>2, <2>4, <2>5
<1>11. \A t \in Sub : status'[t] = IF t = s THEN "active" ELSE status[t]
  BY <1>1 DEF BusInv, TypeOK
<1>12. HeaderSound'
  BY <1>1, <1>10, <1>11, GrownHeader, <1>2, <1>3, <1>5, <1>6, <1>7 DEF BusInv
<1>13. ASSUME NEW p \in Publisher, pub[p].pc = "iterating", NEW i \in 1..pub[p].len
       PROVE  /\ mem'[pub[p].arr][i] \in Sub \ gone[p]
              /\ mem'[pub[p].arr][i] = mem[pub[p].arr][i]
  <2>1. /\ pub[p].arr \in 1..Len(mem)
        /\ Seen(p, i) \in Sub \ gone[p]
    BY <1>13 DEF BusInv, SnapshotSound, TypeOK
  <2> QED BY <1>6, <2>1 DEF Seen
<1>14. \A p \in Publisher : pub[p].arr # hdr'.arr
  BY <1>2, <1>7 DEF BusInv, TypeOK
<1>15. \A t \in Sub : status[t] \in Ended => status'[t] \in Ended
  BY <1>1, <1>11 DEF Ended
<1>16. \A a \in 1..Len(mem) : a \in 1..Len(mem') /\ Len(mem'[a]) = Len(mem[a])
  BY <1>2, <1>6
<1>17. \A p \in Publisher : SnapshotSound(p)' /\ SnapshotExact(p)'
  BY <1>1, <1>8, <1>9, <1>13, <1>14, <1>15, <1>16, MemoryStep
<1> QED BY <1>8, <1>9, <1>12, <1>17 DEF BusInv

\* The invariant holds at first.
LEMMA BusInitial == Init => BusInv
<1> SUFFICES ASSUME Init PROVE BusInv
  OBVIOUS
<1> USE DEF Init
<1>1. TypeOK
  BY DEF TypeOK, Nil, NoShift
<1>2. HeaderSound /\ ShiftSound
  BY DEF HeaderSound, ShiftSound, WriteLocked, Nil
<1>3. ASSUME NEW p \in Publisher PROVE SnapshotSound(p) /\ SnapshotExact(p)
  BY DEF SnapshotSound, SnapshotExact
<1> QED BY <1>1, <1>2, <1>3 DEF BusInv

\* Nothing happens.
LEMMA BusUnchanged == ASSUME BusInv, UNCHANGED vars PROVE BusInv'
<1> USE DEF vars
<1>1. TypeOK'
  BY DEF BusInv, TypeOK
<1>2. HeaderSound' /\ ShiftSound'
  BY DEF BusInv, HeaderSound, ShiftSound, Slot, WriteLocked
<1>3. ASSUME NEW p \in Publisher PROVE SnapshotSound(p)' /\ SnapshotExact(p)'
  <2>1. SnapshotSound(p) /\ SnapshotExact(p)
    BY DEF BusInv
  <2> QED BY <2>1 DEF SnapshotSound, SnapshotExact, Seen, WriteLocked
<1> QED BY <1>1, <1>2, <1>3 DEF BusInv

\* Without a removal meanwhile a publication calls exactly the handlers registered
\* when it began, with one nobody who was gone before it and no nil handler, and the
\* registrations are the active subscriptions: for any number of subscriptions and
\* publishers, whatever arrays append allocates, if no two handlers share their code,
\* which is what unsubscribing compares.
THEOREM PublicationsReachSubscribers ==
    ASSUME \A s, t \in Sub : CodeOf[s] = CodeOf[t] => s = t
    PROVE  Spec => []PublicationsAreExact
<1>1. ASSUME BusInv, Next PROVE BusInv'
  <2>1. ASSUME NEW s \in Sub, Subscribe(s) PROVE BusInv'
    BY <1>1, <2>1, ExtendStep, ReallocateStep DEF Subscribe
  <2>2. ASSUME NEW s \in Sub, Unsubscribe(s) PROVE BusInv'
    BY <1>1, <2>2, UnsubscribeStep
  <2>3. ASSUME NEW p \in Publisher, Snapshot(p) \/ CallNext(p) \/ Return(p) PROVE BusInv'
    BY <1>1, <2>3, SnapshotStep, CallStep, ReturnStep
  <2> QED BY <1>1, <2>1, <2>2, <2>3, FinishStep, CloseStep DEF Next
<1>2. BusInv /\ [Next]_vars => BusInv'
  BY <1>1, BusUnchanged
<1> QED BY <1>2, BusInitial, InvGivesExact, PTL DEF Spec

-----------------------------------------------------------------------------
(* Notifications, first the templates and then the messages.               *)

\* How an Add may have ended.
Outcomes == {"none", "parsed", "failed", "orphaned"}

\* A template set, and how the last Adds of its templates ended.
SetSound(t, ended) ==
    /\ t \in [first : {t.first}, executed : {t.executed}, parsed : {t.parsed}]
    /\ ended \in [Name -> Outcomes]
    /\ \A x \in Name : ended[x] = "parsed" => x \in t.parsed /\ t.first # "none"

\* The inductive invariant of the templates.
TemplateInv ==
    /\ templates = [k \in Kind |-> templates[k]] /\ latest = [k \in Kind |-> latest[k]]
    /\ \A k \in Kind : SetSound(templates[k], latest[k])

\* A template that was added last is among the parsed ones.
LEMMA InvGivesAddedRenders == TemplateInv => AddedRenders
BY DEF TemplateInv, SetSound, AddedRenders, Renders

\* A step that changes one set.
LEMMA OneSetChanges ==
    ASSUME TemplateInv, NEW k \in Kind, NEW t, NEW ended, SetSound(t, ended),
           templates' = [templates EXCEPT ![k] = t], latest' = [latest EXCEPT ![k] = ended]
    PROVE  TemplateInv'
BY DEF TemplateInv, SetSound

\* Files that parse: a set that holds a template has a first one.
Loadable(files) ==
    \A k \in Kind :
        /\ Names(files[k]) \subseteq Name
        /\ TemplateSet(files[k]).first # "none" \/ Names(files[k]) = {}

\* The files of the repository are such.
LEMMA DefaultsLoad == Loadable(DefaultTemplates)
<1>1. ASSUME NEW k \in Kind PROVE Names(DefaultTemplates[k]) \subseteq Name
  BY DEF Name
<1>2. /\ DefaultTemplates["html"] # <<>> /\ Head(DefaultTemplates["html"]) # "none"
      /\ DefaultTemplates["text"] # <<>> /\ Head(DefaultTemplates["text"]) # "none"
  BY DEF DefaultTemplates
<1>3. ASSUME NEW k \in Kind PROVE TemplateSet(DefaultTemplates[k]).first # "none"
  BY <1>2 DEF Kind, TemplateSet
<1> QED BY <1>1, <1>3 DEF Loadable

\* And a pattern that finds one file.
LEMMA PatternLoads == Loadable([html |-> <<"welcome_email">>, text |-> <<>>])
<1> DEFINE files == [html |-> <<"welcome_email">>, text |-> <<>>]
<1>1. files["html"] = <<"welcome_email">> /\ files["text"] = <<>>
  OBVIOUS
<1>2. Names(files["html"]) = {"welcome_email"} /\ Names(files["text"]) = {}
  BY <1>1 DEF Names
<1>3. "welcome_email" \in Name
  <2>1. DefaultTemplates["html"] =
          <<"magic_code_email", "welcome_email", "email_change_verification">>
    BY DEF DefaultTemplates
  <2>2. "welcome_email" \in Names(DefaultTemplates["html"])
    BY <2>1 DEF Names
  <2> QED BY <2>2 DEF Name, Kind
<1>4. TemplateSet(files["html"]).first = "welcome_email"
  BY <1>1 DEF TemplateSet
<1> QED BY <1>1, <1>2, <1>3, <1>4 DEF Loadable, Kind

\* What TemplateSet builds.
LEMMA SetIs ==
    ASSUME NEW files
    PROVE  /\ TemplateSet(files).parsed = Names(files)
           /\ LET t == TemplateSet(files)
              IN  t \in [first : {t.first}, executed : {t.executed}, parsed : {t.parsed}]
BY DEF TemplateSet

\* Loading replaces both sets.
LEMMA LoadKeeps ==
    ASSUME NEW files, Loadable(files), Load(files)
    PROVE  TemplateInv'
<1>1. ASSUME NEW k \in Kind PROVE SetSound(templates[k], latest[k])'
  <2> DEFINE t == TemplateSet(files[k])
             ended == [x \in Name |-> IF x \in Names(files[k]) THEN "parsed" ELSE "none"]
  <2>1. templates'[k] = t /\ latest'[k] = ended
    BY DEF Load
  <2>2. t \in [first : {t.first}, executed : {t.executed}, parsed : {t.parsed}]
        /\ t.parsed = Names(files[k])
    BY SetIs
  <2>3. t.first # "none" \/ Names(files[k]) = {}
    BY DEF Loadable
  <2> HIDE DEF t
  <2>4. /\ ended \in [Name -> Outcomes]
        /\ \A x \in Name : ended[x] = "parsed" => x \in Names(files[k])
    BY DEF Outcomes
  <2> HIDE DEF ended
  <2> QED BY <2>1, <2>2, <2>3, <2>4 DEF SetSound
<1> QED BY <1>1 DEF TemplateInv, Load

\* Adding a template, to an empty set, to one with others, or the first one again.
LEMMA AddKeeps ==
    ASSUME TemplateInv, NEW k \in Kind, NEW x \in Written, Add(k, x)
    PROVE  TemplateInv'
<1> DEFINE old == templates[k]
           was == latest[k]
<1>1. SetSound(old, was) /\ x \in Name /\ x # "none"
  <2>1. x \in Name
    BY DEF Name
  <2> QED BY <2>1, WrittenAssumption DEF TemplateInv
<1>2. ASSUME NEW ended, ended \in {"failed", "orphaned"},
             latest' = [latest EXCEPT ![k][x] = ended], templates' = templates
      PROVE  TemplateInv'
  <2>1. latest' = [latest EXCEPT ![k] = [was EXCEPT ![x] = ended]]
    BY <1>2
  <2>2. templates' = [templates EXCEPT ![k] = old]
    BY <1>2 DEF TemplateInv
  <2>3. SetSound(old, [was EXCEPT ![x] = ended])
    BY <1>1, <1>2 DEF SetSound, Outcomes
  <2> QED BY <2>1, <2>2, <2>3, OneSetChanges
<1>3. ASSUME NEW wellFormed \in BOOLEAN, AddFirst(k, x, wellFormed) PROVE TemplateInv'
  <2>1. CASE ~wellFormed
    BY <1>2, <1>3, <2>1 DEF AddFirst
  <2>2. CASE wellFormed
    <3> DEFINE t == TemplateSet(<<x>>)
               ended == [was EXCEPT ![x] = "parsed"]
    <3>1. templates' = [templates EXCEPT ![k] = t] /\ latest' = [latest EXCEPT ![k] = ended]
      BY <1>3, <2>2 DEF AddFirst
    <3>2. t.first = x
      BY DEF TemplateSet
    <3>3. Names(<<x>>) = {x}
      BY DEF Names
    <3>4. t.parsed = {x} /\ t \in [first : {t.first}, executed : {t.executed}, parsed : {t.parsed}]
      BY <3>3, SetIs
    <3> HIDE DEF t
    <3>5. old.first = "none"
      BY <1>3 DEF AddFirst
    <3>6. ended \in [Name -> Outcomes] /\ \A y \in Name : ended[y] = "parsed" => y = x
      BY <1>1, <3>5 DEF SetSound, Outcomes
    <3> HIDE DEF ended
    <3>7. SetSound(t, ended)
      BY <1>1, <3>2, <3>4, <3>6 DEF SetSound
    <3> QED BY <3>1, <3>7, OneSetChanges
  <2> QED BY <2>1, <2>2
<1>4. ASSUME NEW wellFormed \in BOOLEAN, AddMore(k, x, wellFormed) PROVE TemplateInv'
  <2> DEFINE parses == wellFormed /\ ~templates[k].executed
             t == [old EXCEPT !.parsed = (@ \ {x}) \union {y \in {x} : parses}]
             ended == [was EXCEPT ![x] = IF parses THEN "parsed" ELSE "failed"]
  <2>1. templates' = [templates EXCEPT ![k] = t] /\ latest' = [latest EXCEPT ![k] = ended]
    BY <1>4 DEF AddMore
  <2>2. /\ t.first = old.first
        /\ t.parsed = (old.parsed \ {x}) \union {y \in {x} : parses}
        /\ t \in [first : {t.first}, executed : {t.executed}, parsed : {t.parsed}]
    BY <1>1 DEF SetSound
  <2> HIDE DEF t
  <2>3. old.first # "none"
    BY <1>4 DEF AddMore
  <2>4. /\ ended \in [Name -> Outcomes]
        /\ \A y \in Name :
              ended[y] = "parsed" => (was[y] = "parsed" /\ y # x) \/ (y = x /\ parses)
    BY <1>1 DEF SetSound, Outcomes
  <2> HIDE DEF ended
  <2>5. SetSound(t, ended)
    BY <1>1, <2>2, <2>3, <2>4 DEF SetSound
  <2> QED BY <2>1, <2>5, OneSetChanges
<1>5. ASSUME AddAgain(k, x) PROVE TemplateInv'
  <2> DEFINE t == [first |-> "replaced", executed |-> FALSE, parsed |-> {}]
             ended == [y \in Name |-> "orphaned"]
  <2>1. templates' = [templates EXCEPT ![k] = t] /\ latest' = [latest EXCEPT ![k] = ended]
    BY <1>5 DEF AddAgain
  <2>2. SetSound(t, ended)
    BY DEF SetSound, Outcomes
  <2> QED BY <2>1, <2>2, OneSetChanges
<1> QED BY <1>3, <1>4, <1>5 DEF Add

\* Rendering only marks the set as executed.
LEMMA ExecuteKeeps ==
    ASSUME TemplateInv, NEW k \in Kind, Execute(k), latest' = latest
    PROVE  TemplateInv'
<1> DEFINE t == [templates[k] EXCEPT !.executed = @ \/ templates[k].first # "none"]
<1>1. templates' = [templates EXCEPT ![k] = t] /\ latest' = [latest EXCEPT ![k] = latest[k]]
  BY DEF Execute, TemplateInv
<1>2. SetSound(templates[k], latest[k])
  BY DEF TemplateInv
<1>3. /\ t.first = templates[k].first /\ t.parsed = templates[k].parsed
      /\ t \in [first : {t.first}, executed : {t.executed}, parsed : {t.parsed}]
  BY <1>2 DEF SetSound
<1> HIDE DEF t
<1>4. SetSound(t, latest[k])
  BY <1>2, <1>3 DEF SetSound
<1> QED BY <1>1, <1>4, OneSetChanges

\* A notice that is under way or over.
IsMessage(m) ==
    m \in [phase : {"sending", "sent", "failed"}, channel : {"email", "sms"},
           asked : {m.asked}, language : {m.language}, next : Nat]

\* The language a message has to be in.
Language(asked) ==
    IF asked \in Supported THEN asked
    ELSE IF asked \in {""} \union Unparsable THEN DefaultLocale ELSE "en"

\* The first i providers.
Tried(providers, i) == {providers[j] : j \in 1..i}

\* Who has refused a message are the providers before the current one, in order, and
\* who has delivered it is one of those or the current one.
MessageSound(m, got, refused) ==
    LET providers == Providers(m.channel)
        current == providers[m.next]
    IN  /\ IsMessage(m) /\ m.language = Language(m.asked)
        /\ m.phase = "sending" =>
              /\ m.next \in 1..Len(providers)
              /\ refused = Tried(providers, m.next - 1) /\ got \subseteq refused
        /\ m.phase = "sent" /\ m.next > 0 =>
              /\ current \in got \union Sandboxed
              /\ got \subseteq {current} \union refused
              /\ refused = Tried(providers, m.next - 1)
        /\ m.phase = "failed" => refused = Names(providers)

\* A notice without a message has reached nobody.
NoticeSound(m, got, refused) ==
    \/ m.phase \in {"new", "refused", "ignored"} /\ got = {} /\ refused = {}
    \/ MessageSound(m, got, refused)

\* The inductive invariant of the notices.
NoticeInv ==
    /\ notices = [n \in Notice |-> notices[n]]
    /\ delivered = [n \in Notice |-> delivered[n]]
    /\ refusals = [n \in Notice |-> refusals[n]]
    /\ \A n \in Notice : NoticeSound(notices[n], delivered[n], refusals[n])

\* The invariant implies the property.
LEMMA InvGivesMessages == NoticeInv => MessagesArriveAsAsked
<1> SUFFICES ASSUME NoticeInv PROVE MessagesArriveAsAsked
  OBVIOUS
<1>1. ASSUME NEW n \in Notice, notices[n].phase \in {"sending", "sent", "failed"}
      PROVE  MessageSound(notices[n], delivered[n], refusals[n])
  BY <1>1 DEF NoticeInv, NoticeSound
<1>2. ASSUME NEW n \in Notice, notices[n].phase \in {"new", "refused", "ignored"}
      PROVE  delivered[n] = {}
  BY <1>2 DEF NoticeInv, NoticeSound, MessageSound, IsMessage
<1>3. FailoverIsExact
  BY <1>1, <1>2 DEF FailoverIsExact, MessageSound, Provider, Tried
<1>4. LanguageIsKept
  BY <1>1 DEF LanguageIsKept, MessageSound, Language
<1> QED BY <1>3, <1>4 DEF MessagesArriveAsAsked

\* The providers of a channel are a sequence.
LEMMA ProvidersAre ==
    ASSUME NEW channel \in {"email", "sms"}
    PROVE  LET providers == Providers(channel)
           IN  Len(providers) \in Nat /\ DOMAIN providers = 1..Len(providers)
                /\ (providers = <<>> <=> Len(providers) = 0)
BY ProvidersAssumption DEF Providers

\* A step that changes one notice.
LEMMA OneNoticeChanges ==
    ASSUME NoticeInv, NEW n \in Notice, NEW m, NEW got, NEW refused,
           NoticeSound(m, got, refused),
           notices' = [notices EXCEPT ![n] = m], delivered' = [delivered EXCEPT ![n] = got],
           refusals' = [refusals EXCEPT ![n] = refused]
    PROVE  NoticeInv'
BY DEF NoticeInv

\* The first provider is asked, or there is none.
LEMMA BeginKeeps ==
    ASSUME NoticeInv, NEW n \in Notice, notices[n].phase = "new",
           NEW channel \in {"email", "sms"}, NEW asked,
           Begin(n, channel, asked, Language(asked)), UNCHANGED <<delivered, refusals>>
    PROVE  NoticeInv'
<1> DEFINE none == Providers(channel) = <<>>
           m == [phase |-> IF none THEN "sent" ELSE "sending", channel |-> channel,
                 asked |-> asked, language |-> Language(asked), next |-> IF none THEN 0 ELSE 1]
<1>1. notices' = [notices EXCEPT ![n] = m]
  BY DEF Begin
<1>2. delivered[n] = {} /\ refusals[n] = {}
  BY DEF NoticeInv, NoticeSound, MessageSound, IsMessage
<1>3. /\ IsMessage(m) /\ m.language = Language(m.asked) /\ m.channel = channel
      /\ none => (m.next = 0 /\ m.phase = "sent")
      /\ ~none => (m.next = 1 /\ m.phase = "sending")
  BY DEF IsMessage
<1>4. ~none => Len(Providers(channel)) >= 1 /\ Len(Providers(channel)) \in Nat
  BY ProvidersAre
<1> HIDE DEF m, none
<1>5. Tried(Providers(channel), 0) = {}
  BY DEF Tried
<1>6. MessageSound(m, {}, {})
  <2>1. CASE none
    BY <1>3, <2>1 DEF MessageSound
  <2>2. CASE ~none
    <3>1. m.next \in 1..Len(Providers(m.channel)) /\ m.next - 1 = 0
      BY <1>3, <1>4, <2>2
    <3> QED BY <1>3, <1>5, <2>2, <3>1 DEF MessageSound
  <2> QED BY <2>1, <2>2
<1>7. delivered' = [delivered EXCEPT ![n] = {}] /\ refusals' = [refusals EXCEPT ![n] = {}]
  BY <1>2 DEF NoticeInv
<1> QED BY <1>1, <1>6, <1>7, OneNoticeChanges DEF NoticeSound

\* A notice that asks no provider.
LEMMA EndKeeps ==
    ASSUME NoticeInv, NEW n \in Notice, notices[n].phase = "new",
           NEW phase \in {"refused", "ignored"}, End(n, phase), UNCHANGED <<delivered, refusals>>
    PROVE  NoticeInv'
<1> DEFINE m == [phase |-> phase]
<1>1. notices' = [notices EXCEPT ![n] = m] /\ m.phase = phase
  BY DEF End
<1> HIDE DEF m
<1>2. delivered[n] = {} /\ refusals[n] = {}
  BY DEF NoticeInv, NoticeSound, MessageSound, IsMessage
<1>3. delivered' = [delivered EXCEPT ![n] = {}] /\ refusals' = [refusals EXCEPT ![n] = {}]
  BY <1>2 DEF NoticeInv
<1> QED BY <1>1, <1>3, OneNoticeChanges DEF NoticeSound

\* A provider takes the message, or swallows it in its sandbox.
LEMMA AcceptKeeps ==
    ASSUME NoticeInv, NEW n \in Notice, Accept(n)
    PROVE  NoticeInv'
<1> DEFINE m == notices[n]
           q == [m EXCEPT !.phase = "sent"]
           providers == Providers(m.channel)
<1>1. m.phase = "sending" /\ refusals' = refusals /\ notices' = [notices EXCEPT ![n] = q]
  BY DEF Accept
<1>2. MessageSound(m, delivered[n], refusals[n])
  BY <1>1 DEF NoticeInv, NoticeSound
<1>3. /\ IsMessage(q) /\ q.phase = "sent" /\ q.channel = m.channel /\ q.next = m.next
      /\ q.asked = m.asked /\ q.language = m.language
  BY <1>2 DEF MessageSound, IsMessage
<1> HIDE DEF q
<1> DEFINE current == providers[m.next]
           got == IF current \in Sandboxed THEN delivered[n] ELSE delivered[n] \union {current}
<1>4. delivered' = [delivered EXCEPT ![n] = got]
  BY DEF Accept, Deliver, Provider, NoticeInv
<1>5. /\ delivered[n] \subseteq refusals[n] /\ refusals[n] = Tried(providers, m.next - 1)
      /\ m.language = Language(m.asked)
  BY <1>1, <1>2 DEF MessageSound
<1>6. current \in got \union Sandboxed /\ got \subseteq {current} \union refusals[n]
  BY <1>5
<1> HIDE DEF got
<1>7. MessageSound(q, got, refusals[n])
  BY <1>3, <1>5, <1>6 DEF MessageSound
<1>8. refusals' = [refusals EXCEPT ![n] = refusals[n]]
  BY <1>1 DEF NoticeInv
<1> QED BY <1>1, <1>4, <1>7, <1>8, OneNoticeChanges DEF NoticeSound

\* A provider reports an error, be it after it delivered: the next one is asked.
LEMMA FailKeeps ==
    ASSUME NoticeInv, NEW n \in Notice, Fail(n)
    PROVE  NoticeInv'
<1> DEFINE m == notices[n]
           providers == Providers(m.channel)
           current == providers[m.next]
           refused == refusals[n] \union {current}
           more == m.next < Len(providers)
<1>1. m.phase = "sending" /\ refusals' = [refusals EXCEPT ![n] = refused]
  BY DEF Fail, Provider
<1>2. MessageSound(m, delivered[n], refusals[n])
  BY <1>1 DEF NoticeInv, NoticeSound
<1>3. PICK got : /\ delivered' = [delivered EXCEPT ![n] = got]
                 /\ got \subseteq delivered[n] \union {current}
  BY DEF Fail, Deliver, Provider, NoticeInv
<1>4. /\ m.next \in 1..Len(providers) /\ Len(providers) \in Nat
      /\ DOMAIN providers = 1..Len(providers) /\ IsMessage(m)
      /\ m.language = Language(m.asked) /\ m.channel \in {"email", "sms"}
      /\ refusals[n] = Tried(providers, m.next - 1) /\ delivered[n] \subseteq refusals[n]
  BY <1>1, <1>2, ProvidersAre DEF MessageSound, IsMessage
<1>5. refused = Tried(providers, m.next) /\ got \subseteq refused
  BY <1>3, <1>4 DEF Tried
<1>6. CASE more
  <2> DEFINE q == [m EXCEPT !.next = @ + 1]
  <2>1. notices' = [notices EXCEPT ![n] = q]
    BY <1>6 DEF Fail
  <2>2. /\ IsMessage(q) /\ q.phase = m.phase /\ q.channel = m.channel /\ q.next = m.next + 1
        /\ q.asked = m.asked /\ q.language = m.language
    BY <1>4 DEF IsMessage
  <2> HIDE DEF q
  <2>3. q.next \in 1..Len(providers) /\ q.next - 1 = m.next
    BY <1>4, <1>6, <2>2
  <2>4. MessageSound(q, got, refused)
    BY <1>1, <1>4, <1>5, <2>2, <2>3 DEF MessageSound
  <2> QED BY <1>1, <1>3, <2>1, <2>4, OneNoticeChanges DEF NoticeSound
<1>7. CASE ~more
  <2> DEFINE q == [m EXCEPT !.phase = "failed"]
  <2>1. notices' = [notices EXCEPT ![n] = q]
    BY <1>7 DEF Fail
  <2>2. /\ IsMessage(q) /\ q.phase = "failed" /\ q.channel = m.channel /\ q.next = m.next
        /\ q.asked = m.asked /\ q.language = m.language
    BY <1>4 DEF IsMessage
  <2> HIDE DEF q
  <2>3. refused = Names(providers)
    BY <1>4, <1>5, <1>7 DEF Names, Tried
  <2>4. MessageSound(q, got, refused)
    BY <1>4, <2>2, <2>3 DEF MessageSound
  <2> QED BY <1>1, <1>3, <2>1, <2>4, OneNoticeChanges DEF NoticeSound
<1> QED BY <1>6, <1>7

\* The language that comes out of the request, through the event, is the one
\* that was asked for.
LEMMA LanguageOf ==
    /\ MessageLocale("") = Language("") /\ DefaultLocale = Language("")
    /\ \A header : MessageLocale(RequestLocale(header)) = Language(header)
BY LocaleAssumption, UnparsableAssumption
   DEF MessageLocale, RequestLocale, DetectLocale, ParseAcceptLanguage, NormalizeLocale,
       Supported, Language

\* The event of a magic code.
LEMMA HandleKeeps ==
    ASSUME NoticeInv, NEW n \in Notice, NEW contacts, NEW asked, NEW locale,
           MessageLocale(locale) = Language(asked),
           HandleMagicCodeRequested(n, contacts, asked, locale)
    PROVE  NoticeInv'
BY BeginKeeps, EndKeeps DEF HandleMagicCodeRequested

\* A message of a caller of its own.
LEMMA SendKeeps ==
    ASSUME NoticeInv, NEW n \in Notice, NEW channel \in {"email", "sms"}, NEW x,
           SendTemplated(n, channel, x)
    PROVE  NoticeInv'
<1>1. CASE Begin(n, channel, "", DefaultLocale)
  BY <1>1, BeginKeeps, LanguageOf DEF SendTemplated
<1>2. CASE End(n, "refused")
  BY <1>2, EndKeeps DEF SendTemplated
<1> QED BY <1>1, <1>2 DEF SendTemplated

\* A step that changes no notice.
LEMMA NoticesKept ==
    ASSUME NoticeInv, UNCHANGED <<notices, delivered, refusals>>
    PROVE  NoticeInv'
BY DEF NoticeInv

\* Every step keeps the invariant of the notices.
LEMMA NoticeStep ==
    ASSUME NoticeInv, [NoticeNext]_noticeVars
    PROVE  NoticeInv'
<1>1. ASSUME NEW files, Load(files) PROVE NoticeInv'
  BY <1>1, NoticesKept DEF Load
<1>2. ASSUME NEW k \in Kind, NEW x \in Written, Add(k, x) PROVE NoticeInv'
  BY <1>2, NoticesKept DEF Add
<1>3. ASSUME NEW n \in Notice, NEW contacts \in SUBSET {"email", "phone"},
             HandleMagicCodeRequested(n, contacts, "", "")
      PROVE  NoticeInv'
  BY <1>3, HandleKeeps, LanguageOf
<1>4. ASSUME NEW n \in Notice, NEW contacts \in SUBSET {"email", "phone"},
             NEW header \in Languages,
             HandleMagicCodeRequested(n, contacts, header, RequestLocale(header))
      PROVE  NoticeInv'
  BY <1>4, HandleKeeps, LanguageOf
<1>5. ASSUME NEW n \in Notice, RefusePayload(n) PROVE NoticeInv'
  BY <1>5, EndKeeps DEF RefusePayload
<1>6. ASSUME NEW n \in Notice, NEW channel \in {"email", "sms"}, NEW x \in Written,
             SendTemplated(n, channel, x)
      PROVE  NoticeInv'
  BY <1>6, SendKeeps
<1>7. CASE UNCHANGED noticeVars
  BY <1>7, NoticesKept DEF noticeVars
<1> QED BY <1>1, <1>2, <1>3, <1>4, <1>5, <1>6, <1>7, AcceptKeeps, FailKeeps DEF NoticeNext

\* A step that changes no template.
LEMMA TemplatesKept ==
    ASSUME TemplateInv, UNCHANGED <<templates, latest>>
    PROVE  TemplateInv'
BY DEF TemplateInv

\* Every step keeps the invariant of the templates.
LEMMA TemplateStep ==
    ASSUME TemplateInv, [NoticeNext]_noticeVars
    PROVE  TemplateInv'
<1>1. ASSUME NEW files, Load(files),
             files \in {DefaultTemplates, [html |-> <<"welcome_email">>, text |-> <<>>]}
      PROVE  TemplateInv'
  BY <1>1, LoadKeeps, DefaultsLoad, PatternLoads
<1>2. ASSUME NEW n \in Notice, NEW channel \in {"email", "sms"}, NEW x \in Written,
             SendTemplated(n, channel, x)
      PROVE  TemplateInv'
  BY <1>2, ExecuteKeeps DEF SendTemplated, Kind
<1>3. ASSUME NEW n \in Notice, NEW contacts, NEW asked, NEW locale,
             HandleMagicCodeRequested(n, contacts, asked, locale)
      PROVE  TemplateInv'
  BY <1>3, TemplatesKept DEF HandleMagicCodeRequested
<1>4. ASSUME NEW n \in Notice, RefusePayload(n) \/ Accept(n) \/ Fail(n) PROVE TemplateInv'
  BY <1>4, TemplatesKept DEF RefusePayload, Accept, Fail
<1>5. CASE UNCHANGED noticeVars
  BY <1>5, TemplatesKept DEF noticeVars
<1> QED BY <1>1, <1>2, <1>3, <1>4, <1>5, AddKeeps DEF NoticeNext

\* Failover asks the providers one after the other, stops at the first that accepts
\* and fails only when all have refused, and every message is in the language that
\* was asked for: for all lists of providers and any number of messages.
THEOREM MessagesArrive == NoticeSpec => []MessagesArriveAsAsked
<1>1. NoticeInit => NoticeInv
  <2> SUFFICES ASSUME NoticeInit PROVE NoticeInv
    OBVIOUS
  <2>1. ASSUME NEW n \in Notice
        PROVE  notices[n].phase = "new" /\ delivered[n] = {} /\ refusals[n] = {}
    BY DEF NoticeInit
  <2>2. /\ notices = [n \in Notice |-> notices[n]]
        /\ delivered = [n \in Notice |-> delivered[n]]
        /\ refusals = [n \in Notice |-> refusals[n]]
    BY DEF NoticeInit
  <2> QED BY <2>1, <2>2 DEF NoticeInv, NoticeSound
<1> QED BY <1>1, NoticeStep, InvGivesMessages, PTL DEF NoticeSpec

\* A template whose last Add succeeded can be rendered, for all names an application
\* may add.
THEOREM TemplatesRender == NoticeSpec => []AddedRenders
<1>1. NoticeInit => TemplateInv
  <2> SUFFICES ASSUME NoticeInit PROVE TemplateInv
    OBVIOUS
  <2>1. ASSUME NEW k \in Kind PROVE SetSound(templates[k], latest[k])
    <3>1. templates[k] = TemplateSet(<<>>) /\ latest[k] = [x \in Name |-> "none"]
      BY <2>1 DEF NoticeInit
    <3> QED BY <3>1, SetIs DEF SetSound, Outcomes
  <2> QED BY <2>1 DEF TemplateInv, NoticeInit
<1> QED BY <1>1, TemplateStep, InvGivesAddedRenders, PTL DEF NoticeSpec

-----------------------------------------------------------------------------
(* CallChain.                                                              *)

\* A call that has arrived.
IsCall(r) ==
    r \in [phase : {"inward", "outward", "answered", "lost"}, at : Int, binary : Binary,
           method : Method, metadata : {r.metadata}, claims : {r.claims}, answer : {r.answer},
           handled : BOOLEAN]

\* The claims are those of the caller.
Authenticated(r) == r.claims.user = CallerOf(r)

\* Where a call has passed authentication it carries its caller, and nothing has
\* turned it outward below audit but its handler.
Sound(r) ==
    /\ r.at \in 0..(Len(Chain[r.binary]) + 1)
    /\ r.phase = "inward" => r.at > 0 /\ ~r.handled
    /\ r.phase = "outward" => r.at <= Len(Chain[r.binary])
    /\ r.binary = "server" =>
          /\ r.phase = "inward" => IF r.at > 3 THEN Authenticated(r) ELSE r.claims = NoClaims
          /\ r.handled => Authenticated(r)
          /\ r.phase = "outward" /\ r.at > 3 => r.handled
    /\ r.phase = "answered" => r.at = 0

\* The two chains.
LEMMA ChainIs ==
    /\ Binary = {"server", "auth"}
    /\ Chain["server"] = <<"i18n", "validation", "authn", "audit", "telemetry">>
    /\ Chain["auth"] = <<"authn">>
BY DEF Binary, Chain

\* Where their interceptors are.
LEMMA ChainHas ==
    /\ Len(Chain["server"]) = 5 /\ Len(Chain["auth"]) = 1
    /\ \A i \in 1..5 : /\ Chain["server"][i] = "audit" <=> i = 4
                       /\ Chain["server"][i] = "authn" <=> i = 3
                       /\ Chain["server"][i] = "validation" <=> i = 2
    /\ \A i \in 1..1 : Chain["auth"][i] = "authn"
    /\ Audits("server") /\ ~Audits("auth")
BY ChainIs DEF Audits

\* The same request, in another state.
SameRequest(q, r) ==
    /\ IsCall(q)
    /\ q.binary = r.binary /\ q.method = r.method /\ q.metadata = r.metadata

\* What a change of one field of a call leaves alone, for each of the fields.
LEMMA PhaseIs ==
    ASSUME NEW r, IsCall(r), NEW p \in {"outward", "answered", "lost"}, NEW q,
           q = [r EXCEPT !.phase = p]
    PROVE  /\ SameRequest(q, r) /\ q.phase = p
           /\ q.at = r.at /\ q.claims = r.claims /\ q.answer = r.answer /\ q.handled = r.handled
BY DEF IsCall, SameRequest

\* The place.
LEMMA AtIs ==
    ASSUME NEW r, IsCall(r), NEW i \in Int, NEW q, q = [r EXCEPT !.at = i]
    PROVE  /\ SameRequest(q, r) /\ q.at = i
           /\ q.phase = r.phase /\ q.claims = r.claims /\ q.answer = r.answer
           /\ q.handled = r.handled
BY DEF IsCall, SameRequest

\* The claims.
LEMMA ClaimsAre ==
    ASSUME NEW r, IsCall(r), NEW v, NEW q, q = [r EXCEPT !.claims = v]
    PROVE  /\ SameRequest(q, r) /\ q.claims = v
           /\ q.phase = r.phase /\ q.at = r.at /\ q.answer = r.answer /\ q.handled = r.handled
BY DEF IsCall, SameRequest

\* The answer.
LEMMA AnswerIs ==
    ASSUME NEW r, IsCall(r), NEW a, NEW q, q = [r EXCEPT !.answer = a]
    PROVE  /\ SameRequest(q, r) /\ q.answer = a
           /\ q.phase = r.phase /\ q.at = r.at /\ q.claims = r.claims /\ q.handled = r.handled
BY DEF IsCall, SameRequest

\* The mark that a handler has run.
LEMMA HandledIs ==
    ASSUME NEW r, IsCall(r), NEW q, q = [r EXCEPT !.handled = TRUE]
    PROVE  /\ SameRequest(q, r) /\ q.handled
           /\ q.phase = r.phase /\ q.at = r.at /\ q.claims = r.claims /\ q.answer = r.answer
BY DEF IsCall, SameRequest

\* Proceed.
LEMMA ProceedIs ==
    ASSUME NEW r, IsCall(r)
    PROVE  /\ SameRequest(Proceed(r), r) /\ Proceed(r).at = r.at + 1
           /\ Proceed(r).phase = r.phase /\ Proceed(r).claims = r.claims
           /\ Proceed(r).handled = r.handled
<1>1. r.at + 1 \in Int
  BY DEF IsCall
<1> QED BY <1>1, AtIs DEF Proceed

\* Refuse.
LEMMA RefuseIs ==
    ASSUME NEW r, IsCall(r), NEW s
    PROVE  /\ SameRequest(Refuse(r, s), r) /\ Refuse(r, s).at = r.at - 1
           /\ Refuse(r, s).phase = "outward" /\ Refuse(r, s).handled = r.handled
           /\ Refuse(r, s).claims = r.claims
<1> DEFINE q1 == [r EXCEPT !.phase = "outward"]
           q2 == [q1 EXCEPT !.at = r.at - 1]
           q3 == [q2 EXCEPT !.answer = Status(s)]
<1>1. SameRequest(q1, r) /\ q1.phase = "outward" /\ q1.claims = r.claims /\ q1.handled = r.handled
  BY PhaseIs
<1> HIDE DEF q1
<1>2. r.at - 1 \in Int /\ IsCall(q1)
  BY <1>1 DEF IsCall, SameRequest
<1>3. /\ SameRequest(q2, q1) /\ q2.at = r.at - 1
      /\ q2.phase = q1.phase /\ q2.claims = q1.claims /\ q2.handled = q1.handled
  BY <1>2, AtIs
<1> HIDE DEF q2
<1>4. /\ SameRequest(q3, q2) /\ q3.at = q2.at
      /\ q3.phase = q2.phase /\ q3.claims = q2.claims /\ q3.handled = q2.handled
  BY <1>3, AnswerIs DEF SameRequest
<1>5. Refuse(r, s) = q3
  BY DEF Refuse, q1, q2
<1> QED BY <1>1, <1>3, <1>4, <1>5 DEF SameRequest

\* The handler runs, and the call turns outward.
LEMMA HandlingIs ==
    ASSUME NEW c \in Call, IsCall(rpc[c]), DOMAIN rpc = Call, NEW a,
           rpc' = [rpc EXCEPT ![c].phase = "outward", ![c].at = @ - 1,
                             ![c].answer = a, ![c].handled = TRUE]
    PROVE  \E q : /\ rpc' = [rpc EXCEPT ![c] = q]
                  /\ SameRequest(q, rpc[c]) /\ q.phase = "outward" /\ q.at = rpc[c].at - 1
                  /\ q.claims = rpc[c].claims /\ q.answer = a /\ q.handled
<1> DEFINE q1 == [rpc[c] EXCEPT !.phase = "outward"]
           q2 == [q1 EXCEPT !.at = rpc[c].at - 1]
           q3 == [q2 EXCEPT !.answer = a]
           q4 == [q3 EXCEPT !.handled = TRUE]
<1>1. SameRequest(q1, rpc[c]) /\ q1.phase = "outward" /\ q1.claims = rpc[c].claims
  BY PhaseIs
<1> HIDE DEF q1
<1>2. rpc[c].at - 1 \in Int /\ IsCall(q1)
  BY <1>1 DEF IsCall, SameRequest
<1>3. /\ SameRequest(q2, q1) /\ q2.at = rpc[c].at - 1
      /\ q2.phase = q1.phase /\ q2.claims = q1.claims
  BY <1>2, AtIs
<1> HIDE DEF q2
<1>4. /\ SameRequest(q3, q2) /\ q3.at = q2.at /\ q3.answer = a
      /\ q3.phase = q2.phase /\ q3.claims = q2.claims
  BY <1>3, AnswerIs DEF SameRequest
<1> HIDE DEF q3
<1>5. /\ SameRequest(q4, q3) /\ q4.at = q3.at /\ q4.answer = q3.answer /\ q4.handled
      /\ q4.phase = q3.phase /\ q4.claims = q3.claims
  BY <1>4, HandledIs DEF SameRequest
<1>6. rpc' = [rpc EXCEPT ![c] = q4]
  BY DEF q1, q2, q3
<1> HIDE DEF q4
<1>7. /\ SameRequest(q4, rpc[c]) /\ q4.phase = "outward" /\ q4.at = rpc[c].at - 1
      /\ q4.claims = rpc[c].claims /\ q4.answer = a /\ q4.handled
  BY <1>1, <1>3, <1>4, <1>5 DEF SameRequest
<1> QED BY <1>6, <1>7

\* Every call has not arrived or is sound.
CallTyped ==
    /\ DOMAIN rpc = Call
    /\ \A c \in Call : rpc[c] = New \/ (IsCall(rpc[c]) /\ Sound(rpc[c]))

\* A record belongs to a call that has passed audit, and tells the truth about it.
Recorded(r) ==
    /\ r.call \in Call
    /\ LET call == rpc[r.call]
       IN  /\ IsCall(call) /\ call.binary = "server" /\ call.phase # "inward" /\ call.at < 4
           /\ call.handled /\ call.method \notin ReadOnly
           /\ r.user = call.claims.user
           /\ r.success <=> call.answer.status = "OK"

\* A call that has passed audit and must have left a record.
Owed(c) ==
    /\ IsCall(rpc[c]) /\ rpc[c].binary = "server" /\ rpc[c].phase \in {"outward", "answered"}
    /\ rpc[c].at < 4 /\ rpc[c].handled /\ rpc[c].method \notin ReadOnly
    /\ c \notin unlogged

\* The inductive invariant of the calls: one record each for those that owe one.
CallInv ==
    /\ CallTyped
    /\ \A r \in detached \union trail : Recorded(r)
    /\ \A r, s \in detached \union trail : r.call = s.call => r = s
    /\ \A c \in Call : Owed(c) => \E r \in detached \union trail : r.call = c

\* A call that has not arrived is none.
LEMMA NewIsNoCall == ~IsCall(New)
BY DEF New, IsCall

\* The invariant implies the property.
LEMMA InvGivesAuditTrail == CallInv => AuditTrail
<1> SUFFICES ASSUME CallInv PROVE AuditTrail
  OBVIOUS
<1>1. ASSUME NEW r \in detached \union trail
      PROVE  /\ rpc[r.call].handled /\ rpc[r.call].method \notin ReadOnly
             /\ r.user = CallerOf(rpc[r.call])
             /\ r.success <=> rpc[r.call].answer.status = "OK"
  <2>1. Recorded(r)
    BY DEF CallInv
  <2>2. Sound(rpc[r.call])
    BY <2>1, NewIsNoCall DEF Recorded, CallInv, CallTyped
  <2> QED BY <2>1, <2>2 DEF Recorded, Sound, Authenticated
<1>2. ASSUME NEW c \in Call, rpc[c].phase = "answered", rpc[c].handled, Audits(BinaryOf(c)),
             rpc[c].method \notin ReadOnly, c \notin unlogged
      PROVE  \E r \in detached \union trail : r.call = c
  <2>1. IsCall(rpc[c]) /\ Sound(rpc[c])
    BY <1>2 DEF CallInv, CallTyped, New
  <2>2. rpc[c].binary = "server" /\ rpc[c].at < 4
    BY <1>2, <2>1, ChainIs, ChainHas DEF BinaryOf, IsCall, Sound
  <2> QED BY <1>2, <2>1, <2>2 DEF CallInv, Owed
<1> QED BY <1>1, <1>2 DEF AuditTrail, CallInv

\* A step that moves one call and makes no record.
LEMMA CallMoves ==
    ASSUME CallInv, NEW c \in Call, NEW q, rpc' = [rpc EXCEPT ![c] = q],
           IsCall(q), Sound(q), UNCHANGED <<detached, trail, unlogged>>,
           \/ rpc[c] = New /\ q.phase = "inward"
           \/ /\ IsCall(rpc[c]) /\ SameRequest(q, rpc[c])
              /\ q.phase = "inward" => rpc[c].phase = "inward"
              /\ rpc[c].handled =>
                    /\ q.handled /\ q.phase # "inward" /\ q.at <= rpc[c].at
                    /\ q.claims = rpc[c].claims /\ q.answer = rpc[c].answer
              /\ q.binary = "server" /\ q.handled /\ q.at < 4 /\ q.method \notin ReadOnly
                    => rpc[c].handled /\ rpc[c].at < 4 /\ rpc[c].phase \in {"outward", "answered"}
    PROVE  CallInv'
<1>1. CallTyped'
  BY DEF CallInv, CallTyped
<1>2. ASSUME NEW r \in detached \union trail PROVE Recorded(r)'
  <2>1. Recorded(r)
    BY DEF CallInv
  <2>2. CASE r.call # c
    BY <2>1, <2>2 DEF Recorded, CallInv, CallTyped
  <2>3. CASE r.call = c
    <3>1. rpc'[c] = q /\ IsCall(rpc[c])
      BY <2>1, <2>3 DEF Recorded, CallInv, CallTyped
    <3>2. /\ SameRequest(q, rpc[c]) /\ rpc[c].handled /\ q.handled /\ q.phase # "inward"
          /\ q.at <= rpc[c].at /\ q.claims = rpc[c].claims /\ q.answer = rpc[c].answer
      BY <2>1, <2>3, <3>1, NewIsNoCall DEF Recorded
    <3>3. q.at < 4
      BY <2>1, <2>3, <3>2 DEF Recorded, IsCall
    <3> QED BY <2>1, <2>3, <3>1, <3>2, <3>3 DEF Recorded, SameRequest
  <2> QED BY <2>2, <2>3
<1>3. ASSUME NEW d \in Call, Owed(d)' PROVE Owed(d)
  <2>1. CASE d # c
    BY <1>3, <2>1 DEF Owed, CallInv, CallTyped
  <2>2. CASE d = c
    BY <1>3, <2>2 DEF Owed, SameRequest, CallInv, CallTyped
  <2> QED BY <2>1, <2>2
<1> QED BY <1>1, <1>2, <1>3 DEF CallInv

\* The answer leaves.
LEMMA SoundAnswer ==
    ASSUME NEW c \in Call, CallInv, Answer(c)
    PROVE  CallInv'
<1>1. IsCall(rpc[c]) /\ Sound(rpc[c])
  BY DEF Answer, CallInv, CallTyped, New
<1> DEFINE q == [rpc[c] EXCEPT !.phase = "answered"]
<1>2. /\ SameRequest(q, rpc[c]) /\ q.phase = "answered"
      /\ q.at = rpc[c].at /\ q.claims = rpc[c].claims /\ q.answer = rpc[c].answer
      /\ q.handled = rpc[c].handled
  BY <1>1, PhaseIs
<1>3. rpc' = [rpc EXCEPT ![c] = q]
  BY DEF Answer
<1> HIDE DEF q
<1>4. rpc[c].phase = "outward" /\ rpc[c].at = 0 /\ UNCHANGED <<detached, trail, unlogged>>
  BY DEF Answer
<1>5. Sound(q)
  BY <1>1, <1>2, <1>4 DEF Sound, SameRequest, Authenticated, CallerOf
<1>6. IsCall(q) /\ q.at <= rpc[c].at
  BY <1>2, <1>4 DEF SameRequest
<1> QED BY <1>1, <1>2, <1>3, <1>4, <1>5, <1>6, CallMoves

\* A call arrives.
LEMMA SoundArrive ==
    ASSUME NEW c \in Call, NEW b \in Binary, NEW m \in Method, NEW sent \in Sent,
           CallInv, Arrive(c, b, m, sent)
    PROVE  CallInv'
<1> DEFINE q == [phase |-> "inward", at |-> 1, binary |-> b, method |-> m,
                 metadata |-> Incoming(sent), claims |-> NoClaims, answer |-> Status("none"),
                 handled |-> FALSE]
<1>1. rpc[c] = New
  BY DEF Arrive, CallInv, CallTyped, IsCall
<1>2. IsCall(q) /\ q.phase = "inward" /\ q.at = 1 /\ ~q.handled /\ q.claims = NoClaims
  BY DEF IsCall
<1>3. rpc' = [rpc EXCEPT ![c] = q] /\ UNCHANGED <<detached, trail, unlogged>>
  BY DEF Arrive
<1> HIDE DEF q
<1>4. Sound(q)
  BY <1>2, ChainIs, ChainHas DEF Sound, IsCall
<1> QED BY <1>1, <1>2, <1>3, <1>4, CallMoves

\* What the interceptors of a chain do with a call on its way to the handler.
LEMMA BeforeIs ==
    ASSUME NEW r, IsCall(r), Sound(r), r.phase = "inward", ~Innermost(r), NEW q \in Before(r)
    PROVE  /\ SameRequest(q, r) /\ Sound(q)
           /\ q.handled = r.handled /\ q.phase \in {"inward", "outward"}
<1>1. r.at \in 1..Len(Chain[r.binary]) /\ r.binary \in {"server", "auth"}
  BY ChainIs, ChainHas DEF IsCall, Sound, Innermost
<1> DEFINE i == Interceptor(r)
<1>0. r.binary = "server" => /\ i = "authn" <=> r.at = 3
                             /\ i = "validation" <=> r.at = 2
  BY <1>1, ChainHas DEF Interceptor
<1> HIDE DEF i
<1>7. i \in {"authn", "validation"} => r.at <= 3
  <2>1. CASE r.binary = "server"
    BY <1>0, <2>1
  <2>2. CASE r.binary = "auth"
    BY <1>1, <2>2, ChainHas
  <2> QED BY <1>1, <2>1, <2>2
<1>2. ASSUME NEW s, q = Refuse(r, s), r.at <= 3
      PROVE  SameRequest(q, r) /\ Sound(q) /\ q.handled = r.handled /\ q.phase = "outward"
  <2>1. /\ SameRequest(q, r) /\ q.at = r.at - 1
        /\ q.phase = "outward" /\ q.handled = r.handled /\ q.claims = r.claims
    BY <1>2, RefuseIs
  <2>2. Sound(q)
    BY <1>1, <1>2, <2>1, ChainHas DEF Sound, SameRequest, IsCall
  <2> QED BY <2>1, <2>2
<1>3. ASSUME NEW p, IsCall(p), SameRequest(p, r), q = Proceed(p), p.at = r.at, p.phase = "inward",
             p.handled = r.handled,
             r.binary = "server" => IF r.at >= 3 THEN Authenticated(p) ELSE p.claims = NoClaims
      PROVE  SameRequest(q, r) /\ Sound(q) /\ q.handled = r.handled /\ q.phase = "inward"
  <2>1. /\ SameRequest(q, p) /\ q.at = r.at + 1 /\ q.phase = "inward"
        /\ q.claims = p.claims /\ q.handled = r.handled
    BY <1>3, ProceedIs
  <2>2. r.binary = "server" =>
          IF r.at >= 3 THEN Authenticated(q) ELSE q.claims = NoClaims
    BY <1>3, <2>1 DEF Authenticated, CallerOf, SameRequest
  <2>3. SameRequest(q, r)
    BY <1>3, <2>1 DEF SameRequest
  <2>4. Sound(q)
    BY <1>1, <2>1, <2>2, <2>3, ChainHas DEF Sound, SameRequest, IsCall
  <2> QED BY <2>1, <2>3, <2>4
<1>4. CASE i = "authn" /\ r.method \in PublicMethods[r.binary]
  <2>1. q = Proceed(r)
    BY <1>4 DEF Before, Authenticate, i
  <2>3. r.binary = "server" => r.at = 3
    BY <1>0, <1>4
  <2>4. r.binary = "server" => r.claims = NoClaims
    BY <2>3 DEF Sound
  <2>5. CallerOf(r) = Nobody /\ NoClaims.user = Nobody
    BY <1>4 DEF CallerOf, NoClaims
  <2>2. r.binary = "server" => Authenticated(r)
    BY <2>4, <2>5 DEF Authenticated
  <2> QED BY <1>3, <2>1, <2>2, <2>3 DEF SameRequest
<1>5. CASE i = "authn" /\ r.method \notin PublicMethods[r.binary]
  <2>1. CASE q = Refuse(r, "Unauthenticated")
    BY <1>2, <1>5, <1>7, <2>1
  <2>2. CASE q # Refuse(r, "Unauthenticated")
    <3> DEFINE token == BearerToken(r.metadata)
               p == [r EXCEPT !.claims = [user |-> token.subject, role |-> token.role]]
    <3>1. q = Proceed(p)
      BY <1>5, <2>2 DEF Before, Authenticate, i
    <3>2. /\ SameRequest(p, r) /\ p.claims = [user |-> token.subject, role |-> token.role]
          /\ p.phase = r.phase /\ p.at = r.at /\ p.handled = r.handled
      BY ClaimsAre
    <3> HIDE DEF p
    <3>3. Authenticated(p) /\ (r.binary = "server" => r.at = 3)
      BY <1>0, <1>5, <3>2 DEF Authenticated, CallerOf, SameRequest
    <3> QED BY <1>3, <3>1, <3>2, <3>3 DEF SameRequest
  <2> QED BY <2>1, <2>2
<1>6. CASE i # "authn"
  <2>1. q = Proceed(r) \/ (q = Refuse(r, "InvalidArgument") /\ i = "validation")
    BY <1>6 DEF Before, i
  <2>2. r.binary = "server" => IF r.at >= 3 THEN Authenticated(r) ELSE r.claims = NoClaims
    BY <1>0, <1>6 DEF Sound, IsCall
  <2> QED BY <1>2, <1>3, <1>7, <2>1, <2>2 DEF SameRequest
<1> QED BY <1>4, <1>5, <1>6

\* An interceptor passes a call on or refuses it.
LEMMA SoundInward ==
    ASSUME NEW c \in Call, CallInv, Inward(c)
    PROVE  CallInv'
<1>1. /\ rpc[c].phase = "inward" /\ ~Innermost(rpc[c])
      /\ UNCHANGED <<detached, trail, unlogged>>
  BY DEF Inward
<1>2. IsCall(rpc[c]) /\ Sound(rpc[c]) /\ rpc[c].handled = FALSE
  BY <1>1 DEF CallInv, CallTyped, New, Sound, IsCall
<1>3. PICK q \in Before(rpc[c]) : rpc' = [rpc EXCEPT ![c] = q]
  BY DEF Inward
<1>4. /\ SameRequest(q, rpc[c]) /\ Sound(q) /\ q.handled = FALSE
      /\ q.phase \in {"inward", "outward"}
  BY <1>1, <1>2, <1>3, BeforeIs
<1> QED BY <1>1, <1>2, <1>3, <1>4, CallMoves DEF SameRequest

\* A handler runs: no record is owed before the call has passed audit again.
LEMMA SoundHandle ==
    ASSUME NEW c \in Call, CallInv, Handle(c)
    PROVE  CallInv'
<1>1. /\ rpc[c].phase = "inward" /\ Innermost(rpc[c])
      /\ UNCHANGED <<detached, trail, unlogged>>
  BY DEF Handle
<1>2. IsCall(rpc[c]) /\ Sound(rpc[c]) /\ DOMAIN rpc = Call
  BY <1>1 DEF CallInv, CallTyped, New
<1>3. PICK a : rpc' = [rpc EXCEPT ![c].phase = "outward", ![c].at = @ - 1,
                                  ![c].answer = a, ![c].handled = TRUE]
  BY DEF Handle
<1>4. PICK q : /\ rpc' = [rpc EXCEPT ![c] = q]
               /\ SameRequest(q, rpc[c]) /\ q.phase = "outward" /\ q.at = rpc[c].at - 1
               /\ q.claims = rpc[c].claims /\ q.answer = a /\ q.handled
  BY <1>2, <1>3, HandlingIs
<1>5. rpc[c].at = Len(Chain[rpc[c].binary]) + 1 /\ rpc[c].binary \in {"server", "auth"}
  BY <1>1, <1>2, ChainIs, ChainHas DEF Innermost, Sound, IsCall
<1>6. rpc[c].binary = "server" => Authenticated(rpc[c]) /\ q.at = 5
  BY <1>1, <1>2, <1>4, <1>5, ChainHas DEF Sound
<1>7. Sound(q)
  BY <1>1, <1>2, <1>4, <1>5, <1>6, ChainHas
     DEF Sound, SameRequest, Authenticated, CallerOf
<1>8. ~rpc[c].handled
  BY <1>1, <1>2 DEF Sound
<1>9. /\ q.phase # "inward"
      /\ ~(q.binary = "server" /\ q.handled /\ q.at < 4 /\ q.method \notin ReadOnly)
  BY <1>4, <1>6 DEF SameRequest
<1>10. IsCall(q)
  BY <1>4 DEF SameRequest
<1> QED BY <1>1, <1>2, <1>4, <1>7, <1>8, <1>9, <1>10, CallMoves

\* A call passes an interceptor on its way out, audit among them.
LEMMA SoundOutward ==
    ASSUME NEW c \in Call, CallInv, Outward(c)
    PROVE  CallInv'
<1> DEFINE r == rpc[c]
           q == [r EXCEPT !.at = r.at - 1]
<1>1. /\ r.phase = "outward" /\ r.at > 0 /\ UNCHANGED <<trail, unlogged>>
      /\ rpc' = [rpc EXCEPT ![c] = q]
  BY DEF Outward
<1>2. IsCall(r) /\ Sound(r) /\ r.at \in Int
  BY <1>1 DEF CallInv, CallTyped, New, IsCall
<1>3. /\ SameRequest(q, r) /\ q.at = r.at - 1
      /\ q.phase = r.phase /\ q.claims = r.claims /\ q.answer = r.answer /\ q.handled = r.handled
  BY <1>2, AtIs
<1> HIDE DEF q
<1>4. Sound(q)
  BY <1>1, <1>2, <1>3 DEF Sound, SameRequest, Authenticated, CallerOf
<1>5. r.at \in 1..Len(Chain[r.binary]) /\ r.binary \in {"server", "auth"}
  BY <1>1, <1>2, ChainIs DEF Sound, IsCall
<1>6. Interceptor(r) = "audit" <=> r.binary = "server" /\ r.at = 4
  BY <1>5, ChainHas DEF Interceptor
<1> DEFINE recording == Interceptor(r) = "audit" /\ r.method \notin ReadOnly
<1>7. CASE ~recording
  <2>1. detached' = detached
    BY <1>7 DEF Outward
  <2>2. q.binary = "server" /\ q.at < 4 /\ q.method \notin ReadOnly => r.at < 4
    BY <1>2, <1>3, <1>6, <1>7 DEF SameRequest
  <2>3. IsCall(q) /\ q.at <= r.at
    BY <1>2, <1>3 DEF SameRequest
  <2>4. /\ q.phase = "inward" => r.phase = "inward"
        /\ r.handled => /\ q.handled /\ q.phase # "inward" /\ q.at <= r.at
                        /\ q.claims = r.claims /\ q.answer = r.answer
        /\ q.binary = "server" /\ q.handled /\ q.at < 4 /\ q.method \notin ReadOnly
             => r.handled /\ r.at < 4 /\ r.phase \in {"outward", "answered"}
    BY <1>1, <1>3, <2>2, <2>3
  <2>5. UNCHANGED <<detached, trail, unlogged>>
    BY <1>1, <2>1
  <2> HIDE DEF recording
  <2> QED BY <1>1, <1>2, <1>3, <1>4, <2>3, <2>4, <2>5, CallMoves
<1>8. CASE recording
  <2>1. detached' = detached \union {Record(c)}
    BY <1>8 DEF Outward
  <2>2. r.binary = "server" /\ r.at = 4 /\ r.method \notin ReadOnly
    BY <1>6, <1>8
  <2>3. r.handled
    BY <1>1, <1>2, <2>2 DEF Sound
  <2>4. \A s \in detached \union trail : Recorded(s) /\ s.call # c
    BY <2>2 DEF CallInv, Recorded
  <2>5. CallTyped'
    BY <1>1, <1>3, <1>4 DEF CallInv, CallTyped, SameRequest
  <2>6. rpc'[c] = q /\ \A d \in Call \ {c} : rpc'[d] = rpc[d]
    BY <1>1 DEF CallInv, CallTyped
  <2>14. PICK made : made = Record(c)
    OBVIOUS
  <2>7. /\ made.call = c /\ made.user = r.claims.user
        /\ made.success <=> r.answer.status = "OK"
    BY <2>14 DEF Record
  <2>8. Recorded(made)'
    <3>1. /\ IsCall(q) /\ q.binary = "server" /\ q.phase # "inward" /\ q.at < 4
          /\ q.handled /\ q.method \notin ReadOnly /\ made.user = q.claims.user
      BY <1>1, <1>2, <1>3, <2>2, <2>3, <2>7 DEF SameRequest
    <3>2. made.success <=> q.answer.status = "OK"
      BY <1>3, <2>7
    <3> QED BY <2>6, <2>7, <3>1, <3>2 DEF Recorded
  <2>9. ASSUME NEW s \in detached \union trail PROVE Recorded(s)'
    BY <2>4, <2>6 DEF Recorded
  <2>10. ASSUME NEW d \in Call, Owed(d)', d # c PROVE Owed(d)
    BY <1>1, <2>6, <2>10 DEF Owed
  <2>11. (detached \union trail)' = (detached \union trail) \union {made}
    BY <1>1, <2>1, <2>14
  <2>12. \A s, t \in (detached \union trail)' : s.call = t.call => s = t
    BY <2>4, <2>7, <2>11 DEF CallInv
  <2>13. \A d \in Call : Owed(d)' => \E s \in (detached \union trail)' : s.call = d
    BY <2>7, <2>10, <2>11 DEF CallInv
  <2> QED BY <2>5, <2>8, <2>9, <2>11, <2>12, <2>13 DEF CallInv
<1> QED BY <1>7, <1>8

\* A detached record is written.
LEMMA SoundLog ==
    ASSUME CallInv, NEW record \in detached, Log(record)
    PROVE  CallInv'
<1>1. (detached \union trail)' = detached \union trail /\ UNCHANGED <<rpc, unlogged>>
  BY DEF Log
<1>2. CallTyped' /\ \A r \in detached \union trail : Recorded(r)'
  BY <1>1 DEF CallInv, CallTyped, Recorded
<1>3. \A c \in Call : Owed(c)' => Owed(c)
  BY <1>1 DEF Owed
<1> QED BY <1>1, <1>2, <1>3 DEF CallInv

\* A process ends with its open calls and detached records.
LEMMA SoundEndProcess ==
    ASSUME CallInv, NEW b \in Binary, EndProcess(b)
    PROVE  CallInv'
<1> DEFINE lost == {r \in detached : BinaryOf(r.call) = b}
<1>1. /\ detached' = detached \ lost /\ unlogged' = unlogged \union {r.call : r \in lost}
      /\ trail' = trail
  BY DEF EndProcess
<1>2. ASSUME NEW c \in Call
      PROVE  \/ rpc'[c] = rpc[c]
             \/ /\ IsCall(rpc[c]) /\ SameRequest(rpc'[c], rpc[c]) /\ rpc'[c].phase = "lost"
                /\ rpc'[c].at = rpc[c].at /\ rpc'[c].claims = rpc[c].claims
                /\ rpc'[c].answer = rpc[c].answer /\ rpc'[c].handled = rpc[c].handled
  <2>1. CASE c \in Open(b)
    <3>1. rpc'[c] = [rpc[c] EXCEPT !.phase = "lost"]
      BY <2>1 DEF EndProcess
    <3>2. IsCall(rpc[c])
      BY <2>1 DEF Open, CallInv, CallTyped, New
    <3> QED BY <3>1, <3>2, PhaseIs
  <2>2. CASE c \notin Open(b)
    BY <2>2 DEF EndProcess
  <2> QED BY <2>1, <2>2
<1>3. CallTyped'
  <2>1. DOMAIN rpc' = Call
    BY DEF EndProcess
  <2>2. ASSUME NEW c \in Call PROVE (rpc[c] = New \/ (IsCall(rpc[c]) /\ Sound(rpc[c])))'
    <3>1. CASE rpc'[c] = rpc[c]
      BY <3>1 DEF CallInv, CallTyped, Sound, Authenticated, CallerOf
    <3>2. CASE rpc'[c] # rpc[c]
      <4>1. Sound(rpc[c])
        BY <1>2, <3>2, NewIsNoCall DEF CallInv, CallTyped
      <4>2. Sound(rpc'[c])
        BY <1>2, <3>2, <4>1 DEF Sound, SameRequest, Authenticated, CallerOf
      <4> QED BY <1>2, <3>2, <4>2 DEF SameRequest
    <3> QED BY <3>1, <3>2
  <2> QED BY <2>1, <2>2 DEF CallTyped
<1>4. ASSUME NEW r \in detached \union trail PROVE Recorded(r)'
  <2>1. Recorded(r)
    BY DEF CallInv
  <2> QED BY <1>2, <2>1 DEF Recorded, SameRequest
<1>5. ASSUME NEW c \in Call, Owed(c)' PROVE \E r \in detached' \union trail' : r.call = c
  <2>1. rpc'[c] = rpc[c] /\ c \notin unlogged
    BY <1>1, <1>2, <1>5 DEF Owed
  <2>2. PICK r \in detached \union trail : r.call = c
    BY <1>5, <2>1 DEF CallInv, Owed
  <2>3. r \notin lost
    BY <1>1, <1>5, <2>2 DEF Owed
  <2> QED BY <1>1, <2>2, <2>3
<1> HIDE DEF lost
<1> QED BY <1>1, <1>3, <1>4, <1>5 DEF CallInv

\* Every step keeps the invariant.
LEMMA SoundStep == CallInv /\ [CallChainNext]_callVars => CallInv'
<1> SUFFICES ASSUME CallInv, [CallChainNext]_callVars PROVE CallInv'
  OBVIOUS
<1>1. ASSUME UNCHANGED <<rpc, detached, trail, unlogged>> PROVE CallInv'
  BY <1>1 DEF CallInv, CallTyped, Recorded, Owed
<1>2. CASE UNCHANGED callVars
  BY <1>1, <1>2 DEF callVars
<1>3. ASSUME NEW t \in Token, Expire(t) PROVE CallInv'
  BY <1>1, <1>3 DEF Expire
<1> QED BY <1>2, <1>3, SoundArrive, SoundInward, SoundHandle, SoundOutward, SoundAnswer,
           SoundLog, SoundEndProcess DEF CallChainNext

\* Every change leaves one record, under the caller's name and with its outcome, and
\* what never reached a handler leaves none: for all methods, tokens and headers.
THEOREM AuditIsComplete == CallSpec => []AuditTrail
<1>1. CallInit => CallInv
  <2> SUFFICES ASSUME CallInit PROVE CallInv
    OBVIOUS
  <2>1. DOMAIN rpc = Call /\ detached = {} /\ trail = {}
    BY DEF CallInit
  <2>2. \A c \in Call : rpc[c] = New
    BY DEF CallInit
  <2>3. CallTyped /\ \A c \in Call : ~Owed(c)
    BY <2>1, <2>2, NewIsNoCall DEF CallTyped, Owed
  <2> QED BY <2>1, <2>3 DEF CallInv
<1> QED BY <1>1, SoundStep, InvGivesAuditTrail, PTL DEF CallSpec
=============================================================================
