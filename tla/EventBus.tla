------------------------------ MODULE EventBus ------------------------------
(***************************************************************************)
(* internal/events/bus.go: the handlers registered for one event name, as  *)
(* the Go slice they are.  A slice is a header (array, length) over a      *)
(* backing array; Publish copies the header under the read lock and walks  *)
(* the array after it released the lock, while an unsubscribe function     *)
(* shifts the elements of that same array in place under the write lock.   *)
(***************************************************************************)
EXTENDS Integers, Sequences, FiniteSets

CONSTANTS
    Sub,            \* Subscribe calls: each makes one subscription
    CodeOf,         \* the code pointer of the handler a call passes
    Publisher,      \* goroutines that each publish the event once
    Closable,       \* may the bus be closed?
    None            \* the nil handler in an unused slot

ASSUME ClosableAssumption == Closable \in BOOLEAN
ASSUME NoneAssumption == None \notin Sub

VARIABLES
    mem,        \* the backing arrays allocated so far
    hdr,        \* b.handlers[eventName]: array and length
    shift,      \* the in-place removal under way, if the write lock is held by one
    status,     \* what the owner of a subscription did with it
    pub,        \* the publishing goroutines
    calls,      \* history: how often a publication called a subscription's handler
    registered, \* history: subscriptions active when the publication began
    gone,       \* history: subscriptions ended before the publication began
    disturbed   \* history: publications during which something was removed

vars == <<mem, hdr, shift, status, pub, calls, registered, gone, disturbed>>

Nil == [arr |-> 0, len |-> 0]
NoShift == [sub |-> None, from |-> 0]

TypeOK ==
    /\ mem \in Seq(Seq(Sub \union {None}))
    /\ hdr \in [arr : 0..Len(mem), len : Nat]
    /\ shift \in [sub : Sub \union {None}, from : Nat]
    /\ status \in [Sub -> {"new", "active", "cancelled", "closed"}]
    /\ pub \in [Publisher ->
                  [pc : {"idle", "iterating", "done"}, arr : 0..Len(mem), len : Nat, next : Nat]]
    /\ calls \in [Publisher -> [Sub -> Nat]]
    /\ registered \in [Publisher -> SUBSET Sub]
    /\ gone \in [Publisher -> SUBSET Sub]
    /\ disturbed \in SUBSET Publisher

Init ==
    /\ mem = <<>>
    /\ hdr = Nil
    /\ shift = NoShift
    /\ status = [s \in Sub |-> "new"]
    /\ pub = [p \in Publisher |-> [pc |-> "idle", arr |-> 0, len |-> 0, next |-> 1]]
    /\ calls = [p \in Publisher |-> [s \in Sub |-> 0]]
    /\ registered = [p \in Publisher |-> {}]
    /\ gone = [p \in Publisher |-> {}]
    /\ disturbed = {}

WriteLocked == shift # NoShift

\* The handlers the header reaches, in order.
Handlers == IF hdr.arr = 0 THEN <<>> ELSE SubSeq(mem[hdr.arr], 1, hdr.len)

Cap == IF hdr.arr = 0 THEN 0 ELSE Len(mem[hdr.arr])

-----------------------------------------------------------------------------

\* append(handlers, handler) without spare capacity: a new array of twice the
\* size, which no snapshot refers to.
Reallocate(s) ==
    LET cap == IF Cap = 0 THEN 1 ELSE 2 * Cap
        arr == [i \in 1..cap |-> IF i <= hdr.len THEN mem[hdr.arr][i]
                                 ELSE IF i = hdr.len + 1 THEN s ELSE None]
    IN  /\ hdr.len = Cap
        /\ mem' = Append(mem, arr)
        /\ hdr' = [arr |-> Len(mem) + 1, len |-> hdr.len + 1]

\* Mutant: the new handler is put in front, which moves the others.
Extend_AtFront(s) ==
    /\ hdr.len < Cap
    /\ mem' = [mem EXCEPT ![hdr.arr] =
                 [i \in 1..Cap |-> CASE i = 1 -> s
                                     [] 1 < i /\ i <= hdr.len + 1 -> @[i - 1]
                                     [] OTHER -> @[i]]]
    /\ hdr' = [hdr EXCEPT !.len = @ + 1]

\* append(handlers, handler) into the spare capacity of the array.
Extend(s) ==
    /\ hdr.len < Cap
    /\ mem' = [mem EXCEPT ![hdr.arr][hdr.len + 1] = s]
    /\ hdr' = [hdr EXCEPT !.len = @ + 1]

Subscribe(s) ==
    /\ ~WriteLocked
    /\ status[s] = "new"
    /\ status' = [status EXCEPT ![s] = "active"]
    /\ Extend(s) \/ Reallocate(s)
    /\ UNCHANGED <<shift, pub, calls, registered, gone, disturbed>>

\* Handlers are compared by the code they point to.
Matches(s, i) == CodeOf[Handlers[i]] = CodeOf[s]

\* The unsubscribe function finds the first match; without one it returns.
\* It may be called again later.
Unsubscribe(s) ==
    /\ ~WriteLocked
    /\ status[s] \in {"active", "cancelled", "closed"}
    /\ LET found == {i \in 1..hdr.len : Matches(s, i)}
       IN  IF found = {}
           THEN /\ status' = [status EXCEPT ![s] = "cancelled"]
                /\ UNCHANGED <<shift, disturbed>>
           ELSE /\ shift' = [sub |-> s, from |-> CHOOSE i \in found : \A j \in found : i <= j]
                /\ disturbed' = disturbed \union {p \in Publisher : pub[p].pc = "iterating"}
                /\ UNCHANGED status
    /\ UNCHANGED <<mem, hdr, pub, calls, registered, gone>>

\* The array after append(handlers[:i], handlers[i+1:]...): the slot beyond
\* the new length keeps its old content.
Shifted ==
    [i \in 1..Cap |-> IF shift.from <= i /\ i < hdr.len
                      THEN mem[hdr.arr][i + 1] ELSE mem[hdr.arr][i]]

FinishUnsubscribe ==
    /\ WriteLocked
    /\ mem' = [mem EXCEPT ![hdr.arr] = Shifted]
    /\ hdr' = [hdr EXCEPT !.len = @ - 1]
    /\ status' = [status EXCEPT ![shift.sub] = "cancelled"]
    /\ shift' = NoShift
    /\ UNCHANGED <<pub, calls, registered, gone, disturbed>>

\* A fresh map replaces the old one.
Close ==
    /\ Closable /\ ~WriteLocked
    /\ hdr # Nil
    /\ hdr' = Nil
    /\ status' = [s \in Sub |-> IF status[s] = "active" THEN "closed" ELSE status[s]]
    /\ UNCHANGED <<mem, shift, pub, calls, registered, gone, disturbed>>

-----------------------------------------------------------------------------

\* Publish copies the slice header under the read lock.
Snapshot(p) ==
    /\ ~WriteLocked
    /\ pub[p].pc = "idle"
    /\ pub' = [pub EXCEPT ![p] =
                 [pc |-> "iterating", arr |-> hdr.arr, len |-> hdr.len, next |-> 1]]
    /\ registered' = [registered EXCEPT ![p] = {s \in Sub : status[s] = "active"}]
    /\ gone' = [gone EXCEPT ![p] = {s \in Sub : status[s] \in {"cancelled", "closed"}}]
    /\ UNCHANGED <<mem, hdr, shift, status, calls, disturbed>>

\* What a read of slot i without the lock can return: while the slot is being
\* shifted, its content before or after.
Read(arr, i) ==
    IF WriteLocked /\ arr = hdr.arr
    THEN {mem[arr][i], Shifted[i]}
    ELSE {mem[arr][i]}

\* The loop of Publish reads the next slot and starts the handler's goroutine.
CallNext(p) ==
    /\ pub[p].pc = "iterating"
    /\ pub[p].next <= pub[p].len
    /\ \E s \in Read(pub[p].arr, pub[p].next) :
          calls' = [calls EXCEPT ![p][s] = @ + 1]
    /\ pub' = [pub EXCEPT ![p].next = @ + 1]
    /\ UNCHANGED <<mem, hdr, shift, status, registered, gone, disturbed>>

Return(p) ==
    /\ pub[p].pc = "iterating"
    /\ pub[p].next > pub[p].len
    /\ pub' = [pub EXCEPT ![p].pc = "done"]
    /\ UNCHANGED <<mem, hdr, shift, status, calls, registered, gone, disturbed>>

Next ==
    \/ \E s \in Sub : Subscribe(s) \/ Unsubscribe(s)
    \/ FinishUnsubscribe
    \/ Close
    \/ \E p \in Publisher : Snapshot(p) \/ CallNext(p) \/ Return(p)

Spec == Init /\ [][Next]_vars

-----------------------------------------------------------------------------
(* Properties.                                                             *)

\* If nothing was removed while it ran, a publication called exactly the
\* handlers registered when it began, each once, whatever was subscribed or
\* published in the meantime: appends never touch another snapshot.
UndisturbedIsExact ==
    \A p \in Publisher : pub[p].pc = "done" /\ p \notin disturbed =>
        \A s \in Sub : calls[p][s] = IF s \in registered[p] THEN 1 ELSE 0

\* Even when removals overlap, a publication calls nobody who had unsubscribed
\* (or was dropped by Close) before it began, and never a nil handler.
NoCallAfterUnsubscribe ==
    \A p \in Publisher :
        /\ \A s \in gone[p] : calls[p][s] = 0
        /\ pub[p].pc = "iterating" =>
              \A i \in pub[p].next..pub[p].len : None \notin Read(pub[p].arr, i)

\* With handlers that differ in their code, the registered handlers are exactly
\* the active subscriptions, each registered once, also after repeated calls of
\* the same unsubscribe function.
RegisteredIsActive ==
    ~WriteLocked =>
        /\ {Handlers[i] : i \in 1..hdr.len} = {s \in Sub : status[s] = "active"}
        /\ \A i, j \in 1..hdr.len : i # j => Handlers[i] # Handlers[j]

\* Publications reach the subscriptions they should: see UndisturbedIsExact,
\* NoCallAfterUnsubscribe and RegisteredIsActive.
PublicationsAreExact == UndisturbedIsExact /\ NoCallAfterUnsubscribe /\ RegisteredIsActive
=============================================================================
