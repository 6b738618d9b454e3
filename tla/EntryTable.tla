----------------------------- MODULE EntryTable -----------------------------
(***************************************************************************)
(* What the offset file of a shard promises, with no file, mapping or      *)
(* length: a table from labels to entries that processes enter, write and  *)
(* leave.  Alone, a process finds everything it and its predecessors put,  *)
(* except the entries without a sentence above the last that has one,      *)
(* which leaving drops.  A process that ever had company in its session is *)
(* promised nothing: whatever the table holds may go.                      *)
(***************************************************************************)
EXTENDS Integers

CONSTANTS
    Procs,          \* processes
    Slots,          \* labels the table has a place for
    Rooms,          \* numbers of labels a process may read below
    Named,          \* entries that carry a sentence id
    Unnamed,        \* entries with text and sentence id 0
    Bad,            \* those of either whose text range makes no sense
    Zero            \* the entry that was never written

VARIABLES
    table,          \* the entry of each label
    users,          \* processes in a session
    room,           \* below this label each process reads
    company         \* users that shared the table during their session

tableVars == <<table, users, room, company>>

Entries == Named \cup Unnamed \cup {Zero}

\* Some entries go.
Lost(entries) ==
    \E S \in SUBSET Slots :
        table' = [l \in Slots |-> IF l \in S THEN Zero ELSE entries[l]]

\* One past the last label with a sentence.
IsUsed(entries, n) ==
    /\ \A l \in Slots : entries[l] \in Named => l < n
    /\ n = 0 \/ \E l \in Slots : n = l + 1 /\ entries[l] \in Named

TableInit ==
    /\ table = [l \in Slots |-> Zero] /\ users = {} /\ company = {}
    /\ room = [p \in Procs |-> 0]

Enter(p, n) ==
    /\ p \notin users /\ users' = users \cup {p}
    /\ room' = [room EXCEPT ![p] = n]
    /\ company' = IF users = {} THEN company ELSE users'
    /\ UNCHANGED table

\* One label gets its entry; the room may grow to hold it.
Put(p, l, e) ==
    /\ p \in users /\ l # room[p]
    /\ table' = [table EXCEPT ![l] = e]
    /\ \/ UNCHANGED room
       \/ \E n \in Rooms : n > l /\ l > room[p] /\ room' = [room EXCEPT ![p] = n]
    /\ UNCHANGED <<users, company>>

\* The label at the very end of the room: the entry may be lost.
Overrun(p, l, e) ==
    /\ p \in users /\ l = room[p]
    /\ table' \in {table, [table EXCEPT ![l] = e]}
    /\ UNCHANGED <<users, room, company>>

\* validate_offsets with the fix: entries that make no sense go.
Repair(p) ==
    /\ p \in users
    /\ table' = [l \in Slots |->
                    IF table[l] \in Bad /\ l < room[p] THEN Zero ELSE table[l]]
    /\ UNCHANGED <<users, room, company>>

Leave(p) ==
    /\ p \in users /\ users' = users \ {p} /\ company' = company \ {p}
    /\ IF p \in company THEN Lost(table)
       ELSE \E n \in Rooms :
                /\ IsUsed(table, n)
                /\ table' = [l \in Slots |->
                                IF n = 0 \/ l > n THEN Zero ELSE table[l]]
    /\ room' = [room EXCEPT ![p] = 0]

Crash(p) ==
    /\ p \in users /\ users' = users \ {p} /\ company' = company \ {p}
    /\ room' = [room EXCEPT ![p] = 0] /\ UNCHANGED table

\* Anything a process in company does.
Disturb(p) ==
    /\ p \in company
    /\ \/ Lost(table)
       \/ \E l \in Slots, e \in Entries : Lost([table EXCEPT ![l] = e])
    /\ \/ UNCHANGED room
       \/ \E n \in Rooms : room' = [room EXCEPT ![p] = n]
    /\ UNCHANGED <<users, company>>

TableNext ==
    \E p \in Procs :
        \/ \E n \in Rooms : Enter(p, n)
        \/ \E l \in Slots, e \in Entries : Put(p, l, e) \/ Overrun(p, l, e)
        \/ Repair(p) \/ Leave(p) \/ Crash(p) \/ Disturb(p)

TableSpec == TableInit /\ [][TableNext]_tableVars
=============================================================================
