-------------------------------- MODULE Managers --------------------------------
(***************************************************************************)
(* The managers of the daemon and their configuration: the start of the    *)
(* process, the requests of the dashboard that create, initialise, update  *)
(* and delete managers or change the daemon's own options, the file the    *)
(* configuration is saved to, and a crash with the restart after it.       *)
(*                                                                         *)
(* Requests run at the same time, and while the managers are started.      *)
(* They share configurationMu for the configuration in memory, but not     *)
(* every save holds it.  A save truncates the file, writes it and then     *)
(* publishes an event to all managers, those without a message queue       *)
(* client included: that ends the process.                                 *)
(***************************************************************************)
EXTENDS Integers, Sequences, FiniteSets

CONSTANTS
    Identifiers,  \* of managers
    Requests,     \* each is made at most once
    Initial,      \* the identifiers configured at first, in order
    None,
    MaxFailures   \* bound: failures of the gateway request or the connection

ASSUME ConstantsAssumption ==
    /\ Initial \in Seq(Identifiers) /\ MaxFailures \in Nat
    /\ None \notin Requests \union Identifiers \union Nat

VARIABLES
    up,          \* whether the process runs
    file,        \* the configuration file
    memory,      \* Sandwich.Configuration
    managers,    \* Sandwich.Managers: the index of each manager's object
    objects,     \* all managers made since the start of the process
    boot,        \* the calls of startManagers, innermost first: what each has left
    fresh,       \* the manager the innermost call is initialising
    mu,          \* configurationMu: who writes and who reads
    pc,          \* where each request stands
    what,        \* what each request is
    mine,        \* for each request, the object it loaded
    copy,        \* for each request, the configuration it is to save
    failures,    \* number of failures so far
    accepted,    \* history: the identifiers written to the file and not deleted
    contended,   \* history: the identifiers two requests, or one and the start, had
    overlapped,  \* history: whether a save began while another was under way
    torn,        \* history: whether the process ended during another save
    failed       \* history: whether an initialisation failed

process == <<managers, objects, boot, fresh>>
request == <<pc, what, mine, copy>>
past == <<accepted, contended, overlapped, torn, failed>>
vars == <<up, file, memory, process, mu, request, failures, past>>

\* Who wrote an entry or the options last; the file's first writer is None.
Entry(id, by) == [id |-> id, by |-> by]
Ids(list) == {list[i].id : i \in 1..Len(list)}
Free == [writer |-> None, readers |-> {}]

NewManager(entry) == [config |-> entry, producer |-> "none", open |-> FALSE]

Goto(r, l) == pc' = [pc EXCEPT ![r] = l]
Is(r, op) == what[r].op = op

Init ==
    /\ up = TRUE
    /\ file = [options |-> None,
               managers |-> [i \in 1..Len(Initial) |-> Entry(Initial[i], None)]]
    /\ memory = file
    /\ managers = [id \in Identifiers |-> None]
    /\ objects = <<>>
    /\ boot = <<memory.managers>>
    /\ fresh = None
    /\ mu = Free
    /\ pc = [r \in Requests |-> "idle"]
    /\ what = [r \in Requests |-> None]
    /\ mine = [r \in Requests |-> None]
    /\ copy = [r \in Requests |-> None]
    /\ failures = 0
    /\ accepted = Ids(memory.managers) /\ contended = {}
    /\ overlapped = FALSE /\ torn = FALSE /\ failed = FALSE

-----------------------------------------------------------------------------
(* The start of the managers *)

\* A new object takes the place of the one before, if any: that is warned of only.
StartNext ==
    /\ up /\ boot # <<>> /\ fresh = None
    /\ IF Head(boot) = <<>>
         THEN boot' = Tail(boot) /\ UNCHANGED <<managers, objects, fresh>>
         ELSE LET entry == Head(Head(boot))
              IN /\ objects' = Append(objects, NewManager(entry))
                 /\ fresh' = Len(objects')
                 /\ managers' = [managers EXCEPT ![entry.id] = fresh']
                 /\ boot' = <<Tail(Head(boot))>> \o Tail(boot)
    /\ UNCHANGED <<up, file, memory, mu, request, failures, past>>

\* Initialised, and opened: the configuration starts managers automatically.
StartDone ==
    /\ up /\ fresh # None
    /\ objects' = [objects EXCEPT ![fresh].producer = "open", ![fresh].open = TRUE]
    /\ fresh' = None
    /\ UNCHANGED <<up, file, memory, managers, boot, mu, request, failures, past>>

\* A failure starts all managers again, before the rest of this call.
StartFails ==
    /\ up /\ fresh # None /\ failures < MaxFailures
    /\ failures' = failures + 1 /\ failed' = TRUE
    /\ boot' = <<memory.managers>> \o boot
    /\ fresh' = None
    /\ UNCHANGED <<up, file, memory, managers, objects, mu, request,
                   accepted, contended, overlapped, torn>>

-----------------------------------------------------------------------------
(* Requests *)

Operations ==
    [op : {"create", "delete"}, id : Identifiers, force : {FALSE}]
    \union [op : {"update", "initialize"}, id : Identifiers, force : BOOLEAN]
    \union [op : {"options"}, id : {None}, force : {FALSE}]

Active(r) == pc[r] \notin {"idle", "answered", "lost"}

\* Mutant: the endpoint does not look for a manager of the identifier.
BeginAnyway(r, operation) ==
    LET id == operation.id
    IN /\ up /\ pc[r] = "idle" /\ operation.op = "create"
       /\ what' = [what EXCEPT ![r] = operation]
       /\ Goto(r, "make")
       /\ contended' = IF boot # <<>> \/ \E q \in Requests : Active(q) /\ what[q].id = id
                       THEN contended \union {id} ELSE contended
       /\ UNCHANGED <<up, file, memory, process, mu, mine, copy, failures,
                      accepted, overlapped, torn, failed>>

\* What a request of manager id finds decides its first step.
Begin(r, operation) ==
    LET id == operation.id
        found == id # None /\ managers[id] # None
    IN
    /\ up /\ pc[r] = "idle"
    /\ what' = [what EXCEPT ![r] = operation]
    /\ mine' = [mine EXCEPT ![r] = IF found THEN managers[id] ELSE None]
    /\ Goto(r, CASE operation.op = "options" -> "swap"
                 [] operation.op = "create" -> IF found THEN "answered" ELSE "make"
                 [] ~found /\ operation.op \in {"update", "initialize", "delete"} -> "answered"
                 [] found /\ operation.op = "update" -> "configure"
                 [] found /\ operation.op = "initialize" -> "initialize"
                 [] found /\ operation.op = "delete" -> "close")
    /\ contended' = IF boot # <<>> \/ \E q \in Requests : Active(q) /\ what[q].id = id
                    THEN contended \union {id} ELSE contended
    /\ UNCHANGED <<up, file, memory, process, mu, copy, failures,
                   accepted, overlapped, torn, failed>>

\* ManagerCreateEndpoint: the check and the store are two operations.
Make(r) ==
    /\ up /\ pc[r] = "make"
    /\ objects' = Append(objects, NewManager(Entry(what[r].id, r)))
    /\ managers' = [managers EXCEPT ![what[r].id] = Len(objects')]
    /\ Goto(r, "append")
    /\ UNCHANGED <<up, file, memory, boot, fresh, mu, what, mine, copy, failures, past>>

\* Mutant: a writer does not wait for the readers.
NoWriter == mu.writer = None

Unlocked == mu = Free

\* The configuration is changed under the lock, which is given up before the
\* read lock is taken to save it.
AppendEntry(r) ==
    /\ up /\ pc[r] = "append" /\ Unlocked
    /\ memory' = [memory EXCEPT !.managers = Append(@, Entry(what[r].id, r))]
    /\ Goto(r, "rlock")
    /\ UNCHANGED <<up, file, process, mu, what, mine, copy, failures, past>>

ReadLock(r) ==
    /\ up /\ pc[r] = "rlock" /\ mu.writer = None
    /\ mu' = [mu EXCEPT !.readers = @ \union {r}]
    /\ copy' = [copy EXCEPT ![r] = memory]
    /\ Goto(r, "truncate")
    /\ UNCHANGED <<up, file, memory, process, what, mine, failures, past>>

\* Mutant: the managers are not carried over to the new configuration.
SwapAll(r) ==
    /\ up /\ pc[r] = "swap" /\ Unlocked
    /\ memory' = [options |-> r, managers |-> <<>>]
    /\ copy' = [copy EXCEPT ![r] = memory']
    /\ Goto(r, "truncate")
    /\ UNCHANGED <<up, file, process, mu, what, mine, failures, past>>

\* SandwichUpdateEndpoint saves its copy without the lock.
Swap(r) ==
    /\ up /\ pc[r] = "swap" /\ Unlocked
    /\ memory' = [memory EXCEPT !.options = r]
    /\ copy' = [copy EXCEPT ![r] = memory']
    /\ Goto(r, "truncate")
    /\ UNCHANGED <<up, file, process, mu, what, mine, failures, past>>

\* ManagerUpdateEndpoint changes the manager before it is initialised.
Configure(r) ==
    /\ up /\ pc[r] = "configure"
    /\ objects' = [objects EXCEPT ![mine[r]].config = Entry(what[r].id, r)]
    /\ Goto(r, "initialize")
    /\ UNCHANGED <<up, file, memory, managers, boot, fresh, mu, what, mine, copy, failures, past>>

\* Initialize: GetGateway may fail; a producer that is not open, or is to be
\* restarted, is closed first.
Initialize(r) ==
    /\ up /\ pc[r] = "initialize"
    /\ LET producer == objects[mine[r]].producer
           restart == what[r].force \/ producer # "open"
       IN IF restart
            THEN /\ objects' = [objects EXCEPT ![mine[r]].producer =
                                   IF producer = "none" THEN "none" ELSE "closed"]
                 /\ Goto(r, "connect")
            ELSE /\ Goto(r, IF Is(r, "update") THEN "lock" ELSE "answered")
                 /\ UNCHANGED objects
    /\ UNCHANGED <<up, file, memory, managers, boot, fresh, mu, what, mine, copy, failures, past>>

Connect(r) ==
    /\ up /\ pc[r] = "connect"
    /\ objects' = [objects EXCEPT ![mine[r]].producer = "open"]
    /\ Goto(r, IF Is(r, "update") THEN "lock" ELSE "answered")
    /\ UNCHANGED <<up, file, memory, managers, boot, fresh, mu, what, mine, copy, failures, past>>

\* The gateway request or the connection fails: the producer stays as it is.
FailInitialize(r) ==
    /\ up /\ pc[r] \in {"initialize", "connect"} /\ failures < MaxFailures
    /\ failures' = failures + 1 /\ failed' = TRUE
    /\ Goto(r, "answered")
    /\ UNCHANGED <<up, file, memory, process, mu, what, mine, copy,
                   accepted, contended, overlapped, torn>>

\* ManagerDeleteEndpoint: the manager is closed, and taken out of the map.
CloseManager(r) ==
    /\ up /\ pc[r] = "close"
    /\ objects' = [objects EXCEPT ![mine[r]].open = FALSE]
    /\ managers' = [managers EXCEPT ![what[r].id] = None]
    /\ accepted' = accepted \ {what[r].id}
    /\ Goto(r, "lock")
    /\ UNCHANGED <<up, file, memory, boot, fresh, mu, what, mine, copy, failures,
                   contended, overlapped, torn, failed>>

\* Mutant: the old entry is kept.
WithoutNone(list, id) == list

\* The entries of other identifiers, in their order.
Without(list, id) ==
    LET kept == {i \in 1..Len(list) : list[i].id # id}
        place(i) == Cardinality({j \in kept : j <= i})
    IN  [n \in 1..Cardinality(kept) |-> list[CHOOSE i \in kept : place(i) = n]]

\* Mutant: the configuration is saved as it was before the change.
LockSavesOld(r) ==
    /\ up /\ pc[r] = "lock" /\ Unlocked
    /\ mu' = [mu EXCEPT !.writer = r]
    /\ memory' = [memory EXCEPT !.managers = Without(@, what[r].id)]
    /\ copy' = [copy EXCEPT ![r] = memory]
    /\ Goto(r, "truncate")
    /\ UNCHANGED <<up, file, process, what, mine, failures, past>>

\* An update or a delete holds the lock until it is answered.
Lock(r) ==
    /\ up /\ pc[r] = "lock" /\ Unlocked
    /\ mu' = [mu EXCEPT !.writer = r]
    /\ LET others == Without(memory.managers, what[r].id)
       IN memory' = [memory EXCEPT !.managers =
             IF Is(r, "update") THEN Append(others, Entry(what[r].id, r)) ELSE others]
    /\ copy' = [copy EXCEPT ![r] = memory']
    /\ Goto(r, "truncate")
    /\ UNCHANGED <<up, file, process, what, mine, failures, past>>

-----------------------------------------------------------------------------
(* SaveConfiguration *)

Saving(q) == pc[q] \in {"truncate", "write"}

\* An empty file is read as a configuration without managers.
Truncate(r) ==
    /\ up /\ pc[r] = "truncate"
    /\ file' = [options |-> None, managers |-> <<>>]
    /\ overlapped' = (overlapped \/ \E q \in Requests \ {r} : Saving(q) /\ copy[q] # copy[r])
    /\ Goto(r, "write")
    /\ UNCHANGED <<up, memory, process, mu, what, mine, copy, failures,
                   accepted, contended, torn, failed>>

Write(r) ==
    /\ up /\ pc[r] = "write"
    /\ file' = copy[r]
    /\ accepted' = IF Is(r, "create") THEN accepted \union {what[r].id} ELSE accepted
    /\ Goto(r, "publish")
    /\ UNCHANGED <<up, memory, process, mu, what, mine, copy, failures,
                   contended, overlapped, torn, failed>>

\* The managers whose message queue client can be published to.
Publishable == \A id \in {i \in Identifiers : managers[i] # None} :
    objects[managers[id]].producer = "open"

\* Mutants: one of the deferred unlocks is missing.
UnlockReaders(r) == [mu EXCEPT !.readers = @ \ {r}]
UnlockWriter(r) == [mu EXCEPT !.writer = IF @ = r THEN None ELSE @]
Unlock(r) == [writer |-> IF mu.writer = r THEN None ELSE mu.writer,
              readers |-> mu.readers \ {r}]

\* PublishGlobalEvent reaches every manager, and the request is answered.
Publish(r) ==
    /\ up /\ pc[r] = "publish" /\ Publishable
    /\ mu' = Unlock(r)
    /\ copy' = [copy EXCEPT ![r] = None]
    /\ Goto(r, "answered")
    /\ UNCHANGED <<up, file, memory, process, what, mine, failures, past>>

\* It calls a client that is nil, or whose connection is: nothing recovers.
Crash(r) ==
    /\ up /\ pc[r] = "publish" /\ ~Publishable
    /\ up' = FALSE
    /\ pc' = [q \in Requests |-> IF Active(q) THEN "lost" ELSE pc[q]]
    /\ torn' = (torn \/ \E q \in Requests : pc[q] = "write")
    /\ UNCHANGED <<file, memory, process, mu, what, mine, copy, failures,
                   accepted, contended, overlapped, failed>>

\* NewSandwich and Open
Restart ==
    /\ ~up
    /\ up' = TRUE
    /\ memory' = file
    /\ managers' = [id \in Identifiers |-> None]
    /\ objects' = <<>> /\ fresh' = None
    /\ boot' = <<file.managers>>
    /\ mu' = Free
    /\ mine' = [r \in Requests |-> None]
    /\ copy' = [r \in Requests |-> None]
    /\ UNCHANGED <<file, pc, what, failures, past>>

-----------------------------------------------------------------------------
Start == StartNext \/ StartDone \/ StartFails

Step(r) ==
    \/ Make(r) \/ AppendEntry(r) \/ ReadLock(r) \/ Swap(r)
    \/ Configure(r) \/ Initialize(r) \/ Connect(r) \/ FailInitialize(r)
    \/ CloseManager(r) \/ Lock(r)
    \/ Truncate(r) \/ Write(r) \/ Publish(r) \/ Crash(r)

Next ==
    \/ Start \/ Restart
    \/ \E r \in Requests : Step(r) \/ \E operation \in Operations : Begin(r, operation)

Spec == Init /\ [][Next]_vars

\* Goroutines run; a waiting writer or reader gets the lock in its turn.
Fairness ==
    /\ WF_vars(Start) /\ WF_vars(Restart)
    /\ \A r \in Requests : WF_vars(Step(r)) /\ SF_vars(Lock(r) \/ AppendEntry(r) \/ Swap(r))

FairSpec == Spec /\ Fairness
-----------------------------------------------------------------------------
(* Properties *)

Entries == [id : Identifiers, by : Requests \union {None}]
Configurations == [options : Requests \union {None}, managers : Seq(Entries)]
Objects == [config : Entries, producer : {"none", "open", "closed"}, open : BOOLEAN]

\* The map names objects there are, and configurationMu is held by those who are
\* between taking it and their answer.
TypeOK ==
    /\ file \in Configurations /\ memory \in Configurations
    /\ objects \in Seq(Objects) /\ boot \in Seq(Seq(Entries))
    /\ managers \in [Identifiers -> 1..Len(objects) \union {None}]
    /\ fresh \in 1..Len(objects) \union {None}
    /\ fresh # None => boot # <<>>
    /\ \A r \in Requests :
         LET held == up /\ pc[r] \in {"truncate", "write", "publish"}
         IN /\ up => (mu.writer = r <=> held /\ what[r].op \in {"update", "delete"})
            /\ up => (r \in mu.readers <=> held /\ Is(r, "create"))
            /\ held => copy[r] \in Configurations
    /\ mu.writer # None => mu.readers = {}

AtRest == up /\ boot = <<>> /\ \A r \in Requests : ~Active(r)

\* A manager that was created and written to the file is configured until it is
\* deleted, through every crash and restart.  Excepted are managers two requests
\* were about at once, and the file after saves that overlapped or a crash in
\* the middle of another save, which finds it truncated.
AcceptedIsKept ==
    up /\ ~overlapped /\ ~torn => accepted \ contended \subseteq Ids(memory.managers)

\* When nothing is under way the file is the configuration in memory, unless the
\* save of new options overlapped with another.
FileIsMemory == AtRest /\ ~overlapped => file = memory

\* Different configurations are only ever saved at once when one of the saves is
\* of new options: the other requests hold configurationMu until they have saved,
\* so what they save is what is in memory.
OnlyOptionsOverlap ==
    overlapped => \E r \in Requests : pc[r] # "idle" /\ Is(r, "options")

\* When nothing is under way the managers are those configured, each of them once
\* and with the configuration its object has, whatever was created, updated and
\* deleted around it.  An update that failed leaves the object changed alone.
ManagersAreConfigured ==
    AtRest => \A id \in Identifiers \ contended :
        /\ managers[id] # None <=> id \in Ids(memory.managers)
        /\ \A i, j \in 1..Len(memory.managers) :
              memory.managers[i].id = id /\ memory.managers[j].id = id => i = j
        /\ managers[id] # None /\ ~failed =>
              \E i \in 1..Len(memory.managers) : memory.managers[i] = objects[managers[id]].config

\* No manager's bot is started by two objects, unless a start failed: the retry
\* then starts those before it again.
OpenedOnce ==
    up /\ ~failed => \A i, j \in 1..Len(objects) :
        /\ objects[i].open /\ objects[j].open
        /\ objects[i].config.id = objects[j].config.id
        /\ objects[i].config.id \notin contended
        => i = j

\* A request is answered in the end, or the process ends before: nobody keeps the
\* lock another waits for.
RequestsEnd == \A r \in Requests : Active(r) ~> ~Active(r)
=============================================================================
