----------------------------- MODULE ManagersProofs -----------------------------
(***************************************************************************)
(* The configuration file is the configuration in memory once every save   *)
(* is through, for any number of requests, unless two saves overlapped;    *)
(* and two that differ only overlap when one of them is of new options.    *)
(*                                                                         *)
(* Saves do not all hold configurationMu, so the first is not about the    *)
(* lock but about who is still going to save what is in memory.  Whenever  *)
(* the file is not the memory somebody is (FileOK); and whoever saves      *)
(* something older has somebody to save after it, who has not truncated    *)
(* the file yet (SavesOK): if that one truncates first, the two overlap.   *)
(*                                                                         *)
(* The second part is about what the map of managers names and who holds   *)
(* the lock (TInv).  The third begins with that.  It is about the managers *)
(* through requests, failures, crashes and restarts: one that was written  *)
(* to the file stays configured, the managers of a process at rest are     *)
(* those configured, and no manager is opened twice.                       *)
(*                                                                         *)
(* All three speak of managers one request at a time was about: when two   *)
(* are, or one while the managers are started, the identifier is recorded  *)
(* (Apart), and the requests that are left stand alone with their manager. *)
(***************************************************************************)
EXTENDS Managers, FiniteSetTheorems, SequenceTheorems, TLAPS

Shape ==
    /\ pc = [r \in Requests |-> pc[r]]
    /\ copy = [r \in Requests |-> copy[r]]

\* r has yet to truncate the file, and will then write what is in memory.
ToSave(r) == pc[r] = "rlock" \/ (pc[r] = "truncate" /\ copy[r] = memory)

SavesOK ==
    ~overlapped => \A q \in Requests : Saving(q) =>
        copy[q] = memory \/ \E r \in Requests \ {q} : ToSave(r)

FileOK ==
    up /\ ~overlapped =>
        \/ file = memory
        \/ \E r \in Requests : ToSave(r) \/ (pc[r] = "write" /\ copy[r] = memory)

NobodyLeft == ~up => \A r \in Requests : ~Active(r)

IInv == Shape /\ SavesOK /\ FileOK /\ NobodyLeft

-----------------------------------------------------------------------------
LEMMA InitIInv == Init => IInv
  BY DEF Init, IInv, Shape, SavesOK, FileOK, NobodyLeft, Saving, Active

\* A step of r to l that leaves the saves alone, and begins and ends none.
Elsewhere(r, l) ==
    /\ UNCHANGED <<up, file, memory, copy, overlapped>>
    /\ pc[r] \notin {"rlock", "truncate", "write"}
    /\ pc' = [pc EXCEPT ![r] = l] /\ l \notin {"rlock", "truncate", "write"}

LEMMA ElsewhereStep ==
    ASSUME IInv, NEW r \in Requests, NEW l, up, Elsewhere(r, l)
    PROVE  IInv'
  <1>1. pc' = [pc EXCEPT ![r] = l] /\ l \notin {"rlock", "truncate", "write"}
    BY DEF Elsewhere
  <1>2. UNCHANGED <<up, file, memory, copy, overlapped>> /\ pc[r] \notin {"rlock", "truncate", "write"}
    BY DEF Elsewhere
  <1>3. \A q \in Requests : q # r => pc'[q] = pc[q]
    BY <1>1 DEF IInv, Shape
  <1>4. pc'[r] = l
    BY <1>1 DEF IInv, Shape
  <1>5. \A q \in Requests : (Saving(q)' <=> Saving(q)) /\ (ToSave(q)' <=> ToSave(q))
    BY <1>1, <1>2, <1>3, <1>4 DEF Saving, ToSave
  <1>6. \A q \in Requests : pc'[q] = "write" <=> pc[q] = "write"
    BY <1>1, <1>2, <1>3, <1>4
  <1>7. Shape'
    BY <1>1, <1>2 DEF IInv, Shape
  <1>8. SavesOK'
    BY <1>2, <1>5 DEF IInv, SavesOK
  <1>9. FileOK'
    BY <1>2, <1>5, <1>6 DEF IInv, FileOK
  <1> QED BY <1>2, <1>7, <1>8, <1>9 DEF IInv, NobodyLeft

LEMMA QuietSteps ==
    ASSUME IInv, NEW r \in Requests, NEW operation \in Operations,
           \/ Begin(r, operation) \/ Make(r) \/ Configure(r) \/ Initialize(r)
           \/ Connect(r) \/ FailInitialize(r) \/ CloseManager(r)
    PROVE  IInv'
  <1>1. CASE Begin(r, operation)
    <2> DEFINE found == operation.id # None /\ managers[operation.id] # None
               l == CASE operation.op = "options" -> "swap"
                      [] operation.op = "create" -> IF found THEN "answered" ELSE "make"
                      [] ~found /\ operation.op \in {"update", "initialize", "delete"} -> "answered"
                      [] found /\ operation.op = "update" -> "configure"
                      [] found /\ operation.op = "initialize" -> "initialize"
                      [] found /\ operation.op = "delete" -> "close"
    <2>1. operation.op \in {"create", "delete", "update", "initialize", "options"}
      BY DEF Operations
    <2>2. l \notin {"rlock", "truncate", "write"}
      BY <2>1
    <2>3. pc' = [pc EXCEPT ![r] = l] /\ pc[r] = "idle" /\ up
      BY <1>1 DEF Begin, Goto
    <2>4. UNCHANGED <<up, file, memory, copy, overlapped>>
      BY <1>1 DEF Begin
    <2> HIDE DEF l
    <2>5. Elsewhere(r, l)
      BY <2>2, <2>3, <2>4 DEF Elsewhere
    <2> QED BY <2>3, <2>5, ElsewhereStep
  <1>2. CASE Make(r)
    <2>1. up /\ UNCHANGED <<up, file, memory, copy, overlapped>> /\ pc[r] = "make"
      BY <1>2 DEF Make, past
    <2>2. pc' = [pc EXCEPT ![r] = "append"]
      BY <1>2 DEF Make, Goto
    <2>3. Elsewhere(r, "append")
      BY <2>1, <2>2 DEF Elsewhere
    <2> QED BY <2>1, <2>3, ElsewhereStep
  <1>3. CASE Configure(r)
    <2>1. up /\ UNCHANGED <<up, file, memory, copy, overlapped>> /\ pc[r] = "configure"
      BY <1>3 DEF Configure, past
    <2>2. pc' = [pc EXCEPT ![r] = "initialize"]
      BY <1>3 DEF Configure, Goto
    <2>3. Elsewhere(r, "initialize")
      BY <2>1, <2>2 DEF Elsewhere
    <2> QED BY <2>1, <2>3, ElsewhereStep
  <1>4. CASE Initialize(r) \/ Connect(r)
    <2>1. up /\ UNCHANGED <<up, file, memory, copy, overlapped>> /\ pc[r] \in {"initialize", "connect"}
      BY <1>4 DEF Initialize, Connect, past
    <2>2. PICK l \in {"connect", "lock", "answered"} : pc' = [pc EXCEPT ![r] = l]
      BY <1>4 DEF Initialize, Connect, Goto
    <2>3. Elsewhere(r, l)
      BY <2>1, <2>2 DEF Elsewhere
    <2> QED BY <2>1, <2>3, ElsewhereStep
  <1>5. CASE FailInitialize(r)
    <2>1. up /\ UNCHANGED <<up, file, memory, copy, overlapped>> /\ pc[r] \in {"initialize", "connect"}
      BY <1>5 DEF FailInitialize
    <2>2. pc' = [pc EXCEPT ![r] = "answered"]
      BY <1>5 DEF FailInitialize, Goto
    <2>3. Elsewhere(r, "answered")
      BY <2>1, <2>2 DEF Elsewhere
    <2> QED BY <2>1, <2>3, ElsewhereStep
  <1>6. CASE CloseManager(r)
    <2>1. up /\ UNCHANGED <<up, file, memory, copy, overlapped>> /\ pc[r] = "close"
      BY <1>6 DEF CloseManager
    <2>2. pc' = [pc EXCEPT ![r] = "lock"]
      BY <1>6 DEF CloseManager, Goto
    <2>3. Elsewhere(r, "lock")
      BY <2>1, <2>2 DEF Elsewhere
    <2> QED BY <2>1, <2>3, ElsewhereStep
  <1> QED BY <1>1, <1>2, <1>3, <1>4, <1>5, <1>6

\* Whoever changes the configuration in memory is then going to save it.
LEMMA ChangeSteps ==
    ASSUME IInv, NEW r \in Requests, AppendEntry(r) \/ Swap(r) \/ Lock(r)
    PROVE  IInv'
  <1>1. /\ up /\ UNCHANGED <<up, file, overlapped>>
        /\ pc[r] \in {"append", "swap", "lock"}
        /\ \A q \in Requests : q # r => pc'[q] = pc[q] /\ copy'[q] = copy[q]
    BY DEF AppendEntry, Swap, Lock, Goto, past, IInv, Shape
  <1>2. Shape'
    BY DEF AppendEntry, Swap, Lock, Goto, IInv, Shape
  <1>3. pc'[r] = "rlock" \/ (pc'[r] = "truncate" /\ copy'[r] = memory')
    BY DEF AppendEntry, Swap, Lock, Goto, IInv, Shape
  <1>4. ToSave(r)'
    BY <1>3 DEF ToSave
  <1>5. SavesOK'
    BY <1>3, <1>4 DEF SavesOK, Saving
  <1>6. FileOK'
    BY <1>4 DEF FileOK
  <1> QED BY <1>1, <1>2, <1>5, <1>6 DEF IInv, NobodyLeft

LEMMA ReadLockStep ==
    ASSUME IInv, NEW r \in Requests, ReadLock(r)
    PROVE  IInv'
  <1>1. /\ up /\ UNCHANGED <<up, file, memory, overlapped>>
        /\ pc' = [pc EXCEPT ![r] = "truncate"] /\ copy' = [copy EXCEPT ![r] = memory]
    BY DEF ReadLock, Goto, past
  <1>2. pc'[r] = "truncate" /\ copy'[r] = memory
    BY <1>1 DEF IInv, Shape
  <1>3. \A q \in Requests : q # r => pc'[q] = pc[q] /\ copy'[q] = copy[q]
    BY <1>1 DEF IInv, Shape
  <1>4. \A q \in Requests : ToSave(q) => ToSave(q)'
    BY <1>1, <1>2, <1>3 DEF ToSave
  <1>5. SavesOK'
    BY <1>1, <1>2, <1>3, <1>4 DEF IInv, SavesOK, Saving
  <1>6. FileOK'
    BY <1>1, <1>2 DEF FileOK, ToSave
  <1> QED BY <1>1, <1>5, <1>6 DEF IInv, Shape, NobodyLeft

LEMMA TruncateStep ==
    ASSUME IInv, NEW r \in Requests, Truncate(r)
    PROVE  IInv'
  <1>1. /\ up /\ UNCHANGED <<up, memory, copy>> /\ pc[r] = "truncate"
        /\ pc' = [pc EXCEPT ![r] = "write"]
        /\ overlapped' = (overlapped \/ \E q \in Requests \ {r} : Saving(q) /\ copy[q] # copy[r])
    BY DEF Truncate, Goto
  <1>2. pc'[r] = "write" /\ \A q \in Requests : q # r => pc'[q] = pc[q]
    BY <1>1 DEF IInv, Shape
  <1> SUFFICES ASSUME ~overlapped' PROVE SavesOK' /\ FileOK'
    BY <1>1 DEF IInv, Shape, NobodyLeft, SavesOK, FileOK
  <1>3. ~overlapped /\ \A q \in Requests : q # r /\ Saving(q) => copy[q] = copy[r]
    BY <1>1
  <1>4. \A q \in Requests : Saving(q)' <=> Saving(q)
    BY <1>1, <1>2 DEF Saving
  <1>5. \A q \in Requests : q # r => (ToSave(q)' <=> ToSave(q))
    BY <1>1, <1>2 DEF ToSave
  <1>6. Saving(r)
    BY <1>1 DEF Saving
  <1>7. CASE copy[r] = memory
    <2>1. \A q \in Requests : Saving(q) => copy[q] = memory
      BY <1>3, <1>7
    <2> QED BY <1>1, <1>2, <1>4, <1>7, <2>1 DEF SavesOK, FileOK
  <1>8. CASE copy[r] # memory
    <2>1. PICK w \in Requests \ {r} : ToSave(w)
      BY <1>3, <1>6, <1>8 DEF IInv, SavesOK
    <2>2. pc[w] = "rlock"
      BY <1>3, <1>8, <2>1 DEF ToSave, Saving
    <2>3. ToSave(w)' /\ ~Saving(w)'
      BY <1>5, <1>4, <2>1, <2>2 DEF Saving
    <2> QED BY <2>1, <2>3 DEF SavesOK, FileOK
  <1> QED BY <1>7, <1>8

LEMMA WriteStep ==
    ASSUME IInv, NEW r \in Requests, Write(r)
    PROVE  IInv'
  <1>1. /\ up /\ UNCHANGED <<up, memory, copy, overlapped>> /\ pc[r] = "write"
        /\ pc' = [pc EXCEPT ![r] = "publish"] /\ file' = copy[r]
    BY DEF Write, Goto
  <1>2. pc'[r] = "publish" /\ \A q \in Requests : q # r => pc'[q] = pc[q]
    BY <1>1 DEF IInv, Shape
  <1>3. \A q \in Requests : (Saving(q)' => Saving(q)) /\ (ToSave(q) => ToSave(q)')
    BY <1>1, <1>2 DEF Saving, ToSave
  <1>4. SavesOK'
    BY <1>1, <1>3 DEF IInv, SavesOK
  <1>5. FileOK'
    <2>1. ~overlapped => copy[r] = memory \/ \E w \in Requests \ {r} : ToSave(w)
      BY <1>1 DEF IInv, SavesOK, Saving
    <2> QED BY <1>1, <1>3, <2>1 DEF FileOK
  <1> QED BY <1>1, <1>4, <1>5 DEF IInv, Shape, NobodyLeft

LEMMA PublishStep ==
    ASSUME IInv, NEW r \in Requests, Publish(r)
    PROVE  IInv'
  <1>1. /\ up /\ UNCHANGED <<up, file, memory, overlapped>> /\ pc[r] = "publish"
        /\ pc' = [pc EXCEPT ![r] = "answered"] /\ copy' = [copy EXCEPT ![r] = None]
    BY DEF Publish, Goto, past
  <1>2. pc'[r] = "answered"
    BY <1>1 DEF IInv, Shape
  <1>3. \A q \in Requests : q # r => pc'[q] = pc[q] /\ copy'[q] = copy[q]
    BY <1>1 DEF IInv, Shape
  <1>4. \A q \in Requests : (Saving(q)' <=> Saving(q)) /\ (ToSave(q)' <=> ToSave(q))
    BY <1>1, <1>2, <1>3 DEF Saving, ToSave
  <1>5. SavesOK'
    BY <1>1, <1>2, <1>3, <1>4 DEF IInv, SavesOK, Saving
  <1>6. FileOK'
    BY <1>1, <1>2, <1>3, <1>4 DEF IInv, FileOK
  <1> QED BY <1>1, <1>5, <1>6 DEF IInv, Shape, NobodyLeft

LEMMA CrashSteps ==
    ASSUME IInv, (\E r \in Requests : Crash(r)) \/ Restart
    PROVE  IInv'
  <1>1. CASE \E r \in Requests : Crash(r)
    <2>1. /\ ~up' /\ pc' = [q \in Requests |-> IF Active(q) THEN "lost" ELSE pc[q]]
          /\ UNCHANGED copy
      BY <1>1 DEF Crash
    <2>2. \A q \in Requests : ~Active(q)' /\ ~Saving(q)'
      BY <2>1 DEF Active, Saving
    <2> QED BY <2>1, <2>2 DEF IInv, Shape, SavesOK, FileOK, NobodyLeft
  <1>2. CASE Restart
    <2>1. /\ ~up /\ up' /\ memory' = file /\ UNCHANGED <<file, pc>>
          /\ copy' = [r \in Requests |-> None]
      BY <1>2 DEF Restart
    <2>2. \A q \in Requests : ~Saving(q)'
      BY <2>1 DEF IInv, NobodyLeft, Active, Saving
    <2> QED BY <2>1, <2>2 DEF IInv, Shape, SavesOK, FileOK, NobodyLeft
  <1> QED BY <1>1, <1>2

LEMMA NextIInv == IInv /\ [Next]_vars => IInv'
  <1> SUFFICES ASSUME IInv, [Next]_vars PROVE IInv'
    OBVIOUS
  <1>1. ASSUME UNCHANGED <<up, file, memory, pc, copy, overlapped>> PROVE IInv'
    BY <1>1 DEF IInv, Shape, SavesOK, FileOK, NobodyLeft, Saving, ToSave, Active
  <1>2. CASE Start
    <2>1. UNCHANGED <<up, file, memory, pc, copy, overlapped>>
      BY <1>2 DEF Start, StartNext, StartDone, StartFails, request, past
    <2> QED BY <1>1, <2>1
  <1>3. CASE Restart
    BY <1>3, CrashSteps
  <1>4. ASSUME NEW r \in Requests, Step(r) PROVE IInv'
    <2>1. [op |-> "options", id |-> None, force |-> FALSE] \in Operations
      BY DEF Operations
    <2>2. CASE \/ Make(r) \/ Configure(r) \/ Initialize(r) \/ Connect(r)
               \/ FailInitialize(r) \/ CloseManager(r)
      BY <2>1, <2>2, QuietSteps
    <2> QED BY <1>4, <2>2, ChangeSteps, ReadLockStep, TruncateStep, WriteStep, PublishStep,
               CrashSteps DEF Step
  <1>5. ASSUME NEW r \in Requests, NEW operation \in Operations, Begin(r, operation) PROVE IInv'
    BY <1>5, QuietSteps
  <1>6. CASE UNCHANGED vars
    BY <1>1, <1>6 DEF vars, request, past
  <1> QED BY <1>2, <1>3, <1>4, <1>5, <1>6 DEF Next

-----------------------------------------------------------------------------
\* When nothing is under way the file is the configuration in memory, after any
\* requests, failures and crashes, unless two saves of it overlapped.
THEOREM FileIsSaved == Spec => []FileIsMemory
  <1>1. Init => IInv
    BY InitIInv
  <1>2. IInv => FileIsMemory
    BY DEF IInv, FileOK, FileIsMemory, AtRest, Active, ToSave
  <1> QED BY <1>1, <1>2, NextIInv, PTL DEF Spec
-----------------------------------------------------------------------------
(***************************************************************************)
(* Which saves overlap: those who have a part in configurationMu save what *)
(* is in memory, which nobody changes until the lock is free.              *)
(***************************************************************************)
OfOptions(r) == pc[r] # "idle" /\ Is(r, "options")

Saved(r) == pc[r] \in {"truncate", "write", "publish"}

Holds(r) == mu.writer = r \/ r \in mu.readers

LockShape ==
    /\ what = [r \in Requests |-> what[r]]
    /\ mu = [writer |-> mu.writer, readers |-> mu.readers]

SwapsOptions == \A r \in Requests : pc[r] = "swap" => Is(r, "options")

HeldIsMemory ==
    up => \A r \in Requests : Saved(r) => OfOptions(r) \/ (Holds(r) /\ copy[r] = memory)

LockInv ==
    Shape /\ NobodyLeft /\ LockShape /\ SwapsOptions /\ HeldIsMemory /\ OnlyOptionsOverlap

LEMMA InitLockInv == Init => LockInv
  BY DEF Init, LockInv, Shape, NobodyLeft, LockShape, SwapsOptions, HeldIsMemory,
         OnlyOptionsOverlap, Saved, Active, Free

\* A step of r to l in which no save begins, and the lock is as it was.
Aside(r, l) ==
    /\ UNCHANGED <<up, memory, mu, copy, overlapped>>
    /\ pc' = [pc EXCEPT ![r] = l]
    /\ l \notin {"idle", "truncate", "write", "publish"}

LEMMA AsideStep ==
    ASSUME LockInv, NEW r \in Requests, NEW l, up, Aside(r, l),
           LockShape', \A q \in Requests : OfOptions(q) => OfOptions(q)',
           l = "swap" => Is(r, "options")',
           \A q \in Requests : q # r => what'[q] = what[q]
    PROVE  LockInv'
  <1>1. pc'[r] = l /\ \A q \in Requests : q # r => pc'[q] = pc[q]
    BY DEF Aside, LockInv, Shape
  <1>2. Shape' /\ NobodyLeft'
    BY DEF Aside, LockInv, Shape, NobodyLeft
  <1>3. SwapsOptions'
    BY <1>1 DEF LockInv, SwapsOptions, Is
  <1>4. HeldIsMemory'
    BY <1>1 DEF Aside, LockInv, HeldIsMemory, Saved, Holds
  <1>5. OnlyOptionsOverlap'
    BY DEF Aside, LockInv, OnlyOptionsOverlap, OfOptions
  <1> QED BY <1>2, <1>3, <1>4, <1>5 DEF LockInv

LEMMA BeginKeepsLock ==
    ASSUME LockInv, NEW r \in Requests, NEW operation \in Operations, Begin(r, operation)
    PROVE  LockInv'
  <1> DEFINE found == operation.id # None /\ managers[operation.id] # None
             l == CASE operation.op = "options" -> "swap"
                    [] operation.op = "create" -> IF found THEN "answered" ELSE "make"
                    [] ~found /\ operation.op \in {"update", "initialize", "delete"} -> "answered"
                    [] found /\ operation.op = "update" -> "configure"
                    [] found /\ operation.op = "initialize" -> "initialize"
                    [] found /\ operation.op = "delete" -> "close"
  <1>1. operation.op \in {"create", "delete", "update", "initialize", "options"}
    BY DEF Operations
  <1>2. l \notin {"idle", "truncate", "write", "publish"} /\ (l = "swap" => operation.op = "options")
    BY <1>1
  <1>3. pc' = [pc EXCEPT ![r] = l] /\ pc[r] = "idle" /\ up
    BY DEF Begin, Goto
  <1>4. UNCHANGED <<up, memory, mu, copy, overlapped>> /\ what' = [what EXCEPT ![r] = operation]
    BY DEF Begin
  <1> HIDE DEF l
  <1>5. Aside(r, l)
    BY <1>2, <1>3, <1>4 DEF Aside
  <1>6. what'[r] = operation /\ \A q \in Requests : q # r => what'[q] = what[q] /\ pc'[q] = pc[q]
    BY <1>3, <1>4 DEF LockInv, LockShape, Shape
  <1>7. LockShape'
    BY <1>4 DEF LockInv, LockShape
  <1>8. \A q \in Requests : OfOptions(q) => OfOptions(q)'
    BY <1>3, <1>6 DEF OfOptions, Is
  <1>9. l = "swap" => Is(r, "options")'
    BY <1>2, <1>6 DEF Is
  <1> QED BY <1>3, <1>5, <1>6, <1>7, <1>8, <1>9, AsideStep

\* The steps in which a request neither saves nor takes the lock.
LEMMA AsideSteps ==
    ASSUME LockInv, NEW r \in Requests,
           \/ Make(r) \/ Configure(r) \/ Initialize(r) \/ Connect(r)
           \/ FailInitialize(r) \/ CloseManager(r)
    PROVE  LockInv'
  <1>1. up /\ UNCHANGED <<up, memory, mu, what, copy, overlapped>>
    BY DEF Make, Configure, Initialize, Connect, FailInitialize, CloseManager, past
  <1>2. PICK l \in {"append", "initialize", "connect", "lock", "answered"} :
            pc' = [pc EXCEPT ![r] = l]
    BY DEF Make, Configure, Initialize, Connect, FailInitialize, CloseManager, Goto
  <1>3. Aside(r, l)
    BY <1>1, <1>2 DEF Aside
  <1>4. LockShape' /\ \A q \in Requests : what'[q] = what[q]
    BY <1>1 DEF LockInv, LockShape
  <1>5. \A q \in Requests : OfOptions(q) => OfOptions(q)'
    BY <1>1, <1>2 DEF LockInv, Shape, OfOptions, Is
  <1> QED BY <1>1, <1>2, <1>3, <1>4, <1>5, AsideStep

\* The memory is changed when nobody holds the lock: what is being saved then is
\* new options.
LEMMA ChangeKeepsLock ==
    ASSUME LockInv, NEW r \in Requests, AppendEntry(r) \/ Swap(r) \/ Lock(r)
    PROVE  LockInv'
  <1>1. up /\ UNCHANGED <<up, what, overlapped>> /\ mu = Free
    BY DEF AppendEntry, Swap, Lock, Unlocked, past
  <1>2. \A q \in Requests : q # r => pc'[q] = pc[q] /\ copy'[q] = copy[q]
    BY DEF AppendEntry, Swap, Lock, Goto, LockInv, Shape
  <1>3. pc'[r] \in {"rlock", "truncate"}
    BY DEF AppendEntry, Swap, Lock, Goto, LockInv, Shape
  <1>4. \A q \in Requests : OfOptions(q) => OfOptions(q)'
    BY <1>1, <1>2, <1>3 DEF OfOptions, Is
  <1>5. \A q \in Requests : Saved(q) => OfOptions(q)
    BY <1>1, ConstantsAssumption DEF LockInv, HeldIsMemory, Holds, Free
  <1>6. Saved(r)' => OfOptions(r)' \/ (Holds(r) /\ copy[r] = memory)'
    <2>1. CASE AppendEntry(r)
      BY <2>1 DEF AppendEntry, Goto, Saved, LockInv, Shape
    <2>2. CASE Swap(r)
      BY <2>2, <1>4 DEF Swap, LockInv, SwapsOptions, OfOptions
    <2>3. CASE Lock(r)
      <3>1. mu' = [mu EXCEPT !.writer = r] /\ copy' = [copy EXCEPT ![r] = memory']
        BY <2>3 DEF Lock
      <3>2. mu'.writer = r /\ copy'[r] = memory'
        BY <3>1 DEF LockInv, LockShape, Shape
      <3> QED BY <3>2 DEF Holds
    <2> QED BY <2>1, <2>2, <2>3
  <1>7. HeldIsMemory'
    BY <1>2, <1>4, <1>5, <1>6 DEF HeldIsMemory, Saved
  <1>8. Shape' /\ NobodyLeft' /\ SwapsOptions'
    <2>1. Shape'
      BY DEF AppendEntry, Swap, Lock, Goto, LockInv, Shape
    <2>2. SwapsOptions'
      BY <1>1, <1>2, <1>3 DEF LockInv, SwapsOptions, Is
    <2> QED BY <1>1, <2>1, <2>2 DEF NobodyLeft
  <1>9. LockShape'
    <2>1. mu' = mu \/ mu' = [mu EXCEPT !.writer = r]
      BY DEF AppendEntry, Swap, Lock
    <2> QED BY <1>1, <2>1 DEF LockInv, LockShape
  <1> QED BY <1>1, <1>4, <1>7, <1>8, <1>9 DEF LockInv, OnlyOptionsOverlap, OfOptions

LEMMA ReadLockKeepsLock ==
    ASSUME LockInv, NEW r \in Requests, ReadLock(r)
    PROVE  LockInv'
  <1>1. /\ up /\ UNCHANGED <<up, memory, what, overlapped>>
        /\ pc' = [pc EXCEPT ![r] = "truncate"] /\ copy' = [copy EXCEPT ![r] = memory]
        /\ mu' = [mu EXCEPT !.readers = @ \union {r}]
    BY DEF ReadLock, Goto, past
  <1>2. pc'[r] = "truncate" /\ copy'[r] = memory
    BY <1>1 DEF LockInv, Shape
  <1>3. \A q \in Requests : q # r => pc'[q] = pc[q] /\ copy'[q] = copy[q]
    BY <1>1 DEF LockInv, Shape
  <1>4. \A q \in Requests : OfOptions(q) => OfOptions(q)'
    BY <1>1, <1>2, <1>3 DEF OfOptions, Is
  <1>5. mu'.writer = mu.writer /\ mu'.readers = mu.readers \union {r}
    BY <1>1 DEF LockInv, LockShape
  <1>6. HeldIsMemory'
    BY <1>1, <1>2, <1>3, <1>4, <1>5 DEF LockInv, HeldIsMemory, Saved, Holds
  <1>7. Shape' /\ LockShape' /\ NobodyLeft'
    BY <1>1 DEF LockInv, Shape, LockShape, NobodyLeft
  <1>8. SwapsOptions'
    BY <1>1, <1>2, <1>3 DEF LockInv, SwapsOptions, Is
  <1> QED BY <1>1, <1>4, <1>6, <1>7, <1>8 DEF LockInv, OnlyOptionsOverlap, OfOptions

\* Two who hold the lock save the same, so one of two that differ has new options.
LEMMA SaveKeepsLock ==
    ASSUME LockInv, NEW r \in Requests, Truncate(r) \/ Write(r)
    PROVE  LockInv'
  <1>1. /\ up /\ UNCHANGED <<up, memory, mu, what, copy>> /\ pc[r] \in {"truncate", "write"}
    BY DEF Truncate, Write
  <1>2. PICK l \in {"write", "publish"} : pc' = [pc EXCEPT ![r] = l]
    BY DEF Truncate, Write, Goto
  <1>3. pc'[r] = l /\ \A q \in Requests : q # r => pc'[q] = pc[q]
    BY <1>2 DEF LockInv, Shape
  <1>4. \A q \in Requests : (OfOptions(q) => OfOptions(q)') /\ (Saved(q)' <=> Saved(q))
    BY <1>1, <1>3 DEF OfOptions, Is, Saved
  <1>5. HeldIsMemory'
    BY <1>1, <1>4 DEF LockInv, HeldIsMemory, Holds
  <1>6. Shape' /\ LockShape' /\ NobodyLeft'
    BY <1>1, <1>2 DEF LockInv, Shape, LockShape, NobodyLeft
  <1>7. SwapsOptions'
    BY <1>1, <1>3 DEF LockInv, SwapsOptions, Is
  <1>8. OnlyOptionsOverlap'
    <2> SUFFICES ASSUME overlapped', ~overlapped PROVE \E q \in Requests : OfOptions(q)
      BY <1>4 DEF LockInv, OnlyOptionsOverlap, OfOptions
    <2>1. PICK q \in Requests : Saving(q) /\ copy[q] # copy[r]
      BY DEF Truncate, Write
    <2>2. Saved(q) /\ Saved(r)
      BY <1>1, <2>1 DEF Saving, Saved
    <2> QED BY <1>1, <2>1, <2>2 DEF LockInv, HeldIsMemory
  <1> QED BY <1>5, <1>6, <1>7, <1>8 DEF LockInv

LEMMA PublishKeepsLock ==
    ASSUME LockInv, NEW r \in Requests, Publish(r)
    PROVE  LockInv'
  <1>1. /\ up /\ UNCHANGED <<up, memory, what, overlapped>>
        /\ pc' = [pc EXCEPT ![r] = "answered"] /\ copy' = [copy EXCEPT ![r] = None]
        /\ mu' = Unlock(r)
    BY DEF Publish, Goto, past
  <1>2. pc'[r] = "answered" /\ \A q \in Requests : q # r => pc'[q] = pc[q] /\ copy'[q] = copy[q]
    BY <1>1 DEF LockInv, Shape
  <1>3. \A q \in Requests : (OfOptions(q) => OfOptions(q)') /\ (q # r /\ Holds(q) => Holds(q)')
    BY <1>1, <1>2 DEF OfOptions, Is, Holds, Unlock
  <1>4. HeldIsMemory'
    BY <1>1, <1>2, <1>3 DEF LockInv, HeldIsMemory, Saved
  <1>5. Shape' /\ LockShape' /\ NobodyLeft'
    BY <1>1 DEF LockInv, Shape, LockShape, NobodyLeft, Unlock
  <1>6. SwapsOptions'
    BY <1>1, <1>2 DEF LockInv, SwapsOptions, Is
  <1> QED BY <1>1, <1>3, <1>4, <1>5, <1>6 DEF LockInv, OnlyOptionsOverlap, OfOptions

LEMMA CrashKeepsLock ==
    ASSUME LockInv, (\E r \in Requests : Crash(r)) \/ Restart
    PROVE  LockInv'
  <1>1. CASE \E r \in Requests : Crash(r)
    <2>1. /\ ~up' /\ pc' = [q \in Requests |-> IF Active(q) THEN "lost" ELSE pc[q]]
          /\ UNCHANGED <<copy, mu, what, overlapped>>
      BY <1>1 DEF Crash
    <2>2. \A q \in Requests : ~Active(q)' /\ pc'[q] # "swap" /\ (pc[q] # "idle" => pc'[q] # "idle")
      BY <2>1 DEF Active
    <2> QED BY <2>1, <2>2 DEF LockInv, Shape, NobodyLeft, LockShape, SwapsOptions, HeldIsMemory,
               OnlyOptionsOverlap, Is
  <1>2. CASE Restart
    <2>1. /\ ~up /\ up' /\ UNCHANGED <<pc, what, overlapped>> /\ mu' = Free
          /\ copy' = [r \in Requests |-> None]
      BY <1>2 DEF Restart, past
    <2>2. \A q \in Requests : ~Saved(q)'
      BY <2>1 DEF LockInv, NobodyLeft, Active, Saved
    <2> QED BY <2>1, <2>2 DEF LockInv, Shape, NobodyLeft, LockShape, SwapsOptions, HeldIsMemory,
               OnlyOptionsOverlap, Is, Free
  <1> QED BY <1>1, <1>2

LEMMA NextLockInv == LockInv /\ [Next]_vars => LockInv'
  <1> SUFFICES ASSUME LockInv, [Next]_vars PROVE LockInv'
    OBVIOUS
  <1>1. ASSUME UNCHANGED <<up, memory, mu, pc, what, copy, overlapped>> PROVE LockInv'
    BY <1>1 DEF LockInv, Shape, NobodyLeft, LockShape, SwapsOptions, HeldIsMemory,
                OnlyOptionsOverlap, OfOptions, Saved, Holds, Active, Is
  <1>2. CASE Start
    <2>1. UNCHANGED <<up, memory, mu, pc, what, copy, overlapped>>
      BY <1>2 DEF Start, StartNext, StartDone, StartFails, request, past
    <2> QED BY <1>1, <2>1
  <1>3. CASE Restart
    BY <1>3, CrashKeepsLock
  <1>4. ASSUME NEW r \in Requests, Step(r) PROVE LockInv'
    BY <1>4, AsideSteps, ChangeKeepsLock, ReadLockKeepsLock, SaveKeepsLock, PublishKeepsLock,
       CrashKeepsLock DEF Step
  <1>5. ASSUME NEW r \in Requests, NEW operation \in Operations, Begin(r, operation) PROVE LockInv'
    BY <1>5, BeginKeepsLock
  <1>6. CASE UNCHANGED vars
    BY <1>1, <1>6 DEF vars, request, past
  <1> QED BY <1>2, <1>3, <1>4, <1>5, <1>6 DEF Next

\* Saves that differ only overlap when one of them is of new options, whatever the
\* requests and however they interleave: the others hold configurationMu.
THEOREM OptionsOverlap == Spec => []OnlyOptionsOverlap
  <1>1. Init => LockInv
    BY InitLockInv
  <1>2. LockInv => OnlyOptionsOverlap
    BY DEF LockInv
  <1> QED BY <1>1, <1>2, NextLockInv, PTL DEF Spec
-----------------------------------------------------------------------------
(***************************************************************************)
(* The list of configured managers, when an entry is taken out or put in.  *)
(***************************************************************************)
\* What is left without the entries of id: those of other identifiers, each once.
LEMMA WithoutIs ==
    ASSUME NEW list \in Seq(Entries), NEW id
    PROVE  LET left == Without(list, id)
           IN  /\ left \in Seq(Entries)
               /\ \E at \in [1..Len(left) -> 1..Len(list)] :
                     /\ \A n \in 1..Len(left) : left[n] = list[at[n]] /\ left[n].id # id
                     /\ \A m, n \in 1..Len(left) : at[m] = at[n] => m = n
                     /\ \A i \in 1..Len(list) : list[i].id # id =>
                           \E n \in 1..Len(left) : at[n] = i
  <1> DEFINE kept == {i \in 1..Len(list) : list[i].id # id}
             upto(i) == {j \in kept : j <= i}
             place == [i \in kept |-> Cardinality(upto(i))]
             size == Cardinality(kept)
             th(n) == CHOOSE i \in kept : Cardinality(upto(i)) = n
             at == [n \in 1..size |-> th(n)]
  <1>1. Len(list) \in Nat /\ kept \subseteq 1..Len(list) /\ \A i \in kept : i \in Int
    OBVIOUS
  <1>2. IsFiniteSet(kept) /\ size \in Nat
    <2> HIDE DEF kept
    <2>1. IsFiniteSet(1..Len(list))
      BY <1>1, FS_Interval
    <2> QED BY <1>1, <2>1, FS_Subset, FS_CardinalityType
  <1>3. \A i \in kept : IsFiniteSet(upto(i)) /\ Cardinality(upto(i)) \in 1..size
    <2> TAKE i \in kept
    <2>1. upto(i) \in SUBSET kept /\ upto(i) # {}
      BY <1>1
    <2>2. IsFiniteSet(upto(i)) /\ Cardinality(upto(i)) <= size
      BY <1>2, <2>1, FS_Subset
    <2>3. Cardinality(upto(i)) \in Nat /\ Cardinality(upto(i)) # 0
      BY <2>1, <2>2, FS_CardinalityType, FS_EmptySet
    <2> QED BY <1>2, <2>2, <2>3
  <1>4. \A i, j \in kept : Cardinality(upto(i)) = Cardinality(upto(j)) => i = j
    <2>1. ASSUME NEW i \in kept, NEW j \in kept, i < j PROVE Cardinality(upto(i)) # Cardinality(upto(j))
      <3>1. upto(i) \in SUBSET upto(j) /\ j \in upto(j) /\ j \notin upto(i)
        BY <1>1, <2>1
      <3> QED BY <1>3, <3>1, FS_Subset
    <2> HIDE DEF upto, kept
    <2> QED BY <1>1, <2>1
  <1>5. \A n \in 1..size : \E i \in kept : place[i] = n
    <2>1. place \in Injection(kept, 1..size)
      BY <1>3, <1>4 DEF Injection, IsInjective
    <2>2. IsFiniteSet(1..size) /\ Cardinality(1..size) = size
      BY <1>2, FS_Interval
    <2>3. place \in Surjection(kept, 1..size)
      BY <2>1, <2>2, FS_Injection
    <2> QED BY <2>3 DEF Surjection
  <1>6. \A n \in 1..size : at[n] \in kept /\ place[at[n]] = n
    BY <1>5
  <1>7. Without(list, id) = [n \in 1..size |-> list[at[n]]]
    <2>1. Without(list, id) = [n \in 1..size |-> list[th(n)]]
      BY Zenon DEF Without
    <2> HIDE DEF size, th
    <2> QED BY <2>1
  <1>8. \A i \in kept : place[i] \in 1..size /\ at[place[i]] = i
    BY <1>3, <1>4, <1>6
  <1> HIDE DEF at, place, kept, size
  <1>9. at \in [1..size -> 1..Len(list)] /\ \A n \in 1..size : list[at[n]] \in Entries
    <2> HIDE DEF th
    <2>1. \A n \in 1..size : th(n) = at[n]
      BY DEF at
    <2>2. \A n \in 1..size : th(n) \in 1..Len(list)
      BY <1>1, <1>6, <2>1
    <2>3. \A i \in 1..Len(list) : list[i] \in Entries
      OBVIOUS
    <2> QED BY <2>1, <2>2, <2>3 DEF at
  <1> DEFINE left == Without(list, id)
  <1>10. left \in Seq(Entries) /\ Len(left) = size /\ \A n \in 1..size : left[n] = list[at[n]]
    BY <1>2, <1>7, <1>9
  <1>11. \A n \in 1..size : left[n].id # id
    BY <1>6, <1>10 DEF kept
  <1>12. \A m, n \in 1..size : at[m] = at[n] => m = n
    BY <1>6
  <1>13. \A i \in 1..Len(list) : list[i].id # id => \E n \in 1..size : at[n] = i
    BY <1>8 DEF kept
  <1> HIDE DEF left
  <1>14. \E f \in [1..Len(left) -> 1..Len(list)] :
            /\ \A n \in 1..Len(left) : left[n] = list[f[n]] /\ left[n].id # id
            /\ \A m, n \in 1..Len(left) : f[m] = f[n] => m = n
            /\ \A i \in 1..Len(list) : list[i].id # id => \E n \in 1..Len(left) : f[n] = i
    BY <1>9, <1>10, <1>11, <1>12, <1>13, SMTT(60)
  <1> QED BY <1>10, <1>14 DEF left

Has(list, entry) == \E i \in 1..Len(list) : list[i] = entry

Unique(list) ==
    \A i, j \in 1..Len(list) : list[i].id = list[j].id => i = j \/ list[i].id \in contended

LEMMA WithoutKeeps ==
    ASSUME NEW list \in Seq(Entries), NEW id
    PROVE  /\ Without(list, id) \in Seq(Entries)
           /\ Ids(Without(list, id)) = Ids(list) \ {id}
           /\ \A entry : Has(list, entry) /\ entry.id # id => Has(Without(list, id), entry)
           /\ Unique(list) => Unique(Without(list, id))
  <1> DEFINE left == Without(list, id)
  <1>1. left \in Seq(Entries)
    BY WithoutIs
  <1>2. PICK at \in [1..Len(left) -> 1..Len(list)] :
           /\ \A n \in 1..Len(left) : left[n] = list[at[n]] /\ left[n].id # id
           /\ \A m, n \in 1..Len(left) : at[m] = at[n] => m = n
           /\ \A i \in 1..Len(list) : list[i].id # id => \E n \in 1..Len(left) : at[n] = i
    BY WithoutIs
  <1> HIDE DEF left
  <1>3. \A n \in 1..Len(left) : at[n] \in 1..Len(list)
    BY <1>2
  <1>4. \A i \in 1..Len(list) : list[i].id # id => \E n \in 1..Len(left) : left[n] = list[i]
    BY <1>2
  <1>5. Ids(left) = Ids(list) \ {id}
    <2>1. ASSUME NEW n \in 1..Len(left) PROVE left[n].id \in Ids(list) \ {id}
      BY <1>2, <1>3 DEF Ids
    <2>2. ASSUME NEW i \in 1..Len(list), list[i].id # id PROVE list[i].id \in Ids(left)
      BY <1>4, <2>2 DEF Ids
    <2> QED BY <2>1, <2>2 DEF Ids
  <1>6. \A entry : Has(list, entry) /\ entry.id # id => Has(left, entry)
    BY <1>4 DEF Has
  <1>7. Unique(list) => Unique(left)
    BY <1>2, <1>3, SMTT(60) DEF Unique
  <1> QED BY <1>1, <1>5, <1>6, <1>7 DEF left

LEMMA AppendKeeps ==
    ASSUME NEW list \in Seq(Entries), NEW entry \in Entries
    PROVE  /\ Append(list, entry) \in Seq(Entries)
           /\ Ids(Append(list, entry)) = Ids(list) \union {entry.id}
           /\ \A e : Has(Append(list, entry), e) <=> Has(list, e) \/ e = entry
           /\ Unique(list) /\ entry.id \notin Ids(list) \ contended => Unique(Append(list, entry))
  <1> DEFINE more == Append(list, entry)
  <1>1. /\ more \in Seq(Entries) /\ Len(more) = Len(list) + 1 /\ Len(list) \in Nat
        /\ \A i \in 1..Len(list) : more[i] = list[i]
        /\ more[Len(list) + 1] = entry
    OBVIOUS
  <1> HIDE DEF more
  <1>2. \A i : i \in 1..Len(more) <=> i \in 1..Len(list) \/ i = Len(list) + 1
    BY <1>1
  <1>3. Ids(more) = Ids(list) \union {entry.id}
    BY <1>1, <1>2 DEF Ids
  <1>4. \A e : Has(more, e) <=> Has(list, e) \/ e = entry
    BY <1>1, <1>2 DEF Has
  <1>5. Unique(list) /\ entry.id \notin Ids(list) \ contended => Unique(more)
    BY <1>1, <1>2 DEF Unique, Ids
  <1> QED BY <1>1, <1>3, <1>4, <1>5 DEF more
-----------------------------------------------------------------------------
(***************************************************************************)
(* Types.  An index in the map or at a request is of an object that has    *)
(* the identifier it is used for (DataOK, Stands), so that whatever        *)
(* changes an object keeps its identifier; and where a request stands      *)
(* tells which part of the lock it has (MuOK).                             *)
(***************************************************************************)
DataOK ==
    /\ file \in Configurations /\ memory \in Configurations
    /\ objects \in Seq(Objects) /\ boot \in Seq(Seq(Entries))
    /\ managers \in [Identifiers -> 1..Len(objects) \union {None}]
    /\ fresh \in 1..Len(objects) \union {None}
    /\ fresh # None => boot # <<>>
    /\ \A id \in Identifiers : managers[id] # None => objects[managers[id]].config.id = id

MuOK ==
    /\ \A r \in Requests :
         /\ up => (mu.writer = r <=> Saved(r) /\ what[r].op \in {"update", "delete"})
         /\ up => (r \in mu.readers <=> Saved(r) /\ Is(r, "create"))
         /\ up /\ Saved(r) => copy[r] \in Configurations
    /\ mu.writer # None => mu.readers = {}

\* Where a request stands tells what it is, and which object it works on.
Stands(r) ==
    /\ pc[r] # "idle" => what[r] \in Operations
    /\ pc[r] \in {"make", "append", "rlock"} => Is(r, "create")
    /\ pc[r] = "swap" => Is(r, "options")
    /\ pc[r] = "configure" => Is(r, "update")
    /\ pc[r] \in {"initialize", "connect"} => what[r].op \in {"update", "initialize"}
    /\ pc[r] = "close" => Is(r, "delete")
    /\ pc[r] = "lock" => what[r].op \in {"update", "delete"}
    /\ Saved(r) => what[r].op \in {"create", "update", "delete", "options"}
    /\ Active(r) /\ ~Is(r, "options") => what[r].id \in Identifiers
    /\ pc[r] \in {"configure", "initialize", "connect", "close", "lock"} =>
          mine[r] \in 1..Len(objects) /\ objects[mine[r]].config.id = what[r].id

StandsOK == \A r \in Requests : Stands(r)

Shapes ==
    /\ pc = [r \in Requests |-> pc[r]]
    /\ copy = [r \in Requests |-> copy[r]]
    /\ what = [r \in Requests |-> what[r]]
    /\ mine = [r \in Requests |-> mine[r]]
    /\ mu = [writer |-> mu.writer, readers |-> mu.readers]

TInv == Shapes /\ NobodyLeft /\ DataOK /\ MuOK /\ StandsOK

LEMMA TInvTypeOK == TInv => TypeOK
  BY DEF TInv, DataOK, MuOK, TypeOK, Saved

LEMMA InitTInv == Init => TInv
  <1> SUFFICES ASSUME Init PROVE TInv
    OBVIOUS
  <1> DEFINE list == [i \in 1..Len(Initial) |-> Entry(Initial[i], None)]
  <1>1. Initial \in Seq(Identifiers) /\ None \notin Requests
    BY ConstantsAssumption
  <1>2. list \in Seq(Entries)
    BY <1>1 DEF Entry, Entries
  <1>3. file = [options |-> None, managers |-> list] /\ memory = file /\ boot = <<memory.managers>>
    BY DEF Init
  <1> HIDE DEF list
  <1>4. file \in Configurations /\ memory \in Configurations /\ boot \in Seq(Seq(Entries))
    BY <1>2, <1>3 DEF Configurations
  <1>5. DataOK
    BY <1>4 DEF Init, DataOK
  <1>6. MuOK
    BY <1>1 DEF Init, MuOK, Saved, Free
  <1>7. StandsOK
    BY DEF Init, StandsOK, Stands, Saved, Active
  <1> QED BY <1>5, <1>6, <1>7 DEF Init, TInv, Shapes, NobodyLeft, Free

\* The objects of before are still there, with their identifiers.
Keeps ==
    /\ Len(objects) \in Nat /\ Len(objects') \in Nat /\ Len(objects) <= Len(objects')
    /\ \A i \in 1..Len(objects) : objects'[i].config.id = objects[i].config.id

\* The map names objects of its identifiers.
MapOK ==
    /\ objects \in Seq(Objects)
    /\ managers \in [Identifiers -> 1..Len(objects) \union {None}]
    /\ \A id \in Identifiers : managers[id] # None => objects[managers[id]].config.id = id

LEMMA ObjectAdded ==
    ASSUME TInv, NEW entry \in Entries,
           objects' = Append(objects, NewManager(entry)),
           managers' = [managers EXCEPT ![entry.id] = Len(objects')]
    PROVE  /\ MapOK' /\ Keeps
           /\ Len(objects') = Len(objects) + 1 /\ managers'[entry.id] = Len(objects')
           /\ \A i \in 1..Len(objects) : objects'[i] = objects[i]
           /\ objects'[Len(objects')] = NewManager(entry)
           /\ \A id \in Identifiers : id # entry.id => managers'[id] = managers[id]
  <1>1. NewManager(entry) \in Objects /\ NewManager(entry).config = entry /\ entry.id \in Identifiers
    BY DEF NewManager, Objects, Entries
  <1>2. /\ objects' \in Seq(Objects) /\ Len(objects') = Len(objects) + 1 /\ Len(objects) \in Nat
        /\ \A i \in 1..Len(objects) : objects'[i] = objects[i]
        /\ objects'[Len(objects')] = NewManager(entry)
    BY <1>1 DEF TInv, DataOK
  <1>3. /\ managers' \in [Identifiers -> 1..Len(objects') \union {None}]
        /\ managers'[entry.id] = Len(objects')
        /\ \A id \in Identifiers : id # entry.id => managers'[id] = managers[id]
    BY <1>1, <1>2 DEF TInv, DataOK
  <1>4. ASSUME NEW id \in Identifiers, managers'[id] # None
        PROVE  objects'[managers'[id]].config.id = id
    <2>1. CASE id = entry.id
      BY <2>1, <1>1, <1>2, <1>3
    <2>2. CASE id # entry.id
      <3>1. managers'[id] = managers[id] /\ managers[id] \in 1..Len(objects)
        BY <2>2, <1>3, <1>4 DEF TInv, DataOK
      <3>2. objects'[managers[id]] = objects[managers[id]]
        BY <3>1, <1>2
      <3> QED BY <3>1, <3>2, <1>4 DEF TInv, DataOK
    <2> QED BY <2>1, <2>2
  <1> QED BY <1>2, <1>3, <1>4 DEF MapOK, Keeps

LEMMA ObjectChanged ==
    ASSUME TInv, NEW i \in 1..Len(objects), NEW object \in Objects,
           object.config.id = objects[i].config.id,
           objects' = [objects EXCEPT ![i] = object],
           \A id \in Identifiers : managers'[id] \in {managers[id], None},
           managers' = [id \in Identifiers |-> managers'[id]]
    PROVE  /\ MapOK' /\ Keeps /\ Len(objects') = Len(objects)
           /\ objects'[i] = object /\ \A j \in 1..Len(objects) : j # i => objects'[j] = objects[j]
  <1>1. objects \in Seq(Objects) /\ Len(objects) \in Nat /\ DOMAIN objects = 1..Len(objects)
    BY DEF TInv, DataOK
  <1>2. /\ [objects EXCEPT ![i] = object] \in Seq(Objects)
        /\ Len([objects EXCEPT ![i] = object]) = Len(objects)
    BY <1>1, ExceptSeq
  <1>3. objects' \in Seq(Objects) /\ Len(objects') = Len(objects)
    BY <1>2
  <1>4. objects'[i] = object /\ \A j \in 1..Len(objects) : j # i => objects'[j] = objects[j]
    BY <1>1
  <1>5. \A j \in 1..Len(objects) : objects'[j].config.id = objects[j].config.id
    BY <1>4
  <1>6. \A id \in Identifiers : managers'[id] # None => objects'[managers'[id]].config.id = id
    BY <1>5 DEF TInv, DataOK
  <1>7. managers' \in [Identifiers -> 1..Len(objects') \union {None}]
    BY <1>3 DEF TInv, DataOK
  <1> QED BY <1>1, <1>3, <1>4, <1>5, <1>6, <1>7 DEF MapOK, Keeps

-----------------------------------------------------------------------------
LEMMA StartTyped ==
    ASSUME TInv, Start
    PROVE  TInv'
  <1>1. up /\ UNCHANGED <<up, file, memory, mu, pc, what, mine, copy>>
    BY DEF Start, StartNext, StartDone, StartFails, request
  <1>2. DataOK' /\ Keeps
    <2>1. CASE StartNext /\ Head(boot) = <<>>
      <3>1. boot' = Tail(boot) /\ UNCHANGED <<managers, objects, fresh>> /\ boot # <<>> /\ fresh = None
        BY <2>1 DEF StartNext
      <3> QED BY <1>1, <3>1 DEF TInv, DataOK, Keeps
    <2>2. CASE StartNext /\ Head(boot) # <<>>
      <3> DEFINE entry == Head(Head(boot))
                 rest == Tail(Head(boot))
      <3>1. boot # <<>> /\ Head(boot) # <<>> /\ Head(boot) \in Seq(Entries)
        BY <2>2 DEF StartNext, TInv, DataOK
      <3>2. entry \in Entries /\ rest \in Seq(Entries)
        BY <3>1
      <3>3. /\ objects' = Append(objects, NewManager(entry))
            /\ fresh' = Len(objects')
            /\ managers' = [managers EXCEPT ![entry.id] = Len(objects')]
            /\ boot' = <<rest>> \o Tail(boot)
        BY <2>2 DEF StartNext
      <3> HIDE DEF entry, rest
      <3>4. MapOK' /\ Keeps /\ Len(objects') \in 1..Len(objects')
        <4>1. MapOK' /\ Keeps /\ Len(objects') = Len(objects) + 1
          BY <3>2, <3>3, ObjectAdded
        <4> QED BY <4>1 DEF Keeps
      <3>5. boot' \in Seq(Seq(Entries)) /\ boot' # <<>>
        BY <3>1, <3>2, <3>3 DEF TInv, DataOK
      <3> QED BY <1>1, <3>3, <3>4, <3>5 DEF TInv, DataOK, MapOK
    <2>3. CASE StartDone
      <3>1. /\ fresh \in 1..Len(objects) /\ fresh' = None /\ UNCHANGED <<managers, boot>>
            /\ objects' = [objects EXCEPT ![fresh].producer = "open", ![fresh].open = TRUE]
        BY <2>3 DEF StartDone, TInv, DataOK
      <3> DEFINE opened == [objects[fresh] EXCEPT !.producer = "open", !.open = TRUE]
      <3>2. objects[fresh] \in Objects /\ Len(objects) \in Nat /\ DOMAIN objects = 1..Len(objects)
        BY <3>1 DEF TInv, DataOK
      <3>3. opened \in Objects /\ opened.config = objects[fresh].config
        BY <3>2 DEF Objects
      <3>4. objects' = [objects EXCEPT ![fresh] = opened]
        BY <3>1, <3>2
      <3> HIDE DEF opened
      <3>5. MapOK' /\ Keeps
        BY <3>1, <3>3, <3>4, ObjectChanged DEF TInv, DataOK
      <3> QED BY <1>1, <3>1, <3>5 DEF TInv, DataOK, MapOK
    <2>4. CASE StartFails
      <3>1. /\ boot' = <<memory.managers>> \o boot /\ fresh' = None
            /\ UNCHANGED <<managers, objects>>
        BY <2>4 DEF StartFails
      <3>2. memory.managers \in Seq(Entries)
        BY DEF TInv, DataOK, Configurations
      <3>3. boot' \in Seq(Seq(Entries))
        BY <3>1, <3>2 DEF TInv, DataOK
      <3> QED BY <1>1, <3>1, <3>3 DEF TInv, DataOK, Keeps
    <2> QED BY <2>1, <2>2, <2>3, <2>4 DEF Start
  <1>3. StandsOK'
    BY <1>1, <1>2 DEF TInv, StandsOK, Stands, Saved, Active, Is, Keeps
  <1>4. MuOK'
    BY <1>1 DEF TInv, MuOK, Saved, Is
  <1> QED BY <1>1, <1>2, <1>3, <1>4 DEF TInv, Shapes, NobodyLeft, Active
-----------------------------------------------------------------------------
\* A step of r to l that leaves the others alone.
Moves(r, l) ==
    /\ pc' = [pc EXCEPT ![r] = l]
    /\ \A q \in Requests : q # r => what'[q] = what[q] /\ mine'[q] = mine[q] /\ copy'[q] = copy[q]

LEMMA MovesTo ==
    ASSUME TInv, NEW r \in Requests, NEW l, Moves(r, l)
    PROVE  pc'[r] = l /\ \A q \in Requests : q # r => pc'[q] = pc[q]
  BY DEF Moves, TInv, Shapes

LEMMA OutsideMu ==
    ASSUME TInv, NEW r \in Requests, NEW l, Moves(r, l), up, UNCHANGED <<up, mu>>,
           ~Saved(r), l \notin {"truncate", "write", "publish"}
    PROVE  MuOK'
  <1>1. pc'[r] = l /\ \A q \in Requests : q # r => pc'[q] = pc[q]
    BY MovesTo
  <1>2. \A q \in Requests : (Saved(q)' <=> Saved(q)) /\ (Saved(q) => q # r)
    BY <1>1 DEF Saved
  <1> QED BY <1>2 DEF TInv, MuOK, Moves, Is

LEMMA OthersStand ==
    ASSUME TInv, NEW r \in Requests, NEW l, Moves(r, l), Keeps, UNCHANGED up,
           NEW q \in Requests, q # r
    PROVE  Stands(q)'
  <1>1. pc'[q] = pc[q] /\ what'[q] = what[q] /\ mine'[q] = mine[q]
    BY MovesTo DEF Moves
  <1>2. Stands(q)
    BY DEF TInv, StandsOK
  <1> QED BY <1>1, <1>2 DEF Stands, Saved, Active, Is, Keeps

\* The steps of requests that leave the objects as they are.
LEMMA BeginTyped ==
    ASSUME TInv, NEW r \in Requests, NEW operation \in Operations, Begin(r, operation)
    PROVE  TInv'
  <1> DEFINE id == operation.id
             found == id # None /\ managers[id] # None
             l == CASE operation.op = "options" -> "swap"
                    [] operation.op = "create" -> IF found THEN "answered" ELSE "make"
                    [] ~found /\ operation.op \in {"update", "initialize", "delete"} -> "answered"
                    [] found /\ operation.op = "update" -> "configure"
                    [] found /\ operation.op = "initialize" -> "initialize"
                    [] found /\ operation.op = "delete" -> "close"
  <1>1. /\ operation.op \in {"create", "delete", "update", "initialize", "options"}
        /\ operation.op # "options" => operation.id \in Identifiers
    BY DEF Operations
  <1>2. /\ l \in {"swap", "answered", "make", "configure", "initialize", "close"}
        /\ l = "swap" => operation.op = "options"
        /\ l = "make" => operation.op = "create"
        /\ l = "configure" => operation.op = "update"
        /\ l = "initialize" => operation.op = "initialize"
        /\ l = "close" => operation.op = "delete"
        /\ l \in {"configure", "initialize", "close"} => found
    BY <1>1
  <1>3. /\ up /\ pc[r] = "idle" /\ pc' = [pc EXCEPT ![r] = l]
        /\ what' = [what EXCEPT ![r] = operation]
        /\ mine' = [mine EXCEPT ![r] = IF found THEN managers[id] ELSE None]
        /\ UNCHANGED <<up, file, memory, managers, objects, boot, fresh, mu, copy>>
    BY DEF Begin, Goto, process
  <1> HIDE DEF l
  <1>4. Moves(r, l) /\ what'[r] = operation
    BY <1>3 DEF Moves, TInv, Shapes
  <1>5. found => mine'[r] \in 1..Len(objects) /\ objects[mine'[r]].config.id = id
    <2> HAVE found
    <2>1. mine'[r] = managers[id]
      BY <1>3 DEF TInv, Shapes
    <2>2. id \in Identifiers
      BY <1>1 DEF Operations
    <2> QED BY <2>1, <2>2 DEF TInv, DataOK
  <1> HIDE DEF found
  <1>6. ~Saved(r) /\ pc'[r] = l
    BY <1>3, <1>4, MovesTo DEF Saved
  <1>7. MuOK'
    BY <1>2, <1>3, <1>4, <1>6, OutsideMu
  <1>8. Keeps
    BY <1>3 DEF Keeps, TInv, DataOK
  <1>9. Stands(r)'
    BY <1>1, <1>2, <1>3, <1>4, <1>5, <1>6 DEF Stands, Saved, Active, Is
  <1>10. StandsOK'
    BY <1>3, <1>4, <1>8, <1>9, OthersStand DEF StandsOK
  <1>11. DataOK'
    BY <1>3 DEF TInv, DataOK
  <1> QED BY <1>3, <1>7, <1>10, <1>11 DEF TInv, Shapes, NobodyLeft

\* A step of r to l by which objects may change, and neither the configuration nor the lock.
LEMMA ObjectStepTyped ==
    ASSUME TInv, NEW r \in Requests, NEW l, up, pc' = [pc EXCEPT ![r] = l],
           UNCHANGED <<up, file, memory, boot, fresh, mu, what, mine, copy>>,
           ~Saved(r), l \notin {"truncate", "write", "publish"},
           MapOK', Keeps, Stands(r)'
    PROVE  TInv'
  <1>1. Moves(r, l)
    BY DEF Moves
  <1>2. MuOK'
    BY <1>1, OutsideMu
  <1>3. StandsOK'
    BY <1>1, OthersStand DEF StandsOK
  <1>4. DataOK'
    <2>1. fresh \in 1..Len(objects') \union {None}
      BY DEF TInv, DataOK, Keeps
    <2> QED BY <2>1 DEF TInv, DataOK, MapOK
  <1> QED BY <1>2, <1>3, <1>4 DEF TInv, Shapes, NobodyLeft

LEMMA MakeTyped ==
    ASSUME TInv, NEW r \in Requests, Make(r)
    PROVE  TInv'
  <1> DEFINE entry == Entry(what[r].id, r)
  <1>1. /\ up /\ pc[r] = "make" /\ pc' = [pc EXCEPT ![r] = "append"]
        /\ UNCHANGED <<up, file, memory, boot, fresh, mu, what, mine, copy>>
        /\ objects' = Append(objects, NewManager(entry))
        /\ managers' = [managers EXCEPT ![what[r].id] = Len(objects')]
    BY DEF Make, Goto, past
  <1>2. Is(r, "create") /\ what[r].id \in Identifiers /\ what[r] \in Operations
    BY <1>1 DEF TInv, StandsOK, Stands, Active, Is
  <1>3. entry \in Entries /\ entry.id = what[r].id
    BY <1>2 DEF Entry, Entries
  <1> HIDE DEF entry
  <1>4. MapOK' /\ Keeps
    <2>1. managers' = [managers EXCEPT ![entry.id] = Len(objects')]
      BY <1>1, <1>3
    <2> QED BY <1>1, <1>3, <2>1, ObjectAdded
  <1>5. Stands(r)' /\ ~Saved(r)
    <2>1. pc'[r] = "append"
      BY <1>1 DEF TInv, Shapes
    <2> QED BY <1>1, <1>2, <2>1 DEF Stands, Saved, Active, Is
  <1> QED BY <1>1, <1>4, <1>5, ObjectStepTyped

\* The steps of initialisations and deletes: r's object alone changes, its
\* configuration when it is configured, and it is only closed.
LEMMA MineStep ==
    ASSUME TInv, NEW r \in Requests,
           Configure(r) \/ Initialize(r) \/ Connect(r) \/ FailInitialize(r) \/ CloseManager(r)
    PROVE  /\ up /\ pc[r] \in {"configure", "initialize", "connect", "close"}
           /\ UNCHANGED <<up, file, memory, boot, fresh, mu, what, mine, copy>>
           /\ mine[r] \in 1..Len(objects) /\ objects[mine[r]].config.id = what[r].id
           /\ what[r] \in Operations /\ what[r].op \in {"update", "initialize", "delete"}
           /\ what[r].id \in Identifiers
           /\ MapOK' /\ Keeps /\ Len(objects') = Len(objects)
           /\ objects'[mine[r]].config =
                 IF pc[r] = "configure" THEN Entry(what[r].id, r) ELSE objects[mine[r]].config
           /\ objects'[mine[r]].open = (objects[mine[r]].open /\ pc[r] # "close")
           /\ \A i \in 1..Len(objects) : i # mine[r] => objects'[i] = objects[i]
           /\ managers' = IF pc[r] = "close" THEN [managers EXCEPT ![what[r].id] = None] ELSE managers
  <1> DEFINE old == objects[mine[r]]
             config == IF pc[r] = "configure" THEN Entry(what[r].id, r) ELSE old.config
  <1>1. /\ up /\ pc[r] \in {"configure", "initialize", "connect", "close"}
        /\ UNCHANGED <<up, file, memory, boot, fresh, mu, what, mine, copy>>
    BY DEF Configure, Initialize, Connect, FailInitialize, CloseManager, process, past
  <1>2. /\ mine[r] \in 1..Len(objects) /\ objects[mine[r]].config.id = what[r].id
        /\ what[r] \in Operations /\ what[r].op \in {"update", "initialize", "delete"}
    BY <1>1 DEF TInv, StandsOK, Stands, Is
  <1>3. what[r].id \in Identifiers /\ old \in Objects
    <2>1. Active(r) /\ ~Is(r, "options")
      BY <1>1, <1>2 DEF Active, Is
    <2> QED BY <1>2, <2>1 DEF TInv, StandsOK, Stands, DataOK
  <1>4. \E object \in Objects :
           /\ objects' = [objects EXCEPT ![mine[r]] = object]
           /\ object.config = config /\ object.open = (old.open /\ pc[r] # "close")
    <2>1. CASE Configure(r)
      <3>1. objects' = [objects EXCEPT ![mine[r]] = [old EXCEPT !.config = Entry(what[r].id, r)]]
        BY <2>1 DEF Configure
      <3>2. pc[r] = "configure"
        BY <2>1 DEF Configure
      <3>3. [old EXCEPT !.config = Entry(what[r].id, r)] \in Objects
        BY <1>3 DEF Objects, Entry, Entries
      <3>4. /\ [old EXCEPT !.config = Entry(what[r].id, r)].config = config
            /\ [old EXCEPT !.config = Entry(what[r].id, r)].open = (old.open /\ pc[r] # "close")
        BY <1>3, <3>2 DEF Objects
      <3> QED BY <3>1, <3>3, <3>4
    <2>2. CASE Initialize(r) \/ Connect(r) \/ FailInitialize(r)
      <3>1. \E producer \in {"none", "open", "closed"} :
               objects' = [objects EXCEPT ![mine[r]] = [old EXCEPT !.producer = producer]]
        <4>1. objects = [objects EXCEPT ![mine[r]] = [old EXCEPT !.producer = old.producer]]
          <5>1. [old EXCEPT !.producer = old.producer] = old
            BY <1>3 DEF Objects
          <5>2. objects = [objects EXCEPT ![mine[r]] = old]
            BY <1>2 DEF TInv, DataOK
          <5> QED BY <5>1, <5>2
        <4>2. old.producer \in {"none", "open", "closed"}
          BY <1>3 DEF Objects
        <4>3. CASE UNCHANGED objects
          BY <4>1, <4>2, <4>3
        <4>4. CASE Initialize(r) /\ objects' # objects
          BY <4>4 DEF Initialize
        <4>5. CASE Connect(r)
          BY <4>5 DEF Connect
        <4>6. CASE FailInitialize(r)
          BY <4>3, <4>6 DEF FailInitialize, process
        <4> QED BY <2>2, <4>3, <4>4, <4>5, <4>6
      <3>2. \A producer \in {"none", "open", "closed"} :
               /\ [old EXCEPT !.producer = producer] \in Objects
               /\ [old EXCEPT !.producer = producer].config = old.config
               /\ [old EXCEPT !.producer = producer].open = old.open
        BY <1>3 DEF Objects
      <3>3. pc[r] \in {"initialize", "connect"} /\ old.open \in BOOLEAN
        BY <1>3, <2>2 DEF Initialize, Connect, FailInitialize, Objects
      <3>4. old.open = (old.open /\ pc[r] # "close") /\ config = old.config
        BY <3>3
      <3>5. PICK producer \in {"none", "open", "closed"} :
               objects' = [objects EXCEPT ![mine[r]] = [old EXCEPT !.producer = producer]]
        BY <3>1
      <3>6. /\ [old EXCEPT !.producer = producer] \in Objects
            /\ [old EXCEPT !.producer = producer].config = config
            /\ [old EXCEPT !.producer = producer].open = (old.open /\ pc[r] # "close")
        BY <3>2, <3>4
      <3> HIDE DEF old, config
      <3> QED BY <3>5, <3>6
    <2>3. CASE CloseManager(r)
      <3>1. objects' = [objects EXCEPT ![mine[r]] = [old EXCEPT !.open = FALSE]] /\ pc[r] = "close"
        BY <2>3 DEF CloseManager
      <3>2. [old EXCEPT !.open = FALSE] \in Objects
        BY <1>3 DEF Objects
      <3>3. [old EXCEPT !.open = FALSE].config = old.config /\ [old EXCEPT !.open = FALSE].open = FALSE
        BY <1>3 DEF Objects
      <3>4. (old.open /\ pc[r] # "close") = FALSE
        BY <3>1
      <3>5. [old EXCEPT !.open = FALSE].open = (old.open /\ pc[r] # "close")
        BY <3>3, <3>4, Zenon
      <3>6. [old EXCEPT !.open = FALSE].config = config
        BY <3>1, <3>3
      <3> HIDE DEF old, config
      <3> QED BY <3>1, <3>2, <3>5, <3>6
    <2> QED BY <2>1, <2>2, <2>3
  <1>5. config.id = what[r].id
    BY <1>2 DEF Entry
  <1>6. managers' = IF pc[r] = "close" THEN [managers EXCEPT ![what[r].id] = None] ELSE managers
    BY DEF Configure, Initialize, Connect, FailInitialize, CloseManager, process
  <1>7. /\ managers' = [id \in Identifiers |-> managers'[id]]
        /\ \A id \in Identifiers : managers'[id] \in {managers[id], None}
    BY <1>3, <1>6 DEF TInv, DataOK
  <1> HIDE DEF config
  <1>8. PICK object \in Objects :
           /\ objects' = [objects EXCEPT ![mine[r]] = object]
           /\ object.config = config /\ object.open = (old.open /\ pc[r] # "close")
    BY <1>4
  <1>9. object.config.id = objects[mine[r]].config.id
    BY <1>2, <1>5, <1>8
  <1>10. /\ MapOK' /\ Keeps /\ Len(objects') = Len(objects) /\ objects'[mine[r]] = object
         /\ \A i \in 1..Len(objects) : i # mine[r] => objects'[i] = objects[i]
    BY <1>2, <1>7, <1>8, <1>9, ObjectChanged
  <1> QED BY <1>1, <1>2, <1>3, <1>6, <1>8, <1>10 DEF config

LEMMA MineTyped ==
    ASSUME TInv, NEW r \in Requests,
           Configure(r) \/ Initialize(r) \/ Connect(r) \/ FailInitialize(r) \/ CloseManager(r)
    PROVE  TInv'
  <1>1. /\ up /\ pc[r] \in {"configure", "initialize", "connect", "close"}
        /\ UNCHANGED <<up, file, memory, boot, fresh, mu, what, mine, copy>>
        /\ mine[r] \in 1..Len(objects) /\ objects[mine[r]].config.id = what[r].id
        /\ what[r] \in Operations /\ what[r].op \in {"update", "initialize", "delete"}
        /\ what[r].id \in Identifiers /\ MapOK' /\ Keeps /\ Len(objects') = Len(objects)
    BY MineStep
  <1>2. objects'[mine[r]].config.id = what[r].id
    BY <1>1 DEF Keeps
  <1>3. \E l \in {"initialize", "connect", "lock", "answered"} :
           /\ pc' = [pc EXCEPT ![r] = l]
           /\ pc[r] = "configure" => l = "initialize"
           /\ pc[r] = "close" => l = "lock"
           /\ l = "lock" => what[r].op \in {"update", "delete"}
           /\ l = "connect" => pc[r] = "initialize"
    <2>1. CASE Configure(r)
      BY <2>1 DEF Configure, Goto
    <2>2. CASE Initialize(r)
      BY <2>2 DEF Initialize, Goto, Is
    <2>3. CASE Connect(r)
      BY <2>3 DEF Connect, Goto, Is
    <2>4. CASE FailInitialize(r)
      BY <2>4 DEF FailInitialize, Goto
    <2>5. CASE CloseManager(r)
      <3>1. pc[r] = "close" /\ pc' = [pc EXCEPT ![r] = "lock"]
        BY <2>5 DEF CloseManager, Goto
      <3>2. Is(r, "delete")
        BY <3>1 DEF TInv, StandsOK, Stands
      <3> QED BY <3>1, <3>2 DEF Is
    <2> QED BY <2>1, <2>2, <2>3, <2>4, <2>5
  <1>4. PICK l \in {"initialize", "connect", "lock", "answered"} :
           /\ pc' = [pc EXCEPT ![r] = l]
           /\ pc[r] = "configure" => l = "initialize"
           /\ pc[r] = "close" => l = "lock"
           /\ l = "lock" => what[r].op \in {"update", "delete"}
           /\ l = "connect" => pc[r] = "initialize"
    BY <1>3
  <1>5. Stands(r)' /\ ~Saved(r)
    <2>1. pc'[r] = l
      BY <1>4 DEF TInv, Shapes
    <2> QED BY <1>1, <1>2, <1>4, <2>1 DEF Stands, Saved, Active, Is, TInv, StandsOK
  <1> QED BY <1>1, <1>4, <1>5, ObjectStepTyped
-----------------------------------------------------------------------------
\* A step of r to l by which the configuration or the lock may change, and the
\* objects do not.
LEMMA ConfigurationStepTyped ==
    ASSUME TInv, NEW r \in Requests, NEW l, up, pc' = [pc EXCEPT ![r] = l],
           UNCHANGED <<up, process, what, mine>>,
           l \in {"rlock", "truncate", "write", "publish", "answered"},
           \A q \in Requests : q # r => copy'[q] = copy[q],
           copy' = [q \in Requests |-> copy'[q]],
           mu' = [writer |-> mu'.writer, readers |-> mu'.readers],
           file' \in Configurations, memory' \in Configurations, MuOK', Stands(r)'
    PROVE  TInv'
  <1>1. Moves(r, l)
    BY DEF Moves
  <1>2. Keeps
    BY DEF TInv, DataOK, Keeps, process
  <1>3. StandsOK'
    BY <1>1, <1>2, OthersStand DEF StandsOK
  <1>4. DataOK'
    BY DEF TInv, DataOK, process
  <1> QED BY <1>3, <1>4 DEF TInv, Shapes, NobodyLeft

LEMMA OthersMu ==
    ASSUME TInv, NEW r \in Requests, NEW l, up, Moves(r, l), UNCHANGED what,
           \A q \in Requests : q # r =>
              (mu'.writer = q <=> mu.writer = q) /\ (q \in mu'.readers <=> q \in mu.readers),
           mu'.writer # None => mu'.readers = {},
           mu'.writer = r <=> l \in {"truncate", "write", "publish"} /\ what[r].op \in {"update", "delete"},
           r \in mu'.readers <=> l \in {"truncate", "write", "publish"} /\ Is(r, "create"),
           l \in {"truncate", "write", "publish"} => copy'[r] \in Configurations,
           UNCHANGED up
    PROVE  MuOK'
  <1>1. pc'[r] = l /\ \A q \in Requests : q # r => pc'[q] = pc[q]
    BY MovesTo
  <1>2. Saved(r)' <=> l \in {"truncate", "write", "publish"}
    BY <1>1 DEF Saved
  <1>3. \A q \in Requests : q # r => (Saved(q)' <=> Saved(q)) /\ copy'[q] = copy[q]
    BY <1>1 DEF Saved, Moves
  <1> QED BY <1>2, <1>3 DEF TInv, MuOK, Is

LEMMA AppendTyped ==
    ASSUME TInv, NEW r \in Requests, AppendEntry(r)
    PROVE  TInv'
  <1>1. /\ up /\ pc[r] = "append" /\ pc' = [pc EXCEPT ![r] = "rlock"] /\ mu = Free
        /\ memory' = [memory EXCEPT !.managers = Append(@, Entry(what[r].id, r))]
        /\ UNCHANGED <<up, file, process, mu, what, mine, copy>>
    BY DEF AppendEntry, Goto, Unlocked, past
  <1>2. Is(r, "create") /\ what[r].id \in Identifiers /\ what[r] \in Operations
    BY <1>1 DEF TInv, StandsOK, Stands, Active, Is
  <1>3. memory' \in Configurations
    <2>1. Entry(what[r].id, r) \in Entries
      BY <1>2 DEF Entry, Entries
    <2>2. memory.managers \in Seq(Entries) /\ memory.options \in Requests \union {None}
      BY DEF TInv, DataOK, Configurations
    <2>3. memory' = [options |-> memory.options, managers |-> Append(memory.managers, Entry(what[r].id, r))]
      BY <1>1 DEF TInv, DataOK, Configurations
    <2> QED BY <2>1, <2>2, <2>3, AppendKeeps DEF Configurations
  <1>4. Stands(r)'
    <2>1. pc'[r] = "rlock"
      BY <1>1 DEF TInv, Shapes
    <2> QED BY <1>1, <1>2, <2>1 DEF Stands, Saved, Active, Is
  <1>5. MuOK'
    <2>1. Moves(r, "rlock") /\ ~Saved(r)
      BY <1>1 DEF Moves, Saved
    <2> QED BY <1>1, <2>1, OutsideMu
  <1>6. copy' = [q \in Requests |-> copy'[q]] /\ mu' = [writer |-> mu'.writer, readers |-> mu'.readers]
    BY <1>1 DEF TInv, Shapes
  <1>7. file' \in Configurations
    BY <1>1 DEF TInv, DataOK
  <1> QED BY <1>1, <1>3, <1>4, <1>5, <1>6, <1>7, ConfigurationStepTyped

LEMMA ReadLockTyped ==
    ASSUME TInv, NEW r \in Requests, ReadLock(r)
    PROVE  TInv'
  <1>1. /\ up /\ pc[r] = "rlock" /\ pc' = [pc EXCEPT ![r] = "truncate"] /\ mu.writer = None
        /\ mu' = [mu EXCEPT !.readers = @ \union {r}]
        /\ copy' = [copy EXCEPT ![r] = memory]
        /\ UNCHANGED <<up, file, memory, process, what, mine>>
    BY DEF ReadLock, Goto, past
  <1>2. Is(r, "create") /\ what[r].id \in Identifiers /\ what[r] \in Operations
    BY <1>1 DEF TInv, StandsOK, Stands, Active, Is
  <1>3. mu'.writer = None /\ mu'.readers = mu.readers \union {r} /\ copy'[r] = memory /\ r # None
    BY <1>1, ConstantsAssumption DEF TInv, Shapes
  <1>4. Moves(r, "truncate")
    BY <1>1 DEF Moves, TInv, Shapes
  <1>5. memory \in Configurations
    BY DEF TInv, DataOK
  <1>6. MuOK'
    BY <1>1, <1>2, <1>3, <1>4, <1>5, OthersMu DEF Is
  <1>7. Stands(r)'
    <2>1. pc'[r] = "truncate"
      BY <1>1 DEF TInv, Shapes
    <2> QED BY <1>1, <1>2, <2>1 DEF Stands, Saved, Active, Is
  <1>8. copy' = [q \in Requests |-> copy'[q]] /\ mu' = [writer |-> mu'.writer, readers |-> mu'.readers]
    BY <1>1 DEF TInv, Shapes
  <1>9. file' \in Configurations /\ memory' \in Configurations
    BY <1>1 DEF TInv, DataOK
  <1> QED BY <1>1, <1>4, <1>6, <1>7, <1>8, <1>9, ConfigurationStepTyped DEF Moves

\* New options are swapped in under the lock, which is given up at once.
LEMMA SwapTyped ==
    ASSUME TInv, NEW r \in Requests, Swap(r)
    PROVE  TInv'
  <1>1. /\ up /\ pc[r] = "swap" /\ pc' = [pc EXCEPT ![r] = "truncate"] /\ mu = Free
        /\ memory' = [memory EXCEPT !.options = r]
        /\ copy' = [copy EXCEPT ![r] = memory']
        /\ UNCHANGED <<up, file, process, mu, what, mine>>
    BY DEF Swap, Goto, Unlocked, past
  <1>2. Is(r, "options") /\ what[r] \in Operations
    BY <1>1 DEF TInv, StandsOK, Stands
  <1>3. memory' \in Configurations
    BY <1>1 DEF TInv, DataOK, Configurations
  <1>4. Moves(r, "truncate") /\ copy'[r] = memory'
    BY <1>1 DEF Moves, TInv, Shapes
  <1>5. mu'.writer = None /\ mu'.readers = {} /\ r # None
    BY <1>1, ConstantsAssumption DEF Free
  <1>6. MuOK'
    BY <1>1, <1>2, <1>3, <1>4, <1>5, OthersMu DEF Is
  <1>7. Stands(r)'
    <2>1. pc'[r] = "truncate"
      BY <1>1 DEF TInv, Shapes
    <2> QED BY <1>1, <1>2, <2>1 DEF Stands, Saved, Active, Is
  <1>8. copy' = [q \in Requests |-> copy'[q]] /\ mu' = [writer |-> mu'.writer, readers |-> mu'.readers]
    BY <1>1 DEF TInv, Shapes
  <1>9. file' \in Configurations
    BY <1>1 DEF TInv, DataOK
  <1> QED BY <1>1, <1>3, <1>4, <1>6, <1>7, <1>8, <1>9, ConfigurationStepTyped DEF Moves

\* What the lock of an update or a delete does to the configuration.
LEMMA LockMemory ==
    ASSUME TInv, NEW r \in Requests, Lock(r)
    PROVE  LET others == Without(memory.managers, what[r].id)
           IN  /\ what[r].id \in Identifiers /\ what[r].op \in {"update", "delete"}
               /\ what[r] \in Operations /\ memory.managers \in Seq(Entries)
               /\ others \in Seq(Entries) /\ Entry(what[r].id, r) \in Entries
               /\ memory' = [options |-> memory.options, managers |->
                     IF Is(r, "update") THEN Append(others, Entry(what[r].id, r)) ELSE others]
               /\ memory' \in Configurations
  <1> DEFINE others == Without(memory.managers, what[r].id)
             after == IF Is(r, "update") THEN Append(others, Entry(what[r].id, r)) ELSE others
  <1>1. up /\ pc[r] = "lock" /\ memory' = [memory EXCEPT !.managers = after]
    BY DEF Lock
  <1>2. what[r].op \in {"update", "delete"} /\ what[r].id \in Identifiers /\ what[r] \in Operations
    BY <1>1 DEF TInv, StandsOK, Stands, Active, Is
  <1>3. memory.managers \in Seq(Entries) /\ memory.options \in Requests \union {None}
    BY DEF TInv, DataOK, Configurations
  <1>4. Entry(what[r].id, r) \in Entries
    BY <1>2 DEF Entry, Entries
  <1>5. others \in Seq(Entries)
    BY <1>3, WithoutKeeps
  <1> HIDE DEF others
  <1>6. after \in Seq(Entries)
    BY <1>4, <1>5
  <1> HIDE DEF after
  <1>7. memory' = [options |-> memory.options, managers |-> after]
    BY <1>1 DEF TInv, DataOK, Configurations
  <1>8. memory' \in Configurations
    BY <1>3, <1>6, <1>7 DEF Configurations
  <1> QED BY <1>2, <1>3, <1>4, <1>5, <1>7, <1>8 DEF after, others

LEMMA LockTyped ==
    ASSUME TInv, NEW r \in Requests, Lock(r)
    PROVE  TInv'
  <1>1. /\ up /\ pc[r] = "lock" /\ pc' = [pc EXCEPT ![r] = "truncate"] /\ mu = Free
        /\ mu' = [mu EXCEPT !.writer = r]
        /\ copy' = [copy EXCEPT ![r] = memory']
        /\ UNCHANGED <<up, file, process, what, mine>>
    BY DEF Lock, Goto, Unlocked, past
  <1>2. /\ what[r].id \in Identifiers /\ what[r].op \in {"update", "delete"}
        /\ what[r] \in Operations /\ memory' \in Configurations
    BY LockMemory
  <1>3. mu.writer = None /\ mu'.writer = r /\ mu'.readers = {} /\ r # None
    BY <1>1, ConstantsAssumption DEF Free
  <1>4. Moves(r, "truncate") /\ copy'[r] = memory'
    BY <1>1 DEF Moves, TInv, Shapes
  <1>5. mu.readers = {}
    BY <1>1 DEF Free
  <1>6. MuOK'
    BY <1>1, <1>2, <1>3, <1>4, <1>5, OthersMu, ConstantsAssumption DEF Is
  <1>7. Stands(r)'
    <2>1. pc'[r] = "truncate"
      BY <1>1 DEF TInv, Shapes
    <2> QED BY <1>1, <1>2, <2>1 DEF Stands, Saved, Active, Is
  <1>8. copy' = [q \in Requests |-> copy'[q]] /\ mu' = [writer |-> mu'.writer, readers |-> mu'.readers]
    BY <1>1 DEF TInv, Shapes
  <1>9. file' \in Configurations
    BY <1>1 DEF TInv, DataOK
  <1> QED BY <1>1, <1>2, <1>4, <1>6, <1>7, <1>8, <1>9, ConfigurationStepTyped DEF Moves

LEMMA SaveTyped ==
    ASSUME TInv, NEW r \in Requests, Truncate(r) \/ Write(r)
    PROVE  TInv'
  <1>1. /\ up /\ pc[r] \in {"truncate", "write"}
        /\ UNCHANGED <<up, memory, process, mu, what, mine, copy>>
    BY DEF Truncate, Write
  <1>2. Saved(r)
    BY <1>1 DEF Saved
  <1>3. PICK l \in {"write", "publish"} : pc' = [pc EXCEPT ![r] = l]
    BY DEF Truncate, Write, Goto
  <1>4. copy[r] \in Configurations /\ what[r] \in Operations /\ Stands(r)
    BY <1>1, <1>2 DEF TInv, MuOK, StandsOK, Stands
  <1>5. file' \in Configurations /\ memory' \in Configurations
    <2>1. CASE Truncate(r)
      BY <1>1, <2>1 DEF Truncate, Configurations, TInv, DataOK
    <2>2. CASE Write(r)
      BY <1>1, <1>4, <2>2 DEF Write, TInv, DataOK
    <2> QED BY <2>1, <2>2
  <1>6. pc'[r] = l
    BY <1>3 DEF TInv, Shapes
  <1>7. Stands(r)'
    BY <1>1, <1>2, <1>4, <1>6 DEF Stands, Saved, Active, Is
  <1>8. MuOK'
    <2>1. Moves(r, l)
      BY <1>1, <1>3 DEF Moves
    <2> QED BY <1>1, <1>2, <1>4, <2>1, OthersMu DEF TInv, MuOK
  <1>9. copy' = [q \in Requests |-> copy'[q]] /\ mu' = [writer |-> mu'.writer, readers |-> mu'.readers]
    BY <1>1 DEF TInv, Shapes
  <1> QED BY <1>1, <1>3, <1>5, <1>7, <1>8, <1>9, ConfigurationStepTyped

LEMMA PublishTyped ==
    ASSUME TInv, NEW r \in Requests, Publish(r)
    PROVE  TInv'
  <1>1. /\ up /\ pc[r] = "publish" /\ pc' = [pc EXCEPT ![r] = "answered"]
        /\ mu' = Unlock(r) /\ copy' = [copy EXCEPT ![r] = None]
        /\ UNCHANGED <<up, file, memory, process, what, mine>>
    BY DEF Publish, Goto, past
  <1>2. /\ mu'.writer = IF mu.writer = r THEN None ELSE mu.writer
        /\ mu'.readers = mu.readers \ {r} /\ None \notin Requests
        /\ mu' = [writer |-> mu'.writer, readers |-> mu'.readers]
    BY <1>1, ConstantsAssumption DEF Unlock
  <1>3. Moves(r, "answered")
    BY <1>1 DEF Moves, TInv, Shapes
  <1>4. MuOK'
    BY <1>1, <1>2, <1>3, OthersMu DEF TInv, MuOK
  <1>5. Stands(r)'
    <2>1. pc'[r] = "answered" /\ what[r] \in Operations
      BY <1>1 DEF TInv, Shapes, StandsOK, Stands
    <2> QED BY <1>1, <2>1 DEF Stands, Saved, Active, Is
  <1>6. copy' = [q \in Requests |-> copy'[q]]
    BY <1>1 DEF TInv, Shapes
  <1>7. file' \in Configurations /\ memory' \in Configurations
    BY <1>1 DEF TInv, DataOK
  <1> QED BY <1>1, <1>2, <1>3, <1>4, <1>5, <1>6, <1>7, ConfigurationStepTyped DEF Moves

LEMMA CrashTyped ==
    ASSUME TInv, (\E r \in Requests : Crash(r)) \/ Restart
    PROVE  TInv'
  <1>1. CASE \E r \in Requests : Crash(r)
    <2>1. /\ ~up' /\ pc' = [q \in Requests |-> IF Active(q) THEN "lost" ELSE pc[q]]
          /\ UNCHANGED <<file, memory, process, mu, what, mine, copy>>
      BY <1>1 DEF Crash
    <2>2. \A q \in Requests : pc'[q] \in {"idle", "lost", "answered"} /\ (pc'[q] # "idle" => pc[q] # "idle")
      BY <2>1 DEF Active
    <2>3. StandsOK'
      BY <2>1, <2>2 DEF TInv, StandsOK, Stands, Active, Saved, Is
    <2>4. DataOK' /\ MuOK' /\ Shapes' /\ NobodyLeft'
      BY <2>1, <2>2 DEF TInv, DataOK, MuOK, Shapes, NobodyLeft, process, Active
    <2> QED BY <2>3, <2>4 DEF TInv
  <1>2. CASE Restart
    <2>1. /\ ~up /\ up' /\ memory' = file /\ objects' = <<>> /\ fresh' = None /\ boot' = <<file.managers>>
          /\ mu' = Free /\ mine' = [r \in Requests |-> None] /\ copy' = [r \in Requests |-> None]
          /\ managers' = [id \in Identifiers |-> None] /\ UNCHANGED <<file, pc, what>>
      BY <1>2 DEF Restart
    <2>2. \A q \in Requests : pc[q] \in {"idle", "lost", "answered"}
      BY <2>1 DEF TInv, NobodyLeft, Active
    <2>3. DataOK'
      <3>1. file.managers \in Seq(Entries) /\ file \in Configurations
        BY DEF TInv, DataOK, Configurations
      <3>2. boot' \in Seq(Seq(Entries))
        BY <2>1, <3>1
      <3> QED BY <2>1, <3>1, <3>2 DEF DataOK
    <2>4. MuOK'
      BY <2>1, <2>2, ConstantsAssumption DEF MuOK, Saved, Free
    <2>5. StandsOK'
      BY <2>1, <2>2 DEF TInv, StandsOK, Stands, Active, Saved, Is
    <2>6. Shapes' /\ NobodyLeft'
      BY <2>1, <2>2 DEF TInv, Shapes, NobodyLeft, Free
    <2> QED BY <2>3, <2>4, <2>5, <2>6 DEF TInv
  <1> QED BY <1>1, <1>2

LEMMA NextTInv == TInv /\ [Next]_vars => TInv'
  <1> SUFFICES ASSUME TInv, [Next]_vars PROVE TInv'
    OBVIOUS
  <1>1. CASE Start
    BY <1>1, StartTyped
  <1>2. CASE Restart
    BY <1>2, CrashTyped
  <1>3. ASSUME NEW r \in Requests, Step(r) PROVE TInv'
    <2>1. CASE \/ Make(r) \/ Configure(r) \/ Initialize(r) \/ Connect(r)
               \/ FailInitialize(r) \/ CloseManager(r)
      BY <2>1, MakeTyped, MineTyped
    <2> QED BY <1>3, <2>1, AppendTyped, ReadLockTyped, SwapTyped, LockTyped, SaveTyped,
               PublishTyped, CrashTyped DEF Step
  <1>4. ASSUME NEW r \in Requests, NEW operation \in Operations, Begin(r, operation) PROVE TInv'
    BY <1>4, BeginTyped
  <1>5. CASE UNCHANGED vars
    BY <1>5 DEF vars, process, request, past, TInv, Shapes, NobodyLeft, DataOK, MuOK, StandsOK,
                Stands, Saved, Active, Is
  <1> QED BY <1>1, <1>2, <1>3, <1>4, <1>5 DEF Next

\* The map of managers only names objects there are, and configurationMu is held by
\* exactly those who are between taking it and their answer.
THEOREM ManagersTyped == Spec => []TypeOK
  <1>1. TInv => TypeOK
    BY TInvTypeOK
  <1> QED BY <1>1, InitTInv, NextTInv, PTL DEF Spec

-----------------------------------------------------------------------------
(* The managers through requests, failures, crashes and restarts            *)

\* Those who are about the same manager at once are recorded, and so are those who
\* are about one while the managers are started.
Apart ==
    /\ \A q, r \in Requests :
          q # r /\ Active(q) /\ Active(r) /\ what[q].id = what[r].id => what[q].id \in contended
    /\ boot # <<>> => \A r \in Requests : Active(r) => what[r].id \in contended

LEMMA ApartStays ==
    ASSUME TInv, Apart, UNCHANGED <<what, contended>>,
           \A r \in Requests : Active(r)' => Active(r),
           boot' # <<>> => boot # <<>> \/ \A r \in Requests : ~Active(r)
    PROVE  Apart'
  BY DEF Apart

LEMMA StepActive ==
    ASSUME TInv, NEW r \in Requests, Step(r)
    PROVE  /\ UNCHANGED <<what, contended>> /\ \A q \in Requests : Active(q)' => Active(q)
           /\ UNCHANGED boot /\ up
  <1>1. UNCHANGED <<what, contended, boot>> /\ up
    BY DEF Step, Make, AppendEntry, ReadLock, Swap, Configure, Initialize, Connect, FailInitialize,
           CloseManager, Lock, Truncate, Write, Publish, Crash, past, process
  <1>2. CASE Crash(r)
    BY <1>1, <1>2 DEF Crash, Active
  <1>3. CASE ~Crash(r)
    <2>1. \E l : pc' = [pc EXCEPT ![r] = l]
      BY <1>3 DEF Step, Make, AppendEntry, ReadLock, Swap, Configure, Initialize, Connect,
         FailInitialize, CloseManager, Lock, Truncate, Write, Publish, Goto
    <2>2. pc[r] \notin {"idle", "answered", "lost"}
      BY <1>3 DEF Step, Make, AppendEntry, ReadLock, Swap, Configure, Initialize, Connect,
         FailInitialize, CloseManager, Lock, Truncate, Write, Publish
    <2> QED BY <1>1, <2>1, <2>2 DEF TInv, Shapes, Active
  <1> QED BY <1>2, <1>3

LEMMA BeginApart ==
    ASSUME TInv, Apart, NEW r \in Requests, NEW operation \in Operations, Begin(r, operation)
    PROVE  Apart'
  <1>1. /\ what' = [what EXCEPT ![r] = operation] /\ pc[r] = "idle" /\ UNCHANGED boot
        /\ contended' = IF boot # <<>> \/ \E q \in Requests : Active(q) /\ what[q].id = operation.id
                        THEN contended \union {operation.id} ELSE contended
    BY DEF Begin, process
  <1>2. \E l : pc' = [pc EXCEPT ![r] = l]
    BY DEF Begin, Goto
  <1>3. what'[r] = operation /\ \A q \in Requests : q # r => what'[q] = what[q] /\ pc'[q] = pc[q]
    BY <1>1, <1>2 DEF TInv, Shapes
  <1>4. \A q \in Requests : q # r => (Active(q)' <=> Active(q)) /\ what'[q].id = what[q].id
    BY <1>3 DEF Active
  <1>5. contended \subseteq contended' /\ (boot # <<>> => operation.id \in contended')
    BY <1>1
  <1>6. \A q \in Requests : Active(q) /\ what[q].id = operation.id => operation.id \in contended'
    BY <1>1
  <1>7. ASSUME NEW p \in Requests, NEW q \in Requests, p # q, Active(p)', Active(q)',
               what'[p].id = what'[q].id
        PROVE  what'[p].id \in contended'
    <2>1. CASE p = r
      BY <1>3, <1>4, <1>6, <1>7, <2>1
    <2>2. CASE q = r
      BY <1>3, <1>4, <1>6, <1>7, <2>2
    <2>3. CASE p # r /\ q # r
      BY <1>4, <1>5, <1>7, <2>3 DEF Apart
    <2> QED BY <2>1, <2>2, <2>3
  <1>8. boot' # <<>> => \A q \in Requests : Active(q)' => what'[q].id \in contended'
    BY <1>1, <1>3, <1>4, <1>5 DEF Apart
  <1> QED BY <1>7, <1>8 DEF Apart

LEMMA NextApart ==
    ASSUME TInv, Apart, [Next]_vars
    PROVE  Apart'
  <1>1. CASE Start
    <2>1. UNCHANGED <<pc, what, contended>> /\ boot # <<>>
      BY <1>1 DEF Start, StartNext, StartDone, StartFails, request, past, TInv, DataOK
    <2> QED BY <2>1, ApartStays DEF Active
  <1>2. CASE Restart
    <2>1. UNCHANGED <<pc, what, contended>> /\ ~up
      BY <1>2 DEF Restart, past
    <2> QED BY <2>1, ApartStays DEF Active, TInv, NobodyLeft
  <1>3. ASSUME NEW r \in Requests, Step(r) PROVE Apart'
    BY <1>3, StepActive, ApartStays
  <1>4. ASSUME NEW r \in Requests, NEW operation \in Operations, Begin(r, operation) PROVE Apart'
    BY <1>4, BeginApart
  <1>5. CASE UNCHANGED vars
    BY <1>5 DEF vars, process, request, past, Apart, Active
  <1> QED BY <1>1, <1>2, <1>3, <1>4, <1>5 DEF Next
-----------------------------------------------------------------------------
\* A manager is accepted once it was written and until it is deleted.
Kept == accepted \ contended

KeptOK ==
    ~overlapped /\ ~torn =>
        /\ up => Kept \subseteq Ids(memory.managers)
        /\ (\A r \in Requests : pc[r] # "write") => Kept \subseteq Ids(file.managers)
        /\ \A r \in Requests : Saving(r) => Kept \subseteq Ids(copy[r].managers)

\* What a create is going to accept is in memory.
CreatedOK ==
    \A r \in Requests : Is(r, "create") /\ pc[r] \in {"rlock", "truncate", "write"} =>
        what[r].id \in contended \union Ids(memory.managers)

DeletedOK ==
    \A r \in Requests : Is(r, "delete") /\ pc[r] = "lock" =>
        what[r].id \in contended \/ what[r].id \notin accepted

\* When a create writes, those that save at the same time save what it does.
WriterOK ==
    ~overlapped => \A r, q \in Requests :
        pc[r] = "write" /\ Is(r, "create") /\ Saving(q) => copy[q] = memory

KeptInv == TInv /\ LockInv /\ Apart /\ KeptOK /\ CreatedOK /\ DeletedOK /\ WriterOK

LEMMA InitKeptInv == Init => KeptInv
  <1> SUFFICES ASSUME Init PROVE KeptInv
    OBVIOUS
  <1>1. TInv /\ LockInv
    BY InitTInv, InitLockInv
  <1>2. Apart /\ CreatedOK /\ DeletedOK /\ WriterOK
    BY DEF Init, Apart, Active, CreatedOK, DeletedOK, WriterOK
  <1>3. KeptOK
    BY DEF Init, KeptOK, Kept, Saving
  <1> QED BY <1>1, <1>2, <1>3 DEF KeptInv

KeptRest == KeptOK /\ CreatedOK /\ DeletedOK /\ WriterOK

\* A step of r to l that leaves the configuration, the file and the saves alone.
LEMMA KeptAside ==
    ASSUME KeptInv, NEW r \in Requests, NEW l, Moves(r, l), UNCHANGED <<up, file, memory>>,
           pc[r] # "write", l \notin {"rlock", "truncate", "write"},
           accepted' \subseteq accepted, contended \subseteq contended',
           UNCHANGED <<overlapped, torn>>,
           l = "lock" /\ Is(r, "delete")' =>
               what'[r].id \in contended' \/ what'[r].id \notin accepted'
    PROVE  KeptRest'
  <1>1. pc'[r] = l /\ \A q \in Requests : q # r => pc'[q] = pc[q]
    BY MovesTo DEF KeptInv
  <1>2. \A q \in Requests : q # r => what'[q] = what[q] /\ copy'[q] = copy[q]
    BY DEF Moves
  <1>3. Kept' \subseteq Kept
    BY DEF Kept
  <1>4. KeptOK'
    BY <1>1, <1>2, <1>3 DEF KeptInv, KeptOK, Saving
  <1>5. CreatedOK'
    BY <1>1, <1>2 DEF KeptInv, CreatedOK, Is
  <1>6. DeletedOK'
    BY <1>1, <1>2 DEF KeptInv, DeletedOK, Is
  <1>7. WriterOK'
    BY <1>1, <1>2 DEF KeptInv, WriterOK, Is, Saving
  <1> QED BY <1>4, <1>5, <1>6, <1>7 DEF KeptRest

LEMMA BeginKept ==
    ASSUME KeptInv, NEW r \in Requests, NEW operation \in Operations, Begin(r, operation)
    PROVE  KeptRest'
  <1>1. operation.op \in {"create", "delete", "update", "initialize", "options"}
    BY DEF Operations
  <1>2. \E l \in {"swap", "answered", "make", "configure", "initialize", "close"} :
           pc' = [pc EXCEPT ![r] = l]
    BY <1>1 DEF Begin, Goto
  <1>3. PICK l \in {"swap", "answered", "make", "configure", "initialize", "close"} :
           pc' = [pc EXCEPT ![r] = l]
    BY <1>2
  <1>4. Moves(r, l)
    BY <1>3 DEF Begin, Moves, KeptInv, TInv, Shapes
  <1>5. /\ UNCHANGED <<up, file, memory, accepted, overlapped, torn>> /\ pc[r] = "idle"
        /\ contended \subseteq contended'
    BY DEF Begin
  <1> QED BY <1>3, <1>4, <1>5, KeptAside

LEMMA AsideKept ==
    ASSUME KeptInv, NEW r \in Requests,
           \/ Make(r) \/ Configure(r) \/ Initialize(r) \/ Connect(r) \/ FailInitialize(r)
           \/ CloseManager(r) \/ Publish(r)
    PROVE  KeptRest'
  <1>1. \E l \in {"append", "initialize", "connect", "lock", "answered"} :
           pc' = [pc EXCEPT ![r] = l] /\ (l = "lock" => Is(r, "update") \/ CloseManager(r))
    BY DEF Make, Configure, Initialize, Connect, FailInitialize, CloseManager, Publish, Goto
  <1>2. PICK l \in {"append", "initialize", "connect", "lock", "answered"} :
           pc' = [pc EXCEPT ![r] = l] /\ (l = "lock" => Is(r, "update") \/ CloseManager(r))
    BY <1>1
  <1>3. UNCHANGED <<up, file, memory, what, contended, overlapped, torn>> /\ pc[r] # "write"
    BY DEF Make, Configure, Initialize, Connect, FailInitialize, CloseManager, Publish, past
  <1>4. UNCHANGED copy \/ copy' = [copy EXCEPT ![r] = None]
    BY DEF Make, Configure, Initialize, Connect, FailInitialize, CloseManager, Publish
  <1>5. UNCHANGED mine
    BY DEF Make, Configure, Initialize, Connect, FailInitialize, CloseManager, Publish
  <1>6. Moves(r, l)
    BY <1>2, <1>3, <1>4, <1>5 DEF Moves, KeptInv, TInv, Shapes
  <1>7. UNCHANGED accepted \/ (CloseManager(r) /\ accepted' = accepted \ {what[r].id})
    BY DEF Make, Configure, Initialize, Connect, FailInitialize, CloseManager, Publish, past
  <1>8. l = "lock" /\ Is(r, "delete")' => what'[r].id \notin accepted'
    <2> HAVE l = "lock" /\ Is(r, "delete")'
    <2>1. CloseManager(r)
      BY <1>2, <1>3 DEF Is
    <2>2. accepted' = accepted \ {what[r].id}
      BY <2>1 DEF CloseManager
    <2> QED BY <1>3, <2>2
  <1> QED BY <1>2, <1>3, <1>6, <1>7, <1>8, KeptAside

\* The configuration is changed while nobody who holds the lock saves it.
LEMMA ChangeKept ==
    ASSUME KeptInv, NEW r \in Requests, AppendEntry(r) \/ Swap(r) \/ Lock(r)
    PROVE  KeptRest'
  <1>1. /\ up /\ UNCHANGED <<up, file, what, accepted, contended, overlapped, torn>> /\ mu = Free
        /\ pc[r] \in {"append", "swap", "lock"}
    BY DEF AppendEntry, Swap, Lock, Unlocked, past
  <1>2. \A q \in Requests : q # r => pc'[q] = pc[q] /\ copy'[q] = copy[q]
    BY DEF AppendEntry, Swap, Lock, Goto, KeptInv, TInv, Shapes
  <1>3. pc'[r] \in {"rlock", "truncate"} /\ (Saving(r)' => copy'[r] = memory')
    BY DEF AppendEntry, Swap, Lock, Goto, KeptInv, TInv, Shapes, Saving
  <1>4. \A q \in Requests : ~(pc[q] = "write" /\ Is(q, "create"))
    BY <1>1 DEF KeptInv, TInv, MuOK, Saved, Free
  <1>5. /\ Ids(memory.managers) \ {what[r].id} \subseteq Ids(memory'.managers)
        /\ what[r].id \in Ids(memory'.managers) \/ what[r].id \notin Ids(memory.managers) \/ Lock(r)
        /\ Lock(r) /\ ~Is(r, "delete") => what[r].id \in Ids(memory'.managers)
        /\ AppendEntry(r) => what[r].id \in Ids(memory'.managers)
        /\ what[r].op # "delete" => Ids(memory.managers) \subseteq Ids(memory'.managers)
    <2>1. memory.managers \in Seq(Entries) /\ memory \in Configurations
      BY DEF KeptInv, TInv, DataOK, Configurations
    <2>2. CASE AppendEntry(r)
      <3>1. Is(r, "create") /\ what[r].id \in Identifiers
        BY <2>2 DEF AppendEntry, KeptInv, TInv, StandsOK, Stands, Active, Is
      <3>2. Entry(what[r].id, r) \in Entries /\ Entry(what[r].id, r).id = what[r].id
        BY <3>1 DEF Entry, Entries
      <3>3. memory'.managers = Append(memory.managers, Entry(what[r].id, r))
        BY <2>1, <2>2 DEF AppendEntry, Configurations
      <3>4. Ids(memory'.managers) = Ids(memory.managers) \union {what[r].id}
        BY <2>1, <3>2, <3>3, AppendKeeps
      <3>5. ~Lock(r)
        BY <2>2 DEF AppendEntry, Lock
      <3> QED BY <3>4, <3>5
    <2>3. CASE Swap(r)
      <3>1. memory'.managers = memory.managers
        BY <2>1, <2>3 DEF Swap, Configurations
      <3>2. ~Lock(r) /\ ~AppendEntry(r)
        BY <2>3 DEF Swap, Lock, AppendEntry
      <3> QED BY <3>1, <3>2
    <2>4. CASE Lock(r)
      <3> DEFINE others == Without(memory.managers, what[r].id)
      <3>1. /\ others \in Seq(Entries) /\ Entry(what[r].id, r) \in Entries
            /\ what[r].op \in {"update", "delete"}
            /\ memory'.managers = IF Is(r, "update") THEN Append(others, Entry(what[r].id, r)) ELSE others
        <4>1. TInv
          BY DEF KeptInv
        <4>2. /\ others \in Seq(Entries) /\ Entry(what[r].id, r) \in Entries
              /\ what[r].op \in {"update", "delete"}
              /\ memory' = [options |-> memory.options, managers |->
                    IF Is(r, "update") THEN Append(others, Entry(what[r].id, r)) ELSE others]
          BY <2>4, <4>1, LockMemory, Zenon
        <4> HIDE DEF others
        <4> QED BY <4>2
      <3>2. Ids(others) = Ids(memory.managers) \ {what[r].id}
        BY <2>1, WithoutKeeps
      <3> HIDE DEF others
      <3>3. Ids(Append(others, Entry(what[r].id, r))) = Ids(others) \union {what[r].id}
        BY <3>1, AppendKeeps DEF Entry
      <3>4. ~AppendEntry(r)
        BY <2>4 DEF AppendEntry, Lock
      <3> QED BY <2>4, <3>1, <3>2, <3>3, <3>4 DEF Is
    <2> QED BY <2>2, <2>3, <2>4
  <1>6. Is(r, "delete") => pc[r] = "lock"
    BY <1>1 DEF KeptInv, TInv, StandsOK, Stands, Is
  <1>7. KeptOK'
    <2> SUFFICES ASSUME ~overlapped, ~torn PROVE KeptOK'
      BY <1>1 DEF KeptOK
    <2>1. UNCHANGED Kept
      BY <1>1 DEF Kept
    <2>2. Kept \subseteq Ids(memory.managers)
      BY <1>1 DEF KeptInv, KeptOK
    <2>3. Kept \subseteq Ids(memory'.managers)
      <3>1. CASE Is(r, "delete")
        <4>1. what[r].id \notin Kept
          BY <1>6, <3>1 DEF KeptInv, DeletedOK, Kept
        <4> QED BY <1>5, <2>2, <4>1
      <3>2. CASE ~Is(r, "delete")
        BY <1>5, <2>2, <3>2 DEF Is
      <3> QED BY <3>1, <3>2
    <2>4. \A q \in Requests : Saving(q)' => Kept \subseteq Ids(copy'[q].managers)
      <3> TAKE q \in Requests
      <3>1. CASE q = r
        BY <1>3, <2>3, <3>1
      <3>2. CASE q # r
        BY <1>2, <3>2 DEF KeptInv, KeptOK, Saving
      <3> QED BY <3>1, <3>2
    <2>5. (\A q \in Requests : pc'[q] # "write") => \A q \in Requests : pc[q] # "write"
      BY <1>1, <1>2
    <2> QED BY <1>1, <2>1, <2>3, <2>4, <2>5 DEF KeptInv, KeptOK
  <1>8. CreatedOK'
    <2> SUFFICES ASSUME NEW q \in Requests, Is(q, "create")', pc'[q] \in {"rlock", "truncate", "write"}
                 PROVE  what[q].id \in contended \union Ids(memory'.managers)
      BY <1>1 DEF CreatedOK
    <2>1. Is(q, "create")
      BY <1>1 DEF Is
    <2>2. CASE q = r
      <3>1. AppendEntry(r)
        BY <1>1, <2>1, <2>2 DEF Swap, Lock, KeptInv, TInv, StandsOK, Stands, Is
      <3> QED BY <1>5, <2>2, <3>1
    <2>3. CASE q # r
      <3>1. what[q].id \in contended \union Ids(memory.managers)
        BY <1>2, <2>1, <2>3 DEF KeptInv, CreatedOK
      <3>2. what[q].id = what[r].id => what[q].id \in contended
        <4>1. Active(q) /\ Active(r)
          BY <1>1, <1>2, <2>3 DEF Active
        <4> QED BY <2>3, <4>1 DEF KeptInv, Apart
      <3> QED BY <1>5, <3>1, <3>2
    <2> QED BY <2>2, <2>3
  <1>9. DeletedOK'
    BY <1>1, <1>2, <1>3 DEF KeptInv, DeletedOK, Is
  <1>10. WriterOK'
    BY <1>1, <1>2, <1>3, <1>4 DEF WriterOK, Is
  <1> QED BY <1>7, <1>8, <1>9, <1>10 DEF KeptRest

LEMMA ReadLockKept ==
    ASSUME KeptInv, NEW r \in Requests, ReadLock(r)
    PROVE  KeptRest'
  <1>1. /\ up /\ UNCHANGED <<up, file, memory, what, accepted, contended, overlapped, torn>>
        /\ pc[r] = "rlock" /\ pc' = [pc EXCEPT ![r] = "truncate"] /\ copy' = [copy EXCEPT ![r] = memory]
    BY DEF ReadLock, Goto, past
  <1>2. pc'[r] = "truncate" /\ copy'[r] = memory
    BY <1>1 DEF KeptInv, TInv, Shapes
  <1>3. \A q \in Requests : q # r => pc'[q] = pc[q] /\ copy'[q] = copy[q]
    BY <1>1 DEF KeptInv, TInv, Shapes
  <1>4. UNCHANGED Kept
    BY <1>1 DEF Kept
  <1>5. KeptOK'
    BY <1>1, <1>2, <1>3, <1>4 DEF KeptInv, KeptOK, Saving
  <1>6. CreatedOK' /\ DeletedOK' /\ WriterOK'
    BY <1>1, <1>2, <1>3 DEF KeptInv, CreatedOK, DeletedOK, WriterOK, Is, Saving
  <1> QED BY <1>5, <1>6 DEF KeptRest

LEMMA TruncateKept ==
    ASSUME KeptInv, NEW r \in Requests, Truncate(r)
    PROVE  KeptRest'
  <1>1. /\ up /\ UNCHANGED <<up, memory, what, copy, accepted, contended, torn>>
        /\ pc[r] = "truncate" /\ pc' = [pc EXCEPT ![r] = "write"]
        /\ overlapped' = (overlapped \/ \E q \in Requests \ {r} : Saving(q) /\ copy[q] # copy[r])
    BY DEF Truncate, Goto
  <1>2. pc'[r] = "write" /\ \A q \in Requests : q # r => pc'[q] = pc[q]
    BY <1>1 DEF KeptInv, TInv, Shapes
  <1>3. \A q \in Requests : Saving(q)' <=> Saving(q)
    BY <1>1, <1>2 DEF Saving
  <1>4. KeptOK'
    <2>1. UNCHANGED Kept
      BY <1>1 DEF Kept
    <2> QED BY <1>1, <1>2, <1>3, <2>1 DEF KeptInv, KeptOK
  <1>5. CreatedOK' /\ DeletedOK'
    BY <1>1, <1>2 DEF KeptInv, CreatedOK, DeletedOK, Is
  <1>6. WriterOK'
    <2> SUFFICES ASSUME ~overlapped', NEW w \in Requests, NEW q \in Requests,
                        pc'[w] = "write", Is(w, "create")', Saving(q)'
                 PROVE  copy[q] = memory
      BY <1>1 DEF WriterOK
    <2>1. CASE w = r
      <3>1. Is(r, "create") /\ Saved(r)
        BY <1>1, <2>1 DEF Is, Saved
      <3>2. copy[r] = memory
        BY <1>1, <3>1 DEF KeptInv, LockInv, HeldIsMemory, OfOptions, Is
      <3> QED BY <1>1, <1>3, <3>2
    <2>2. CASE w # r
      BY <1>1, <1>2, <1>3, <2>2 DEF KeptInv, WriterOK, Is
    <2> QED BY <2>1, <2>2
  <1> QED BY <1>4, <1>5, <1>6 DEF KeptRest

LEMMA WriteKept ==
    ASSUME KeptInv, NEW r \in Requests, Write(r)
    PROVE  KeptRest'
  <1>1. /\ up /\ UNCHANGED <<up, memory, what, copy, contended, overlapped, torn>>
        /\ pc[r] = "write" /\ pc' = [pc EXCEPT ![r] = "publish"] /\ file' = copy[r]
        /\ accepted' = IF Is(r, "create") THEN accepted \union {what[r].id} ELSE accepted
    BY DEF Write, Goto
  <1>2. pc'[r] = "publish" /\ \A q \in Requests : q # r => pc'[q] = pc[q]
    BY <1>1 DEF KeptInv, TInv, Shapes
  <1>3. \A q \in Requests : Saving(q)' => Saving(q)
    BY <1>1, <1>2 DEF Saving
  <1>4. KeptOK'
    <2> SUFFICES ASSUME ~overlapped, ~torn PROVE KeptOK'
      BY <1>1 DEF KeptOK
    <2>1. /\ Kept \subseteq Ids(memory.managers)
          /\ \A q \in Requests : Saving(q) => Kept \subseteq Ids(copy[q].managers)
      BY <1>1 DEF KeptInv, KeptOK
    <2>2. Kept' \subseteq Kept \union (IF Is(r, "create") THEN {what[r].id} \ contended ELSE {})
      BY <1>1 DEF Kept
    <2>3. Saving(r)
      BY <1>1 DEF Saving
    <2>4. Kept' \subseteq Ids(memory.managers)
          /\ \A q \in Requests : Saving(q) => Kept' \subseteq Ids(copy[q].managers)
      <3>1. CASE Is(r, "create")
        <4>1. {what[r].id} \ contended \subseteq Ids(memory.managers)
          BY <1>1, <3>1 DEF KeptInv, CreatedOK
        <4>2. \A q \in Requests : Saving(q) => copy[q] = memory
          BY <1>1, <3>1 DEF KeptInv, WriterOK
        <4> QED BY <2>1, <2>2, <3>1, <4>1, <4>2
      <3>2. CASE ~Is(r, "create")
        BY <2>1, <2>2, <3>2
      <3> QED BY <3>1, <3>2
    <2> QED BY <1>1, <1>3, <2>3, <2>4 DEF KeptOK
  <1>5. CreatedOK' /\ WriterOK'
    BY <1>1, <1>2, <1>3 DEF KeptInv, CreatedOK, WriterOK, Is
  <1>6. DeletedOK'
    <2> SUFFICES ASSUME NEW q \in Requests, Is(q, "delete")', pc'[q] = "lock"
                 PROVE  what[q].id \in contended \/ what[q].id \notin accepted'
      BY <1>1 DEF DeletedOK
    <2>1. q # r /\ Is(q, "delete") /\ pc[q] = "lock" /\ Active(q) /\ Active(r)
      BY <1>1, <1>2 DEF Is, Active
    <2>2. what[q].id \in contended \/ what[q].id \notin accepted
      BY <2>1 DEF KeptInv, DeletedOK
    <2>3. what[q].id = what[r].id => what[q].id \in contended
      BY <2>1 DEF KeptInv, Apart
    <2> QED BY <1>1, <2>2, <2>3
  <1> QED BY <1>4, <1>5, <1>6 DEF KeptRest

LEMMA CrashKept ==
    ASSUME KeptInv, (\E r \in Requests : Crash(r)) \/ Restart
    PROVE  KeptRest'
  <1>1. CASE \E r \in Requests : Crash(r)
    <2>1. /\ ~up' /\ pc' = [q \in Requests |-> IF Active(q) THEN "lost" ELSE pc[q]]
          /\ torn' = (torn \/ \E q \in Requests : pc[q] = "write")
          /\ UNCHANGED <<file, memory, what, copy, accepted, contended, overlapped>>
      BY <1>1 DEF Crash
    <2>2. \A q \in Requests : pc'[q] \notin {"rlock", "truncate", "write", "lock"}
      BY <2>1 DEF Active
    <2>3. UNCHANGED Kept
      BY <2>1 DEF Kept
    <2>4. KeptOK'
      BY <2>1, <2>2, <2>3 DEF KeptInv, KeptOK, Saving
    <2> QED BY <2>2, <2>4 DEF KeptRest, CreatedOK, DeletedOK, WriterOK, Saving
  <1>2. CASE Restart
    <2>1. /\ ~up /\ memory' = file /\ UNCHANGED <<file, pc, accepted, contended, overlapped, torn>>
      BY <1>2 DEF Restart, past
    <2>2. \A q \in Requests : pc'[q] \notin {"rlock", "truncate", "write", "lock"}
      BY <2>1 DEF KeptInv, TInv, NobodyLeft, Active
    <2>3. UNCHANGED Kept
      BY <2>1 DEF Kept
    <2>4. KeptOK'
      BY <2>1, <2>2, <2>3 DEF KeptInv, KeptOK, Saving
    <2> QED BY <2>2, <2>4 DEF KeptRest, CreatedOK, DeletedOK, WriterOK, Saving
  <1> QED BY <1>1, <1>2

LEMMA NextKeptInv == KeptInv /\ [Next]_vars => KeptInv'
  <1> SUFFICES ASSUME KeptInv, [Next]_vars PROVE KeptInv'
    OBVIOUS
  <1>1. TInv' /\ LockInv' /\ Apart'
    BY NextTInv, NextLockInv, NextApart DEF KeptInv
  <1>2. ASSUME UNCHANGED <<up, file, memory, pc, what, copy, accepted, contended, overlapped, torn>>
        PROVE  KeptRest'
    BY <1>2 DEF KeptInv, KeptRest, KeptOK, Kept, CreatedOK, DeletedOK, WriterOK, Saving, Is
  <1>3. ASSUME Start PROVE KeptRest'
    <2>1. UNCHANGED <<up, file, memory, pc, what, copy, accepted, contended, overlapped, torn>>
      BY <1>3 DEF Start, StartNext, StartDone, StartFails, request, past
    <2> QED BY <1>2, <2>1
  <1>4. ASSUME Restart PROVE KeptRest'
    BY <1>4, CrashKept
  <1>5. ASSUME NEW r \in Requests, Step(r) PROVE KeptRest'
    BY <1>5, AsideKept, ChangeKept, ReadLockKept, TruncateKept, WriteKept, CrashKept DEF Step
  <1>6. ASSUME NEW r \in Requests, NEW operation \in Operations, Begin(r, operation) PROVE KeptRest'
    BY <1>6, BeginKept
  <1>7. ASSUME UNCHANGED vars PROVE KeptRest'
    BY <1>2, <1>7 DEF vars, request, past
  <1> QED BY <1>1, <1>3, <1>4, <1>5, <1>6, <1>7 DEF Next, KeptInv, KeptRest

\* A manager that was written to the file stays configured until it is deleted,
\* through any crashes, restarts and failures, whatever the other requests.
THEOREM AcceptedKept == Spec => []AcceptedIsKept
  <1>1. KeptInv => AcceptedIsKept
    BY DEF KeptInv, KeptOK, Kept, AcceptedIsKept
  <1> QED BY <1>1, InitKeptInv, NextKeptInv, PTL DEF Spec
-----------------------------------------------------------------------------
(***************************************************************************)
(* The managers are those configured.  A manager nobody is about is        *)
(* settled: the map has it when the configuration does, or a call of       *)
(* startManagers has yet to start it (RestOK), and what such a call has    *)
(* left is still configured (BootOK).  Of one a request is about, what the *)
(* request has done to it so far is known (Stage).                         *)
(***************************************************************************)
Known(id) == id \in Ids(memory.managers)

\* The entries that the calls of startManagers have left.
Pending(calls) == {entry \in Entries : \E n \in 1..Len(calls) : Has(calls[n], entry)}

LEMMA PendingFirst ==
    ASSUME NEW list \in Seq(Entries), NEW calls \in Seq(Seq(Entries))
    PROVE  Pending(<<list>> \o calls) = {entry \in Entries : Has(list, entry)} \union Pending(calls)
  <1> DEFINE all == <<list>> \o calls
  <1>1. /\ Len(all) = Len(calls) + 1 /\ Len(calls) \in Nat /\ all[1] = list
        /\ \A n \in 1..Len(calls) : all[n + 1] = calls[n]
    OBVIOUS
  <1> HIDE DEF all
  <1>2. ASSUME NEW entry \in Entries, NEW n \in 1..Len(all), Has(all[n], entry)
        PROVE  Has(list, entry) \/ \E m \in 1..Len(calls) : Has(calls[m], entry)
    <2>1. n = 1 \/ (n - 1 \in 1..Len(calls) /\ all[n] = calls[n - 1])
      <3>1. n # 1 => n - 1 \in 1..Len(calls) /\ n = (n - 1) + 1
        BY <1>1
      <3> QED BY <1>1, <3>1
    <2> QED BY <1>1, <1>2, <2>1
  <1>3. ASSUME NEW entry \in Entries, Has(list, entry)
        PROVE  \E n \in 1..Len(all) : Has(all[n], entry)
    BY <1>1, <1>3
  <1>4. ASSUME NEW entry \in Entries, NEW m \in 1..Len(calls), Has(calls[m], entry)
        PROVE  \E n \in 1..Len(all) : Has(all[n], entry)
    <2>1. m + 1 \in 1..Len(all) /\ all[m + 1] = calls[m]
      BY <1>1
    <2> QED BY <1>4, <2>1
  <1>5. Pending(all) = {entry \in Entries : Has(list, entry)} \union Pending(calls)
    BY <1>2, <1>3, <1>4 DEF Pending
  <1> QED BY <1>5 DEF all

LEMMA HasFirst ==
    ASSUME NEW list \in Seq(Entries), list # <<>>
    PROVE  /\ Head(list) \in Entries /\ Tail(list) \in Seq(Entries)
           /\ \A entry : Has(list, entry) <=> Has(Tail(list), entry) \/ entry = Head(list)
  <1>1. /\ Len(list) \in Nat /\ Len(list) >= 1 /\ Len(Tail(list)) = Len(list) - 1
        /\ Head(list) = list[1] /\ \A n \in 1..Len(Tail(list)) : Tail(list)[n] = list[n + 1]
    OBVIOUS
  <1>2. \A n \in 1..Len(list) : n = 1 \/ (n - 1 \in 1..Len(Tail(list)) /\ list[n] = Tail(list)[n - 1])
    <2> TAKE n \in 1..Len(list)
    <2>1. n # 1 => n - 1 \in 1..Len(Tail(list)) /\ n = (n - 1) + 1
      BY <1>1
    <2> QED BY <1>1, <2>1
  <1>3. \A n \in 1..Len(Tail(list)) : n + 1 \in 1..Len(list) /\ list[n + 1] = Tail(list)[n]
    BY <1>1
  <1>4. 1 \in 1..Len(list)
    BY <1>1
  <1>5. \A entry : Has(list, entry) <=> Has(Tail(list), entry) \/ entry = Head(list)
    BY <1>1, <1>2, <1>3, <1>4, ZenonT(60) DEF Has
  <1> QED BY <1>5

LEMMA PendingNext ==
    ASSUME NEW calls \in Seq(Seq(Entries)), calls # <<>>
    PROVE  /\ Head(calls) = <<>> => Pending(Tail(calls)) = Pending(calls)
           /\ Head(calls) # <<>> => Pending(calls) =
                 Pending(<<Tail(Head(calls))>> \o Tail(calls)) \union {Head(Head(calls))}
  <1>1. /\ calls = <<Head(calls)>> \o Tail(calls) /\ Head(calls) \in Seq(Entries)
        /\ Tail(calls) \in Seq(Seq(Entries))
    OBVIOUS
  <1> DEFINE first == Head(calls)
             rest == Tail(calls)
  <1>2. Pending(calls) = {entry \in Entries : Has(first, entry)} \union Pending(rest)
    <2>1. Pending(<<first>> \o rest) = {entry \in Entries : Has(first, entry)} \union Pending(rest)
      BY <1>1, PendingFirst
    <2> QED BY <1>1, <2>1
  <1> HIDE DEF rest, first
  <1>3. CASE first = <<>>
    <2>1. \A entry : ~Has(first, entry)
      BY <1>3 DEF Has
    <2> QED BY <1>2, <1>3, <2>1 DEF first, rest
  <1>4. CASE first # <<>>
    <2>1. /\ Head(first) \in Entries /\ Tail(first) \in Seq(Entries)
          /\ \A entry : Has(first, entry) <=> Has(Tail(first), entry) \/ entry = Head(first)
      BY <1>1, <1>4, HasFirst DEF first
    <2>2. Pending(<<Tail(first)>> \o rest) = {entry \in Entries : Has(Tail(first), entry)} \union Pending(rest)
      BY <1>1, <2>1, PendingFirst DEF rest
    <2>3. Pending(calls) = Pending(<<Tail(first)>> \o rest) \union {Head(first)}
      BY <1>2, <2>1, <2>2
    <2> QED BY <1>4, <2>3 DEF first, rest
  <1> QED BY <1>3, <1>4

\* The manager of id is configured as its object is, or has yet to be started.
Settled(id) ==
    /\ managers[id] # None =>
          Known(id) /\ (~failed => Has(memory.managers, objects[managers[id]].config))
    /\ Known(id) => managers[id] # None \/ \E entry \in Pending(boot) : entry.id = id

\* What a request that is alone with its manager has done to it so far.
Stage(r) ==
    LET id == what[r].id
        manager == managers[id]
    IN
    /\ pc[r] = "make" => manager = None /\ ~Known(id)
    /\ pc[r] = "append" => manager # None /\ ~Known(id) /\ objects[manager].config = Entry(id, r)
    /\ pc[r] \in {"configure", "close"} \/ (Is(r, "initialize") /\ pc[r] \in {"initialize", "connect"}) =>
          manager = mine[r] /\ Settled(id)
    /\ Is(r, "update") /\ pc[r] \in {"initialize", "connect", "lock"} =>
          manager = mine[r] /\ Known(id) /\ objects[manager].config = Entry(id, r)
    /\ Is(r, "delete") /\ pc[r] = "lock" => manager = None
    /\ pc[r] = "rlock" \/ Saved(r) => Settled(id)

Alone(r) == Active(r) /\ ~Is(r, "options") /\ what[r].id \notin contended

StageOK == \A r \in Requests : Alone(r) => Stage(r)

RestOK ==
    up => \A id \in Identifiers \ contended :
        (\A r \in Requests : Active(r) => what[r].id # id) => Settled(id)

BootOK == up => \A entry \in Pending(boot) : entry.id \in contended \/ Has(memory.managers, entry)

UniqueOK ==
    /\ Unique(memory.managers) /\ Unique(file.managers)
    /\ \A r \in Requests : Saved(r) => Unique(copy[r].managers)

HomeInv == TInv /\ Apart /\ UniqueOK /\ StageOK /\ RestOK /\ BootOK

\* A step that leaves what is known of the manager of id as it is.
Untouched(id) ==
    /\ managers'[id] = managers[id]
    /\ managers[id] # None => objects'[managers[id]].config = objects[managers[id]].config
    /\ Known(id)' <=> Known(id)
    /\ \A entry : entry.id = id /\ Has(memory.managers, entry) => Has(memory'.managers, entry)
    /\ (\E entry \in Pending(boot) : entry.id = id) => \E entry \in Pending(boot') : entry.id = id

LEMMA SettledStays ==
    ASSUME TInv, NEW id \in Identifiers, Untouched(id), Settled(id), failed => failed'
    PROVE  Settled(id)'
  <1>1. managers[id] # None => objects[managers[id]].config.id = id
    BY DEF TInv, DataOK
  <1> QED BY <1>1 DEF Untouched, Settled, Known

LEMMA StageStays ==
    ASSUME TInv, NEW r \in Requests, Untouched(what[r].id), Stage(r), failed => failed',
           what[r].id \in Identifiers, pc'[r] = pc[r], what'[r] = what[r], mine'[r] = mine[r],
           Active(r)
    PROVE  Stage(r)'
  <1>1. PICK id \in Identifiers : id = what[r].id
    OBVIOUS
  <1>2. Settled(id) => Settled(id)'
    BY <1>1, SettledStays
  <1>3. /\ what'[r].id = id /\ managers'[id] = managers[id] /\ (Known(id)' <=> Known(id))
        /\ managers[id] # None => objects'[managers[id]].config = objects[managers[id]].config
    BY <1>1 DEF Untouched
  <1>4. pc[r] \in {"configure", "close", "initialize", "connect", "lock"} => mine[r] # None
    BY ConstantsAssumption DEF TInv, StandsOK, Stands
  <1> QED BY <1>1, <1>2, <1>3, <1>4 DEF Stage, Saved, Is

\* A step of r to l, with what it leaves of r's own manager.
LEMMA RequestStep ==
    ASSUME HomeInv, Apart', TInv', NEW r \in Requests, NEW l, Moves(r, l), UNCHANGED <<up, boot>>, up,
           contended \subseteq contended', failed => failed',
           Active(r) => what'[r] = what[r],
           \A id \in Identifiers : Untouched(id) \/ (Active(r) /\ id = what[r].id),
           Alone(r)' => Stage(r)',
           Alone(r) /\ ~Active(r)' => Settled(what[r].id)'
    PROVE  StageOK' /\ RestOK' /\ BootOK'
  <1>1. /\ pc'[r] = l
        /\ \A q \in Requests : q # r => pc'[q] = pc[q] /\ what'[q] = what[q] /\ mine'[q] = mine[q]
    BY MovesTo, ZenonT(60) DEF HomeInv, Moves
  <1>2. \A q \in Requests : q # r => (Active(q)' <=> Active(q))
    BY <1>1 DEF Active
  <1>3. \A q \in Requests : Active(q) /\ ~Is(q, "options") => what[q].id \in Identifiers
    BY DEF HomeInv, TInv, StandsOK, Stands
  <1>4. ASSUME NEW q \in Requests, Alone(q)' PROVE Stage(q)'
    <2>1. CASE q = r
      BY <1>4, <2>1
    <2>2. CASE q # r
      <3>1. Alone(q) /\ Active(q)
        BY <1>1, <1>2, <1>4, <2>2 DEF Alone, Is
      <3>2. what[q].id \in Identifiers /\ Stage(q)
        BY <1>3, <3>1 DEF Alone, HomeInv, StageOK
      <3>3. Untouched(what[q].id)
        BY <2>2, <3>1, <3>2 DEF HomeInv, Apart, Alone
      <3> QED BY <1>1, <2>2, <3>1, <3>2, <3>3, StageStays DEF HomeInv
    <2> QED BY <2>1, <2>2
  <1>5. ASSUME NEW id \in Identifiers, id \notin contended',
               \A q \in Requests : Active(q)' => what'[q].id # id
        PROVE  Settled(id)'
    <2>1. \A q \in Requests : q # r /\ Active(q) => what[q].id # id
      BY <1>1, <1>2, <1>5
    <2>2. CASE Active(r) /\ what[r].id = id
      <3>1. ~Active(r)' /\ Alone(r)
        <4>1. ~Active(r)'
          BY <1>5, <2>2
        <4>2. ~Is(r, "options")
          BY <2>2, ConstantsAssumption DEF HomeInv, TInv, StandsOK, Stands, Active, Is, Operations
        <4> QED BY <1>5, <2>2, <4>1, <4>2 DEF Alone
      <3>2. Settled(what[r].id)'
        BY <3>1
      <3>3. what'[r].id = id
        BY <2>2
      <3> QED BY <3>2, <3>3 DEF Settled, Known
    <2>3. CASE ~(Active(r) /\ what[r].id = id)
      <3>1. Untouched(id)
        BY <2>3
      <3>2. Settled(id)
        BY <1>5, <2>1, <2>3 DEF HomeInv, RestOK
      <3> QED BY <3>1, <3>2, SettledStays DEF HomeInv
    <2> QED BY <2>2, <2>3
  <1>6. ASSUME NEW entry \in Pending(boot'), entry.id \notin contended'
        PROVE  Has(memory'.managers, entry)
    <2>1. entry \in Pending(boot) /\ entry.id \in Identifiers /\ boot # <<>>
      BY DEF Pending, Entries
    <2>2. Has(memory.managers, entry)
      BY <1>6, <2>1 DEF HomeInv, BootOK
    <2>3. Untouched(entry.id)
      BY <1>6, <2>1 DEF HomeInv, Apart
    <2> QED BY <2>2, <2>3 DEF Untouched
  <1>7. BootOK'
    BY <1>6 DEF BootOK, Pending
  <1> QED BY <1>4, <1>5, <1>7 DEF StageOK, RestOK

LEMMA AllUntouched ==
    ASSUME TInv, UNCHANGED <<memory, managers, objects, boot>>
    PROVE  \A id \in Identifiers : Untouched(id)
  BY DEF Untouched, Known

LEMMA BeginHome ==
    ASSUME HomeInv, TInv', Apart', NEW r \in Requests, NEW operation \in Operations, Begin(r, operation)
    PROVE  StageOK' /\ RestOK' /\ BootOK'
  <1> DEFINE found == operation.id # None /\ managers[operation.id] # None
             l == CASE operation.op = "options" -> "swap"
                    [] operation.op = "create" -> IF found THEN "answered" ELSE "make"
                    [] ~found /\ operation.op \in {"update", "initialize", "delete"} -> "answered"
                    [] found /\ operation.op = "update" -> "configure"
                    [] found /\ operation.op = "initialize" -> "initialize"
                    [] found /\ operation.op = "delete" -> "close"
  <1>1. /\ operation.op \in {"create", "delete", "update", "initialize", "options"}
        /\ operation.op # "options" => operation.id \in Identifiers
    BY DEF Operations
  <1>2. /\ l \in {"swap", "answered", "make", "configure", "initialize", "close"}
        /\ l = "swap" <=> operation.op = "options"
        /\ l = "make" => operation.op = "create" /\ ~found
        /\ l = "configure" => operation.op = "update"
        /\ l = "initialize" => operation.op = "initialize"
        /\ l = "close" => operation.op = "delete"
        /\ l \in {"configure", "initialize", "close"} => found
    BY <1>1
  <1>3. /\ up /\ pc[r] = "idle" /\ pc' = [pc EXCEPT ![r] = l]
        /\ what' = [what EXCEPT ![r] = operation]
        /\ mine' = [mine EXCEPT ![r] = IF found THEN managers[operation.id] ELSE None]
        /\ UNCHANGED <<up, file, memory, managers, objects, boot, fresh, mu, copy, failed>>
        /\ contended' = IF boot # <<>> \/ \E q \in Requests : Active(q) /\ what[q].id = operation.id
                        THEN contended \union {operation.id} ELSE contended
    BY DEF Begin, Goto, process
  <1> HIDE DEF l
  <1>4. Moves(r, l) /\ what'[r] = operation /\ pc'[r] = l /\ ~Active(r)
        /\ mine'[r] = IF found THEN managers[operation.id] ELSE None
    BY <1>3 DEF Moves, HomeInv, TInv, Shapes, Active
  <1>5. \A id \in Identifiers : Untouched(id)
    BY <1>3, AllUntouched DEF HomeInv
  <1>6. ASSUME Alone(r)' PROVE Stage(r)'
    <2>1. PICK id \in Identifiers : id = operation.id
      BY <1>1, <1>2, <1>4, <1>6 DEF Alone, Is
    <2>2. boot = <<>> /\ \A q \in Requests : Active(q) => what[q].id # id
      BY <1>3, <1>4, <1>6, <2>1 DEF Alone
    <2>3. id \notin contended
      BY <1>3, <1>4, <1>6, <2>1 DEF Alone
    <2>4. Settled(id)
      BY <1>3, <2>2, <2>3 DEF HomeInv, RestOK
    <2>5. Settled(id)' /\ (Known(id)' <=> Known(id))
      BY <1>3, <1>5, <2>4, SettledStays DEF HomeInv, Untouched
    <2>6. l \in {"make", "configure", "initialize", "close"}
      BY <1>2, <1>4, <1>6 DEF Alone, Active, Is
    <2>7. ~Known(id) \/ managers[id] # None
      BY <2>2, <2>4 DEF Settled, Pending
    <2>8. found <=> managers[id] # None
      BY <2>1, ConstantsAssumption
    <2>9. what'[r].id = id /\ managers'[id] = managers[id] /\ (found => mine'[r] = managers[id])
      BY <1>3, <1>4, <2>1
    <2> HIDE DEF found
    <2> QED BY <1>2, <1>4, <2>5, <2>6, <2>7, <2>8, <2>9 DEF Stage, Is, Saved
  <1>7. contended \subseteq contended'
    BY <1>3
  <1> QED BY <1>3, <1>4, <1>5, <1>6, <1>7, RequestStep DEF Alone

LEMMA MakeHome ==
    ASSUME HomeInv, TInv', Apart', NEW r \in Requests, Make(r)
    PROVE  StageOK' /\ RestOK' /\ BootOK'
  <1>1. /\ up /\ pc[r] = "make" /\ pc' = [pc EXCEPT ![r] = "append"]
        /\ UNCHANGED <<up, memory, boot, what, mine, copy, contended, failed>>
        /\ objects' = Append(objects, NewManager(Entry(what[r].id, r)))
        /\ managers' = [managers EXCEPT ![what[r].id] = Len(objects')]
    BY DEF Make, Goto, past
  <1>2. Is(r, "create") /\ what[r].id \in Identifiers /\ Active(r)
    BY <1>1 DEF HomeInv, TInv, StandsOK, Stands, Active, Is
  <1>3. PICK entry \in Entries : entry = Entry(what[r].id, r) /\ entry.id = what[r].id
    <2>1. Entry(what[r].id, r) \in Entries /\ Entry(what[r].id, r).id = what[r].id
      BY <1>2 DEF Entry, Entries
    <2> QED BY <2>1
  <1>4. /\ Len(objects') = Len(objects) + 1 /\ managers'[entry.id] = Len(objects')
        /\ \A i \in 1..Len(objects) : objects'[i] = objects[i]
        /\ objects'[Len(objects')] = NewManager(entry)
        /\ \A id \in Identifiers : id # entry.id => managers'[id] = managers[id]
    <2>1. managers' = [managers EXCEPT ![entry.id] = Len(objects')] /\ TInv
          /\ objects' = Append(objects, NewManager(entry))
      BY <1>1, <1>3 DEF HomeInv
    <2> QED BY <2>1, ObjectAdded
  <1>5. \A id \in Identifiers : Untouched(id) \/ (Active(r) /\ id = what[r].id)
    BY <1>1, <1>2, <1>3, <1>4 DEF Untouched, Known, HomeInv, TInv, DataOK
  <1>6. Moves(r, "append") /\ pc'[r] = "append" /\ Active(r)'
    BY <1>1 DEF Moves, HomeInv, TInv, Shapes, Active
  <1>7. ASSUME Alone(r)' PROVE Stage(r)'
    <2>1. Alone(r)
      BY <1>1, <1>2, <1>7 DEF Alone, Is
    <2>2. ~Known(what[r].id)
      BY <1>1, <2>1 DEF HomeInv, StageOK, Stage
    <2>3. ~Known(what[r].id)' /\ what'[r] = what[r]
      BY <1>1, <2>2 DEF Known
    <2>4. managers'[what[r].id] # None /\ objects'[managers'[what[r].id]].config = entry
      <3>1. Len(objects') \in Nat
        BY <1>4 DEF HomeInv, TInv, DataOK
      <3> QED BY <1>3, <1>4, <3>1, ConstantsAssumption DEF NewManager
    <2> QED BY <1>2, <1>3, <1>6, <2>3, <2>4 DEF Stage, Is, Saved
  <1> QED BY <1>1, <1>5, <1>6, <1>7, RequestStep

\* The steps of initialisations and deletes.
LEMMA MineHome ==
    ASSUME HomeInv, TInv', Apart', NEW r \in Requests,
           Configure(r) \/ Initialize(r) \/ Connect(r) \/ FailInitialize(r) \/ CloseManager(r)
    PROVE  StageOK' /\ RestOK' /\ BootOK'
  <1>1. PICK id \in Identifiers : id = what[r].id
    BY MineStep DEF HomeInv
  <1>2. /\ up /\ pc[r] \in {"configure", "initialize", "connect", "close"}
        /\ UNCHANGED <<up, memory, boot, what, mine, copy>>
        /\ mine[r] \in 1..Len(objects) /\ objects[mine[r]].config.id = id
        /\ what[r].op \in {"update", "initialize", "delete"}
        /\ objects'[mine[r]].config = IF pc[r] = "configure" THEN Entry(id, r) ELSE objects[mine[r]].config
        /\ \A i \in 1..Len(objects) : i # mine[r] => objects'[i] = objects[i]
        /\ managers' = IF pc[r] = "close" THEN [managers EXCEPT ![id] = None] ELSE managers
    BY <1>1, MineStep DEF HomeInv
  <1>3. UNCHANGED contended /\ (failed => failed')
    BY DEF Configure, Initialize, Connect, FailInitialize, CloseManager, past
  <1>4. \A i \in Identifiers : Untouched(i) \/ (Active(r) /\ i = what[r].id)
    <2> SUFFICES ASSUME NEW i \in Identifiers, i # id PROVE Untouched(i)
      BY <1>1, <1>2 DEF Active
    <2>1. managers'[i] = managers[i]
      BY <1>2 DEF HomeInv, TInv, DataOK
    <2>2. managers[i] # None => objects'[managers[i]] = objects[managers[i]]
      BY <1>2, SMTT(60) DEF HomeInv, TInv, DataOK
    <2> QED BY <1>2, <2>1, <2>2 DEF Untouched, Known
  <1>5. \E l \in {"initialize", "connect", "lock", "answered"} :
           /\ pc' = [pc EXCEPT ![r] = l]
           /\ pc[r] = "configure" => l = "initialize"
           /\ pc[r] = "close" => l = "lock"
           /\ l = "answered" => Is(r, "initialize") \/ failed'
           /\ l = "lock" => Is(r, "update") \/ pc[r] = "close"
           /\ l = "initialize" => pc[r] = "configure"
    <2>1. CASE Configure(r)
      BY <2>1 DEF Configure, Goto
    <2>2. CASE Initialize(r)
      <3>1. Is(r, "update") \/ Is(r, "initialize")
        BY <2>2 DEF Initialize, HomeInv, TInv, StandsOK, Stands, Is
      <3> QED BY <2>2, <3>1 DEF Initialize, Goto
    <2>3. CASE Connect(r)
      <3>1. Is(r, "update") \/ Is(r, "initialize")
        BY <2>3 DEF Connect, HomeInv, TInv, StandsOK, Stands, Is
      <3> QED BY <2>3, <3>1 DEF Connect, Goto
    <2>4. CASE FailInitialize(r)
      BY <2>4 DEF FailInitialize, Goto
    <2>5. CASE CloseManager(r)
      BY <2>5 DEF CloseManager, Goto
    <2> QED BY <2>1, <2>2, <2>3, <2>4, <2>5
  <1>6. PICK l \in {"initialize", "connect", "lock", "answered"} :
           /\ pc' = [pc EXCEPT ![r] = l]
           /\ pc[r] = "configure" => l = "initialize"
           /\ pc[r] = "close" => l = "lock"
           /\ l = "answered" => Is(r, "initialize") \/ failed'
           /\ l = "lock" => Is(r, "update") \/ pc[r] = "close"
           /\ l = "initialize" => pc[r] = "configure"
    BY <1>5
  <1>7. Moves(r, l) /\ pc'[r] = l
    BY <1>2, <1>6 DEF Moves, HomeInv, TInv, Shapes
  <1>8. /\ pc[r] = "configure" => Is(r, "update")
        /\ pc[r] \in {"initialize", "connect"} => Is(r, "update") \/ Is(r, "initialize")
        /\ pc[r] = "close" => Is(r, "delete")
    BY DEF HomeInv, TInv, StandsOK, Stands, Is
  <1>9. Known(id)' <=> Known(id)
    BY <1>2 DEF Known
  <1>10. mine[r] # None
    BY <1>2, ConstantsAssumption DEF HomeInv, TInv, DataOK
  <1>11. ASSUME Alone(r), pc[r] # "close"
         PROVE  /\ managers'[id] = mine'[r] /\ Known(id)'
                /\ Is(r, "update") => objects'[mine[r]].config = Entry(id, r)
                /\ failed' \/ Is(r, "initialize") => Settled(id)'
    <2>1. Stage(r)
      BY <1>11 DEF HomeInv, StageOK
    <2>2. managers[id] = mine[r] /\ managers' = managers
      BY <1>1, <1>2, <1>8, <1>11, <2>1 DEF Stage
    <2>3. Known(id) /\ (Is(r, "initialize") => Settled(id))
      BY <1>1, <1>2, <1>8, <1>10, <1>11, <2>1, <2>2 DEF Stage, Settled, Is
    <2>4. Is(r, "update") => objects'[mine[r]].config = Entry(id, r)
      BY <1>1, <1>2, <1>8, <1>11, <2>1, <2>2 DEF Stage, Is
    <2>5. Is(r, "initialize") => Settled(id)'
      <3> HAVE Is(r, "initialize")
      <3>1. pc[r] # "configure"
        BY <1>8 DEF Is
      <3>2. Untouched(id)
        BY <1>2, <2>2, <3>1 DEF Untouched, Known
      <3> QED BY <1>3, <2>3, <3>2, SettledStays DEF HomeInv
    <2>6. failed' => Settled(id)'
      BY <1>9, <1>10, <2>2, <2>3 DEF Settled
    <2> QED BY <1>2, <1>9, <2>2, <2>3, <2>4, <2>5, <2>6
  <1>12. Alone(r)' => Alone(r)
    BY <1>2, <1>3 DEF Alone, Active, Is
  <1>13. what'[r].id = id /\ (Is(r, "update")' <=> Is(r, "update"))
         /\ (Is(r, "delete")' <=> Is(r, "delete")) /\ (Is(r, "initialize")' <=> Is(r, "initialize"))
    BY <1>1, <1>2 DEF Is
  <1>14. ASSUME Alone(r)' PROVE Stage(r)'
    <2>1. CASE pc[r] = "close"
      <3>1. managers'[id] = None /\ l = "lock"
        BY <1>2, <1>6, <2>1 DEF HomeInv, TInv, DataOK
      <3>2. ~Is(r, "update") /\ ~Is(r, "initialize")
        BY <1>8, <2>1 DEF Is
      <3> QED BY <1>7, <1>13, <3>1, <3>2 DEF Stage, Saved
    <2>2. CASE pc[r] # "close"
      <3>1. /\ managers'[id] = mine'[r] /\ Known(id)'
            /\ Is(r, "update") => objects'[managers'[id]].config = Entry(id, r)
            /\ Is(r, "initialize") => Settled(id)'
        BY <1>2, <1>11, <1>12, <1>14, <2>2
      <3>2. ~Is(r, "delete") /\ l \in {"initialize", "connect", "lock", "answered"}
        BY <1>2, <1>8, <2>2 DEF Is
      <3> QED BY <1>7, <1>13, <3>1, <3>2 DEF Stage, Saved
    <2> QED BY <2>1, <2>2
  <1>15. Alone(r) /\ ~Active(r)' => Settled(what[r].id)'
    <2> HAVE Alone(r) /\ ~Active(r)'
    <2>1. l = "answered" /\ pc[r] # "close"
      BY <1>6, <1>7 DEF Active
    <2>2. Settled(id)'
      BY <1>6, <1>11, <2>1
    <2> QED BY <1>13, <2>2 DEF Settled, Known
  <1> QED BY <1>2, <1>3, <1>4, <1>7, <1>14, <1>15, RequestStep

LEMMA AppendHome ==
    ASSUME HomeInv, TInv', Apart', NEW r \in Requests, AppendEntry(r)
    PROVE  StageOK' /\ RestOK' /\ BootOK' /\ Unique(memory'.managers)
  <1>1. /\ up /\ pc[r] = "append" /\ pc' = [pc EXCEPT ![r] = "rlock"]
        /\ UNCHANGED <<up, managers, objects, boot, what, mine, copy, contended, failed>>
        /\ memory' = [memory EXCEPT !.managers = Append(@, Entry(what[r].id, r))]
    BY DEF AppendEntry, Goto, past, process
  <1>2. Is(r, "create") /\ what[r].id \in Identifiers /\ Active(r)
    BY <1>1 DEF HomeInv, TInv, StandsOK, Stands, Active, Is
  <1>3. PICK entry \in Entries : entry = Entry(what[r].id, r) /\ entry.id = what[r].id
    <2>1. Entry(what[r].id, r) \in Entries /\ Entry(what[r].id, r).id = what[r].id
      BY <1>2 DEF Entry, Entries
    <2> QED BY <2>1
  <1>4. memory.managers \in Seq(Entries) /\ memory'.managers = Append(memory.managers, entry)
    BY <1>1, <1>3 DEF HomeInv, TInv, DataOK, Configurations
  <1>5. /\ Ids(memory'.managers) = Ids(memory.managers) \union {entry.id}
        /\ \A e : Has(memory'.managers, e) <=> Has(memory.managers, e) \/ e = entry
    BY <1>4, AppendKeeps
  <1>6. \A id \in Identifiers : Untouched(id) \/ (Active(r) /\ id = what[r].id)
    BY <1>1, <1>2, <1>3, <1>5 DEF Untouched, Known
  <1>7. Moves(r, "rlock") /\ pc'[r] = "rlock" /\ Active(r)'
    BY <1>1 DEF Moves, HomeInv, TInv, Shapes, Active
  <1>8. ASSUME Alone(r) PROVE managers[what[r].id] # None /\ ~Known(what[r].id)
                              /\ objects[managers[what[r].id]].config = entry
    BY <1>1, <1>3, <1>8 DEF HomeInv, StageOK, Stage
  <1>9. ASSUME Alone(r)' PROVE Stage(r)'
    <2>1. Alone(r)
      BY <1>1, <1>2, <1>9 DEF Alone, Is
    <2>2. Settled(what[r].id)'
      BY <1>1, <1>3, <1>5, <1>8, <2>1 DEF Settled, Known
    <2> QED BY <1>2, <1>7, <2>2, <1>1 DEF Stage, Is, Saved
  <1>10. Unique(memory'.managers)
    <2>1. entry.id \notin Ids(memory.managers) \ contended
      BY <1>2, <1>3, <1>8 DEF Alone, Is, Known
    <2> QED BY <1>4, <2>1, AppendKeeps DEF HomeInv, UniqueOK
  <1> QED BY <1>1, <1>6, <1>7, <1>9, <1>10, RequestStep

LEMMA LockHome ==
    ASSUME HomeInv, TInv', Apart', NEW r \in Requests, Lock(r)
    PROVE  StageOK' /\ RestOK' /\ BootOK' /\ Unique(memory'.managers)
  <1>1. /\ up /\ pc[r] = "lock" /\ pc' = [pc EXCEPT ![r] = "truncate"]
        /\ UNCHANGED <<up, managers, objects, boot, what, mine, contended, failed>>
        /\ copy' = [copy EXCEPT ![r] = memory']
    BY DEF Lock, Goto, past, process
  <1>2. PICK id \in Identifiers : id = what[r].id
    BY LockMemory DEF HomeInv
  <1>3. PICK others \in Seq(Entries) : others = Without(memory.managers, id)
    BY <1>2, LockMemory DEF HomeInv
  <1>4. PICK entry \in Entries : entry = Entry(id, r) /\ entry.id = id
    <2>1. Entry(id, r) \in Entries
      BY <1>2, LockMemory DEF HomeInv
    <2>2. Entry(id, r).id = id
      BY DEF Entry
    <2> QED BY <2>1, <2>2
  <1>5. /\ what[r].op \in {"update", "delete"} /\ memory.managers \in Seq(Entries)
        /\ memory' = [options |-> memory.options, managers |->
                         IF Is(r, "update") THEN Append(others, entry) ELSE others]
    <2>1. TInv
      BY DEF HomeInv
    <2> QED BY <1>2, <1>3, <1>4, <2>1, LockMemory, Zenon
  <1>6. /\ Ids(others) = Ids(memory.managers) \ {id}
        /\ \A e : Has(memory.managers, e) /\ e.id # id => Has(others, e)
        /\ Unique(memory.managers) => Unique(others)
    BY <1>3, <1>5, WithoutKeeps
  <1>7. /\ Ids(Append(others, entry)) = Ids(others) \union {id}
        /\ \A e : Has(Append(others, entry), e) <=> Has(others, e) \/ e = entry
        /\ Unique(others) => Unique(Append(others, entry))
    BY <1>4, <1>6, AppendKeeps
  <1>8. /\ \A i : i # id => (i \in Ids(memory'.managers) <=> i \in Ids(memory.managers))
        /\ id \in Ids(memory'.managers) <=> Is(r, "update")
        /\ \A e : Has(memory.managers, e) /\ e.id # id => Has(memory'.managers, e)
        /\ Is(r, "update") => Has(memory'.managers, entry)
        /\ Unique(memory'.managers)
    BY <1>5, <1>6, <1>7 DEF HomeInv, UniqueOK
  <1>9. Active(r)
    BY <1>1 DEF Active
  <1>10. \A i \in Identifiers : Untouched(i) \/ (Active(r) /\ i = what[r].id)
    BY <1>1, <1>2, <1>8, <1>9 DEF Untouched, Known
  <1>11. Moves(r, "truncate") /\ pc'[r] = "truncate" /\ Active(r)'
    BY <1>1 DEF Moves, HomeInv, TInv, Shapes, Active
  <1>12. ASSUME Alone(r)' PROVE Stage(r)'
    <2>1. Alone(r)
      BY <1>1, <1>9, <1>12 DEF Alone, Is
    <2>2. Stage(r)
      BY <2>1 DEF HomeInv, StageOK
    <2>3. CASE Is(r, "update")
      <3>1. managers[id] = mine[r] /\ objects[managers[id]].config = entry /\ mine[r] # None
        BY <1>1, <1>2, <1>4, <2>2, <2>3, ConstantsAssumption DEF Stage, HomeInv, TInv, StandsOK, Stands
      <3>2. Settled(id)'
        BY <1>1, <1>8, <2>3, <3>1 DEF Settled, Known
      <3> QED BY <1>1, <1>2, <1>11, <3>2 DEF Stage, Saved
    <2>4. CASE ~Is(r, "update")
      <3>1. managers[id] = None
        BY <1>1, <1>2, <1>5, <2>2, <2>4 DEF Stage, Is
      <3>2. Settled(id)'
        BY <1>1, <1>8, <2>4, <3>1 DEF Settled, Known
      <3> QED BY <1>1, <1>2, <1>11, <3>2 DEF Stage, Saved
    <2> QED BY <2>3, <2>4
  <1> QED BY <1>1, <1>8, <1>10, <1>11, <1>12, RequestStep

\* The steps that leave the managers in memory and the objects as they are.
LEMMA StillHome ==
    ASSUME HomeInv, TInv', Apart', NEW r \in Requests,
           Swap(r) \/ ReadLock(r) \/ Truncate(r) \/ Write(r) \/ Publish(r)
    PROVE  StageOK' /\ RestOK' /\ BootOK' /\ memory'.managers = memory.managers
  <1>1. /\ up /\ UNCHANGED <<up, managers, objects, boot, what, mine, contended, failed>>
        /\ pc[r] \in {"swap", "rlock", "truncate", "write", "publish"}
    BY DEF Swap, ReadLock, Truncate, Write, Publish, process, past
  <1>2. memory'.managers = memory.managers
    BY DEF Swap, ReadLock, Truncate, Write, Publish, HomeInv, TInv, DataOK, Configurations
  <1>3. \E l \in {"truncate", "write", "publish", "answered"} : pc' = [pc EXCEPT ![r] = l]
    BY DEF Swap, ReadLock, Truncate, Write, Publish, Goto
  <1>4. PICK l \in {"truncate", "write", "publish", "answered"} : pc' = [pc EXCEPT ![r] = l]
    BY <1>3
  <1>5. Moves(r, l) /\ pc'[r] = l
    BY <1>1, <1>4 DEF Swap, ReadLock, Truncate, Write, Publish, Moves, HomeInv, TInv, Shapes
  <1>6. \A i : Known(i)' <=> Known(i)
    BY <1>2 DEF Known
  <1>7. \A i \in Identifiers : Untouched(i)
    BY <1>1, <1>2, <1>6 DEF Untouched
  <1>8. Active(r)
    BY <1>1 DEF Active
  <1>9. ASSUME Alone(r) PROVE Settled(what[r].id) /\ what[r].id \in Identifiers
    <2>1. pc[r] # "swap"
      BY <1>9 DEF HomeInv, TInv, StandsOK, Stands, Alone
    <2> QED BY <1>1, <1>9, <2>1 DEF HomeInv, StageOK, Stage, Saved, Alone, TInv, StandsOK, Stands
  <1>10. ASSUME Alone(r) PROVE Settled(what[r].id)'
    <2>1. PICK id \in Identifiers : id = what[r].id
      BY <1>9, <1>10
    <2>2. Settled(id)'
      BY <1>1, <1>7, <1>9, <1>10, <2>1, SettledStays DEF HomeInv
    <2> QED BY <1>1, <2>1, <2>2 DEF Settled, Known
  <1>11. ASSUME Alone(r)' PROVE Stage(r)'
    <2>1. Alone(r)
      BY <1>1, <1>8, <1>11 DEF Alone, Is
    <2>2. l \in {"truncate", "write", "publish"}
      BY <1>5, <1>11 DEF Alone, Active
    <2> QED BY <1>5, <1>10, <2>1, <2>2 DEF Stage, Saved
  <1> QED BY <1>1, <1>2, <1>5, <1>7, <1>10, <1>11, RequestStep

-----------------------------------------------------------------------------
\* While the managers are started every request is recorded, and is left out.
LEMMA StartHome ==
    ASSUME HomeInv, TInv', Apart', Start
    PROVE  StageOK' /\ RestOK' /\ BootOK'
  <1>1. up /\ boot # <<>> /\ UNCHANGED <<up, memory, pc, what, mine, copy, contended>> /\ (failed => failed')
    BY DEF Start, StartNext, StartDone, StartFails, request, past, HomeInv, TInv, DataOK
  <1>2. \A r \in Requests : ~Alone(r)'
    BY <1>1 DEF HomeInv, Apart, Alone, Active, Is
  <1>3. \A id : Known(id)' <=> Known(id)
    BY <1>1 DEF Known
  <1>4. boot \in Seq(Seq(Entries))
    BY DEF HomeInv, TInv, DataOK
  <1>5. \A id \in Identifiers : Settled(id) \/ id \in contended
        \/ \E r \in Requests : Active(r) /\ what[r].id = id
    BY <1>1 DEF HomeInv, RestOK
  <1>6. ASSUME \A id \in Identifiers : Untouched(id) \/ (id \notin contended => Settled(id)')
        PROVE  RestOK'
    <2>1. ASSUME NEW id \in Identifiers, id \notin contended',
                 \A r \in Requests : Active(r)' => what'[r].id # id
          PROVE  Settled(id)'
      <3>1. Settled(id)
        BY <1>1, <1>5, <2>1 DEF Active
      <3> QED BY <1>1, <1>6, <2>1, <3>1, SettledStays DEF HomeInv
    <2> QED BY <2>1 DEF RestOK
  <1>7. CASE StartNext /\ Head(boot) = <<>>
    <2>1. UNCHANGED <<managers, objects>> /\ boot' = Tail(boot)
      BY <1>7 DEF StartNext
    <2>2. Pending(boot') = Pending(boot)
      BY <1>1, <1>4, <1>7, <2>1, PendingNext
    <2>3. \A id \in Identifiers : Untouched(id)
      BY <1>1, <1>3, <2>1, <2>2 DEF Untouched
    <2>4. BootOK'
      BY <1>1, <2>2 DEF HomeInv, BootOK
    <2> QED BY <1>2, <1>6, <2>3, <2>4 DEF StageOK
  <1>8. CASE StartNext /\ Head(boot) # <<>>
    <2>1. PICK entry : entry = Head(Head(boot))
      OBVIOUS
    <2>2. Head(boot) \in Seq(Entries) /\ entry \in Entries
      BY <1>1, <1>4, <1>8, <2>1
    <2>3. /\ objects' = Append(objects, NewManager(entry))
          /\ managers' = [managers EXCEPT ![entry.id] = Len(objects')]
          /\ boot' = <<Tail(Head(boot))>> \o Tail(boot) /\ UNCHANGED failed
      BY <1>8, <2>1 DEF StartNext, past
    <2>4. Pending(boot) = Pending(boot') \union {entry}
      BY <1>1, <1>4, <1>8, <2>1, <2>3, PendingNext
    <2>5. /\ Len(objects') = Len(objects) + 1 /\ managers'[entry.id] = Len(objects')
          /\ \A i \in 1..Len(objects) : objects'[i] = objects[i]
          /\ objects'[Len(objects')] = NewManager(entry)
          /\ \A id \in Identifiers : id # entry.id => managers'[id] = managers[id]
      BY <2>2, <2>3, ObjectAdded DEF HomeInv
    <2>6. Len(objects') \in Nat /\ Len(objects') # None
      BY <2>5, ConstantsAssumption DEF HomeInv, TInv, DataOK
    <2>7. ASSUME NEW id \in Identifiers, id # entry.id PROVE Untouched(id)
      BY <1>1, <1>3, <2>4, <2>5, <2>7 DEF Untouched, HomeInv, TInv, DataOK
    <2>8. entry.id \in contended \/ Has(memory.managers, entry)
      BY <1>1, <2>4 DEF HomeInv, BootOK
    <2>9. ASSUME entry.id \notin contended PROVE Settled(entry.id)'
      <3>1. Has(memory.managers, entry) /\ Known(entry.id)
        BY <2>8, <2>9 DEF Has, Known, Ids
      <3>2. objects'[managers'[entry.id]].config = entry /\ managers'[entry.id] # None
        BY <2>5, <2>6 DEF NewManager
      <3> QED BY <1>1, <1>3, <3>1, <3>2 DEF Settled
    <2>10. BootOK'
      BY <1>1, <2>4 DEF HomeInv, BootOK
    <2> QED BY <1>2, <1>6, <2>7, <2>9, <2>10 DEF StageOK
  <1>9. CASE StartDone
    <2>1. /\ fresh \in 1..Len(objects) /\ UNCHANGED <<managers, boot>>
          /\ objects' = [objects EXCEPT ![fresh].producer = "open", ![fresh].open = TRUE]
      BY <1>9 DEF StartDone, HomeInv, TInv, DataOK
    <2>2. \A i \in 1..Len(objects) : objects'[i].config = objects[i].config
      BY <2>1 DEF HomeInv, TInv, DataOK, Objects
    <2>3. \A id \in Identifiers : Untouched(id)
      BY <1>1, <1>3, <2>1, <2>2 DEF Untouched, HomeInv, TInv, DataOK
    <2>4. BootOK'
      BY <1>1, <2>1 DEF HomeInv, BootOK
    <2> QED BY <1>2, <1>6, <2>3, <2>4 DEF StageOK
  <1>10. CASE StartFails
    <2>1. boot' = <<memory.managers>> \o boot /\ UNCHANGED <<managers, objects>>
      BY <1>10 DEF StartFails
    <2>2. Pending(boot') = {entry \in Entries : Has(memory.managers, entry)} \union Pending(boot)
      BY <1>4, <2>1, PendingFirst DEF HomeInv, TInv, DataOK, Configurations
    <2>3. \A id \in Identifiers : Untouched(id)
      BY <1>1, <1>3, <2>1, <2>2 DEF Untouched
    <2>4. BootOK'
      BY <1>1, <2>2 DEF HomeInv, BootOK
    <2> QED BY <1>2, <1>6, <2>3, <2>4 DEF StageOK
  <1> QED BY <1>7, <1>8, <1>9, <1>10 DEF Start

LEMMA RestartHome ==
    ASSUME HomeInv, TInv', Restart
    PROVE  StageOK' /\ RestOK' /\ BootOK'
  <1>1. /\ ~up /\ up' /\ memory' = file /\ boot' = <<file.managers>>
        /\ managers' = [id \in Identifiers |-> None] /\ UNCHANGED <<pc, what, contended>>
    BY DEF Restart, past
  <1>2. \A r \in Requests : ~Active(r)'
    BY <1>1 DEF HomeInv, TInv, NobodyLeft, Active
  <1>3. file.managers \in Seq(Entries)
    BY DEF HomeInv, TInv, DataOK, Configurations
  <1>4. Pending(boot') = {entry \in Entries : Has(file.managers, entry)}
    <2>1. <<file.managers>> \o <<>> = <<file.managers>> /\ <<>> \in Seq(Seq(Entries))
      BY <1>3
    <2>2. Pending(<<>>) = {}
      BY DEF Pending
    <2>3. Pending(<<file.managers>> \o <<>>) = {entry \in Entries : Has(file.managers, entry)} \union Pending(<<>>)
      BY <1>3, <2>1, PendingFirst
    <2> QED BY <1>1, <2>1, <2>2, <2>3
  <1>5. \A id \in Identifiers : Known(id)' => \E entry \in Pending(boot') : entry.id = id
    BY <1>1, <1>3, <1>4 DEF Known, Ids, Has
  <1>6. RestOK'
    BY <1>1, <1>5 DEF RestOK, Settled
  <1>7. BootOK'
    BY <1>1, <1>4 DEF BootOK
  <1> QED BY <1>2, <1>6, <1>7 DEF StageOK, Alone

LEMMA NextUnique ==
    ASSUME HomeInv, TInv', Apart', [Next]_vars
    PROVE  UniqueOK'
  <1>1. contended \subseteq contended'
    BY ZenonT(60) DEF Next, Start, Step, StartNext, StartDone, StartFails, Restart, Make, AppendEntry, ReadLock,
       Swap, Configure, Initialize, Connect, FailInitialize, CloseManager, Lock, Truncate, Write,
       Publish, Crash, Begin, past, vars
  <1>2. /\ Unique(memory.managers) /\ Unique(file.managers)
        /\ \A q \in Requests : Saved(q) => Unique(copy[q].managers)
    BY DEF HomeInv, UniqueOK
  \* Every list after a step is one there was before, or what r made of the memory.
  <1>3. ASSUME Unique(memory'.managers) \/ memory'.managers \in {memory.managers, file.managers},
               file' = file \/ file'.managers = <<>> \/ \E q \in Requests : Saved(q) /\ file' = copy[q],
               \A q \in Requests : Saved(q)' =>
                   copy'[q].managers = memory'.managers \/ (Saved(q) /\ copy'[q] = copy[q])
        PROVE  UniqueOK'
    <2> DEFINE Fine(list) == \A i, j \in 1..Len(list) :
                   list[i].id = list[j].id => i = j \/ list[i].id \in contended'
    <2>2. Fine(memory.managers) /\ Fine(file.managers) /\ \A q \in Requests : Saved(q) => Fine(copy[q].managers)
      BY <1>1, <1>2 DEF Unique
    <2>3. Unique(memory'.managers) => Fine(memory'.managers)
      BY <1>1 DEF Unique
    <2>4. Fine(<<>>)
      OBVIOUS
    <2> HIDE DEF Fine
    <2>5. Fine(memory'.managers)
      BY <1>3, <2>2, <2>3
    <2>6. Fine(file'.managers)
      BY <1>3, <2>2, <2>4
    <2>7. \A q \in Requests : Saved(q)' => Fine(copy'[q].managers)
      BY <1>3, <2>2, <2>5
    <2> QED BY <2>5, <2>6, <2>7 DEF Fine, UniqueOK, Unique
  <1>4. ASSUME UNCHANGED <<file, memory, pc, copy>> PROVE UniqueOK'
    BY <1>2, <1>3, <1>4 DEF Saved
  <1>5. CASE Start
    <2>1. UNCHANGED <<file, memory, pc, copy>>
      BY <1>5 DEF Start, StartNext, StartDone, StartFails, request
    <2> QED BY <1>4, <2>1
  <1>6. CASE Restart
    <2>1. memory' = file /\ file' = file /\ \A q \in Requests : ~Saved(q)'
      BY <1>6 DEF Restart, Saved, HomeInv, TInv, NobodyLeft, Active
    <2> QED BY <1>3, <2>1
  <1>7. ASSUME NEW r \in Requests, NEW operation \in Operations, Begin(r, operation) PROVE UniqueOK'
    <2>1. UNCHANGED <<file, memory, copy>> /\ pc[r] = "idle"
      BY <1>7 DEF Begin
    <2>2. operation.op \in {"create", "delete", "update", "initialize", "options"}
      BY DEF Operations
    <2>3. \E l \in {"swap", "answered", "make", "configure", "initialize", "close"} :
             pc' = [pc EXCEPT ![r] = l]
      BY <1>7, <2>2 DEF Begin, Goto
    <2>4. \A q \in Requests : Saved(q)' => Saved(q)
      BY <2>3 DEF Saved, HomeInv, TInv, Shapes
    <2> QED BY <1>2, <1>3, <2>1, <2>4
  <1>8. ASSUME NEW r \in Requests, Step(r) PROVE UniqueOK'
    <2>1. CASE \/ Make(r) \/ Configure(r) \/ Initialize(r) \/ Connect(r) \/ FailInitialize(r)
               \/ CloseManager(r)
      <3>1. UNCHANGED <<file, memory, copy>>
        BY <2>1 DEF Make, Configure, Initialize, Connect, FailInitialize, CloseManager
      <3>2. \E l \in {"append", "initialize", "connect", "lock", "answered"} : pc' = [pc EXCEPT ![r] = l]
        BY <2>1 DEF Make, Configure, Initialize, Connect, FailInitialize, CloseManager, Goto
      <3>3. \A q \in Requests : Saved(q)' => Saved(q)
        BY <3>2 DEF Saved, HomeInv, TInv, Shapes
      <3> QED BY <1>2, <1>3, <3>1, <3>3
    <2>2. CASE Crash(r)
      <3>1. UNCHANGED <<file, memory, copy>> /\ \A q \in Requests : Saved(q)' => Saved(q)
        BY <2>2 DEF Crash, Saved, Active
      <3> QED BY <1>2, <1>3, <3>1
    <2>3. CASE AppendEntry(r) \/ Lock(r)
      <3>1. Unique(memory'.managers)
        BY <2>3, AppendHome, LockHome
      <3>2. file' = file
        BY <2>3 DEF AppendEntry, Lock
      <3>3. \A q \in Requests : Saved(q)' =>
               copy'[q].managers = memory'.managers \/ (Saved(q) /\ copy'[q] = copy[q])
        BY <2>3 DEF AppendEntry, Lock, Goto, Saved, HomeInv, TInv, Shapes
      <3> QED BY <1>3, <3>1, <3>2, <3>3
    <2>4. CASE Swap(r) \/ ReadLock(r) \/ Truncate(r) \/ Write(r) \/ Publish(r)
      <3>1. memory'.managers = memory.managers
        BY <2>4, StillHome
      <3>2. file' = file \/ file'.managers = <<>> \/ \E q \in Requests : Saved(q) /\ file' = copy[q]
        BY <2>4 DEF Swap, ReadLock, Truncate, Write, Publish, Saved
      <3>3. \A q \in Requests : Saved(q)' =>
               copy'[q].managers = memory'.managers \/ (Saved(q) /\ copy'[q] = copy[q])
        BY <2>4, <3>1 DEF Swap, ReadLock, Truncate, Write, Publish, Goto, Saved, HomeInv, TInv, Shapes
      <3> QED BY <1>2, <1>3, <3>1, <3>2, <3>3
    <2> QED BY <1>8, <2>1, <2>2, <2>3, <2>4 DEF Step
  <1>9. CASE UNCHANGED vars
    BY <1>4, <1>9 DEF vars, request
  <1> QED BY <1>5, <1>6, <1>7, <1>8, <1>9 DEF Next

\* The identifiers configured at first are different.
OnceEach(list) == \A i, j \in 1..Len(list) : list[i] = list[j] => i = j

LEMMA InitHomeInv ==
    ASSUME OnceEach(Initial)
    PROVE  Init => HomeInv
  <1> SUFFICES ASSUME Init PROVE HomeInv
    OBVIOUS
  <1> DEFINE list == [i \in 1..Len(Initial) |-> Entry(Initial[i], None)]
  <1>1. Initial \in Seq(Identifiers)
    BY ConstantsAssumption
  <1>2. list \in Seq(Entries) /\ Len(list) = Len(Initial) /\ \A i \in 1..Len(list) : list[i].id = Initial[i]
    BY <1>1 DEF Entry, Entries
  <1>3. file.managers = list /\ memory = file /\ boot = <<list>>
    BY DEF Init
  <1> HIDE DEF list
  <1>4. TInv /\ Apart
    BY InitTInv DEF Init, Apart, Active
  <1>5. Unique(list)
    BY <1>1, <1>2 DEF OnceEach, Unique
  <1>6. UniqueOK
    BY <1>3, <1>5 DEF Init, UniqueOK, Saved
  <1>7. Pending(boot) = {entry \in Entries : Has(list, entry)}
    <2>1. <<list>> \o <<>> = <<list>> /\ <<>> \in Seq(Seq(Entries))
      BY <1>2
    <2>2. Pending(<<>>) = {}
      BY DEF Pending
    <2>3. Pending(<<list>> \o <<>>) = {entry \in Entries : Has(list, entry)} \union Pending(<<>>)
      BY <1>2, <2>1, PendingFirst
    <2> QED BY <1>3, <2>1, <2>2, <2>3
  <1>8. \A id \in Identifiers : Known(id) => \E entry \in Pending(boot) : entry.id = id
    BY <1>2, <1>3, <1>7 DEF Known, Ids, Has
  <1>9. StageOK /\ RestOK /\ BootOK
    BY <1>3, <1>7, <1>8 DEF Init, StageOK, Alone, Active, RestOK, Settled, BootOK
  <1> QED BY <1>4, <1>6, <1>9 DEF HomeInv

LEMMA NextHomeInv == HomeInv /\ [Next]_vars => HomeInv'
  <1> SUFFICES ASSUME HomeInv, [Next]_vars PROVE HomeInv'
    OBVIOUS
  <1>1. TInv' /\ Apart'
    BY NextTInv, NextApart DEF HomeInv
  <1>2. UniqueOK'
    BY <1>1, NextUnique
  <1> SUFFICES StageOK' /\ RestOK' /\ BootOK'
    BY <1>1, <1>2 DEF HomeInv
  <1>3. CASE Start
    BY <1>1, <1>3, StartHome
  <1>4. CASE Restart
    BY <1>1, <1>4, RestartHome
  <1>5. ASSUME NEW r \in Requests, Step(r) PROVE StageOK' /\ RestOK' /\ BootOK'
    <2>1. CASE Crash(r)
      <3>1. /\ ~up' /\ pc' = [q \in Requests |-> IF Active(q) THEN "lost" ELSE pc[q]]
        BY <2>1 DEF Crash
      <3>2. \A q \in Requests : ~Active(q)'
        BY <3>1 DEF Active
      <3> QED BY <3>1, <3>2 DEF StageOK, Alone, RestOK, BootOK
    <2>2. CASE Configure(r) \/ Initialize(r) \/ Connect(r) \/ FailInitialize(r) \/ CloseManager(r)
      BY <1>1, <2>2, MineHome
    <2> QED BY <1>1, <1>5, <2>1, <2>2, MakeHome, AppendHome, LockHome, StillHome DEF Step
  <1>6. ASSUME NEW r \in Requests, NEW operation \in Operations, Begin(r, operation)
        PROVE  StageOK' /\ RestOK' /\ BootOK'
    BY <1>1, <1>6, BeginHome
  <1>7. CASE UNCHANGED vars
    BY <1>7 DEF vars, process, request, past, HomeInv, StageOK, Alone, Stage, RestOK, BootOK, Settled,
                Known, Active, Is, Saved
  <1> QED BY <1>3, <1>4, <1>5, <1>6, <1>7 DEF Next

\* When nothing is under way the managers of the process are those configured, once
\* each and as their objects are, whatever was created, updated and deleted before:
\* for any requests and identifiers, of which the first configuration names each once.
THEOREM ManagersConfigured ==
    ASSUME OnceEach(Initial)
    PROVE  Spec => []ManagersAreConfigured
  <1>1. Init => HomeInv
    BY InitHomeInv
  <1>2. HomeInv => ManagersAreConfigured
    <2> SUFFICES ASSUME HomeInv, AtRest, NEW id \in Identifiers \ contended
                 PROVE  /\ managers[id] # None <=> id \in Ids(memory.managers)
                        /\ \A i, j \in 1..Len(memory.managers) :
                              memory.managers[i].id = id /\ memory.managers[j].id = id => i = j
                        /\ managers[id] # None /\ ~failed =>
                              \E i \in 1..Len(memory.managers) :
                                 memory.managers[i] = objects[managers[id]].config
      BY DEF ManagersAreConfigured
    <2>1. Settled(id) /\ Pending(boot) = {}
      BY DEF AtRest, HomeInv, RestOK, Pending
    <2>2. Unique(memory.managers)
      BY DEF HomeInv, UniqueOK
    <2> QED BY <2>1, <2>2 DEF Settled, Known, Has, Unique
  <1> QED BY <1>1, <1>2, NextHomeInv, PTL DEF Spec
-----------------------------------------------------------------------------
(***************************************************************************)
(* No manager is opened twice: only the object the map has is open, so a   *)
(* manager is never started or made while another object of it is.         *)
(***************************************************************************)
\* The object that is initialised is the one the map has.
FreshOK ==
    fresh # None => LET id == objects[fresh].config.id IN id \in contended \/ managers[id] = fresh

\* Until a start fails, there is one call of startManagers, each of whose entries has
\* yet to have an object.
OnceOK ==
    up /\ ~failed =>
        /\ boot # <<>> => Tail(boot) = <<>> /\ Unique(Head(boot))
        /\ \A entry \in Pending(boot) : entry.id \in contended \/ managers[entry.id] = None

\* Only the object the map has is open.
OpenOK ==
    up /\ ~failed => \A i \in 1..Len(objects) : objects[i].open =>
        LET id == objects[i].config.id IN id \in contended \/ managers[id] = i

OpenInv == HomeInv /\ FreshOK /\ OnceOK /\ OpenOK

LEMMA InitOpenInv ==
    ASSUME OnceEach(Initial)
    PROVE  Init => OpenInv
  <1> SUFFICES ASSUME Init PROVE OpenInv
    OBVIOUS
  <1>1. HomeInv
    BY InitHomeInv
  <1>2. boot = <<memory.managers>> /\ objects = <<>> /\ fresh = None
        /\ managers = [id \in Identifiers |-> None]
    BY DEF Init
  <1>3. Tail(boot) = <<>> /\ Head(boot) = memory.managers
    BY <1>2
  <1>4. Unique(Head(boot))
    BY <1>1, <1>3 DEF HomeInv, UniqueOK
  <1>5. \A entry \in Pending(boot) : managers[entry.id] = None
    BY <1>2 DEF Pending, Entries
  <1> QED BY <1>1, <1>2, <1>3, <1>4, <1>5 DEF OpenInv, FreshOK, OnceOK, OpenOK

LEMMA ObjectsTyped ==
    ASSUME TInv
    PROVE  \A i \in 1..Len(objects) :
              objects[i].config.id \in Identifiers /\ i \in Nat /\ i # None
  <1> SUFFICES ASSUME NEW i \in 1..Len(objects)
               PROVE  objects[i].config.id \in Identifiers /\ i \in Nat /\ i # None
    OBVIOUS
  <1>1. objects[i] \in Objects /\ i \in Nat
    BY DEF TInv, DataOK
  <1>2. objects[i].config \in Entries
    BY <1>1 DEF Objects
  <1> QED BY <1>1, <1>2, ConstantsAssumption DEF Entries

\* A step of a request that is about the manager of id.
LEMMA RequestOpens ==
    ASSUME OpenInv, TInv', up, UNCHANGED <<boot, fresh, failed>>, contended \subseteq contended', Keeps,
           NEW id, boot # <<>> => id \in contended',
           \A i \in Identifiers : i # id => managers'[i] = managers[i],
           \A i \in 1..Len(objects) : objects'[i].open => objects[i].open,
           \A i \in 1..Len(objects') : i > Len(objects) => ~objects'[i].open,
           id \in contended' \/ \A i \in 1..Len(objects) :
              objects'[i].open /\ objects[i].config.id = id => managers'[id] = i
    PROVE  FreshOK' /\ OnceOK' /\ OpenOK'
  <1>1. /\ \A i \in 1..Len(objects) : objects[i].config.id \in Identifiers /\ i \in Nat
        /\ fresh \in 1..Len(objects) \union {None} /\ (fresh # None => boot # <<>>)
    BY ObjectsTyped DEF OpenInv, HomeInv, TInv, DataOK
  <1>2. FreshOK'
    BY <1>1 DEF OpenInv, FreshOK, Keeps
  <1>3. OnceOK'
    <2> SUFFICES ASSUME up', ~failed' PROVE OnceOK'
      BY DEF OnceOK
    <2>1. \A entry \in Pending(boot) : entry.id \in contended \/ managers[entry.id] = None
      BY DEF OpenInv, OnceOK
    <2>2. \A entry \in Pending(boot) : entry.id \in Identifiers /\ boot # <<>>
      BY DEF Pending, Entries
    <2>3. \A entry \in Pending(boot) : entry.id \in contended' \/ managers'[entry.id] = None
      BY <2>1, <2>2
    <2>4. boot # <<>> => Tail(boot) = <<>> /\ Unique(Head(boot))
      BY DEF OpenInv, OnceOK
    <2>5. boot' # <<>> => Tail(boot') = <<>> /\ Unique(Head(boot))'
      BY <2>4 DEF Unique
    <2>6. Pending(boot)' = Pending(boot)
      BY DEF Pending
    <2> QED BY <2>3, <2>5, <2>6 DEF OnceOK
  <1>4. OpenOK'
    <2> SUFFICES ASSUME up', ~failed', NEW i \in 1..Len(objects'), objects'[i].open
                 PROVE  objects'[i].config.id \in contended' \/ managers'[objects'[i].config.id] = i
      BY DEF OpenOK
    <2>1. i \in 1..Len(objects)
      BY DEF Keeps
    <2>2. objects[i].open /\ objects'[i].config.id = objects[i].config.id
      BY <2>1 DEF Keeps
    <2>3. objects[i].config.id \in contended \/ managers[objects[i].config.id] = i
      BY <2>1, <2>2 DEF OpenInv, OpenOK
    <2> QED BY <1>1, <2>1, <2>2, <2>3
  <1> QED BY <1>2, <1>3, <1>4

LEMMA StepOpens ==
    ASSUME OpenInv, TInv', NEW r \in Requests, Step(r)
    PROVE  FreshOK' /\ OnceOK' /\ OpenOK'
  <1>1. /\ up /\ UNCHANGED <<boot, fresh, contended>> /\ (failed => failed')
        /\ Active(r) /\ (boot # <<>> => what[r].id \in contended)
    <2>1. up /\ UNCHANGED <<boot, fresh, contended>> /\ (failed => failed')
      BY DEF Step, Make, AppendEntry, ReadLock, Swap, Configure, Initialize, Connect, FailInitialize,
         CloseManager, Lock, Truncate, Write, Publish, Crash, past, process
    <2>2. Active(r)
      BY DEF Step, Make, AppendEntry, ReadLock, Swap, Configure, Initialize, Connect, FailInitialize,
         CloseManager, Lock, Truncate, Write, Publish, Crash, Active
    <2> QED BY <2>1, <2>2 DEF OpenInv, HomeInv, Apart
  <1>2. CASE Crash(r)
    <2>1. ~up' /\ UNCHANGED <<managers, objects, boot, fresh, contended>>
      BY <1>2 DEF Crash, process
    <2> QED BY <2>1 DEF OpenInv, FreshOK, OnceOK, OpenOK
  <1>3. CASE \/ AppendEntry(r) \/ ReadLock(r) \/ Swap(r) \/ Lock(r) \/ Truncate(r) \/ Write(r)
             \/ Publish(r)
    <2>1. UNCHANGED <<up, managers, objects, failed>>
      BY <1>3 DEF AppendEntry, ReadLock, Swap, Lock, Truncate, Write, Publish, process, past
    <2> QED BY <1>1, <2>1 DEF OpenInv, FreshOK, OnceOK, OpenOK, Pending, Unique
  <1>4. CASE Make(r)
    <2>1. /\ pc[r] = "make" /\ UNCHANGED failed
          /\ objects' = Append(objects, NewManager(Entry(what[r].id, r)))
          /\ managers' = [managers EXCEPT ![what[r].id] = Len(objects')]
      BY <1>4 DEF Make, past
    <2>2. Is(r, "create") /\ what[r].id \in Identifiers
      BY <1>1, <2>1 DEF OpenInv, HomeInv, TInv, StandsOK, Stands, Is
    <2>3. PICK entry \in Entries : entry = Entry(what[r].id, r) /\ entry.id = what[r].id
      <3>1. Entry(what[r].id, r) \in Entries /\ Entry(what[r].id, r).id = what[r].id
        BY <2>2 DEF Entry, Entries
      <3> QED BY <3>1
    <2>4. /\ Keeps /\ Len(objects') = Len(objects) + 1
          /\ \A i \in 1..Len(objects) : objects'[i] = objects[i]
          /\ objects'[Len(objects')] = NewManager(entry)
          /\ \A id \in Identifiers : id # entry.id => managers'[id] = managers[id]
      <3>1. managers' = [managers EXCEPT ![entry.id] = Len(objects')] /\ TInv
            /\ objects' = Append(objects, NewManager(entry))
        BY <2>1, <2>3 DEF OpenInv, HomeInv
      <3> QED BY <3>1, ObjectAdded
    <2>5. CASE entry.id \in contended \/ failed
      <3>1. \A i \in 1..Len(objects') : i > Len(objects) => ~objects'[i].open
        <4>1. \A i \in 1..Len(objects') : i > Len(objects) => i = Len(objects')
          BY <2>4 DEF Keeps
        <4> QED BY <2>4, <4>1 DEF NewManager
      <3>2. CASE entry.id \in contended
        BY <1>1, <2>1, <2>3, <2>4, <3>1, <3>2, RequestOpens
      <3>3. CASE failed
        <4>1. FreshOK'
          <5>1. \A i \in 1..Len(objects) : objects[i].config.id \in Identifiers
            BY ObjectsTyped DEF OpenInv, HomeInv
          <5> QED BY <1>1, <2>3, <2>4, <5>1 DEF OpenInv, HomeInv, TInv, Apart, DataOK, FreshOK
        <4> QED BY <1>1, <3>3, <4>1 DEF OnceOK, OpenOK
      <3> QED BY <2>5, <3>2, <3>3
    <2>6. CASE entry.id \notin contended /\ ~failed
      <3>1. managers[entry.id] = None
        <4>1. Alone(r)
          BY <1>1, <2>2, <2>3, <2>6 DEF Alone, Is
        <4> QED BY <2>1, <2>3, <4>1 DEF OpenInv, HomeInv, StageOK, Stage
      <3>2. \A i \in 1..Len(objects) : i # None
        BY ConstantsAssumption DEF OpenInv, HomeInv, TInv, DataOK
      <3>3. \A i \in 1..Len(objects) : objects[i].open => objects[i].config.id # entry.id
        BY <1>1, <2>6, <3>1, <3>2 DEF OpenInv, OpenOK
      <3>4. \A i \in 1..Len(objects') : i > Len(objects) => ~objects'[i].open
        <4>1. \A i \in 1..Len(objects') : i > Len(objects) => i = Len(objects')
          BY <2>4 DEF Keeps
        <4> QED BY <2>4, <4>1 DEF NewManager
      <3> QED BY <1>1, <2>1, <2>3, <2>4, <3>3, <3>4, RequestOpens
    <2> QED BY <2>5, <2>6
  <1>5. CASE Configure(r) \/ Initialize(r) \/ Connect(r) \/ FailInitialize(r) \/ CloseManager(r)
    <2>1. PICK id \in Identifiers : id = what[r].id
      BY <1>5, MineStep DEF OpenInv, HomeInv
    <2>2. /\ mine[r] \in 1..Len(objects) /\ objects[mine[r]].config.id = id
          /\ Keeps /\ Len(objects') = Len(objects)
          /\ objects'[mine[r]].open = (objects[mine[r]].open /\ pc[r] # "close")
          /\ \A i \in 1..Len(objects) : i # mine[r] => objects'[i] = objects[i]
          /\ managers' = IF pc[r] = "close" THEN [managers EXCEPT ![id] = None] ELSE managers
      BY <1>5, <2>1, MineStep DEF OpenInv, HomeInv
    <2>3. \A i \in Identifiers : i # id => managers'[i] = managers[i]
      BY <2>2 DEF OpenInv, HomeInv, TInv, DataOK
    <2>4. \A i \in 1..Len(objects) : objects'[i].open => objects[i].open
      BY <2>2
    <2>5. \A i \in 1..Len(objects') : i > Len(objects) => ~objects'[i].open
      BY <2>2 DEF Keeps
    <2>6. CASE UNCHANGED failed
      <3>1. CASE failed
        <4>1. FreshOK'
          BY <1>1, <2>1, <2>2, <2>3 DEF OpenInv, HomeInv, TInv, DataOK, FreshOK, Keeps, Objects, Entries
        <4> QED BY <1>1, <3>1, <4>1 DEF OnceOK, OpenOK
      <3>2. CASE ~failed
        <4>1. id \in contended \/ \A i \in 1..Len(objects) :
                 objects'[i].open /\ objects[i].config.id = id => managers'[id] = i
          <5> SUFFICES ASSUME id \notin contended, NEW i \in 1..Len(objects),
                              objects'[i].open, objects[i].config.id = id
                       PROVE  managers'[id] = i
            OBVIOUS
          <5>1. managers[id] = i
            BY <1>1, <2>4, <3>2 DEF OpenInv, OpenOK
          <5>2. CASE pc[r] = "close"
            <6>1. Alone(r)
              BY <1>1, <2>1, <5>2 DEF Alone, OpenInv, HomeInv, TInv, StandsOK, Stands, Is
            <6>2. managers[id] = mine[r]
              BY <2>1, <5>2, <6>1 DEF OpenInv, HomeInv, StageOK, Stage
            <6> QED BY <2>2, <5>1, <5>2, <6>2
          <5>3. CASE pc[r] # "close"
            BY <2>2, <5>1, <5>3
          <5> QED BY <5>2, <5>3
        <4> QED BY <1>1, <2>1, <2>2, <2>3, <2>4, <2>5, <2>6, <4>1, RequestOpens
      <3> QED BY <3>1, <3>2
    <2>7. CASE failed' # failed
      <3>1. failed' /\ UNCHANGED <<managers, objects>>
        BY <1>5, <2>7 DEF Configure, Initialize, Connect, FailInitialize, CloseManager, past, process
      <3> QED BY <1>1, <3>1 DEF OpenInv, FreshOK, OnceOK, OpenOK
    <2> QED BY <2>6, <2>7
  <1> QED BY <1>2, <1>3, <1>4, <1>5 DEF Step

\* A step in which the managers are started.
LEMMA StartOpens ==
    ASSUME OpenInv, TInv', Start
    PROVE  FreshOK' /\ OnceOK' /\ OpenOK'
  <1>1. up /\ boot # <<>> /\ UNCHANGED contended /\ boot \in Seq(Seq(Entries))
    BY DEF Start, StartNext, StartDone, StartFails, past, OpenInv, HomeInv, TInv, DataOK
  <1>2. CASE StartNext /\ Head(boot) = <<>>
    <2>1. UNCHANGED <<up, managers, objects, fresh, failed>> /\ boot' = Tail(boot) /\ fresh = None
      BY <1>2 DEF StartNext, past
    <2>2. Pending(boot') = Pending(boot)
      BY <1>1, <1>2, <2>1, PendingNext
    <2>3. OnceOK'
      BY <1>1, <2>1, <2>2 DEF OpenInv, OnceOK
    <2> QED BY <1>1, <2>1, <2>3 DEF OpenInv, FreshOK, OpenOK
  <1>3. CASE StartNext /\ Head(boot) # <<>>
    <2>1. PICK list \in Seq(Entries) : list = Head(boot) /\ list # <<>>
      BY <1>1, <1>3
    <2>2. PICK entry \in Entries : entry = Head(list)
      BY <2>1
    <2>3. /\ objects' = Append(objects, NewManager(entry)) /\ fresh' = Len(objects')
          /\ managers' = [managers EXCEPT ![entry.id] = Len(objects')]
          /\ boot' = <<Tail(list)>> \o Tail(boot) /\ UNCHANGED <<up, failed>>
      BY <1>3, <2>1, <2>2 DEF StartNext, past
    <2>4. Pending(boot) = Pending(boot') \union {entry}
      BY <1>1, <1>3, <2>1, <2>2, <2>3, PendingNext
    <2>5. /\ Len(objects') = Len(objects) + 1 /\ managers'[entry.id] = Len(objects')
          /\ \A i \in 1..Len(objects) : objects'[i] = objects[i]
          /\ objects'[Len(objects')] = NewManager(entry)
          /\ \A id \in Identifiers : id # entry.id => managers'[id] = managers[id]
      BY <2>2, <2>3, ObjectAdded DEF OpenInv, HomeInv
    <2>6. Len(objects) \in Nat /\ \A i \in 1..Len(objects) : i # None /\ objects[i].config.id \in Identifiers
      <3>1. TInv /\ Len(objects) \in Nat
        BY DEF OpenInv, HomeInv, TInv, DataOK
      <3> QED BY <3>1, ObjectsTyped
    <2>7. FreshOK'
      BY <2>3, <2>5 DEF FreshOK, NewManager
    <2>8. OnceOK'
      <3> SUFFICES ASSUME ~failed PROVE OnceOK'
        BY <2>3 DEF OnceOK
      <3>1. Tail(boot) = <<>> /\ Unique(list)
        BY <1>1, <2>1 DEF OpenInv, OnceOK
      <3>2. \A e \in Pending(boot) : e.id \in contended \/ managers[e.id] = None
        BY <1>1 DEF OpenInv, OnceOK
      <3>3. Tail(list) \in Seq(Entries) /\ boot' = <<Tail(list)>>
        <4>1. Tail(list) \in Seq(Entries)
          BY <2>1
        <4>2. boot' = <<Tail(list)>> \o <<>>
          BY <2>3, <3>1
        <4> QED BY <4>1, <4>2
      <3>4. Tail(boot') = <<>> /\ Head(boot') = Tail(list)
        BY <3>3
      <3>5. /\ Len(list) \in Nat /\ Len(list) >= 1 /\ Len(Tail(list)) = Len(list) - 1
            /\ Head(list) = list[1] /\ \A n \in 1..Len(Tail(list)) : Tail(list)[n] = list[n + 1]
        BY <2>1
      <3>6. \A n \in 1..Len(Tail(list)) : n + 1 \in 1..Len(list) /\ n + 1 # 1 /\ n \in Nat
        BY <3>5
      <3>7. Unique(Tail(list))
        BY <3>1, <3>5, <3>6 DEF Unique
      <3>8. \A n \in 1..Len(Tail(list)) : Tail(list)[n].id = entry.id => entry.id \in contended
        <4>1. 1 \in 1..Len(list) /\ list[1] = entry
          BY <2>2, <3>5
        <4> QED BY <3>1, <3>5, <3>6, <4>1 DEF Unique
      <3>9. Pending(boot') = {e \in Entries : Has(Tail(list), e)}
        <4>1. <<Tail(list)>> \o <<>> = <<Tail(list)>> /\ <<>> \in Seq(Seq(Entries))
          BY <3>3
        <4>2. Pending(<<>>) = {}
          BY DEF Pending
        <4>3. Pending(<<Tail(list)>> \o <<>>) = {e \in Entries : Has(Tail(list), e)} \union Pending(<<>>)
          BY <3>3, <4>1, PendingFirst
        <4> QED BY <3>3, <4>1, <4>2, <4>3
      <3>10. ASSUME NEW e \in Pending(boot') PROVE e.id \in contended \/ managers'[e.id] = None
        <4>1. e.id \in Identifiers /\ e \in Pending(boot)
          BY <2>4 DEF Pending, Entries
        <4>2. e.id = entry.id => entry.id \in contended
          BY <3>8, <3>9 DEF Has
        <4> QED BY <2>5, <3>2, <4>1, <4>2
      <3>11. Pending(boot)' = Pending(boot')
        BY DEF Pending
      <3> QED BY <1>1, <3>4, <3>7, <3>10, <3>11 DEF OnceOK, Unique
    <2>9. OpenOK'
      <3> SUFFICES ASSUME ~failed, NEW i \in 1..Len(objects'), objects'[i].open
                   PROVE  objects'[i].config.id \in contended \/ managers'[objects'[i].config.id] = i
        BY <1>1, <2>3 DEF OpenOK
      <3>1. i \in 1..Len(objects)
        <4>1. i # Len(objects')
          BY <2>5 DEF NewManager
        <4> QED BY <2>5, <2>6, <4>1
      <3>2. objects[i].config.id \in contended \/ managers[objects[i].config.id] = i
        BY <1>1, <2>5, <3>1 DEF OpenInv, OpenOK
      <3>3. entry.id \in contended \/ managers[entry.id] = None
        BY <1>1, <2>4 DEF OpenInv, OnceOK
      <3> QED BY <2>5, <2>6, <3>1, <3>2, <3>3
    <2> QED BY <2>7, <2>8, <2>9
  <1>4. CASE StartDone
    <2>1. /\ fresh \in 1..Len(objects) /\ fresh # None /\ fresh' = None
          /\ UNCHANGED <<up, managers, boot, failed>>
          /\ objects' = [objects EXCEPT ![fresh].producer = "open", ![fresh].open = TRUE]
      BY <1>4 DEF StartDone, past, OpenInv, HomeInv, TInv, DataOK
    <2>2. /\ \A i \in 1..Len(objects) : objects'[i].config = objects[i].config
          /\ \A i \in 1..Len(objects) : i # fresh => objects'[i] = objects[i]
          /\ Len(objects') = Len(objects)
      BY <2>1 DEF OpenInv, HomeInv, TInv, DataOK, Objects
    <2>3. OpenOK'
      BY <1>1, <2>1, <2>2 DEF OpenInv, OpenOK, FreshOK
    <2>4. OnceOK'
      BY <1>1, <2>1 DEF OpenInv, OnceOK, Pending, Unique
    <2> QED BY <2>1, <2>3, <2>4 DEF FreshOK
  <1>5. CASE StartFails
    BY <1>5 DEF StartFails, FreshOK, OnceOK, OpenOK
  <1> QED BY <1>2, <1>3, <1>4, <1>5 DEF Start

LEMMA RestartOpens ==
    ASSUME OpenInv, Restart
    PROVE  FreshOK' /\ OnceOK' /\ OpenOK'
  <1>1. /\ boot' = <<file.managers>> /\ objects' = <<>> /\ fresh' = None /\ UNCHANGED contended
        /\ managers' = [id \in Identifiers |-> None]
    BY DEF Restart, past
  <1>2. Tail(boot') = <<>> /\ Head(boot') = file.managers
    BY <1>1
  <1>3. Unique(file.managers)
    BY DEF OpenInv, HomeInv, UniqueOK
  <1>4. Unique(Head(boot))'
    BY <1>1, <1>2, <1>3 DEF Unique
  <1>5. \A entry \in Pending(boot)' : managers'[entry.id] = None
    BY <1>1 DEF Pending, Entries
  <1>6. OnceOK'
    BY <1>2, <1>4, <1>5 DEF OnceOK
  <1> QED BY <1>1, <1>6 DEF FreshOK, OpenOK

LEMMA NextOpenInv == OpenInv /\ [Next]_vars => OpenInv'
  <1> SUFFICES ASSUME OpenInv, [Next]_vars PROVE OpenInv'
    OBVIOUS
  <1>1. HomeInv' /\ TInv'
    BY NextHomeInv DEF OpenInv, HomeInv
  <1> SUFFICES FreshOK' /\ OnceOK' /\ OpenOK'
    BY <1>1 DEF OpenInv
  <1>2. ASSUME UNCHANGED <<up, managers, objects, boot, fresh, failed>>, contended \subseteq contended'
        PROVE  FreshOK' /\ OnceOK' /\ OpenOK'
    BY <1>2 DEF OpenInv, FreshOK, OnceOK, OpenOK, Pending, Unique
  <1>3. ASSUME NEW r \in Requests, NEW operation \in Operations, Begin(r, operation)
        PROVE  FreshOK' /\ OnceOK' /\ OpenOK'
    BY <1>2, <1>3 DEF Begin, process
  <1>4. CASE UNCHANGED vars
    BY <1>2, <1>4 DEF vars, process, past
  <1> QED BY <1>1, <1>3, <1>4, StartOpens, RestartOpens, StepOpens DEF Next

\* No manager is opened by two objects unless a start or an initialisation failed,
\* whatever managers are deleted and created again and however often the process
\* restarts.
THEOREM ManagersOpenedOnce ==
    ASSUME OnceEach(Initial)
    PROVE  Spec => []OpenedOnce
  <1>1. Init => OpenInv
    BY InitOpenInv
  <1>2. OpenInv => OpenedOnce
    BY DEF OpenInv, OpenOK, OpenedOnce
  <1> QED BY <1>1, <1>2, NextOpenInv, PTL DEF Spec
=============================================================================
