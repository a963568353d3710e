--------------------------- MODULE ChatServerProofs ---------------------------
(***************************************************************************)
(* Proofs about ChatServer, for any number of sessions and events and any  *)
(* buffer: type correctness, that who a publish ranges over stays          *)
(* registered, and that a consumer misses no event in between.             *)
(***************************************************************************)
EXTENDS ChatServer, SequenceTheorems, TLAPS

USE DEF sessionVars, channelVars, publishVars, vars

-----------------------------------------------------------------------------
(* The inductive invariant.                                                *)

Unadded == {"absent", "identifying", "refused", "adding"}

\* Who is done, or never got an ID, has a context that is done; and nothing is
\* queued for a session that is not registered yet.
SessionInv ==
    \A c \in Sessions :
        /\ writer[c] \in {"deleting", "stopped"} => cancelled[c]
        /\ main[c] \in {"deleting", "gone"} => cancelled[c]
        /\ closed[c] => cancelled[c]
        /\ ~identified[c] /\ main[c] \notin Unadded \ {"adding"} =>
               cancelled[c]
        /\ main[c] \in Unadded => queue[c] = <<>> /\ received[c] = <<>>

\* A session is registered from its addition until its context is done.
RegistryInv ==
    /\ \A c \in Registered : main[c] \notin Unadded
    /\ \A c \in Sessions :
           main[c] \in {"initial", "serving"} /\ ~cancelled[c] =>
               c \in Registered

LockInv ==
    /\ publisher = "idle" => todo = {}
    /\ publisher = "sending" => event > 0
    /\ PublishIsUndisturbed

\* What a session was sent and what is queued for it.
Stream(c) == received[c] \o queue[c]

\* The last event c was sent or will not be sent any more.
Upto(c) == IF c \in todo THEN event - 1 ELSE event

\* Every event after one of s is in s or lost.
UpToDate(s, upto, lost) ==
    \A i \in 1..Len(s) :
        /\ s[i] <= upto
        /\ s[i] # READY =>
               \A n \in (s[i] + 1)..upto :
                   n \in lost \/ \E k \in 1..Len(s) : s[k] = n

StreamInv ==
    \A c \in Sessions :
        ~cancelled[c] => /\ Gapless(Stream(c), aborted)
                         /\ UpToDate(Stream(c), Upto(c), aborted)

IInv ==
    /\ TypeOK
    /\ SessionInv
    /\ RegistryInv
    /\ LockInv
    /\ NoEventMissed
    /\ StreamInv

-----------------------------------------------------------------------------
(* Types.                                                                  *)

\* What deleteSubscriber leaves: all but one entry, of c or of a session that
\* has no ID either; and nobody is publishing.
LEMMA DeleteLeaves ==
    ASSUME TypeOK, NEW c \in Sessions, DeleteSubscriber(c)
    PROVE  /\ subscribers' \in Seq(Sessions)
           /\ publisher # "sending"
           /\ Registered' \subseteq Registered
           /\ \A d \in Registered \ Registered' :
                  d = c \/ (~identified[c] /\ ~identified[d])
  <1>1. publisher # "sending"
    BY DEF DeleteSubscriber, CanLock, ReadLocked
  <1>2. CASE UNCHANGED subscribers
    BY <1>1, <1>2 DEF TypeOK, Registered
  <1>3. CASE \E i \in Same(c) : subscribers' = RemoveAt(subscribers, i)
    <2>1. PICK i \in Same(c) : subscribers' = RemoveAt(subscribers, i)
      BY <1>3
    <2> DEFINE n == Len(subscribers)
               before == SubSeq(subscribers, 1, i - 1)
               after  == SubSeq(subscribers, i + 1, n)
    <2>2. /\ subscribers \in Seq(Sessions) /\ n \in Nat
          /\ DOMAIN subscribers = 1..n /\ i \in 1..n
          /\ \A k \in 1..n : subscribers[k] \in Sessions
      BY SMTT(60) DEF TypeOK, Same
    <2>3. /\ before \in Seq(Sessions) /\ Len(before) = i - 1
          /\ \A k \in 1..(i - 1) : before[k] = subscribers[k]
      <3>1. 1 \in Int /\ i - 1 \in Int /\ i - 1 >= 0
        BY <2>2
      <3>2. \A k \in 1..(i - 1) : subscribers[k] \in Sessions
        BY <2>2
      <3> QED BY <3>1, <3>2, SubSeqProperties
    <2>4. /\ after \in Seq(Sessions) /\ Len(after) = n - i
          /\ \A k \in 1..(n - i) : after[k] = subscribers[k + i]
      <3>1. i + 1 \in Int /\ n \in Int
        BY <2>2
      <3>2. \A k \in (i + 1)..n : subscribers[k] \in Sessions
        BY <2>2
      <3>3. /\ after \in Seq(Sessions)
            /\ Len(after) = IF i + 1 <= n THEN n - (i + 1) + 1 ELSE 0
            /\ \A k \in 1..(n - (i + 1) + 1) :
                   after[k] = subscribers[i + 1 + k - 1]
        BY <3>1, <3>2, SubSeqProperties
      <3> HIDE DEF after, n
      <3>4. /\ i \in Nat /\ n - (i + 1) + 1 = n - i
            /\ \A k \in 1..(n - i) : i + 1 + k - 1 = k + i
            /\ (IF i + 1 <= n THEN n - (i + 1) + 1 ELSE 0) = n - i
        BY <2>2
      <3> QED BY <3>3, <3>4
    <2>5. subscribers' = before \o after
      BY <2>1 DEF RemoveAt
    <2> HIDE DEF n, before, after
    <2>6. /\ subscribers' \in Seq(Sessions)
          /\ Len(subscribers') = n - 1
          /\ \A k \in 1..(n - 1) :
                 subscribers'[k] = IF k <= i - 1 THEN before[k]
                                   ELSE after[k - (i - 1)]
      BY <2>2, <2>3, <2>4, <2>5, ConcatProperties
    <2>7. \A k \in 1..(n - 1) :
              subscribers'[k] = IF k < i THEN subscribers[k]
                                ELSE subscribers[k + 1]
      BY <2>2, <2>3, <2>4, <2>6
    <2>8. DOMAIN subscribers' = 1..(n - 1)
      BY <2>2, <2>6
    <2>9. Registered' \subseteq Registered
      <3> SUFFICES ASSUME NEW k \in 1..(n - 1)
                   PROVE  subscribers'[k] \in Registered
        BY <2>8 DEF Registered
      <3>1. \E l \in 1..n : subscribers'[k] = subscribers[l]
        BY <2>2, <2>7
      <3> QED BY <2>2, <3>1 DEF Registered
    <2>10. \A d \in Registered \ Registered' : d = subscribers[i]
      <3> SUFFICES ASSUME NEW k \in 1..n, k # i
                   PROVE  subscribers[k] \in Registered'
        BY <2>2 DEF Registered
      <3>1. CASE k < i
        BY <2>2, <2>7, <2>8, <3>1 DEF Registered
      <3>2. CASE k > i
        <4>1. k - 1 \in 1..(n - 1) /\ subscribers'[k - 1] = subscribers[k]
          BY <2>2, <2>7, <3>2
        <4> QED BY <2>8, <4>1 DEF Registered
      <3> QED BY <2>2, <3>1, <3>2
    <2>11. \/ subscribers[i] = c
           \/ ~identified[c] /\ ~identified[subscribers[i]]
      BY SMTT(60) DEF Same
    <2> QED BY <1>1, <2>6, <2>9, <2>10, <2>11
  <1> QED BY <1>2, <1>3 DEF DeleteSubscriber

\* Every step keeps every variable's type.
LEMMA TypeStep == TypeOK /\ [Next]_vars => TypeOK'
  <1> SUFFICES ASSUME TypeOK, [Next]_vars
               PROVE  TypeOK'
    OBVIOUS
  <1> USE ConstantsAssumption
      DEF TypeOK, MainPC, WriterPC, Kind, READY, Main, Writer, Cancel,
          Disconnect, Enqueue, HasRoom
  <1>1. ASSUME NEW c \in Sessions, NEW o \in Sessions \cup {None},
               Connect(c, o)
        PROVE  TypeOK'
    BY <1>1 DEF Connect
  <1>2. ASSUME NEW c \in Sessions, Identify(c) PROVE TypeOK'
    BY <1>2 DEF Identify
  <1>3. ASSUME NEW c \in Sessions, IdentifyCancelled(c) PROVE TypeOK'
    BY <1>3 DEF IdentifyCancelled
  <1>4. ASSUME NEW c \in Sessions, RefuseIdentify(c) PROVE TypeOK'
    BY <1>4 DEF RefuseIdentify
  <1>5. ASSUME NEW c \in Sessions, RefuseResume(c) PROVE TypeOK'
    BY <1>5 DEF RefuseResume
  <1>6. ASSUME NEW c \in Sessions, ReturnRefused(c) PROVE TypeOK'
    BY <1>6 DEF ReturnRefused
  <1>7. ASSUME NEW c \in Sessions, AddSubscriber(c) PROVE TypeOK'
    BY <1>7 DEF AddSubscriber
  <1>8. ASSUME NEW c \in Sessions, DispatchInitial(c) PROVE TypeOK'
    <2>1. main' \in [Sessions -> MainPC]
      BY <1>8 DEF DispatchInitial
    <2>2. CASE UNCHANGED queue
      BY <1>8, <2>1, <2>2 DEF DispatchInitial
    <2>3. CASE HasRoom(c) /\ Enqueue(c, READY)
      <3>1. /\ queue' \in [Sessions -> Seq(0..MaxEvents)]
            /\ \A d \in Sessions : Len(queue'[d]) <= Buffer
        BY <2>3
      <3> QED BY <1>8, <2>1, <3>1 DEF DispatchInitial
    <2> QED BY <1>8, <2>2, <2>3 DEF DispatchInitial
  <1>9. ASSUME NEW c \in Sessions, Expire(c) PROVE TypeOK'
    BY <1>9 DEF Expire
  <1>10. ASSUME NEW c \in Sessions, Delete(c) PROVE TypeOK'
    <2>1. subscribers' \in Seq(Sessions)
      BY <1>10, DeleteLeaves DEF Delete
    <2> QED BY <1>10, <2>1 DEF Delete
  <1>11. ASSUME NEW c \in Sessions, WriteNormal(c) PROVE TypeOK'
    BY <1>11, SMTT(60) DEF WriteNormal
  <1>12. ASSUME NEW c \in Sessions, FailWrite(c) PROVE TypeOK'
    BY <1>12, SMTT(60) DEF FailWrite
  <1>13. ASSUME NEW c \in Sessions, StopWriting(c) PROVE TypeOK'
    BY <1>13 DEF StopWriting
  <1>14. ASSUME NEW c \in Sessions, WriteClose(c) PROVE TypeOK'
    BY <1>14 DEF WriteClose
  <1>15. ASSUME NEW c \in Sessions, WriterDelete(c) PROVE TypeOK'
    <2>1. subscribers' \in Seq(Sessions)
      BY <1>15, DeleteLeaves DEF WriterDelete
    <2> QED BY <1>15, <2>1 DEF WriterDelete
  <1>16. ASSUME NEW c \in Sessions, LoseConnection(c) PROVE TypeOK'
    BY <1>16 DEF LoseConnection
  <1>17. ASSUME NEW c \in Sessions, StopReading(c) PROVE TypeOK'
    BY <1>17 DEF StopReading
  <1>18. ASSUME NEW c \in Sessions, TimeOut(c) PROVE TypeOK'
    BY <1>18 DEF TimeOut
  <1>19. ASSUME NEW c \in Sessions, Send(c) PROVE TypeOK'
    BY <1>19 DEF Send, SendTo
  <1>20. ASSUME NEW c \in Sessions, Reject(c) PROVE TypeOK'
    BY <1>20 DEF Reject, SendTo
  <1>21. ASSUME NEW c \in Sessions, AbortPublish(c) PROVE TypeOK'
    BY <1>21 DEF AbortPublish, SendTo
  <1>22. ASSUME NEW c \in Sessions, CloseSession(c) PROVE TypeOK'
    BY <1>22 DEF CloseSession
  <1>23. ASSUME NEW c \in Sessions, CrashClosing(c) PROVE TypeOK'
    BY <1>23 DEF CrashClosing
  <1>24. ASSUME BeginPublish PROVE TypeOK'
    BY <1>24, SMTT(60) DEF BeginPublish, Registered
  <1>25. ASSUME EndPublish PROVE TypeOK'
    BY <1>25 DEF EndPublish
  <1>26. ASSUME BeginCloseShard PROVE TypeOK'
    BY <1>26 DEF BeginCloseShard
  <1>27. ASSUME EndCloseShard PROVE TypeOK'
    BY <1>27 DEF EndCloseShard
  <1>28. ASSUME UNCHANGED vars PROVE TypeOK'
    BY <1>28
  <1> QED
    BY <1>1, <1>2, <1>3, <1>4, <1>5, <1>6, <1>7, <1>8, <1>9, <1>10, <1>11,
       <1>12, <1>13, <1>14, <1>15, <1>16, <1>17, <1>18, <1>19, <1>20,
       <1>21, <1>22, <1>23, <1>24, <1>25, <1>26, <1>27, <1>28
       DEF Next, ConsumerStep, MainStep, ReaderStep, WriterStep, BeginStep,
           PublisherStep, CloserStep

-----------------------------------------------------------------------------
(* Sequences of events.                                                    *)

\* READY may come anywhere.
LEMMA ReadyAppended ==
    ASSUME NEW s \in Seq(Nat), NEW upto \in Nat, NEW lost,
           Gapless(s, lost), UpToDate(s, upto, lost)
    PROVE  /\ Gapless(Append(s, READY), lost)
           /\ UpToDate(Append(s, READY), upto, lost)
  <1> DEFINE t == Append(s, READY)
             n == Len(s)
  <1>1. /\ n \in Nat /\ Len(s) = n /\ Len(t) = n + 1
        /\ \A i \in 1..n : t[i] = s[i] /\ s[i] \in Nat
        /\ t[n + 1] = READY
    BY DEF READY
  <1> HIDE DEF t, n
  <1>2. \A e : (\E k \in 1..n : s[k] = e) => \E k \in 1..(n + 1) : t[k] = e
    BY <1>1
  <1>3. \A i, j \in 1..n :
            i < j /\ s[i] # READY /\ s[j] # READY =>
                /\ s[i] < s[j]
                /\ \A e \in (s[i] + 1)..(s[j] - 1) :
                       e \in lost \/ \E k \in 1..n : s[k] = e
    BY <1>1 DEF Gapless
  <1>4. Gapless(t, lost)
    <2> SUFFICES ASSUME NEW i \in 1..(n + 1), NEW j \in 1..(n + 1),
                        i < j, t[i] # READY, t[j] # READY
                 PROVE  /\ t[i] < t[j]
                        /\ \A e \in (t[i] + 1)..(t[j] - 1) :
                               e \in lost \/ \E k \in 1..(n + 1) : t[k] = e
      BY <1>1 DEF Gapless
    <2>1. i \in 1..n /\ j \in 1..n /\ t[i] = s[i] /\ t[j] = s[j]
      BY <1>1
    <2> QED BY <1>1, <1>2, <1>3, <2>1
  <1>5. UpToDate(t, upto, lost)
    <2> SUFFICES ASSUME NEW i \in 1..(n + 1)
                 PROVE  /\ t[i] <= upto
                        /\ t[i] # READY =>
                               \A e \in (t[i] + 1)..upto :
                                   \/ e \in lost
                                   \/ \E k \in 1..(n + 1) : t[k] = e
      BY <1>1 DEF UpToDate
    <2>1. CASE i = n + 1
      BY <1>1, <2>1 DEF READY
    <2>2. CASE i \in 1..n
      BY <1>1, <1>2, <2>2 DEF UpToDate
    <2> QED BY <1>1, <2>1, <2>2
  <1> QED BY <1>4, <1>5 DEF t

\* The next event leaves no gap after a sequence that is up to date.
LEMMA EventAppended ==
    ASSUME NEW s \in Seq(Nat), NEW m \in Nat \ {0}, NEW lost,
           Gapless(s, lost), UpToDate(s, m - 1, lost)
    PROVE  /\ Gapless(Append(s, m), lost)
           /\ UpToDate(Append(s, m), m, lost)
  <1> DEFINE t == Append(s, m)
             n == Len(s)
  <1>1. /\ n \in Nat /\ Len(s) = n /\ Len(t) = n + 1
        /\ \A i \in 1..n : t[i] = s[i] /\ s[i] \in Nat
        /\ t[n + 1] = m
    OBVIOUS
  <1> HIDE DEF t, n
  <1>2. \A e : (\E k \in 1..n : s[k] = e) => \E k \in 1..(n + 1) : t[k] = e
    BY <1>1
  <1>3. \A i \in 1..n :
            /\ s[i] < m
            /\ s[i] # READY =>
                   \A e \in (s[i] + 1)..(m - 1) :
                       e \in lost \/ \E k \in 1..(n + 1) : t[k] = e
    BY <1>1, <1>2 DEF UpToDate
  <1>4. \A i, j \in 1..n :
            i < j /\ s[i] # READY /\ s[j] # READY =>
                /\ s[i] < s[j]
                /\ \A e \in (s[i] + 1)..(s[j] - 1) :
                       e \in lost \/ \E k \in 1..n : s[k] = e
    BY <1>1 DEF Gapless
  <1>5. Gapless(t, lost)
    <2> SUFFICES ASSUME NEW i \in 1..(n + 1), NEW j \in 1..(n + 1),
                        i < j, t[i] # READY, t[j] # READY
                 PROVE  /\ t[i] < t[j]
                        /\ \A e \in (t[i] + 1)..(t[j] - 1) :
                               e \in lost \/ \E k \in 1..(n + 1) : t[k] = e
      BY <1>1 DEF Gapless
    <2>1. i \in 1..n /\ t[i] = s[i]
      BY <1>1
    <2>2. CASE j = n + 1
      BY <1>1, <1>3, <2>1, <2>2
    <2>3. CASE j \in 1..n
      BY <1>1, <1>2, <1>4, <2>1, <2>3, SMTT(60)
    <2> QED BY <1>1, <2>2, <2>3
  <1>6. UpToDate(t, m, lost)
    <2> SUFFICES ASSUME NEW i \in 1..(n + 1)
                 PROVE  /\ t[i] <= m
                        /\ t[i] # READY =>
                               \A e \in (t[i] + 1)..m :
                                   \/ e \in lost
                                   \/ \E k \in 1..(n + 1) : t[k] = e
      BY <1>1 DEF UpToDate
    <2>1. CASE i = n + 1
      BY <1>1, <2>1
    <2>2. CASE i \in 1..n
      <3>1. t[i] = s[i] /\ s[i] \in Nat /\ s[i] < m
        BY <1>1, <1>3, <2>2
      <3>2. ASSUME t[i] # READY, NEW e \in (t[i] + 1)..m
            PROVE  e \in lost \/ \E k \in 1..(n + 1) : t[k] = e
        <4>1. CASE e = m
          BY <1>1, <4>1
        <4>2. CASE e # m
          <5>1. e \in (s[i] + 1)..(m - 1)
            BY <3>1, <3>2, <4>2
          <5> QED BY <1>3, <2>2, <3>1, <3>2, <5>1
        <4> QED BY <4>1, <4>2
      <3> QED BY <3>1, <3>2
    <2> QED BY <1>1, <2>1, <2>2
  <1> QED BY <1>5, <1>6 DEF t

\* What comes first of a sequence without gaps has none.
LEMMA PrefixGapless ==
    ASSUME NEW s \in Seq(Nat), NEW t \in Seq(Nat), NEW lost,
           Gapless(s \o t, lost)
    PROVE  Gapless(s, lost)
  <1> DEFINE u == s \o t
             n == Len(s)
             l == Len(u)
  <1>1. /\ n \in Nat /\ l \in Nat /\ n <= l
        /\ Len(s) = n /\ Len(u) = l
        /\ \A i \in 1..n : u[i] = s[i]
        /\ \A i \in 1..l : u[i] \in Nat
    BY ConcatProperties, SMTT(60)
  <1>2. Gapless(u, lost)
    OBVIOUS
  <1> HIDE DEF u, n, l
  <1>3. \A i, j \in 1..l :
            i < j /\ u[i] # READY /\ u[j] # READY =>
                /\ u[i] < u[j]
                /\ \A e \in (u[i] + 1)..(u[j] - 1) :
                       e \in lost \/ \E k \in 1..l : u[k] = e
    BY <1>1, <1>2 DEF Gapless
  <1> SUFFICES ASSUME NEW i \in 1..n, NEW j \in 1..n,
                      i < j, s[i] # READY, s[j] # READY
               PROVE  /\ s[i] < s[j]
                      /\ \A e \in (s[i] + 1)..(s[j] - 1) :
                             e \in lost \/ \E k \in 1..n : s[k] = e
    BY <1>1 DEF Gapless
  <1>4. /\ i \in 1..l /\ j \in 1..l
        /\ u[i] = s[i] /\ u[j] = s[j] /\ s[i] \in Nat /\ s[j] \in Nat
    BY <1>1
  <1>5. s[i] < s[j]
    BY <1>1, <1>3, <1>4
  <1>6. ASSUME NEW e \in (s[i] + 1)..(s[j] - 1), e \notin lost
        PROVE  \E k \in 1..n : s[k] = e
    <2>1. PICK k \in 1..l : u[k] = e
      BY <1>1, <1>3, <1>4, <1>6, SMTT(60)
    <2>2. k < j
      <3>1. e # READY /\ e < s[j]
        BY <1>4, <1>6, SMTT(60) DEF READY
      <3>2. ~(j < k)
        BY <1>1, <1>3, <1>4, <2>1, <3>1
      <3>3. k # j
        BY <1>4, <2>1, <3>1, SMTT(60)
      <3> QED BY <1>1, <3>2, <3>3
    <2>3. k \in 1..n
      BY <1>1, <2>2
    <2> QED BY <1>1, <2>1, <2>3
  <1> QED BY <1>5, <1>6

\* Losing an event makes no gap, and makes up to date with it who awaited it.
LEMMA EventLost ==
    ASSUME NEW s \in Seq(Nat), NEW m \in Nat \ {0}, NEW lost
    PROVE  /\ Gapless(s, lost) => Gapless(s, lost \cup {m})
           /\ UpToDate(s, m - 1, lost) => UpToDate(s, m, lost \cup {m})
           /\ UpToDate(s, m, lost) => UpToDate(s, m, lost \cup {m})
  BY DEF Gapless, UpToDate, READY

\* Enqueueing extends the stream, writing leaves it as it is.
LEMMA StreamMoves ==
    ASSUME NEW r \in Seq(Nat), NEW q \in Seq(Nat)
    PROVE  /\ r \o q \in Seq(Nat)
           /\ \A m \in Nat : r \o Append(q, m) = Append(r \o q, m)
           /\ q # <<>> => /\ Append(r, Head(q)) \in Seq(Nat)
                          /\ Tail(q) \in Seq(Nat)
                          /\ Append(r, Head(q)) \o Tail(q) = r \o q
  <1>1. r \o q \in Seq(Nat)
    BY ConcatProperties
  <1>2. ASSUME NEW m \in Nat
        PROVE  r \o Append(q, m) = Append(r \o q, m)
    <2>1. <<m>> \in Seq(Nat)
      OBVIOUS
    <2>2. Append(q, m) = q \o <<m>> /\ Append(r \o q, m) = (r \o q) \o <<m>>
      BY <1>1, AppendIsConcat
    <2> QED BY <2>1, <2>2, ConcatAssociative, SMTT(60)
  <1>3. ASSUME q # <<>>
        PROVE  /\ Append(r, Head(q)) \in Seq(Nat)
               /\ Tail(q) \in Seq(Nat)
               /\ Append(r, Head(q)) \o Tail(q) = r \o q
    <2>1. Head(q) \in Nat /\ Tail(q) \in Seq(Nat)
      BY <1>3
    <2>2. <<Head(q)>> \in Seq(Nat) /\ Append(r, Head(q)) = r \o <<Head(q)>>
      BY <2>1, AppendIsConcat
    <2>3. q = <<Head(q)>> \o Tail(q)
      BY <1>3, ConcatSimplifications
    <2> QED BY <2>1, <2>2, <2>3, ConcatAssociative, SMTT(60)
  <1> QED BY <1>1, <1>2, <1>3

-----------------------------------------------------------------------------
(* Sessions, the registry and the lock.                                    *)

\* Adding c registers c.
LEMMA AddRegisters ==
    ASSUME TypeOK, NEW c \in Sessions, subscribers' = Append(subscribers, c)
    PROVE  Registered' = Registered \cup {c}
  <1> DEFINE n == Len(subscribers)
             added == Append(subscribers, c)
  <1>1. /\ n \in Nat /\ DOMAIN subscribers = 1..n /\ DOMAIN added = 1..(n + 1)
        /\ \A i \in 1..n : added[i] = subscribers[i]
        /\ added[n + 1] = c
    BY DEF TypeOK
  <1> HIDE DEF n, added
  <1>2. Registered' = {added[i] : i \in 1..(n + 1)}
    BY <1>1 DEF Registered, added
  <1>3. Registered = {subscribers[i] : i \in 1..n}
    BY <1>1 DEF Registered
  <1>4. ASSUME NEW d \in Registered PROVE d \in Registered'
    BY <1>1, <1>2, <1>3, <1>4
  <1>5. c \in Registered'
    BY <1>1, <1>2
  <1>6. ASSUME NEW i \in 1..(n + 1) PROVE added[i] \in Registered \cup {c}
    <2>1. CASE i = n + 1
      BY <1>1, <2>1
    <2>2. CASE i \in 1..n
      BY <1>1, <1>3, <2>2
    <2> QED BY <1>1, <2>1, <2>2
  <1> QED BY <1>2, <1>4, <1>5, <1>6

\* Contexts are never revived, and only registered sessions are sent anything.
LEMMA SessionStep ==
    ASSUME TypeOK, SessionInv, RegistryInv, LockInv, [Next]_vars
    PROVE  SessionInv'
  <1> USE DEF TypeOK, SessionInv, Unadded, READY, Main, Writer, Cancel,
             Disconnect, Enqueue, HasRoom
  <1>1. ASSUME NEW c \in Sessions, NEW o \in Sessions \cup {None},
               Connect(c, o)
        PROVE  SessionInv'
    BY <1>1 DEF Connect
  <1>2. ASSUME NEW c \in Sessions, Identify(c) PROVE SessionInv'
    BY <1>2 DEF Identify
  <1>3. ASSUME NEW c \in Sessions, IdentifyCancelled(c) PROVE SessionInv'
    BY <1>3 DEF IdentifyCancelled
  <1>4. ASSUME NEW c \in Sessions, RefuseIdentify(c) PROVE SessionInv'
    BY <1>4 DEF RefuseIdentify
  <1>5. ASSUME NEW c \in Sessions, RefuseResume(c) PROVE SessionInv'
    BY <1>5 DEF RefuseResume
  <1>6. ASSUME NEW c \in Sessions, ReturnRefused(c) PROVE SessionInv'
    BY <1>6 DEF ReturnRefused
  <1>7. ASSUME NEW c \in Sessions, AddSubscriber(c) PROVE SessionInv'
    BY <1>7 DEF AddSubscriber
  <1>8. ASSUME NEW c \in Sessions, DispatchInitial(c) PROVE SessionInv'
    BY <1>8 DEF DispatchInitial
  <1>9. ASSUME NEW c \in Sessions, Expire(c) PROVE SessionInv'
    BY <1>9 DEF Expire
  <1>10. ASSUME NEW c \in Sessions, Delete(c) PROVE SessionInv'
    BY <1>10 DEF Delete
  <1>11. ASSUME NEW c \in Sessions, WriteNormal(c) PROVE SessionInv'
    BY <1>11 DEF WriteNormal
  <1>12. ASSUME NEW c \in Sessions, FailWrite(c) PROVE SessionInv'
    BY <1>12 DEF FailWrite
  <1>13. ASSUME NEW c \in Sessions, StopWriting(c) PROVE SessionInv'
    BY <1>13 DEF StopWriting
  <1>14. ASSUME NEW c \in Sessions, WriteClose(c) PROVE SessionInv'
    BY <1>14 DEF WriteClose
  <1>15. ASSUME NEW c \in Sessions, WriterDelete(c) PROVE SessionInv'
    BY <1>15 DEF WriterDelete
  <1>16. ASSUME NEW c \in Sessions, LoseConnection(c) PROVE SessionInv'
    BY <1>16 DEF LoseConnection
  <1>17. ASSUME NEW c \in Sessions, StopReading(c) PROVE SessionInv'
    BY <1>17 DEF StopReading
  <1>18. ASSUME NEW c \in Sessions, TimeOut(c) PROVE SessionInv'
    BY <1>18 DEF TimeOut
  <1>19. ASSUME NEW c \in Sessions, Send(c) PROVE SessionInv'
    BY <1>19 DEF Send, SendTo, RegistryInv, LockInv, PublishIsUndisturbed
  <1>20. ASSUME NEW c \in Sessions, Reject(c) PROVE SessionInv'
    BY <1>20 DEF Reject, SendTo
  <1>21. ASSUME NEW c \in Sessions, AbortPublish(c) PROVE SessionInv'
    BY <1>21 DEF AbortPublish, SendTo
  <1>22. ASSUME NEW c \in Sessions, CloseSession(c) PROVE SessionInv'
    BY <1>22 DEF CloseSession
  <1>23. ASSUME NEW c \in Sessions, CrashClosing(c) PROVE SessionInv'
    BY <1>23 DEF CrashClosing
  <1>24. ASSUME BeginPublish PROVE SessionInv'
    BY <1>24 DEF BeginPublish
  <1>25. ASSUME EndPublish PROVE SessionInv'
    BY <1>25 DEF EndPublish
  <1>26. ASSUME BeginCloseShard PROVE SessionInv'
    BY <1>26 DEF BeginCloseShard
  <1>27. ASSUME EndCloseShard PROVE SessionInv'
    BY <1>27 DEF EndCloseShard
  <1>28. ASSUME UNCHANGED vars PROVE SessionInv'
    BY <1>28
  <1> QED
    BY <1>1, <1>2, <1>3, <1>4, <1>5, <1>6, <1>7, <1>8, <1>9, <1>10, <1>11,
       <1>12, <1>13, <1>14, <1>15, <1>16, <1>17, <1>18, <1>19, <1>20,
       <1>21, <1>22, <1>23, <1>24, <1>25, <1>26, <1>27, <1>28
       DEF Next, ConsumerStep, MainStep, ReaderStep, WriterStep, BeginStep,
           PublisherStep, CloserStep

\* Nobody is removed whose context is not done.
LEMMA RegistryStep ==
    ASSUME TypeOK, SessionInv, RegistryInv, [Next]_vars
    PROVE  RegistryInv'
  <1>0. UNCHANGED subscribers => UNCHANGED Registered
    BY DEF Registered
  <1> USE <1>0 DEF TypeOK, RegistryInv, Unadded, Main, Writer, Cancel, Disconnect
  <1>1. ASSUME NEW c \in Sessions, NEW o \in Sessions \cup {None},
               Connect(c, o)
        PROVE  RegistryInv'
    BY <1>1 DEF Connect
  <1>2. ASSUME NEW c \in Sessions, Identify(c) PROVE RegistryInv'
    BY <1>2 DEF Identify
  <1>3. ASSUME NEW c \in Sessions, IdentifyCancelled(c) PROVE RegistryInv'
    BY <1>3 DEF IdentifyCancelled
  <1>4. ASSUME NEW c \in Sessions, RefuseIdentify(c) PROVE RegistryInv'
    BY <1>4 DEF RefuseIdentify
  <1>5. ASSUME NEW c \in Sessions, RefuseResume(c) PROVE RegistryInv'
    BY <1>5 DEF RefuseResume
  <1>6. ASSUME NEW c \in Sessions, ReturnRefused(c) PROVE RegistryInv'
    BY <1>6 DEF ReturnRefused
  <1>7. ASSUME NEW c \in Sessions, AddSubscriber(c) PROVE RegistryInv'
    <2>1. Registered' = Registered \cup {c}
      BY <1>7, AddRegisters DEF AddSubscriber
    <2> QED BY <1>7, <2>1 DEF AddSubscriber
  <1>8. ASSUME NEW c \in Sessions, DispatchInitial(c) PROVE RegistryInv'
    BY <1>8 DEF DispatchInitial
  <1>9. ASSUME NEW c \in Sessions, Expire(c) PROVE RegistryInv'
    BY <1>9 DEF Expire
  <1>10. ASSUME NEW c \in Sessions, Delete(c) PROVE RegistryInv'
    <2>1. /\ Registered' \subseteq Registered
          /\ \A d \in Registered \ Registered' :
                 d = c \/ (~identified[c] /\ ~identified[d])
      BY <1>10, DeleteLeaves DEF Delete
    <2> QED BY <1>10, <2>1 DEF Delete, SessionInv
  <1>11. ASSUME NEW c \in Sessions, WriteNormal(c) PROVE RegistryInv'
    BY <1>11 DEF WriteNormal
  <1>12. ASSUME NEW c \in Sessions, FailWrite(c) PROVE RegistryInv'
    BY <1>12 DEF FailWrite
  <1>13. ASSUME NEW c \in Sessions, StopWriting(c) PROVE RegistryInv'
    BY <1>13 DEF StopWriting
  <1>14. ASSUME NEW c \in Sessions, WriteClose(c) PROVE RegistryInv'
    BY <1>14 DEF WriteClose
  <1>15. ASSUME NEW c \in Sessions, WriterDelete(c) PROVE RegistryInv'
    <2>1. /\ Registered' \subseteq Registered
          /\ \A d \in Registered \ Registered' :
                 d = c \/ (~identified[c] /\ ~identified[d])
      BY <1>15, DeleteLeaves DEF WriterDelete
    <2> QED BY <1>15, <2>1 DEF WriterDelete, SessionInv
  <1>16. ASSUME NEW c \in Sessions, LoseConnection(c) PROVE RegistryInv'
    BY <1>16 DEF LoseConnection
  <1>17. ASSUME NEW c \in Sessions, StopReading(c) PROVE RegistryInv'
    BY <1>17 DEF StopReading
  <1>18. ASSUME NEW c \in Sessions, TimeOut(c) PROVE RegistryInv'
    BY <1>18 DEF TimeOut
  <1>19. ASSUME NEW c \in Sessions, Send(c) PROVE RegistryInv'
    BY <1>19 DEF Send, SendTo
  <1>20. ASSUME NEW c \in Sessions, Reject(c) PROVE RegistryInv'
    BY <1>20 DEF Reject, SendTo
  <1>21. ASSUME NEW c \in Sessions, AbortPublish(c) PROVE RegistryInv'
    BY <1>21 DEF AbortPublish, SendTo
  <1>22. ASSUME NEW c \in Sessions, CloseSession(c) PROVE RegistryInv'
    BY <1>22 DEF CloseSession
  <1>23. ASSUME NEW c \in Sessions, CrashClosing(c) PROVE RegistryInv'
    BY <1>23 DEF CrashClosing
  <1>24. ASSUME BeginPublish PROVE RegistryInv'
    BY <1>24 DEF BeginPublish
  <1>25. ASSUME EndPublish PROVE RegistryInv'
    BY <1>25 DEF EndPublish
  <1>26. ASSUME BeginCloseShard PROVE RegistryInv'
    BY <1>26 DEF BeginCloseShard
  <1>27. ASSUME EndCloseShard PROVE RegistryInv'
    BY <1>27 DEF EndCloseShard
  <1>28. ASSUME UNCHANGED vars PROVE RegistryInv'
    BY <1>28
  <1> QED
    BY <1>1, <1>2, <1>3, <1>4, <1>5, <1>6, <1>7, <1>8, <1>9, <1>10, <1>11,
       <1>12, <1>13, <1>14, <1>15, <1>16, <1>17, <1>18, <1>19, <1>20,
       <1>21, <1>22, <1>23, <1>24, <1>25, <1>26, <1>27, <1>28
       DEF Next, ConsumerStep, MainStep, ReaderStep, WriterStep, BeginStep,
           PublisherStep, CloserStep

\* The registry changes only while nobody publishes.
LEMMA LockStep ==
    ASSUME TypeOK, LockInv, [Next]_vars
    PROVE  LockInv'
  <1>0. UNCHANGED subscribers => UNCHANGED Registered
    BY DEF Registered
  <1> USE <1>0 DEF TypeOK, LockInv, PublishIsUndisturbed
  <1>1. ASSUME NEW c \in Sessions, NEW o \in Sessions \cup {None},
               Connect(c, o)
        PROVE  LockInv'
    BY <1>1 DEF Connect
  <1>2. ASSUME NEW c \in Sessions, Identify(c) PROVE LockInv'
    BY <1>2 DEF Identify
  <1>3. ASSUME NEW c \in Sessions, IdentifyCancelled(c) PROVE LockInv'
    BY <1>3 DEF IdentifyCancelled
  <1>4. ASSUME NEW c \in Sessions, RefuseIdentify(c) PROVE LockInv'
    BY <1>4 DEF RefuseIdentify
  <1>5. ASSUME NEW c \in Sessions, RefuseResume(c) PROVE LockInv'
    BY <1>5 DEF RefuseResume
  <1>6. ASSUME NEW c \in Sessions, ReturnRefused(c) PROVE LockInv'
    BY <1>6 DEF ReturnRefused
  <1>7. ASSUME NEW c \in Sessions, AddSubscriber(c) PROVE LockInv'
    BY <1>7 DEF AddSubscriber, CanLock, ReadLocked
  <1>8. ASSUME NEW c \in Sessions, DispatchInitial(c) PROVE LockInv'
    BY <1>8 DEF DispatchInitial
  <1>9. ASSUME NEW c \in Sessions, Expire(c) PROVE LockInv'
    BY <1>9 DEF Expire
  <1>10. ASSUME NEW c \in Sessions, Delete(c) PROVE LockInv'
    BY <1>10, DeleteLeaves DEF Delete
  <1>11. ASSUME NEW c \in Sessions, WriteNormal(c) PROVE LockInv'
    BY <1>11 DEF WriteNormal
  <1>12. ASSUME NEW c \in Sessions, FailWrite(c) PROVE LockInv'
    BY <1>12 DEF FailWrite
  <1>13. ASSUME NEW c \in Sessions, StopWriting(c) PROVE LockInv'
    BY <1>13 DEF StopWriting
  <1>14. ASSUME NEW c \in Sessions, WriteClose(c) PROVE LockInv'
    BY <1>14 DEF WriteClose
  <1>15. ASSUME NEW c \in Sessions, WriterDelete(c) PROVE LockInv'
    BY <1>15, DeleteLeaves DEF WriterDelete
  <1>16. ASSUME NEW c \in Sessions, LoseConnection(c) PROVE LockInv'
    BY <1>16 DEF LoseConnection
  <1>17. ASSUME NEW c \in Sessions, StopReading(c) PROVE LockInv'
    BY <1>17 DEF StopReading
  <1>18. ASSUME NEW c \in Sessions, TimeOut(c) PROVE LockInv'
    BY <1>18 DEF TimeOut
  <1>19. ASSUME NEW c \in Sessions, Send(c) PROVE LockInv'
    BY <1>19 DEF Send, SendTo
  <1>20. ASSUME NEW c \in Sessions, Reject(c) PROVE LockInv'
    BY <1>20 DEF Reject, SendTo
  <1>21. ASSUME NEW c \in Sessions, AbortPublish(c) PROVE LockInv'
    BY <1>21 DEF AbortPublish, SendTo
  <1>22. ASSUME NEW c \in Sessions, CloseSession(c) PROVE LockInv'
    BY <1>22 DEF CloseSession
  <1>23. ASSUME NEW c \in Sessions, CrashClosing(c) PROVE LockInv'
    BY <1>23 DEF CrashClosing
  <1>24. ASSUME BeginPublish PROVE LockInv'
    BY <1>24 DEF BeginPublish
  <1>25. ASSUME EndPublish PROVE LockInv'
    BY <1>25 DEF EndPublish
  <1>26. ASSUME BeginCloseShard PROVE LockInv'
    BY <1>26 DEF BeginCloseShard
  <1>27. ASSUME EndCloseShard PROVE LockInv'
    BY <1>27 DEF EndCloseShard
  <1>28. ASSUME UNCHANGED vars PROVE LockInv'
    BY <1>28
  <1> QED
    BY <1>1, <1>2, <1>3, <1>4, <1>5, <1>6, <1>7, <1>8, <1>9, <1>10, <1>11,
       <1>12, <1>13, <1>14, <1>15, <1>16, <1>17, <1>18, <1>19, <1>20,
       <1>21, <1>22, <1>23, <1>24, <1>25, <1>26, <1>27, <1>28
       DEF Next, ConsumerStep, MainStep, ReaderStep, WriterStep, BeginStep,
           PublisherStep, CloserStep

-----------------------------------------------------------------------------
(* What is sent.                                                           *)

\* The sequences are of natural numbers.
LEMMA StreamTypes ==
    ASSUME TypeOK, NEW c \in Sessions
    PROVE  /\ received[c] \in Seq(Nat) /\ queue[c] \in Seq(Nat)
           /\ Stream(c) \in Seq(Nat)
           /\ event \in Nat
  <1>1. received[c] \in Seq(0..MaxEvents) /\ queue[c] \in Seq(0..MaxEvents)
    BY DEF TypeOK
  <1>2. 0..MaxEvents \subseteq Nat /\ event \in Nat
    BY ConstantsAssumption DEF TypeOK
  <1>3. received[c] \in Seq(Nat) /\ queue[c] \in Seq(Nat)
    BY <1>1, <1>2, SeqMonotonic
  <1> QED BY <1>2, <1>3, StreamMoves DEF Stream

\* Queueing a message for c appends it to the stream of c.
LEMMA StreamAppends ==
    ASSUME TypeOK, NEW c \in Sessions, NEW m \in Nat
    PROVE  received[c] \o Append(queue[c], m) = Append(Stream(c), m)
  <1>1. \A r, q \in Seq(Nat) : r \o Append(q, m) = Append(r \o q, m)
    BY StreamMoves
  <1>2. received[c] \in Seq(Nat) /\ queue[c] \in Seq(Nat)
    BY StreamTypes
  <1> QED BY <1>1, <1>2, Zenon DEF Stream

\* A step that sends nothing changes nothing.
LEMMA StreamFrame ==
    ASSUME NoEventMissed, StreamInv,
           UNCHANGED <<received, queue, todo, event, aborted>>,
           \A c \in Sessions : cancelled[c] => cancelled'[c]
    PROVE  NoEventMissed' /\ StreamInv'
  BY DEF NoEventMissed, StreamInv, Stream, Upto

\* READY or the event being published is queued.
LEMMA StreamQueued ==
    ASSUME TypeOK, LockInv, NoEventMissed, StreamInv, NEW c \in Sessions,
           UNCHANGED <<received, event, aborted, cancelled>>,
           \/ Enqueue(c, READY) /\ UNCHANGED todo
           \/ Enqueue(c, event) /\ c \in todo /\ todo' = todo \ {c}
    PROVE  NoEventMissed' /\ StreamInv'
  <1>1. NoEventMissed'
    BY DEF NoEventMissed
  <1>2. todo # {} => event > 0
    BY DEF LockInv, TypeOK
  <1>3. ASSUME NEW d \in Sessions, ~cancelled'[d]
        PROVE  /\ Gapless(Stream(d)', aborted')
               /\ UpToDate(Stream(d)', Upto(d)', aborted')
    <2>1. Gapless(Stream(d), aborted) /\ UpToDate(Stream(d), Upto(d), aborted)
      BY <1>3 DEF StreamInv
    <2>2. CASE d # c
      <3>1. Stream(d)' = Stream(d) /\ Upto(d)' = Upto(d)
        BY <2>2 DEF Stream, Upto, Enqueue, TypeOK
      <3> QED BY <2>1, <3>1
    <2>3. CASE d = c
      <3>1. /\ received[c] \in Seq(Nat) /\ queue[c] \in Seq(Nat)
            /\ Stream(c) \in Seq(Nat) /\ event \in Nat
        BY StreamTypes
      <3>2. CASE Enqueue(c, READY) /\ UNCHANGED todo
        <4>1. READY \in Nat /\ queue'[c] = Append(queue[c], READY)
          BY <3>2 DEF Enqueue, TypeOK, READY
        <4>2. received[c] \o Append(queue[c], READY) = Append(Stream(c), READY)
          BY <4>1, StreamAppends
        <4>3. Stream(c)' = Append(Stream(c), READY)
          BY <4>1, <4>2, Zenon DEF Stream
        <4>4. Upto(c)' = Upto(c) /\ Upto(c) \in Nat
          BY <1>2, <3>1, <3>2 DEF Upto
        <4> QED BY <2>1, <2>3, <3>1, <4>3, <4>4, ReadyAppended
      <3>3. CASE Enqueue(c, event) /\ c \in todo /\ todo' = todo \ {c}
        <4>1. queue'[c] = Append(queue[c], event)
          BY <3>3 DEF Enqueue, TypeOK
        <4>2. received[c] \o Append(queue[c], event) = Append(Stream(c), event)
          BY <3>1, StreamAppends
        <4>3. Stream(c)' = Append(Stream(c), event)
          BY <4>1, <4>2, Zenon DEF Stream
        <4>4. Upto(c) = event - 1 /\ Upto(c)' = event /\ event \in Nat \ {0}
          BY <1>2, <3>1, <3>3 DEF Upto
        <4> QED BY <2>1, <2>3, <3>1, <4>3, <4>4, EventAppended
      <3> QED BY <3>2, <3>3
    <2> QED BY <2>2, <2>3
  <1> QED BY <1>1, <1>3 DEF StreamInv

\* What is written was queued, in its order.
LEMMA StreamWritten ==
    ASSUME TypeOK, NoEventMissed, StreamInv, NEW c \in Sessions,
           WriteNormal(c)
    PROVE  NoEventMissed' /\ StreamInv'
  <1>1. /\ received[c] \in Seq(Nat) /\ queue[c] \in Seq(Nat)
        /\ Stream(c) \in Seq(Nat)
    BY StreamTypes
  <1>2. /\ received'[c] = Append(received[c], Head(queue[c]))
        /\ queue'[c] = Tail(queue[c]) /\ queue[c] # <<>>
        /\ \A d \in Sessions \ {c} :
               received'[d] = received[d] /\ queue'[d] = queue[d]
    BY DEF WriteNormal, TypeOK
  <1>3. received'[c] \in Seq(Nat) /\ queue'[c] \in Seq(Nat)
    BY <1>1, <1>2, StreamMoves
  <1>4. \A d \in Sessions : Stream(d)' = Stream(d) /\ Upto(d)' = Upto(d)
    <2>1. Append(received[c], Head(queue[c])) \o Tail(queue[c]) = Stream(c)
      BY <1>1, <1>2, StreamMoves, Zenon DEF Stream
    <2>2. Stream(c)' = Stream(c)
      BY <1>2, <2>1, Zenon DEF Stream
    <2> QED BY <1>2, <2>2 DEF Stream, Upto, WriteNormal
  <1>5. StreamInv'
    BY <1>4 DEF StreamInv, WriteNormal
  <1>6. Gapless(received'[c], aborted')
    <2>1. Gapless(Stream(c), aborted) /\ UNCHANGED aborted
      BY DEF StreamInv, WriteNormal
    <2>2. Stream(c) = received'[c] \o queue'[c]
      BY <1>4 DEF Stream
    <2> QED BY <1>3, <2>1, <2>2, PrefixGapless
  <1>7. NoEventMissed'
    BY <1>2, <1>6 DEF NoEventMissed, WriteNormal
  <1> QED BY <1>5, <1>7

\* A new event is still to be sent to whoever may be sent anything.
LEMMA StreamPublished ==
    ASSUME TypeOK, SessionInv, RegistryInv, LockInv, NoEventMissed, StreamInv,
           BeginPublish
    PROVE  NoEventMissed' /\ StreamInv'
  <1>1. NoEventMissed'
    BY DEF NoEventMissed, BeginPublish
  <1>2. ASSUME NEW d \in Sessions, ~cancelled'[d]
        PROVE  /\ Gapless(Stream(d)', aborted')
               /\ UpToDate(Stream(d)', Upto(d)', aborted')
    <2>1. /\ Gapless(Stream(d), aborted)
          /\ UpToDate(Stream(d), Upto(d), aborted)
          /\ ~cancelled[d]
      BY <1>2 DEF StreamInv, BeginPublish
    <2>2. Stream(d)' = Stream(d) /\ aborted' = aborted
      BY DEF Stream, BeginPublish
    <2>3. Upto(d) = event /\ event \in Nat /\ event' = event + 1
      BY DEF Upto, BeginPublish, LockInv, TypeOK
    <2>4. CASE d \in todo'
      BY <2>1, <2>2, <2>3, <2>4 DEF Upto
    <2>5. CASE d \notin todo'
      <3>1. d \notin Registered \/ ~identified[d]
        BY <2>5 DEF BeginPublish
      <3>2. main[d] \in Unadded \cup {"initial", "serving"}
        BY <2>1 DEF SessionInv, Unadded, TypeOK, MainPC
      <3>3. main[d] \in Unadded
        BY <2>1, <3>1, <3>2 DEF SessionInv, RegistryInv, Unadded
      <3>4. Stream(d) = <<>>
        BY <3>3 DEF SessionInv, Stream
      <3> QED BY <2>2, <3>4 DEF Gapless, UpToDate
    <2> QED BY <2>4, <2>5
  <1> QED BY <1>1, <1>2 DEF StreamInv

\* Who was still to be sent the event does without it.
LEMMA StreamAborted ==
    ASSUME TypeOK, LockInv, NoEventMissed, StreamInv, NEW c \in Sessions,
           AbortPublish(c)
    PROVE  NoEventMissed' /\ StreamInv'
  <1>1. event \in Nat \ {0} /\ aborted' = aborted \cup {event} /\ todo' = {}
    BY DEF AbortPublish, SendTo, LockInv, TypeOK
  <1>2. NoEventMissed'
    <2>1. ASSUME NEW d \in Sessions
          PROVE  Gapless(received'[d], aborted')
      <3>1. received'[d] = received[d] /\ Gapless(received[d], aborted)
        BY DEF NoEventMissed, AbortPublish
      <3>2. received[d] \in Seq(Nat)
        BY StreamTypes
      <3> QED BY <1>1, <3>1, <3>2, EventLost
    <2> QED BY <2>1 DEF NoEventMissed
  <1>3. ASSUME NEW d \in Sessions, ~cancelled'[d]
        PROVE  /\ Gapless(Stream(d)', aborted')
               /\ UpToDate(Stream(d)', Upto(d)', aborted')
    <2>1. Gapless(Stream(d), aborted) /\ UpToDate(Stream(d), Upto(d), aborted)
      BY <1>3 DEF StreamInv, AbortPublish
    <2>2. Stream(d)' = Stream(d) /\ Upto(d)' = event /\ Stream(d) \in Seq(Nat)
      BY <1>1, StreamTypes DEF Stream, Upto, AbortPublish
    <2>3. Upto(d) = event \/ Upto(d) = event - 1
      BY DEF Upto
    <2> QED BY <1>1, <2>1, <2>2, <2>3, EventLost
  <1> QED BY <1>2, <1>3 DEF StreamInv

\* Every step keeps what is sent without gaps.
LEMMA StreamStep ==
    ASSUME TypeOK, SessionInv, RegistryInv, LockInv, NoEventMissed, StreamInv,
           [Next]_vars
    PROVE  NoEventMissed' /\ StreamInv'
  <1> DEFINE Goal == NoEventMissed' /\ StreamInv'
  <1> SUFFICES Goal
    OBVIOUS
  <1>0. ASSUME UNCHANGED <<received, queue, todo, event, aborted>>,
               \A c \in Sessions : cancelled[c] => cancelled'[c]
        PROVE  Goal
    BY <1>0, StreamFrame
  <1> HIDE DEF Goal
  <1> USE DEF Cancel, TypeOK
  <1>1. ASSUME NEW c \in Sessions, NEW o \in Sessions \cup {None},
               Connect(c, o)
        PROVE  Goal
    BY <1>0, <1>1 DEF Connect
  <1>2. ASSUME NEW c \in Sessions, Identify(c) PROVE Goal
    BY <1>0, <1>2 DEF Identify
  <1>3. ASSUME NEW c \in Sessions, IdentifyCancelled(c) PROVE Goal
    BY <1>0, <1>3 DEF IdentifyCancelled
  <1>4. ASSUME NEW c \in Sessions, RefuseIdentify(c) PROVE Goal
    BY <1>0, <1>4 DEF RefuseIdentify
  <1>5. ASSUME NEW c \in Sessions, RefuseResume(c) PROVE Goal
    BY <1>0, <1>5 DEF RefuseResume
  <1>6. ASSUME NEW c \in Sessions, ReturnRefused(c) PROVE Goal
    BY <1>0, <1>6 DEF ReturnRefused
  <1>7. ASSUME NEW c \in Sessions, AddSubscriber(c) PROVE Goal
    BY <1>0, <1>7 DEF AddSubscriber
  <1>8. ASSUME NEW c \in Sessions, DispatchInitial(c) PROVE Goal
    <2>1. CASE UNCHANGED queue
      BY <1>0, <1>8, <2>1 DEF DispatchInitial
    <2>2. CASE Enqueue(c, READY)
      BY <1>8, <2>2, StreamQueued DEF DispatchInitial, Goal
    <2> QED BY <1>8, <2>1, <2>2 DEF DispatchInitial
  <1>9. ASSUME NEW c \in Sessions, Expire(c) PROVE Goal
    BY <1>0, <1>9 DEF Expire
  <1>10. ASSUME NEW c \in Sessions, Delete(c) PROVE Goal
    BY <1>0, <1>10 DEF Delete
  <1>11. ASSUME NEW c \in Sessions, WriteNormal(c) PROVE Goal
    BY <1>11, StreamWritten DEF Goal
  <1>12. ASSUME NEW c \in Sessions, FailWrite(c) PROVE Goal
    <2>1. NoEventMissed'
      BY <1>12 DEF FailWrite, NoEventMissed
    <2>2. ASSUME NEW d \in Sessions, ~cancelled'[d]
          PROVE  /\ Gapless(Stream(d)', aborted')
                 /\ UpToDate(Stream(d)', Upto(d)', aborted')
      <3>1. d # c /\ ~cancelled[d]
        BY <1>12, <2>2 DEF FailWrite
      <3>2. Stream(d)' = Stream(d) /\ Upto(d)' = Upto(d) /\ aborted' = aborted
        BY <1>12, <3>1 DEF FailWrite, Stream, Upto
      <3> QED BY <3>1, <3>2 DEF StreamInv
    <2> QED BY <2>1, <2>2 DEF StreamInv, Goal
  <1>13. ASSUME NEW c \in Sessions, StopWriting(c) PROVE Goal
    BY <1>0, <1>13 DEF StopWriting
  <1>14. ASSUME NEW c \in Sessions, WriteClose(c) PROVE Goal
    BY <1>0, <1>14 DEF WriteClose
  <1>15. ASSUME NEW c \in Sessions, WriterDelete(c) PROVE Goal
    BY <1>0, <1>15 DEF WriterDelete
  <1>16. ASSUME NEW c \in Sessions, LoseConnection(c) PROVE Goal
    BY <1>0, <1>16 DEF LoseConnection
  <1>17. ASSUME NEW c \in Sessions, StopReading(c) PROVE Goal
    BY <1>0, <1>17 DEF StopReading
  <1>18. ASSUME NEW c \in Sessions, TimeOut(c) PROVE Goal
    BY <1>0, <1>18 DEF TimeOut
  <1>19. ASSUME NEW c \in Sessions, Send(c) PROVE Goal
    <2>1. /\ Enqueue(c, event) /\ c \in todo /\ todo' = todo \ {c}
          /\ UNCHANGED <<received, event, aborted, cancelled>>
      BY <1>19 DEF Send, SendTo
    <2> QED BY <2>1, StreamQueued DEF Goal
  <1>20. ASSUME NEW c \in Sessions, Reject(c) PROVE Goal
    <2>1. ~identified[c] /\ c \in Registered
      BY <1>20 DEF Reject, SendTo, Rejects, LockInv, PublishIsUndisturbed
    <2>2. cancelled[c]
      BY <2>1 DEF SessionInv, RegistryInv, Unadded
    <2>3. NoEventMissed'
      BY <1>20 DEF Reject, NoEventMissed
    <2>4. ASSUME NEW d \in Sessions, ~cancelled'[d]
          PROVE  /\ Gapless(Stream(d)', aborted')
                 /\ UpToDate(Stream(d)', Upto(d)', aborted')
      <3>1. d # c /\ ~cancelled[d]
        BY <1>20, <2>2, <2>4 DEF Reject
      <3>2. Stream(d)' = Stream(d) /\ Upto(d)' = Upto(d) /\ aborted' = aborted
        BY <1>20, <3>1 DEF Reject, Stream, Upto
      <3> QED BY <3>1, <3>2 DEF StreamInv
    <2> QED BY <2>3, <2>4 DEF StreamInv, Goal
  <1>21. ASSUME NEW c \in Sessions, AbortPublish(c) PROVE Goal
    BY <1>21, StreamAborted DEF Goal
  <1>22. ASSUME NEW c \in Sessions, CloseSession(c) PROVE Goal
    BY <1>0, <1>22 DEF CloseSession
  <1>23. ASSUME NEW c \in Sessions, CrashClosing(c) PROVE Goal
    BY <1>0, <1>23 DEF CrashClosing
  <1>24. ASSUME BeginPublish PROVE Goal
    BY <1>24, StreamPublished DEF Goal
  <1>25. ASSUME EndPublish PROVE Goal
    BY <1>0, <1>25 DEF EndPublish
  <1>26. ASSUME BeginCloseShard PROVE Goal
    BY <1>0, <1>26 DEF BeginCloseShard
  <1>27. ASSUME EndCloseShard PROVE Goal
    BY <1>0, <1>27 DEF EndCloseShard
  <1>28. ASSUME UNCHANGED vars PROVE Goal
    BY <1>0, <1>28
  <1> QED
    BY <1>1, <1>2, <1>3, <1>4, <1>5, <1>6, <1>7, <1>8, <1>9, <1>10, <1>11,
       <1>12, <1>13, <1>14, <1>15, <1>16, <1>17, <1>18, <1>19, <1>20,
       <1>21, <1>22, <1>23, <1>24, <1>25, <1>26, <1>27, <1>28
       DEF Next, ConsumerStep, MainStep, ReaderStep, WriterStep, BeginStep,
           PublisherStep, CloserStep

-----------------------------------------------------------------------------
(* The theorems.                                                           *)

\* Nobody is connected at first.
LEMMA InitInv == Init => IInv
  <1> SUFFICES ASSUME Init PROVE IInv
    OBVIOUS
  <1>1. TypeOK
    BY ConstantsAssumption DEF Init, TypeOK, MainPC, WriterPC, Kind
  <1>2. Registered = {}
    BY DEF Init, Registered
  <1>3. SessionInv
    BY DEF Init, SessionInv, Unadded
  <1>4. RegistryInv /\ LockInv
    BY <1>2 DEF Init, RegistryInv, LockInv, PublishIsUndisturbed
  <1>5. \A c \in Sessions : received[c] = <<>> /\ Stream(c) = <<>>
    BY DEF Init, Stream
  <1>6. NoEventMissed /\ StreamInv
    BY <1>5 DEF NoEventMissed, StreamInv, Gapless, UpToDate
  <1> QED BY <1>1, <1>3, <1>4, <1>6 DEF IInv

\* Every variable stays within its type, and a channel within its buffer.
THEOREM TypeCorrect == Spec => []TypeOK
  <1>1. Init => TypeOK
    BY InitInv DEF IInv
  <1> QED BY <1>1, TypeStep, PTL DEF Spec

\* The inductive invariant holds.
THEOREM Inductive == Spec => []IInv
  <1>1. IInv /\ [Next]_vars => IInv'
    BY TypeStep, SessionStep, RegistryStep, LockStep, StreamStep DEF IInv
  <1> QED BY <1>1, InitInv, PTL DEF Spec

\* publish: whoever it still has to send to is registered.
THEOREM Undisturbed == Spec => []PublishIsUndisturbed
  <1>1. IInv => PublishIsUndisturbed
    BY DEF IInv, LockInv
  <1> QED BY <1>1, Inductive, PTL

\* writeMessages: what a consumer is sent has no gap, but for events whose
\* publish panicked.
THEOREM DeliveryHasNoGap == Spec => []NoEventMissed
  <1>1. IInv => NoEventMissed
    BY DEF IInv
  <1> QED BY <1>1, Inductive, PTL

=============================================================================
