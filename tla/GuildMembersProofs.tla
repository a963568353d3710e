--------------------------- MODULE GuildMembersProofs ---------------------------
(***************************************************************************)
(* The cache has the members of a guild at rest, and their number, if one  *)
(* manager alone ever had a bot in it; for any managers, guilds and users, *)
(* with members cached or not.                                             *)
(*                                                                         *)
(* What the manager has handled decides who is in the guild as far as it   *)
(* knows: whoever the next of the events still in its inbox is a leave of, *)
(* and whoever is there on Discord and is in no such event (There, In).    *)
(* Nothing Discord does changes that, because it sends what it does        *)
(* (Quiet); it changes when the manager comes to an event.  So what holds  *)
(* at rest holds of In all the time, but for what the handler under way    *)
(* has yet to do (GuildOK): the keys that are set are those of the last    *)
(* join or leave (KeyOK), which is why no later one is dropped; who is     *)
(* cached is in (MemberOK), so are the mutual guilds (MutualOK); and the   *)
(* count, as far as the handler has come, is the cardinality (CountOK).    *)
(*                                                                         *)
(* It takes the order of the operations in each handler (Orderly, Single), *)
(* and that an update finds all parts it reads (WholeOK): it fails         *)
(* otherwise, and the count becomes 0.  Steps about other guilds or of     *)
(* other managers change nothing of this (Aside).                          *)
(***************************************************************************)
EXTENDS GuildCacheProofs

-----------------------------------------------------------------------------
(* Sequences of events: who is there after some of them                     *)

\* Whether somebody is there after the first i of s, given that he is at the end.
There(s, join, quit, now, i) ==
    \/ \E j \in i+1..Len(s) : s[j] = quit /\ \A l \in i+1..j-1 : s[l] # join
    \/ now /\ \A j \in i+1..Len(s) : s[j] # join /\ s[j] # quit

\* What is there after the first.
LEMMA ThereTail ==
    ASSUME NEW S, NEW s \in Seq(S), s # <<>>, NEW join, NEW quit, NEW now \in BOOLEAN, NEW i \in Nat
    PROVE  There(Tail(s), join, quit, now, i) <=> There(s, join, quit, now, i + 1)
  <1>1. /\ Len(s) \in Nat \ {0} /\ Len(Tail(s)) = Len(s) - 1
        /\ \A j \in 1..Len(s)-1 : Tail(s)[j] = s[j+1]
    OBVIOUS
  <1>2. (\A j \in i+1..Len(Tail(s)) : Tail(s)[j] # join /\ Tail(s)[j] # quit)
           <=> (\A j \in i+2..Len(s) : s[j] # join /\ s[j] # quit)
    <2>1. ASSUME \A j \in i+1..Len(Tail(s)) : Tail(s)[j] # join /\ Tail(s)[j] # quit,
                 NEW j \in i+2..Len(s)
          PROVE  s[j] # join /\ s[j] # quit
      <3>1. j - 1 \in i+1..Len(Tail(s)) /\ Tail(s)[j-1] = s[j]
        BY <1>1
      <3> QED BY <2>1, <3>1
    <2>2. ASSUME \A j \in i+2..Len(s) : s[j] # join /\ s[j] # quit,
                 NEW j \in i+1..Len(Tail(s))
          PROVE  Tail(s)[j] # join /\ Tail(s)[j] # quit
      <3>1. j + 1 \in i+2..Len(s) /\ Tail(s)[j] = s[j+1]
        BY <1>1
      <3> QED BY <2>2, <3>1
    <2> QED BY <2>1, <2>2
  <1>3. ASSUME NEW j \in i+1..Len(Tail(s))
        PROVE  (Tail(s)[j] = quit /\ \A l \in i+1..j-1 : Tail(s)[l] # join)
                  <=> (s[j+1] = quit /\ \A l \in i+2..j : s[l] # join)
    <2>1. Tail(s)[j] = s[j+1]
      BY <1>1
    <2>2. ASSUME \A l \in i+1..j-1 : Tail(s)[l] # join, NEW l \in i+2..j
          PROVE  s[l] # join
      <3>1. l - 1 \in i+1..j-1 /\ Tail(s)[l-1] = s[l]
        BY <1>1
      <3> QED BY <2>2, <3>1
    <2>3. ASSUME \A l \in i+2..j : s[l] # join, NEW l \in i+1..j-1
          PROVE  Tail(s)[l] # join
      <3>1. l + 1 \in i+2..j /\ Tail(s)[l] = s[l+1]
        BY <1>1
      <3> QED BY <2>3, <3>1
    <2> QED BY <2>1, <2>2, <2>3
  <1>4. (\E j \in i+1..Len(Tail(s)) : Tail(s)[j] = quit /\ \A l \in i+1..j-1 : Tail(s)[l] # join)
           <=> (\E j \in i+2..Len(s) : s[j] = quit /\ \A l \in i+2..j-1 : s[l] # join)
    <2>1. ASSUME NEW j \in i+1..Len(Tail(s)), Tail(s)[j] = quit, \A l \in i+1..j-1 : Tail(s)[l] # join
          PROVE  \E x \in i+2..Len(s) : s[x] = quit /\ \A l \in i+2..x-1 : s[l] # join
      <3>1. j + 1 \in i+2..Len(s) /\ (j + 1) - 1 = j
        BY <1>1
      <3>2. s[j+1] = quit /\ \A l \in i+2..(j+1)-1 : s[l] # join
        BY <1>3, <2>1, <3>1
      <3> QED BY <3>1, <3>2
    <2>2. ASSUME NEW x \in i+2..Len(s), s[x] = quit, \A l \in i+2..x-1 : s[l] # join
          PROVE  \E j \in i+1..Len(Tail(s)) : Tail(s)[j] = quit /\ \A l \in i+1..j-1 : Tail(s)[l] # join
      <3>1. PICK j \in i+1..Len(Tail(s)) : x = j + 1
        <4>1. x - 1 \in i+1..Len(Tail(s)) /\ x = (x - 1) + 1
          BY <1>1
        <4> QED BY <4>1
      <3>2. s[j+1] = quit /\ \A l \in i+2..j : s[l] # join
        BY <2>2, <3>1
      <3> QED BY <1>3, <3>2
    <2> QED BY <2>1, <2>2
  <1>5. (i + 1) + 1 = i + 2
    OBVIOUS
  <1> QED BY <1>2, <1>4, <1>5 DEF There

\* What the first of s says.
LEMMA ThereHead ==
    ASSUME NEW S, NEW s \in Seq(S), s # <<>>, NEW join, NEW quit, join # quit, NEW now \in BOOLEAN
    PROVE  /\ Head(s) = quit => There(s, join, quit, now, 0)
           /\ Head(s) = join => ~There(s, join, quit, now, 0)
           /\ Head(s) \notin {join, quit} =>
                 (There(s, join, quit, now, 0) <=> There(s, join, quit, now, 1))
  <1>1. Len(s) \in Nat \ {0} /\ Head(s) = s[1]
    OBVIOUS
  <1>2. ASSUME Head(s) = quit
        PROVE  There(s, join, quit, now, 0)
    <2>1. 1 \in 0+1..Len(s) /\ s[1] = quit /\ \A l \in 0+1..1-1 : s[l] # join
      BY <1>1, <1>2
    <2> QED BY <2>1 DEF There
  <1>3. ASSUME Head(s) = join, There(s, join, quit, now, 0)
        PROVE  FALSE
    <2>1. 1 \in 0+1..Len(s) /\ s[1] = join
      BY <1>1, <1>3
    <2>2. PICK j \in 0+1..Len(s) : s[j] = quit /\ \A l \in 0+1..j-1 : s[l] # join
      BY <1>3, <2>1 DEF There
    <2>3. j # 1
      BY <2>1, <2>2
    <2>4. 1 \in 0+1..j-1
      BY <2>3
    <2> QED BY <2>1, <2>2, <2>4
  <1>4. ASSUME Head(s) \notin {join, quit}
        PROVE  There(s, join, quit, now, 0) <=> There(s, join, quit, now, 1)
    <2>1. s[1] # join /\ s[1] # quit
      BY <1>1, <1>4
    <2>2. \A j \in 0+1..Len(s) : j = 1 \/ j \in 1+1..Len(s)
      BY <1>1
    <2>3. \A j \in 1+1..Len(s) : j \in 0+1..Len(s)
      BY <1>1
    <2>4. (\A j \in 0+1..Len(s) : s[j] # join /\ s[j] # quit)
             <=> (\A j \in 1+1..Len(s) : s[j] # join /\ s[j] # quit)
      BY <2>1, <2>2, <2>3
    <2>5. ASSUME NEW j \in 1+1..Len(s)
          PROVE  (\A l \in 0+1..j-1 : s[l] # join) <=> (\A l \in 1+1..j-1 : s[l] # join)
      <3>1. (\A l \in 0+1..j-1 : l = 1 \/ l \in 1+1..j-1) /\ (\A l \in 1+1..j-1 : l \in 0+1..j-1)
        BY <1>1
      <3> QED BY <2>1, <3>1
    <2>6. (\E j \in 0+1..Len(s) : s[j] = quit /\ \A l \in 0+1..j-1 : s[l] # join)
             <=> (\E j \in 1+1..Len(s) : s[j] = quit /\ \A l \in 1+1..j-1 : s[l] # join)
      BY <2>1, <2>2, <2>3, <2>5
    <2> QED BY <2>4, <2>6 DEF There
  <1> QED BY <1>2, <1>3, <1>4

\* What is sent last says what was before it.
LEMMA ThereAppend ==
    ASSUME NEW S, NEW s \in Seq(S), NEW x \in S, NEW join, NEW quit, join # quit,
           NEW now \in BOOLEAN, NEW then \in BOOLEAN, NEW i \in 0..Len(s),
           \/ x \notin {join, quit} /\ then = now
           \/ x = join /\ ~now /\ then
           \/ x = quit /\ now /\ ~then
    PROVE  There(Append(s, x), join, quit, then, i) <=> There(s, join, quit, now, i)
  <1>1. PICK t, n : t = Append(s, x) /\ n = Len(s)
    OBVIOUS
  <1>2. n \in Nat /\ i \in 0..n /\ Len(t) = n + 1 /\ t[n+1] = x /\ \A j \in 1..n : t[j] = s[j]
    BY <1>1
  <1>3. \A j \in i+1..n+1 : j = n + 1 \/ j \in i+1..n
    BY <1>2
  <1>4. n + 1 \in i+1..n+1 /\ (\A j \in i+1..n : j \in i+1..n+1) /\ (n + 1) - 1 = n
    BY <1>2
  <1>5. \A j \in i+1..n : t[j] = s[j]
    BY <1>2
  <1>6. ASSUME NEW j \in i+1..n
        PROVE  (\A l \in i+1..j-1 : t[l] # join) <=> (\A l \in i+1..j-1 : s[l] # join)
    <2>1. \A l \in i+1..j-1 : l \in i+1..n
      BY <1>2
    <2> QED BY <1>5, <2>1
  <1>7. ASSUME NEW b \in BOOLEAN
        PROVE  There(t, join, quit, b, i) <=>
                  \/ \E j \in i+1..n : s[j] = quit /\ \A l \in i+1..j-1 : s[l] # join
                  \/ x = quit /\ \A l \in i+1..n : s[l] # join
                  \/ b /\ x # join /\ x # quit /\ \A j \in i+1..n : s[j] # join /\ s[j] # quit
    <2>1. (\A j \in i+1..n+1 : t[j] # join /\ t[j] # quit)
             <=> x # join /\ x # quit /\ \A j \in i+1..n : s[j] # join /\ s[j] # quit
      BY <1>2, <1>3, <1>4, <1>5
    <2>2. (\A l \in i+1..n : t[l] # join) <=> (\A l \in i+1..n : s[l] # join)
      BY <1>5
    <2>3. (\E j \in i+1..n+1 : t[j] = quit /\ \A l \in i+1..j-1 : t[l] # join)
             <=> \/ \E j \in i+1..n : s[j] = quit /\ \A l \in i+1..j-1 : s[l] # join
                 \/ x = quit /\ \A l \in i+1..n : s[l] # join
      BY <1>2, <1>3, <1>4, <1>5, <1>6, <2>2
    <2> QED BY <1>2, <2>1, <2>3 DEF There
  <1>8. ASSUME NEW b \in BOOLEAN
        PROVE  There(s, join, quit, b, i) <=>
                  \/ \E j \in i+1..n : s[j] = quit /\ \A l \in i+1..j-1 : s[l] # join
                  \/ b /\ \A j \in i+1..n : s[j] # join /\ s[j] # quit
    BY <1>1 DEF There
  <1>9. CASE x \notin {join, quit} /\ then = now
    BY <1>1, <1>7, <1>8, <1>9
  <1>10. CASE x = join /\ ~now /\ then
    BY <1>1, <1>7, <1>8, <1>10
  <1>11. CASE x = quit /\ now /\ ~then
    <2>1. (\A l \in i+1..n : s[l] # join) =>
             \/ \E j \in i+1..n : s[j] = quit /\ \A l \in i+1..j-1 : s[l] # join
             \/ \A j \in i+1..n : s[j] # join /\ s[j] # quit
      <3> SUFFICES ASSUME \A l \in i+1..n : s[l] # join, NEW j \in i+1..n, s[j] = quit
                   PROVE  s[j] = quit /\ \A l \in i+1..j-1 : s[l] # join
        OBVIOUS
      <3>1. \A l \in i+1..j-1 : l \in i+1..n
        BY <1>2
      <3> QED BY <3>1
    <2> QED BY <1>1, <1>7, <1>8, <1>11, <2>1
  <1> QED BY <1>9, <1>10, <1>11

\* Whoever an element of A is about is there after it, and of B is not.
Fits(s, A, B, join, quit, now) ==
    \A i \in 1..Len(s) : /\ s[i] \in A => There(s, join, quit, now, i)
                         /\ s[i] \in B => ~There(s, join, quit, now, i)

\* What is left of s fits, and its first was right.
LEMMA FitsTail ==
    ASSUME NEW S, NEW s \in Seq(S), s # <<>>, NEW A, NEW B, NEW join, NEW quit, NEW now \in BOOLEAN,
           Fits(s, A, B, join, quit, now)
    PROVE  /\ Fits(Tail(s), A, B, join, quit, now)
           /\ Head(s) \in A => There(Tail(s), join, quit, now, 0)
           /\ Head(s) \in B => ~There(Tail(s), join, quit, now, 0)
  <1>1. /\ Len(s) \in Nat \ {0} /\ Len(Tail(s)) = Len(s) - 1 /\ Head(s) = s[1] /\ 1 \in 1..Len(s)
        /\ \A i \in 1..Len(s)-1 : Tail(s)[i] = s[i+1]
    OBVIOUS
  <1>2. \A i \in Nat : There(Tail(s), join, quit, now, i) <=> There(s, join, quit, now, i + 1)
    BY ThereTail
  <1>3. ASSUME NEW i \in 1..Len(Tail(s))
        PROVE  /\ Tail(s)[i] \in A => There(Tail(s), join, quit, now, i)
               /\ Tail(s)[i] \in B => ~There(Tail(s), join, quit, now, i)
    <2>1. i + 1 \in 1..Len(s) /\ Tail(s)[i] = s[i+1] /\ i \in Nat
      BY <1>1
    <2> QED BY <1>2, <2>1 DEF Fits
  <1>4. /\ Head(s) \in A => There(Tail(s), join, quit, now, 0)
        /\ Head(s) \in B => ~There(Tail(s), join, quit, now, 0)
    <2>1. There(Tail(s), join, quit, now, 0) <=> There(s, join, quit, now, 1)
      <3>1. 0 \in Nat /\ 0 + 1 = 1
        OBVIOUS
      <3> QED BY <1>2, <3>1
    <2> QED BY <1>1, <2>1 DEF Fits
  <1> QED BY <1>3, <1>4 DEF Fits

\* The last one may say how things are, come or go.
LEMMA FitsAppend ==
    ASSUME NEW S, NEW s \in Seq(S), NEW x \in S, NEW A, NEW B, NEW join, NEW quit, join # quit,
           NEW now \in BOOLEAN, NEW then \in BOOLEAN, Fits(s, A, B, join, quit, now),
           \/ x \notin {join, quit} /\ then = now
           \/ x = join /\ ~now /\ then
           \/ x = quit /\ now /\ ~then,
           x \in A => then, x \in B => ~then
    PROVE  /\ Fits(Append(s, x), A, B, join, quit, then)
           /\ There(Append(s, x), join, quit, then, 0) <=> There(s, join, quit, now, 0)
  <1>1. PICK t, n : t = Append(s, x) /\ n = Len(s)
    OBVIOUS
  <1>2. n \in Nat /\ Len(t) = n + 1 /\ t[n+1] = x /\ \A j \in 1..n : t[j] = s[j]
    BY <1>1
  <1>3. \A i \in 0..n : There(t, join, quit, then, i) <=> There(s, join, quit, now, i)
    <2> SUFFICES ASSUME NEW i \in 0..n
                 PROVE  There(t, join, quit, then, i) <=> There(s, join, quit, now, i)
      OBVIOUS
    <2>1. i \in 0..Len(s)
      BY <1>1
    <2>2. There(Append(s, x), join, quit, then, i) <=> There(s, join, quit, now, i)
      BY <2>1, ThereAppend
    <2> QED BY <1>1, <2>2
  <1>4. There(t, join, quit, then, n + 1) <=> then
    BY <1>2 DEF There
  <1>5. \A i \in 1..n+1 : (i \in 0..n /\ i \in 1..n) \/ i = n + 1
    BY <1>2
  <1>6. Fits(t, A, B, join, quit, then)
    <2> SUFFICES ASSUME NEW i \in 1..n+1
                 PROVE  /\ t[i] \in A => There(t, join, quit, then, i)
                        /\ t[i] \in B => ~There(t, join, quit, then, i)
      BY <1>2 DEF Fits
    <2>1. CASE i = n + 1
      BY <1>2, <1>4, <2>1
    <2>2. CASE i \in 0..n /\ i \in 1..n
      BY <1>1, <1>2, <1>3, <2>2 DEF Fits
    <2> QED BY <1>5, <2>1, <2>2
  <1> QED BY <1>1, <1>2, <1>3, <1>6

\* The operations of a handler come in this order: what may drop the event, what reads,
\* what counts, and what stores and removes.
Rank(op) ==
    CASE op.do = "check" -> 1
      [] op.do = "mark" -> 2
      [] op.do = "unmark" -> 3
      [] op.do = "readGuild" -> 4
      [] op.do \in {"readRoles", "readChannels", "readEmojis", "readMembers", "ref", "unref"} -> 5
      [] op.do \in {"increment", "decrement", "rewrite", "guild", "noEmojis"} -> 6
      [] OTHER -> 7
\* May y come after x?  Reads of parts and stores may come in any order.
Precedes(x, y) == Rank(x) < Rank(y) \/ (Rank(x) = Rank(y) /\ Rank(x) \in {5, 7})
Orderly(s) == \A i \in 1..Len(s) : \A j \in i+1..Len(s) : Precedes(s[i], s[j])

\* One orderly sequence before another.
LEMMA OrderlyConcat ==
    ASSUME NEW S, NEW s \in Seq(S), NEW t \in Seq(S), Orderly(s), Orderly(t),
           \A x \in Items(s) : \A y \in Items(t) : Precedes(x, y)
    PROVE  Orderly(s \o t)
  <1>1. PICK r, m, n : r = s \o t /\ m = Len(s) /\ n = Len(t)
    OBVIOUS
  <1>2. /\ m \in Nat /\ n \in Nat /\ Len(r) = m + n
        /\ \A i \in 1..m : r[i] = s[i]
        /\ \A i \in m+1..m+n : i - m \in 1..n /\ r[i] = t[i-m]
    BY <1>1
  <1> SUFFICES ASSUME NEW i \in 1..m+n, NEW j \in i+1..m+n
               PROVE  Precedes(r[i], r[j])
    BY <1>1, <1>2 DEF Orderly
  <1>3. CASE i \in 1..m /\ j \in i+1..m
    <2>1. j \in 1..m
      BY <1>3
    <2> QED BY <1>1, <1>2, <1>3, <2>1 DEF Orderly
  <1>4. CASE i \in 1..m /\ j \in m+1..m+n
    <2>1. r[i] \in Items(s) /\ r[j] \in Items(t)
      BY <1>1, <1>2, <1>4 DEF Items
    <2> QED BY <2>1
  <1>5. CASE i \in m+1..m+n
    <2>1. j \in m+1..m+n /\ j - m \in (i-m)+1..n
      BY <1>2, <1>5
    <2>2. Precedes(t[i-m], t[j-m])
      BY <1>1, <1>2, <1>5, <2>1 DEF Orderly
    <2> QED BY <1>2, <1>5, <2>1, <2>2
  <1> QED BY <1>2, <1>3, <1>4, <1>5

\* What is left of an orderly sequence comes after its first.
LEMMA OrderlyTail ==
    ASSUME NEW S, NEW s \in Seq(S), s # <<>>, Orderly(s)
    PROVE  Orderly(Tail(s)) /\ \A y \in Items(Tail(s)) : Precedes(Head(s), y)
  <1>1. /\ Len(s) \in Nat \ {0} /\ Len(Tail(s)) = Len(s) - 1 /\ Head(s) = s[1] /\ 1 \in 1..Len(s)
        /\ \A i \in 1..Len(s)-1 : Tail(s)[i] = s[i+1] /\ i + 1 \in 1+1..Len(s)
    OBVIOUS
  <1>2. Orderly(Tail(s))
    <2> SUFFICES ASSUME NEW i \in 1..Len(Tail(s)), NEW j \in i+1..Len(Tail(s))
                 PROVE  Precedes(Tail(s)[i], Tail(s)[j])
      BY DEF Orderly
    <2>1. i + 1 \in 1..Len(s) /\ j + 1 \in (i+1)+1..Len(s) /\ Tail(s)[i] = s[i+1] /\ Tail(s)[j] = s[j+1]
      BY <1>1
    <2> QED BY <2>1 DEF Orderly
  <1>3. \A y \in Items(Tail(s)) : Precedes(Head(s), y)
    <2> SUFFICES ASSUME NEW i \in 1..Len(Tail(s))
                 PROVE  Precedes(Head(s), Tail(s)[i])
      BY DEF Items
    <2> QED BY <1>1 DEF Orderly
  <1> QED BY <1>2, <1>3

\* A short sequence is in order.
LEMMA OrderlyShort == Orderly(<<>>) /\ \A x : Orderly(<<x>>)
  BY DEF Orderly

-----------------------------------------------------------------------------
(* Handlers: what one does to the members of a guild and their count        *)

\* The one operation that stores S, if there is anything to store.
Stored(k, key, S) ==
    IF S = {} THEN {} ELSE {[do |-> "store", kind |-> k, key |-> key, entries |-> S]}

\* The rank of each operation.
LEMMA Ranks ==
    ASSUME NEW op
    PROVE  /\ Rank(op) \in 1..7
           /\ op.do = "check" => Rank(op) = 1
           /\ op.do = "mark" => Rank(op) = 2
           /\ op.do = "unmark" => Rank(op) = 3
           /\ op.do = "readGuild" => Rank(op) = 4
           /\ op.do \in {"readRoles", "readChannels", "readEmojis", "readMembers", "ref", "unref"} =>
                 Rank(op) = 5
           /\ op.do \in {"increment", "decrement", "rewrite", "guild", "noEmojis"} => Rank(op) = 6
           /\ op.do \in {"store", "drop", "emojis"} => Rank(op) = 7
  BY DEF Rank

\* What StoreOps is made of.
LEMMA StoredIs ==
    ASSUME NEW k \in Tables, NEW key \in Keys(k), NEW S \in SUBSET Of(k)
    PROVE  /\ StoreOps(k, key, S) \in Seq(Operations)
           /\ Items(StoreOps(k, key, S)) = Stored(k, key, S)
           /\ Orderly(StoreOps(k, key, S))
           /\ \A op \in Stored(k, key, S) :
                 op.do = "store" /\ op.kind = k /\ op.key = key /\ op.entries = S
  <1>1. StoreOps(k, key, S) \in Seq(Operations) /\ Items(StoreOps(k, key, S)) = Stored(k, key, S)
    BY StoreOpsTyped, StoreOpsItems, Zenon DEF Stored
  <1>2. Orderly(StoreOps(k, key, S))
    <2>1. CASE S = {}
      BY <2>1, OrderlyShort DEF StoreOps
    <2>2. CASE S # {}
      BY <2>2, OrderlyShort, Zenon DEF StoreOps
    <2> QED BY <2>1, <2>2
  <1>3. ASSUME NEW op \in Stored(k, key, S)
        PROVE  op.do = "store" /\ op.kind = k /\ op.key = key /\ op.entries = S
    <2>1. op = [do |-> "store", kind |-> k, key |-> key, entries |-> S]
      BY DEF Stored
    <2> QED BY <2>1
  <1> QED BY <1>1, <1>2, <1>3

\* A part of a handler that stores comes last.
LEMMA StoresLast ==
    ASSUME NEW s \in Seq(Operations), NEW t \in Seq(Operations), Orderly(s), Orderly(t),
           \A y \in Items(t) : Rank(y) = 7
    PROVE  /\ s \o t \in Seq(Operations) /\ Orderly(s \o t)
           /\ Items(s \o t) = Items(s) \union Items(t)
  <1>1. ASSUME NEW x, NEW y, Rank(y) = 7
        PROVE  Precedes(x, y)
    BY <1>1, Ranks DEF Precedes
  <1>2. \A x \in Items(s) : \A y \in Items(t) : Precedes(x, y)
    BY <1>1
  <1> QED BY <1>2, ItemsConcat, OrderlyConcat

\* What SetGuild does, and in order.
LEMMA SetGuildItems ==
    ASSUME NEW g \in Guilds, NEW content, NEW count \in Int,
           content.role \subseteq Entities.role, content.channel \subseteq Entities.channel,
           content.member \subseteq Entities.member
    PROVE  /\ Orderly(SetGuild(g, content, count))
           /\ Items(SetGuild(g, content, count)) =
                 {Op("ref", g), [do |-> "guild", guild |-> g, count |-> count], Op("emojis", g)}
                 \union Stored("role", g, content.role) \union Stored("channel", g, content.channel)
                 \union Stored("member", g, Cacheable("member", content.member))
  <1> DEFINE a == <<Op("ref", g), [do |-> "guild", guild |-> g, count |-> count]>>
             r == StoreOps("role", g, content.role)
             c == StoreOps("channel", g, content.channel)
             b == <<Op("emojis", g)>>
             w == StoreOps("member", g, Cacheable("member", content.member))
             s == SetGuild(g, content, count)
  <1>1. PICK S \in SUBSET Of("member") : S = Cacheable("member", content.member)
    <2>1. Cacheable("member", content.member) \in SUBSET Of("member")
      BY TableKinds DEF Cacheable
    <2> QED BY <2>1
  <1>2. /\ a \in Seq(Operations) /\ b \in Seq(Operations)
        /\ Items(a) = {Op("ref", g), [do |-> "guild", guild |-> g, count |-> count]}
        /\ Items(b) = {Op("emojis", g)} /\ Orderly(b)
    <2>1. Op("ref", g) \in Operations /\ Op("emojis", g) \in Operations
          /\ [do |-> "guild", guild |-> g, count |-> count] \in Operations
      BY DEF Op, Operations, PlainOps, CountOps
    <2>2. Items(a) = {Op("ref", g), [do |-> "guild", guild |-> g, count |-> count]}
          /\ Items(b) = {Op("emojis", g)}
      BY DEF Items
    <2> QED BY <2>1, <2>2, OrderlyShort
  <1>3. Orderly(a) /\ (\A x \in Items(a) : Rank(x) < 7) /\ \A x \in Items(b) : Rank(x) = 7
    <2>1. Op("ref", g).do = "ref" /\ Op("emojis", g).do = "emojis"
          /\ [do |-> "guild", guild |-> g, count |-> count].do = "guild"
      BY DEF Op
    <2>2. Rank(a[1]) = 5 /\ Rank(a[2]) = 6 /\ Len(a) = 2
      BY <2>1, Ranks
    <2> HIDE DEF a
    <2>3. Orderly(a)
      BY <2>2 DEF Orderly, Precedes
    <2>4. \A x \in Items(a) : Rank(x) < 7
      BY <2>2 DEF Items
    <2> QED BY <1>2, <2>1, <2>3, <2>4, Ranks
  <1>4. /\ r \in Seq(Operations) /\ Items(r) = Stored("role", g, content.role) /\ Orderly(r)
        /\ \A x \in Items(r) : Rank(x) = 7
    BY StoredIs, Ranks, TableKinds
  <1>5. /\ c \in Seq(Operations) /\ Items(c) = Stored("channel", g, content.channel) /\ Orderly(c)
        /\ \A x \in Items(c) : Rank(x) = 7
    BY StoredIs, Ranks, TableKinds
  <1>6. /\ w \in Seq(Operations) /\ Orderly(w) /\ (\A x \in Items(w) : Rank(x) = 7)
        /\ Items(w) = Stored("member", g, Cacheable("member", content.member))
    <2>1. w = StoreOps("member", g, S)
      BY <1>1
    <2> QED BY <1>1, <2>1, StoredIs, Ranks, TableKinds
  <1>7. s = (((a \o r) \o c) \o b) \o w
    BY DEF SetGuild
  <1> HIDE DEF a, r, c, b, w, s
  <1>8. PICK p \in Seq(Operations) :
           /\ p = a \o r /\ Orderly(p) /\ Items(p) = Items(a) \union Items(r)
    BY <1>2, <1>3, <1>4, StoresLast
  <1>9. PICK q \in Seq(Operations) :
           /\ q = p \o c /\ Orderly(q) /\ Items(q) = Items(p) \union Items(c)
    BY <1>5, <1>8, StoresLast
  <1>10. PICK t \in Seq(Operations) :
           /\ t = q \o b /\ Orderly(t) /\ Items(t) = Items(q) \union Items(b)
    BY <1>2, <1>3, <1>9, StoresLast, ZenonT(60)
  <1>11. Orderly(t \o w) /\ Items(t \o w) = Items(t) \union Items(w)
    BY <1>6, <1>10, StoresLast
  <1>12. s = t \o w
    BY <1>7, <1>8, <1>9, <1>10
  <1>13. Items(s) = Items(a) \union Items(r) \union Items(c) \union Items(b) \union Items(w)
    BY <1>8, <1>9, <1>10, <1>11, <1>12
  <1>14. Items(s) = {Op("ref", g), [do |-> "guild", guild |-> g, count |-> count], Op("emojis", g)}
                    \union Stored("role", g, content.role) \union Stored("channel", g, content.channel)
                    \union Stored("member", g, Cacheable("member", content.member))
    BY <1>2, <1>4, <1>5, <1>6, <1>13
  <1> QED BY <1>11, <1>12, <1>14 DEF s

\* What the handler of a join does.
LEMMA AddItems ==
    ASSUME NEW g \in Guilds, NEW u \in Users
    PROVE  /\ Orderly(OnGuildMemberAdd(g, u))
           /\ Items(OnGuildMemberAdd(g, u)) =
                 {KeyOp("check", "add", g, u), KeyOp("mark", "add", g, u),
                  KeyOp("unmark", "remove", g, u), Op("readGuild", g), Op("increment", g)}
                 \union Stored("member", g, Cacheable("member", {u}))
                 \union Stored("mutual", u, IF StoreMutuals THEN {g} ELSE {})
  <1> DEFINE a == <<KeyOp("check", "add", g, u), KeyOp("mark", "add", g, u),
                    KeyOp("unmark", "remove", g, u), Op("readGuild", g), Op("increment", g)>>
             b == StoreOps("member", g, Cacheable("member", {u}))
             c == StoreOps("mutual", u, IF StoreMutuals THEN {g} ELSE {})
  <1>1. PICK S \in SUBSET Of("member") : S = Cacheable("member", {u})
    <2>1. Cacheable("member", {u}) \in SUBSET Of("member")
      BY TableKinds DEF Cacheable, Entities
    <2> QED BY <2>1
  <1>2. PICK T \in SUBSET Of("mutual") : T = IF StoreMutuals THEN {g} ELSE {}
    BY TableKinds
  <1>3. a \in Seq(Operations)
    <2>1. /\ KeyOp("check", "add", g, u) \in Operations /\ KeyOp("mark", "add", g, u) \in Operations
          /\ KeyOp("unmark", "remove", g, u) \in Operations
      BY KeyOpTyped
    <2>2. Op("readGuild", g) \in Operations /\ Op("increment", g) \in Operations
      BY PlainOpTyped
    <2> QED BY <2>1, <2>2
  <1>4. Items(a) = {KeyOp("check", "add", g, u), KeyOp("mark", "add", g, u),
                    KeyOp("unmark", "remove", g, u), Op("readGuild", g), Op("increment", g)}
    BY DEF Items
  <1>5. Orderly(a) /\ \A x \in Items(a) : Rank(x) < 7
    <2>1. Len(a) = 5 /\ a[1].do = "check" /\ a[2].do = "mark" /\ a[3].do = "unmark"
          /\ a[4].do = "readGuild" /\ a[5].do = "increment"
      BY DEF KeyOp, Op
    <2> HIDE DEF a
    <2>2. /\ Rank(a[1]) = 1 /\ Rank(a[2]) = 2 /\ Rank(a[3]) = 3 /\ Rank(a[4]) = 4 /\ Rank(a[5]) = 6
      BY <2>1, Ranks
    <2>3. \A i \in 1..5 : i = 1 \/ i = 2 \/ i = 3 \/ i = 4 \/ i = 5
      OBVIOUS
    <2>4. Orderly(a)
      BY <2>1, <2>2, <2>3 DEF Orderly, Precedes
    <2> QED BY <2>1, <2>2, <2>3, <2>4 DEF Items
  <1>6. /\ b \in Seq(Operations) /\ Orderly(b) /\ (\A x \in Items(b) : Rank(x) = 7)
        /\ Items(b) = Stored("member", g, Cacheable("member", {u}))
    <2>1. b = StoreOps("member", g, S)
      BY <1>1
    <2>2. /\ StoreOps("member", g, S) \in Seq(Operations) /\ Orderly(StoreOps("member", g, S))
          /\ Items(StoreOps("member", g, S)) = Stored("member", g, S)
          /\ \A op \in Stored("member", g, S) : op.do = "store"
      BY StoredIs, TableKinds
    <2> QED BY <1>1, <2>1, <2>2, Ranks
  <1>7. /\ c \in Seq(Operations) /\ Orderly(c) /\ (\A x \in Items(c) : Rank(x) = 7)
        /\ Items(c) = Stored("mutual", u, IF StoreMutuals THEN {g} ELSE {})
    <2>1. c = StoreOps("mutual", u, T)
      BY <1>2
    <2> QED BY <1>2, <2>1, StoredIs, Ranks, TableKinds
  <1>8. OnGuildMemberAdd(g, u) = (a \o b) \o c
    BY DEF OnGuildMemberAdd
  <1> HIDE DEF a, b, c
  <1>9. PICK p \in Seq(Operations) :
           /\ p = a \o b /\ Orderly(p) /\ Items(p) = Items(a) \union Items(b)
    BY <1>3, <1>5, <1>6, StoresLast
  <1>10. Orderly(p \o c) /\ Items(p \o c) = Items(p) \union Items(c)
    BY <1>7, <1>9, StoresLast
  <1> QED BY <1>4, <1>6, <1>7, <1>8, <1>9, <1>10

\* What the handler of a leave does.
LEMMA RemoveItems ==
    ASSUME NEW g \in Guilds, NEW u \in Users
    PROVE  /\ Orderly(OnGuildMemberRemove(g, u))
           /\ Items(OnGuildMemberRemove(g, u)) =
                 {KeyOp("check", "remove", g, u), KeyOp("mark", "remove", g, u),
                  KeyOp("unmark", "add", g, u), Op("readGuild", g), Op("decrement", g),
                  DropOp("member", g, u), DropOp("mutual", u, g)}
  <1> DEFINE a == OnGuildMemberRemove(g, u)
  <1>1. Items(a) = {KeyOp("check", "remove", g, u), KeyOp("mark", "remove", g, u),
                    KeyOp("unmark", "add", g, u), Op("readGuild", g), Op("decrement", g),
                    DropOp("member", g, u), DropOp("mutual", u, g)}
    BY DEF Items, OnGuildMemberRemove
  <1>2. Len(a) = 7 /\ a[1].do = "check" /\ a[2].do = "mark" /\ a[3].do = "unmark"
        /\ a[4].do = "readGuild" /\ a[5].do = "decrement" /\ a[6].do = "drop" /\ a[7].do = "drop"
    BY DEF OnGuildMemberRemove, KeyOp, Op, DropOp
  <1> HIDE DEF a
  <1>3. /\ Rank(a[1]) = 1 /\ Rank(a[2]) = 2 /\ Rank(a[3]) = 3 /\ Rank(a[4]) = 4 /\ Rank(a[5]) = 6
        /\ Rank(a[6]) = 7 /\ Rank(a[7]) = 7
    BY <1>2, Ranks
  <1>4. \A i \in 1..7 : i = 1 \/ i = 2 \/ i = 3 \/ i = 4 \/ i = 5 \/ i = 6 \/ i = 7
    OBVIOUS
  <1>5. Orderly(a)
    BY <1>2, <1>3, <1>4 DEF Orderly, Precedes
  <1> QED BY <1>1, <1>5 DEF a

\* What the handler of an update does before it writes back.
LEMMA RewriteItems ==
    ASSUME NEW g \in Guilds, NEW roles \in (SUBSET Entities.role) \union {None}
    PROVE  LET op == [do |-> "rewrite", guild |-> g, role |-> roles]
           IN  /\ Orderly(GetGuild(g) \o <<op>>)
               /\ Items(GetGuild(g) \o <<op>>) =
                    {Op("readGuild", g), Op("readRoles", g), Op("readChannels", g),
                     Op("readEmojis", g), Op("readMembers", g), op}
  <1> DEFINE op == [do |-> "rewrite", guild |-> g, role |-> roles]
             a == GetGuild(g)
             b == <<op>>
  <1>1. a \in Seq(Operations) /\ b \in Seq(Operations)
    <2>1. op \in Operations
      BY DEF Operations, RewriteOps
    <2> QED BY <2>1, GetGuildTyped
  <1>2. op.do = "rewrite"
    OBVIOUS
  <1>3. Items(a) = {Op("readGuild", g), Op("readRoles", g), Op("readChannels", g),
                    Op("readEmojis", g), Op("readMembers", g)}
    BY DEF Items, GetGuild
  <1>4. Len(a) = 5 /\ a[1].do = "readGuild" /\ a[2].do = "readRoles" /\ a[3].do = "readChannels"
        /\ a[4].do = "readEmojis" /\ a[5].do = "readMembers"
    BY DEF Op, GetGuild
  <1>5. Items(b) = {op} /\ Orderly(b)
    BY OrderlyShort DEF Items
  <1> HIDE DEF op, a, b
  <1>6. /\ Rank(a[1]) = 4 /\ Rank(a[2]) = 5 /\ Rank(a[3]) = 5 /\ Rank(a[4]) = 5 /\ Rank(a[5]) = 5
        /\ Rank(op) = 6
    BY <1>2, <1>4, Ranks
  <1>7. \A i \in 1..5 : i = 1 \/ i = 2 \/ i = 3 \/ i = 4 \/ i = 5
    OBVIOUS
  <1>8. Orderly(a)
    BY <1>4, <1>6, <1>7 DEF Orderly, Precedes
  <1>9. \A x \in Items(a) : \A y \in Items(b) : Precedes(x, y)
    <2>1. \A i \in 1..5 : Rank(a[i]) < 6
      BY <1>6, <1>7
    <2>2. \A x \in Items(a) : Rank(x) < 6
      BY <1>4, <2>1 DEF Items
    <2> QED BY <1>5, <1>6, <2>2 DEF Precedes
  <1>10. Orderly(a \o b) /\ Items(a \o b) = Items(a) \union Items(b)
    BY <1>1, <1>5, <1>8, <1>9, ItemsConcat, OrderlyConcat
  <1> QED BY <1>3, <1>5, <1>10 DEF a, b, op

\* What an operation is about: one guild.
About(op, g) ==
    \/ op.do \in {"store", "drop"} /\ op.kind # "mutual" /\ op.key = g
    \/ op.do \in {"store", "drop"} /\ op.kind = "mutual" /\ op.entries = {g}
    \/ op.do \in {"check", "mark", "unmark"} /\ op.dkey[2] = g
    \/ op.do \notin {"store", "drop", "check", "mark", "unmark"} /\ op.guild = g

\* What the handlers of joins and leaves are made of, and what SetGuild is.
MoveDos == {"check", "mark", "unmark", "readGuild", "increment", "decrement", "store", "drop"}
WriteDos == {"ref", "guild", "emojis", "store"}

\* An operation is about member u, if it is about any.
AboutMember(op, u) ==
    /\ op.do \in {"check", "mark", "unmark"} => op.dkey[3] = u
    /\ op.do \in {"store", "drop"} =>
          \/ op.kind = "member" /\ op.entries = {u}
          \/ op.kind = "mutual" /\ op.key = u

\* A handler is about one guild; one that counts a member does nothing else, and
\* what it may drop is about that member; one that stores a guild's count reads nothing.
Single(s) ==
    /\ \A op \in Items(s) : \A y \in Items(s) :
          /\ \A g \in Guilds : About(op, g) => About(y, g)
          /\ op.do \in {"check", "increment", "decrement"} => y.do \in MoveDos
          /\ op.do = "guild" => y.do \in WriteDos
          /\ op.do = "check" => AboutMember(y, op.dkey[3])
    /\ \A op \in Items(s) : op.do = "noEmojis" => Op("emojis", op.guild) \in Items(s)

\* The events of a join and of a leave.
Join(g, u) == [type |-> "enter", guild |-> g, kind |-> "member", entity |-> u]
Quit(g, u) == [type |-> "leave", guild |-> g, kind |-> "member", entity |-> u]

\* What an event says of member u of guild g.
Shows(event, g, u) ==
    /\ event.guild = g
    /\ \/ event.type \in {"enter", "touch"} /\ event.kind = "member" /\ event.entity = u
       \/ event.type = "create" /\ u \in event.content.member
Hides(event, g, u) ==
    /\ event.guild = g
    /\ \/ event.type = "leave" /\ event.kind = "member" /\ event.entity = u
       \/ event.type = "create" /\ u \notin event.content.member

\* Is the member one that is cached?
Kept(u) == CacheMembers \/ u = Self
\* Operation op stores e.
StoreOf(op, k, key, e) == op.do = "store" /\ op.kind = k /\ op.key = key /\ e \in op.entries

\* What the handler s of an event of guild g does to its members and their count.
Tells(s, event, g) ==
    /\ Orderly(s) /\ Single(s) /\ \A op \in Items(s) : About(op, g)
    /\ \A u \in Entities.member :
          /\ (\E op \in Items(s) : StoreOf(op, "member", g, u)) <=> Kept(u) /\ Shows(event, g, u)
          /\ DropOp("member", g, u) \in Items(s) <=> event = Quit(g, u)
    /\ \A u \in Users :
          /\ DropOp("mutual", u, g) \in Items(s) <=> event = Quit(g, u)
          /\ (\E op \in Items(s) : StoreOf(op, "mutual", u, g)) => event = Join(g, u)
          /\ \A do \in {"check", "mark"} :
                /\ KeyOp(do, "add", g, u) \in Items(s) <=> event = Join(g, u)
                /\ KeyOp(do, "remove", g, u) \in Items(s) <=> event = Quit(g, u)
          /\ KeyOp("unmark", "add", g, u) \in Items(s) <=> event = Quit(g, u)
          /\ KeyOp("unmark", "remove", g, u) \in Items(s) <=> event = Join(g, u)
    /\ Op("increment", g) \in Items(s) <=> \E u \in Users : event = Join(g, u)
    /\ Op("decrement", g) \in Items(s) <=> \E u \in Users : event = Quit(g, u)
    /\ \A op \in Items(s) :
          /\ op.do \in {"increment", "decrement", "rewrite"} => Op("readGuild", g) \in Items(s)
          /\ op.do = "guild" => event.type = "create" /\ op.count = Cardinality(event.content.member)
    /\ event.type = "create" =>
          /\ \E op \in Items(s) : op.do = "guild"
          /\ Op("emojis", g) \in Items(s)
          /\ \A e \in event.content.role : \E op \in Items(s) : StoreOf(op, "role", g, e)

\* An operation is about one guild only.
LEMMA AboutOne ==
    ASSUME NEW op, NEW g, NEW h, About(op, g), About(op, h)
    PROVE  g = h
  <1>1. {g} = {h} => g = h
    OBVIOUS
  <1> QED BY <1>1 DEF About

\* A handler whose operations are about one guild, and about one member if it may
\* drop the event.
LEMMA SingleBy ==
    ASSUME NEW s, NEW g, \A op \in Items(s) : About(op, g),
           \/ \A op \in Items(s) : op.do \notin {"check", "increment", "decrement", "guild", "noEmojis"}
           \/ \E u : \A op \in Items(s) : AboutMember(op, u) /\ op.do \in MoveDos
           \/ \A op \in Items(s) : op.do \in WriteDos
           \/ (\A op \in Items(s) : op.do \in {"noEmojis", "emojis"}) /\ Op("emojis", g) \in Items(s)
    PROVE  Single(s)
  <1>1. \A op \in Items(s) : \A y \in Items(s) : \A h \in Guilds : About(op, h) => About(y, h)
    BY AboutOne
  <1>2. CASE \A op \in Items(s) : op.do \notin {"check", "increment", "decrement", "guild", "noEmojis"}
    BY <1>1, <1>2 DEF Single
  <1>3. ASSUME NEW u, \A op \in Items(s) : AboutMember(op, u) /\ op.do \in MoveDos
        PROVE  Single(s)
    <2>1. \A op \in Items(s) : op.do = "check" => op.dkey[3] = u
      BY <1>3 DEF AboutMember
    <2>2. \A op \in Items(s) : op.do \notin {"guild", "noEmojis"}
      BY <1>3 DEF MoveDos
    <2> QED BY <1>1, <1>3, <2>1, <2>2 DEF Single
  <1>4. CASE \A op \in Items(s) : op.do \in WriteDos
    BY <1>1, <1>4 DEF Single, WriteDos
  <1>5. CASE (\A op \in Items(s) : op.do \in {"noEmojis", "emojis"}) /\ Op("emojis", g) \in Items(s)
    <2>1. \A op \in Items(s) : op.guild = g
      BY <1>5 DEF About
    <2> QED BY <1>1, <1>5, <2>1 DEF Single
  <1> QED BY <1>2, <1>3, <1>4, <1>5

\* Operations that differ in what they do.
LEMMA Distinct ==
    ASSUME NEW do, NEW kind, NEW g, NEW h, NEW u, NEW k, NEW key
    PROVE  /\ Op(do, g).do = do /\ Op(do, g).guild = g
           /\ KeyOp(do, kind, g, u).do = do /\ KeyOp(do, kind, g, u).dkey = <<kind, g, u>>
           /\ DropOp(k, key, u).do = "drop" /\ DropOp(k, key, u).kind = k /\ DropOp(k, key, u).key = key
           /\ DropOp(k, key, u).entries = {u}
  BY DEF Op, KeyOp, DropOp

\* An event that is about no member does nothing to one.
LEMMA TellsNothing ==
    ASSUME NEW s, NEW g, NEW event, event.type \notin {"create"},
           event.type \in {"enter", "leave", "touch"} => event.kind # "member",
           Orderly(s), Single(s), \A op \in Items(s) : About(op, g),
           \A op \in Items(s) :
              /\ op.do \notin {"check", "mark", "unmark", "increment", "decrement", "guild"}
              /\ op.do \in {"store", "drop"} => op.kind \notin {"member", "mutual"}
              /\ op.do = "rewrite" => Op("readGuild", g) \in Items(s)
    PROVE  Tells(s, event, g)
  <1>1. \A u : event # Join(g, u) /\ event # Quit(g, u) /\ ~Shows(event, g, u)
    BY DEF Join, Quit, Shows
  <1>2. /\ \A u : DropOp("member", g, u) \notin Items(s) /\ DropOp("mutual", u, g) \notin Items(s)
        /\ \A do \in {"check", "mark", "unmark"} : \A kind, u : KeyOp(do, kind, g, u) \notin Items(s)
        /\ Op("increment", g) \notin Items(s) /\ Op("decrement", g) \notin Items(s)
    <2>1. /\ \A u : DropOp("member", g, u).do = "drop" /\ DropOp("member", g, u).kind = "member"
          /\ \A u : DropOp("mutual", u, g).do = "drop" /\ DropOp("mutual", u, g).kind = "mutual"
          /\ \A do, kind, u : KeyOp(do, kind, g, u).do = do
          /\ Op("increment", g).do = "increment" /\ Op("decrement", g).do = "decrement"
      BY DEF Op, KeyOp, DropOp
    <2> QED BY <2>1
  <1>3. \A op \in Items(s) : \A u : ~StoreOf(op, "member", g, u) /\ ~StoreOf(op, "mutual", u, g)
    BY DEF StoreOf
  <1> QED BY <1>1, <1>2, <1>3 DEF Tells

\* Which members are cached.
LEMMA CacheableKeeps ==
    ASSUME NEW S, NEW u
    PROVE  u \in Cacheable("member", S) <=> u \in S /\ Kept(u)
  BY DEF Cacheable, Kept

\* The fields of a join and of a leave.
LEMMA MoveFields ==
    ASSUME NEW g, NEW u
    PROVE  /\ Join(g, u).type = "enter" /\ Join(g, u).guild = g /\ Join(g, u).kind = "member"
           /\ Join(g, u).entity = u
           /\ Quit(g, u).type = "leave" /\ Quit(g, u).guild = g /\ Quit(g, u).kind = "member"
           /\ Quit(g, u).entity = u
  BY DEF Join, Quit

\* A guild that is sent as a whole is stored as a whole.
LEMMA TellsCreate ==
    ASSUME NEW event \in CreateEvents
    PROVE  Tells(Handler(event), event, event.guild)
  <1>1. PICK g, c, n : /\ g = event.guild /\ c = event.content /\ n = Cardinality(c.member)
    OBVIOUS
  <1>2. /\ g \in Guilds /\ c \in Contents /\ n \in Int /\ event.type = "create"
        /\ c.role \subseteq Entities.role /\ c.channel \subseteq Entities.channel
        /\ c.member \subseteq Entities.member
    <2>1. g \in Guilds /\ c \in FullContents /\ event.type = "create"
      BY <1>1 DEF CreateEvents
    <2>2. n \in Int
      BY <1>1, <2>1, FS_CardinalityType DEF FullContents
    <2> QED BY <2>1, <2>2 DEF FullContents, Contents
  <1>3. PICK s : s = SetGuild(g, c, n) /\ Handler(event) = s
    BY <1>1, <1>2 DEF Handler, OnGuildCreate
  <1>4. PICK a, b : a = [do |-> "guild", guild |-> g, count |-> n] /\ b = Cacheable("member", c.member)
    OBVIOUS
  <1>5. /\ Orderly(s)
        /\ Items(s) = {Op("ref", g), a, Op("emojis", g)} \union Stored("role", g, c.role)
                      \union Stored("channel", g, c.channel) \union Stored("member", g, b)
    BY <1>2, <1>3, <1>4, SetGuildItems
  <1>6. ASSUME NEW k, NEW S, NEW op \in Stored(k, g, S)
        PROVE  op.do = "store" /\ op.kind = k /\ op.key = g /\ op.entries = S
    <2>1. op = [do |-> "store", kind |-> k, key |-> g, entries |-> S]
      BY <1>6 DEF Stored
    <2> QED BY <2>1
  <1>7. /\ Op("ref", g).do = "ref" /\ Op("ref", g).guild = g
        /\ Op("emojis", g).do = "emojis" /\ Op("emojis", g).guild = g
        /\ a.do = "guild" /\ a.guild = g /\ a.count = n
    BY <1>4 DEF Op
  <1>8. \A op \in Items(s) : /\ op.do \in {"ref", "guild", "emojis", "store"}
                             /\ op.do = "store" => op.kind \in {"role", "channel", "member"} /\ op.key = g
                             /\ op.do # "store" => op.guild = g
                             /\ op.do = "guild" => op.count = n
    BY <1>5, <1>6, <1>7
  <1>9. \A op \in Items(s) : About(op, g) /\ op.do \in WriteDos
    BY <1>8 DEF About, WriteDos
  <1>10. Single(s)
    BY <1>9, SingleBy
  <1>11. ASSUME NEW k \in {"role", "member"}, NEW S, NEW e, Stored(k, g, S) \subseteq Items(s), e \in S
         PROVE  \E op \in Items(s) : StoreOf(op, k, g, e)
    <2>1. Stored(k, g, S) # {}
      BY <1>11 DEF Stored
    <2> QED BY <1>6, <1>11, <2>1 DEF StoreOf
  <1>12. ASSUME NEW u \in Entities.member
         PROVE  (\E op \in Items(s) : StoreOf(op, "member", g, u)) <=> Kept(u) /\ Shows(event, g, u)
    <2>1. Shows(event, g, u) <=> u \in c.member
      BY <1>1, <1>2 DEF Shows
    <2>2. ASSUME NEW op \in Items(s), StoreOf(op, "member", g, u)
          PROVE  u \in b
      <3>1. op \in Stored("member", g, b)
        BY <1>5, <1>6, <1>7, <2>2 DEF StoreOf
      <3> QED BY <1>6, <2>2, <3>1 DEF StoreOf
    <2>3. u \in b => \E op \in Items(s) : StoreOf(op, "member", g, u)
      BY <1>5, <1>11
    <2> QED BY <1>4, <2>1, <2>2, <2>3, CacheableKeeps
  <1>13. \A u : event # Join(g, u) /\ event # Quit(g, u)
    BY <1>2, MoveFields
  <1>14. /\ \A u : DropOp("member", g, u) \notin Items(s) /\ DropOp("mutual", u, g) \notin Items(s)
         /\ \A do \in {"check", "mark", "unmark"} : \A kind, u : KeyOp(do, kind, g, u) \notin Items(s)
         /\ Op("increment", g) \notin Items(s) /\ Op("decrement", g) \notin Items(s)
    <2>1. /\ \A u : DropOp("member", g, u).do = "drop" /\ DropOp("mutual", u, g).do = "drop"
          /\ \A do, kind, u : KeyOp(do, kind, g, u).do = do
          /\ Op("increment", g).do = "increment" /\ Op("decrement", g).do = "decrement"
      BY DEF Op, KeyOp, DropOp
    <2> QED BY <1>8, <2>1
  <1>15. \A op \in Items(s) : \A u : ~StoreOf(op, "mutual", u, g)
    BY <1>8 DEF StoreOf
  <1>16. /\ \E op \in Items(s) : op.do = "guild"
         /\ Op("emojis", g) \in Items(s)
         /\ \A e \in c.role : \E op \in Items(s) : StoreOf(op, "role", g, e)
    BY <1>5, <1>7, <1>11
  <1>17. Tells(s, event, g)
    BY <1>1, <1>2, <1>5, <1>8, <1>9, <1>10, <1>12, <1>13, <1>14, <1>15, <1>16 DEF Tells
  <1> QED BY <1>1, <1>3, <1>17

\* A join is counted and stored.
LEMMA TellsJoin ==
    ASSUME NEW g \in Guilds, NEW u \in Users, NEW event, event = Join(g, u)
    PROVE  Tells(OnGuildMemberAdd(g, u), event, g)
  <1>1. PICK s, b, c : /\ s = OnGuildMemberAdd(g, u) /\ b = Cacheable("member", {u})
                       /\ c = IF StoreMutuals THEN {g} ELSE {}
    OBVIOUS
  <1>2. /\ Orderly(s)
        /\ Items(s) = {KeyOp("check", "add", g, u), KeyOp("mark", "add", g, u),
                       KeyOp("unmark", "remove", g, u), Op("readGuild", g), Op("increment", g)}
                      \union Stored("member", g, b) \union Stored("mutual", u, c)
    BY <1>1, AddItems
  <1>3. ASSUME NEW k, NEW key, NEW S, NEW op \in Stored(k, key, S)
        PROVE  op.do = "store" /\ op.kind = k /\ op.key = key /\ op.entries = S /\ S # {}
    <2>1. op = [do |-> "store", kind |-> k, key |-> key, entries |-> S] /\ S # {}
      BY <1>3 DEF Stored
    <2> QED BY <2>1
  <1>4. b \subseteq {u} /\ c \subseteq {g}
    BY <1>1 DEF Cacheable
  <1>5. \A op \in Items(s) :
           /\ op.do \in {"check", "mark", "unmark", "readGuild", "increment", "store"}
           /\ op.do \in {"check", "mark"} => op.dkey = <<"add", g, u>>
           /\ op.do = "unmark" => op.dkey = <<"remove", g, u>>
           /\ op.do \in {"readGuild", "increment"} => op.guild = g
           /\ op.do = "store" => \/ op.kind = "member" /\ op.key = g /\ op.entries = {u} /\ u \in b
                                 \/ op.kind = "mutual" /\ op.key = u /\ op.entries = {g}
    <2>1. \A op \in Stored("member", g, b) :
             op.do = "store" /\ op.kind = "member" /\ op.key = g /\ op.entries = {u} /\ u \in b
      BY <1>3, <1>4
    <2>2. \A op \in Stored("mutual", u, c) :
             op.do = "store" /\ op.kind = "mutual" /\ op.key = u /\ op.entries = {g}
      BY <1>3, <1>4
    <2>3. \A do, kind : KeyOp(do, kind, g, u).do = do /\ KeyOp(do, kind, g, u).dkey = <<kind, g, u>>
      BY DEF KeyOp
    <2>4. \A do : Op(do, g).do = do /\ Op(do, g).guild = g
      BY DEF Op
    <2> QED BY <1>2, <2>1, <2>2, <2>3, <2>4
  <1>6. \A op \in Items(s) : About(op, g) /\ AboutMember(op, u) /\ op.do \in MoveDos
    BY <1>5 DEF About, AboutMember, MoveDos
  <1>7. Single(s)
    BY <1>6, SingleBy
  <1>8. event.type = "enter" /\ event.guild = g /\ event.kind = "member" /\ event.entity = u
    BY MoveFields
  <1>9. \A x : (event = Join(g, x) <=> x = u) /\ event # Quit(g, x)
    <2>1. \A x : Join(g, x).entity = x /\ Quit(g, x).type = "leave"
      BY MoveFields
    <2> QED BY <1>8, <2>1
  <1>10. ASSUME NEW x \in Entities.member
         PROVE  (\E op \in Items(s) : StoreOf(op, "member", g, x)) <=> Kept(x) /\ Shows(event, g, x)
    <2>1. Shows(event, g, x) <=> x = u
      BY <1>8 DEF Shows
    <2>2. ASSUME NEW op \in Items(s), StoreOf(op, "member", g, x)
          PROVE  x = u /\ u \in b
      BY <1>5, <2>2 DEF StoreOf
    <2>3. ASSUME x = u, u \in b
          PROVE  \E op \in Items(s) : StoreOf(op, "member", g, x)
      <3>1. PICK op \in Stored("member", g, b) : TRUE
        BY <2>3 DEF Stored
      <3>2. StoreOf(op, "member", g, x) /\ op \in Items(s)
        BY <1>2, <1>3, <2>3, <3>1 DEF StoreOf
      <3> QED BY <3>2
    <2>4. u \in b <=> Kept(u)
      BY <1>1, CacheableKeeps
    <2> QED BY <2>1, <2>2, <2>3, <2>4
  <1>11. ASSUME NEW x \in Users
         PROVE  \A do \in {"check", "mark"} :
                   /\ KeyOp(do, "add", g, x) \in Items(s) <=> x = u
                   /\ KeyOp(do, "remove", g, x) \notin Items(s)
    <2>1. \A do, kind : KeyOp(do, kind, g, x).do = do /\ KeyOp(do, kind, g, x).dkey = <<kind, g, x>>
      BY DEF KeyOp
    <2> QED BY <1>2, <1>5, <2>1
  <1>12. ASSUME NEW x \in Users
         PROVE  KeyOp("unmark", "add", g, x) \notin Items(s)
                /\ (KeyOp("unmark", "remove", g, x) \in Items(s) <=> x = u)
    <2>1. \A do, kind : KeyOp(do, kind, g, x).do = do /\ KeyOp(do, kind, g, x).dkey = <<kind, g, x>>
      BY DEF KeyOp
    <2> QED BY <1>2, <1>5, <2>1
  <1>13. \A x : DropOp("member", g, x) \notin Items(s) /\ DropOp("mutual", x, g) \notin Items(s)
    <2>1. \A x : DropOp("member", g, x).do = "drop" /\ DropOp("mutual", x, g).do = "drop"
      BY DEF DropOp
    <2> QED BY <1>5, <2>1
  <1>14. \A op \in Items(s) : \A x : StoreOf(op, "mutual", x, g) => x = u
    BY <1>5 DEF StoreOf
  <1>15. Op("increment", g) \in Items(s) /\ Op("decrement", g) \notin Items(s)
         /\ Op("readGuild", g) \in Items(s)
    <2>1. Op("decrement", g).do = "decrement"
      BY DEF Op
    <2> QED BY <1>2, <1>5, <2>1
  <1>16. \A op \in Items(s) : op.do # "guild"
    BY <1>5
  <1> QED BY <1>1, <1>2, <1>6, <1>7, <1>8, <1>9, <1>10, <1>11, <1>12, <1>13, <1>14, <1>15, <1>16, ZenonT(60)
       DEF Tells

\* A leave is counted and the member removed.
LEMMA TellsQuit ==
    ASSUME NEW g \in Guilds, NEW u \in Users, NEW event, event = Quit(g, u)
    PROVE  Tells(OnGuildMemberRemove(g, u), event, g)
  <1>1. PICK s : s = OnGuildMemberRemove(g, u)
    OBVIOUS
  <1>2. /\ Orderly(s)
        /\ Items(s) = {KeyOp("check", "remove", g, u), KeyOp("mark", "remove", g, u),
                       KeyOp("unmark", "add", g, u), Op("readGuild", g), Op("decrement", g),
                       DropOp("member", g, u), DropOp("mutual", u, g)}
    BY <1>1, RemoveItems
  <1>3. \A op \in Items(s) :
           /\ op.do \in {"check", "mark", "unmark", "readGuild", "decrement", "drop"}
           /\ op.do \in {"check", "mark"} => op.dkey = <<"remove", g, u>>
           /\ op.do = "unmark" => op.dkey = <<"add", g, u>>
           /\ op.do \in {"readGuild", "decrement"} => op.guild = g
           /\ op.do = "drop" => \/ op.kind = "member" /\ op.key = g /\ op.entries = {u}
                                \/ op.kind = "mutual" /\ op.key = u /\ op.entries = {g}
    <2>1. \A do, kind : KeyOp(do, kind, g, u).do = do /\ KeyOp(do, kind, g, u).dkey = <<kind, g, u>>
      BY DEF KeyOp
    <2>2. \A do : Op(do, g).do = do /\ Op(do, g).guild = g
      BY DEF Op
    <2>3. \A k, key, e : /\ DropOp(k, key, e).do = "drop" /\ DropOp(k, key, e).kind = k
                         /\ DropOp(k, key, e).key = key /\ DropOp(k, key, e).entries = {e}
      BY DEF DropOp
    <2> QED BY <1>2, <2>1, <2>2, <2>3
  <1>4. \A op \in Items(s) : About(op, g) /\ AboutMember(op, u) /\ op.do \in MoveDos
    BY <1>3 DEF About, AboutMember, MoveDos
  <1>5. Single(s)
    BY <1>4, SingleBy
  <1>6. event.type = "leave" /\ event.guild = g /\ event.kind = "member" /\ event.entity = u
    BY MoveFields
  <1>7. \A x : (event = Quit(g, x) <=> x = u) /\ event # Join(g, x) /\ ~Shows(event, g, x)
    <2>1. \A x : Quit(g, x).entity = x /\ Join(g, x).type = "enter"
      BY MoveFields
    <2> QED BY <1>6, <2>1 DEF Shows
  <1>8. ASSUME NEW x
        PROVE  \A do \in {"check", "mark"} :
                  /\ KeyOp(do, "remove", g, x) \in Items(s) <=> x = u
                  /\ KeyOp(do, "add", g, x) \notin Items(s)
    <2>1. \A do, kind : KeyOp(do, kind, g, x).do = do /\ KeyOp(do, kind, g, x).dkey = <<kind, g, x>>
      BY DEF KeyOp
    <2> QED BY <1>2, <1>3, <2>1
  <1>9. ASSUME NEW x
        PROVE  KeyOp("unmark", "remove", g, x) \notin Items(s)
               /\ (KeyOp("unmark", "add", g, x) \in Items(s) <=> x = u)
    <2>1. \A do, kind : KeyOp(do, kind, g, x).do = do /\ KeyOp(do, kind, g, x).dkey = <<kind, g, x>>
      BY DEF KeyOp
    <2> QED BY <1>2, <1>3, <2>1
  <1>10. \A x : (DropOp("member", g, x) \in Items(s) <=> x = u)
                /\ (DropOp("mutual", x, g) \in Items(s) <=> x = u)
    <2>1. \A k, key, e : /\ DropOp(k, key, e).do = "drop" /\ DropOp(k, key, e).kind = k
                         /\ DropOp(k, key, e).key = key /\ DropOp(k, key, e).entries = {e}
      BY DEF DropOp
    <2>2. \A x : DropOp("member", g, x) \in Items(s) => x = u
      <3> SUFFICES ASSUME NEW x, DropOp("member", g, x) \in Items(s)
                   PROVE  x = u
        OBVIOUS
      <3>1. {x} = {u}
        BY <1>3, <2>1
      <3> QED BY <3>1
    <2>3. \A x : DropOp("mutual", x, g) \in Items(s) => x = u
      BY <1>3, <2>1
    <2> QED BY <1>2, <2>2, <2>3
  <1>11. \A op \in Items(s) : \A x : ~StoreOf(op, "mutual", x, g) /\ ~StoreOf(op, "member", g, x)
    BY <1>3 DEF StoreOf
  <1>12. Op("decrement", g) \in Items(s) /\ Op("increment", g) \notin Items(s)
         /\ Op("readGuild", g) \in Items(s)
    <2>1. Op("increment", g).do = "increment"
      BY DEF Op
    <2> QED BY <1>2, <1>3, <2>1
  <1>13. \A op \in Items(s) : op.do # "guild"
    BY <1>3
  <1> QED BY <1>1, <1>2, <1>4, <1>5, <1>6, <1>7, <1>8, <1>9, <1>10, <1>11, <1>12, <1>13 DEF Tells

\* A member that is updated is stored, and counts for nothing.
LEMMA TellsTouch ==
    ASSUME NEW g \in Guilds, NEW u \in Entities.member, NEW event, event.guild = g,
           event.type = "touch", event.kind = "member", event.entity = u
    PROVE  Tells(OnSet(g, "member", u), event, g)
  <1>1. PICK s, b : s = OnSet(g, "member", u) /\ b = Cacheable("member", {u})
    OBVIOUS
  <1>2. b \in SUBSET Of("member") /\ b \subseteq {u}
    BY <1>1, TableKinds DEF Cacheable
  <1>3. /\ Orderly(s) /\ Items(s) = Stored("member", g, b)
        /\ \A op \in Stored("member", g, b) :
              op.do = "store" /\ op.kind = "member" /\ op.key = g /\ op.entries = b
    <2>1. s = StoreOps("member", g, b)
      BY <1>1 DEF OnSet
    <2> QED BY <1>2, <2>1, StoredIs, TableKinds
  <1>4. \A op \in Items(s) : About(op, g) /\ op.do = "store" /\ op.kind = "member"
    BY <1>3 DEF About
  <1>5. Single(s)
    <2>1. \A op \in Items(s) : op.do \notin {"check", "increment", "decrement", "guild", "noEmojis"}
      BY <1>4
    <2> QED BY <1>4, <2>1, SingleBy
  <1>6. \A x : event # Join(g, x) /\ event # Quit(g, x)
    BY MoveFields
  <1>7. ASSUME NEW x \in Entities.member
        PROVE  (\E op \in Items(s) : StoreOf(op, "member", g, x)) <=> Kept(x) /\ Shows(event, g, x)
    <2>1. Shows(event, g, x) <=> x = u
      BY DEF Shows
    <2>2. ASSUME NEW op \in Items(s), StoreOf(op, "member", g, x)
          PROVE  x = u /\ u \in b
      BY <1>2, <1>3, <2>2 DEF StoreOf
    <2>3. ASSUME x = u, u \in b
          PROVE  \E op \in Items(s) : StoreOf(op, "member", g, x)
      <3>1. PICK op \in Stored("member", g, b) : TRUE
        BY <2>3 DEF Stored
      <3> QED BY <1>3, <2>3, <3>1 DEF StoreOf
    <2>4. u \in b <=> Kept(u)
      BY <1>1, CacheableKeeps
    <2> QED BY <2>1, <2>2, <2>3, <2>4
  <1>8. /\ \A x : DropOp("member", g, x) \notin Items(s) /\ DropOp("mutual", x, g) \notin Items(s)
        /\ \A do \in {"check", "mark", "unmark"} : \A kind, x : KeyOp(do, kind, g, x) \notin Items(s)
        /\ Op("increment", g) \notin Items(s) /\ Op("decrement", g) \notin Items(s)
    <2>1. /\ \A x : DropOp("member", g, x).do = "drop" /\ DropOp("mutual", x, g).do = "drop"
          /\ \A do, kind, x : KeyOp(do, kind, g, x).do = do
          /\ Op("increment", g).do = "increment" /\ Op("decrement", g).do = "decrement"
      BY DEF Op, KeyOp, DropOp
    <2> QED BY <1>4, <2>1
  <1>9. \A op \in Items(s) : \A x : ~StoreOf(op, "mutual", x, g)
    BY <1>4 DEF StoreOf
  <1>10. \A op \in Items(s) : op.do \notin {"increment", "decrement", "rewrite", "guild"}
    BY <1>4
  <1> QED BY <1>1, <1>3, <1>4, <1>5, <1>6, <1>7, <1>8, <1>9, <1>10 DEF Tells

\* Updates write back what they read; the others leave members and counts alone.
LEMMA TellsUpdate ==
    ASSUME NEW event \in DeleteEvents \union UpdateEvents
    PROVE  Tells(Handler(event), event, event.guild)
  <1>1. PICK g \in Guilds : g = event.guild
    BY DEF DeleteEvents, UpdateEvents
  <1>2. event.type \in {"delete", "update", "emojis", "stickers"}
    BY DEF DeleteEvents, UpdateEvents
  <1>3. \A do : Op(do, g).do = do /\ Op(do, g).guild = g
    BY DEF Op
  <1>4. CASE event.type = "delete"
    <2>1. PICK s, op : s = <<op>> /\ op = Op("unref", g) /\ Handler(event) = s
      BY <1>1, <1>4 DEF Handler, OnGuildDelete
    <2>2. Orderly(s) /\ Items(s) = {op} /\ op.do = "unref" /\ op.guild = g
      BY <1>3, <2>1, OrderlyShort DEF Items
    <2>3. \A x \in Items(s) : About(x, g) /\ x.do = "unref"
      BY <2>2 DEF About
    <2>4. Single(s)
      BY <2>3, SingleBy
    <2> QED BY <1>1, <1>4, <2>1, <2>2, <2>3, <2>4, TellsNothing
  <1>5. CASE event.type = "emojis"
    <2>1. PICK s, x, y : s = <<x, y>> /\ x = Op("noEmojis", g) /\ y = Op("emojis", g) /\ Handler(event) = s
      BY <1>1, <1>5 DEF Handler, OnEmojisUpdate
    <2>2. /\ Len(s) = 2 /\ s[1] = x /\ s[2] = y /\ Items(s) = {x, y}
          /\ x.do = "noEmojis" /\ x.guild = g /\ y.do = "emojis" /\ y.guild = g
      BY <1>3, <2>1 DEF Items
    <2>3. Orderly(s)
      <3>1. Rank(x) = 6 /\ Rank(y) = 7
        BY <2>2, Ranks
      <3> QED BY <2>2, <3>1 DEF Orderly, Precedes
    <2>4. \A op \in Items(s) : About(op, g) /\ op.do \in {"noEmojis", "emojis"}
      BY <2>2 DEF About
    <2>5. Op("emojis", g) \in Items(s)
      BY <2>1, <2>2
    <2>6. Single(s)
      BY <2>4, <2>5, SingleBy
    <2> QED BY <1>1, <1>5, <2>1, <2>3, <2>4, <2>6, TellsNothing
  <1>6. CASE event.type \in {"update", "stickers"}
    <2>1. PICK roles \in (SUBSET Entities.role) \union {None} :
             Handler(event) = GetGuild(g) \o <<[do |-> "rewrite", guild |-> g, role |-> roles]>>
      <3>1. CASE event.type = "update"
        <4>1. event.content.role \in SUBSET Entities.role
          BY <1>2, <3>1 DEF DeleteEvents, UpdateEvents, FullContents, Contents
        <4> QED BY <1>1, <3>1, <4>1 DEF Handler, OnGuildUpdate
      <3>2. CASE event.type = "stickers"
        BY <1>1, <3>2 DEF Handler, OnStickersUpdate
      <3> QED BY <1>6, <3>1, <3>2
    <2>2. PICK s, op : s = Handler(event) /\ op = [do |-> "rewrite", guild |-> g, role |-> roles]
      OBVIOUS
    <2>3. /\ Orderly(s)
          /\ Items(s) = {Op("readGuild", g), Op("readRoles", g), Op("readChannels", g),
                         Op("readEmojis", g), Op("readMembers", g), op}
      BY <2>1, <2>2, RewriteItems
    <2>4. op.do = "rewrite" /\ op.guild = g
      BY <2>2
    <2>5. \A x \in Items(s) : About(x, g) /\ x.do \in ReadDos \union {"rewrite"}
      BY <1>3, <2>3, <2>4 DEF About, ReadDos
    <2>6. Single(s)
      <3>1. \A x \in Items(s) : x.do \notin {"check", "increment", "decrement", "guild", "noEmojis"}
        BY <2>5 DEF ReadDos
      <3> QED BY <2>5, <3>1, SingleBy
    <2>7. \A x \in Items(s) :
              /\ x.do \notin {"check", "mark", "unmark", "increment", "decrement", "guild", "store", "drop"}
              /\ Op("readGuild", g) \in Items(s)
      BY <2>3, <2>5 DEF ReadDos
    <2> QED BY <1>1, <1>6, <2>2, <2>3, <2>5, <2>6, <2>7, TellsNothing
  <1> QED BY <1>2, <1>4, <1>5, <1>6

\* Roles and channels have nothing to do with members.
LEMMA TellsPlain ==
    ASSUME NEW g \in Guilds, NEW k \in Plain, NEW e \in Entities[k], NEW event, event.guild = g,
           event.type \in {"enter", "leave", "touch"}, event.kind = k
    PROVE  Tells(OnSet(g, k, e), event, g) /\ Tells(<<DropOp(k, g, e)>>, event, g)
  <1>1. k \in Tables /\ Keys(k) = Guilds /\ Of(k) = Entities[k] /\ k # "member" /\ k # "mutual"
    BY PlainKinds
  <1>2. ASSUME NEW s, Orderly(s), \A op \in Items(s) : op.do \in {"store", "drop"} /\ op.kind = k /\ op.key = g
        PROVE  Tells(s, event, g)
    <2>1. \A op \in Items(s) : About(op, g)
      BY <1>1, <1>2 DEF About
    <2>2. \A op \in Items(s) : op.do \notin {"check", "increment", "decrement", "guild", "noEmojis"}
      BY <1>2
    <2>3. Single(s)
      BY <2>1, <2>2, SingleBy
    <2> QED BY <1>1, <1>2, <2>1, <2>3, TellsNothing
  <1>3. Tells(OnSet(g, k, e), event, g)
    <2>1. PICK S \in SUBSET Of(k) : S = Cacheable(k, {e})
      <3>1. Cacheable(k, {e}) \in SUBSET Of(k)
        BY <1>1 DEF Cacheable
      <3> QED BY <3>1
    <2>2. OnSet(g, k, e) = StoreOps(k, g, S)
      BY <2>1 DEF OnSet
    <2>3. /\ Orderly(StoreOps(k, g, S)) /\ Items(StoreOps(k, g, S)) = Stored(k, g, S)
          /\ \A op \in Stored(k, g, S) : op.do = "store" /\ op.kind = k /\ op.key = g
      BY <1>1, StoredIs
    <2> QED BY <1>2, <2>2, <2>3
  <1>4. Tells(<<DropOp(k, g, e)>>, event, g)
    <2>1. PICK s, op : s = <<op>> /\ op = DropOp(k, g, e)
      OBVIOUS
    <2>2. Orderly(s) /\ Items(s) = {op} /\ op.do = "drop" /\ op.kind = k /\ op.key = g
      <3>1. op.do = "drop" /\ op.kind = k /\ op.key = g
        BY <2>1 DEF DropOp
      <3>2. Orderly(s) /\ Items(s) = {op}
        BY <2>1, OrderlyShort DEF Items
      <3> QED BY <3>1, <3>2
    <2> QED BY <1>2, <2>1, <2>2
  <1> QED BY <1>3, <1>4

\* So do the handlers of roles, channels and members,
LEMMA EntityHandlerTells ==
    ASSUME NEW event \in EntityEvents
    PROVE  Tells(Handler(event), event, event.guild)
  <1>1. PICK k \in Kinds : event \in TouchEvents(k) \/ event \in MoveEvents(k)
    BY DEF EntityEvents
  <1>2. PICK g \in Guilds : g = event.guild
    BY <1>1 DEF TouchEvents, MoveEvents
  <1>3. PICK e \in Entities[k] : e = event.entity
    BY <1>1 DEF TouchEvents, MoveEvents, Entities
  <1>4. /\ event.kind = k /\ k \in {"role", "channel", "member"}
        /\ event.type \in {"enter", "leave", "touch"}
        /\ event.type \in {"enter", "leave"} /\ k = "member" => e \in Users
    BY <1>1, <1>3 DEF TouchEvents, MoveEvents, Kinds
  <1> DEFINE type == <<event.type, event.kind>>
  <1>5. Handler(event) = EntityHandler(event)
    BY <1>4 DEF Handler
  <1>6. EntityHandler(event) =
          CASE type = <<"enter", "role">> -> OnGuildRoleCreate(g, e)
            [] type = <<"touch", "role">> -> OnGuildRoleUpdate(g, e)
            [] type = <<"leave", "role">> -> OnGuildRoleDelete(g, e)
            [] type = <<"enter", "channel">> -> OnChannelCreate(g, e)
            [] type = <<"touch", "channel">> -> OnChannelUpdate(g, e)
            [] type = <<"leave", "channel">> -> OnChannelDelete(g, e)
            [] type = <<"enter", "member">> -> OnGuildMemberAdd(g, e)
            [] type = <<"touch", "member">> -> OnGuildMemberUpdate(g, e)
            [] type = <<"leave", "member">> -> OnGuildMemberRemove(g, e)
    BY <1>2, <1>3, Zenon DEF EntityHandler
  <1>7. /\ OnGuildRoleCreate(g, e) = OnSet(g, "role", e) /\ OnGuildRoleUpdate(g, e) = OnSet(g, "role", e)
        /\ OnChannelCreate(g, e) = OnSet(g, "channel", e)
        /\ OnChannelUpdate(g, e) = OnSet(g, "channel", e)
        /\ OnGuildMemberUpdate(g, e) = OnSet(g, "member", e)
        /\ OnGuildRoleDelete(g, e) = <<DropOp("role", g, e)>>
        /\ OnChannelDelete(g, e) = <<DropOp("channel", g, e)>>
    BY Zenon DEF OnGuildRoleCreate, OnGuildRoleUpdate, OnChannelCreate, OnChannelUpdate,
       OnGuildMemberUpdate, OnGuildRoleDelete, OnChannelDelete
  <1>8. type = <<event.type, k>>
    BY <1>4 DEF type
  <1> HIDE DEF type
  <1>9. CASE k \in Plain
    <2>1. k \in {"role", "channel"}
      BY <1>9 DEF Plain
    <2>2. Handler(event) = OnSet(g, k, e) \/ Handler(event) = <<DropOp(k, g, e)>>
      BY <1>4, <1>5, <1>6, <1>7, <1>8, <2>1
    <2> QED BY <1>2, <1>3, <1>4, <1>9, <2>2, TellsPlain
  <1>10. CASE k = "member"
    <2>1. CASE event.type = "touch"
      <3>1. Handler(event) = OnSet(g, "member", e)
        BY <1>5, <1>6, <1>7, <1>8, <1>10, <2>1
      <3> QED BY <1>2, <1>3, <1>4, <1>10, <2>1, <3>1, TellsTouch
    <2>2. CASE event.type = "enter"
      <3>1. Handler(event) = OnGuildMemberAdd(g, e) /\ e \in Users
        BY <1>4, <1>5, <1>6, <1>8, <1>10, <2>2
      <3>2. event = Join(g, e)
        BY <1>1, <1>2, <1>3, <1>10, <2>2 DEF TouchEvents, MoveEvents, Join
      <3> QED BY <1>2, <3>1, <3>2, TellsJoin
    <2>3. CASE event.type = "leave"
      <3>1. Handler(event) = OnGuildMemberRemove(g, e) /\ e \in Users
        BY <1>4, <1>5, <1>6, <1>8, <1>10, <2>3
      <3>2. event = Quit(g, e)
        BY <1>1, <1>2, <1>3, <1>10, <2>3 DEF TouchEvents, MoveEvents, Quit
      <3> QED BY <1>2, <3>1, <3>2, TellsQuit
    <2> QED BY <1>4, <2>1, <2>2, <2>3
  <1> QED BY <1>4, <1>9, <1>10 DEF Plain

\* and all handlers, what their events say.
LEMMA HandlerTells ==
    ASSUME NEW event \in Events
    PROVE  Tells(Handler(event), event, event.guild) /\ event.guild \in Guilds
  <1>1. event.guild \in Guilds
    BY DEF Events, CreateEvents, DeleteEvents, UpdateEvents, EntityEvents, TouchEvents, MoveEvents
  <1> QED BY <1>1, TellsCreate, TellsUpdate, EntityHandlerTells DEF Events

\* What an operation does tells what it is.
LEMMA OperationForm ==
    ASSUME NEW op \in Operations
    PROVE  /\ op.do = "drop" => \E e : op = DropOp(op.kind, op.key, e)
           /\ op.do \in {"check", "mark", "unmark"} =>
                 \E kind \in {"add", "remove"}, h \in Guilds, u \in Users : op = KeyOp(op.do, kind, h, u)
           /\ op.do \in {"ref", "unref", "emojis", "noEmojis", "readGuild", "readRoles", "readChannels",
                         "readEmojis", "readMembers", "increment", "decrement"} => op = Op(op.do, op.guild)
  <1>1. CASE op \in TableOps
    <2>1. PICK k \in Tables : op \in MapOps(k)
      BY <1>1 DEF TableOps
    <2>2. op.do = "drop" => op \in [do : {"drop"}, kind : {k}, key : Keys(k), entries : {{e} : e \in Of(k)}]
      BY <2>1 DEF MapOps
    <2>3. op.do \in {"store", "drop"}
      BY <2>1 DEF MapOps
    <2>4. op.do = "drop" => \E e : op = DropOp(op.kind, op.key, e)
      BY <2>2 DEF DropOp
    <2> QED BY <2>3, <2>4
  <1>2. CASE op \in PlainOps
    BY <1>2 DEF PlainOps, Op
  <1>3. CASE op \in CountOps
    BY <1>3 DEF CountOps
  <1>4. CASE op \in KeyOps
    <2>1. op.do \in {"check", "mark", "unmark"} /\ op = [do |-> op.do, dkey |-> op.dkey]
          /\ op.dkey \in {"add", "remove"} \X Guilds \X Users
      BY <1>4 DEF KeyOps
    <2>2. PICK kind \in {"add", "remove"}, h \in Guilds, u \in Users : op.dkey = <<kind, h, u>>
      BY <2>1
    <2>3. op = KeyOp(op.do, kind, h, u)
      BY <2>1, <2>2 DEF KeyOp
    <2> QED BY <2>1, <2>3
  <1>5. CASE op \in RewriteOps
    BY <1>5 DEF RewriteOps
  <1> QED BY <1>1, <1>2, <1>3, <1>4, <1>5 DEF Operations

-----------------------------------------------------------------------------
(* Handlers keep their order                                                *)

\* Every reader's handler is in order, and is about a guild it is or was in.
OrderOK ==
    \A m \in Managers :
       /\ Orderly(todo[m]) /\ Single(todo[m])
       /\ \A op \in Items(todo[m]) : \E g \in Guilds : About(op, g) /\ m \in served[g]

\* The role of everyone and the bot's own member are in every guild that is sent.
FullOK ==
    /\ \A g \in Guilds : Everyone \in truth[g].role
    /\ \A m \in Managers : \A event \in Items(inbox[m]) :
          event.type = "create" => Everyone \in event.content.role /\ Self \in event.content.member

\* What is left of a handler is still in order.
LEMMA SingleTail ==
    ASSUME NEW s \in Seq(Operations), s # <<>>, Orderly(s), Single(s)
    PROVE  /\ Orderly(Tail(s)) /\ Single(Tail(s)) /\ Tail(s) \in Seq(Operations)
           /\ Items(s) = {Head(s)} \union Items(Tail(s))
           /\ \A y \in Items(Tail(s)) : Precedes(Head(s), y)
  <1>1. /\ Items(s) = {Head(s)} \union Items(Tail(s)) /\ Tail(s) \in Seq(Operations)
        /\ Orderly(Tail(s)) /\ \A y \in Items(Tail(s)) : Precedes(Head(s), y)
    BY TailItems, OrderlyTail
  <1>2. ASSUME NEW op \in Items(Tail(s)), op.do = "noEmojis"
        PROVE  Op("emojis", op.guild) \in Items(Tail(s))
    <2>1. Op("emojis", op.guild) \in Items(s)
      BY <1>1, <1>2 DEF Single
    <2>2. Rank(op) = 6 /\ Rank(Op("emojis", op.guild)) = 7
      BY <1>2, Ranks DEF Op
    <2>3. Head(s) # Op("emojis", op.guild)
      BY <1>1, <1>2, <2>2 DEF Precedes
    <2> QED BY <1>1, <2>1, <2>3
  <1>3. \A op \in Items(Tail(s)) : op \in Items(s)
    BY <1>1
  <1>4. Single(Tail(s))
    <2>1. \A op \in Items(Tail(s)) : \A y \in Items(Tail(s)) :
             /\ \A g \in Guilds : About(op, g) => About(y, g)
             /\ op.do \in {"check", "increment", "decrement"} => y.do \in MoveDos
             /\ op.do = "guild" => y.do \in WriteDos
             /\ op.do = "check" => AboutMember(y, op.dkey[3])
      BY <1>3 DEF Single
    <2> QED BY <1>2, <2>1 DEF Single
  <1> QED BY <1>1, <1>4

\* The order holds of a reader that goes on with s.
LEMMA OrderGoesOn ==
    ASSUME TInv, OrderOK, NEW m \in Managers, NEW s, Orderly(s), Single(s),
           \A op \in Items(s) : \E g \in Guilds : About(op, g) /\ m \in served[g],
           todo' = [todo EXCEPT ![m] = s], UNCHANGED world
    PROVE  OrderOK'
  <1>1. todo'[m] = s /\ \A n \in Managers \ {m} : todo'[n] = todo[n]
    BY TodoChanges
  <1>2. served' = served
    BY DEF world
  <1> SUFFICES ASSUME NEW n \in Managers
               PROVE  /\ Orderly(todo'[n]) /\ Single(todo'[n])
                      /\ \A op \in Items(todo'[n]) : \E g \in Guilds : About(op, g) /\ n \in served'[g]
    BY DEF OrderOK
  <1>3. CASE n = m
    BY <1>1, <1>2, <1>3
  <1>4. CASE n # m
    BY <1>1, <1>2, <1>4 DEF OrderOK
  <1> QED BY <1>3, <1>4

\* So is nothing.
LEMMA NothingSingle == Orderly(<<>>) /\ Single(<<>>)
  BY OrderlyShort, NothingItems DEF Single

\* The steps that go over the first operation, or give the handler up.
Steps(m) == Passes(m) \/ Drop(m) \/ ReadGuild(m) \/ ReadPart(m) \/ Check(m)

\* Those pass over their first operation, or drop the event.
LEMMA StepsTodo ==
    ASSUME NEW m \in Managers, Steps(m)
    PROVE  /\ todo[m] # <<>> /\ UNCHANGED <<world, inbox, torn>>
           /\ \/ todo' = [todo EXCEPT ![m] = Tail(todo[m])]
              \/ /\ todo' = [todo EXCEPT ![m] = <<>>]
                 /\ Head(todo[m]).do = "check" /\ Head(todo[m]).dkey \in dedupe
  <1>1. CASE Passes(m)
    BY <1>1, PassesSteps DEF Next1
  <1>2. CASE Drop(m)
    BY <1>2, SMTT(60) DEF Drop, Doing, Next1
  <1>3. CASE ReadGuild(m) \/ ReadPart(m)
    BY <1>3 DEF ReadGuild, ReadPart, Doing, Next1
  <1>4. CASE Check(m)
    BY <1>4 DEF Check, Doing
  <1> QED BY <1>1, <1>2, <1>3, <1>4 DEF Steps

\* They keep the order.
LEMMA StepsOrder ==
    ASSUME TInv, OrderOK, NEW m \in Managers, Steps(m)
    PROVE  OrderOK'
  <1>1. /\ todo[m] \in Seq(Operations) /\ Orderly(todo[m]) /\ Single(todo[m])
        /\ \A op \in Items(todo[m]) : \E g \in Guilds : About(op, g) /\ m \in served[g]
    BY DEF TInv, TodoOK, OrderOK
  <1>2. todo[m] # <<>> /\ UNCHANGED world
    BY StepsTodo
  <1>3. CASE todo' = [todo EXCEPT ![m] = Tail(todo[m])]
    <2>1. PICK s : s = Tail(todo[m])
      OBVIOUS
    <2>2. Orderly(s) /\ Single(s) /\ Items(s) \subseteq Items(todo[m])
      BY <1>1, <1>2, <2>1, SingleTail
    <2>3. todo' = [todo EXCEPT ![m] = s]
      BY <1>3, <2>1
    <2>4. \A op \in Items(s) : \E g \in Guilds : About(op, g) /\ m \in served[g]
      BY <1>1, <2>2
    <2> QED BY <1>2, <2>2, <2>3, <2>4, OrderGoesOn
  <1>4. CASE todo' = [todo EXCEPT ![m] = <<>>]
    <2>1. PICK s : s = <<>>
      OBVIOUS
    <2>2. Orderly(s) /\ Single(s) /\ \A op \in Items(s) : \E g \in Guilds : About(op, g) /\ m \in served[g]
      BY <2>1, NothingItems, NothingSingle
    <2> QED BY <1>2, <1>4, <2>1, <2>2, OrderGoesOn
  <1> QED BY <1>3, <1>4, StepsTodo

\* A store that is not through yet stays first.
LEMMA StoreOrder ==
    ASSUME TInv, OrderOK, NEW m \in Managers, Store(m)
    PROVE  OrderOK'
  <1>1. PICK op \in Operations : op = Head(todo[m]) /\ MapOp(op) /\ op.do = "store" /\ todo[m] # <<>>
    BY HoldsTyped, NextTyped DEF Store, Doing
  <1>2. PICK e : e = hand[m].entry
    OBVIOUS
  <1>3. PICK S \in SUBSET Of(op.kind) : S = op.entries \ {e}
    BY <1>1 DEF MapOp
  <1>4. op.kind \in Tables /\ op.key \in Keys(op.kind)
    BY <1>1 DEF MapOp
  <1>5. PICK front : front = StoreOps(op.kind, op.key, S)
    OBVIOUS
  <1>6. /\ front \in Seq(Operations) /\ Orderly(front) /\ Items(front) = Stored(op.kind, op.key, S)
        /\ \A x \in Items(front) :
              x.do = "store" /\ x.kind = op.kind /\ x.key = op.key /\ x.entries = S
    BY <1>4, <1>5, StoredIs
  <1>7. PICK rest \in Seq(Operations) : rest = Tail(todo[m])
    BY <1>1, NextTyped
  <1>8. /\ todo[m] \in Seq(Operations) /\ Orderly(todo[m]) /\ Single(todo[m])
        /\ \A x \in Items(todo[m]) : \E g \in Guilds : About(x, g) /\ m \in served[g]
    BY DEF TInv, TodoOK, OrderOK
  <1>9. /\ Orderly(rest) /\ Single(rest) /\ Items(todo[m]) = {op} \union Items(rest)
        /\ \A y \in Items(rest) : Precedes(op, y)
    BY <1>1, <1>7, <1>8, SingleTail
  <1>10. \A y \in Items(rest) : Rank(y) = 7
    BY <1>1, <1>9, Ranks DEF Precedes
  <1>11. PICK s : s = front \o rest
    OBVIOUS
  <1>12. Orderly(s) /\ Items(s) = Items(front) \union Items(rest)
    BY <1>6, <1>9, <1>10, <1>11, StoresLast
  <1>13. UNCHANGED world /\ todo' = [todo EXCEPT ![m] = s]
    BY <1>1, <1>2, <1>3, <1>5, <1>7, <1>11 DEF Store
  <1>14. ASSUME NEW x \in Items(front)
         PROVE  /\ \A g \in Guilds : About(op, g) <=> About(x, g)
                /\ \A u : AboutMember(op, u) => AboutMember(x, u)
    <2>1. x.do = "store" /\ x.kind = op.kind /\ x.key = op.key /\ x.entries = S /\ S # {}
      BY <1>6 DEF Stored
    <2>2. S \subseteq op.entries
      BY <1>3
    <2>3. (\E z : op.entries = {z}) => S = op.entries
      BY <2>1, <2>2
    <2>4. ASSUME NEW g \in Guilds
          PROVE  About(op, g) => About(x, g)
      BY <1>1, <2>1, <2>3 DEF About
    <2>5. PICK h \in Guilds : About(op, h)
      BY <1>8, <1>9
    <2>6. ASSUME NEW g \in Guilds, About(x, g)
          PROVE  About(op, g)
      <3>1. About(x, h)
        BY <2>4, <2>5
      <3>2. g = h
        BY <2>6, <3>1, AboutOne
      <3> QED BY <2>5, <3>2
    <2>7. ASSUME NEW u, AboutMember(op, u)
          PROVE  AboutMember(x, u)
      BY <1>1, <2>1, <2>3, <2>7 DEF AboutMember
    <2> QED BY <2>4, <2>6, <2>7
  <1>15. \A x \in Items(s) : \E g \in Guilds : About(x, g) /\ m \in served[g]
    BY <1>8, <1>9, <1>12, <1>14
  <1>16. Single(s)
    <2>1. \A x \in Items(s) : \E y \in Items(todo[m]) :
             /\ y.do = x.do /\ \A g \in Guilds : About(x, g) <=> About(y, g)
             /\ \A u : AboutMember(y, u) => AboutMember(x, u)
             /\ x.do = "check" => x = y
      BY <1>1, <1>6, <1>9, <1>12, <1>14
    <2>2. ASSUME NEW x \in Items(s), x.do = "noEmojis"
          PROVE  FALSE
      <3>1. x \in Items(rest)
        BY <1>6, <1>12, <2>2
      <3> QED BY <1>10, <2>2, <3>1, Ranks
    <2>3. ASSUME NEW x \in Items(s), NEW z \in Items(s)
          PROVE  /\ \A g \in Guilds : About(x, g) => About(z, g)
                 /\ x.do \in {"check", "increment", "decrement"} => z.do \in MoveDos
                 /\ x.do = "guild" => z.do \in WriteDos
                 /\ x.do = "check" => AboutMember(z, x.dkey[3])
      <3>1. PICK y \in Items(todo[m]) :
               /\ y.do = x.do /\ \A g \in Guilds : About(x, g) <=> About(y, g)
               /\ x.do = "check" => x = y
        BY <2>1
      <3>2. PICK t \in Items(todo[m]) :
               /\ t.do = z.do /\ \A g \in Guilds : About(z, g) <=> About(t, g)
               /\ \A u : AboutMember(t, u) => AboutMember(z, u)
        BY <2>1
      <3> QED BY <1>8, <3>1, <3>2 DEF Single
    <2> QED BY <2>2, <2>3 DEF Single
  <1> QED BY <1>12, <1>13, <1>15, <1>16, OrderGoesOn

\* The guild as SetGuild stores it.
LEMMA SetGuildTells ==
    ASSUME NEW g \in Guilds, NEW content, NEW count \in Int,
           content.role \subseteq Entities.role, content.channel \subseteq Entities.channel,
           content.member \subseteq Entities.member, NEW s, s = SetGuild(g, content, count)
    PROVE  /\ Orderly(s) /\ Single(s)
           /\ \A x \in Items(s) :
                 /\ About(x, g) /\ x.do \in WriteDos
                 /\ x.do = "store" => x.kind # "mutual" /\ (x.kind = "member" => x.entries \subseteq content.member)
                 /\ x.do = "guild" => x.count = count
           /\ Op("emojis", g) \in Items(s) /\ \E x \in Items(s) : x.do = "guild"
  <1> DEFINE back == Cacheable("member", content.member)
             guild == [do |-> "guild", guild |-> g, count |-> count]
  <1>1. back \subseteq content.member /\ back \in SUBSET Of("member")
    BY TableKinds DEF Cacheable
  <1>2. /\ Orderly(s)
        /\ Items(s) = {Op("ref", g), guild, Op("emojis", g)}
              \union Stored("role", g, content.role) \union Stored("channel", g, content.channel)
              \union Stored("member", g, back)
    BY SetGuildItems
  <1>3. /\ Op("ref", g).do = "ref" /\ Op("ref", g).guild = g
        /\ Op("emojis", g).do = "emojis" /\ Op("emojis", g).guild = g
        /\ guild.do = "guild" /\ guild.guild = g /\ guild.count = count
    BY DEF Op
  <1> HIDE DEF back, guild
  <1>4. /\ \A op \in Stored("role", g, content.role) : op.do = "store" /\ op.kind = "role" /\ op.key = g
        /\ \A op \in Stored("channel", g, content.channel) : op.do = "store" /\ op.kind = "channel" /\ op.key = g
        /\ \A op \in Stored("member", g, back) :
              op.do = "store" /\ op.kind = "member" /\ op.key = g /\ op.entries = back
    <2>1. /\ content.role \in SUBSET Of("role") /\ content.channel \in SUBSET Of("channel")
          /\ {"role", "channel", "member"} \subseteq Tables
          /\ g \in Keys("role") /\ g \in Keys("channel") /\ g \in Keys("member")
      BY TableKinds
    <2> QED BY <1>1, <2>1, StoredIs
  <1>5. ASSUME NEW x \in Items(s)
        PROVE  /\ About(x, g) /\ x.do \in WriteDos
               /\ x.do = "store" => x.kind # "mutual" /\ (x.kind = "member" => x.entries \subseteq content.member)
               /\ x.do = "guild" => x.count = count
    <2>1. CASE x \in {Op("ref", g), guild, Op("emojis", g)}
      BY <1>3, <2>1 DEF About, WriteDos
    <2>2. CASE x \in Stored("role", g, content.role) \union Stored("channel", g, content.channel)
      BY <1>4, <2>2 DEF About, WriteDos
    <2>3. CASE x \in Stored("member", g, back)
      BY <1>1, <1>4, <2>3 DEF About, WriteDos
    <2> QED BY <1>2, <2>1, <2>2, <2>3
  <1>6. Single(s)
    BY <1>5, SingleBy
  <1>7. Op("emojis", g) \in Items(s) /\ guild \in Items(s)
    BY <1>2
  <1> QED BY <1>2, <1>3, <1>5, <1>6, <1>7

\* What a handler writes back: the members and the count it read, and nothing else
\* of either unless it read none.
RewriteTold(m, op, s) ==
    /\ op = Head(todo[m]) /\ op.do = "rewrite" /\ op.guild \in Guilds /\ todo[m] # <<>>
    /\ todo' = [todo EXCEPT ![m] = s] /\ Orderly(s) /\ Single(s)
    /\ \A x \in Items(s) :
          /\ About(x, op.guild) /\ x.do \in WriteDos
          /\ x.do = "store" => x.kind # "mutual"
          /\ \A u : StoreOf(x, "member", op.guild, u) => before[m] # None /\ u \in before[m].member
          /\ x.do = "guild" /\ before[m] # None => x.count = before[m].count
    /\ before[m] # None => Op("emojis", op.guild) \in Items(s) /\ \E x \in Items(s) : x.do = "guild"

\* What is written back, with what was read.
LEMMA RewriteTells ==
    ASSUME TInv, NEW m \in Managers, Rewrite(m)
    PROVE  \E op \in Operations : \E s : RewriteTold(m, op, s)
  <1>1. todo[m] # <<>> /\ Head(todo[m]).do = "rewrite"
    BY DEF Rewrite, Doing
  <1>2. PICK op \in Operations : op = Head(todo[m]) /\ OperationOK(op)
    BY <1>1, NextTyped
  <1>3. op.guild \in Guilds /\ op.role \in (SUBSET Entities.role) \union {None} /\ op.do = "rewrite"
    BY <1>1, <1>2 DEF OperationOK
  <1>4. PICK old : old = before[m]
    OBVIOUS
  <1>5. old \in Reads \union {None}
    BY <1>4 DEF TInv, BeforeOK
  <1>6. CASE old = None /\ op.role = None
    <2>1. PICK s : s = <<>>
      OBVIOUS
    <2>2. todo' = [todo EXCEPT ![m] = s]
      BY <1>2, <1>4, <1>6, <2>1 DEF Rewrite
    <2>3. Items(s) = {} /\ Orderly(s) /\ Single(s)
      BY <2>1, NothingItems, NothingSingle
    <2>4. RewriteTold(m, op, s)
      BY <1>1, <1>2, <1>3, <1>4, <1>6, <2>2, <2>3 DEF RewriteTold
    <2> QED BY <2>4
  <1>7. CASE old = None /\ op.role # None
    <2>1. PICK content : content = [role |-> op.role, channel |-> {}, member |-> {}]
      OBVIOUS
    <2>2. PICK s : s = SetGuild(op.guild, content, 0)
      OBVIOUS
    <2>3. todo' = [todo EXCEPT ![m] = s]
      BY <1>2, <1>4, <1>7, <2>1, <2>2 DEF Rewrite
    <2>4. /\ content.role \subseteq Entities.role /\ content.channel \subseteq Entities.channel
          /\ content.member = {} /\ 0 \in Int
      BY <1>3, <1>7, <2>1
    <2>5. /\ Orderly(s) /\ Single(s)
          /\ \A x \in Items(s) :
                /\ About(x, op.guild) /\ x.do \in WriteDos
                /\ x.do = "store" => x.kind # "mutual" /\ (x.kind = "member" => x.entries \subseteq {})
      BY <1>3, <2>2, <2>4, SetGuildTells
    <2>6. RewriteTold(m, op, s)
      BY <1>1, <1>2, <1>3, <1>4, <1>7, <2>3, <2>5 DEF RewriteTold, StoreOf
    <2> QED BY <2>6
  <1>8. CASE old # None
    <2>1. PICK content : content = IF op.role = None THEN old ELSE [old EXCEPT !.role = op.role]
      OBVIOUS
    <2>2. PICK s : s = SetGuild(op.guild, content, old.count)
      OBVIOUS
    <2>3. todo' = [todo EXCEPT ![m] = s]
      BY <1>2, <1>4, <1>8, <2>1, <2>2 DEF Rewrite
    <2>4. /\ content.role \subseteq Entities.role /\ content.channel \subseteq Entities.channel
          /\ content.member \subseteq Entities.member /\ content.member = old.member /\ old.count \in Int
      BY <1>3, <1>5, <1>8, <2>1 DEF Reads
    <2>5. /\ Orderly(s) /\ Single(s)
          /\ \A x \in Items(s) :
                /\ About(x, op.guild) /\ x.do \in WriteDos
                /\ x.do = "store" => x.kind # "mutual" /\ (x.kind = "member" => x.entries \subseteq old.member)
                /\ x.do = "guild" => x.count = old.count
          /\ Op("emojis", op.guild) \in Items(s) /\ \E x \in Items(s) : x.do = "guild"
      BY <1>3, <2>2, <2>4, SetGuildTells
    <2>6. RewriteTold(m, op, s)
      BY <1>1, <1>2, <1>3, <1>4, <1>8, <2>3, <2>5 DEF RewriteTold, StoreOf
    <2> QED BY <2>6
  <1> QED BY <1>6, <1>7, <1>8

\* Writing back is in order.
LEMMA RewriteOrder ==
    ASSUME TInv, OrderOK, NEW m \in Managers, Rewrite(m)
    PROVE  OrderOK'
  <1>1. PICK op \in Operations : \E s : RewriteTold(m, op, s)
    BY RewriteTells
  <1>2. PICK s : RewriteTold(m, op, s)
    BY <1>1
  <1>3. UNCHANGED world
    BY DEF Rewrite
  <1>4. op.guild \in Guilds /\ m \in served[op.guild]
    <2>1. op \in Items(todo[m]) /\ op.do = "rewrite" /\ op.guild \in Guilds
      <3>1. todo[m] \in Seq(Operations)
        BY DEF TInv, TodoOK
      <3> QED BY <1>2, <3>1, TailItems DEF RewriteTold
    <2>2. PICK g \in Guilds : About(op, g) /\ m \in served[g]
      BY <2>1 DEF OrderOK
    <2>3. About(op, op.guild)
      BY <2>1 DEF About
    <2> QED BY <2>1, <2>2, <2>3, AboutOne
  <1>5. Orderly(s) /\ Single(s) /\ todo' = [todo EXCEPT ![m] = s]
        /\ \A op2 \in Items(s) : \E g \in Guilds : About(op2, g) /\ m \in served[g]
    BY <1>2, <1>4 DEF RewriteTold
  <1> QED BY <1>3, <1>5, OrderGoesOn

\* A handler begins in order.
LEMMA HandleOrder ==
    ASSUME TInv, HandlersOK, OrderOK, NEW m \in Managers, Handle(m)
    PROVE  OrderOK'
  <1>1. inbox[m] \in Seq(Events) /\ inbox[m] # <<>>
    BY DEF TInv, InboxOK, Handle
  <1>2. PICK event \in Events : event = Head(inbox[m])
    BY <1>1
  <1>3. EventKnown(m, event)
    BY <1>1, <1>2, ItemsTail DEF HandlersOK
  <1>4. PICK s : s = Handler(event)
    OBVIOUS
  <1>5. Tells(s, event, event.guild) /\ event.guild \in Guilds
    BY <1>4, HandlerTells
  <1>6. todo' = [todo EXCEPT ![m] = s] /\ UNCHANGED world
    BY <1>2, <1>4 DEF Handle
  <1>7. Orderly(s) /\ Single(s) /\ \A op \in Items(s) : About(op, event.guild)
    BY <1>5, Zenon DEF Tells
  <1>8. \A op \in Items(s) : \E g \in Guilds : About(op, g) /\ m \in served[g]
    BY <1>3, <1>5, <1>7 DEF EventKnown
  <1> QED BY <1>6, <1>7, <1>8, OrderGoesOn

\* A step that leaves the handlers where they are.
LEMMA OrderStays ==
    ASSUME OrderOK, Grows, UNCHANGED todo
    PROVE  OrderOK'
  BY DEF OrderOK, Grows

\* Every step keeps the handlers in order.
LEMMA NextOrder ==
    ASSUME TInv, WorldOK, HandlersOK, OrderOK, [Next]_vars
    PROVE  OrderOK'
  <1>1. ASSUME UNCHANGED <<world, todo>> PROVE OrderOK'
    BY <1>1, OrderStays DEF Grows, world
  <1>2. CASE Discord
    <2>1. Grows
      BY <1>2, WorldSteps
    <2>2. UNCHANGED todo
      <3>1. PICK g \in Guilds :
               \/ \E m \in Managers : Invite(m, g) \/ Kick(m, g)
               \/ \E k \in Kinds : \E e \in Entities[k] :
                     Enter(g, k, e) \/ Leave(g, k, e) \/ Touch(g, k, e)
               \/ \E type \in DOMAIN WritesBack : Update(g, type)
        BY <1>2 DEF Discord
      <3> QED BY <3>1 DEF Invite, Kick, Enter, Leave, Touch, Update
    <2> QED BY <2>1, <2>2, OrderStays
  <1>3. ASSUME NEW m \in Managers, Reader(m) PROVE OrderOK'
    <2>1. CASE Load(m)
      BY <1>1, <2>1, SMTT(60) DEF Load
    <2> QED BY <1>3, <2>1, HandleOrder, StoreOrder, RewriteOrder, StepsOrder DEF Reader, Passes, Steps
  <1>4. CASE Ejector
    BY <1>1, <1>4 DEF Ejector, BeginEject, ListVictims, EndEject, Scan, Remove
  <1>5. CASE (\E key \in dedupe : ExpireKey(key)) \/ UNCHANGED vars
    BY <1>1, <1>5 DEF ExpireKey, vars
  <1> QED BY <1>2, <1>3, <1>4, <1>5 DEF Next

-----------------------------------------------------------------------------
(* Members: what Discord sends of them                                      *)

\* An event says how member u of guild g is, or how that changes.
Flips(event, g, u) ==
    /\ \/ event \notin {Join(g, u), Quit(g, u)} /\ (u \in truth'[g].member <=> u \in truth[g].member)
       \/ event = Join(g, u) /\ u \notin truth[g].member /\ u \in truth'[g].member
       \/ event = Quit(g, u) /\ u \in truth[g].member /\ u \notin truth'[g].member
    /\ Shows(event, g, u) => u \in truth'[g].member
    /\ Hides(event, g, u) => u \notin truth'[g].member

\* What a step of Discord means to the only manager that served the guild.
News(m, g) ==
    \/ /\ inbox'[m] = inbox[m] /\ (bots[g] = {} => bots'[g] = {})
       /\ \A u \in Entities.member \ unseen'[g] : u \in truth'[g].member <=> u \in truth[g].member
    \/ \E event \in Events :
          /\ inbox'[m] = Append(inbox[m], event)
          /\ bots[g] = {} /\ bots'[g] # {} => event.type = "create" /\ event.guild = g
          /\ \A u \in Entities.member \ unseen'[g] : Flips(event, g, u)

\* A bot comes or goes.
LEMMA MoveNews ==
    ASSUME TInv, WorldOK, NEW g0 \in Guilds, NEW m0 \in Managers, Invite(m0, g0) \/ Kick(m0, g0),
           NEW m \in Managers, NEW g \in Guilds, served'[g] \subseteq {m}
    PROVE  News(m, g)
  <1>1. PICK event \in Events :
           /\ inbox' = [inbox EXCEPT ![m0] = Append(inbox[m0], event)]
           /\ event.guild = g0 /\ event.type \in {"create", "delete"}
           /\ event.type = "create" => event.content = truth[g0]
           /\ event.type = "create" <=> Invite(m0, g0)
    <2>1. CASE Invite(m0, g0)
      <3>1. PICK event : event = [type |-> "create", guild |-> g0, content |-> truth[g0]]
        OBVIOUS
      <3>2. event \in Events
        BY <3>1 DEF TInv, TruthOK, Events, CreateEvents
      <3>3. inbox' = [inbox EXCEPT ![m0] = Append(inbox[m0], event)]
        BY <2>1, <3>1 DEF Invite
      <3> QED BY <2>1, <3>1, <3>2, <3>3
    <2>2. CASE Kick(m0, g0)
      <3>1. PICK event : event = [type |-> "delete", guild |-> g0]
        OBVIOUS
      <3>2. event \in Events
        BY <3>1 DEF Events, DeleteEvents
      <3>3. inbox' = [inbox EXCEPT ![m0] = Append(inbox[m0], event)]
        BY <2>2, <3>1 DEF Kick
      <3>4. ~Invite(m0, g0)
        BY <2>2 DEF Kick, Invite
      <3> QED BY <2>2, <3>1, <3>2, <3>3, <3>4
    <2> QED BY <2>1, <2>2
  <1>2. truth' = truth
    BY DEF Invite, Kick
  <1>3. inbox'[m] = IF m = m0 THEN Append(inbox[m0], event) ELSE inbox[m]
    BY <1>1 DEF TInv, InboxOK
  <1>4. bots[g] = {} /\ bots'[g] # {} => g = g0 /\ event.type = "create" /\ m0 = m
    <2> HAVE bots[g] = {} /\ bots'[g] # {}
    <2>1. bots' = [bots EXCEPT ![g0] = @ \union {m0}] \/ bots' = [bots EXCEPT ![g0] = @ \ {m0}]
      BY DEF Invite, Kick
    <2>2. g = g0
      BY <2>1 DEF WorldOK
    <2>3. Invite(m0, g0)
      <3>1. ~(bots' = [bots EXCEPT ![g0] = @ \ {m0}])
        BY <2>2 DEF WorldOK
      <3> QED BY <3>1 DEF Kick
    <2>4. served'[g] = served[g] \union {m0}
      BY <2>2, <2>3 DEF Invite, WorldOK
    <2> QED BY <1>1, <2>2, <2>3, <2>4
  <1>5. CASE m = m0
    <2>1. ASSUME NEW u \in Entities.member
          PROVE  Flips(event, g, u)
      <3>1. event \notin {Join(g, u), Quit(g, u)}
        BY <1>1, MoveFields
      <3>2. Shows(event, g, u) => u \in truth[g].member
        BY <1>1 DEF Shows
      <3>3. Hides(event, g, u) => u \notin truth[g].member
        BY <1>1 DEF Hides
      <3> QED BY <1>2, <3>1, <3>2, <3>3 DEF Flips
    <2>2. inbox'[m] = Append(inbox[m], event)
      BY <1>3, <1>5
    <2>3. bots[g] = {} /\ bots'[g] # {} => event.type = "create" /\ event.guild = g
      BY <1>1, <1>4
    <2> QED BY <2>1, <2>2, <2>3 DEF News
  <1>6. CASE m # m0
    BY <1>2, <1>3, <1>4, <1>6 DEF News
  <1> QED BY <1>5, <1>6

\* A member, a role or a channel comes, goes or changes.
LEMMA ChangeNews ==
    ASSUME TInv, WorldOK, NEW g0 \in Guilds, NEW k0 \in Kinds, NEW e0 \in Entities[k0],
           Enter(g0, k0, e0) \/ Leave(g0, k0, e0) \/ Touch(g0, k0, e0),
           NEW m \in Managers, NEW g \in Guilds, served'[g] \subseteq {m}
    PROVE  News(m, g)
  <1>1. PICK type \in {"enter", "leave", "touch"} :
           /\ Send(g0, [type |-> type, guild |-> g0, kind |-> k0, entity |-> e0])
           /\ type = "enter" =>
                 unseen' = Unseen(g0, e0) /\ truth' = [truth EXCEPT ![g0][k0] = @ \union {e0}]
                 /\ e0 \notin truth[g0][k0]
           /\ type = "leave" =>
                 unseen' = Unseen(g0, e0) /\ truth' = [truth EXCEPT ![g0][k0] = @ \ {e0}]
                 /\ e0 \in truth[g0][k0]
           /\ type = "touch" => truth' = truth /\ e0 \in truth[g0][k0]
           /\ (type # "touch" /\ k0 = "member" => e0 # Self)
    <2>1. CASE Enter(g0, k0, e0)
      <3>1. k0 = "member" => e0 # Self
        BY <2>1 DEF Enter, TInv, TruthOK
      <3> QED BY <2>1, <3>1 DEF Enter
    <2>2. CASE Leave(g0, k0, e0)
      BY <2>2 DEF Leave
    <2>3. CASE Touch(g0, k0, e0)
      BY <2>3 DEF Touch
    <2> QED BY <2>1, <2>2, <2>3
  <1>2. PICK event : event = [type |-> type, guild |-> g0, kind |-> k0, entity |-> e0]
    OBVIOUS
  <1>3. event \in Events
    <2>1. type # "touch" => (k0 = "member" => e0 \in Users)
      BY <1>1 DEF Entities
    <2> QED BY <1>2, <2>1 DEF Events, EntityEvents, TouchEvents, MoveEvents
  <1>4. UNCHANGED <<bots, served>>
    BY DEF Enter, Leave, Touch
  <1>5. inbox'[m] = IF m \in bots[g0] THEN Append(inbox[m], event) ELSE inbox[m]
    BY <1>1, <1>2 DEF Send
  <1>7. /\ truth[g0] \in FullContents /\ truth[g] \in FullContents
        /\ truth = [x \in Guilds |-> truth[x]] /\ k0 \in Kinds
    BY DEF TInv, TruthOK
  <1>8. \A u : u \in truth'[g].member <=>
           \/ u \in truth[g].member /\ ~(g = g0 /\ k0 = "member" /\ u = e0 /\ type = "leave")
           \/ g = g0 /\ k0 = "member" /\ u = e0 /\ type = "enter"
    <2>1. truth[g0] \in [role : SUBSET Entities.role, channel : SUBSET Entities.channel,
                         member : SUBSET Entities.member]
      BY <1>7 DEF FullContents, Contents
    <2>2. CASE type = "touch"
      BY <1>1, <2>2
    <2>3. ASSUME NEW S, truth' = [truth EXCEPT ![g0][k0] = S]
          PROVE  truth'[g].member = IF g = g0 /\ k0 = "member" THEN S ELSE truth[g].member
      <3>1. truth' = [truth EXCEPT ![g0] = [truth[g0] EXCEPT ![k0] = S]]
        BY <2>3
      <3>2. truth'[g] = IF g = g0 THEN [truth[g0] EXCEPT ![k0] = S] ELSE truth[g]
        BY <1>7, <3>1
      <3>3. [truth[g0] EXCEPT ![k0] = S].member = IF k0 = "member" THEN S ELSE truth[g0].member
        BY <1>7, <2>1 DEF Kinds
      <3> QED BY <3>2, <3>3
    <2>4. CASE type = "enter"
      <3>1. truth'[g].member = IF g = g0 /\ k0 = "member" THEN truth[g0][k0] \union {e0} ELSE truth[g].member
        BY <1>1, <2>3, <2>4
      <3>2. truth'[g].member = IF g = g0 /\ k0 = "member" THEN truth[g].member \union {e0} ELSE truth[g].member
        BY <3>1
      <3> QED BY <2>4, <3>2
    <2>5. CASE type = "leave"
      <3>1. truth'[g].member = IF g = g0 /\ k0 = "member" THEN truth[g0][k0] \ {e0} ELSE truth[g].member
        BY <1>1, <2>3, <2>5
      <3>2. truth'[g].member = IF g = g0 /\ k0 = "member" THEN truth[g].member \ {e0} ELSE truth[g].member
        BY <3>1
      <3> QED BY <2>5, <3>2
    <2> QED BY <2>2, <2>4, <2>5
  <1>9. CASE m \in bots[g0]
    <2>1. ASSUME NEW u \in Entities.member
          PROVE  Flips(event, g, u)
      <3>1. /\ event.type = type /\ event.guild = g0 /\ event.kind = k0 /\ event.entity = e0
            /\ event = Join(g, u) <=> type = "enter" /\ g = g0 /\ k0 = "member" /\ e0 = u
            /\ event = Quit(g, u) <=> type = "leave" /\ g = g0 /\ k0 = "member" /\ e0 = u
        BY <1>2, MoveFields DEF Join, Quit
      <3>2. Shows(event, g, u) => u \in truth'[g].member
        BY <1>1, <1>8, <3>1 DEF Shows
      <3>3. Hides(event, g, u) => u \notin truth'[g].member
        BY <1>1, <1>8, <3>1 DEF Hides
      <3>4. g = g0 /\ k0 = "member" /\ e0 = u =>
               /\ type = "enter" => u \notin truth[g].member
               /\ type = "leave" => u \in truth[g].member
        BY <1>1
      <3> QED BY <1>8, <3>1, <3>2, <3>3, <3>4 DEF Flips
    <2>2. inbox'[m] = Append(inbox[m], event) /\ bots'[g] = bots[g]
      BY <1>4, <1>5, <1>9
    <2> QED BY <1>3, <2>1, <2>2 DEF News
  <1>10. CASE m \notin bots[g0]
    <2>1. ASSUME NEW u \in Entities.member \ unseen'[g]
          PROVE  u \in truth'[g].member <=> u \in truth[g].member
      <3>1. CASE g = g0 /\ k0 = "member" /\ u = e0 /\ type # "touch"
        <4>1. bots[g] \subseteq {m}
          BY <1>4 DEF WorldOK
        <4>2. bots[g0] = {}
          BY <1>10, <3>1, <4>1
        <4>3. unseen'[g] = unseen[g] \union {e0}
          BY <1>1, <3>1, <4>2 DEF Unseen, WorldOK
        <4> QED BY <2>1, <3>1, <4>3
      <3> QED BY <1>8, <3>1
    <2> QED BY <1>4, <1>5, <1>10, <2>1 DEF News
  <1> QED BY <1>9, <1>10

\* The guild, its emojis or its stickers are updated.
LEMMA UpdateNews ==
    ASSUME TInv, NEW g0 \in Guilds, NEW type \in DOMAIN WritesBack, Update(g0, type),
           NEW m \in Managers, NEW g \in Guilds
    PROVE  News(m, g)
  <1>1. PICK event : event = [type |-> type, guild |-> g0, content |-> truth[g0]]
    OBVIOUS
  <1>2. Send(g0, event) /\ UNCHANGED <<truth, bots>>
    BY <1>1 DEF Update
  <1>3. type \in {"update", "emojis", "stickers"} /\ event.type = type
    BY <1>1 DEF WritesBack
  <1>4. event \in Events
    BY <1>1, <1>3 DEF TInv, TruthOK, Events, UpdateEvents
  <1>5. \A u : Flips(event, g, u)
    <2> SUFFICES ASSUME NEW u PROVE Flips(event, g, u)
      OBVIOUS
    <2>1. event \notin {Join(g, u), Quit(g, u)}
      BY <1>3, MoveFields
    <2>2. ~Shows(event, g, u) /\ ~Hides(event, g, u)
      BY <1>3 DEF Shows, Hides
    <2> QED BY <1>2, <2>1, <2>2 DEF Flips
  <1>6. inbox'[m] = inbox[m] \/ inbox'[m] = Append(inbox[m], event)
    BY <1>2 DEF Send
  <1> QED BY <1>2, <1>4, <1>5, <1>6 DEF News

\* Whatever Discord does, the only manager of a guild is sent.
LEMMA DiscordNews ==
    ASSUME TInv, WorldOK, Discord, NEW m \in Managers, NEW g \in Guilds, served'[g] \subseteq {m}
    PROVE  News(m, g) /\ UNCHANGED <<todo, hand, before, state, ejector, torn>>
  <1>1. PICK g0 \in Guilds :
           \/ \E m0 \in Managers : Invite(m0, g0) \/ Kick(m0, g0)
           \/ \E k \in Kinds : \E e \in Entities[k] : Enter(g0, k, e) \/ Leave(g0, k, e) \/ Touch(g0, k, e)
           \/ \E type \in DOMAIN WritesBack : Update(g0, type)
    BY DEF Discord
  <1>2. UNCHANGED <<todo, hand, before, state, ejector, torn>>
    BY <1>1 DEF Invite, Kick, Enter, Leave, Touch, Update
  <1> QED BY <1>1, <1>2, MoveNews, ChangeNews, UpdateNews

\* Every step keeps the guilds whole.
LEMMA NextFull ==
    ASSUME TInv, FullOK, [Next]_vars
    PROVE  FullOK'
  <1>0. /\ inbox \in [Managers -> Seq(Events)] /\ truth = [x \in Guilds |-> truth[x]]
        /\ \A g \in Guilds : Self \in truth[g].member /\ truth[g] \in FullContents
    BY DEF TInv, TruthOK, InboxOK
  <1>1. ASSUME truth' = truth, \A m \in Managers : Items(inbox'[m]) \subseteq Items(inbox[m])
        PROVE  FullOK'
    BY <1>1 DEF FullOK
  <1>2. ASSUME UNCHANGED <<truth, inbox>> PROVE FullOK'
    BY <1>2 DEF FullOK
  <1>3. ASSUME \A g \in Guilds : Everyone \in truth'[g].role,
               NEW event \in Events,
               event.type = "create" => \E g \in Guilds : event.content = truth[g],
               \A m \in Managers : inbox'[m] = inbox[m] \/ inbox'[m] = Append(inbox[m], event)
        PROVE  FullOK'
    <2>1. event.type = "create" => Everyone \in event.content.role /\ Self \in event.content.member
      BY <1>0, <1>3 DEF FullOK
    <2>2. ASSUME NEW m \in Managers
          PROVE  Items(inbox'[m]) \subseteq Items(inbox[m]) \union {event}
      <3>1. inbox[m] \in Seq(Events)
        BY <1>0
      <3>2. Items(Append(inbox[m], event)) = Items(inbox[m]) \union {event}
        BY <3>1, ItemsAppend
      <3>3. inbox'[m] = inbox[m] \/ inbox'[m] = Append(inbox[m], event)
        BY <1>3
      <3> QED BY <3>2, <3>3
    <2> QED BY <1>3, <2>1, <2>2 DEF FullOK
  <1>4. CASE Discord
    <2>1. PICK g \in Guilds :
             \/ \E m \in Managers : Invite(m, g) \/ Kick(m, g)
             \/ \E k \in Kinds : \E e \in Entities[k] : Enter(g, k, e) \/ Leave(g, k, e) \/ Touch(g, k, e)
             \/ \E type \in DOMAIN WritesBack : Update(g, type)
      BY <1>4 DEF Discord
    <2>2. ASSUME NEW event, Send(g, event)
          PROVE  \A m \in Managers : inbox'[m] = inbox[m] \/ inbox'[m] = Append(inbox[m], event)
      BY <2>2 DEF Send
    <2>3. ASSUME NEW m \in Managers, Invite(m, g) PROVE FullOK'
      <3>1. PICK event : event = [type |-> "create", guild |-> g, content |-> truth[g]]
        OBVIOUS
      <3>2. event \in Events
        BY <1>0, <3>1 DEF Events, CreateEvents
      <3>3. inbox' = [inbox EXCEPT ![m] = Append(inbox[m], event)] /\ truth' = truth
        BY <2>3, <3>1 DEF Invite
      <3>4. \A x \in Managers : inbox'[x] = inbox[x] \/ inbox'[x] = Append(inbox[x], event)
        BY <1>0, <3>3
      <3>5. \E x \in Guilds : event.content = truth[x]
        BY <3>1
      <3>6. \A x \in Guilds : Everyone \in truth'[x].role
        BY <3>3 DEF FullOK
      <3> QED BY <1>3, <3>2, <3>4, <3>5, <3>6
    <2>4. ASSUME NEW m \in Managers, Kick(m, g) PROVE FullOK'
      <3>1. PICK event : event = [type |-> "delete", guild |-> g]
        OBVIOUS
      <3>2. event \in Events /\ event.type # "create"
        BY <3>1 DEF Events, DeleteEvents
      <3>3. inbox' = [inbox EXCEPT ![m] = Append(inbox[m], event)] /\ truth' = truth
        BY <2>4, <3>1 DEF Kick
      <3>4. \A x \in Managers : inbox'[x] = inbox[x] \/ inbox'[x] = Append(inbox[x], event)
        BY <1>0, <3>3
      <3>6. \A x \in Guilds : Everyone \in truth'[x].role
        BY <3>3 DEF FullOK
      <3> QED BY <1>3, <3>2, <3>4, <3>6
    <2>5. ASSUME NEW type \in DOMAIN WritesBack, Update(g, type) PROVE FullOK'
      <3>1. PICK event : event = [type |-> type, guild |-> g, content |-> truth[g]]
        OBVIOUS
      <3>2. Send(g, event) /\ truth' = truth
        BY <2>5, <3>1 DEF Update
      <3>3. event \in Events /\ event.type # "create"
        BY <1>0, <3>1 DEF WritesBack, Events, UpdateEvents
      <3>6. \A x \in Guilds : Everyone \in truth'[x].role
        BY <3>2 DEF FullOK
      <3> QED BY <1>3, <2>2, <3>2, <3>3, <3>6
    <2>6. ASSUME NEW k \in Kinds, NEW e \in Entities[k], Enter(g, k, e) \/ Leave(g, k, e) \/ Touch(g, k, e)
          PROVE  FullOK'
      <3>1. PICK type \in {"enter", "leave", "touch"} :
               /\ Send(g, [type |-> type, guild |-> g, kind |-> k, entity |-> e])
               /\ (type # "touch" /\ k = "member" => e # Self)
               /\ \/ truth' = truth
                  \/ truth' = [truth EXCEPT ![g][k] = @ \union {e}]
                  \/ truth' = [truth EXCEPT ![g][k] = @ \ {e}] /\ e # Everyone
        <4>1. CASE Enter(g, k, e)
          <5>1. k = "member" => e # Self
            BY <1>0, <4>1 DEF Enter
          <5> QED BY <4>1, <5>1 DEF Enter
        <4>2. CASE Leave(g, k, e)
          BY <4>2 DEF Leave
        <4>3. CASE Touch(g, k, e)
          BY <4>3 DEF Touch
        <4> QED BY <2>6, <4>1, <4>2, <4>3
      <3>2. PICK event : event = [type |-> type, guild |-> g, kind |-> k, entity |-> e]
        OBVIOUS
      <3>3. event \in Events /\ event.type # "create"
        <4>1. type # "touch" => (k = "member" => e \in Users)
          BY <3>1 DEF Entities
        <4> QED BY <3>2, <4>1 DEF Events, EntityEvents, TouchEvents, MoveEvents
      <3>4. ASSUME NEW x \in Guilds PROVE Everyone \in truth'[x].role
        <4>1. Everyone \in truth[x].role
          BY DEF FullOK
        <4>2. ASSUME NEW S, truth' = [truth EXCEPT ![g][k] = S], Everyone \in truth[g][k] => Everyone \in S
              PROVE  Everyone \in truth'[x].role
          <5>1. truth' = [truth EXCEPT ![g] = [truth[g] EXCEPT ![k] = S]]
            BY <4>2
          <5>2. truth'[x] = IF x = g THEN [truth[g] EXCEPT ![k] = S] ELSE truth[x]
            BY <1>0, <5>1
          <5>3. truth[g] \in [role : SUBSET Entities.role, channel : SUBSET Entities.channel,
                              member : SUBSET Entities.member]
            BY <1>0 DEF FullContents, Contents
          <5>4. [truth[g] EXCEPT ![k] = S].role = IF k = "role" THEN S ELSE truth[g].role
            BY <5>3 DEF Kinds
          <5> QED BY <4>1, <4>2, <5>2, <5>4
        <4> QED BY <3>1, <4>1, <4>2
      <3> QED BY <1>3, <2>2, <3>1, <3>2, <3>3, <3>4
    <2> QED BY <2>1, <2>3, <2>4, <2>5, <2>6
  <1>5. ASSUME NEW m \in Managers, Reader(m) PROVE FullOK'
    <2>1. CASE Handle(m)
      <3>1. inbox[m] # <<>> /\ inbox' = [inbox EXCEPT ![m] = Tail(inbox[m])] /\ truth' = truth
        BY <2>1 DEF Handle, world
      <3>2. \A n \in Managers : Items(inbox'[n]) \subseteq Items(inbox[n])
        BY <1>0, <3>1, ItemsTail, SMTT(60)
      <3> QED BY <1>1, <3>1, <3>2
    <2>2. CASE Load(m) \/ Store(m) \/ Rewrite(m)
      BY <1>2, <2>2 DEF Load, Store, Rewrite, world
    <2>3. CASE Steps(m)
      BY <1>2, <2>3, StepsTodo DEF world
    <2> QED BY <1>5, <2>1, <2>2, <2>3 DEF Reader, Passes, Steps
  <1>6. CASE Ejector
    BY <1>2, <1>6 DEF Ejector, BeginEject, ListVictims, EndEject, Scan, Remove, world
  <1>7. CASE (\E key \in dedupe : ExpireKey(key)) \/ UNCHANGED vars
    BY <1>2, <1>7 DEF ExpireKey, vars, world
  <1> QED BY <1>4, <1>5, <1>6, <1>7 DEF Next

-----------------------------------------------------------------------------
(* Members: who is in a guild as far as its only manager has come           *)

\* The events that show the member there, and those that show it is not.
Showing(g, u) == {event \in Events : Shows(event, g, u)}
Hiding(g, u) == {event \in Events : Hides(event, g, u)}

\* The member is in the guild as far as the manager has come.
In(m, g, u) == There(inbox[m], Join(g, u), Quit(g, u), u \in truth[g].member, 0)
\* The events in the inbox fit what Discord has in the end.
FitsOK(m, g, u) ==
    Fits(inbox[m], Showing(g, u), Hiding(g, u), Join(g, u), Quit(g, u), u \in truth[g].member)

\* The manager's reader has come to the guild it was sent as a whole.
Synced(m, g) ==
    bots[g] # {} /\ \A event \in Items(inbox[m]) : ~(event.type = "create" /\ event.guild = g)

\* A step after which the reader knows what it knew.
Quiet(m, g) ==
    /\ \A u \in Entities.member \ unseen'[g] : FitsOK(m, g, u)' /\ (In(m, g, u)' <=> In(m, g, u))
    /\ Synced(m, g)' => Synced(m, g)

\* A join is no leave.
LEMMA JoinIsNotQuit ==
    ASSUME NEW g, NEW u
    PROVE  Join(g, u) # Quit(g, u)
  BY MoveFields

\* What Discord sends is not known of before it is handled.
LEMMA NewsQuiet ==
    ASSUME TInv, NEW m \in Managers, NEW g \in Guilds, News(m, g), unseen[g] \subseteq unseen'[g],
           \A u \in Entities.member \ unseen[g] : FitsOK(m, g, u)
    PROVE  Quiet(m, g)
  <1>1. inbox[m] \in Seq(Events)
    BY DEF TInv, InboxOK
  <1>2. CASE /\ inbox'[m] = inbox[m] /\ (bots[g] = {} => bots'[g] = {})
             /\ \A u \in Entities.member \ unseen'[g] : u \in truth'[g].member <=> u \in truth[g].member
    <2>1. Synced(m, g)' => Synced(m, g)
      BY <1>2 DEF Synced
    <2>2. ASSUME NEW u \in Entities.member \ unseen'[g]
          PROVE  FitsOK(m, g, u)' /\ (In(m, g, u)' <=> In(m, g, u))
      <3>1. FitsOK(m, g, u)
        BY <2>2
      <3>2. inbox'[m] = inbox[m] /\ (u \in truth'[g].member <=> u \in truth[g].member)
        BY <1>2, <2>2
      <3> QED BY <3>1, <3>2 DEF FitsOK, In, Fits, There
    <2> QED BY <2>1, <2>2 DEF Quiet
  <1>3. ASSUME NEW event \in Events, inbox'[m] = Append(inbox[m], event),
               bots[g] = {} /\ bots'[g] # {} => event.type = "create" /\ event.guild = g,
               \A u \in Entities.member \ unseen'[g] : Flips(event, g, u)
        PROVE  Quiet(m, g)
    <2>1. Synced(m, g)' => Synced(m, g)
      <3>1. Items(inbox'[m]) = Items(inbox[m]) \union {event}
        BY <1>1, <1>3, ItemsAppend
      <3> QED BY <1>3, <3>1 DEF Synced
    <2>2. ASSUME NEW u \in Entities.member \ unseen'[g]
          PROVE  FitsOK(m, g, u)' /\ (In(m, g, u)' <=> In(m, g, u))
      <3>1. PICK now \in BOOLEAN, then \in BOOLEAN :
               (now <=> u \in truth[g].member) /\ (then <=> u \in truth'[g].member)
        <4>1. \E now \in BOOLEAN : now <=> u \in truth[g].member
          OBVIOUS
        <4>2. \E then \in BOOLEAN : then <=> u \in truth'[g].member
          OBVIOUS
        <4> QED BY <4>1, <4>2
      <3>2. Flips(event, g, u)
        BY <1>3, <2>2
      <3>3. PICK s, join, quit, A, B :
               /\ s \in Seq(Events) /\ s = inbox[m] /\ join = Join(g, u) /\ quit = Quit(g, u)
               /\ A = Showing(g, u) /\ B = Hiding(g, u)
        BY <1>1
      <3>4. join # quit
        BY <3>3, JoinIsNotQuit
      <3>5. \/ event \notin {join, quit} /\ then = now
            \/ event = join /\ ~now /\ then
            \/ event = quit /\ now /\ ~then
        BY <3>1, <3>2, <3>3 DEF Flips
      <3>6. (event \in A => then) /\ (event \in B => ~then)
        BY <3>1, <3>2, <3>3 DEF Flips, Showing, Hiding
      <3>7. Fits(s, A, B, join, quit, now)
        <4>1. FitsOK(m, g, u)
          BY <2>2
        <4> QED BY <3>1, <3>3, <4>1 DEF FitsOK, Fits, There
      <3>8. /\ Fits(Append(s, event), A, B, join, quit, then)
            /\ There(Append(s, event), join, quit, then, 0) <=> There(s, join, quit, now, 0)
        BY <3>3, <3>4, <3>5, <3>6, <3>7, FitsAppend
      <3>9. FitsOK(m, g, u)'
        <4>1. inbox'[m] = Append(s, event)
          BY <1>3, <3>3
        <4>2. (u \in truth'[g].member) = then
          BY <3>1
        <4>3. Fits(inbox'[m], A, B, join, quit, u \in truth'[g].member)
          BY <3>8, <4>1, <4>2
        <4> QED BY <3>3, <4>3 DEF FitsOK, Showing, Hiding, Shows, Hides, Join, Quit
      <3>10. In(m, g, u) <=> There(s, join, quit, now, 0)
        BY <3>1, <3>3 DEF In, There
      <3>11. In(m, g, u)' <=> There(Append(s, event), join, quit, then, 0)
        BY <1>3, <3>1, <3>3, ZenonT(60) DEF In, There, Join, Quit
      <3> QED BY <3>8, <3>9, <3>10, <3>11
    <2> QED BY <2>1, <2>2 DEF Quiet
  <1> QED BY <1>2, <1>3 DEF News

\* Nothing is sent.
LEMMA StillQuiet ==
    ASSUME NEW m, NEW g \in Guilds, inbox'[m] = inbox[m], UNCHANGED <<truth, bots, unseen>>,
           \A u \in Entities.member \ unseen[g] : FitsOK(m, g, u)
    PROVE  Quiet(m, g)
  <1>1. Synced(m, g)' => Synced(m, g)
    BY DEF Synced
  <1>2. ASSUME NEW u \in Entities.member \ unseen[g]
        PROVE  (FitsOK(m, g, u)' <=> FitsOK(m, g, u)) /\ (In(m, g, u)' <=> In(m, g, u))
    BY DEF FitsOK, In, Fits, There, Showing, Hiding, Shows, Hides, Join, Quit
  <1> QED BY <1>1, <1>2 DEF Quiet

\* The reader comes to an event.
LEMMA TakesEvent ==
    ASSUME TInv, NEW m \in Managers, Handle(m), NEW g \in Guilds, NEW event, event = Head(inbox[m]),
           NEW u \in Entities.member, FitsOK(m, g, u)
    PROVE  /\ FitsOK(m, g, u)'
           /\ Shows(event, g, u) => In(m, g, u)'
           /\ Hides(event, g, u) => ~In(m, g, u)'
           /\ event = Quit(g, u) => In(m, g, u)
           /\ event = Join(g, u) => ~In(m, g, u)
           /\ event \notin {Join(g, u), Quit(g, u)} => (In(m, g, u)' <=> In(m, g, u))
  <1>1. inbox[m] \in Seq(Events) /\ inbox[m] # <<>> /\ inbox'[m] = Tail(inbox[m]) /\ truth' = truth
    BY DEF Handle, TInv, InboxOK, world
  <1>2. PICK s, t, join, quit, A, B :
           /\ s \in Seq(Events) /\ s = inbox[m] /\ t = Tail(s) /\ join = Join(g, u) /\ quit = Quit(g, u)
           /\ A = Showing(g, u) /\ B = Hiding(g, u)
    BY <1>1
  <1>3. join # quit
    BY <1>2, JoinIsNotQuit
  <1>4. PICK now \in BOOLEAN : now <=> u \in truth[g].member
    <2>1. \E now \in BOOLEAN : now <=> u \in truth[g].member
      OBVIOUS
    <2> QED BY <2>1
  <1>5. s # <<>> /\ event = Head(s) /\ event \in Events
    BY <1>1, <1>2
  <1>6. Fits(s, A, B, join, quit, now)
    BY <1>2, <1>4, ZenonT(60) DEF FitsOK, Fits, There
  <1>7. /\ Fits(t, A, B, join, quit, now)
        /\ event \in A => There(t, join, quit, now, 0)
        /\ event \in B => ~There(t, join, quit, now, 0)
    BY <1>2, <1>5, <1>6, FitsTail
  <1>8. /\ event = quit => There(s, join, quit, now, 0)
        /\ event = join => ~There(s, join, quit, now, 0)
        /\ event \notin {join, quit} =>
              (There(s, join, quit, now, 0) <=> There(s, join, quit, now, 1))
    BY <1>2, <1>3, <1>5, ThereHead
  <1>9. There(t, join, quit, now, 0) <=> There(s, join, quit, now, 1)
    <2>1. There(Tail(s), join, quit, now, 0) <=> There(s, join, quit, now, 0 + 1)
      BY <1>2, <1>5, ThereTail
    <2> QED BY <1>2, <2>1
  <1>10. In(m, g, u) <=> There(s, join, quit, now, 0)
    BY <1>2, <1>4 DEF In, There
  <1>11. In(m, g, u)' <=> There(t, join, quit, now, 0)
    BY <1>1, <1>2, <1>4, ZenonT(60) DEF In, There, Join, Quit
  <1>12. FitsOK(m, g, u)'
    <2>0. inbox'[m] = t /\ (u \in truth'[g].member <=> now)
      BY <1>1, <1>2, <1>4
    <2>1. Fits(inbox'[m], A, B, join, quit, u \in truth'[g].member)
      BY <1>7, <2>0 DEF Fits, There
    <2> QED BY <1>2, <2>1 DEF FitsOK, Showing, Hiding, Shows, Hides, Join, Quit
  <1>13. (event \in A <=> Shows(event, g, u)) /\ (event \in B <=> Hides(event, g, u))
    BY <1>2, <1>5 DEF Showing, Hiding
  <1> QED BY <1>2, <1>7, <1>8, <1>9, <1>10, <1>11, <1>12, <1>13

\* An event of another guild says nothing of this one.
LEMMA HandleQuiet ==
    ASSUME TInv, NEW m \in Managers, Handle(m), NEW g \in Guilds, Head(inbox[m]).guild # g,
           \A u \in Entities.member \ unseen[g] : FitsOK(m, g, u)
    PROVE  Quiet(m, g)
  <1>1. PICK event : event = Head(inbox[m])
    OBVIOUS
  <1>2. /\ inbox[m] \in Seq(Events) /\ inbox[m] # <<>> /\ inbox'[m] = Tail(inbox[m])
        /\ bots' = bots /\ unseen' = unseen
    BY DEF Handle, TInv, InboxOK, world
  <1>3. \A u : event \notin {Join(g, u), Quit(g, u)}
    BY <1>1, MoveFields
  <1>4. Synced(m, g)' => Synced(m, g)
    <2>1. Items(inbox[m]) = {event} \union Items(inbox'[m])
      BY <1>1, <1>2, ItemsTail
    <2> QED BY <1>1, <1>2, <2>1 DEF Synced
  <1>5. ASSUME NEW u \in Entities.member \ unseen[g]
        PROVE  FitsOK(m, g, u)' /\ (In(m, g, u)' <=> In(m, g, u))
    BY <1>1, <1>3, <1>5, TakesEvent
  <1> QED BY <1>2, <1>4, <1>5 DEF Quiet

-----------------------------------------------------------------------------
(* Members: what holds of a guild and the only manager that was in it       *)

\* What the manager has yet to do: an operation, a store of an entry, the count of
\* a guild; and the member it read of a guild that it is going to write back.
Has(m, op) == op \in Items(todo[m])
Storing(m, k, key, e) == \E op \in Items(todo[m]) : StoreOf(op, k, key, e)
WritingBack(m, g, u) ==
    /\ before[m] # None /\ u \in before[m].member /\ ~Has(m, Op("readGuild", g))
    /\ \E op \in Items(todo[m]) : op.do = "rewrite" /\ op.guild = g

\* A key is set only where the event it is the key of was the last to be handled.
KeyOK(m, g, u, kind) ==
    LET now == IF kind = "add" THEN In(m, g, u) ELSE ~In(m, g, u) IN
    /\ <<kind, g, u>> \in dedupe => now \/ Has(m, KeyOp("unmark", kind, g, u))
    /\ Has(m, KeyOp("check", kind, g, u)) => now /\ <<kind, g, u>> \notin dedupe
    /\ Has(m, KeyOp("mark", kind, g, u)) => now

\* The cache has the member if the manager knows it there, or is about to.
MemberOK(m, g, u) ==
    /\ u \in Held("member", g) => Kept(u) /\ (In(m, g, u) \/ Has(m, DropOp("member", g, u)))
    /\ Storing(m, "member", g, u) \/ WritingBack(m, g, u) => Kept(u) /\ In(m, g, u)
    /\ Has(m, DropOp("member", g, u)) => ~In(m, g, u)
    /\ In(m, g, u) /\ Kept(u) /\ Synced(m, g) => u \in Held("member", g) \/ Storing(m, "member", g, u)

\* The guild is among those of the user only if he is known there, or was just now.
MutualOK(m, g, u) ==
    u \notin lost =>
       /\ g \in Held("mutual", u) => In(m, g, u) \/ Has(m, DropOp("mutual", u, g))
       /\ Storing(m, "mutual", u, g) => In(m, g, u)

\* The parts of what holds of a guild, each over all members nobody missed.
Known(m, g) == \A u \in Entities.member \ unseen[g] : FitsOK(m, g, u)
KeysOK(m, g) == \A u \in Users \ unseen[g] : \A kind \in {"add", "remove"} : KeyOK(m, g, u, kind)
HeldOK(m, g) == \A u \in Entities.member \ unseen[g] : MemberOK(m, g, u)
MutualsOK(m, g) == \A u \in Users \ unseen[g] : MutualOK(m, g, u)

\* The parts a handler that reads the guild does not do without are there.
SomeOf(m, g, k) == parts[k][g] # None \/ \E e \in Entities[k] : Storing(m, k, g, e)
\* A guild that was sent as a whole has all that an update reads.
WholeOK(m, g) ==
    unseen[g] = {} /\ Synced(m, g) =>
       /\ SomeOf(m, g, "role") /\ SomeOf(m, g, "member")
       /\ g \in emojis \/ Has(m, Op("emojis", g))

\* The count that is to be cached before the operation that changes it.
Present(m, g) == {u \in Entities.member : In(m, g, u)}
\* The count before the handler has counted the member it is about to count.
Target(m, g) ==
    LET n == Cardinality(Present(m, g)) IN
    IF Has(m, Op("increment", g)) THEN n - 1
    ELSE IF Has(m, Op("decrement", g)) THEN n + 1 ELSE n

\* The handler stores the count it was sent or has read; it has read the count.
StoresCount(m, g) == \E op \in Items(todo[m]) : op.do = "guild" /\ op.guild = g
UsesCount(m, g) ==
    /\ \E op \in Items(todo[m]) : op.do \in {"increment", "decrement", "rewrite"} /\ op.guild = g
    /\ ~Has(m, Op("readGuild", g))

\* The count is that of the members known, for who stores one and for who read one.
CountOK(m, g) ==
    /\ \A op \in Items(todo[m]) : op.do = "guild" /\ op.guild = g => op.count = Cardinality(Present(m, g))
    /\ ~StoresCount(m, g) => guilds[g] = Target(m, g)
    /\ UsesCount(m, g) => before[m] # None /\ before[m].count = Target(m, g)

\* So it is once the guild was sent as a whole.
CountsOK(m, g) ==
    unseen[g] = {} => IsFiniteSet(Present(m, g)) /\ (Synced(m, g) => CountOK(m, g))

\* The guild and the manager are in order.
GuildOK(m, g) ==
    Known(m, g) /\ KeysOK(m, g) /\ HeldOK(m, g) /\ MutualsOK(m, g) /\ WholeOK(m, g) /\ CountsOK(m, g)

-----------------------------------------------------------------------------
(* Members: what keeps each of these                                        *)

\* A key that is checked or marked, or not.
LEMMA KeysKeep ==
    ASSUME NEW m, NEW g, Quiet(m, g), unseen[g] \subseteq unseen'[g], KeysOK(m, g),
           \A u \in Users \ unseen'[g] : \A kind \in {"add", "remove"} :
              /\ <<kind, g, u>> \in dedupe' => <<kind, g, u>> \in dedupe \/ Has(m, KeyOp("mark", kind, g, u))
              /\ Has(m, KeyOp("unmark", kind, g, u)) =>
                    Has(m, KeyOp("unmark", kind, g, u))' \/ <<kind, g, u>> \notin dedupe'
              /\ Has(m, KeyOp("check", kind, g, u))' =>
                    Has(m, KeyOp("check", kind, g, u)) /\ (<<kind, g, u>> \in dedupe' => <<kind, g, u>> \in dedupe)
              /\ Has(m, KeyOp("mark", kind, g, u))' => Has(m, KeyOp("mark", kind, g, u))
    PROVE  KeysOK(m, g)'
  <1> SUFFICES ASSUME NEW u \in Users \ unseen'[g], NEW kind \in {"add", "remove"}
               PROVE  KeyOK(m, g, u, kind)'
    BY DEF KeysOK
  <1>1. KeyOK(m, g, u, kind)
    BY DEF KeysOK
  <1>2. In(m, g, u)' <=> In(m, g, u)
    BY DEF Quiet, Entities
  <1> QED BY <1>1, <1>2 DEF KeyOK

\* Mutual guilds.
LEMMA MutualsKeep ==
    ASSUME NEW m, NEW g, Quiet(m, g), unseen[g] \subseteq unseen'[g], MutualsOK(m, g), lost \subseteq lost',
           \A u \in Users \ unseen'[g] : u \notin lost' =>
              /\ g \in Held("mutual", u)' => g \in Held("mutual", u) \/ Storing(m, "mutual", u, g)
              /\ Has(m, DropOp("mutual", u, g)) =>
                    Has(m, DropOp("mutual", u, g))' \/ ~(g \in Held("mutual", u))'
              /\ Storing(m, "mutual", u, g)' => Storing(m, "mutual", u, g)
    PROVE  MutualsOK(m, g)'
  <1> SUFFICES ASSUME NEW u \in Users \ unseen'[g]
               PROVE  MutualOK(m, g, u)'
    BY DEF MutualsOK
  <1>1. MutualOK(m, g, u)
    BY DEF MutualsOK
  <1>2. In(m, g, u)' <=> In(m, g, u)
    BY DEF Quiet, Entities
  <1> QED BY <1>1, <1>2 DEF MutualOK

\* Members.
LEMMA HeldKeep ==
    ASSUME NEW m, NEW g, Quiet(m, g), unseen[g] \subseteq unseen'[g], HeldOK(m, g),
           \A u \in Entities.member \ unseen'[g] :
              /\ (u \in Held("member", g))' => u \in Held("member", g) \/ Storing(m, "member", g, u)
              /\ Has(m, DropOp("member", g, u)) =>
                    Has(m, DropOp("member", g, u))' \/ ~(u \in Held("member", g))'
              /\ Has(m, DropOp("member", g, u))' => Has(m, DropOp("member", g, u))
              /\ Storing(m, "member", g, u)' \/ WritingBack(m, g, u)' =>
                    \/ Storing(m, "member", g, u) \/ WritingBack(m, g, u)
                    \/ u \in Held("member", g) /\ ~Has(m, DropOp("member", g, u))
              /\ Synced(m, g)' /\ (u \in Held("member", g) \/ Storing(m, "member", g, u))
                    /\ ~Has(m, DropOp("member", g, u)) =>
                 (u \in Held("member", g))' \/ Storing(m, "member", g, u)'
    PROVE  HeldOK(m, g)'
  <1> SUFFICES ASSUME NEW u \in Entities.member \ unseen'[g]
               PROVE  MemberOK(m, g, u)'
    BY DEF HeldOK
  <1>1. MemberOK(m, g, u)
    BY DEF HeldOK
  <1>2. (In(m, g, u)' <=> In(m, g, u)) /\ (Synced(m, g)' => Synced(m, g))
    BY DEF Quiet
  <1>3. Kept(u)' <=> Kept(u)
    BY DEF Kept
  <1> QED BY <1>1, <1>2, <1>3 DEF MemberOK

\* What an update reads.
LEMMA WholeKeeps ==
    ASSUME NEW m, NEW g, Quiet(m, g), unseen[g] \subseteq unseen'[g], WholeOK(m, g),
           unseen'[g] = {} /\ Synced(m, g)' =>
              /\ \A k \in {"role", "member"} : SomeOf(m, g, k) => SomeOf(m, g, k)'
              /\ g \in emojis \/ Has(m, Op("emojis", g)) => g \in emojis' \/ Has(m, Op("emojis", g))'
    PROVE  WholeOK(m, g)'
  BY DEF WholeOK, Quiet

\* Who is there does not change.
LEMMA PresentStays ==
    ASSUME NEW m, NEW g, Quiet(m, g), unseen'[g] = {}
    PROVE  Present(m, g)' = Present(m, g)
  BY DEF Present, Quiet

\* Counts.
LEMMA CountsKeep ==
    ASSUME NEW m, NEW g, Quiet(m, g), unseen[g] \subseteq unseen'[g], CountsOK(m, g),
           unseen'[g] = {} /\ Synced(m, g)' =>
              /\ guilds'[g] = guilds[g]
              /\ \A op : op.do \in {"guild", "increment", "decrement", "rewrite", "readGuild"} /\ op.guild = g =>
                    (Has(m, op)' <=> Has(m, op))
              /\ UsesCount(m, g) /\ before[m] # None =>
                    before'[m] # None /\ before'[m].count = before[m].count
    PROVE  CountsOK(m, g)'
  <1> SUFFICES ASSUME unseen'[g] = {}
               PROVE  IsFiniteSet(Present(m, g))' /\ (Synced(m, g)' => CountOK(m, g)')
    BY DEF CountsOK
  <1>1. unseen[g] = {}
    OBVIOUS
  <1>2. Present(m, g)' = Present(m, g) /\ IsFiniteSet(Present(m, g))
    BY <1>1, PresentStays DEF CountsOK
  <1> SUFFICES ASSUME Synced(m, g)'
               PROVE  CountOK(m, g)'
    BY <1>2
  <1>3. CountOK(m, g)
    BY <1>1 DEF CountsOK, Quiet
  <1>4. /\ Has(m, Op("increment", g))' <=> Has(m, Op("increment", g))
        /\ Has(m, Op("decrement", g))' <=> Has(m, Op("decrement", g))
        /\ Has(m, Op("readGuild", g))' <=> Has(m, Op("readGuild", g))
    BY DEF Op
  <1>5. Target(m, g)' = Target(m, g)
    BY <1>2, <1>4 DEF Target, Op
  <1>6. (StoresCount(m, g)' <=> StoresCount(m, g)) /\ (UsesCount(m, g)' <=> UsesCount(m, g))
    BY <1>4 DEF StoresCount, UsesCount, Has, Op
  <1> QED BY <1>2, <1>3, <1>5, <1>6 DEF CountOK, Has

-----------------------------------------------------------------------------
(* Members: steps that have nothing to do with the guild                    *)

\* A step that has nothing to do with guild g.
Aside(m, g) ==
    /\ Quiet(m, g) /\ unseen[g] \subseteq unseen'[g] /\ lost \subseteq lost'
    /\ \A op : About(op, g) => (Has(m, op)' <=> Has(m, op))
    /\ (\E op : About(op, g) /\ Has(m, op)) => before'[m] = before[m]
    /\ \A kind, u : <<kind, g, u>> \in dedupe' => <<kind, g, u>> \in dedupe
    /\ Held("member", g)' \subseteq Held("member", g)
    /\ \A u \in Users : u \notin lost' => (g \in Held("mutual", u)' => g \in Held("mutual", u))
    /\ Synced(m, g)' =>
          /\ guilds'[g] = guilds[g] /\ (g \in emojis' <=> g \in emojis)
          /\ \A k \in {"role", "member"} : parts'[k][g] = parts[k][g]

\* Such a step keeps the guild in order.
LEMMA AsideKeeps ==
    ASSUME OrderOK, OrderOK', NEW m \in Managers, NEW g \in Guilds, Aside(m, g), GuildOK(m, g)
    PROVE  GuildOK(m, g)'
  <1>1. Quiet(m, g) /\ unseen[g] \subseteq unseen'[g] /\ lost \subseteq lost'
    BY DEF Aside
  <1>2. ASSUME NEW op, About(op, g)
        PROVE  Has(m, op)' <=> Has(m, op)
    BY <1>2 DEF Aside
  <1>3. ASSUME NEW u
        PROVE  /\ \A do \in {"check", "mark", "unmark"} : \A kind : About(KeyOp(do, kind, g, u), g)
               /\ About(DropOp("member", g, u), g) /\ About(DropOp("mutual", u, g), g)
    <2>1. ASSUME NEW do \in {"check", "mark", "unmark"}, NEW kind PROVE About(KeyOp(do, kind, g, u), g)
      BY DEF About, KeyOp
    <2>2. About(DropOp("member", g, u), g) /\ About(DropOp("mutual", u, g), g)
      BY DEF About, DropOp
    <2> QED BY <2>1, <2>2
  <1>4. ASSUME NEW op, NEW k \in {"role", "member"}, NEW e, StoreOf(op, k, g, e)
        PROVE  About(op, g)
    BY <1>4 DEF StoreOf, About
  <1>5. ASSUME NEW op, NEW u, StoreOf(op, "mutual", u, g), Has(m, op) \/ Has(m, op)'
        PROVE  About(op, g)
    <2>1. PICK h \in Guilds : About(op, h)
      BY <1>5 DEF OrderOK, Has
    <2>2. op.entries = {h} /\ g \in op.entries
      BY <1>5, <2>1 DEF About, StoreOf
    <2> QED BY <2>1, <2>2
  <1>6. Known(m, g)'
    BY <1>1 DEF Quiet, Known
  <1>7. KeysOK(m, g)'
    <2>1. \A kind, u : <<kind, g, u>> \in dedupe' => <<kind, g, u>> \in dedupe
      BY DEF Aside
    <2>2. \A u : \A do \in {"check", "mark", "unmark"} : \A kind :
             Has(m, KeyOp(do, kind, g, u))' <=> Has(m, KeyOp(do, kind, g, u))
      <3> SUFFICES ASSUME NEW u, NEW do \in {"check", "mark", "unmark"}, NEW kind
                   PROVE  Has(m, KeyOp(do, kind, g, u))' <=> Has(m, KeyOp(do, kind, g, u))
        OBVIOUS
      <3>1. PICK op : op = KeyOp(do, kind, g, u)
        OBVIOUS
      <3>2. Has(m, op)' <=> Has(m, op)
        BY <1>2, <1>3, <3>1
      <3> QED BY <3>1, <3>2 DEF Has, KeyOp
    <2>3. KeysOK(m, g)
      BY DEF GuildOK
    <2> QED BY <1>1, <2>1, <2>2, <2>3, KeysKeep
  <1>8. ASSUME NEW u
        PROVE  /\ Has(m, DropOp("member", g, u))' <=> Has(m, DropOp("member", g, u))
               /\ Has(m, DropOp("mutual", u, g))' <=> Has(m, DropOp("mutual", u, g))
    <2>1. PICK x, y : x = DropOp("member", g, u) /\ y = DropOp("mutual", u, g)
      OBVIOUS
    <2>2. (Has(m, x)' <=> Has(m, x)) /\ (Has(m, y)' <=> Has(m, y))
      BY <1>2, <1>3, <2>1
    <2> QED BY <2>1, <2>2 DEF Has, DropOp
  <1>9. MutualsOK(m, g)'
    <2>1. MutualsOK(m, g)
      BY DEF GuildOK
    <2>2. \A u \in Users : u \notin lost' => (g \in Held("mutual", u)' => g \in Held("mutual", u))
      BY DEF Aside
    <2>3. \A u : Storing(m, "mutual", u, g)' => Storing(m, "mutual", u, g)
      BY <1>2, <1>5 DEF Storing, StoreOf, Has
    <2> QED BY <1>1, <1>8, <2>1, <2>2, <2>3, MutualsKeep
  <1>10. \A k \in {"role", "member"} : \A e : Storing(m, k, g, e)' <=> Storing(m, k, g, e)
    BY <1>2, <1>4 DEF Storing, StoreOf, Has
  <1>11. /\ \A do : do \notin {"store", "drop", "check", "mark", "unmark"} => About(Op(do, g), g)
         /\ \A op : op.do \in {"guild", "increment", "decrement", "rewrite", "readGuild"} /\ op.guild = g =>
               About(op, g)
    BY DEF Op, About
  <1>12. HeldOK(m, g)'
    <2>1. HeldOK(m, g)
      BY DEF GuildOK
    <2>2. Held("member", g)' \subseteq Held("member", g)
      BY DEF Aside
    <2>3. Synced(m, g)' => Held("member", g)' = Held("member", g)
      BY DEF Aside, Held
    <2>4. ASSUME NEW u, WritingBack(m, g, u)'
          PROVE  WritingBack(m, g, u)
      <3>1. PICK op \in Items(todo'[m]) : op.do = "rewrite" /\ op.guild = g
        BY <2>4 DEF WritingBack
      <3>2. About(op, g) /\ Has(m, op)
        BY <1>2, <1>11, <3>1 DEF Has
      <3>3. before'[m] = before[m]
        BY <3>2 DEF Aside
      <3>4. PICK read : read = Op("readGuild", g)
        OBVIOUS
      <3>5. Has(m, read)' <=> Has(m, read)
        BY <1>2, <1>11, <3>4
      <3>6. Has(m, Op("readGuild", g))' <=> Has(m, Op("readGuild", g))
        BY <3>4, <3>5 DEF Has, Op
      <3> QED BY <2>4, <3>1, <3>2, <3>3, <3>6 DEF WritingBack, Has
    <2>5. \A u \in Entities.member \ unseen'[g] :
              /\ (u \in Held("member", g))' => u \in Held("member", g) \/ Storing(m, "member", g, u)
              /\ Has(m, DropOp("member", g, u)) =>
                    Has(m, DropOp("member", g, u))' \/ ~(u \in Held("member", g))'
              /\ Has(m, DropOp("member", g, u))' => Has(m, DropOp("member", g, u))
              /\ Storing(m, "member", g, u)' \/ WritingBack(m, g, u)' =>
                    \/ Storing(m, "member", g, u) \/ WritingBack(m, g, u)
                    \/ u \in Held("member", g) /\ ~Has(m, DropOp("member", g, u))
              /\ Synced(m, g)' /\ (u \in Held("member", g) \/ Storing(m, "member", g, u))
                    /\ ~Has(m, DropOp("member", g, u)) =>
                 (u \in Held("member", g))' \/ Storing(m, "member", g, u)'
      BY <1>8, <1>10, <2>2, <2>3, <2>4
    <2> QED BY <1>1, <2>1, <2>5, HeldKeep
  <1>13. WholeOK(m, g)'
    <2>1. WholeOK(m, g)
      BY DEF GuildOK
    <2>2. ASSUME Synced(m, g)', NEW k \in {"role", "member"}
          PROVE  SomeOf(m, g, k) => SomeOf(m, g, k)'
      BY <1>10, <2>2 DEF SomeOf, Aside
    <2>3. PICK op : op = Op("emojis", g)
      OBVIOUS
    <2>4. Has(m, op)' <=> Has(m, op)
      BY <1>2, <1>11, <2>3
    <2>5. Has(m, Op("emojis", g))' <=> Has(m, Op("emojis", g))
      BY <2>3, <2>4 DEF Has, Op
    <2>6. Synced(m, g)' => (g \in emojis' <=> g \in emojis)
      BY DEF Aside
    <2> QED BY <1>1, <2>1, <2>2, <2>5, <2>6, WholeKeeps
  <1>14. CountsOK(m, g)'
    <2>1. CountsOK(m, g)
      BY DEF GuildOK
    <2>2. UsesCount(m, g) => before'[m] = before[m]
      BY <1>11 DEF UsesCount, Aside, Has
    <2>3. Synced(m, g)' => guilds'[g] = guilds[g]
      BY DEF Aside
    <2>4. \A op : op.do \in {"guild", "increment", "decrement", "rewrite", "readGuild"} /\ op.guild = g =>
             (Has(m, op)' <=> Has(m, op))
      BY <1>2, <1>11
    <2> QED BY <1>1, <2>1, <2>2, <2>3, <2>4, CountsKeep
  <1> QED BY <1>6, <1>7, <1>9, <1>12, <1>13, <1>14 DEF GuildOK

\* A step of anybody else leaves the reader where it was.
LEMMA AsideBy ==
    ASSUME NEW m \in Managers, NEW g \in Guilds, Quiet(m, g), unseen[g] \subseteq unseen'[g],
           UNCHANGED <<todo, before, state>>
    PROVE  Aside(m, g)
  <1>1. UNCHANGED <<guilds, emojis, parts, dedupe, lost>>
    BY DEF state
  <1>2. \A op : Has(m, op)' <=> Has(m, op)
    BY DEF Has
  <1>3. Held("member", g)' = Held("member", g) /\ \A u : Held("mutual", u)' = Held("mutual", u)
    BY <1>1 DEF Held
  <1> QED BY <1>1, <1>2, <1>3 DEF Aside

\* What Discord does.
LEMMA DiscordAside ==
    ASSUME TInv, WorldOK, Discord, NEW m \in Managers, NEW g \in Guilds, served'[g] \subseteq {m},
           Known(m, g)
    PROVE  Aside(m, g)
  <1>1. News(m, g) /\ UNCHANGED <<todo, before, state>>
    BY DiscordNews
  <1>2. unseen[g] \subseteq unseen'[g]
    BY WorldSteps DEF Grows
  <1>3. Quiet(m, g)
    BY <1>1, <1>2, NewsQuiet DEF Known
  <1> QED BY <1>1, <1>2, <1>3, AsideBy

\* A step of which Discord and the readers' queues know nothing.
LEMMA InsideQuiet ==
    ASSUME NEW m, NEW g \in Guilds, UNCHANGED world, inbox'[m] = inbox[m], Known(m, g)
    PROVE  Quiet(m, g) /\ unseen' = unseen
  <1>1. UNCHANGED <<truth, bots, unseen>>
    BY DEF world
  <1> QED BY <1>1, StillQuiet DEF Known

\* A step that changes nothing of what is read here.
LEMMA SameAside ==
    ASSUME UNCHANGED <<world, inbox, todo, before, state>>, NEW m \in Managers, NEW g \in Guilds, Known(m, g)
    PROVE  Aside(m, g)
  <1>1. Quiet(m, g) /\ unseen' = unseen
    BY InsideQuiet
  <1> QED BY <1>1, AsideBy

\* A key that expires.
LEMMA ExpireAside ==
    ASSUME NEW key \in dedupe, ExpireKey(key), NEW m \in Managers, NEW g \in Guilds, Known(m, g)
    PROVE  Aside(m, g)
  <1>1. UNCHANGED <<world, inbox, todo, before, guilds, emojis, parts, lost>> /\ dedupe' \subseteq dedupe
    BY DEF ExpireKey
  <1>2. Quiet(m, g) /\ unseen' = unseen
    BY <1>1, InsideQuiet
  <1>3. \A op : Has(m, op)' <=> Has(m, op)
    BY <1>1 DEF Has
  <1>4. Held("member", g)' = Held("member", g) /\ \A u : Held("mutual", u)' = Held("mutual", u)
    BY <1>1 DEF Held
  <1> QED BY <1>1, <1>2, <1>3, <1>4 DEF Aside

\* The ejector takes another guild out, or this one while no bot is in it.
LEMMA RemoveAside ==
    ASSUME TInv, NEW g0 \in Guilds, Remove(g0), NEW m \in Managers, NEW g \in Guilds, Known(m, g),
           g \notin torn'
    PROVE  Aside(m, g)
  <1>1. /\ UNCHANGED <<world, inbox, todo, before, dedupe, lost>>
        /\ torn' = IF bots[g0] # {} THEN torn \union {g0} ELSE torn
        /\ guilds' = guilds \/ guilds' = [guilds EXCEPT ![g0] = None]
        /\ emojis' = emojis \/ emojis' = emojis \ {g0}
        /\ parts' = parts \/ \E k \in Kinds : parts' = [parts EXCEPT ![k][g0] = None]
    BY DEF Remove, ClearKey
  <1>2. Quiet(m, g) /\ unseen' = unseen
    BY <1>1, InsideQuiet
  <1>3. \A op : Has(m, op)' <=> Has(m, op)
    BY <1>1 DEF Has
  <1>4. \A k \in Tables : \A x \in Keys(k) :
           parts'[k][x] = parts[k][x] \/ (k \in Kinds /\ x = g0 /\ parts'[k][x] = None)
    <2>2. ASSUME NEW k0 \in Kinds, parts' = [parts EXCEPT ![k0][g0] = None],
                 NEW k \in Tables, NEW x \in Keys(k)
          PROVE  parts'[k][x] = parts[k][x] \/ (k \in Kinds /\ x = g0 /\ parts'[k][x] = None)
      <3>1. PartsOK /\ k0 \in Tables /\ g0 \in Keys(k0) /\ None \in (SUBSET Of(k0)) \union {None}
        BY DEF TInv, Kinds, Tables, Keys
      <3>2. \A z \in Tables : \A y \in Keys(z) :
               parts'[z][y] = IF z = k0 /\ y = g0 THEN None ELSE parts[z][y]
        BY <2>2, <3>1, PartsChange, ZenonT(60)
      <3> QED BY <3>2
    <2> QED BY <1>1, <2>2
  <1>5. Held("member", g)' \subseteq Held("member", g)
    <2>1. parts'["member"][g] = parts["member"][g] \/ parts'["member"][g] = None
      BY <1>4, TableKinds
    <2> QED BY <2>1 DEF Held
  <1>6. \A u \in Users : Held("mutual", u)' = Held("mutual", u)
    <2>1. \A u \in Users : parts'["mutual"][u] = parts["mutual"][u]
      <3>1. "mutual" \notin Kinds
        BY DEF Kinds
      <3> QED BY <1>4, <3>1, TableKinds
    <2> QED BY <2>1 DEF Held
  <1>7. ASSUME Synced(m, g)'
        PROVE  /\ guilds'[g] = guilds[g] /\ (g \in emojis' <=> g \in emojis)
               /\ \A k \in {"role", "member"} : parts'[k][g] = parts[k][g]
    <2>1. bots[g] # {}
      BY <1>1, <1>7 DEF Synced, world
    <2>2. g # g0
      BY <1>1, <2>1
    <2> QED BY <1>1, <1>4, <2>2, TableKinds DEF TInv, CachesOK
  <1> QED BY <1>1, <1>2, <1>3, <1>5, <1>6, <1>7 DEF Aside

\* All steps of the ejector.
LEMMA EjectorAside ==
    ASSUME TInv, Ejector, NEW m \in Managers, NEW g \in Guilds, Known(m, g), g \notin torn'
    PROVE  Aside(m, g)
  <1>1. ASSUME BeginEject \/ ListVictims \/ EndEject \/ \E n \in Managers : Scan(n)
        PROVE  Aside(m, g)
    <2>1. UNCHANGED <<world, inbox, todo, before, state>>
      BY <1>1 DEF BeginEject, ListVictims, EndEject, Scan
    <2> QED BY <2>1, SameAside
  <1> QED BY <1>1, RemoveAside DEF Ejector

-----------------------------------------------------------------------------
(* Members: handlers of other guilds                                        *)

\* What is about one guild is about no other.
LEMMA AllAbout ==
    ASSUME OrderOK, NEW n \in Managers, NEW h \in Guilds, NEW y \in Items(todo[n]), About(y, h)
    PROVE  \A op \in Items(todo[n]) : About(op, h) /\ \A g : About(op, g) => g = h
  <1>1. ASSUME NEW op \in Items(todo[n]) PROVE About(op, h)
    BY DEF OrderOK, Single
  <1> QED BY <1>1, AboutOne

\* A handler goes on to be about its guild.
LEMMA StaysAbout ==
    ASSUME TInv, HandlersOK, OrderOK, NEW n \in Managers, Reader(n), ~Handle(n), NEW h \in Guilds,
           About(Head(todo[n]), h)
    PROVE  /\ todo[n] # <<>> /\ Head(todo[n]) \in Items(todo[n])
           /\ \A op \in Items(todo'[n]) : About(op, h)
           /\ UNCHANGED <<world, inbox, torn>> /\ \A x \in Managers \ {n} : todo'[x] = todo[x]
  <1>1. CASE Load(n)
    <2>1. todo[n] # <<>> /\ UNCHANGED <<world, inbox, torn, todo>>
      BY <1>1 DEF Load, Doing
    <2>2. Head(todo[n]) \in Items(todo[n])
      BY <2>1, TailItems DEF TInv, TodoOK
    <2> QED BY <2>1, <2>2, AllAbout
  <1>2. CASE Steps(n)
    <2>1. /\ todo[n] # <<>> /\ UNCHANGED <<world, inbox, torn>>
          /\ todo' = [todo EXCEPT ![n] = Tail(todo[n])] \/ todo' = [todo EXCEPT ![n] = <<>>]
      BY <1>2, StepsTodo
    <2>2. Items(todo[n]) = {Head(todo[n])} \union Items(Tail(todo[n]))
      BY <2>1, TailItems DEF TInv, TodoOK
    <2>3. PICK s : s \in {Tail(todo[n]), <<>>} /\ todo' = [todo EXCEPT ![n] = s]
      BY <2>1
    <2>4. todo'[n] = s /\ \A x \in Managers \ {n} : todo'[x] = todo[x]
      BY <2>3, TodoChanges
    <2>5. Items(s) \subseteq Items(todo[n])
      BY <2>2, <2>3, NothingItems
    <2> QED BY <2>1, <2>2, <2>4, <2>5, AllAbout
  <1>3. CASE Rewrite(n)
    <2>1. PICK op \in Operations : \E s : RewriteTold(n, op, s)
      BY <1>3, RewriteTells
    <2>2. PICK s : RewriteTold(n, op, s)
      BY <2>1
    <2>3. /\ op = Head(todo[n]) /\ op.do = "rewrite" /\ todo[n] # <<>> /\ todo' = [todo EXCEPT ![n] = s]
          /\ \A x \in Items(s) : About(x, op.guild)
      BY <2>2 DEF RewriteTold
    <2>4. op.guild = h
      BY <2>3 DEF About
    <2>5. todo'[n] = s /\ \A x \in Managers \ {n} : todo'[x] = todo[x]
      BY <2>3, TodoChanges
    <2>6. Head(todo[n]) \in Items(todo[n])
      BY <2>3, TailItems DEF TInv, TodoOK
    <2>7. UNCHANGED <<world, inbox, torn>>
      BY <1>3 DEF Rewrite
    <2> QED BY <2>3, <2>4, <2>5, <2>6, <2>7
  <1>4. CASE Store(n)
    <2>1. PICK op \in Operations : \E s \in Seq(Operations) : \E e : StoreLeft(n, op, e, s)
      BY <1>4, StoreLeaves
    <2>2. PICK s, e : s \in Seq(Operations) /\ StoreLeft(n, op, e, s)
      BY <2>1
    <2>3. /\ op = Head(todo[n]) /\ todo[n] # <<>> /\ todo' = [todo EXCEPT ![n] = s] /\ op.do = "store"
          /\ Items(todo[n]) = {op} \union Items(Tail(todo[n])) /\ e \in op.entries
      BY <2>2 DEF StoreLeft
    <2>4. ASSUME NEW x \in Items(s)
          PROVE  About(x, h)
      <3>1. CASE x \in Items(Tail(todo[n]))
        BY <2>3, <3>1, AllAbout
      <3>2. CASE x \notin Items(Tail(todo[n]))
        <4>1. /\ op.entries # {e}
              /\ x = [do |-> "store", kind |-> op.kind, key |-> op.key, entries |-> op.entries \ {e}]
          BY <2>2, <2>4, <3>2 DEF StoreLeft
        <4>2. op.kind # "mutual" /\ op.key = h
          BY <2>3, <4>1 DEF About
        <4> QED BY <4>1, <4>2 DEF About
      <3> QED BY <3>1, <3>2
    <2>5. todo'[n] = s /\ \A x \in Managers \ {n} : todo'[x] = todo[x]
      BY <2>3, TodoChanges
    <2>6. UNCHANGED <<world, inbox, torn>>
      BY <1>4, ChangeFrame
    <2> QED BY <2>3, <2>4, <2>5, <2>6
  <1> QED BY <1>1, <1>2, <1>3, <1>4 DEF Reader, Passes, Steps

\* What a reader does to the caches, it does to the guild its handler is about.
Untouched(g) ==
    /\ guilds'[g] = guilds[g] /\ (g \in emojis' <=> g \in emojis)
    /\ \A k \in Kinds : parts'[k][g] = parts[k][g]
    /\ lost \subseteq lost'
    /\ \A u \in Users : u \notin lost' => (g \in Held("mutual", u)' => g \in Held("mutual", u))
    /\ \A kind, u : <<kind, g, u>> \in dedupe' => <<kind, g, u>> \in dedupe

\* A step that leaves the two-level maps alone.
LEMMA SameUntouched ==
    ASSUME NEW g, guilds'[g] = guilds[g], g \in emojis' <=> g \in emojis, UNCHANGED <<parts, lost>>,
           \A kind, u : <<kind, g, u>> \in dedupe' => <<kind, g, u>> \in dedupe
    PROVE  Untouched(g)
  <1>1. \A u : Held("mutual", u)' = Held("mutual", u)
    BY DEF Held
  <1> QED BY <1>1 DEF Untouched

\* A step about one guild leaves the others as they are.
LEMMA TouchesOne ==
    ASSUME TInv, NEW n \in Managers, Reader(n), ~Handle(n), NEW h \in Guilds, About(Head(todo[n]), h),
           NEW g \in Guilds, g # h
    PROVE  Untouched(g)
  <1>1. PICK op : op = Head(todo[n])
    OBVIOUS
  <1>2. guilds \in [Guilds -> Int \union {None}]
    BY DEF TInv, CachesOK
  <1>3. CASE StoreGuild(n) \/ Increment(n) \/ Decrement(n)
    <2>1. op.do \in {"guild", "increment", "decrement"}
      BY <1>1, <1>3 DEF StoreGuild, Increment, Decrement, Doing
    <2>2. op.guild = h
      BY <1>1, <2>1 DEF About
    <2>3. guilds' = guilds \/ \E c : guilds' = [guilds EXCEPT ![h] = c]
      <3>1. CASE StoreGuild(n)
        BY <1>1, <2>2, <3>1 DEF StoreGuild
      <3>2. CASE Increment(n)
        BY <1>1, <2>2, <3>2 DEF Increment
      <3>3. CASE Decrement(n)
        BY <1>1, <2>2, <3>3 DEF Decrement
      <3> QED BY <1>3, <3>1, <3>2, <3>3
    <2>4. UNCHANGED <<emojis, parts, lost, dedupe>>
      BY <1>3 DEF StoreGuild, Increment, Decrement
    <2>5. guilds'[g] = guilds[g]
      BY <1>2, <2>3
    <2> QED BY <2>4, <2>5, SameUntouched
  <1>4. CASE StoreEmojis(n) \/ RemoveEmojis(n)
    <2>1. op.do \in {"emojis", "noEmojis"}
      BY <1>1, <1>4 DEF StoreEmojis, RemoveEmojis, Doing
    <2>2. op.guild = h
      BY <1>1, <2>1 DEF About
    <2>3. UNCHANGED <<guilds, parts, lost, dedupe>> /\ (emojis' = emojis \union {h} \/ emojis' = emojis \ {h})
      BY <1>1, <1>4, <2>2 DEF StoreEmojis, RemoveEmojis
    <2> QED BY <2>3, SameUntouched
  <1>5. CASE Mark(n) \/ Unmark(n)
    <2>1. op.do \in {"mark", "unmark"}
      BY <1>1, <1>5 DEF Mark, Unmark, Doing
    <2>2. op.dkey[2] = h
      BY <1>1, <2>1 DEF About
    <2>3. UNCHANGED <<guilds, emojis, parts, lost>> /\ dedupe' \subseteq dedupe \union {op.dkey}
      BY <1>1, <1>5 DEF Mark, Unmark
    <2>4. \A kind, u : <<kind, g, u>> # op.dkey
      BY <2>2
    <2> QED BY <2>3, <2>4, SameUntouched
  <1>6. CASE Reference(n) \/ Unreference(n) \/ Load(n) \/ ReadGuild(n) \/ ReadPart(n) \/ Rewrite(n) \/ Check(n)
    <2>1. UNCHANGED <<guilds, emojis, parts, lost, dedupe>>
      BY <1>6 DEF Reference, Unreference, Load, ReadGuild, ReadPart, Rewrite, Check, state
    <2> QED BY <2>1, SameUntouched, SMTT(60)
  <1>7. CASE Store(n) \/ Drop(n)
    <2>1. /\ UNCHANGED <<guilds, emojis, dedupe>> /\ lost \subseteq lost' /\ hand[n] # NoHand
      BY <1>7, ChangeFrame, ZenonT(60) DEF Store, Drop
    <2>2. MapOp(op) /\ hand[n].entry \in op.entries /\ op.do \in {"store", "drop"}
      BY <1>1, <2>1, HoldsTyped
    <2>3. ASSUME NEW k \in Kinds
          PROVE  parts'[k][g] = parts[k][g]
      <3>1. k \in Tables /\ g \in Keys(k) /\ k # "mutual"
        BY DEF Kinds, Tables, Keys
      <3>2. ~(op.kind = k /\ op.key = g)
        BY <1>1, <2>2, <3>1 DEF About
      <3> QED BY <1>1, <1>7, <3>1, <3>2, ChangeMap
    <2>4. ASSUME NEW u \in Users, u \notin lost', g \in Held("mutual", u)'
          PROVE  g \in Held("mutual", u)
      <3>1. "mutual" \in Tables /\ u \in Keys("mutual")
        BY TableKinds
      <3>2. op.kind = "mutual" => hand[n].entry = h
        BY <1>1, <2>2 DEF About
      <3>3. Held("mutual", u)' =
              IF op.kind = "mutual" /\ op.key = u
              THEN IF Doing(n, "store") THEN Held("mutual", u) \union {hand[n].entry}
                                        ELSE Held("mutual", u) \ {hand[n].entry}
              ELSE Held("mutual", u)
        BY <1>1, <1>7, <2>4, <3>1, ChangeMap
      <3> QED BY <2>4, <3>2, <3>3
    <2> QED BY <2>1, <2>3, <2>4, SMTT(60) DEF Untouched
  <1> QED BY <1>3, <1>4, <1>5, <1>6, <1>7 DEF Reader

\* A reader keeps what only it has read.
LEMMA BeforeStays ==
    ASSUME TInv, NEW n \in Managers, Reader(n), NEW x \in Managers \ {n}
    PROVE  before'[x] = before[x]
  <1>1. CASE Handle(n) \/ Load(n) \/ Check(n)
    BY <1>1 DEF Handle, Load, Check
  <1>2. CASE Store(n) \/ Drop(n)
    BY <1>2, ChangeFrame
  <1>3. CASE Passes(n)
    BY <1>3, PassesSteps, BeforeChanges
  <1>4. CASE ReadGuild(n)
    BY <1>4 DEF ReadGuild, TInv, BeforeOK
  <1>5. CASE ReadPart(n)
    <2>1. PICK k : k = PartOf[Head(todo[n]).do]
      OBVIOUS
    <2>2. PICK S : S = parts[k][Head(todo[n]).guild]
      BY SMTT(60)
    <2>3. \/ before' = [before EXCEPT ![n] = None]
          \/ before' = before
          \/ before' = [before EXCEPT ![n][k] = S]
      BY <1>5, <2>1, <2>2 DEF ReadPart
    <2> QED BY <2>3 DEF TInv, BeforeOK
  <1>6. CASE Rewrite(n)
    BY <1>6 DEF Rewrite, TInv, BeforeOK
  <1> QED BY <1>1, <1>2, <1>3, <1>4, <1>5, <1>6 DEF Reader, Passes

\* The handler of another guild is aside.
LEMMA ReaderAside ==
    ASSUME TInv, HandlersOK, OrderOK, NEW n \in Managers, Reader(n), ~Handle(n),
           NEW h \in Guilds, About(Head(todo[n]), h),
           NEW m \in Managers, NEW g \in Guilds, g # h, Known(m, g)
    PROVE  Aside(m, g)
  <1>1. /\ todo[n] # <<>> /\ Head(todo[n]) \in Items(todo[n])
        /\ \A op \in Items(todo'[n]) : About(op, h)
        /\ UNCHANGED <<world, inbox, torn>> /\ \A x \in Managers \ {n} : todo'[x] = todo[x]
    BY StaysAbout
  <1>2. Untouched(g)
    BY TouchesOne
  <1>3. Quiet(m, g) /\ unseen' = unseen
    BY <1>1, InsideQuiet
  <1>4. m = n => \A op : About(op, g) => ~Has(m, op) /\ ~Has(m, op)'
    <2>1. \A op \in Items(todo[n]) : About(op, g) => g = h
      BY <1>1, AllAbout
    <2>2. \A op \in Items(todo'[n]) : About(op, g) => g = h
      BY <1>1, AboutOne
    <2> QED BY <2>1, <2>2 DEF Has
  <1>5. m # n => (\A op : Has(m, op)' <=> Has(m, op)) /\ before'[m] = before[m]
    BY <1>1, BeforeStays DEF Has
  <1>6. \A k \in {"role", "member"} : parts'[k][g] = parts[k][g]
    BY <1>2 DEF Untouched, Kinds
  <1>7. Held("member", g)' = Held("member", g)
    BY <1>6 DEF Held
  <1> QED BY <1>2, <1>3, <1>4, <1>5, <1>6, <1>7 DEF Aside, Untouched

\* A handler begins, of another manager or about another guild.
LEMMA HandleAside ==
    ASSUME TInv, NEW n \in Managers, Handle(n), NEW m \in Managers, NEW g \in Guilds,
           n # m \/ Head(inbox[n]).guild # g, Known(m, g)
    PROVE  Aside(m, g)
  <1>1. PICK event \in Events : event = Head(inbox[n])
    BY DEF TInv, InboxOK, Handle
  <1>2. PICK s : s = Handler(event)
    OBVIOUS
  <1>3. /\ todo[n] = <<>> /\ todo' = [todo EXCEPT ![n] = s] /\ inbox' = [inbox EXCEPT ![n] = Tail(inbox[n])]
        /\ UNCHANGED <<world, before, state>>
    BY <1>1, <1>2 DEF Handle
  <1>4. Tells(s, event, event.guild) /\ event.guild \in Guilds
    BY <1>2, HandlerTells
  <1>5. \A op \in Items(s) : About(op, event.guild)
    BY <1>4, Zenon DEF Tells
  <1>6. todo'[n] = s /\ \A x \in Managers \ {n} : todo'[x] = todo[x]
    BY <1>3, TodoChanges
  <1>7. /\ UNCHANGED <<guilds, emojis, parts, dedupe, lost>> /\ unseen' = unseen
        /\ Held("member", g)' = Held("member", g) /\ \A u : Held("mutual", u)' = Held("mutual", u)
    BY <1>3 DEF state, world, Held
  <1>8. CASE n # m
    <2>1. inbox'[m] = inbox[m]
      BY <1>3, <1>8 DEF TInv, InboxOK
    <2>2. Quiet(m, g)
      BY <1>3, <2>1, InsideQuiet
    <2>3. \A op : Has(m, op)' <=> Has(m, op)
      BY <1>6, <1>8 DEF Has
    <2> QED BY <1>3, <1>7, <2>2, <2>3 DEF Aside
  <1>9. CASE n = m /\ event.guild # g
    <2>1. Quiet(m, g)
      BY <1>1, <1>9, HandleQuiet DEF Known
    <2>2. \A op : About(op, g) => ~Has(m, op) /\ ~Has(m, op)'
      <3>1. \A op \in Items(s) : About(op, g) => g = event.guild
        BY <1>5, AboutOne
      <3> QED BY <1>3, <1>6, <1>9, <3>1, NothingItems DEF Has
    <2> QED BY <1>3, <1>7, <2>1, <2>2 DEF Aside
  <1> QED BY <1>1, <1>8, <1>9

-----------------------------------------------------------------------------
(* Members: the steps of the guild's own manager                            *)

\* A step that goes over the first operation of the handler.
Over(m, op) ==
    /\ op \in Operations /\ op = Head(todo[m]) /\ todo[m] # <<>>
    /\ Items(todo[m]) = {op} \union Items(todo'[m])
    /\ \A y \in Items(todo'[m]) : Precedes(op, y)
    /\ UNCHANGED <<world, inbox>>

\* Those are the steps that pass over an operation.
LEMMA StepsOver ==
    ASSUME TInv, OrderOK, NEW m \in Managers, Steps(m), todo'[m] # <<>> \/ ~Check(m) \/ Head(todo[m]).dkey \notin dedupe
    PROVE  Over(m, Head(todo[m]))
  <1>1. /\ todo[m] # <<>> /\ todo[m] \in Seq(Operations) /\ UNCHANGED <<world, inbox>>
        /\ Orderly(todo[m]) /\ Single(todo[m])
    BY StepsTodo DEF TInv, TodoOK, OrderOK
  <1>2. PICK op \in Operations : op = Head(todo[m])
    BY <1>1
  <1>3. PICK s : s = Tail(todo[m])
    OBVIOUS
  <1>4. Items(todo[m]) = {op} \union Items(s) /\ \A y \in Items(s) : Precedes(op, y)
    BY <1>1, <1>2, <1>3, SingleTail
  <1>5. todo' = [todo EXCEPT ![m] = s]
    <2>1. CASE todo' = [todo EXCEPT ![m] = <<>>] /\ op.do = "check" /\ op.dkey \in dedupe
      <3>1. PICK t : t = <<>> /\ todo' = [todo EXCEPT ![m] = t]
        BY <2>1
      <3>2. todo'[m] = <<>>
        BY <3>1, TodoChanges
      <3>3. Check(m)
        BY <1>2, <2>1 DEF Steps, Passes, Reference, Unreference, StoreGuild, Increment, Decrement,
           StoreEmojis, RemoveEmojis, Mark, Unmark, Drop, ReadGuild, ReadPart, PartOf, Doing
      <3> QED BY <1>2, <2>1, <3>2, <3>3
    <2> QED BY <1>2, <1>3, <2>1, StepsTodo
  <1>6. todo'[m] = s
    BY <1>5, TodoChanges
  <1> QED BY <1>1, <1>2, <1>4, <1>6 DEF Over

\* What is left to do.
LEMMA OverHas ==
    ASSUME NEW m, NEW op, Over(m, op)
    PROVE  /\ \A x : Has(m, x) <=> x = op \/ Has(m, x)'
           /\ \A x : Has(m, x)' => Precedes(op, x)
  BY DEF Over, Has

\* Keys: what marks and unmarks does so for its own event.
LEMMA OverKeys ==
    ASSUME NEW m, NEW g, NEW op, Over(m, op), Quiet(m, g), KeysOK(m, g),
           dedupe' \subseteq dedupe \/ (op.do = "mark" /\ dedupe' = dedupe \union {op.dkey}),
           op.do = "unmark" => op.dkey \notin dedupe'
    PROVE  KeysOK(m, g)'
  <1>1. unseen' = unseen /\ op \in Operations
    BY DEF Over, world
  <1>2. (\A x : Has(m, x) <=> x = op \/ Has(m, x)') /\ \A x : Has(m, x)' => Precedes(op, x)
    BY OverHas
  <1>3. ASSUME NEW u, NEW kind
        PROVE  /\ <<kind, g, u>> \in dedupe' =>
                     <<kind, g, u>> \in dedupe \/ Has(m, KeyOp("mark", kind, g, u))
               /\ Has(m, KeyOp("unmark", kind, g, u)) =>
                     Has(m, KeyOp("unmark", kind, g, u))' \/ <<kind, g, u>> \notin dedupe'
               /\ Has(m, KeyOp("check", kind, g, u))' =>
                     Has(m, KeyOp("check", kind, g, u)) /\ (<<kind, g, u>> \in dedupe' => <<kind, g, u>> \in dedupe)
               /\ Has(m, KeyOp("mark", kind, g, u))' => Has(m, KeyOp("mark", kind, g, u))
    <2>1. PICK check, mark, unmark :
             /\ check = KeyOp("check", kind, g, u) /\ mark = KeyOp("mark", kind, g, u)
             /\ unmark = KeyOp("unmark", kind, g, u)
      OBVIOUS
    <2>2. /\ check.do = "check" /\ mark.do = "mark" /\ unmark.do = "unmark"
          /\ unmark.dkey = <<kind, g, u>>
      BY <2>1 DEF KeyOp
    <2>3. op.do = "mark" /\ op.dkey = <<kind, g, u>> => op = mark
      <3> HAVE op.do = "mark" /\ op.dkey = <<kind, g, u>>
      <3>1. PICK k \in {"add", "remove"}, h \in Guilds, v \in Users : op = KeyOp("mark", k, h, v)
        BY <1>1, OperationForm
      <3>2. <<k, h, v>> = <<kind, g, u>>
        BY <3>1 DEF KeyOp
      <3> QED BY <2>1, <3>1, <3>2
    <2>4. <<kind, g, u>> \in dedupe' => <<kind, g, u>> \in dedupe \/ Has(m, mark)
      BY <1>2, <2>3
    <2>5. Has(m, unmark) => Has(m, unmark)' \/ <<kind, g, u>> \notin dedupe'
      BY <1>2, <2>2
    <2>6. op.do = "mark" => ~Has(m, check)'
      <3>1. op.do = "mark" => Rank(op) = 2 /\ Rank(check) = 1
        BY <2>2, Ranks
      <3> QED BY <1>2, <3>1 DEF Precedes
    <2>7. Has(m, check)' => Has(m, check) /\ (<<kind, g, u>> \in dedupe' => <<kind, g, u>> \in dedupe)
      BY <1>2, <2>6
    <2>8. Has(m, mark)' => Has(m, mark)
      BY <1>2
    <2> QED BY <2>1, <2>4, <2>5, <2>7, <2>8 DEF Has, KeyOp
  <1> QED BY <1>1, <1>3, KeysKeep

\* What neither stores nor removes.
LEMMA OverStoring ==
    ASSUME NEW m, NEW op, Over(m, op), op.do \notin {"store", "drop"}
    PROVE  /\ \A k, key, e : Storing(m, k, key, e)' <=> Storing(m, k, key, e)
           /\ \A k, key, e : Has(m, DropOp(k, key, e))' <=> Has(m, DropOp(k, key, e))
  <1>1. ASSUME NEW k, NEW key, NEW e
        PROVE  Has(m, DropOp(k, key, e))' <=> Has(m, DropOp(k, key, e))
    <2>0. PICK x : x = DropOp(k, key, e)
      OBVIOUS
    <2>1. x = DropOp(k, key, e) /\ x.do = "drop"
      BY <2>0 DEF DropOp
    <2>2. Has(m, x)' <=> Has(m, x)
      BY <2>1, OverHas
    <2> QED BY <2>1, <2>2 DEF Has, DropOp
  <1>2. \A k, key, e : Storing(m, k, key, e)' <=> Storing(m, k, key, e)
    BY DEF Over, Storing, StoreOf
  <1> QED BY <1>1, <1>2

\* Mutual guilds, unless they are what changes.
LEMMA OverMutuals ==
    ASSUME NEW m, NEW g, NEW op, Over(m, op), op.do \notin {"store", "drop"}, Quiet(m, g), MutualsOK(m, g),
           UNCHANGED <<parts, lost>>
    PROVE  MutualsOK(m, g)'
  <1>1. unseen' = unseen /\ \A u : Held("mutual", u)' = Held("mutual", u)
    BY DEF Over, world, Held
  <1>2. /\ \A k, key, e : Storing(m, k, key, e)' <=> Storing(m, k, key, e)
        /\ \A k, key, e : Has(m, DropOp(k, key, e))' <=> Has(m, DropOp(k, key, e))
    BY OverStoring
  <1> QED BY <1>1, <1>2, MutualsKeep

\* Members, unless they are what changes.
LEMMA OverHeld ==
    ASSUME NEW m, NEW g, NEW op, Over(m, op), op.do \notin {"store", "drop"}, Quiet(m, g), HeldOK(m, g),
           UNCHANGED parts,
           \A u \in Entities.member : WritingBack(m, g, u)' =>
              WritingBack(m, g, u) \/ (u \in Held("member", g) /\ ~Has(m, DropOp("member", g, u)))
    PROVE  HeldOK(m, g)'
  <1>1. unseen' = unseen /\ Held("member", g)' = Held("member", g)
    BY DEF Over, world, Held
  <1>2. /\ \A k, key, e : Storing(m, k, key, e)' <=> Storing(m, k, key, e)
        /\ \A k, key, e : Has(m, DropOp(k, key, e))' <=> Has(m, DropOp(k, key, e))
    BY OverStoring
  <1> QED BY <1>1, <1>2, HeldKeep

\* The parts an update reads.
LEMMA OverWhole ==
    ASSUME NEW m, NEW g \in Guilds, NEW op, Over(m, op), op.do \notin {"store", "drop"}, Quiet(m, g),
           WholeOK(m, g), UNCHANGED parts,
           op.do = "emojis" /\ op.guild = g => g \in emojis',
           g \in emojis => g \in emojis' \/ Has(m, Op("emojis", g))'
    PROVE  WholeOK(m, g)'
  <1>1. unseen' = unseen /\ \A k, key, e : Storing(m, k, key, e)' <=> Storing(m, k, key, e)
    BY OverStoring DEF Over, world
  <1>2. \A k : SomeOf(m, g, k) => SomeOf(m, g, k)'
    BY <1>1 DEF SomeOf
  <1>3. PICK x : x = Op("emojis", g) /\ x.do = "emojis" /\ x.guild = g
    BY DEF Op
  <1>4. Has(m, x) => Has(m, x)' \/ g \in emojis'
    BY <1>3, OverHas
  <1>5. g \in emojis \/ Has(m, Op("emojis", g)) => g \in emojis' \/ Has(m, Op("emojis", g))'
    BY <1>3, <1>4 DEF Has, Op
  <1> QED BY <1>1, <1>2, <1>5, WholeKeeps

\* What may be kept of the count where all of the guild is known.
LEMMA CountsBy ==
    ASSUME NEW m, NEW g, Quiet(m, g), unseen' = unseen, CountsOK(m, g),
           /\ unseen[g] = {} /\ Synced(m, g) /\ Synced(m, g)' /\ CountOK(m, g)
           /\ IsFiniteSet(Present(m, g)) /\ Present(m, g)' = Present(m, g)
           => CountOK(m, g)'
    PROVE  CountsOK(m, g)'
  <1> SUFFICES ASSUME unseen[g] = {}
               PROVE  IsFiniteSet(Present(m, g))' /\ (Synced(m, g)' => CountOK(m, g)')
    BY DEF CountsOK
  <1>1. Present(m, g)' = Present(m, g) /\ IsFiniteSet(Present(m, g))
    BY PresentStays DEF CountsOK
  <1>2. Synced(m, g)' => Synced(m, g)
    BY DEF Quiet
  <1> QED BY <1>1, <1>2 DEF CountsOK

\* Counts, unless they are what changes.
LEMMA OverCounts ==
    ASSUME NEW m, NEW g, NEW op, Over(m, op), Quiet(m, g), CountsOK(m, g),
           op.do \notin {"guild", "increment", "decrement", "rewrite", "readGuild"},
           guilds'[g] = guilds[g],
           unseen[g] = {} /\ Synced(m, g) /\ UsesCount(m, g) /\ before[m] # None =>
              before'[m] # None /\ before'[m].count = before[m].count
    PROVE  CountsOK(m, g)'
  <1>1. unseen' = unseen
    BY DEF Over, world
  <1>2. \A x : x.do \in {"guild", "increment", "decrement", "rewrite", "readGuild"} => (Has(m, x)' <=> Has(m, x))
    BY OverHas
  <1>3. Synced(m, g)' => Synced(m, g)
    BY DEF Quiet
  <1> QED BY <1>1, <1>2, <1>3, CountsKeep

\* After what counts, the handler only stores and removes.
LEMMA OverLate ==
    ASSUME NEW m, NEW op, Over(m, op), Rank(op) = 6
    PROVE  /\ \A y \in Items(todo'[m]) :
                 y.do \notin {"readGuild", "increment", "decrement", "rewrite", "guild", "noEmojis"}
           /\ \A y \in Items(todo[m]) \ {op} :
                 y.do \notin {"readGuild", "increment", "decrement", "rewrite", "guild", "noEmojis"}
  <1>1. \A y \in Items(todo'[m]) : Rank(y) = 7
    BY Ranks DEF Over, Precedes
  <1> QED BY <1>1, Ranks DEF Over

\* The count is cached, and there is nothing left that changes it.
LEMMA CountIsCached ==
    ASSUME NEW m, NEW g, NEW n, Cardinality(Present(m, g)) = n, Present(m, g)' = Present(m, g),
           guilds'[g] = n,
           \A y \in Items(todo'[m]) : y.do \notin {"increment", "decrement", "rewrite"},
           \A y \in Items(todo'[m]) : y.do = "guild" /\ y.guild = g => y.count = n
    PROVE  CountOK(m, g)'
  <1>1. PICK x, y : x = Op("increment", g) /\ y = Op("decrement", g)
    OBVIOUS
  <1>2. x.do = "increment" /\ y.do = "decrement"
    BY <1>1 DEF Op
  <1>3. ~Has(m, x)' /\ ~Has(m, y)'
    BY <1>2 DEF Has
  <1>4. ~Has(m, Op("increment", g))' /\ ~Has(m, Op("decrement", g))'
    BY <1>1, <1>3 DEF Has, Op
  <1>5. Cardinality(Present(m, g))' = n
    OBVIOUS
  <1>6. Target(m, g)' = n
    BY <1>4, <1>5 DEF Target
  <1> QED BY <1>5, <1>6 DEF CountOK, UsesCount

\* The count a handler was sent, or has read, is stored.
LEMMA StoreGuildCounts ==
    ASSUME TInv, OrderOK, NEW m \in Managers, NEW g \in Guilds, NEW op, Over(m, op), StoreGuild(m),
           op.guild = g, Quiet(m, g), CountsOK(m, g)
    PROVE  CountsOK(m, g)'
  <1>1. unseen' = unseen /\ op = Head(todo[m]) /\ op.do = "guild" /\ op \in Items(todo[m])
    BY DEF Over, world, StoreGuild, Doing
  <1>2. guilds'[g] = op.count
    BY <1>1 DEF StoreGuild, TInv, CachesOK
  <1>3. \A y \in Items(todo[m]) : y.do \in WriteDos
    BY <1>1 DEF OrderOK, Single
  <1>4. \A y \in Items(todo'[m]) : y \in Items(todo[m])
    BY DEF Over
  <1>5. ASSUME CountOK(m, g), Present(m, g)' = Present(m, g)
        PROVE  CountOK(m, g)'
    <2>1. PICK n : n = Cardinality(Present(m, g))
      OBVIOUS
    <2>2. \A y \in Items(todo[m]) : y.do = "guild" /\ y.guild = g => y.count = n
      BY <1>5, <2>1 DEF CountOK
    <2>3. guilds'[g] = n
      BY <1>1, <1>2, <2>2
    <2>4. \A y \in Items(todo'[m]) : y.do \notin {"increment", "decrement", "rewrite"}
      BY <1>3, <1>4 DEF WriteDos
    <2>5. \A y \in Items(todo'[m]) : y.do = "guild" /\ y.guild = g => y.count = n
      BY <1>4, <2>2
    <2> QED BY <1>5, <2>1, <2>3, <2>4, <2>5, CountIsCached
  <1> QED BY <1>1, <1>5, CountsBy

\* A member is counted.
LEMMA MoveCounts ==
    ASSUME TInv, NEW m \in Managers, NEW g \in Guilds, NEW op, Over(m, op), Increment(m) \/ Decrement(m),
           op.guild = g, Quiet(m, g), CountsOK(m, g)
    PROVE  CountsOK(m, g)'
  <1>1. /\ unseen' = unseen /\ op = Head(todo[m]) /\ op \in Items(todo[m]) /\ op \in Operations
        /\ Increment(m) => op.do = "increment"
        /\ Decrement(m) => op.do = "decrement"
    BY DEF Over, world, Increment, Decrement, Doing
  <1>2. op = Op(op.do, g)
    BY <1>1, OperationForm
  <1>3. /\ \A y \in Items(todo'[m]) :
              y.do \notin {"readGuild", "increment", "decrement", "rewrite", "guild", "noEmojis"}
        /\ \A y \in Items(todo[m]) \ {op} :
              y.do \notin {"readGuild", "increment", "decrement", "rewrite", "guild", "noEmojis"}
    <2>1. Rank(op) = 6
      BY <1>1, Ranks
    <2> QED BY <2>1, OverLate
  <1>4. ~Has(m, Op("readGuild", g)) /\ ~StoresCount(m, g) /\ UsesCount(m, g)
    <2>1. Op("readGuild", g).do = "readGuild" /\ op.do \in {"increment", "decrement"}
      BY <1>1 DEF Op
    <2>2. ~Has(m, Op("readGuild", g))
      BY <1>3, <2>1 DEF Has
    <2>3. ~StoresCount(m, g)
      BY <1>3, <2>1 DEF StoresCount
    <2> QED BY <1>1, <2>1, <2>2, <2>3 DEF UsesCount
  <1>5. ASSUME CountOK(m, g), Present(m, g)' = Present(m, g), IsFiniteSet(Present(m, g))
        PROVE  CountOK(m, g)'
    <2>1. PICK n \in Nat : n = Cardinality(Present(m, g))
      <3>1. Cardinality(Present(m, g)) \in Nat
        BY <1>5, FS_CardinalityType
      <3> QED BY <3>1
    <2>2. before[m] # None /\ before[m].count = Target(m, g) /\ guilds[g] = Target(m, g)
      BY <1>4, <1>5 DEF CountOK
    <2>3. CASE Increment(m)
      <3>1. Target(m, g) = n - 1
        BY <1>1, <1>2, <2>1, <2>3 DEF Target, Has
      <3>2. guilds' = [guilds EXCEPT ![g] = before[m].count + 1]
        BY <1>1, <2>2, <2>3 DEF Increment
      <3>3. guilds'[g] = n
        BY <2>2, <3>1, <3>2 DEF TInv, CachesOK
      <3> QED BY <1>3, <1>5, <2>1, <3>3, CountIsCached
    <2>4. CASE Decrement(m)
      <3>1. Op("increment", g).do = "increment"
        BY DEF Op
      <3>2. ~Has(m, Op("increment", g))
        BY <1>1, <1>3, <2>4, <3>1 DEF Has
      <3>3. Target(m, g) = n + 1
        BY <1>1, <1>2, <2>1, <2>4, <3>2 DEF Target, Has
      <3>4. guilds[g] # None
        BY <2>2, <3>3, ConstantsAssumption
      <3>5. guilds' = [guilds EXCEPT ![g] = before[m].count - 1]
        BY <1>1, <2>2, <2>4, <3>4 DEF Decrement
      <3>6. guilds'[g] = n
        BY <2>2, <3>3, <3>5 DEF TInv, CachesOK
      <3> QED BY <1>3, <1>5, <2>1, <3>6, CountIsCached
    <2> QED BY <2>3, <2>4
  <1> QED BY <1>1, <1>5, CountsBy

\* The count is read.
LEMMA ReadGuildCounts ==
    ASSUME TInv, OrderOK, NEW m \in Managers, NEW g \in Guilds, NEW op, Over(m, op), ReadGuild(m),
           op.guild = g, Quiet(m, g), CountsOK(m, g)
    PROVE  CountsOK(m, g)'
  <1>1. unseen' = unseen /\ op = Head(todo[m]) /\ op.do = "readGuild" /\ op \in Items(todo[m])
    BY DEF Over, world, ReadGuild, Doing
  <1>2. \A y \in Items(todo[m]) : y.do # "guild"
    BY <1>1 DEF OrderOK, Single, WriteDos
  <1>3. guilds' = guilds
    BY DEF ReadGuild, state
  <1>4. \A x : x.do \in {"guild", "increment", "decrement", "rewrite"} => (Has(m, x)' <=> Has(m, x))
    BY <1>1, OverHas
  <1>5. ASSUME CountOK(m, g), Present(m, g)' = Present(m, g), IsFiniteSet(Present(m, g))
        PROVE  CountOK(m, g)'
    <2>1. PICK n \in Nat : n = Cardinality(Present(m, g))
      <3>1. Cardinality(Present(m, g)) \in Nat
        BY <1>5, FS_CardinalityType
      <3> QED BY <3>1
    <2>2. guilds[g] = Target(m, g) /\ Target(m, g) \in Int
      BY <1>2, <1>5, <2>1 DEF CountOK, StoresCount, Target
    <2>3. PICK x, y : x = Op("increment", g) /\ y = Op("decrement", g)
      OBVIOUS
    <2>4. (Has(m, x)' <=> Has(m, x)) /\ (Has(m, y)' <=> Has(m, y))
      <3>1. x.do = "increment" /\ y.do = "decrement"
        BY <2>3 DEF Op
      <3> QED BY <1>4, <3>1
    <2>5. /\ Has(m, Op("increment", g))' <=> Has(m, Op("increment", g))
          /\ Has(m, Op("decrement", g))' <=> Has(m, Op("decrement", g))
      BY <2>3, <2>4 DEF Has, Op
    <2>6. Target(m, g)' = Target(m, g)
      BY <1>5, <2>5 DEF Target
    <2>7. PICK r : r = [count |-> guilds[g], role |-> {}, channel |-> {}, member |-> {}]
      OBVIOUS
    <2>8. r # None /\ r.count = guilds[g]
      <3>1. r \in Reads
        BY <2>2, <2>7 DEF Reads
      <3> QED BY <2>7, <3>1, ConstantsAssumption DEF Reads
    <2>9. guilds[g] # None
      BY <2>2, ConstantsAssumption
    <2>10. before' = [before EXCEPT ![m] = r]
      BY <1>1, <2>7, <2>9 DEF ReadGuild
    <2>11. before'[m] = r
      BY <2>10 DEF TInv, BeforeOK
    <2>12. \A y2 \in Items(todo'[m]) : y2.do # "guild"
      BY <1>2 DEF Over
    <2> QED BY <1>3, <2>2, <2>6, <2>8, <2>11, <2>12 DEF CountOK
  <1> QED BY <1>1, <1>5, CountsBy

\* A step of a reader that has nothing to do with Discord.
LEMMA OverQuiet ==
    ASSUME NEW m, NEW g \in Guilds, NEW op, Over(m, op), Known(m, g)
    PROVE  Quiet(m, g) /\ Known(m, g)'
  <1>1. UNCHANGED world /\ inbox'[m] = inbox[m]
    BY DEF Over
  <1>2. Quiet(m, g) /\ unseen' = unseen
    BY <1>1, InsideQuiet
  <1> QED BY <1>2 DEF Quiet, Known

\* What is written back stays what it was while it is not read again.
LEMMA OverWriting ==
    ASSUME NEW m, NEW g, NEW op, Over(m, op), op.do # "readGuild", NEW u, WritingBack(m, g, u)',
           before'[m] = None \/ (before[m] # None /\ before'[m].member = before[m].member)
    PROVE  WritingBack(m, g, u)
  <1>1. PICK y \in Items(todo'[m]) : y.do = "rewrite" /\ y.guild = g
    BY DEF WritingBack
  <1>2. y \in Items(todo[m])
    BY DEF Over
  <1>3. PICK x : x = Op("readGuild", g)
    OBVIOUS
  <1>4. x.do = "readGuild"
    BY <1>3 DEF Op
  <1>5. Has(m, x)' <=> Has(m, x)
    BY <1>4, OverHas
  <1>6. Has(m, Op("readGuild", g))' <=> Has(m, Op("readGuild", g))
    BY <1>3, <1>5 DEF Has, Op
  <1> QED BY <1>1, <1>2, <1>6 DEF WritingBack

\* The operations on a single map.
LEMMA PassesOwn ==
    ASSUME TInv, OrderOK, NEW m \in Managers, Passes(m), NEW g \in Guilds, About(Head(todo[m]), g),
           GuildOK(m, g)
    PROVE  GuildOK(m, g)'
  <1>1. PICK op : op = Head(todo[m])
    OBVIOUS
  <1>2. /\ todo[m] # <<>> /\ UNCHANGED <<parts, lost>>
        /\ op.do \in {"ref", "unref", "guild", "increment", "decrement", "emojis",
                      "noEmojis", "mark", "unmark"}
        /\ before' = before \/ before' = [before EXCEPT ![m] = None]
    BY <1>1, PassesSteps
  <1>3. Over(m, op) /\ op \in Operations
    <2>1. Steps(m) /\ ~Check(m)
      <3>1. ~Check(m)
        BY <1>1, <1>2 DEF Check, Doing
      <3> QED BY <3>1 DEF Steps
    <2> QED BY <1>1, <2>1, StepsOver DEF Over
  <1>4. /\ Known(m, g) /\ KeysOK(m, g) /\ HeldOK(m, g) /\ MutualsOK(m, g) /\ WholeOK(m, g) /\ CountsOK(m, g)
        /\ Quiet(m, g) /\ Known(m, g)'
    BY <1>3, OverQuiet DEF GuildOK
  <1>5. op.do \notin {"mark", "unmark"} => op.guild = g
    BY <1>1, <1>2 DEF About
  <1>6. KeysOK(m, g)'
    <2>1. CASE Mark(m)
      <3>1. op.do = "mark" /\ dedupe' = dedupe \union {op.dkey}
        BY <1>1, <2>1 DEF Mark, Doing
      <3> QED BY <1>3, <1>4, <3>1, OverKeys
    <2>2. CASE Unmark(m)
      <3>1. dedupe' = dedupe \ {op.dkey}
        BY <1>1, <2>2 DEF Unmark
      <3> QED BY <1>3, <1>4, <3>1, OverKeys
    <2>3. CASE ~Mark(m) /\ ~Unmark(m)
      <3>1. op.do # "unmark" /\ dedupe' = dedupe
        BY <1>1, <2>3 DEF Passes, Reference, Unreference, StoreGuild, Increment, Decrement,
           StoreEmojis, RemoveEmojis, Doing
      <3> QED BY <1>3, <1>4, <3>1, OverKeys
    <2> QED BY <2>1, <2>2, <2>3
  <1>7. MutualsOK(m, g)'
    BY <1>2, <1>3, <1>4, OverMutuals
  <1>8. HeldOK(m, g)'
    <2>1. before'[m] = None \/ before'[m] = before[m]
      BY <1>2, BeforeChanges
    <2>2. \A u : WritingBack(m, g, u)' => WritingBack(m, g, u)
      <3> SUFFICES ASSUME NEW u, WritingBack(m, g, u)'
                   PROVE  WritingBack(m, g, u)
        OBVIOUS
      <3>1. op.do # "readGuild"
        BY <1>2
      <3>2. before'[m] # None
        BY DEF WritingBack
      <3>3. before'[m] = before[m]
        BY <2>1, <3>2
      <3>4. before[m] # None /\ before'[m].member = before[m].member
        BY <3>2, <3>3
      <3> QED BY <1>3, <3>1, <3>4, OverWriting
    <2> QED BY <1>2, <1>3, <1>4, <2>2, OverHeld
  <1>9. WholeOK(m, g)'
    <2>1. CASE op.do = "emojis"
      <3>1. emojis' = emojis \union {g}
        BY <1>1, <1>5, <2>1 DEF Passes, Reference, Unreference, StoreGuild, Increment, Decrement,
           StoreEmojis, RemoveEmojis, Mark, Unmark, Doing
      <3> QED BY <1>2, <1>3, <1>4, <3>1, OverWhole
    <2>2. CASE op.do = "noEmojis"
      <3>1. PICK x : x = Op("emojis", g)
        OBVIOUS
      <3>2. x.do = "emojis"
        BY <3>1 DEF Op
      <3>3. Has(m, x)
        BY <1>3, <1>5, <2>2, <3>1 DEF OrderOK, Single, Over, Has
      <3>4. Has(m, x)'
        BY <1>3, <2>2, <3>2, <3>3, OverHas
      <3>5. Has(m, Op("emojis", g))'
        BY <3>1, <3>4 DEF Has, Op
      <3> QED BY <1>2, <1>3, <1>4, <2>2, <3>5, OverWhole
    <2>3. CASE op.do \notin {"emojis", "noEmojis"}
      <3>1. emojis' = emojis
        BY <1>1, <2>3 DEF Passes, Reference, Unreference, StoreGuild, Increment, Decrement,
           StoreEmojis, RemoveEmojis, Mark, Unmark, Doing
      <3> QED BY <1>2, <1>3, <1>4, <2>3, <3>1, OverWhole
    <2> QED BY <2>1, <2>2, <2>3
  <1>10. CountsOK(m, g)'
    <2>1. CASE StoreGuild(m)
      <3>1. op.guild = g
        BY <1>1, <1>5, <2>1 DEF StoreGuild, Doing
      <3> QED BY <1>3, <1>4, <2>1, <3>1, StoreGuildCounts
    <2>2. CASE Increment(m) \/ Decrement(m)
      <3>1. op.guild = g
        BY <1>1, <1>5, <2>2 DEF Increment, Decrement, Doing
      <3> QED BY <1>3, <1>4, <2>2, <3>1, MoveCounts
    <2>3. CASE ~StoreGuild(m) /\ ~Increment(m) /\ ~Decrement(m)
      <3>1. /\ op.do \notin {"guild", "increment", "decrement", "rewrite", "readGuild"}
            /\ UNCHANGED <<guilds, before>>
        BY <1>1, <2>3 DEF Passes, Reference, Unreference, StoreEmojis, RemoveEmojis, Mark, Unmark, Doing
      <3> QED BY <1>3, <1>4, <3>1, OverCounts
    <2> QED BY <2>1, <2>2, <2>3
  <1> QED BY <1>4, <1>6, <1>7, <1>8, <1>9, <1>10 DEF GuildOK

\* A key that is not set lets the event pass.
LEMMA CheckOwn ==
    ASSUME TInv, OrderOK, NEW m \in Managers, Check(m), Head(todo[m]).dkey \notin dedupe,
           NEW g \in Guilds, GuildOK(m, g)
    PROVE  GuildOK(m, g)'
  <1>1. PICK op : op = Head(todo[m])
    OBVIOUS
  <1>2. op.do = "check" /\ UNCHANGED <<parts, lost, dedupe, before, guilds, emojis>>
    BY <1>1 DEF Check, Doing, state
  <1>3. Over(m, op)
    BY <1>1, StepsOver DEF Steps
  <1>4. /\ Known(m, g) /\ KeysOK(m, g) /\ HeldOK(m, g) /\ MutualsOK(m, g) /\ WholeOK(m, g) /\ CountsOK(m, g)
        /\ Quiet(m, g) /\ Known(m, g)'
    BY <1>3, OverQuiet DEF GuildOK
  <1>5. KeysOK(m, g)'
    BY <1>2, <1>3, <1>4, OverKeys
  <1>6. MutualsOK(m, g)'
    BY <1>2, <1>3, <1>4, OverMutuals
  <1>7. HeldOK(m, g)'
    <2>1. \A u : WritingBack(m, g, u)' => WritingBack(m, g, u)
      <3> SUFFICES ASSUME NEW u, WritingBack(m, g, u)'
                   PROVE  WritingBack(m, g, u)
        OBVIOUS
      <3>1. before[m] # None
        BY <1>2 DEF WritingBack
      <3>2. before'[m].member = before[m].member /\ op.do # "readGuild"
        BY <1>2
      <3> QED BY <1>3, <3>1, <3>2, OverWriting
    <2> QED BY <1>2, <1>3, <1>4, <2>1, OverHeld
  <1>8. WholeOK(m, g)'
    BY <1>2, <1>3, <1>4, OverWhole
  <1>9. CountsOK(m, g)'
    BY <1>2, <1>3, <1>4, OverCounts
  <1> QED BY <1>4, <1>5, <1>6, <1>7, <1>8, <1>9 DEF GuildOK

\* An update begins to read.
LEMMA ReadGuildOwn ==
    ASSUME TInv, OrderOK, NEW m \in Managers, ReadGuild(m),
           NEW g \in Guilds, About(Head(todo[m]), g), GuildOK(m, g)
    PROVE  GuildOK(m, g)'
  <1>1. PICK op : op = Head(todo[m])
    OBVIOUS
  <1>2. op.do = "readGuild" /\ UNCHANGED <<parts, lost, dedupe, guilds, emojis>>
    BY <1>1 DEF ReadGuild, Doing, state
  <1>3. Over(m, op) /\ op.guild = g
    <2>1. ~Check(m)
      BY <1>1, <1>2 DEF Check, Doing
    <2>2. Over(m, op)
      BY <1>1, <2>1, StepsOver DEF Steps
    <2> QED BY <1>1, <1>2, <2>2 DEF About
  <1>4. /\ Known(m, g) /\ KeysOK(m, g) /\ HeldOK(m, g) /\ MutualsOK(m, g) /\ WholeOK(m, g) /\ CountsOK(m, g)
        /\ Quiet(m, g) /\ Known(m, g)'
    BY <1>3, OverQuiet DEF GuildOK
  <1>5. KeysOK(m, g)'
    BY <1>2, <1>3, <1>4, OverKeys
  <1>6. MutualsOK(m, g)'
    BY <1>2, <1>3, <1>4, OverMutuals
  <1>7. HeldOK(m, g)'
    <2>1. before'[m] = None \/ before'[m].member = {}
      BY DEF ReadGuild, TInv, BeforeOK
    <2>2. \A u : ~WritingBack(m, g, u)'
      BY <2>1 DEF WritingBack
    <2> QED BY <1>2, <1>3, <1>4, <2>2, OverHeld
  <1>8. WholeOK(m, g)'
    BY <1>2, <1>3, <1>4, OverWhole
  <1>9. CountsOK(m, g)'
    BY <1>3, <1>4, ReadGuildCounts
  <1> QED BY <1>4, <1>5, <1>6, <1>7, <1>8, <1>9 DEF GuildOK

\* What a reader has read is lost with a part that is missing, and nothing else is.
LEMMA ReadPartReads ==
    ASSUME TInv, NEW m \in Managers, ReadPart(m), NEW g, Head(todo[m]).guild = g
    PROVE  /\ before'[m] = None => before[m] = None \/ Missing(m)
           /\ before'[m] # None =>
                 /\ before[m] # None /\ before'[m].count = before[m].count
                 /\ \/ before'[m].member = before[m].member
                    \/ /\ Head(todo[m]).do = "readMembers" /\ parts["member"][g] # None
                       /\ before'[m].member = parts["member"][g]
  <1>1. PICK op, k, old : op = Head(todo[m]) /\ k = PartOf[op.do] /\ old = before[m]
    OBVIOUS
  <1>2. op.do \in {"readRoles", "readChannels", "readMembers", "readEmojis"} /\ op.guild = g
    BY <1>1, SMTT(60) DEF ReadPart, PartOf
  <1>3. before' = IF before[m] = None \/ Missing(m) THEN [before EXCEPT ![m] = None]
                  ELSE IF op.do = "readEmojis" \/ parts[k][g] = None THEN before
                  ELSE [before EXCEPT ![m][k] = parts[k][g]]
    BY <1>1, <1>2 DEF ReadPart
  <1>4. TInv'
    BY ReadTyped
  <1>5. old \in Reads \union {None} /\ before'[m] \in Reads \union {None}
    BY <1>1, <1>4 DEF TInv, BeforeOK
  <1>6. CASE before[m] = None \/ Missing(m)
    <2>1. before'[m] = None
      BY <1>3, <1>6 DEF TInv, BeforeOK
    <2> QED BY <1>6, <2>1
  <1>7. CASE ~(before[m] = None \/ Missing(m)) /\ (op.do = "readEmojis" \/ parts[k][g] = None)
    <2>1. before' = before
      BY <1>3, <1>7
    <2> QED BY <1>7, <2>1
  <1>8. CASE ~(before[m] = None \/ Missing(m)) /\ ~(op.do = "readEmojis" \/ parts[k][g] = None)
    <2>1. PICK S : S = parts[k][g]
      OBVIOUS
    <2>2. before' = [before EXCEPT ![m] = [old EXCEPT ![k] = S]]
      BY <1>1, <1>3, <1>8, <2>1
    <2>3. before'[m] = [old EXCEPT ![k] = S]
      BY <2>2 DEF TInv, BeforeOK
    <2>4. k \in {"role", "channel", "member"} /\ (k = "member" => op.do = "readMembers")
      BY <1>1, <1>2, <1>8 DEF PartOf
    <2>5. /\ old \in Reads /\ old # None
      BY <1>1, <1>5, <1>8
    <2>6. /\ before'[m].count = old.count
          /\ before'[m].member = IF k = "member" THEN S ELSE old.member
      BY <2>3, <2>4, <2>5 DEF Reads
    <2>7. before'[m] # None
      <3>1. before'[m] = [count |-> old.count,
                          role |-> IF k = "role" THEN S ELSE old.role,
                          channel |-> IF k = "channel" THEN S ELSE old.channel,
                          member |-> IF k = "member" THEN S ELSE old.member]
        BY <2>3, <2>4, <2>5 DEF Reads
      <3>2. S \in SUBSET Entities[k]
        <4>1. k \in Tables /\ g \in Keys(k) /\ Of(k) = Entities[k]
          <5>1. op \in Operations /\ OperationOK(op)
            BY <1>1, NextTyped DEF ReadPart
          <5>2. g \in Guilds
            BY <1>2, <5>1 DEF OperationOK
          <5> QED BY <2>4, <5>2, TableKinds DEF Of
        <4> QED BY <1>8, <2>1, <4>1 DEF TInv, PartsOK
      <3>3. before'[m] \in Reads
        BY <2>4, <2>5, <3>1, <3>2 DEF Reads
      <3> QED BY <3>3, ConstantsAssumption DEF Reads
    <2> QED BY <1>1, <1>8, <2>1, <2>4, <2>5, <2>6, <2>7
  <1> QED BY <1>6, <1>7, <1>8

\* It goes on, or fails: which it does not while a bot is there.
LEMMA ReadPartOwn ==
    ASSUME TInv, HandlersOK, OrderOK, NEW m \in Managers, ReadPart(m),
           NEW g \in Guilds, About(Head(todo[m]), g), GuildOK(m, g)
    PROVE  GuildOK(m, g)'
  <1>1. PICK op : op = Head(todo[m])
    OBVIOUS
  <1>2. /\ op.do \in {"readRoles", "readChannels", "readMembers", "readEmojis"}
        /\ UNCHANGED <<parts, lost, dedupe, guilds, emojis>>
    BY <1>1 DEF ReadPart, PartOf, state
  <1>3. Over(m, op) /\ op.guild = g /\ op \in Items(todo[m])
    <2>1. ~Check(m)
      BY <1>1, <1>2 DEF Check, Doing
    <2>2. Over(m, op)
      BY <1>1, <2>1, StepsOver DEF Steps
    <2> QED BY <1>1, <1>2, <2>2 DEF About, Over
  <1>4. /\ Known(m, g) /\ KeysOK(m, g) /\ HeldOK(m, g) /\ MutualsOK(m, g) /\ WholeOK(m, g) /\ CountsOK(m, g)
        /\ Quiet(m, g) /\ Known(m, g)'
    BY <1>3, OverQuiet DEF GuildOK
  <1>5. /\ before'[m] = None => before[m] = None \/ Missing(m)
        /\ before'[m] # None =>
              /\ before[m] # None /\ before'[m].count = before[m].count
              /\ \/ before'[m].member = before[m].member
                 \/ parts["member"][g] # None /\ before'[m].member = parts["member"][g]
    BY <1>1, <1>3, ReadPartReads
  <1>6. KeysOK(m, g)'
    BY <1>2, <1>3, <1>4, OverKeys
  <1>7. MutualsOK(m, g)'
    BY <1>2, <1>3, <1>4, OverMutuals
  <1>8. ASSUME NEW y \in Items(todo[m]), y.do = "rewrite"
        PROVE  \A x \in Items(todo[m]) : x.do \in ReadDos \union {"rewrite"}
    BY <1>8, WritersRead
  <1>9. HeldOK(m, g)'
    <2>1. ASSUME NEW u, WritingBack(m, g, u)'
          PROVE  WritingBack(m, g, u) \/ (u \in Held("member", g) /\ ~Has(m, DropOp("member", g, u)))
      <3>1. before'[m] # None /\ u \in before'[m].member /\ op.do # "readGuild"
        BY <1>2, <2>1 DEF WritingBack
      <3>2. CASE before'[m].member = before[m].member
        <4>1. before[m] # None
          BY <1>5, <3>1
        <4> QED BY <1>3, <2>1, <3>1, <3>2, <4>1, OverWriting
      <3>3. CASE parts["member"][g] # None /\ before'[m].member = parts["member"][g]
        <4>1. u \in Held("member", g)
          BY <3>1, <3>3 DEF Held
        <4>2. PICK y \in Items(todo'[m]) : y.do = "rewrite"
          BY <2>1 DEF WritingBack
        <4>3. y \in Items(todo[m])
          BY <1>3, <4>2 DEF Over
        <4>4. DropOp("member", g, u).do = "drop"
          BY DEF DropOp
        <4>5. ~Has(m, DropOp("member", g, u))
          BY <1>8, <4>2, <4>3, <4>4 DEF Has, ReadDos
        <4> QED BY <4>1, <4>5
      <3> QED BY <1>5, <3>1, <3>2, <3>3
    <2> QED BY <1>2, <1>3, <1>4, <2>1, OverHeld
  <1>10. WholeOK(m, g)'
    BY <1>2, <1>3, <1>4, OverWhole
  <1>11. CountsOK(m, g)'
    <2>1. ASSUME unseen[g] = {}, Synced(m, g), UsesCount(m, g), before[m] # None
          PROVE  before'[m] # None /\ before'[m].count = before[m].count
      <3>1. PICK y \in Items(todo[m]) : y.do \in {"increment", "decrement", "rewrite"}
        BY <2>1 DEF UsesCount
      <3>2. y.do = "rewrite"
        <4>1. y.do \in {"increment", "decrement"} => op.do \in MoveDos
          BY <1>3 DEF OrderOK, Single
        <4> QED BY <1>2, <3>1, <4>1 DEF MoveDos
      <3>3. \A x \in Items(todo[m]) : x.do \notin {"store", "emojis"}
        BY <1>8, <3>2 DEF ReadDos
      <3>4. \A k, e : ~Storing(m, k, g, e)
        BY <3>3 DEF Storing, StoreOf
      <3>5. Op("emojis", g).do = "emojis"
        BY DEF Op
      <3>6. ~Has(m, Op("emojis", g))
        BY <3>3, <3>5 DEF Has
      <3>7. parts["role"][g] # None /\ parts["member"][g] # None /\ g \in emojis
        BY <1>4, <2>1, <3>4, <3>6 DEF WholeOK, SomeOf
      <3>8. ~Missing(m)
        BY <1>1, <1>3, <3>7 DEF Missing
      <3> QED BY <1>5, <2>1, <3>8
    <2> QED BY <1>2, <1>3, <1>4, <2>1, OverCounts
  <1> QED BY <1>4, <1>6, <1>7, <1>9, <1>10, <1>11 DEF GuildOK

\* A key that is set drops the event only if the manager missed something of the member.
LEMMA CheckDropsOwn ==
    ASSUME TInv, OrderOK, NEW m \in Managers, Check(m), Head(todo[m]).dkey \in dedupe,
           NEW g \in Guilds, About(Head(todo[m]), g), GuildOK(m, g)
    PROVE  GuildOK(m, g)'
  <1>1. PICK op \in Operations : op = Head(todo[m]) /\ op.do = "check" /\ todo[m] # <<>>
    BY NextTyped DEF Check, Doing
  <1>2. PICK kind \in {"add", "remove"}, h \in Guilds, v \in Users : op = KeyOp("check", kind, h, v)
    BY <1>1, OperationForm
  <1>3. op.dkey = <<kind, h, v>> /\ h = g
    <2>1. op.dkey = <<kind, h, v>>
      BY <1>2 DEF KeyOp
    <2> QED BY <1>1, <2>1 DEF About
  <1>4. /\ todo[m] \in Seq(Operations) /\ op \in Items(todo[m])
    BY <1>1, TailItems DEF TInv, TodoOK
  <1>5. /\ UNCHANGED <<world, inbox, before, guilds, emojis, parts, dedupe, lost>>
        /\ todo' = [todo EXCEPT ![m] = <<>>]
    BY <1>1 DEF Check, state
  <1>6. Items(todo'[m]) = {}
    <2>1. PICK s : s = <<>> /\ todo' = [todo EXCEPT ![m] = s]
      BY <1>5
    <2> QED BY <2>1, TodoChanges, NothingItems
  <1>7. /\ Known(m, g) /\ KeysOK(m, g) /\ HeldOK(m, g) /\ MutualsOK(m, g)
    BY DEF GuildOK
  <1>8. Quiet(m, g) /\ unseen' = unseen /\ Known(m, g)'
    <2>1. Quiet(m, g) /\ unseen' = unseen
      BY <1>5, <1>7, InsideQuiet
    <2> QED BY <2>1 DEF Quiet, Known
  <1>9. v \in unseen[g]
    <2>1. Has(m, KeyOp("check", kind, g, v)) /\ <<kind, g, v>> \in dedupe
      BY <1>1, <1>2, <1>3, <1>4 DEF Has
    <2> QED BY <1>7, <2>1 DEF KeysOK, KeyOK
  <1>10. \A y \in Items(todo[m]) : AboutMember(y, v)
    <2>1. op.dkey[3] = v
      BY <1>3
    <2>2. Single(todo[m])
      BY DEF OrderOK
    <2>3. \A y \in Items(todo[m]) : AboutMember(y, op.dkey[3])
      BY <1>1, <1>4, <2>2 DEF Single
    <2> QED BY <2>1, <2>3
  <1>11. \A k : Held(k, g)' = Held(k, g) /\ \A u : Held("mutual", u)' = Held("mutual", u)
    BY <1>5 DEF Held
  <1>12. ASSUME NEW u, u # v
         PROVE  /\ \A do \in {"check", "mark", "unmark"} : \A knd : ~Has(m, KeyOp(do, knd, g, u))
                /\ ~Has(m, DropOp("member", g, u)) /\ ~Has(m, DropOp("mutual", u, g))
                /\ ~Storing(m, "member", g, u) /\ ~Storing(m, "mutual", u, g)
    <2>1. ASSUME NEW do \in {"check", "mark", "unmark"}, NEW knd
          PROVE  ~Has(m, KeyOp(do, knd, g, u))
      <3>1. KeyOp(do, knd, g, u).do = do /\ KeyOp(do, knd, g, u).dkey = <<knd, g, u>>
        BY DEF KeyOp
      <3>2. ~AboutMember(KeyOp(do, knd, g, u), v)
        BY <1>12, <3>1 DEF AboutMember
      <3> QED BY <1>10, <3>2 DEF Has
    <2>2. ~Has(m, DropOp("member", g, u)) /\ ~Has(m, DropOp("mutual", u, g))
      <3>1. /\ DropOp("member", g, u).do = "drop" /\ DropOp("member", g, u).kind = "member"
            /\ DropOp("member", g, u).entries = {u}
            /\ DropOp("mutual", u, g).do = "drop" /\ DropOp("mutual", u, g).kind = "mutual"
            /\ DropOp("mutual", u, g).key = u
        BY DEF DropOp
      <3>2. {u} # {v}
        BY <1>12
      <3>3. ~AboutMember(DropOp("member", g, u), v) /\ ~AboutMember(DropOp("mutual", u, g), v)
        BY <1>12, <3>1, <3>2 DEF AboutMember
      <3> QED BY <1>10, <3>3 DEF Has
    <2>3. ~Storing(m, "member", g, u) /\ ~Storing(m, "mutual", u, g)
      BY <1>10, <1>12 DEF Storing, StoreOf, AboutMember
    <2> QED BY <2>1, <2>2, <2>3
  <1>13. \A x : ~Has(m, x)'
    BY <1>6 DEF Has
  <1>14. \A k, key, e : ~Storing(m, k, key, e)'
    BY <1>6 DEF Storing
  <1>15. ASSUME NEW do, NEW knd, NEW u
         PROVE  ~Has(m, KeyOp(do, knd, g, u))'
    BY <1>6 DEF Has
  <1>16. ASSUME NEW k, NEW key, NEW e
         PROVE  ~Has(m, DropOp(k, key, e))'
    BY <1>6 DEF Has
  <1>17. KeysOK(m, g)'
    BY <1>5, <1>7, <1>8, <1>9, <1>12, <1>15, KeysKeep
  <1>18. MutualsOK(m, g)'
    BY <1>5, <1>7, <1>8, <1>9, <1>11, <1>12, <1>14, <1>16, MutualsKeep
  <1>19. HeldOK(m, g)'
    <2>1. \A u : ~WritingBack(m, g, u)'
      BY <1>6 DEF WritingBack
    <2> QED BY <1>7, <1>8, <1>9, <1>11, <1>12, <1>14, <1>16, <2>1, HeldKeep
  <1>20. WholeOK(m, g)' /\ CountsOK(m, g)'
    BY <1>8, <1>9 DEF WholeOK, CountsOK
  <1> QED BY <1>8, <1>17, <1>18, <1>19, <1>20 DEF GuildOK

\* What is written back is what was read, of who was there then and still is.
LEMMA RewriteOwn ==
    ASSUME TInv, HandlersOK, OrderOK, NEW m \in Managers, Rewrite(m),
           NEW g \in Guilds, About(Head(todo[m]), g), GuildOK(m, g)
    PROVE  GuildOK(m, g)'
  <1>1. PICK op \in Operations : \E s : RewriteTold(m, op, s)
    BY RewriteTells
  <1>2. PICK s : RewriteTold(m, op, s)
    BY <1>1
  <1>3. /\ op = Head(todo[m]) /\ op.do = "rewrite" /\ op.guild = g /\ todo[m] # <<>>
        /\ todo' = [todo EXCEPT ![m] = s]
    BY <1>2 DEF RewriteTold, About
  <1>4. /\ \A x \in Items(s) :
              /\ About(x, g) /\ x.do \in WriteDos
              /\ x.do = "store" => x.kind # "mutual"
              /\ \A u : StoreOf(x, "member", g, u) => before[m] # None /\ u \in before[m].member
              /\ x.do = "guild" /\ before[m] # None => x.count = before[m].count
        /\ before[m] # None => \E x \in Items(s) : x.do = "guild"
    BY <1>2, <1>3 DEF RewriteTold
  <1>5. todo'[m] = s /\ todo[m] \in Seq(Operations) /\ op \in Items(todo[m])
    BY <1>3, TodoChanges, TailItems DEF TInv, TodoOK
  <1>6. /\ UNCHANGED <<world, inbox, guilds, emojis, parts, dedupe, lost>>
        /\ before'[m] = None
    BY DEF Rewrite, state, TInv, BeforeOK
  <1>7. /\ Known(m, g) /\ KeysOK(m, g) /\ HeldOK(m, g) /\ MutualsOK(m, g) /\ WholeOK(m, g) /\ CountsOK(m, g)
    BY DEF GuildOK
  <1>8. Quiet(m, g) /\ unseen' = unseen /\ Known(m, g)'
    <2>1. Quiet(m, g) /\ unseen' = unseen
      BY <1>6, <1>7, InsideQuiet
    <2> QED BY <2>1 DEF Quiet, Known
  <1>9. \A y \in Items(todo[m]) : y.do \in ReadDos \union {"rewrite"}
    BY <1>3, <1>5, WritersRead
  <1>10. \A y \in Items(todo[m]) : y.do # "readGuild"
    <2>1. Orderly(todo[m]) /\ Single(todo[m])
      BY DEF OrderOK
    <2>2. \A y \in Items(todo[m]) : y = op \/ Precedes(op, y)
      BY <1>3, <1>5, <2>1, SingleTail
    <2>3. Rank(op) = 6
      BY <1>3, Ranks
    <2> QED BY <1>3, <2>2, <2>3, Ranks DEF Precedes
  <1>11. ASSUME NEW x, x.do \in {"check", "mark", "unmark", "drop", "increment", "decrement", "readGuild"}
         PROVE  ~Has(m, x) /\ ~Has(m, x)'
    BY <1>4, <1>5, <1>9, <1>10, <1>11 DEF Has, ReadDos, WriteDos
  <1>12. ASSUME NEW do \in {"check", "mark", "unmark"}, NEW kind, NEW u
         PROVE  ~Has(m, KeyOp(do, kind, g, u)) /\ ~Has(m, KeyOp(do, kind, g, u))'
    <2>1. PICK x : x = KeyOp(do, kind, g, u)
      OBVIOUS
    <2>2. x.do = do
      BY <2>1 DEF KeyOp
    <2>3. ~Has(m, x) /\ ~Has(m, x)'
      BY <1>11, <2>2
    <2> QED BY <2>1, <2>3 DEF Has, KeyOp
  <1>13. ASSUME NEW k, NEW key, NEW e
         PROVE  ~Has(m, DropOp(k, key, e)) /\ ~Has(m, DropOp(k, key, e))'
    <2>1. PICK x : x = DropOp(k, key, e)
      OBVIOUS
    <2>2. x.do = "drop"
      BY <2>1 DEF DropOp
    <2>3. ~Has(m, x) /\ ~Has(m, x)'
      BY <1>11, <2>2
    <2> QED BY <2>1, <2>3 DEF Has, DropOp
  <1>14. \A k, key, e : ~Storing(m, k, key, e)
    BY <1>9 DEF Storing, StoreOf, ReadDos
  <1>15. \A k : Held(k, g)' = Held(k, g) /\ \A u : Held("mutual", u)' = Held("mutual", u)
    BY <1>6 DEF Held
  <1>16. KeysOK(m, g)'
    BY <1>6, <1>7, <1>8, <1>12, KeysKeep
  <1>17. MutualsOK(m, g)'
    <2>1. \A u : ~Storing(m, "mutual", u, g)'
      BY <1>4, <1>5 DEF Storing, StoreOf
    <2> QED BY <1>6, <1>7, <1>8, <1>13, <1>15, <2>1, MutualsKeep
  <1>18. HeldOK(m, g)'
    <2>1. Op("readGuild", g).do = "readGuild"
      BY DEF Op
    <2>2. ~Has(m, Op("readGuild", g))
      BY <1>10, <2>1 DEF Has
    <2>3. ASSUME NEW u, Storing(m, "member", g, u)'
          PROVE  WritingBack(m, g, u)
      <3>1. before[m] # None /\ u \in before[m].member
        BY <1>4, <1>5, <2>3 DEF Storing, StoreOf
      <3> QED BY <1>3, <1>5, <2>2, <3>1 DEF WritingBack
    <2>4. \A u : ~WritingBack(m, g, u)'
      BY <1>6 DEF WritingBack
    <2> QED BY <1>7, <1>8, <1>13, <1>14, <1>15, <2>3, <2>4, HeldKeep
  <1>19. WholeOK(m, g)'
    <2>1. \A k : SomeOf(m, g, k) => SomeOf(m, g, k)'
      BY <1>6, <1>14 DEF SomeOf
    <2>2. Op("emojis", g).do = "emojis"
      BY DEF Op
    <2>3. ~Has(m, Op("emojis", g))
      BY <1>9, <2>2 DEF Has, ReadDos
    <2> QED BY <1>6, <1>7, <1>8, <2>1, <2>3, WholeKeeps
  <1>20. CountsOK(m, g)'
    <2>1. ASSUME CountOK(m, g), Present(m, g)' = Present(m, g)
          PROVE  CountOK(m, g)'
      <3>1. /\ Op("readGuild", g).do = "readGuild"
            /\ Op("increment", g).do = "increment" /\ Op("decrement", g).do = "decrement"
        BY DEF Op
      <3>2. ~Has(m, Op("readGuild", g)) /\ ~Has(m, Op("increment", g)) /\ ~Has(m, Op("decrement", g))
        BY <1>11, <3>1
      <3>3. PICK n : n = Cardinality(Present(m, g))
        OBVIOUS
      <3>4. Target(m, g) = n
        BY <3>2, <3>3 DEF Target
      <3>5. before[m] # None /\ before[m].count = n
        <4>1. UsesCount(m, g)
          BY <1>3, <1>5, <3>2 DEF UsesCount
        <4> QED BY <2>1, <3>4, <4>1 DEF CountOK
      <3>6. \A x \in Items(todo'[m]) : x.do = "guild" /\ x.guild = g => x.count = n
        BY <1>4, <1>5, <3>5
      <3>7. guilds'[g] = n
        <4>1. ~StoresCount(m, g)
          BY <1>9 DEF StoresCount, ReadDos
        <4> QED BY <1>6, <2>1, <3>4, <4>1 DEF CountOK
      <3>8. \A y \in Items(todo'[m]) : y.do \notin {"increment", "decrement", "rewrite"}
        BY <1>4, <1>5 DEF WriteDos
      <3> QED BY <2>1, <3>3, <3>6, <3>7, <3>8, CountIsCached
    <2> QED BY <1>7, <1>8, <2>1, CountsBy
  <1> QED BY <1>8, <1>16, <1>17, <1>18, <1>19, <1>20 DEF GuildOK

\* What is removed goes from where it is removed only.
LEMMA DropOwn ==
    ASSUME TInv, OrderOK, NEW m \in Managers, Drop(m),
           NEW g \in Guilds, About(Head(todo[m]), g), GuildOK(m, g), g \notin lost'
    PROVE  GuildOK(m, g)'
  <1>1. PICK op : op = Head(todo[m])
    OBVIOUS
  <1>2. /\ op.do = "drop" /\ hand[m] # NoHand /\ ~Doing(m, "store")
        /\ UNCHANGED <<guilds, emojis, dedupe, before>> /\ lost \subseteq lost'
    BY <1>1, ChangeFrame DEF Drop, Doing
  <1>3. Over(m, op) /\ op \in Operations
    <2>1. ~Check(m)
      BY <1>1, <1>2 DEF Check, Doing
    <2> QED BY <1>1, <2>1, StepsOver DEF Steps, Over
  <1>4. PICK e : e = hand[m].entry
    OBVIOUS
  <1>5. op = DropOp(op.kind, op.key, e)
    <2>1. PICK x : op = DropOp(op.kind, op.key, x)
      BY <1>2, <1>3, OperationForm
    <2>2. op.entries = {x}
      BY <2>1 DEF DropOp
    <2>3. e \in op.entries
      BY <1>1, <1>2, <1>4, HoldsTyped
    <2> QED BY <2>1, <2>2, <2>3
  <1>6. /\ Known(m, g) /\ KeysOK(m, g) /\ HeldOK(m, g) /\ MutualsOK(m, g) /\ WholeOK(m, g) /\ CountsOK(m, g)
        /\ Quiet(m, g) /\ Known(m, g)' /\ unseen' = unseen
    BY <1>3, OverQuiet DEF GuildOK, Over, world
  <1>7. ASSUME NEW k \in Tables, NEW key \in Keys(k), key \notin lost'
        PROVE  /\ Held(k, key)' = IF op.kind = k /\ op.key = key THEN Held(k, key) \ {e} ELSE Held(k, key)
               /\ parts[k][key] # None => parts'[k][key] # None
    BY <1>1, <1>2, <1>4, <1>7, ChangeMap
  <1>8. \A k, key, x : Storing(m, k, key, x)' <=> Storing(m, k, key, x)
    BY <1>2, <1>3 DEF Over, Storing, StoreOf
  <1>9. ASSUME NEW k, NEW key, NEW x
        PROVE  /\ Has(m, DropOp(k, key, x))' => Has(m, DropOp(k, key, x))
               /\ Has(m, DropOp(k, key, x)) =>
                     Has(m, DropOp(k, key, x))' \/ (op.kind = k /\ op.key = key /\ x = e)
    <2>1. PICK y : y = DropOp(k, key, x)
      OBVIOUS
    <2>2. Has(m, y) <=> y = op \/ Has(m, y)'
      BY <1>3, OverHas
    <2>3. y = op => op.kind = k /\ op.key = key /\ x = e
      <3> HAVE y = op
      <3>1. op.kind = k /\ op.key = key /\ op.entries = {x}
        BY <2>1 DEF DropOp
      <3>2. op.entries = {e}
        BY <1>5 DEF DropOp
      <3> QED BY <3>1, <3>2
    <2> QED BY <2>1, <2>2, <2>3 DEF Has, DropOp
  <1>10. KeysOK(m, g)'
    BY <1>2, <1>3, <1>6, OverKeys
  <1>11. MutualsOK(m, g)'
    <2>1. \A u \in Users : u \in Keys("mutual") /\ "mutual" \in Tables
      BY TableKinds
    <2>2. ASSUME NEW u \in Users, u \notin lost'
          PROVE  /\ g \in Held("mutual", u)' => g \in Held("mutual", u)
                 /\ Has(m, DropOp("mutual", u, g)) =>
                       Has(m, DropOp("mutual", u, g))' \/ ~(g \in Held("mutual", u))'
      <3>1. Held("mutual", u)' = IF op.kind = "mutual" /\ op.key = u THEN Held("mutual", u) \ {e} ELSE Held("mutual", u)
        BY <1>7, <2>1, <2>2
      <3>2. Has(m, DropOp("mutual", u, g)) =>
               Has(m, DropOp("mutual", u, g))' \/ (op.kind = "mutual" /\ op.key = u /\ g = e)
        BY <1>9
      <3> QED BY <3>1, <3>2
    <2> QED BY <1>2, <1>6, <1>8, <2>2, MutualsKeep
  <1>12. g \in Keys("member") /\ g \in Keys("role") /\ {"member", "role"} \subseteq Tables
    BY TableKinds
  <1>13. HeldOK(m, g)'
    <2>1. Held("member", g)' = IF op.kind = "member" /\ op.key = g THEN Held("member", g) \ {e} ELSE Held("member", g)
      BY <1>7, <1>12
    <2>2. ASSUME NEW u
          PROVE  /\ (u \in Held("member", g))' => u \in Held("member", g)
                 /\ Has(m, DropOp("member", g, u)) =>
                       Has(m, DropOp("member", g, u))' \/ ~(u \in Held("member", g))'
                 /\ Has(m, DropOp("member", g, u))' => Has(m, DropOp("member", g, u))
                 /\ u \in Held("member", g) /\ ~Has(m, DropOp("member", g, u)) => (u \in Held("member", g))'
      <3>1. /\ Has(m, DropOp("member", g, u))' => Has(m, DropOp("member", g, u))
            /\ Has(m, DropOp("member", g, u)) =>
                  Has(m, DropOp("member", g, u))' \/ (op.kind = "member" /\ op.key = g /\ u = e)
        BY <1>9
      <3>2. op.kind = "member" /\ op.key = g /\ u = e => Has(m, DropOp("member", g, u))
        BY <1>3, <1>5 DEF Has, Over
      <3> QED BY <2>1, <3>1, <3>2
    <2>3. \A u : WritingBack(m, g, u)' => WritingBack(m, g, u)
      <3> SUFFICES ASSUME NEW u, WritingBack(m, g, u)'
                   PROVE  WritingBack(m, g, u)
        OBVIOUS
      <3>1. before[m] # None
        BY <1>2 DEF WritingBack
      <3>2. before'[m].member = before[m].member /\ op.do # "readGuild"
        BY <1>2
      <3> QED BY <1>3, <3>1, <3>2, OverWriting
    <2> QED BY <1>6, <1>8, <2>2, <2>3, HeldKeep
  <1>14. WholeOK(m, g)'
    <2>1. \A k \in {"role", "member"} : SomeOf(m, g, k) => SomeOf(m, g, k)'
      BY <1>7, <1>8, <1>12 DEF SomeOf
    <2>2. PICK x : x = Op("emojis", g)
      OBVIOUS
    <2>3. x.do = "emojis"
      BY <2>2 DEF Op
    <2>4. Has(m, x) => Has(m, x)'
      BY <1>2, <1>3, <2>3, OverHas
    <2>5. Has(m, Op("emojis", g)) => Has(m, Op("emojis", g))'
      BY <2>2, <2>4 DEF Has, Op
    <2> QED BY <1>2, <1>6, <2>1, <2>5, WholeKeeps
  <1>15. CountsOK(m, g)'
    BY <1>2, <1>3, <1>6, OverCounts
  <1> QED BY <1>6, <1>10, <1>11, <1>13, <1>14, <1>15 DEF GuildOK

\* What is stored is of those who are there.
LEMMA StoreOwn ==
    ASSUME TInv, HandlersOK, OrderOK, NEW m \in Managers, Store(m),
           NEW g \in Guilds, About(Head(todo[m]), g), GuildOK(m, g), g \notin lost'
    PROVE  GuildOK(m, g)'
  <1>1. PICK op \in Operations : \E s \in Seq(Operations) : \E e : StoreLeft(m, op, e, s)
    BY StoreLeaves
  <1>2. PICK s, e : s \in Seq(Operations) /\ StoreLeft(m, op, e, s)
    BY <1>1
  <1>3. /\ op = Head(todo[m]) /\ op.do = "store" /\ todo[m] # <<>> /\ e = hand[m].entry /\ e \in op.entries
        /\ todo' = [todo EXCEPT ![m] = s] /\ MapOp(op) /\ Doing(m, "store")
        /\ Items(todo[m]) = {op} \union Items(Tail(todo[m]))
        /\ Items(s) = Items(Tail(todo[m])) \union
              (IF op.entries = {e} THEN {}
               ELSE {[do |-> "store", kind |-> op.kind, key |-> op.key, entries |-> op.entries \ {e}]})
    BY <1>2 DEF StoreLeft, Doing
  <1>4. todo'[m] = s
    BY <1>3, TodoChanges
  <1>5. /\ UNCHANGED <<world, inbox, guilds, emojis, dedupe, before>> /\ lost \subseteq lost'
    BY ChangeFrame DEF Store
  <1>6. /\ Known(m, g) /\ KeysOK(m, g) /\ HeldOK(m, g) /\ MutualsOK(m, g) /\ WholeOK(m, g) /\ CountsOK(m, g)
    BY DEF GuildOK
  <1>7. Quiet(m, g) /\ unseen' = unseen /\ Known(m, g)'
    <2>1. Quiet(m, g) /\ unseen' = unseen
      BY <1>5, <1>6, InsideQuiet
    <2> QED BY <2>1 DEF Quiet, Known
  <1>8. ASSUME NEW x, x.do # "store"
        PROVE  Has(m, x)' <=> Has(m, x)
    BY <1>3, <1>4, <1>8 DEF Has
  <1>9. ASSUME NEW k, NEW key, NEW x
        PROVE  /\ Storing(m, k, key, x)' => Storing(m, k, key, x)
               /\ Storing(m, k, key, x) =>
                     Storing(m, k, key, x)' \/ (op.kind = k /\ op.key = key /\ x = e)
    <2>1. ASSUME NEW y \in Items(s), StoreOf(y, k, key, x)
          PROVE  Storing(m, k, key, x)
      <3>1. CASE y \in Items(todo[m])
        BY <2>1, <3>1 DEF Storing
      <3>2. CASE y = [do |-> "store", kind |-> op.kind, key |-> op.key, entries |-> op.entries \ {e}]
        <4>1. StoreOf(op, k, key, x)
          BY <1>3, <2>1, <3>2 DEF StoreOf
        <4> QED BY <1>3, <4>1 DEF Storing
      <3> QED BY <1>3, <3>1, <3>2
    <2>2. ASSUME NEW y \in Items(todo[m]), StoreOf(y, k, key, x)
          PROVE  (\E z \in Items(s) : StoreOf(z, k, key, x)) \/ (op.kind = k /\ op.key = key /\ x = e)
      <3>1. CASE y = op /\ x # e
        <4>1. PICK z : z = [do |-> "store", kind |-> op.kind, key |-> op.key, entries |-> op.entries \ {e}]
          OBVIOUS
        <4>2. StoreOf(z, k, key, x)
          BY <2>2, <3>1, <4>1 DEF StoreOf
        <4>3. op.entries # {e}
          BY <2>2, <3>1 DEF StoreOf
        <4>4. z \in Items(s)
          BY <1>3, <4>1, <4>3
        <4> QED BY <4>2, <4>4
      <3>2. CASE y = op /\ x = e
        BY <2>2, <3>2 DEF StoreOf
      <3>3. CASE y # op
        BY <1>3, <2>2, <3>3
      <3> QED BY <3>1, <3>2, <3>3
    <2>3. Storing(m, k, key, x)' <=> \E y \in Items(s) : StoreOf(y, k, key, x)
      BY <1>4 DEF Storing, StoreOf
    <2> QED BY <2>1, <2>2, <2>3 DEF Storing
  <1>10. Storing(m, op.kind, op.key, e)
    BY <1>3 DEF Storing, StoreOf
  <1>11. ASSUME NEW k \in Tables, NEW key \in Keys(k), key \notin lost'
         PROVE  /\ Held(k, key)' = IF op.kind = k /\ op.key = key THEN Held(k, key) \union {e} ELSE Held(k, key)
                /\ parts[k][key] # None => parts'[k][key] # None
                /\ op.kind = k /\ op.key = key => parts'[k][key] # None
    BY <1>3, <1>11, ChangeMap
  <1>12. ASSUME NEW do, NEW kind, NEW u
         PROVE  do # "store" => (Has(m, KeyOp(do, kind, g, u))' <=> Has(m, KeyOp(do, kind, g, u)))
    <2> HAVE do # "store"
    <2>1. PICK x : x = KeyOp(do, kind, g, u)
      OBVIOUS
    <2>2. x.do = do
      BY <2>1 DEF KeyOp
    <2>3. Has(m, x)' <=> Has(m, x)
      BY <1>8, <2>2
    <2> QED BY <2>1, <2>3 DEF Has, KeyOp
  <1>13. ASSUME NEW k, NEW key, NEW x
         PROVE  Has(m, DropOp(k, key, x))' <=> Has(m, DropOp(k, key, x))
    <2>1. PICK y : y = DropOp(k, key, x)
      OBVIOUS
    <2>2. y.do = "drop"
      BY <2>1 DEF DropOp
    <2>3. Has(m, y)' <=> Has(m, y)
      BY <1>8, <2>2
    <2> QED BY <2>1, <2>3 DEF Has, DropOp
  <1>14. ASSUME NEW do
         PROVE  do # "store" => (Has(m, Op(do, g))' <=> Has(m, Op(do, g)))
    <2> HAVE do # "store"
    <2>1. PICK y : y = Op(do, g)
      OBVIOUS
    <2>2. y.do = do
      BY <2>1 DEF Op
    <2>3. Has(m, y)' <=> Has(m, y)
      BY <1>8, <2>2
    <2> QED BY <2>1, <2>3 DEF Has, Op
  <1>15. KeysOK(m, g)'
    BY <1>5, <1>6, <1>7, <1>12, KeysKeep
  <1>16. MutualsOK(m, g)'
    <2>1. ASSUME NEW u \in Users, u \notin lost', g \in Held("mutual", u)'
          PROVE  g \in Held("mutual", u) \/ Storing(m, "mutual", u, g)
      <3>1. u \in Keys("mutual") /\ "mutual" \in Tables
        BY TableKinds
      <3>2. Held("mutual", u)' = IF op.kind = "mutual" /\ op.key = u THEN Held("mutual", u) \union {e} ELSE Held("mutual", u)
        BY <1>11, <2>1, <3>1
      <3> QED BY <1>10, <2>1, <3>2
    <2> QED BY <1>5, <1>6, <1>7, <1>9, <1>13, <2>1, MutualsKeep
  <1>17. g \in Keys("member") /\ g \in Keys("role") /\ {"member", "role"} \subseteq Tables
    BY TableKinds
  <1>18. HeldOK(m, g)'
    <2>1. Held("member", g)' = IF op.kind = "member" /\ op.key = g THEN Held("member", g) \union {e} ELSE Held("member", g)
      BY <1>11, <1>17
    <2>2. ASSUME NEW u
          PROVE  /\ (u \in Held("member", g))' => u \in Held("member", g) \/ Storing(m, "member", g, u)
                 /\ u \in Held("member", g) \/ Storing(m, "member", g, u) =>
                       (u \in Held("member", g))' \/ Storing(m, "member", g, u)'
      <3>1. Storing(m, "member", g, u) =>
               Storing(m, "member", g, u)' \/ (op.kind = "member" /\ op.key = g /\ u = e)
        BY <1>9
      <3> QED BY <1>10, <2>1, <3>1
    <2>3. ASSUME NEW u, WritingBack(m, g, u)'
          PROVE  WritingBack(m, g, u)
      <3>1. PICK y \in Items(todo'[m]) : y.do = "rewrite" /\ y.guild = g
        BY <2>3 DEF WritingBack
      <3>2. Has(m, y)
        BY <1>8, <3>1 DEF Has
      <3>3. Has(m, Op("readGuild", g))' <=> Has(m, Op("readGuild", g))
        BY <1>14
      <3> QED BY <1>5, <2>3, <3>1, <3>2, <3>3 DEF WritingBack, Has
    <2> QED BY <1>6, <1>7, <1>9, <1>13, <2>2, <2>3, HeldKeep
  <1>19. WholeOK(m, g)'
    <2>1. ASSUME NEW k \in {"role", "member"}, SomeOf(m, g, k)
          PROVE  SomeOf(m, g, k)'
      <3>1. /\ parts[k][g] # None => parts'[k][g] # None
            /\ op.kind = k /\ op.key = g => parts'[k][g] # None
        BY <1>11, <1>17
      <3> QED BY <1>9, <2>1, <3>1 DEF SomeOf
    <2>2. Has(m, Op("emojis", g)) => Has(m, Op("emojis", g))'
      BY <1>14
    <2> QED BY <1>5, <1>6, <1>7, <2>1, <2>2, WholeKeeps
  <1>20. CountsOK(m, g)'
    BY <1>5, <1>6, <1>7, <1>8, CountsKeep
  <1> QED BY <1>7, <1>15, <1>16, <1>18, <1>19, <1>20 DEF GuildOK

-----------------------------------------------------------------------------
(* Members: the reader comes to an event of the guild                       *)

\* Only users come and go.
LEMMA MoversAreUsers ==
    ASSUME NEW event \in Events, NEW g, NEW u, event = Join(g, u) \/ event = Quit(g, u)
    PROVE  u \in Users
  <1>1. event.type \in {"enter", "leave"} /\ event.kind = "member" /\ event.entity = u
    BY MoveFields
  <1>2. event \in EntityEvents
    BY <1>1 DEF Events, CreateEvents, DeleteEvents, UpdateEvents
  <1>3. PICK k \in Kinds : event \in TouchEvents(k) \/ event \in MoveEvents(k)
    BY <1>2 DEF EntityEvents
  <1>4. event \in MoveEvents(k) /\ k = "member"
    BY <1>1, <1>3 DEF TouchEvents, MoveEvents
  <1> QED BY <1>1, <1>4 DEF MoveEvents

\* What coming to an event of the guild means, all in one place.
Comes(m, g, event, s) ==
    /\ todo[m] = <<>> /\ todo'[m] = s /\ event \in Events /\ event.guild = g
    /\ Tells(s, event, g) /\ UNCHANGED <<world, before, state>>
    /\ Synced(m, g)' => Synced(m, g) \/ event.type = "create"

\* A handler is that of an event that was sent.
LEMMA HandleComes ==
    ASSUME TInv, NEW m \in Managers, Handle(m), NEW event \in Events, event = Head(inbox[m])
    PROVE  Comes(m, event.guild, event, Handler(event))
  <1>1. PICK s : s = Handler(event)
    OBVIOUS
  <1>2. PICK g : g = event.guild
    OBVIOUS
  <1>3. /\ todo[m] = <<>> /\ todo' = [todo EXCEPT ![m] = s]
        /\ UNCHANGED <<world, before, state>> /\ inbox[m] \in Seq(Events) /\ inbox[m] # <<>>
        /\ inbox'[m] = Tail(inbox[m])
    BY <1>1 DEF Handle, TInv, InboxOK
  <1>4. todo'[m] = s
    BY <1>3, TodoChanges
  <1>5. Tells(s, event, g)
    BY <1>1, <1>2, HandlerTells
  <1>6. Synced(m, g)' => Synced(m, g) \/ event.type = "create"
    <2>1. Items(inbox[m]) = {event} \union Items(inbox'[m])
      BY <1>3, ItemsTail
    <2>2. bots' = bots
      BY <1>3 DEF world
    <2> QED BY <2>1, <2>2 DEF Synced
  <1> QED BY <1>1, <1>2, <1>3, <1>4, <1>5, <1>6 DEF Comes

\* A handler begins with nothing done.
LEMMA NothingBefore ==
    ASSUME NEW m, todo[m] = <<>>
    PROVE  /\ \A x : ~Has(m, x)
           /\ \A k, key, e : ~Storing(m, k, key, e)
           /\ \A g, u : ~WritingBack(m, g, u)
           /\ \A g : ~StoresCount(m, g) /\ ~UsesCount(m, g)
  <1>1. Items(todo[m]) = {}
    BY NothingItems
  <1> QED BY <1>1 DEF Has, Storing, WritingBack, StoresCount, UsesCount

\* Keys as the manager comes to an event: the last one handled was not this one.
LEMMA TakesKeys ==
    ASSUME TInv, NEW m \in Managers, Handle(m), NEW g \in Guilds, NEW event, event = Head(inbox[m]),
           NEW s, Comes(m, g, event, s), Known(m, g), KeysOK(m, g)
    PROVE  KeysOK(m, g)'
  <1>1. unseen' = unseen /\ dedupe' = dedupe /\ todo'[m] = s
    BY DEF Comes, world, state
  <1> SUFFICES ASSUME NEW u \in Users \ unseen[g], NEW kind \in {"add", "remove"}
               PROVE  KeyOK(m, g, u, kind)'
    BY <1>1 DEF KeysOK
  <1>2. u \in Entities.member /\ FitsOK(m, g, u)
    BY DEF Known, Entities
  <1>3. /\ Shows(event, g, u) => In(m, g, u)'
        /\ Hides(event, g, u) => ~In(m, g, u)'
        /\ event = Quit(g, u) => In(m, g, u)
        /\ event = Join(g, u) => ~In(m, g, u)
        /\ event \notin {Join(g, u), Quit(g, u)} => (In(m, g, u)' <=> In(m, g, u))
    BY <1>2, TakesEvent
  <1>4. /\ event = Join(g, u) => Shows(event, g, u)
        /\ event = Quit(g, u) => Hides(event, g, u)
    BY MoveFields DEF Shows, Hides
  <1>5. /\ <<"add", g, u>> \in dedupe => In(m, g, u)
        /\ <<"remove", g, u>> \in dedupe => ~In(m, g, u)
    <2>1. \A x : ~Has(m, x)
      BY NothingBefore DEF Comes
    <2>2. KeyOK(m, g, u, "add") /\ KeyOK(m, g, u, "remove")
      BY DEF KeysOK
    <2> QED BY <2>1, <2>2 DEF KeyOK
  <1>6. /\ \A do \in {"check", "mark"} :
              /\ KeyOp(do, "add", g, u) \in Items(s) <=> event = Join(g, u)
              /\ KeyOp(do, "remove", g, u) \in Items(s) <=> event = Quit(g, u)
        /\ KeyOp("unmark", "add", g, u) \in Items(s) <=> event = Quit(g, u)
        /\ KeyOp("unmark", "remove", g, u) \in Items(s) <=> event = Join(g, u)
    <2>1. Tells(s, event, g)
      BY DEF Comes
    <2> QED BY <2>1, Zenon DEF Tells
  <1>7. ASSUME NEW do, NEW k
        PROVE  Has(m, KeyOp(do, k, g, u))' <=> KeyOp(do, k, g, u) \in Items(s)
    BY <1>1 DEF Has, KeyOp
  <1>8. CASE kind = "add"
    <2>1. /\ <<"add", g, u>> \in dedupe' => In(m, g, u)' \/ Has(m, KeyOp("unmark", "add", g, u))'
          /\ Has(m, KeyOp("check", "add", g, u))' => In(m, g, u)' /\ <<"add", g, u>> \notin dedupe'
          /\ Has(m, KeyOp("mark", "add", g, u))' => In(m, g, u)'
      BY <1>1, <1>3, <1>4, <1>5, <1>6, <1>7
    <2> QED BY <1>8, <2>1 DEF KeyOK
  <1>9. CASE kind = "remove"
    <2>1. /\ <<"remove", g, u>> \in dedupe' => ~In(m, g, u)' \/ Has(m, KeyOp("unmark", "remove", g, u))'
          /\ Has(m, KeyOp("check", "remove", g, u))' => ~In(m, g, u)' /\ <<"remove", g, u>> \notin dedupe'
          /\ Has(m, KeyOp("mark", "remove", g, u))' => ~In(m, g, u)'
      BY <1>1, <1>3, <1>4, <1>5, <1>6, <1>7
    <2> QED BY <1>9, <2>1 DEF KeyOK
  <1> QED BY <1>8, <1>9

\* Members as the manager comes to an event.
LEMMA TakesHeld ==
    ASSUME TInv, NEW m \in Managers, Handle(m), NEW g \in Guilds, NEW event, event = Head(inbox[m]),
           NEW s, Comes(m, g, event, s), Known(m, g), HeldOK(m, g)
    PROVE  HeldOK(m, g)'
  <1>1. unseen' = unseen /\ parts' = parts /\ todo'[m] = s
    BY DEF Comes, world, state
  <1> SUFFICES ASSUME NEW u \in Entities.member \ unseen[g]
               PROVE  MemberOK(m, g, u)'
    BY <1>1 DEF HeldOK
  <1>2. FitsOK(m, g, u) /\ MemberOK(m, g, u)
    BY DEF Known, HeldOK
  <1>3. /\ Shows(event, g, u) => In(m, g, u)'
        /\ Hides(event, g, u) => ~In(m, g, u)'
        /\ event = Quit(g, u) => In(m, g, u)
        /\ event = Join(g, u) => ~In(m, g, u)
        /\ event \notin {Join(g, u), Quit(g, u)} => (In(m, g, u)' <=> In(m, g, u))
    BY <1>2, TakesEvent
  <1>4. /\ event = Join(g, u) => Shows(event, g, u)
        /\ event = Quit(g, u) => Hides(event, g, u)
    BY MoveFields DEF Shows, Hides
  <1>5. (\A x : ~Has(m, x)) /\ ~Storing(m, "member", g, u)
    BY NothingBefore DEF Comes
  <1>6. Held("member", g)' = Held("member", g) /\ (Kept(u)' <=> Kept(u))
    BY <1>1 DEF Held, Kept
  <1>7. Tells(s, event, g)
    BY DEF Comes
  <1>8. /\ (\E op \in Items(s) : StoreOf(op, "member", g, u)) <=> Kept(u) /\ Shows(event, g, u)
        /\ DropOp("member", g, u) \in Items(s) <=> event = Quit(g, u)
    BY <1>7, Zenon DEF Tells
  <1>9. Storing(m, "member", g, u)' <=> Kept(u) /\ Shows(event, g, u)
    BY <1>1, <1>8 DEF Storing, StoreOf
  <1>10. Has(m, DropOp("member", g, u))' <=> event = Quit(g, u)
    BY <1>1, <1>8 DEF Has, DropOp
  <1>11. ~WritingBack(m, g, u)'
    <2>1. \A op \in Items(s) : op.do = "rewrite" => Op("readGuild", g) \in Items(s)
      <3>1. \A op \in Items(s) :
               op.do \in {"increment", "decrement", "rewrite"} => Op("readGuild", g) \in Items(s)
        BY <1>7, Zenon DEF Tells
      <3> QED BY <3>1
    <2>2. Has(m, Op("readGuild", g))' <=> Op("readGuild", g) \in Items(s)
      BY <1>1 DEF Has, Op
    <2> QED BY <1>1, <2>1, <2>2 DEF WritingBack
  <1>12. u \in Held("member", g)' => Kept(u)' /\ (In(m, g, u)' \/ Has(m, DropOp("member", g, u))')
    BY <1>2, <1>3, <1>4, <1>5, <1>6, <1>10 DEF MemberOK
  <1>13. In(m, g, u)' /\ Kept(u)' /\ Synced(m, g)' => u \in Held("member", g)' \/ Storing(m, "member", g, u)'
    <2> HAVE In(m, g, u)' /\ Kept(u)' /\ Synced(m, g)'
    <2>1. CASE Synced(m, g)
      BY <1>2, <1>3, <1>4, <1>5, <1>6, <1>9, <2>1 DEF MemberOK
    <2>2. CASE event.type = "create"
      <3>1. event.guild = g
        BY DEF Comes
      <3>2. Shows(event, g, u)
        BY <1>3, <2>2, <3>1 DEF Shows, Hides
      <3> QED BY <1>6, <1>9, <3>2
    <2> QED BY <2>1, <2>2 DEF Comes
  <1> QED BY <1>3, <1>4, <1>6, <1>9, <1>10, <1>11, <1>12, <1>13 DEF MemberOK

\* Mutual guilds as the manager comes to an event.
LEMMA TakesMutuals ==
    ASSUME TInv, NEW m \in Managers, Handle(m), NEW g \in Guilds, NEW event, event = Head(inbox[m]),
           NEW s, Comes(m, g, event, s), Known(m, g), MutualsOK(m, g)
    PROVE  MutualsOK(m, g)'
  <1>1. unseen' = unseen /\ UNCHANGED <<parts, lost>> /\ todo'[m] = s
    BY DEF Comes, world, state
  <1> SUFFICES ASSUME NEW u \in Users \ unseen[g]
               PROVE  MutualOK(m, g, u)'
    BY <1>1 DEF MutualsOK
  <1>2. u \in Entities.member /\ FitsOK(m, g, u) /\ MutualOK(m, g, u)
    BY DEF Known, MutualsOK, Entities
  <1>3. /\ Shows(event, g, u) => In(m, g, u)'
        /\ event = Join(g, u) => ~In(m, g, u)
        /\ event \notin {Join(g, u), Quit(g, u)} => (In(m, g, u)' <=> In(m, g, u))
    BY <1>2, TakesEvent
  <1>4. event = Join(g, u) => Shows(event, g, u)
    BY MoveFields DEF Shows
  <1>5. \A x : ~Has(m, x)
    BY NothingBefore DEF Comes
  <1>6. Held("mutual", u)' = Held("mutual", u)
    BY <1>1 DEF Held
  <1>7. Tells(s, event, g)
    BY DEF Comes
  <1>8. /\ DropOp("mutual", u, g) \in Items(s) <=> event = Quit(g, u)
        /\ (\E op \in Items(s) : StoreOf(op, "mutual", u, g)) => event = Join(g, u)
    BY <1>7, Zenon DEF Tells
  <1>9. Storing(m, "mutual", u, g)' => event = Join(g, u)
    BY <1>1, <1>8 DEF Storing, StoreOf
  <1>10. Has(m, DropOp("mutual", u, g))' <=> event = Quit(g, u)
    BY <1>1, <1>8 DEF Has, DropOp
  <1> QED BY <1>1, <1>2, <1>3, <1>4, <1>5, <1>6, <1>9, <1>10 DEF MutualOK

\* The parts an update reads, as the manager comes to an event.
LEMMA TakesWhole ==
    ASSUME FullOK, NEW m \in Managers, Handle(m), NEW g \in Guilds, NEW event, event = Head(inbox[m]),
           event \in Items(inbox[m]), NEW s, Comes(m, g, event, s), WholeOK(m, g)
    PROVE  WholeOK(m, g)'
  <1>1. unseen' = unseen /\ UNCHANGED <<parts, emojis>> /\ todo'[m] = s
    BY DEF Comes, world, state
  <1> SUFFICES ASSUME unseen[g] = {}, Synced(m, g)'
               PROVE  /\ SomeOf(m, g, "role")' /\ SomeOf(m, g, "member")'
                      /\ g \in emojis' \/ Has(m, Op("emojis", g))'
    BY <1>1 DEF WholeOK
  <1>2. CASE Synced(m, g)
    <2>1. (\A x : ~Has(m, x)) /\ \A k, key, e : ~Storing(m, k, key, e)
      BY NothingBefore DEF Comes
    <2>2. parts["role"][g] # None /\ parts["member"][g] # None /\ g \in emojis
      BY <1>2, <2>1 DEF WholeOK, SomeOf
    <2> QED BY <1>1, <2>2 DEF SomeOf
  <1>3. CASE event.type = "create"
    <2>1. Everyone \in event.content.role /\ Self \in event.content.member
      BY <1>3 DEF FullOK
    <2>2. Tells(s, event, g) /\ event.guild = g
      BY DEF Comes
    <2>3. /\ Op("emojis", g) \in Items(s)
          /\ \A e \in event.content.role : \E op \in Items(s) : StoreOf(op, "role", g, e)
          /\ \A u \in Entities.member :
                (\E op \in Items(s) : StoreOf(op, "member", g, u)) <=> Kept(u) /\ Shows(event, g, u)
      BY <1>3, <2>2, Zenon DEF Tells
    <2>4. Self \in Entities.member /\ Everyone \in Entities.role
      BY DEF Entities
    <2>5. Kept(Self) /\ Shows(event, g, Self)
      BY <1>3, <2>1, <2>2 DEF Kept, Shows
    <2>6. /\ \E op \in Items(s) : StoreOf(op, "role", g, Everyone)
          /\ \E op \in Items(s) : StoreOf(op, "member", g, Self)
      BY <2>1, <2>3, <2>4, <2>5
    <2>7. Storing(m, "role", g, Everyone)' /\ Storing(m, "member", g, Self)'
      BY <1>1, <2>6 DEF Storing, StoreOf
    <2>8. Has(m, Op("emojis", g))'
      BY <1>1, <2>3 DEF Has, Op
    <2> QED BY <2>4, <2>7, <2>8 DEF SomeOf, Entities
  <1> QED BY <1>2, <1>3 DEF Comes

\* How the members known of change as the manager comes to an event.
LEMMA TakesPresent ==
    ASSUME TInv, NEW m \in Managers, Handle(m), NEW g \in Guilds, NEW event \in Events,
           event = Head(inbox[m]), \A u \in Entities.member : FitsOK(m, g, u)
    PROVE  /\ \A u \in Users : event = Join(g, u) =>
                 u \notin Present(m, g) /\ Present(m, g)' = Present(m, g) \union {u}
           /\ \A u \in Users : event = Quit(g, u) =>
                 u \in Present(m, g) /\ Present(m, g)' = Present(m, g) \ {u}
           /\ (\A u \in Users : event \notin {Join(g, u), Quit(g, u)}) => Present(m, g)' = Present(m, g)
           /\ event.type = "create" /\ event.guild = g => Present(m, g)' = event.content.member
  <1>1. ASSUME NEW u \in Entities.member
        PROVE  /\ Shows(event, g, u) => In(m, g, u)'
               /\ Hides(event, g, u) => ~In(m, g, u)'
               /\ event = Quit(g, u) => In(m, g, u)
               /\ event = Join(g, u) => ~In(m, g, u)
               /\ event \notin {Join(g, u), Quit(g, u)} => (In(m, g, u)' <=> In(m, g, u))
    BY TakesEvent
  <1>2. /\ \A v : v \in Present(m, g) <=> v \in Entities.member /\ In(m, g, v)
        /\ \A v : v \in Present(m, g)' <=> v \in Entities.member /\ In(m, g, v)'
    BY DEF Present
  <1>3. \A u : u \in Users => u \in Entities.member
    BY DEF Entities
  <1>4. ASSUME NEW u \in Users, event = Join(g, u)
        PROVE  u \notin Present(m, g) /\ Present(m, g)' = Present(m, g) \union {u}
    <2>1. Shows(event, g, u) /\ \A v : v # u => event \notin {Join(g, v), Quit(g, v)}
      BY <1>4, MoveFields DEF Shows
    <2>2. u \in Entities.member /\ In(m, g, u)' /\ ~In(m, g, u)
      BY <1>1, <1>3, <1>4, <2>1
    <2>3. \A v \in Entities.member : v # u => (In(m, g, v)' <=> In(m, g, v))
      BY <1>1, <2>1
    <2> QED BY <1>2, <2>2, <2>3
  <1>5. ASSUME NEW u \in Users, event = Quit(g, u)
        PROVE  u \in Present(m, g) /\ Present(m, g)' = Present(m, g) \ {u}
    <2>1. Hides(event, g, u) /\ \A v : v # u => event \notin {Join(g, v), Quit(g, v)}
      BY <1>5, MoveFields DEF Hides
    <2>2. u \in Entities.member /\ ~In(m, g, u)' /\ In(m, g, u)
      BY <1>1, <1>3, <1>5, <2>1
    <2>3. \A v \in Entities.member : v # u => (In(m, g, v)' <=> In(m, g, v))
      BY <1>1, <2>1
    <2> QED BY <1>2, <2>2, <2>3
  <1>6. ASSUME \A u \in Users : event \notin {Join(g, u), Quit(g, u)}
        PROVE  Present(m, g)' = Present(m, g)
    <2>1. \A u : event \notin {Join(g, u), Quit(g, u)}
      BY <1>6, MoversAreUsers
    <2> QED BY <1>1, <1>2, <2>1
  <1>7. ASSUME event.type = "create", event.guild = g
        PROVE  Present(m, g)' = event.content.member
    <2>1. event \in CreateEvents
      BY <1>7 DEF Events, DeleteEvents, UpdateEvents, EntityEvents, TouchEvents, MoveEvents
    <2>2. event.content.member \subseteq Entities.member
      BY <2>1 DEF CreateEvents, FullContents, Contents
    <2>3. \A u : (u \in event.content.member => Shows(event, g, u)) /\ (u \notin event.content.member => Hides(event, g, u))
      BY <1>7 DEF Shows, Hides
    <2> QED BY <1>1, <1>2, <2>2, <2>3
  <1> QED BY <1>4, <1>5, <1>6, <1>7

\* The member count as the manager comes to an event of the guild: it is the one
\* of the members known of, but for the one the handler is about to count.
LEMMA TakesCount ==
    ASSUME TInv, NEW m \in Managers, NEW g \in Guilds, NEW event,
           NEW s, Comes(m, g, event, s), NEW n \in Nat, Cardinality(Present(m, g)) = n,
           \A u \in Users : event = Join(g, u) => Cardinality(Present(m, g)') = n + 1,
           \A u \in Users : event = Quit(g, u) => Cardinality(Present(m, g)') = n - 1,
           (\A u \in Users : event \notin {Join(g, u), Quit(g, u)}) => Cardinality(Present(m, g)') = n,
           event.type # "create", CountOK(m, g)
    PROVE  CountOK(m, g)'
  <1>1. Tells(s, event, g) /\ todo'[m] = s /\ todo[m] = <<>> /\ guilds' = guilds
    BY DEF Comes, state
  <1>2. /\ Op("increment", g) \in Items(s) <=> \E u \in Users : event = Join(g, u)
        /\ Op("decrement", g) \in Items(s) <=> \E u \in Users : event = Quit(g, u)
        /\ \A op \in Items(s) :
              /\ op.do \in {"increment", "decrement", "rewrite"} => Op("readGuild", g) \in Items(s)
              /\ op.do = "guild" => event.type = "create"
    BY <1>1, Zenon DEF Tells
  <1>3. /\ Has(m, Op("increment", g))' <=> Op("increment", g) \in Items(s)
        /\ Has(m, Op("decrement", g))' <=> Op("decrement", g) \in Items(s)
        /\ Has(m, Op("readGuild", g))' <=> Op("readGuild", g) \in Items(s)
    BY <1>1 DEF Has, Op
  <1>4. guilds[g] = n
    <2>1. ~StoresCount(m, g) /\ ~Has(m, Op("increment", g)) /\ ~Has(m, Op("decrement", g))
      BY <1>1, NothingBefore
    <2>2. guilds[g] = Target(m, g)
      BY <2>1 DEF CountOK
    <2> QED BY <2>1, <2>2 DEF Target
  <1>5. Target(m, g)' = n
    <2>1. ~((\E u \in Users : event = Join(g, u)) /\ (\E u \in Users : event = Quit(g, u)))
      BY MoveFields
    <2>2. CASE \E u \in Users : event = Join(g, u)
      <3>1. Has(m, Op("increment", g))' /\ Cardinality(Present(m, g)') = n + 1
        BY <1>2, <1>3, <2>2
      <3>2. Target(m, g)' = Cardinality(Present(m, g)') - 1
        BY <3>1 DEF Target
      <3> QED BY <3>1, <3>2
    <2>3. CASE \E u \in Users : event = Quit(g, u)
      <3>1. ~Has(m, Op("increment", g))' /\ Has(m, Op("decrement", g))' /\ Cardinality(Present(m, g)') = n - 1
        BY <1>2, <1>3, <2>1, <2>3
      <3>2. Target(m, g)' = Cardinality(Present(m, g)') + 1
        BY <3>1 DEF Target
      <3> QED BY <3>1, <3>2
    <2>4. CASE \A u \in Users : event \notin {Join(g, u), Quit(g, u)}
      <3>1. ~Has(m, Op("increment", g))' /\ ~Has(m, Op("decrement", g))' /\ Cardinality(Present(m, g)') = n
        BY <1>2, <1>3, <2>4
      <3>2. Target(m, g)' = Cardinality(Present(m, g)')
        BY <3>1 DEF Target
      <3> QED BY <3>1, <3>2
    <2> QED BY <2>2, <2>3, <2>4
  <1>6. ~UsesCount(m, g)'
    BY <1>1, <1>2, <1>3 DEF UsesCount
  <1>7. \A op \in Items(todo'[m]) : op.do # "guild"
    BY <1>1, <1>2
  <1> QED BY <1>1, <1>4, <1>5, <1>6, <1>7 DEF CountOK

\* A create event brings the count along.
LEMMA TakesCreateCount ==
    ASSUME NEW m \in Managers, NEW g \in Guilds, NEW event, NEW s, Comes(m, g, event, s),
           event.type = "create", Present(m, g)' = event.content.member
    PROVE  CountOK(m, g)'
  <1>1. Tells(s, event, g) /\ todo'[m] = s
    BY DEF Comes
  <1>2. /\ \A op \in Items(s) : About(op, g)
        /\ \E op \in Items(s) : op.do = "guild"
        /\ \A op \in Items(s) :
              /\ op.do \in {"increment", "decrement", "rewrite"} => Op("readGuild", g) \in Items(s)
              /\ op.do = "guild" => op.count = Cardinality(event.content.member)
    BY <1>1, Zenon DEF Tells
  <1>3. StoresCount(m, g)'
    BY <1>1, <1>2 DEF StoresCount, About
  <1>4. ~UsesCount(m, g)'
    <2>1. Has(m, Op("readGuild", g))' <=> Op("readGuild", g) \in Items(s)
      BY <1>1 DEF Has, Op
    <2> QED BY <1>1, <1>2, <2>1 DEF UsesCount
  <1> QED BY <1>1, <1>2, <1>3, <1>4 DEF CountOK

\* Counts as the manager comes to an event.
LEMMA TakesCounts ==
    ASSUME TInv, NEW m \in Managers, Handle(m), NEW g \in Guilds, NEW event, event = Head(inbox[m]),
           NEW s, Comes(m, g, event, s), Known(m, g), CountsOK(m, g)
    PROVE  CountsOK(m, g)'
  <1>1. unseen' = unseen /\ event \in Events /\ event.guild = g
    BY DEF Comes, world
  <1> SUFFICES ASSUME unseen[g] = {}
               PROVE  IsFiniteSet(Present(m, g)') /\ (Synced(m, g)' => CountOK(m, g)')
    BY <1>1 DEF CountsOK
  <1>2. IsFiniteSet(Present(m, g)) /\ (Synced(m, g) => CountOK(m, g))
    BY DEF CountsOK
  <1>3. PICK P : P = Present(m, g)
    OBVIOUS
  <1>4. PICK n : n = Cardinality(P)
    OBVIOUS
  <1>5. n \in Nat /\ IsFiniteSet(P)
    BY <1>2, <1>3, <1>4, FS_CardinalityType
  <1>6. /\ \A u \in Users : event = Join(g, u) => u \notin P /\ Present(m, g)' = P \union {u}
        /\ \A u \in Users : event = Quit(g, u) => u \in P /\ Present(m, g)' = P \ {u}
        /\ (\A u \in Users : event \notin {Join(g, u), Quit(g, u)}) => Present(m, g)' = P
        /\ event.type = "create" => Present(m, g)' = event.content.member
    <2>1. \A u \in Entities.member : FitsOK(m, g, u)
      BY DEF Known
    <2> QED BY <1>1, <1>3, <2>1, TakesPresent
  <1>7. ASSUME NEW u \in Users, event = Join(g, u)
        PROVE  IsFiniteSet(Present(m, g)') /\ Cardinality(Present(m, g)') = n + 1
    BY <1>4, <1>5, <1>6, <1>7, FS_AddElement
  <1>8. ASSUME NEW u \in Users, event = Quit(g, u)
        PROVE  IsFiniteSet(Present(m, g)') /\ Cardinality(Present(m, g)') = n - 1
    BY <1>4, <1>5, <1>6, <1>8, FS_RemoveElement
  <1>9. ASSUME \A u \in Users : event \notin {Join(g, u), Quit(g, u)}
        PROVE  IsFiniteSet(Present(m, g)') /\ Cardinality(Present(m, g)') = n
    BY <1>4, <1>5, <1>6, <1>9
  <1>10. IsFiniteSet(Present(m, g)')
    BY <1>7, <1>8, <1>9
  <1>11. ASSUME Synced(m, g)'
         PROVE  CountOK(m, g)'
    <2>1. CASE event.type = "create"
      BY <1>6, <2>1, TakesCreateCount
    <2>2. CASE event.type # "create"
      <3>1. CountOK(m, g)
        BY <1>2, <1>11, <2>2 DEF Comes
      <3>2. Cardinality(Present(m, g)) = n
        BY <1>3, <1>4
      <3> QED BY <1>5, <1>7, <1>8, <1>9, <2>2, <3>1, <3>2, TakesCount
    <2> QED BY <2>1, <2>2
  <1> QED BY <1>10, <1>11

\* The manager comes to an event of the guild.
LEMMA HandleOwn ==
    ASSUME TInv, FullOK, NEW m \in Managers, Handle(m), NEW g \in Guilds, Head(inbox[m]).guild = g,
           GuildOK(m, g)
    PROVE  GuildOK(m, g)'
  <1>1. PICK event : event = Head(inbox[m])
    OBVIOUS
  <1>2. PICK s : s = Handler(event)
    OBVIOUS
  <1>3. inbox[m] \in Seq(Events) /\ inbox[m] # <<>> /\ UNCHANGED world
    BY DEF Handle, TInv, InboxOK
  <1>4. event \in Items(inbox[m]) /\ event \in Events
    <2>1. event \in Items(inbox[m])
      BY <1>1, <1>3, ItemsTail
    <2>2. event \in Events
      BY <1>1, <1>3
    <2> QED BY <2>1, <2>2
  <1>5. Comes(m, g, event, s)
    BY <1>1, <1>2, <1>4, HandleComes
  <1>6. Known(m, g)'
    <2>1. ASSUME NEW u \in Entities.member \ unseen[g]
          PROVE  FitsOK(m, g, u)'
      <3>1. FitsOK(m, g, u)
        BY DEF GuildOK, Known
      <3> QED BY <1>1, <3>1, TakesEvent
    <2>2. unseen' = unseen
      BY <1>3 DEF world
    <2> QED BY <2>1, <2>2 DEF Known
  <1>7. Known(m, g) /\ KeysOK(m, g) /\ HeldOK(m, g) /\ MutualsOK(m, g) /\ WholeOK(m, g) /\ CountsOK(m, g)
    BY DEF GuildOK
  <1>8. KeysOK(m, g)'
    BY <1>1, <1>5, <1>7, TakesKeys
  <1>9. HeldOK(m, g)'
    BY <1>1, <1>5, <1>7, TakesHeld
  <1>10. MutualsOK(m, g)'
    BY <1>1, <1>5, <1>7, TakesMutuals
  <1>11. WholeOK(m, g)'
    BY <1>1, <1>4, <1>5, <1>7, TakesWhole
  <1>12. CountsOK(m, g)'
    BY <1>1, <1>5, <1>7, TakesCounts
  <1> QED BY <1>6, <1>8, <1>9, <1>10, <1>11, <1>12 DEF GuildOK

-----------------------------------------------------------------------------
(* Members: every step, and what holds at rest                              *)

\* Members: the invariant.  Every guild that counts is in order with the one
\* manager that ever had a bot in it.
MembersOK ==
    \A g \in Guilds \ (lost \union torn) : \A m \in Managers : served[g] \subseteq {m} => GuildOK(m, g)

\* In the beginning a guild with a bot is cached, and nothing is to be done.
LEMMA InitGuild ==
    ASSUME Init, NEW m \in Managers, NEW g \in Guilds
    PROVE  GuildOK(m, g)
  <1>1. /\ todo[m] = <<>> /\ inbox[m] = <<>> /\ dedupe = {} /\ truth[g] = Basic
        /\ guilds[g] = (IF bots[g] = {} THEN None ELSE 1) /\ (bots[g] # {} => g \in emojis)
    BY DEF Init
  <1>2. Basic.member = {Self} /\ Basic.role = {Everyone}
    BY DEF Basic
  <1>3. \A u : In(m, g, u) <=> u = Self
    BY <1>1, <1>2 DEF In, There
  <1>4. /\ \A x : ~Has(m, x)
        /\ \A k, key, e : ~Storing(m, k, key, e)
        /\ \A u : ~WritingBack(m, g, u)
        /\ ~StoresCount(m, g) /\ ~UsesCount(m, g)
    BY <1>1, NothingBefore
  <1>5. /\ parts["role"][g] = IF bots[g] # {} THEN {Everyone} ELSE None
        /\ parts["member"][g] = IF bots[g] # {} THEN {Self} ELSE None
        /\ \A u \in Users : parts["mutual"][u] = None
    <2>1. parts = [k \in Tables |-> [key \in Keys(k) |->
             IF k \in {"role", "member"} /\ bots[key] # {} THEN Basic[k] ELSE None]]
      BY DEF Init
    <2>2. ASSUME NEW k \in Tables, NEW key \in Keys(k)
          PROVE  parts[k][key] = IF k \in {"role", "member"} /\ bots[key] # {} THEN Basic[k] ELSE None
      BY <2>1
    <2>3. /\ "role" \in Tables /\ g \in Keys("role") /\ "member" \in Tables /\ g \in Keys("member")
          /\ "mutual" \in Tables /\ Keys("mutual") = Users
      BY TableKinds
    <2>4. parts["role"][g] = IF bots[g] # {} THEN {Everyone} ELSE None
      BY <1>2, <2>2, <2>3
    <2>5. parts["member"][g] = IF bots[g] # {} THEN {Self} ELSE None
      BY <1>2, <2>2, <2>3
    <2>6. \A u \in Users : parts["mutual"][u] = None
      BY <2>2, <2>3
    <2> QED BY <2>4, <2>5, <2>6
  <1>6. {Everyone} # None /\ {Self} # None
    BY ConstantsAssumption
  <1>7. Known(m, g)
    <2>1. ASSUME NEW u PROVE FitsOK(m, g, u)
      <3>1. Len(inbox[m]) = 0
        BY <1>1
      <3> QED BY <3>1 DEF FitsOK, Fits
    <2> QED BY <2>1 DEF Known
  <1>8. KeysOK(m, g)
    <2>1. ASSUME NEW u, NEW kind PROVE KeyOK(m, g, u, kind)
      BY <1>1, <1>4 DEF KeyOK
    <2> QED BY <2>1 DEF KeysOK
  <1>9. HeldOK(m, g)
    <2>1. ASSUME NEW u PROVE MemberOK(m, g, u)
      <3>1. Held("member", g) = IF bots[g] # {} THEN {Self} ELSE {}
        BY <1>5, <1>6 DEF Held
      <3>2. u = Self => Kept(u)
        BY DEF Kept
      <3> QED BY <1>3, <1>4, <3>1, <3>2 DEF MemberOK, Synced
    <2> QED BY <2>1 DEF HeldOK
  <1>10. MutualsOK(m, g)
    <2>1. ASSUME NEW u \in Users PROVE MutualOK(m, g, u)
      <3>1. Held("mutual", u) = {}
        BY <1>5 DEF Held
      <3> QED BY <1>4, <3>1 DEF MutualOK
    <2> QED BY <2>1 DEF MutualsOK
  <1>11. WholeOK(m, g)
    BY <1>1, <1>5, <1>6 DEF WholeOK, SomeOf, Synced
  <1>12. CountsOK(m, g)
    <2>1. Present(m, g) = {Self}
      BY <1>3 DEF Present, Entities
    <2>2. IsFiniteSet({Self}) /\ Cardinality({Self}) = 1
      BY FS_Singleton
    <2>3. Target(m, g) = 1
      BY <1>4, <2>1, <2>2 DEF Target
    <2>4. \A op \in Items(todo[m]) : ~(op.do = "guild" /\ op.guild = g)
      BY <1>4 DEF StoresCount
    <2> QED BY <1>1, <1>4, <2>1, <2>2, <2>3, <2>4 DEF CountsOK, CountOK, Synced
  <1> QED BY <1>7, <1>8, <1>9, <1>10, <1>11, <1>12 DEF GuildOK

\* Everything is in order in the beginning.
LEMMA InitMembers ==
    ASSUME Init
    PROVE  OrderOK /\ FullOK /\ MembersOK
  <1>1. \A m \in Managers : todo[m] = <<>> /\ inbox[m] = <<>> /\ Items(todo[m]) = {} /\ Items(inbox[m]) = {}
    BY NothingItems DEF Init
  <1>2. OrderOK
    BY <1>1, NothingSingle DEF OrderOK
  <1>3. FullOK
    <2>1. \A g \in Guilds : truth[g] = Basic
      BY DEF Init
    <2>2. Everyone \in Basic.role
      BY DEF Basic
    <2> QED BY <1>1, <2>1, <2>2 DEF FullOK
  <1> QED BY <1>2, <1>3, InitGuild DEF MembersOK

\* A step of the guild's own reader.
LEMMA ReaderOwn ==
    ASSUME TInv, HandlersOK, OrderOK, FullOK, NEW m \in Managers, Reader(m), ~Load(m),
           NEW g \in Guilds, g \notin lost', GuildOK(m, g),
           IF Handle(m) THEN Head(inbox[m]).guild = g ELSE About(Head(todo[m]), g)
    PROVE  GuildOK(m, g)'
  <1>1. CASE Handle(m)
    BY <1>1, HandleOwn
  <1>2. CASE ~Handle(m)
    <2>1. About(Head(todo[m]), g)
      BY <1>2
    <2>2. \/ Passes(m) \/ Store(m) \/ Drop(m) \/ ReadGuild(m) \/ ReadPart(m) \/ Rewrite(m) \/ Check(m)
      BY <1>2 DEF Reader, Passes
    <2>3. CASE Check(m)
      BY <2>1, <2>3, CheckOwn, CheckDropsOwn
    <2> QED BY <2>1, <2>2, <2>3, PassesOwn, StoreOwn, DropOwn, ReadGuildOwn, ReadPartOwn, RewriteOwn
  <1> QED BY <1>1, <1>2

\* The others' steps, and those about other guilds, leave the guild in order.
LEMMA ReaderMembers ==
    ASSUME TInv, HandlersOK, OrderOK, FullOK, OrderOK', NEW n \in Managers, Reader(n),
           NEW g \in Guilds, NEW m \in Managers, served[g] \subseteq {m}, g \notin lost', GuildOK(m, g)
    PROVE  GuildOK(m, g)'
  <1>1. Known(m, g)
    BY DEF GuildOK
  <1>2. ASSUME Aside(m, g) PROVE GuildOK(m, g)'
    BY <1>2, AsideKeeps
  <1>3. CASE Load(n)
    <2>1. UNCHANGED <<world, inbox, todo, before, state>>
      BY <1>3 DEF Load
    <2> QED BY <1>1, <1>2, <2>1, SameAside
  <1>4. CASE Handle(n)
    <2>1. CASE n # m \/ Head(inbox[n]).guild # g
      BY <1>1, <1>2, <1>4, <2>1, HandleAside
    <2>2. CASE n = m /\ Head(inbox[n]).guild = g
      BY <1>4, <2>2, HandleOwn
    <2> QED BY <2>1, <2>2
  <1>5. CASE ~Load(n) /\ ~Handle(n)
    <2>1. todo[n] # <<>>
      BY <1>5, ZenonT(60) DEF Reader, Reference, Unreference, StoreGuild, Increment, Decrement, StoreEmojis,
           RemoveEmojis, Store, Drop, ReadGuild, ReadPart, Rewrite, Check, Mark, Unmark, Doing
    <2>2. todo[n] \in Seq(Operations)
      BY DEF TInv, TodoOK
    <2>3. Head(todo[n]) \in Items(todo[n])
      BY <2>1, <2>2, ItemsTail
    <2>4. PICK h \in Guilds : About(Head(todo[n]), h) /\ n \in served[h]
      BY <2>3 DEF OrderOK
    <2>5. CASE g # h
      BY <1>1, <1>2, <1>5, <2>4, <2>5, ReaderAside
    <2>6. CASE g = h
      <3>1. n = m
        BY <2>4, <2>6
      <3> QED BY <1>5, <2>4, <2>6, <3>1, ReaderOwn
    <2> QED BY <2>5, <2>6, Zenon
  <1> QED BY <1>3, <1>4, <1>5

\* What makes a guild no longer count stays.
LEMMA ExceptionsGrow ==
    ASSUME TInv, WorldOK, [Next]_vars, NEW g \in Guilds
    PROVE  served[g] \subseteq served'[g] /\ lost \subseteq lost' /\ torn \subseteq torn'
  <1>1. CASE Discord
    <2>1. Grows
      BY <1>1, WorldSteps
    <2>2. UNCHANGED <<state, torn>>
      BY <1>1, DiscordSpares
    <2> QED BY <2>1, <2>2 DEF Grows, state
  <1>2. ASSUME NEW m \in Managers, Reader(m)
        PROVE  served' = served /\ lost \subseteq lost' /\ torn' = torn
    <2>1. CASE Store(m) \/ Drop(m)
      BY <2>1 DEF Store, Drop, world
    <2>2. CASE ~(Store(m) \/ Drop(m))
      BY <1>2, <2>2 DEF Reader, Handle, Reference, Unreference, StoreGuild, Increment, Decrement,
           StoreEmojis, RemoveEmojis, Load, ReadGuild, ReadPart, Rewrite, Check, Mark, Unmark, world, state
    <2> QED BY <2>1, <2>2, SMTT(60)
  <1>3. CASE Ejector
    BY <1>3 DEF Ejector, BeginEject, ListVictims, EndEject, Scan, Remove, world, state
  <1>4. CASE (\E key \in dedupe : ExpireKey(key)) \/ UNCHANGED vars
    BY <1>4 DEF ExpireKey, vars, world, state
  <1> QED BY <1>1, <1>2, <1>3, <1>4 DEF Next

\* Every step keeps the guilds in order.
LEMMA NextMembers ==
    ASSUME TInv, WorldOK, HandlersOK, OrderOK, FullOK, MembersOK, [Next]_vars
    PROVE  MembersOK'
  <1> SUFFICES ASSUME NEW g \in Guilds, g \notin lost', g \notin torn', NEW m \in Managers,
                      served'[g] \subseteq {m}
               PROVE  GuildOK(m, g)'
    BY DEF MembersOK
  <1>1. served[g] \subseteq {m} /\ g \notin lost /\ g \notin torn
    BY ExceptionsGrow
  <1>2. GuildOK(m, g) /\ Known(m, g)
    BY <1>1 DEF MembersOK, GuildOK
  <1>3. OrderOK'
    BY NextOrder
  <1>4. ASSUME Aside(m, g) PROVE GuildOK(m, g)'
    BY <1>2, <1>3, <1>4, AsideKeeps
  <1>5. CASE Discord
    BY <1>2, <1>4, <1>5, DiscordAside
  <1>6. ASSUME NEW n \in Managers, Reader(n)
        PROVE  GuildOK(m, g)'
    BY <1>1, <1>2, <1>3, <1>6, ReaderMembers
  <1>7. CASE Ejector
    BY <1>2, <1>4, <1>7, EjectorAside
  <1>8. ASSUME NEW key \in dedupe, ExpireKey(key)
        PROVE  GuildOK(m, g)'
    BY <1>2, <1>4, <1>8, ExpireAside
  <1>9. CASE UNCHANGED vars
    <2>1. UNCHANGED <<world, inbox, todo, before, state>>
      BY <1>9 DEF vars
    <2> QED BY <1>2, <1>4, <2>1, SameAside
  <1> QED BY <1>5, <1>6, <1>7, <1>8, <1>9 DEF Next

\* At rest nobody is about to change anything.
LEMMA MembersMatches ==
    ASSUME TInv, WorldOK, MembersOK
    PROVE  MembersMatch
  <1> SUFFICES ASSUME NEW g \in Guilds \ (lost \union torn), AtRest(g), Alone(g), bots[g] # {}
               PROVE  /\ (Held("member", g) \ unseen[g]) = (Expected("member", g) \ unseen[g])
                      /\ unseen[g] = {} => guilds[g] = Cardinality(truth[g].member)
                      /\ \A u \in Users \ (lost \union unseen[g]) :
                            g \in Held("mutual", u) => u \in truth[g].member
    BY DEF MembersMatch
  <1>1. PICK m \in Managers : m \in bots[g] /\ served[g] \subseteq {m}
    <2>1. bots[g] \subseteq Managers /\ bots[g] \subseteq served[g]
      BY DEF WorldOK
    <2>2. PICK m : m \in bots[g]
      OBVIOUS
    <2>3. \A n \in served[g] : m = n
      BY <2>1, <2>2, AloneIsOne
    <2> QED BY <2>1, <2>2, <2>3
  <1>2. GuildOK(m, g)
    BY <1>1 DEF MembersOK
  <1>3. todo[m] = <<>> /\ inbox[m] = <<>> /\ Items(inbox[m]) = {}
    BY NothingItems DEF AtRest
  <1>4. \A u : In(m, g, u) <=> u \in truth[g].member
    BY <1>3 DEF In, There
  <1>5. /\ \A x : ~Has(m, x)
        /\ \A k, key, e : ~Storing(m, k, key, e)
        /\ ~StoresCount(m, g)
    BY <1>3, NothingBefore
  <1>6. Synced(m, g)
    BY <1>3 DEF Synced
  <1>7. truth[g].member \subseteq Entities.member
    BY DEF TInv, TruthOK, FullContents, Contents
  <1>8. (Held("member", g) \ unseen[g]) = (Expected("member", g) \ unseen[g])
    <2>1. Held("member", g) \subseteq Entities.member
      BY TableKinds DEF TInv, PartsOK, Held
    <2>2. \A u : u \in Expected("member", g) <=> u \in truth[g].member /\ Kept(u)
      <3>1. Expected("member", g) = Cacheable("member", truth[g].member)
        BY DEF Expected
      <3> QED BY <3>1, CacheableKeeps
    <2>3. ASSUME NEW u \in Entities.member \ unseen[g]
          PROVE  u \in Held("member", g) <=> u \in truth[g].member /\ Kept(u)
      <3>1. MemberOK(m, g, u)
        BY <1>2 DEF GuildOK, HeldOK
      <3> QED BY <1>4, <1>5, <1>6, <3>1 DEF MemberOK
    <2> QED BY <1>7, <2>1, <2>2, <2>3
  <1>9. ASSUME unseen[g] = {} PROVE guilds[g] = Cardinality(truth[g].member)
    <2>1. Present(m, g) = truth[g].member
      BY <1>4, <1>7 DEF Present
    <2>2. CountOK(m, g)
      BY <1>2, <1>6, <1>9 DEF GuildOK, CountsOK
    <2>3. guilds[g] = Target(m, g)
      BY <1>5, <2>2 DEF CountOK
    <2> QED BY <1>5, <2>1, <2>3 DEF Target
  <1>10. ASSUME NEW u \in Users \ (lost \union unseen[g]), g \in Held("mutual", u)
         PROVE  u \in truth[g].member
    <2>1. MutualOK(m, g, u)
      BY <1>2 DEF GuildOK, MutualsOK
    <2> QED BY <1>4, <1>5, <1>10, <2>1 DEF MutualOK
  <1> QED BY <1>8, <1>9, <1>10

\* At rest the cache has the members each guild has and their number, for any
\* managers, guilds, users and settings, as long as one manager alone ever had a bot
\* in the guild: however often members come and go, however late the readers are, and
\* however the keys expire and the ejector runs meanwhile: but for what changed
\* unseen, a change that went to a map no longer in use, and the guilds ejected in
\* spite of a bot in them.
THEOREM MembersKept == Spec => []MembersMatch
  <1> DEFINE Inv == IInv /\ TInv /\ WorldOK /\ HandlersOK /\ OrderOK /\ FullOK /\ MembersOK
  <1>1. Init => Inv
    BY InitIInv, InitTInv, InitPlain, InitMembers
  <1>2. Inv /\ [Next]_vars => Inv'
    BY NextIInv, NextTInv, NextHandlers, NextOrder, NextFull, NextMembers
  <1>3. Inv => MembersMatch
    BY MembersMatches
  <1> QED BY <1>1, <1>2, <1>3, PTL DEF Spec
=============================================================================
