------------------------------ MODULE ShardProofs ------------------------------
(***************************************************************************)
(* Proofs about Shard, for every bound: type correctness, that a           *)
(* connection that is up is attended, that no event is skipped, and that a *)
(* shard, as its group sees it, implements ShardLife.                      *)
(***************************************************************************)
EXTENDS ShardInGroup, TLAPS

USE DEF shardVars, sessionVars, frameVars, discordVars, boundVars, vars

\* Moving a goroutine to another place moves no other goroutine.
LEMMA GotoMoves ==
    ASSUME TypeOK, NEW t \in Threads, NEW l \in PC, Goto(t, l)
    PROVE  /\ pc' \in [Threads -> PC]
           /\ pc'[t] = l
           /\ \A u \in Threads \ {t} : pc'[u] = pc[u]
  BY DEF TypeOK, Goto

\* A failed Connect sends the listener back, or on when its context was done.
LEMMA ConnectFailedMoves ==
    ASSUME TypeOK, NEW isCanceled \in BOOLEAN, ConnectFailed(isCanceled)
    PROVE  /\ pc' \in [Threads -> PC]
           /\ pc'[Listener] \in {"opened", "connect"}
           /\ pc'[Listener] = "opened" => isCanceled
           /\ pc'[Heart] = pc[Heart]
           /\ depth' \in Nat /\ opening' \in BOOLEAN /\ retries' \in Nat
           /\ waiting' = waiting
  <1>1. Listener \in Threads /\ Heart \in Threads \ {Listener}
    BY DEF Threads, Listener, Heart, Closer
  <1>2. "opened" \in PC /\ "connect" \in PC
    BY DEF PC, ReconnectPC
  <1>3. CASE opening /\ depth = 0
    <2>1. CASE isCanceled
      <3>1. Goto(Listener, "opened") /\ opening' = FALSE
        BY <1>3, <2>1 DEF ConnectFailed
      <3> QED BY <1>1, <1>2, <1>3, <2>1, <3>1, GotoMoves
              DEF ConnectFailed, TypeOK
    <2>2. CASE ~isCanceled
      <3>1. Goto(Listener, "connect") /\ opening' = TRUE
        BY <1>3, <2>2 DEF ConnectFailed
      <3> QED BY <1>1, <1>2, <1>3, <2>2, <3>1, GotoMoves
              DEF ConnectFailed, TypeOK
    <2> QED BY <2>1, <2>2
  <1>4. CASE ~(opening /\ depth = 0)
    <2>1. /\ Goto(Listener, "connect")
          /\ retries' = retries + 1
          /\ UNCHANGED <<depth, opening, waiting>>
      BY <1>4 DEF ConnectFailed
    <2> QED BY <1>1, <1>2, <2>1, GotoMoves DEF TypeOK
  <1> QED BY <1>3, <1>4

\* Every step keeps every variable's type.
LEMMA TypeStep == TypeOK /\ [Next]_vars => TypeOK'
  <1> SUFFICES ASSUME TypeOK, [Next]_vars
               PROVE  TypeOK'
    OBVIOUS
  <1> USE ConstantsAssumption
      DEF TypeOK, PC, ReconnectPC, Threads, Listener, Heart, Closer, Goto,
          ShardStatus, Link, Dropped, MessageType, NoMessage, Disturb, Dispatch,
          Receive, Handle
  <1>1. ASSUME NEW t \in Threads, BeginReconnect(t) PROVE TypeOK'
    BY <1>1 DEF BeginReconnect
  <1>2. ASSUME NEW t \in Threads, Close(t) PROVE TypeOK'
    <2>1. pc' \in [Threads -> PC]
      BY <1>2 DEF Close
    <2>2. isReady' \in BOOLEAN /\ status' \in ShardStatus /\ cancelled' \in BOOLEAN
      BY <1>2 DEF Close
    <2> QED
      <3> HIDE DEF Goto, PC, Threads
      <3> QED BY <1>2, <2>1, <2>2 DEF Close
  <1>3. ASSUME NEW t \in Threads, CloseWS(t) PROVE TypeOK'
    <2>1. pc' \in [Threads -> PC]
      BY <1>3 DEF CloseWS
    <2>2. hasWsConn' \in BOOLEAN /\ status' \in ShardStatus
      BY <1>3 DEF CloseWS
    <2> QED
      <3> HIDE DEF Goto, PC, Threads
      <3> QED BY <1>3, <2>1, <2>2 DEF CloseWS
  <1>4. ASSUME NEW t \in Threads, BeginConnect(t) PROVE TypeOK'
    BY <1>4, ZenonT(60) DEF BeginConnect
  <1>5. CASE BeginClose
    BY <1>5 DEF BeginClose
  <1>6. CASE NewContext
    <2>1. pc' \in [Threads -> PC]
      BY <1>6 DEF NewContext
    <2>2. dead' \in BOOLEAN /\ cancelled' \in BOOLEAN
      BY <1>6 DEF NewContext
    <2> QED
      <3> HIDE DEF Goto, PC, Threads
      <3> QED BY <1>6, <2>1, <2>2 DEF NewContext
  <1>7. CASE Dial
    BY <1>7 DEF Dial
  <1>8. CASE FailDial
    <2>1. /\ pc' \in [Threads -> PC]
          /\ depth' \in Nat /\ opening' \in BOOLEAN /\ retries' \in Nat
          /\ waiting' \in BOOLEAN
      BY <1>8, ConnectFailedMoves DEF FailDial
    <2> QED BY <1>8, <2>1 DEF FailDial
  <1>9. CASE CancelDial
    <2>1. /\ pc' \in [Threads -> PC]
          /\ depth' \in Nat /\ opening' \in BOOLEAN /\ retries' \in Nat
          /\ waiting' \in BOOLEAN
      BY <1>9, ConnectFailedMoves DEF CancelDial
    <2> QED BY <1>9, <2>1 DEF CancelDial
  <1>10. CASE AwaitHello
    BY <1>10 DEF AwaitHello
  <1>11. CASE ReadHello
    BY <1>11 DEF ReadHello
  <1>12. CASE FailConnect
    <2>1. PICK isCanceled \in BOOLEAN : ConnectFailed(isCanceled)
      BY <1>12 DEF FailConnect
    <2>2. status' \in ShardStatus
      BY <1>12 DEF FailConnect
    <2> QED BY <1>12, <2>1, <2>2, ConnectFailedMoves, ZenonT(60) DEF FailConnect
  <1>13. CASE Identify
    BY <1>13 DEF Identify
  <1>14. CASE Resume
    BY <1>14 DEF Resume
  <1>15. CASE ReconnectToIdentify
    BY <1>15 DEF ReconnectToIdentify
  <1>16. CASE ReturnConnect
    <2>1. retries' \in Nat
      BY <1>16 DEF ReturnConnect
    <2>2. pc' \in [Threads -> PC]
      BY <1>16 DEF ReturnConnect
    <2>3. opening' \in BOOLEAN
      BY <1>16 DEF ReturnConnect
    <2> QED
      <3> HIDE DEF Goto, PC, Threads
      <3> QED BY <1>16, <2>1, <2>2, <2>3 DEF ReturnConnect
  <1>17. CASE ReturnToIdentify
    <2>1. depth' \in Nat /\ retries' \in Nat
      BY <1>17 DEF ReturnToIdentify
    <2>2. status' \in ShardStatus
      BY <1>17 DEF ReturnToIdentify
    <2> QED BY <1>17, <2>1, <2>2, ZenonT(60) DEF ReturnToIdentify
  <1>18. CASE Listen
    BY <1>18 DEF Listen
  <1>19. CASE BeginRead
    BY <1>19 DEF BeginRead
  <1>20. CASE ReceiveReady
    BY <1>20 DEF ReceiveReady
  <1>21. CASE ReceiveEvent
    BY <1>21 DEF ReceiveEvent
  <1>22. CASE ReceiveResumed
    BY <1>22 DEF ReceiveResumed
  <1>23. CASE ReceiveRejection
    BY <1>23 DEF ReceiveRejection
  <1>24. CASE ReceiveRequest
    BY <1>24 DEF ReceiveRequest
  <1>25. CASE ReadError
    BY <1>25 DEF ReadError
  <1>26. CASE HandleEvent
    BY <1>26 DEF HandleEvent
  <1>27. CASE HandleReady
    BY <1>27 DEF HandleReady
  <1>28. CASE HandleResumed
    BY <1>28 DEF HandleResumed
  <1>29. CASE HandleReconnect
    BY <1>29 DEF HandleReconnect
  <1>30. CASE HandleInvalidSession
    <2>1. pc' \in [Threads -> PC]
      BY <1>30 DEF HandleInvalidSession
    <2>2. sessionID' \in BOOLEAN /\ sequence' \in Nat /\ inbox' = NoMessage
      BY <1>30 DEF HandleInvalidSession
    <2> QED
      <3> HIDE DEF Goto, PC, Threads
      <3> QED BY <1>30, <2>1, <2>2 DEF HandleInvalidSession
  <1>31. CASE ReadInReady
    BY <1>31 DEF ReadInReady
  <1>32. CASE EndReady
    BY <1>32 DEF EndReady
  <1>33. CASE RecoverReady
    BY <1>33 DEF RecoverReady
  <1>34. CASE StopHeart
    BY <1>34 DEF StopHeart
  <1>35. CASE FailHeart
    BY <1>35 DEF FailHeart
  <1>36. CASE ReconnectToBeat
    BY <1>36 DEF ReconnectToBeat
  <1>37. CASE Emit
    BY <1>37 DEF Emit
  <1>38. CASE Drop
    BY <1>38 DEF Drop
  <1>39. CASE FallSilent
    BY <1>39 DEF FallSilent
  <1>40. CASE UNCHANGED vars
    BY <1>40
  <1>41. CASE WaitForReady
    <2> HIDE DEF Goto, PC, Threads, ShardStatus, Link, MessageType
    <2> QED BY <1>41 DEF WaitForReady
  <1>42. CASE TakeToken
    <2> HIDE DEF Goto, PC, Threads, ShardStatus, Link, MessageType
    <2> QED BY <1>42 DEF TakeToken
  <1> QED
    BY <1>1, <1>2, <1>3, <1>4, <1>5, <1>6, <1>7, <1>8, <1>9, <1>10, <1>11, <1>12,
            <1>13, <1>14, <1>15, <1>16, <1>17, <1>18, <1>19, <1>20, <1>21, <1>22,
            <1>23, <1>24, <1>25, <1>26, <1>27, <1>28, <1>29, <1>30, <1>31, <1>32,
            <1>33, <1>34, <1>35, <1>36, <1>37, <1>38, <1>39, <1>40, <1>41, <1>42
    DEF Next, ListenerStep, DiscordStep, HeartStep, CloserStep, Reconnect, Threads

\* Every step keeps contexts and connections together.
LEMMA ContextStep == IInv /\ [Next]_vars => ContextInv'
  <1> SUFFICES ASSUME IInv, [Next]_vars
               PROVE  ContextInv'
    OBVIOUS
  <1> USE DEF IInv, TypeOK, ContextInv, Threads, Listener, Heart, Closer, Goto,
          Dropped, Disturb, Receive, Handle
  <1>1. ASSUME NEW t \in Threads, BeginReconnect(t) PROVE ContextInv'
    BY <1>1 DEF BeginReconnect
  <1>2. ASSUME NEW t \in Threads, Close(t) PROVE ContextInv'
    BY <1>2 DEF Close
  <1>3. ASSUME NEW t \in Threads, CloseWS(t) PROVE ContextInv'
    BY <1>3 DEF CloseWS
  <1>4. ASSUME NEW t \in Threads, BeginConnect(t) PROVE ContextInv'
    BY <1>4 DEF BeginConnect
  <1>5. CASE BeginClose
    BY <1>5 DEF BeginClose
  <1>6. CASE NewContext
    BY <1>6 DEF NewContext
  <1>7. CASE Dial
    BY <1>7 DEF Dial
  <1>8. CASE FailDial
    BY <1>8, ConnectFailedMoves DEF FailDial
  <1>9. CASE CancelDial
    BY <1>9, ConnectFailedMoves DEF CancelDial
  <1>10. CASE AwaitHello
    BY <1>10 DEF AwaitHello
  <1>11. CASE ReadHello
    BY <1>11 DEF ReadHello
  <1>12. CASE FailConnect
    <2>1. PICK isCanceled \in BOOLEAN : ConnectFailed(isCanceled)
      BY <1>12 DEF FailConnect
    <2> QED BY <1>12, <2>1, ConnectFailedMoves DEF FailConnect
  <1>13. CASE Identify
    BY <1>13 DEF Identify
  <1>14. CASE Resume
    BY <1>14 DEF Resume
  <1>15. CASE ReconnectToIdentify
    BY <1>15 DEF ReconnectToIdentify
  <1>16. CASE ReturnConnect
    BY <1>16 DEF ReturnConnect
  <1>17. CASE ReturnToIdentify
    BY <1>17 DEF ReturnToIdentify
  <1>18. CASE Listen
    BY <1>18 DEF Listen
  <1>19. CASE BeginRead
    BY <1>19 DEF BeginRead
  <1>20. CASE ReceiveReady
    BY <1>20 DEF ReceiveReady
  <1>21. CASE ReceiveEvent
    BY <1>21 DEF ReceiveEvent
  <1>22. CASE ReceiveResumed
    BY <1>22 DEF ReceiveResumed
  <1>23. CASE ReceiveRejection
    BY <1>23 DEF ReceiveRejection
  <1>24. CASE ReceiveRequest
    BY <1>24 DEF ReceiveRequest
  <1>25. CASE ReadError
    BY <1>25 DEF ReadError
  <1>26. CASE HandleEvent
    BY <1>26 DEF HandleEvent
  <1>27. CASE HandleReady
    BY <1>27 DEF HandleReady
  <1>28. CASE HandleResumed
    BY <1>28 DEF HandleResumed
  <1>29. CASE HandleReconnect
    BY <1>29 DEF HandleReconnect
  <1>30. CASE HandleInvalidSession
    BY <1>30, ZenonT(60) DEF HandleInvalidSession
  <1>31. CASE ReadInReady
    BY <1>31 DEF ReadInReady
  <1>32. CASE EndReady
    BY <1>32 DEF EndReady
  <1>33. CASE RecoverReady
    BY <1>33 DEF RecoverReady
  <1>34. CASE StopHeart
    BY <1>34 DEF StopHeart
  <1>35. CASE FailHeart
    BY <1>35 DEF FailHeart
  <1>36. CASE ReconnectToBeat
    BY <1>36 DEF ReconnectToBeat
  <1>37. CASE Emit
    BY <1>37 DEF Emit
  <1>38. CASE Drop
    BY <1>38 DEF Drop
  <1>39. CASE FallSilent
    BY <1>39 DEF FallSilent
  <1>40. CASE UNCHANGED vars
    BY <1>40
  <1>41. CASE WaitForReady
    BY <1>41 DEF WaitForReady
  <1>42. CASE TakeToken
    BY <1>42 DEF TakeToken
  <1> QED
    BY <1>1, <1>2, <1>3, <1>4, <1>5, <1>6, <1>7, <1>8, <1>9, <1>10, <1>11, <1>12,
            <1>13, <1>14, <1>15, <1>16, <1>17, <1>18, <1>19, <1>20, <1>21, <1>22,
            <1>23, <1>24, <1>25, <1>26, <1>27, <1>28, <1>29, <1>30, <1>31, <1>32,
            <1>33, <1>34, <1>35, <1>36, <1>37, <1>38, <1>39, <1>40, <1>41, <1>42
    DEF Next, ListenerStep, DiscordStep, HeartStep, CloserStep, Reconnect, Threads

\* Every step keeps a heartbeat on a live connection.
LEMMA HeartbeatStep == IInv /\ [Next]_vars => HeartInv'
  <1> SUFFICES ASSUME IInv, [Next]_vars
               PROVE  HeartInv'
    OBVIOUS
  <1> USE DEF IInv, TypeOK, ContextInv, HeartInv, Threads, Listener, Heart,
          Closer, Goto, Dropped, HeartStopped, Disturb, Receive, Handle
  <1>1. ASSUME NEW t \in Threads, BeginReconnect(t) PROVE HeartInv'
    BY <1>1 DEF BeginReconnect
  <1>2. ASSUME NEW t \in Threads, Close(t) PROVE HeartInv'
    BY <1>2 DEF Close
  <1>3. ASSUME NEW t \in Threads, CloseWS(t) PROVE HeartInv'
    BY <1>3 DEF CloseWS
  <1>4. ASSUME NEW t \in Threads, BeginConnect(t) PROVE HeartInv'
    BY <1>4 DEF BeginConnect
  <1>5. CASE BeginClose
    BY <1>5 DEF BeginClose
  <1>6. CASE NewContext
    BY <1>6 DEF NewContext
  <1>7. CASE Dial
    BY <1>7 DEF Dial
  <1>8. CASE FailDial
    BY <1>8 DEF FailDial
  <1>9. CASE CancelDial
    BY <1>9 DEF CancelDial
  <1>10. CASE AwaitHello
    BY <1>10 DEF AwaitHello
  <1>11. CASE ReadHello
    BY <1>11 DEF ReadHello
  <1>12. CASE FailConnect
    BY <1>12 DEF FailConnect
  <1>13. CASE Identify
    BY <1>13 DEF Identify
  <1>14. CASE Resume
    BY <1>14 DEF Resume
  <1>15. CASE ReconnectToIdentify
    BY <1>15 DEF ReconnectToIdentify
  <1>16. CASE ReturnConnect
    BY <1>16 DEF ReturnConnect
  <1>17. CASE ReturnToIdentify
    BY <1>17 DEF ReturnToIdentify
  <1>18. CASE Listen
    BY <1>18 DEF Listen
  <1>19. CASE BeginRead
    BY <1>19 DEF BeginRead
  <1>20. CASE ReceiveReady
    BY <1>20 DEF ReceiveReady
  <1>21. CASE ReceiveEvent
    BY <1>21 DEF ReceiveEvent
  <1>22. CASE ReceiveResumed
    BY <1>22 DEF ReceiveResumed
  <1>23. CASE ReceiveRejection
    BY <1>23 DEF ReceiveRejection
  <1>24. CASE ReceiveRequest
    BY <1>24 DEF ReceiveRequest
  <1>25. CASE ReadError
    BY <1>25 DEF ReadError
  <1>26. CASE HandleEvent
    BY <1>26 DEF HandleEvent
  <1>27. CASE HandleReady
    BY <1>27 DEF HandleReady
  <1>28. CASE HandleResumed
    BY <1>28 DEF HandleResumed
  <1>29. CASE HandleReconnect
    BY <1>29 DEF HandleReconnect
  <1>30. CASE HandleInvalidSession
    BY <1>30, ZenonT(60) DEF HandleInvalidSession
  <1>31. CASE ReadInReady
    BY <1>31 DEF ReadInReady
  <1>32. CASE EndReady
    BY <1>32 DEF EndReady
  <1>33. CASE RecoverReady
    BY <1>33 DEF RecoverReady
  <1>34. CASE StopHeart
    BY <1>34 DEF StopHeart
  <1>35. CASE FailHeart
    BY <1>35 DEF FailHeart
  <1>36. CASE ReconnectToBeat
    BY <1>36 DEF ReconnectToBeat
  <1>37. CASE Emit
    BY <1>37 DEF Emit
  <1>38. CASE Drop
    BY <1>38 DEF Drop
  <1>39. CASE FallSilent
    BY <1>39 DEF FallSilent
  <1>40. CASE UNCHANGED vars
    BY <1>40
  <1>41. CASE WaitForReady
    BY <1>41 DEF WaitForReady
  <1>42. CASE TakeToken
    BY <1>42 DEF TakeToken
  <1> QED
    BY <1>1, <1>2, <1>3, <1>4, <1>5, <1>6, <1>7, <1>8, <1>9, <1>10, <1>11, <1>12,
            <1>13, <1>14, <1>15, <1>16, <1>17, <1>18, <1>19, <1>20, <1>21, <1>22,
            <1>23, <1>24, <1>25, <1>26, <1>27, <1>28, <1>29, <1>30, <1>31, <1>32,
            <1>33, <1>34, <1>35, <1>36, <1>37, <1>38, <1>39, <1>40, <1>41, <1>42
    DEF Next, ListenerStep, DiscordStep, HeartStep, CloserStep, Reconnect, Threads

\* Every step keeps session, sequence and events together.
LEMMA SessionStep == IInv /\ [Next]_vars => SessionInv'
  <1> SUFFICES ASSUME IInv, [Next]_vars
               PROVE  SessionInv'
    OBVIOUS
  <1> USE DEF IInv, TypeOK, ContextInv, SessionInv, Unsettled, Delivering, IsEvent,
          Threads, Listener, Heart, Closer, Goto, Dropped, CanResume, Disturb,
          Dispatch, Receive, Handle, NoMessage
  <1>1. ASSUME NEW t \in Threads, BeginReconnect(t) PROVE SessionInv'
    BY <1>1 DEF BeginReconnect
  <1>2. ASSUME NEW t \in Threads, Close(t) PROVE SessionInv'
    BY <1>2 DEF Close
  <1>3. ASSUME NEW t \in Threads, CloseWS(t) PROVE SessionInv'
    BY <1>3 DEF CloseWS
  <1>4. ASSUME NEW t \in Threads, BeginConnect(t) PROVE SessionInv'
    BY <1>4 DEF BeginConnect
  <1>5. CASE BeginClose
    BY <1>5 DEF BeginClose
  <1>6. CASE NewContext
    BY <1>6 DEF NewContext
  <1>7. CASE Dial
    BY <1>7 DEF Dial
  <1>8. CASE FailDial
    BY <1>8 DEF FailDial
  <1>9. CASE CancelDial
    BY <1>9 DEF CancelDial
  <1>10. CASE AwaitHello
    BY <1>10 DEF AwaitHello
  <1>11. CASE ReadHello
    BY <1>11 DEF ReadHello
  <1>12. CASE FailConnect
    BY <1>12 DEF FailConnect
  <1>13. CASE Identify
    BY <1>13 DEF Identify
  <1>14. CASE Resume
    BY <1>14 DEF Resume
  <1>15. CASE ReconnectToIdentify
    BY <1>15 DEF ReconnectToIdentify
  <1>16. CASE ReturnConnect
    BY <1>16 DEF ReturnConnect
  <1>17. CASE ReturnToIdentify
    BY <1>17 DEF ReturnToIdentify
  <1>18. CASE Listen
    BY <1>18 DEF Listen
  <1>19. CASE BeginRead
    BY <1>19 DEF BeginRead
  <1>20. CASE ReceiveReady
    BY <1>20 DEF ReceiveReady
  <1>21. CASE ReceiveEvent
    BY <1>21 DEF ReceiveEvent
  <1>22. CASE ReceiveResumed
    BY <1>22 DEF ReceiveResumed
  <1>23. CASE ReceiveRejection
    BY <1>23 DEF ReceiveRejection
  <1>24. CASE ReceiveRequest
    BY <1>24 DEF ReceiveRequest
  <1>25. CASE ReadError
    BY <1>25 DEF ReadError
  <1>26. CASE HandleEvent
    BY <1>26 DEF HandleEvent
  <1>27. CASE HandleReady
    BY <1>27 DEF HandleReady
  <1>28. CASE HandleResumed
    BY <1>28 DEF HandleResumed
  <1>29. CASE HandleReconnect
    BY <1>29 DEF HandleReconnect
  <1>30. CASE HandleInvalidSession
    BY <1>30 DEF HandleInvalidSession
  <1>31. CASE ReadInReady
    BY <1>31 DEF ReadInReady
  <1>32. CASE EndReady
    BY <1>32 DEF EndReady
  <1>33. CASE RecoverReady
    BY <1>33 DEF RecoverReady
  <1>34. CASE StopHeart
    BY <1>34 DEF StopHeart
  <1>35. CASE FailHeart
    BY <1>35 DEF FailHeart
  <1>36. CASE ReconnectToBeat
    BY <1>36 DEF ReconnectToBeat
  <1>37. CASE Emit
    BY <1>37 DEF Emit
  <1>38. CASE Drop
    BY <1>38 DEF Drop
  <1>39. CASE FallSilent
    BY <1>39 DEF FallSilent
  <1>40. CASE UNCHANGED vars
    BY <1>40
  <1>41. CASE WaitForReady
    BY <1>41 DEF WaitForReady
  <1>42. CASE TakeToken
    BY <1>42 DEF TakeToken
  <1> QED
    BY <1>1, <1>2, <1>3, <1>4, <1>5, <1>6, <1>7, <1>8, <1>9, <1>10, <1>11, <1>12,
            <1>13, <1>14, <1>15, <1>16, <1>17, <1>18, <1>19, <1>20, <1>21, <1>22,
            <1>23, <1>24, <1>25, <1>26, <1>27, <1>28, <1>29, <1>30, <1>31, <1>32,
            <1>33, <1>34, <1>35, <1>36, <1>37, <1>38, <1>39, <1>40, <1>41, <1>42
    DEF Next, ListenerStep, DiscordStep, HeartStep, CloserStep, Reconnect, Threads

\* The initial state satisfies the inductive invariant.
LEMMA InitInv == Init => IInv
  <1> SUFFICES ASSUME Init PROVE IInv
    OBVIOUS
  <1> USE ConstantsAssumption
      DEF Init, NoMessage, Threads, Listener, Heart, Closer, Dropped
  <1>1. TypeOK
    <2>1. pc \in [Threads -> PC]
      BY DEF PC, ReconnectPC
    <2>2. inbox \in [type : MessageType, n : Nat]
      BY DEF MessageType
    <2>3. /\ disturbances \in 0..MaxDisturbances
          /\ silences \in 0..MaxSilences
      OBVIOUS
    <2>4. depth \in Nat /\ retries \in Nat /\ sequence \in Nat /\ sent \in Nat
          /\ next \in Nat /\ top \in Nat
      OBVIOUS
    <2>5. /\ status \in ShardStatus /\ link \in Link
          /\ opening \in BOOLEAN /\ waiting \in BOOLEAN /\ isReady \in BOOLEAN /\ ready \in BOOLEAN
          /\ cancelled \in BOOLEAN /\ hasWsConn \in BOOLEAN
          /\ dead \in BOOLEAN /\ sessionID \in BOOLEAN
      BY DEF ShardStatus, Link
    <2> QED BY <2>1, <2>2, <2>3, <2>4, <2>5 DEF TypeOK
  <1>2. ContextInv /\ HeartInv
    BY DEF ContextInv, HeartInv
  <1>3. SessionInv
    BY DEF SessionInv, IsEvent, Delivering, Unsettled
  <1> QED BY <1>1, <1>2, <1>3 DEF IInv

\* The state of a shard is well typed, whatever the bounds and however often
\* Discord fails it.
THEOREM TypeCorrect == Spec => []TypeOK
  <1>1. Init => TypeOK
    BY InitInv DEF IInv
  <1> QED BY <1>1, TypeStep, PTL DEF Spec

\* The inductive invariant holds throughout.
THEOREM Inductive == Spec => []IInv
  <1>1. IInv /\ [Next]_vars => IInv'
    BY TypeStep, ContextStep, HeartbeatStep, SessionStep DEF IInv
  <1> QED BY <1>1, InitInv, PTL DEF Spec

\* A connection that was greeted is listened to and has had its heartbeat started,
\* however failures, reconnects and a close interleave.
THEOREM Attended == Spec => []UpIsAttended
  <1>1. IInv => UpIsAttended
    BY DEF IInv, ContextInv, HeartInv, UpIsAttended, Dropped
  <1> QED BY <1>1, Inductive, PTL

\* No step dispatches an event beyond the next one of the session.
LEMMA DispatchStep ==
    IInv /\ [Next]_vars => top' \in {top, top + 1} \/ (sent' = 1 /\ top' = 0)
  <1> SUFFICES ASSUME IInv, [Next]_vars
               PROVE  top' \in {top, top + 1} \/ (sent' = 1 /\ top' = 0)
    OBVIOUS
  <1> USE DEF Dispatch, Handle, IInv, TypeOK, SessionInv
  <1>1. CASE Identify
    BY <1>1 DEF Identify
  <1>2. CASE HandleEvent
    BY <1>2 DEF HandleEvent, IsEvent
  <1>3. CASE HandleReady
    BY <1>3 DEF HandleReady, IsEvent
  <1>4. CASE HandleResumed
    BY <1>4 DEF HandleResumed, IsEvent
  <1>5. CASE ReadInReady
    BY <1>5 DEF ReadInReady, IsEvent, Delivering, NoMessage
  <1>6. CASE UNCHANGED top
    BY <1>6
  <1>7. CASE UNCHANGED vars
    BY <1>7
  <1> HIDE DEF Dispatch, Handle, IInv, TypeOK, SessionInv
  <1>8. ASSUME NEW t \in Threads, Reconnect(t)
        PROVE  UNCHANGED top
    BY <1>8 DEF Reconnect, BeginReconnect, Close, CloseWS, BeginConnect
  <1>9. CASE \/ NewContext \/ AwaitHello \/ CancelDial \/ FailConnect
             \/ ReconnectToIdentify \/ ReturnConnect \/ ReturnToIdentify
             \/ Listen \/ BeginRead \/ ReadError \/ HandleReconnect
             \/ HandleInvalidSession \/ EndReady \/ RecoverReady
    BY <1>6, <1>9 DEF NewContext, AwaitHello, CancelDial, FailConnect,
       ReconnectToIdentify, ReturnConnect, ReturnToIdentify, Listen, BeginRead,
       ReadError, HandleReconnect, HandleInvalidSession, EndReady, RecoverReady
  <1>10. CASE \/ Dial \/ ReadHello \/ Resume \/ ReceiveReady \/ ReceiveEvent
              \/ ReceiveResumed \/ ReceiveRejection \/ FailDial \/ ReceiveRequest
    BY <1>6, <1>10 DEF Dial, ReadHello, Resume, ReceiveReady, ReceiveEvent,
       ReceiveResumed, ReceiveRejection, FailDial, ReceiveRequest, Receive
  <1>11. CASE \/ StopHeart \/ FailHeart \/ ReconnectToBeat \/ BeginClose
              \/ Close(Closer) \/ CloseWS(Closer) \/ Emit \/ Drop \/ FallSilent
              \/ WaitForReady \/ TakeToken
    BY <1>6, <1>11 DEF StopHeart, FailHeart, ReconnectToBeat, BeginClose, Close,
       CloseWS, Emit, Drop, FallSilent, WaitForReady, TakeToken
  <1>12. Listener \in Threads /\ Heart \in Threads
    BY DEF Threads
  <1> QED
    BY <1>1, <1>2, <1>3, <1>4, <1>5, <1>6, <1>7, <1>8, <1>9, <1>10, <1>11, <1>12
    DEF Next, ListenerStep, DiscordStep, HeartStep, CloserStep

\* The consumers of a session never see an event whose predecessor was not
\* dispatched, across any number of reconnects and resumes.
THEOREM DeliveryInOrder == Spec => NoEventSkipped
  <1>1. IInv /\ [Next]_vars =>
          [top' \in {top, top + 1} \/ (sent' = 1 /\ top' = 0)]_<<top, sent>>
    BY DispatchStep
  <1> QED BY <1>1, Inductive, PTL DEF Spec, NoEventSkipped

-----------------------------------------------------------------------------
(* The shard as its group sees it.                                         *)

\* A failed Connect leaves the opening with the context's error, and else is
\* followed by another.
LEMMA ConnectFailedGoes ==
    ASSUME NEW isCanceled \in BOOLEAN, ConnectFailed(isCanceled)
    PROVE  \/ opening /\ isCanceled /\ ~opening' /\ Goto(Listener, "opened")
           \/ opening' = opening /\ Goto(Listener, "connect")
  BY ZenonT(60) DEF ConnectFailed

\* Only OnReady and OnResumed make a shard one that was ever ready.
LEMMA Unseen ==
    ASSUME everReady \in BOOLEAN,
           everReady' = (everReady \/ HandleReady \/ HandleResumed)
    PROVE  /\ everReady' \in BOOLEAN
           /\ everReady => everReady'
           /\ \/ inbox' = inbox
              \/ pc[Listener] # "handle"
              \/ inbox.type \notin {"READY", "RESUMED"}
              => everReady' = everReady
  <1>1. HandleReady => pc[Listener] = "handle" /\ inbox.type = "READY"
                       /\ inbox' = NoMessage
    BY DEF HandleReady, Handle
  <1>2. HandleResumed => pc[Listener] = "handle" /\ inbox.type = "RESUMED"
                         /\ inbox' = NoMessage
    BY DEF HandleResumed, Handle
  <1> QED BY <1>1, <1>2 DEF NoMessage

\* Every step keeps readiness behind a READY.
LEMMA ReadyStep ==
    ASSUME SeenInv, SeenNext
    PROVE  ReadyInv'
  <1> USE DEF SeenInv, IInv, TypeOK, ReadyInv, SessionInv, Threads, Listener, Heart,
          Closer, Goto, Receive, Handle, ReconnectPC, NoMessage
  <1>0. everReady' = (everReady \/ HandleReady \/ HandleResumed)
    BY DEF SeenNext
  <1>1. ASSUME NEW t \in {Listener, Heart}, BeginReconnect(t) PROVE ReadyInv'
    BY <1>0, <1>1, Unseen DEF BeginReconnect
  <1>2. ASSUME NEW t \in Threads, Close(t) PROVE ReadyInv'
    BY <1>0, <1>2, Unseen DEF Close
  <1>3. ASSUME NEW t \in Threads, CloseWS(t) PROVE ReadyInv'
    BY <1>0, <1>3, Unseen DEF CloseWS
  <1>4. ASSUME NEW t \in {Listener, Heart}, BeginConnect(t) PROVE ReadyInv'
    BY <1>0, <1>4, Unseen DEF BeginConnect
  <1>5. CASE BeginClose
    BY <1>0, <1>5, Unseen DEF BeginClose
  <1>6. CASE NewContext
    BY <1>0, <1>6, Unseen DEF NewContext
  <1>7. CASE Dial
    BY <1>0, <1>7, Unseen DEF Dial
  <1>8. CASE FailDial
    BY <1>0, <1>8, Unseen, ConnectFailedGoes DEF FailDial
  <1>9. CASE CancelDial
    BY <1>0, <1>9, Unseen, ConnectFailedGoes DEF CancelDial
  <1>10. CASE AwaitHello
    BY <1>0, <1>10, Unseen DEF AwaitHello
  <1>11. CASE ReadHello
    BY <1>0, <1>11, Unseen DEF ReadHello
  <1>12. CASE FailConnect
    BY <1>0, <1>12, Unseen, ConnectFailedGoes DEF FailConnect
  <1>13. CASE Identify
    BY <1>0, <1>13, Unseen DEF Identify
  <1>14. CASE Resume
    BY <1>0, <1>14, Unseen DEF Resume
  <1>15. CASE ReconnectToIdentify
    BY <1>0, <1>15, Unseen DEF ReconnectToIdentify
  <1>16. CASE ReturnConnect
    BY <1>0, <1>16, Unseen DEF ReturnConnect
  <1>17. CASE ReturnToIdentify
    BY <1>0, <1>17, Unseen DEF ReturnToIdentify
  <1>18. CASE Listen
    BY <1>0, <1>18, Unseen DEF Listen
  <1>19. CASE BeginRead
    BY <1>0, <1>19, Unseen DEF BeginRead
  <1>20. CASE ReceiveReady
    BY <1>0, <1>20, Unseen DEF ReceiveReady
  <1>21. CASE ReceiveEvent
    BY <1>0, <1>21, Unseen DEF ReceiveEvent
  <1>22. CASE ReceiveResumed
    BY <1>0, <1>22, Unseen DEF ReceiveResumed
  <1>23. CASE ReceiveRejection
    BY <1>0, <1>23, Unseen DEF ReceiveRejection
  <1>24. CASE ReceiveRequest
    BY <1>0, <1>24, Unseen DEF ReceiveRequest
  <1>25. CASE ReadError
    BY <1>0, <1>25, Unseen DEF ReadError
  <1>26. CASE HandleEvent
    BY <1>0, <1>26, Unseen DEF HandleEvent
  <1>27. CASE HandleReady
    BY <1>0, <1>27, Unseen DEF HandleReady
  <1>28. CASE HandleResumed
    BY <1>0, <1>28, Unseen DEF HandleResumed
  <1>29. CASE HandleReconnect
    BY <1>0, <1>29, Unseen DEF HandleReconnect
  <1>30. CASE HandleInvalidSession
    BY <1>0, <1>30, Unseen DEF HandleInvalidSession
  <1>31. CASE ReadInReady
    BY <1>0, <1>31, Unseen DEF ReadInReady
  <1>32. CASE EndReady
    BY <1>0, <1>32, Unseen DEF EndReady
  <1>33. CASE RecoverReady
    BY <1>0, <1>33, Unseen DEF RecoverReady
  <1>34. CASE StopHeart
    BY <1>0, <1>34, Unseen DEF StopHeart
  <1>35. CASE FailHeart
    BY <1>0, <1>35, Unseen DEF FailHeart
  <1>36. CASE ReconnectToBeat
    BY <1>0, <1>36, Unseen DEF ReconnectToBeat
  <1>37. CASE Emit
    BY <1>0, <1>37, Unseen DEF Emit
  <1>38. CASE Drop
    BY <1>0, <1>38, Unseen DEF Drop
  <1>39. CASE FallSilent
    BY <1>0, <1>39, Unseen DEF FallSilent
  <1>40. CASE WaitForReady
    BY <1>0, <1>40, Unseen DEF WaitForReady
  <1>41. CASE TakeToken
    BY <1>0, <1>41, Unseen DEF TakeToken
  <1> QED
    BY <1>1, <1>2, <1>3, <1>4, <1>5, <1>6, <1>7, <1>8, <1>9, <1>10, <1>11, <1>12,
            <1>13, <1>14, <1>15, <1>16, <1>17, <1>18, <1>19, <1>20, <1>21, <1>22,
            <1>23, <1>24, <1>25, <1>26, <1>27, <1>28, <1>29, <1>30, <1>31, <1>32,
            <1>33, <1>34, <1>35, <1>36, <1>37, <1>38, <1>39, <1>40, <1>41
    DEF SeenNext, Next, ListenerStep, DiscordStep, HeartStep, CloserStep, Reconnect, Threads

\* Every step keeps who may have taken the connection or its context.
LEMMA TakenStep ==
    ASSUME SeenInv, SeenNext
    PROVE  TakenInv'
  <1> USE DEF SeenInv, IInv, TypeOK, TakenInv, ContextInv, BetweenConnects,
          HeartStopped, Reconnecting, Threads, Listener, Heart, Closer, Goto,
          Receive, Handle, ReconnectPC
  <1>0. everReady' = (everReady \/ HandleReady \/ HandleResumed)
    BY DEF SeenNext
  <1>1. ASSUME NEW t \in {Listener, Heart}, BeginReconnect(t) PROVE TakenInv'
    BY <1>0, <1>1, Unseen DEF BeginReconnect
  <1>2. ASSUME NEW t \in Threads, Close(t) PROVE TakenInv'
    BY <1>0, <1>2, Unseen DEF Close
  <1>3. ASSUME NEW t \in Threads, CloseWS(t) PROVE TakenInv'
    BY <1>0, <1>3, Unseen DEF CloseWS
  <1>4. ASSUME NEW t \in {Listener, Heart}, BeginConnect(t) PROVE TakenInv'
    BY <1>0, <1>4, Unseen DEF BeginConnect
  <1>5. CASE BeginClose
    BY <1>0, <1>5, Unseen DEF BeginClose
  <1>6. CASE NewContext
    BY <1>0, <1>6, Unseen DEF NewContext
  <1>7. CASE Dial
    BY <1>0, <1>7, Unseen DEF Dial
  <1>8. CASE FailDial
    BY <1>0, <1>8, Unseen, ConnectFailedGoes DEF FailDial
  <1>9. CASE CancelDial
    BY <1>0, <1>9, Unseen, ConnectFailedGoes DEF CancelDial
  <1>10. CASE AwaitHello
    BY <1>0, <1>10, Unseen DEF AwaitHello
  <1>11. CASE ReadHello
    BY <1>0, <1>11, Unseen DEF ReadHello
  <1>12. CASE FailConnect
    BY <1>0, <1>12, Unseen, ConnectFailedGoes DEF FailConnect
  <1>13. CASE Identify
    BY <1>0, <1>13, Unseen DEF Identify
  <1>14. CASE Resume
    BY <1>0, <1>14, Unseen DEF Resume
  <1>15. CASE ReconnectToIdentify
    BY <1>0, <1>15, Unseen DEF ReconnectToIdentify
  <1>16. CASE ReturnConnect
    BY <1>0, <1>16, Unseen DEF ReturnConnect
  <1>17. CASE ReturnToIdentify
    BY <1>0, <1>17, Unseen DEF ReturnToIdentify
  <1>18. CASE Listen
    BY <1>0, <1>18, Unseen DEF Listen
  <1>19. CASE BeginRead
    BY <1>0, <1>19, Unseen DEF BeginRead
  <1>20. CASE ReceiveReady
    BY <1>0, <1>20, Unseen DEF ReceiveReady
  <1>21. CASE ReceiveEvent
    BY <1>0, <1>21, Unseen DEF ReceiveEvent
  <1>22. CASE ReceiveResumed
    BY <1>0, <1>22, Unseen DEF ReceiveResumed
  <1>23. CASE ReceiveRejection
    BY <1>0, <1>23, Unseen DEF ReceiveRejection
  <1>24. CASE ReceiveRequest
    BY <1>0, <1>24, Unseen DEF ReceiveRequest
  <1>25. CASE ReadError
    BY <1>0, <1>25, Unseen DEF ReadError
  <1>26. CASE HandleEvent
    BY <1>0, <1>26, Unseen DEF HandleEvent
  <1>27. CASE HandleReady
    BY <1>0, <1>27, Unseen DEF HandleReady
  <1>28. CASE HandleResumed
    BY <1>0, <1>28, Unseen DEF HandleResumed
  <1>29. CASE HandleReconnect
    BY <1>0, <1>29, Unseen DEF HandleReconnect
  <1>30. CASE HandleInvalidSession
    BY <1>0, <1>30, Unseen DEF HandleInvalidSession
  <1>31. CASE ReadInReady
    BY <1>0, <1>31, Unseen DEF ReadInReady
  <1>32. CASE EndReady
    BY <1>0, <1>32, Unseen DEF EndReady
  <1>33. CASE RecoverReady
    BY <1>0, <1>33, Unseen DEF RecoverReady
  <1>34. CASE StopHeart
    BY <1>0, <1>34, Unseen DEF StopHeart
  <1>35. CASE FailHeart
    BY <1>0, <1>35, Unseen DEF FailHeart
  <1>36. CASE ReconnectToBeat
    BY <1>0, <1>36, Unseen DEF ReconnectToBeat
  <1>37. CASE Emit
    BY <1>0, <1>37, Unseen DEF Emit
  <1>38. CASE Drop
    BY <1>0, <1>38, Unseen DEF Drop
  <1>39. CASE FallSilent
    BY <1>0, <1>39, Unseen DEF FallSilent
  <1>40. CASE WaitForReady
    BY <1>0, <1>40, Unseen DEF WaitForReady
  <1>41. CASE TakeToken
    BY <1>0, <1>41, Unseen DEF TakeToken
  <1> QED
    BY <1>1, <1>2, <1>3, <1>4, <1>5, <1>6, <1>7, <1>8, <1>9, <1>10, <1>11, <1>12,
            <1>13, <1>14, <1>15, <1>16, <1>17, <1>18, <1>19, <1>20, <1>21, <1>22,
            <1>23, <1>24, <1>25, <1>26, <1>27, <1>28, <1>29, <1>30, <1>31, <1>32,
            <1>33, <1>34, <1>35, <1>36, <1>37, <1>38, <1>39, <1>40, <1>41
    DEF SeenNext, Next, ListenerStep, DiscordStep, HeartStep, CloserStep, Reconnect, Threads

\* The states of a shard in the terms of its goroutines, now...
LEMMA ConnectionIs ==
    /\ opening /\ BetweenConnects => Connection = "down"
    /\ opening /\ ~BetweenConnects /\ ~Taken => Connection = "dialing"
    /\ opening /\ ~BetweenConnects /\ Taken => Connection = "aborted"
    /\ ~opening /\ Leaving => Connection = "lost"
    /\ ~opening /\ InConnect => Connection = "redialing"
    /\ ~opening /\ ~Leaving /\ ~InConnect /\ ~Taken => Connection = "live"
    /\ ~opening /\ ~Leaving /\ ~InConnect /\ Taken => Connection = "closed"
  <1>1. ~(Leaving /\ InConnect)
    BY DEF Leaving, InConnect, BetweenConnects
  <1> QED BY <1>1 DEF Connection

\* ...and after a step.
LEMMA ConnectionWillBe ==
    /\ opening' /\ BetweenConnects' => Connection' = "down"
    /\ opening' /\ ~BetweenConnects' /\ ~Taken' => Connection' = "dialing"
    /\ opening' /\ ~BetweenConnects' /\ Taken' => Connection' = "aborted"
    /\ ~opening' /\ Leaving' => Connection' = "lost"
    /\ ~opening' /\ InConnect' => Connection' = "redialing"
    /\ ~opening' /\ ~Leaving' /\ ~InConnect' /\ ~Taken' => Connection' = "live"
    /\ ~opening' /\ ~Leaving' /\ ~InConnect' /\ Taken' => Connection' = "closed"
  <1>1. ~(Leaving' /\ InConnect')
    BY DEF Leaving, InConnect, BetweenConnects
  <1> QED BY <1>1 DEF Connection

\* Every step is one of ShardLife, or changes nothing its group sees.
LEMMA LifeStep ==
    ASSUME SeenInv, SeenNext
    PROVE  [Life!Next]_(Life!vars)
  <1> USE DEF SeenInv, IInv, TypeOK, ReadyInv, TakenInv, SessionInv, ContextInv,
          BetweenConnects, Leaving, InConnect, Taken, HeartStopped, Reconnecting,
          Threads, Listener, Heart, Closer, Goto, Receive, Handle, ReconnectPC,
          NoMessage, Life!vars, Life!Next, Life!Move, Life!BeginConnect,
          Life!EndConnect, Life!FailConnect, Life!LoseConnection,
          Life!BeginReconnect, Life!EndReconnect, Life!FailReconnect, Life!Crash,
          Life!BecomeReady, Life!StaleReady, Life!ClearReady, Life!BeginClose,
          Life!CloseShard
  <1>0. everReady' = (everReady \/ HandleReady \/ HandleResumed)
    BY DEF SeenNext
  <1>1. ASSUME NEW t \in {Listener, Heart}, BeginReconnect(t) PROVE [Life!Next]_(Life!vars)
    BY <1>0, <1>1, Unseen, ConnectionIs, ConnectionWillBe DEF BeginReconnect
  <1>2. ASSUME NEW t \in Threads, Close(t), t # Listener => Running PROVE [Life!Next]_(Life!vars)
    <2>1. everReady' = everReady /\ isReady' = FALSE
          /\ pc' = [pc EXCEPT ![t] = "closeWS"] /\ pc[t] = "close"
          /\ UNCHANGED <<opening, depth, hasWsConn, inbox>>
          /\ cancelled'
      BY <1>0, <1>2, Unseen, ConnectionIs, ConnectionWillBe DEF Close
    <2>2. CASE t = Listener
      <3>1. BetweenConnects /\ BetweenConnects' /\ Leaving /\ Leaving'
        BY <2>1, <2>2
      <3>2. Connection' = Connection /\ (opening => ~isReady)
            /\ Connection \in {"down", "lost"} /\ (~opening => Connection = "lost")
        BY <2>1, <3>1, ConnectionIs, ConnectionWillBe
      <3>3. pc'[Closer] = pc[Closer]
        BY <2>1, <2>2
      <3>4. CASE opening
        BY <2>1, <3>2, <3>3, <3>4
      <3>5. CASE ~opening
        <4>1. Life!ClearReady
          BY <2>1, <3>2, <3>3, <3>5
        <4> QED BY <4>1
      <3> QED BY <3>4, <3>5
    <2>3. CASE t = Closer
      <3>1. Connection' = Connection
        BY <2>1, <2>3, ConnectionIs, ConnectionWillBe
      <3> QED BY <2>1, <2>3, <3>1
    <2>4. CASE t = Heart
      <3>1. /\ BetweenConnects' = BetweenConnects /\ Leaving' = Leaving
            /\ InConnect' = InConnect /\ pc'[Closer] = pc[Closer]
        BY <2>1, <2>4
      <3>2. BetweenConnects \/ Taken' = Taken
        BY <2>1, <2>4
      <3>3. Connection' = Connection
        BY <2>1, <3>1, <3>2, ConnectionIs, ConnectionWillBe
      <3>4. opening => ~isReady
        OBVIOUS
      <3>5. pc[Closer] = "closeWS" \/ opening \/ Connection \in {"lost", "redialing", "closed"}
        BY <1>2, <2>1, <2>4, ConnectionIs DEF Running
      <3>6. CASE opening
        BY <2>1, <3>1, <3>3, <3>4, <3>6
      <3>7. CASE ~opening
        <4>1. Life!ClearReady
          BY <2>1, <3>1, <3>3, <3>5, <3>7
        <4> QED BY <4>1
      <3> QED BY <3>6, <3>7
    <2> QED BY <2>2, <2>3, <2>4
  <1>3. ASSUME NEW t \in Threads, CloseWS(t) PROVE [Life!Next]_(Life!vars)
    BY <1>0, <1>3, Unseen, ConnectionIs, ConnectionWillBe DEF CloseWS
  <1>4. ASSUME NEW t \in {Listener, Heart}, BeginConnect(t) PROVE [Life!Next]_(Life!vars)
    BY <1>0, <1>4, Unseen, ConnectionIs, ConnectionWillBe DEF BeginConnect
  <1>5. CASE BeginClose
    BY <1>0, <1>5, Unseen, ConnectionIs, ConnectionWillBe DEF BeginClose
  <1>6. CASE NewContext
    BY <1>0, <1>6, Unseen, ConnectionIs, ConnectionWillBe DEF NewContext
  <1>7. CASE Dial
    BY <1>0, <1>7, Unseen, ConnectionIs, ConnectionWillBe DEF Dial
  <1>8. CASE FailDial
    BY <1>0, <1>8, Unseen, ConnectionIs, ConnectionWillBe, ConnectFailedGoes DEF FailDial
  <1>9. CASE CancelDial
    BY <1>0, <1>9, Unseen, ConnectionIs, ConnectionWillBe, ConnectFailedGoes, ZenonT(60)
    DEF CancelDial
  <1>10. CASE AwaitHello
    BY <1>0, <1>10, Unseen, ConnectionIs, ConnectionWillBe DEF AwaitHello
  <1>11. CASE ReadHello
    BY <1>0, <1>11, Unseen, ConnectionIs, ConnectionWillBe DEF ReadHello
  <1>12. CASE FailConnect
    BY <1>0, <1>12, Unseen, ConnectionIs, ConnectionWillBe, ConnectFailedGoes, ZenonT(60)
    DEF FailConnect
  <1>13. CASE Identify
    BY <1>0, <1>13, Unseen, ConnectionIs, ConnectionWillBe DEF Identify
  <1>14. CASE Resume
    BY <1>0, <1>14, Unseen, ConnectionIs, ConnectionWillBe DEF Resume
  <1>15. CASE ReconnectToIdentify
    BY <1>0, <1>15, Unseen, ConnectionIs, ConnectionWillBe DEF ReconnectToIdentify
  <1>16. CASE ReturnConnect
    BY <1>0, <1>16, Unseen, ConnectionIs, ConnectionWillBe DEF ReturnConnect
  <1>17. CASE ReturnToIdentify
    BY <1>0, <1>17, Unseen, ConnectionIs, ConnectionWillBe DEF ReturnToIdentify
  <1>18. CASE Listen
    BY <1>0, <1>18, Unseen, ConnectionIs, ConnectionWillBe DEF Listen
  <1>19. CASE BeginRead
    BY <1>0, <1>19, Unseen, ConnectionIs, ConnectionWillBe DEF BeginRead
  <1>20. CASE ReceiveReady
    BY <1>0, <1>20, Unseen, ConnectionIs, ConnectionWillBe DEF ReceiveReady
  <1>21. CASE ReceiveEvent
    BY <1>0, <1>21, Unseen, ConnectionIs, ConnectionWillBe DEF ReceiveEvent
  <1>22. CASE ReceiveResumed
    BY <1>0, <1>22, Unseen, ConnectionIs, ConnectionWillBe DEF ReceiveResumed
  <1>23. CASE ReceiveRejection
    <2>1. pc[Listener] = "read" /\ ~BetweenConnects /\ ~Leaving /\ ~InConnect
          /\ ~opening /\ ~Taken
      BY <1>23 DEF ReceiveRejection, Dropped
    <2>2. ~opening' /\ ~BetweenConnects' /\ Leaving' /\ everReady' = everReady
          /\ pc'[Closer] = pc[Closer] /\ isReady' = isReady
      BY <1>0, <1>23, Unseen, ConnectionIs, ConnectionWillBe DEF ReceiveRejection
    <2>3. Connection = "live" /\ Connection' = "lost"
      BY <2>1, <2>2, ConnectionIs, ConnectionWillBe
    <2>4. Life!LoseConnection
      BY <2>2, <2>3
    <2> QED BY <2>4
  <1>24. CASE ReceiveRequest
    <2>1. pc[Listener] = "read" /\ ~BetweenConnects /\ ~Leaving /\ ~InConnect
          /\ ~opening /\ ~Taken
      BY <1>24 DEF ReceiveRequest, Dropped
    <2>2. ~opening' /\ ~BetweenConnects' /\ Leaving' /\ everReady' = everReady
          /\ pc'[Closer] = pc[Closer] /\ isReady' = isReady
      BY <1>0, <1>24, Unseen, ConnectionIs, ConnectionWillBe DEF ReceiveRequest
    <2>3. Connection = "live" /\ Connection' = "lost"
      BY <2>1, <2>2, ConnectionIs, ConnectionWillBe
    <2>4. Life!LoseConnection
      BY <2>2, <2>3
    <2> QED BY <2>4
  <1>25. CASE ReadError
    BY <1>0, <1>25, Unseen, ConnectionIs, ConnectionWillBe DEF ReadError
  <1>26. CASE HandleEvent
    BY <1>0, <1>26, Unseen, ConnectionIs, ConnectionWillBe DEF HandleEvent
  <1>27. CASE HandleReady
    BY <1>0, <1>27, Unseen, ConnectionIs, ConnectionWillBe DEF HandleReady
  <1>28. CASE HandleResumed
    BY <1>0, <1>28, Unseen, ConnectionIs, ConnectionWillBe DEF HandleResumed
  <1>29. CASE HandleReconnect
    BY <1>0, <1>29, Unseen, ConnectionIs, ConnectionWillBe DEF HandleReconnect
  <1>30. CASE HandleInvalidSession
    BY <1>0, <1>30, Unseen, ConnectionIs, ConnectionWillBe DEF HandleInvalidSession
  <1>31. CASE ReadInReady
    BY <1>0, <1>31, Unseen, ConnectionIs, ConnectionWillBe DEF ReadInReady
  <1>32. CASE EndReady
    BY <1>0, <1>32, Unseen, ConnectionIs, ConnectionWillBe DEF EndReady
  <1>33. CASE RecoverReady
    BY <1>0, <1>33, Unseen, ConnectionIs, ConnectionWillBe DEF RecoverReady
  <1>34. CASE StopHeart
    BY <1>0, <1>34, Unseen, ConnectionIs, ConnectionWillBe DEF StopHeart
  <1>35. CASE FailHeart
    BY <1>0, <1>35, Unseen, ConnectionIs, ConnectionWillBe DEF FailHeart
  <1>36. CASE ReconnectToBeat
    BY <1>0, <1>36, Unseen, ConnectionIs, ConnectionWillBe DEF ReconnectToBeat
  <1>37. CASE Emit
    BY <1>0, <1>37, Unseen, ConnectionIs, ConnectionWillBe DEF Emit
  <1>38. CASE Drop
    BY <1>0, <1>38, Unseen, ConnectionIs, ConnectionWillBe DEF Drop
  <1>39. CASE FallSilent
    BY <1>0, <1>39, Unseen, ConnectionIs, ConnectionWillBe DEF FallSilent
  <1>40. CASE WaitForReady
    BY <1>0, <1>40, Unseen, ConnectionIs, ConnectionWillBe DEF WaitForReady
  <1>41. CASE TakeToken
    BY <1>0, <1>41, Unseen, ConnectionIs, ConnectionWillBe DEF TakeToken
  <1> QED
    BY ZenonT(60), <1>1, <1>2, <1>3, <1>4, <1>5, <1>6, <1>7, <1>8, <1>9, <1>10,
            <1>11, <1>12, <1>13, <1>14, <1>15, <1>16, <1>17, <1>18, <1>19, <1>20,
            <1>21, <1>22, <1>23, <1>24, <1>25, <1>26, <1>27, <1>28, <1>29, <1>30,
            <1>31, <1>32, <1>33, <1>34, <1>35, <1>36, <1>37, <1>38, <1>39, <1>40,
            <1>41
    DEF SeenNext, Next, ListenerStep, DiscordStep, HeartStep, CloserStep, Reconnect, Threads

\* The initial state satisfies the inductive invariant, and is ShardLife's.
LEMMA SeenInitInv == SeenInit => SeenInv /\ Life!Init
  <1> SUFFICES ASSUME SeenInit PROVE SeenInv /\ Life!Init
    OBVIOUS
  <1> USE DEF SeenInit, Init, Threads, Listener, Heart, Closer
  <1>1. IInv
    BY InitInv
  <1>2. ReadyInv
    BY DEF ReadyInv, ReconnectPC
  <1>3. TakenInv
    BY DEF TakenInv, Reconnecting, ReconnectPC, BetweenConnects, HeartStopped
  <1>4. Life!Init
    BY ConnectionIs DEF Life!Init, BetweenConnects
  <1> QED BY <1>1, <1>2, <1>3, <1>4 DEF SeenInv

\* Every step keeps the inductive invariant.
LEMMA SeenStep == SeenInv /\ [SeenNext]_seenVars => SeenInv'
  <1>1. ASSUME SeenInv, SeenNext PROVE SeenInv'
    <2>1. IInv'
      BY <1>1, TypeStep, ContextStep, HeartbeatStep, SessionStep
      DEF SeenInv, SeenNext, IInv
    <2>2. everReady' \in BOOLEAN
      BY <1>1, Unseen DEF SeenInv, SeenNext
    <2> QED BY <1>1, <2>1, <2>2, ReadyStep, TakenStep DEF SeenInv
  <1>2. ASSUME SeenInv, UNCHANGED seenVars PROVE SeenInv'
    <2>1. IInv'
      BY <1>2, TypeStep, ContextStep, HeartbeatStep, SessionStep
      DEF SeenInv, seenVars, IInv
    <2>2. ReadyInv' /\ TakenInv' /\ everReady' \in BOOLEAN
      BY <1>2 DEF SeenInv, seenVars, ReadyInv, TakenInv, Reconnecting,
         BetweenConnects, HeartStopped
    <2> QED BY <2>1, <2>2 DEF SeenInv
  <1> QED BY <1>1, <1>2

\* What a shard does, whatever Discord, its heartbeat and a Close of its group do
\* meanwhile, is what ShardLife permits, and so what ShardGroup reckons with.
THEOREM FollowsShardLife == SeenSpec => ImplementsShardLife
  <1>1. SeenInv /\ [SeenNext]_seenVars => [Life!Next]_(Life!vars)
    <2>1. ASSUME UNCHANGED seenVars PROVE UNCHANGED Life!vars
      BY <2>1 DEF seenVars, Life!vars, Connection, BetweenConnects, Leaving,
         InConnect, Taken
    <2> QED BY <2>1, LifeStep
  <1> QED BY <1>1, SeenInitInv, SeenStep, PTL
      DEF SeenSpec, ImplementsShardLife, Life!Spec
=============================================================================
