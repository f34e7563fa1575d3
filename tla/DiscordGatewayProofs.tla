------------------------ MODULE DiscordGatewayProofs ------------------------
(***************************************************************************)
(* Proofs about DiscordGateway for any sets of sessions and servers and    *)
(* any bounds: its types, that neither a dropped connection nor a restart  *)
(* passes a dispatch over, that every login is one the budget counts, and  *)
(* that no dispatch is handled without the servers announced before it.    *)
(***************************************************************************)
EXTENDS DiscordGateway, SequenceTheorems, TLAPS

\* What a run in which no handler panics keeps.
PassedOver == ~MayPanic => NothingPassedOver

\* The inductive invariant.
Inv == TypeOK /\ InStep /\ PassedOver

USE NoSessionAssumption, MaxLenAssumption, GuildsAssumption,
    PerHourAssumption

\* At the start nothing is connected, kept or handled.
LEMMA InitInv == Init => Inv
<1> SUFFICES ASSUME Init
             PROVE  Inv
  OBVIOUS
<1> USE DEF Init, NoPlace, NoMaps, NoFile, NoFiles, NoConn, NoBeat, Place,
            Maps, MaybeSession
<1>1. OutsideOK
  BY DEF OutsideOK
<1>2. BudgetOK
  <2>1. history \in Seq(BOOLEAN)
    BY DEF Init
  <2>2. QED
    BY <2>1 DEF BudgetOK
<1>3. SessionOK
  BY DEF SessionOK
<1>4. SocketOK
  BY DEF SocketOK
<1>5. InStep
  BY DEF InStep
<1>6. PassedOver
  BY DEF PassedOver, NothingPassedOver
<1>7. QED
  BY <1>1, <1>2, <1>3, <1>4, <1>5, <1>6 DEF Inv, TypeOK

\* What Discord and the files hold keeps its type.
LEMMA OutsideStep == Inv /\ [Next]_vars => OutsideOK'
<1> SUFFICES ASSUME Inv, [Next]_vars
             PROVE  OutsideOK'
  OBVIOUS
<1> USE DEF Inv, TypeOK, Place, Maps, MaybeSession, NoPlace, NoMaps,
            NoFile, NoFiles, NoConn, NoBeat, budgetVars, clientVars,
            OutsideOK, SessionOK, SocketOK, InStep
<1>1. CASE DiscordSends
  BY <1>1 DEF DiscordSends
<1>2. CASE DiscordForgets
  BY <1>2 DEF DiscordForgets
<1>3. CASE DiscordAcks
  BY <1>3 DEF DiscordAcks
<1>4. CASE Spawn
  BY <1>4 DEF Spawn, Loadable
<1>5. CASE AskToResume
  BY <1>5 DEF AskToResume
<1>6. CASE AskToLogin
  BY <1>6 DEF AskToLogin
<1>7. CASE HoldLogin
  BY <1>7 DEF HoldLogin
<1>8. CASE HoldTimesOut
  BY <1>8 DEF HoldTimesOut
<1>9. CASE HoldLetThrough
  BY <1>9 DEF HoldLetThrough
<1>10. CASE WaitOver
  BY <1>10 DEF WaitOver
<1>11. CASE DialFails
  BY <1>11 DEF DialFails
<1>12. CASE DialResumes
  BY <1>12 DEF DialResumes
<1>13. CASE DialLogsIn
  BY <1>13 DEF DialLogsIn, Known
<1>14. CASE ReadSaved
  BY <1>14 DEF ReadSaved, Reading
<1>15. CASE ReadDispatch
  BY <1>15 DEF ReadDispatch, Reading
<1>16. CASE Handled
  BY <1>16 DEF Handled, HandleReady, HandleGuild, HandleMessage
<1>17. CASE HandlerPanics
  BY <1>17 DEF HandlerPanics, ConnectionOver
<1>18. CASE ReadAck
  <2> USE <1>18 DEF ReadAck
  <2>1. CASE UNCHANGED <<mem, disk>>
    BY <2>1
  <2>2. CASE resume # NoPlace /\ mem.s # NoSession /\ Write(resume.n)
    <3>1. PICK stOk \in BOOLEAN, posOk \in BOOLEAN :
             /\ mem' = [mem EXCEPT !.dirty = @ /\ ~stOk]
             /\ disk' = [disk EXCEPT
                  !.st = IF mem.dirty /\ stOk
                         THEN [s |-> mem.s, guilds |-> mem.guilds] ELSE @,
                  !.pos = IF posOk THEN [s |-> mem.s, n |-> resume.n] ELSE @,
                  !.ours = IF posOk THEN TRUE ELSE @]
      BY <2>2, Zenon DEF Write
    <3>2. disk' \in [pos : Place, ours : BOOLEAN, st : Maps]
      BY <2>2, <3>1
    <3>3. QED
      BY <2>2, <3>1, <3>2
  <2>3. CASE mem.dirty /\ TooBig
    BY <2>3 DEF TooBig
  <2>4. QED
    BY <2>1, <2>2, <2>3
<1>19. CASE ReadInvalid
  BY <1>19 DEF ReadInvalid, Reading, ConnectionOver
<1>20. CASE ReadReconnect
  BY <1>20 DEF ReadReconnect, Reading, ConnectionOver
<1>21. CASE SocketLost
  BY <1>21 DEF SocketLost, Reading, ConnectionOver
<1>22. CASE AuthFailed
  BY <1>22 DEF AuthFailed, Reading, ConnectionOver
<1>23. CASE Zombied
  BY <1>23 DEF Zombied, Reading, ConnectionOver
<1>24. CASE ConnectAnyway
  BY <1>24 DEF ConnectAnyway
<1>25. CASE LoginAgesOut
  BY <1>25 DEF LoginAgesOut
<1>26. CASE Tick
  BY <1>26 DEF Tick
<1>27. CASE Disconnect
  BY <1>27 DEF Disconnect
<1>28. CASE AbortLands
  BY <1>28 DEF AbortLands, Stopped, ConnectionOver
<1>29. CASE Remove
  BY <1>29 DEF Remove
<1>30. CASE SignIn
  BY <1>30 DEF SignIn
<1>31. CASE Restart
  BY <1>31 DEF Restart, Stopped, ConnectionOver
<1>32. CASE UNCHANGED vars
  BY <1>32 DEF vars
<1>33. QED
  BY <1>1, <1>2, <1>3, <1>4, <1>5, <1>6, <1>7, <1>8, <1>9, <1>10, <1>11,
     <1>12, <1>13, <1>14, <1>15, <1>16, <1>17, <1>18, <1>19, <1>20, <1>21, <1>22,
     <1>23, <1>24, <1>25, <1>26, <1>27, <1>28, <1>29, <1>30, <1>31, <1>32
     DEF Next, Discord, Supervise, Read, Outside

\* The login budget and the flags keep their types.
LEMMA BudgetStep == Inv /\ [Next]_vars => BudgetOK'
<1> SUFFICES ASSUME Inv, [Next]_vars
             PROVE  BudgetOK'
  OBVIOUS
<1> USE DEF Inv, TypeOK, Place, Maps, MaybeSession, NoPlace, NoMaps,
            NoFile, NoFiles, NoConn, NoBeat, budgetVars, clientVars,
            BudgetOK
<1>1. CASE DiscordSends
  BY <1>1 DEF DiscordSends
<1>2. CASE DiscordForgets
  BY <1>2 DEF DiscordForgets
<1>3. CASE DiscordAcks
  BY <1>3 DEF DiscordAcks
<1>4. CASE Spawn
  BY <1>4 DEF Spawn, Loadable
<1>5. CASE AskToResume
  BY <1>5 DEF AskToResume
<1>6. CASE AskToLogin
  BY <1>6 DEF AskToLogin
<1>7. CASE HoldLogin
  BY <1>7 DEF HoldLogin
<1>8. CASE HoldTimesOut
  BY <1>8 DEF HoldTimesOut
<1>9. CASE HoldLetThrough
  <2>1. history' \in Seq(BOOLEAN)
    BY <1>9 DEF HoldLetThrough
  <2>2. QED
    BY <1>9, <2>1 DEF HoldLetThrough
<1>10. CASE WaitOver
  BY <1>10 DEF WaitOver
<1>11. CASE DialFails
  BY <1>11 DEF DialFails
<1>12. CASE DialResumes
  BY <1>12 DEF DialResumes
<1>13. CASE DialLogsIn
  <2>1. history' \in Seq(BOOLEAN)
    <3>1. CASE history = <<>>
      BY <1>13, <3>1 DEF DialLogsIn
    <3>2. CASE history # <<>>
      <4>1. Len(history) \in 1..Len(history)
        BY <3>2
      <4>2. QED
        BY <1>13, <3>2, <4>1, ExceptSeq, Zenon DEF DialLogsIn
    <3>3. QED
      BY <3>1, <3>2
  <2>2. QED
    BY <1>13, <2>1 DEF DialLogsIn
<1>14. CASE ReadSaved
  BY <1>14 DEF ReadSaved, Reading
<1>15. CASE ReadDispatch
  BY <1>15 DEF ReadDispatch, Reading
<1>16. CASE Handled
  BY <1>16 DEF Handled, HandleReady, HandleGuild, HandleMessage
<1>17. CASE HandlerPanics
  BY <1>17 DEF HandlerPanics, ConnectionOver
<1>18. CASE ReadAck
  BY <1>18 DEF ReadAck, Write, TooBig
<1>19. CASE ReadInvalid
  BY <1>19 DEF ReadInvalid, Reading, ConnectionOver
<1>20. CASE ReadReconnect
  BY <1>20 DEF ReadReconnect, Reading, ConnectionOver
<1>21. CASE SocketLost
  BY <1>21 DEF SocketLost, Reading, ConnectionOver
<1>22. CASE AuthFailed
  BY <1>22 DEF AuthFailed, Reading, ConnectionOver
<1>23. CASE Zombied
  BY <1>23 DEF Zombied, Reading, ConnectionOver
<1>24. CASE ConnectAnyway
  BY <1>24 DEF ConnectAnyway
<1>25. CASE LoginAgesOut
  BY <1>25 DEF LoginAgesOut
<1>26. CASE Tick
  BY <1>26 DEF Tick
<1>27. CASE Disconnect
  BY <1>27 DEF Disconnect
<1>28. CASE AbortLands
  BY <1>28 DEF AbortLands, Stopped, ConnectionOver
<1>29. CASE Remove
  BY <1>29 DEF Remove
<1>30. CASE SignIn
  BY <1>30 DEF SignIn
<1>31. CASE Restart
  BY <1>31 DEF Restart, Stopped, ConnectionOver
<1>32. CASE UNCHANGED vars
  BY <1>32 DEF vars
<1>33. QED
  BY <1>1, <1>2, <1>3, <1>4, <1>5, <1>6, <1>7, <1>8, <1>9, <1>10, <1>11,
     <1>12, <1>13, <1>14, <1>15, <1>16, <1>17, <1>18, <1>19, <1>20, <1>21, <1>22,
     <1>23, <1>24, <1>25, <1>26, <1>27, <1>28, <1>29, <1>30, <1>31, <1>32
     DEF Next, Discord, Supervise, Read, Outside

\* What the supervisor knows of the session keeps its type.
LEMMA SessionStep == Inv /\ [Next]_vars => SessionOK'
<1> SUFFICES ASSUME Inv, [Next]_vars
             PROVE  SessionOK'
  OBVIOUS
<1> USE DEF Inv, TypeOK, Place, Maps, MaybeSession, NoPlace, NoMaps,
            NoFile, NoFiles, NoConn, NoBeat, budgetVars, clientVars,
            OutsideOK, SessionOK, SocketOK
<1>1. CASE DiscordSends
  BY <1>1 DEF DiscordSends
<1>2. CASE DiscordForgets
  BY <1>2 DEF DiscordForgets
<1>3. CASE DiscordAcks
  BY <1>3 DEF DiscordAcks
<1>4. CASE Spawn
  <2>1. CASE resume' = disk.pos /\ saved' = {1} \cup disk.st.guilds /\ mem' = [s |-> disk.st.s, guilds |-> disk.st.guilds, dirty |-> FALSE]
    BY <1>4, <2>1 DEF Spawn
  <2>2. CASE resume' = NoPlace /\ saved' = {} /\ mem' = NoFile
    BY <1>4, <2>2 DEF Spawn
  <2>3. QED
    BY <1>4, <2>1, <2>2 DEF Spawn
<1>5. CASE AskToResume
  BY <1>5 DEF AskToResume
<1>6. CASE AskToLogin
  BY <1>6 DEF AskToLogin
<1>7. CASE HoldLogin
  BY <1>7 DEF HoldLogin
<1>8. CASE HoldTimesOut
  BY <1>8 DEF HoldTimesOut
<1>9. CASE HoldLetThrough
  BY <1>9 DEF HoldLetThrough
<1>10. CASE WaitOver
  BY <1>10 DEF WaitOver
<1>11. CASE DialFails
  BY <1>11 DEF DialFails
<1>12. CASE DialResumes
  BY <1>12 DEF DialResumes
<1>13. CASE DialLogsIn
  BY <1>13 DEF DialLogsIn, Known
<1>14. CASE ReadSaved
  BY <1>14 DEF ReadSaved, Reading
<1>15. CASE ReadDispatch
  BY <1>15 DEF ReadDispatch, Reading
<1>16. CASE Handled
  <2>1. CASE cur = 1 /\ HandleReady
    BY <1>16, <2>1 DEF Handled, HandleReady
  <2>2. CASE cur \in Guilds /\ HandleGuild
    BY <1>16, <2>2 DEF Handled, HandleGuild
  <2>3. CASE cur \notin Guilds \cup {1} /\ HandleMessage
    BY <1>16, <2>3 DEF Handled, HandleMessage
  <2>4. QED
    BY <1>16, <2>1, <2>2, <2>3 DEF Handled
<1>17. CASE HandlerPanics
  BY <1>17 DEF HandlerPanics, ConnectionOver
<1>18. CASE ReadAck
  <2> USE <1>18 DEF ReadAck
  <2>1. CASE UNCHANGED <<mem, disk>>
    BY <2>1
  <2>2. CASE resume # NoPlace /\ mem.s # NoSession /\ Write(resume.n)
    <3>1. PICK stOk \in BOOLEAN, posOk \in BOOLEAN :
             /\ mem' = [mem EXCEPT !.dirty = @ /\ ~stOk]
             /\ disk' = [disk EXCEPT
                  !.st = IF mem.dirty /\ stOk
                         THEN [s |-> mem.s, guilds |-> mem.guilds] ELSE @,
                  !.pos = IF posOk THEN [s |-> mem.s, n |-> resume.n] ELSE @,
                  !.ours = IF posOk THEN TRUE ELSE @]
      BY <2>2, Zenon DEF Write
    <3>2. mem' \in [s : MaybeSession, guilds : SUBSET Guilds, dirty : BOOLEAN]
      BY <2>2, <3>1
    <3>3. QED
      BY <2>2, <3>1, <3>2
  <2>3. CASE mem.dirty /\ TooBig
    BY <2>3 DEF TooBig
  <2>4. QED
    BY <2>1, <2>2, <2>3
<1>19. CASE ReadInvalid
  BY <1>19 DEF ReadInvalid, Reading, ConnectionOver
<1>20. CASE ReadReconnect
  BY <1>20 DEF ReadReconnect, Reading, ConnectionOver
<1>21. CASE SocketLost
  BY <1>21 DEF SocketLost, Reading, ConnectionOver
<1>22. CASE AuthFailed
  BY <1>22 DEF AuthFailed, Reading, ConnectionOver
<1>23. CASE Zombied
  BY <1>23 DEF Zombied, Reading, ConnectionOver
<1>24. CASE ConnectAnyway
  BY <1>24 DEF ConnectAnyway
<1>25. CASE LoginAgesOut
  BY <1>25 DEF LoginAgesOut
<1>26. CASE Tick
  BY <1>26 DEF Tick
<1>27. CASE Disconnect
  BY <1>27 DEF Disconnect
<1>28. CASE AbortLands
  BY <1>28 DEF AbortLands, Stopped, ConnectionOver
<1>29. CASE Remove
  BY <1>29 DEF Remove
<1>30. CASE SignIn
  BY <1>30 DEF SignIn
<1>31. CASE Restart
  BY <1>31 DEF Restart, Stopped, ConnectionOver
<1>32. CASE UNCHANGED vars
  BY <1>32 DEF vars
<1>33. QED
  BY <1>1, <1>2, <1>3, <1>4, <1>5, <1>6, <1>7, <1>8, <1>9, <1>10, <1>11,
     <1>12, <1>13, <1>14, <1>15, <1>16, <1>17, <1>18, <1>19, <1>20, <1>21, <1>22,
     <1>23, <1>24, <1>25, <1>26, <1>27, <1>28, <1>29, <1>30, <1>31, <1>32
     DEF Next, Discord, Supervise, Read, Outside

\* The socket keeps its type and goes with the supervisor's place.
LEMMA SocketStep == Inv /\ [Next]_vars => SocketOK'
<1> SUFFICES ASSUME Inv, [Next]_vars
             PROVE  SocketOK'
  OBVIOUS
<1> USE DEF Inv, TypeOK, Place, Maps, MaybeSession, NoPlace, NoMaps,
            NoFile, NoFiles, NoConn, NoBeat, budgetVars, clientVars,
            OutsideOK, SessionOK, SocketOK, InStep
<1>1. CASE DiscordSends
  BY <1>1 DEF DiscordSends
<1>2. CASE DiscordForgets
  BY <1>2 DEF DiscordForgets
<1>3. CASE DiscordAcks
  BY <1>3 DEF DiscordAcks
<1>4. CASE Spawn
  BY <1>4 DEF Spawn, Loadable
<1>5. CASE AskToResume
  BY <1>5 DEF AskToResume
<1>6. CASE AskToLogin
  BY <1>6 DEF AskToLogin
<1>7. CASE HoldLogin
  BY <1>7 DEF HoldLogin
<1>8. CASE HoldTimesOut
  BY <1>8 DEF HoldTimesOut
<1>9. CASE HoldLetThrough
  BY <1>9 DEF HoldLetThrough
<1>10. CASE WaitOver
  BY <1>10 DEF WaitOver
<1>11. CASE DialFails
  BY <1>11 DEF DialFails
<1>12. CASE DialResumes
  BY <1>12 DEF DialResumes
<1>13. CASE DialLogsIn
  BY <1>13 DEF DialLogsIn, Known
<1>14. CASE ReadSaved
  BY <1>14 DEF ReadSaved, Reading
<1>15. CASE ReadDispatch
  BY <1>15 DEF ReadDispatch, Reading
<1>16. CASE Handled
  BY <1>16 DEF Handled, HandleReady, HandleGuild, HandleMessage
<1>17. CASE HandlerPanics
  BY <1>17 DEF HandlerPanics, ConnectionOver
<1>18. CASE ReadAck
  BY <1>18 DEF ReadAck, Write, TooBig
<1>19. CASE ReadInvalid
  BY <1>19 DEF ReadInvalid, Reading, ConnectionOver
<1>20. CASE ReadReconnect
  <2>1. CASE ConnectionOver("wait")
    BY <1>20, <2>1 DEF ReadReconnect, Reading, ConnectionOver
  <2>2. CASE ConnectionOver("ask")
    BY <1>20, <2>2 DEF ReadReconnect, Reading, ConnectionOver
  <2>3. QED
    BY <1>20, <2>1, <2>2 DEF ReadReconnect
<1>21. CASE SocketLost
  BY <1>21 DEF SocketLost, Reading, ConnectionOver
<1>22. CASE AuthFailed
  BY <1>22 DEF AuthFailed, Reading, ConnectionOver
<1>23. CASE Zombied
  BY <1>23 DEF Zombied, Reading, ConnectionOver
<1>24. CASE ConnectAnyway
  BY <1>24 DEF ConnectAnyway
<1>25. CASE LoginAgesOut
  BY <1>25 DEF LoginAgesOut
<1>26. CASE Tick
  BY <1>26 DEF Tick
<1>27. CASE Disconnect
  BY <1>27 DEF Disconnect
<1>28. CASE AbortLands
  BY <1>28 DEF AbortLands, Stopped, ConnectionOver
<1>29. CASE Remove
  BY <1>29 DEF Remove
<1>30. CASE SignIn
  BY <1>30 DEF SignIn
<1>31. CASE Restart
  BY <1>31 DEF Restart, Stopped, ConnectionOver
<1>32. CASE UNCHANGED vars
  BY <1>32 DEF vars
<1>33. QED
  BY <1>1, <1>2, <1>3, <1>4, <1>5, <1>6, <1>7, <1>8, <1>9, <1>10, <1>11,
     <1>12, <1>13, <1>14, <1>15, <1>16, <1>17, <1>18, <1>19, <1>20, <1>21, <1>22,
     <1>23, <1>24, <1>25, <1>26, <1>27, <1>28, <1>29, <1>30, <1>31, <1>32
     DEF Next, Discord, Supervise, Read, Outside

\* The socket, the place in the stream and the files stay in step.
LEMMA InStepStep == Inv /\ [Next]_vars => InStep'
<1> SUFFICES ASSUME Inv, [Next]_vars
             PROVE  InStep'
  OBVIOUS
<1> USE DEF Inv, TypeOK, Place, Maps, MaybeSession, NoPlace, NoMaps,
            NoFile, NoFiles, NoConn, NoBeat, budgetVars, clientVars,
            OutsideOK, SessionOK, SocketOK, InStep,
            PassedOver, NothingPassedOver, HandledUpTo
<1>1. CASE DiscordSends
  BY <1>1 DEF DiscordSends
<1>2. CASE DiscordForgets
  BY <1>2 DEF DiscordForgets
<1>3. CASE DiscordAcks
  BY <1>3 DEF DiscordAcks
<1>4. CASE Spawn
  BY <1>4 DEF Spawn, Loadable
<1>5. CASE AskToResume
  BY <1>5 DEF AskToResume
<1>6. CASE AskToLogin
  BY <1>6 DEF AskToLogin
<1>7. CASE HoldLogin
  BY <1>7 DEF HoldLogin
<1>8. CASE HoldTimesOut
  BY <1>8 DEF HoldTimesOut
<1>9. CASE HoldLetThrough
  BY <1>9 DEF HoldLetThrough
<1>10. CASE WaitOver
  BY <1>10 DEF WaitOver
<1>11. CASE DialFails
  BY <1>11 DEF DialFails
<1>12. CASE DialResumes
  BY <1>12 DEF DialResumes
<1>13. CASE DialLogsIn
  BY <1>13 DEF DialLogsIn, Known
<1>14. CASE ReadSaved
  BY <1>14 DEF ReadSaved, Reading
<1>15. CASE ReadDispatch
  BY <1>15 DEF ReadDispatch, Reading
<1>16. CASE Handled
  <2>1. CASE cur = 1 /\ HandleReady
    BY <1>16, <2>1 DEF Handled, HandleReady
  <2>2. CASE cur \in Guilds /\ HandleGuild
    BY <1>16, <2>2 DEF Handled, HandleGuild
  <2>3. CASE cur \notin Guilds \cup {1} /\ HandleMessage
    BY <1>16, <2>3 DEF Handled, HandleMessage
  <2>4. QED
    BY <1>16, <2>1, <2>2, <2>3 DEF Handled
<1>17. CASE HandlerPanics
  BY <1>17 DEF HandlerPanics, ConnectionOver
<1>18. CASE ReadAck
  <2> USE <1>18 DEF ReadAck
  <2>1. CASE UNCHANGED <<mem, disk>>
    BY <2>1
  <2>2. CASE resume # NoPlace /\ mem.s # NoSession /\ Write(resume.n)
    <3>1. PICK stOk \in BOOLEAN, posOk \in BOOLEAN :
             /\ mem' = [mem EXCEPT !.dirty = @ /\ ~stOk]
             /\ disk' = [disk EXCEPT
                  !.st = IF mem.dirty /\ stOk
                         THEN [s |-> mem.s, guilds |-> mem.guilds] ELSE @,
                  !.pos = IF posOk THEN [s |-> mem.s, n |-> resume.n] ELSE @,
                  !.ours = IF posOk THEN TRUE ELSE @]
      BY <2>2, Zenon DEF Write
    <3>2. QED
      BY <2>2, <3>1
  <2>3. CASE mem.dirty /\ TooBig
    BY <2>3 DEF TooBig
  <2>4. QED
    BY <2>1, <2>2, <2>3
<1>19. CASE ReadInvalid
  BY <1>19 DEF ReadInvalid, Reading, ConnectionOver
<1>20. CASE ReadReconnect
  <2>1. CASE ConnectionOver("wait")
    BY <1>20, <2>1 DEF ReadReconnect, Reading, ConnectionOver
  <2>2. CASE ConnectionOver("ask")
    BY <1>20, <2>2 DEF ReadReconnect, Reading, ConnectionOver
  <2>3. QED
    BY <1>20, <2>1, <2>2 DEF ReadReconnect
<1>21. CASE SocketLost
  BY <1>21 DEF SocketLost, Reading, ConnectionOver
<1>22. CASE AuthFailed
  BY <1>22 DEF AuthFailed, Reading, ConnectionOver
<1>23. CASE Zombied
  BY <1>23 DEF Zombied, Reading, ConnectionOver
<1>24. CASE ConnectAnyway
  BY <1>24 DEF ConnectAnyway
<1>25. CASE LoginAgesOut
  BY <1>25 DEF LoginAgesOut
<1>26. CASE Tick
  BY <1>26 DEF Tick
<1>27. CASE Disconnect
  BY <1>27 DEF Disconnect
<1>28. CASE AbortLands
  BY <1>28 DEF AbortLands, Stopped, ConnectionOver
<1>29. CASE Remove
  BY <1>29 DEF Remove
<1>30. CASE SignIn
  BY <1>30 DEF SignIn
<1>31. CASE Restart
  BY <1>31 DEF Restart, Stopped, ConnectionOver
<1>32. CASE UNCHANGED vars
  BY <1>32 DEF vars
<1>33. QED
  BY <1>1, <1>2, <1>3, <1>4, <1>5, <1>6, <1>7, <1>8, <1>9, <1>10, <1>11,
     <1>12, <1>13, <1>14, <1>15, <1>16, <1>17, <1>18, <1>19, <1>20, <1>21, <1>22,
     <1>23, <1>24, <1>25, <1>26, <1>27, <1>28, <1>29, <1>30, <1>31, <1>32
     DEF Next, Discord, Supervise, Read, Outside

\* A place to resume from moves over handled dispatches only.
LEMMA PassedOverStep == Inv /\ [Next]_vars => PassedOver'
<1> SUFFICES ASSUME Inv, [Next]_vars
             PROVE  PassedOver'
  OBVIOUS
<1> USE DEF Inv, TypeOK, Place, Maps, MaybeSession, NoPlace, NoMaps,
            NoFile, NoFiles, NoConn, NoBeat, budgetVars, clientVars,
            OutsideOK, SessionOK, SocketOK, InStep,
            PassedOver, NothingPassedOver, HandledUpTo
<1>1. CASE DiscordSends
  BY <1>1 DEF DiscordSends
<1>2. CASE DiscordForgets
  BY <1>2 DEF DiscordForgets
<1>3. CASE DiscordAcks
  BY <1>3 DEF DiscordAcks
<1>4. CASE Spawn
  BY <1>4 DEF Spawn, Loadable
<1>5. CASE AskToResume
  BY <1>5 DEF AskToResume
<1>6. CASE AskToLogin
  BY <1>6 DEF AskToLogin
<1>7. CASE HoldLogin
  BY <1>7 DEF HoldLogin
<1>8. CASE HoldTimesOut
  BY <1>8 DEF HoldTimesOut
<1>9. CASE HoldLetThrough
  BY <1>9 DEF HoldLetThrough
<1>10. CASE WaitOver
  BY <1>10 DEF WaitOver
<1>11. CASE DialFails
  BY <1>11 DEF DialFails
<1>12. CASE DialResumes
  BY <1>12 DEF DialResumes
<1>13. CASE DialLogsIn
  BY <1>13 DEF DialLogsIn, Known
<1>14. CASE ReadSaved
  BY <1>14 DEF ReadSaved, Reading
<1>15. CASE ReadDispatch
  BY <1>15 DEF ReadDispatch, Reading
<1>16. CASE Handled
  BY <1>16 DEF Handled, HandleReady, HandleGuild, HandleMessage
<1>17. CASE HandlerPanics
  BY <1>17 DEF HandlerPanics, ConnectionOver
<1>18. CASE ReadAck
  <2> USE <1>18 DEF ReadAck
  <2>1. CASE UNCHANGED <<mem, disk>>
    BY <2>1
  <2>2. CASE resume # NoPlace /\ mem.s # NoSession /\ Write(resume.n)
    <3>1. PICK stOk \in BOOLEAN, posOk \in BOOLEAN :
             /\ mem' = [mem EXCEPT !.dirty = @ /\ ~stOk]
             /\ disk' = [disk EXCEPT
                  !.st = IF mem.dirty /\ stOk
                         THEN [s |-> mem.s, guilds |-> mem.guilds] ELSE @,
                  !.pos = IF posOk THEN [s |-> mem.s, n |-> resume.n] ELSE @,
                  !.ours = IF posOk THEN TRUE ELSE @]
      BY <2>2, Zenon DEF Write
    <3>2. QED
      BY <2>2, <3>1
  <2>3. CASE mem.dirty /\ TooBig
    BY <2>3 DEF TooBig
  <2>4. QED
    BY <2>1, <2>2, <2>3
<1>19. CASE ReadInvalid
  BY <1>19 DEF ReadInvalid, Reading, ConnectionOver
<1>20. CASE ReadReconnect
  BY <1>20 DEF ReadReconnect, Reading, ConnectionOver
<1>21. CASE SocketLost
  BY <1>21 DEF SocketLost, Reading, ConnectionOver
<1>22. CASE AuthFailed
  BY <1>22 DEF AuthFailed, Reading, ConnectionOver
<1>23. CASE Zombied
  BY <1>23 DEF Zombied, Reading, ConnectionOver
<1>24. CASE ConnectAnyway
  BY <1>24 DEF ConnectAnyway
<1>25. CASE LoginAgesOut
  BY <1>25 DEF LoginAgesOut
<1>26. CASE Tick
  BY <1>26 DEF Tick
<1>27. CASE Disconnect
  BY <1>27 DEF Disconnect
<1>28. CASE AbortLands
  BY <1>28 DEF AbortLands, Stopped, ConnectionOver
<1>29. CASE Remove
  BY <1>29 DEF Remove
<1>30. CASE SignIn
  BY <1>30 DEF SignIn
<1>31. CASE Restart
  BY <1>31 DEF Restart, Stopped, ConnectionOver
<1>32. CASE UNCHANGED vars
  BY <1>32 DEF vars
<1>33. QED
  BY <1>1, <1>2, <1>3, <1>4, <1>5, <1>6, <1>7, <1>8, <1>9, <1>10, <1>11,
     <1>12, <1>13, <1>14, <1>15, <1>16, <1>17, <1>18, <1>19, <1>20, <1>21, <1>22,
     <1>23, <1>24, <1>25, <1>26, <1>27, <1>28, <1>29, <1>30, <1>31, <1>32
     DEF Next, Discord, Supervise, Read, Outside

-----------------------------------------------------------------------------
\* The inductive invariant holds of every behaviour.
THEOREM Invariant == Spec => []Inv
<1>1. Init => Inv
  BY InitInv
<1>2. Inv /\ [Next]_vars => Inv'
  BY OutsideStep, BudgetStep, SessionStep, SocketStep, InStepStep,
     PassedOverStep DEF Inv, TypeOK
<1>3. QED
  BY <1>1, <1>2, PTL DEF Spec

\* Type correctness of the gateway connection.
THEOREM TypeCorrect == Spec => []TypeOK
<1>1. Inv => TypeOK
  BY DEF Inv
<1>2. QED
  BY <1>1, Invariant, PTL

\* However connections drop and the daemon restarts, the place a session is
\* resumed from has only handled dispatches before it.
THEOREM ResumeLosesNothing ==
    ASSUME ~MayPanic
    PROVE  Spec => []NothingPassedOver
<1>1. Inv => NothingPassedOver
  BY DEF Inv, PassedOver
<1>2. QED
  BY <1>1, Invariant, PTL

-----------------------------------------------------------------------------
\* A login that is about to be made has its entry in the history, and no
\* session was started for that entry yet.
Counted ==
    pc = "dial" /\ resume = NoPlace /\ history # <<>> => ~history[Len(history)]

\* The newest entry of a history some have aged out of is the one it was.
LEMMA TailKeepsLast ==
    ASSUME NEW S, NEW h \in Seq(S), h # <<>>, Tail(h) # <<>>
    PROVE  Tail(h)[Len(Tail(h))] = h[Len(h)]
<1>1. Len(h) \in Nat /\ Len(Tail(h)) = Len(h) - 1
  OBVIOUS
<1>2. Len(h) - 1 \in 1..(Len(h) - 1)
  BY <1>1, EmptySeq
<1>3. QED
  BY <1>1, <1>2, HeadTailProperties

\* Only the budget lets the supervisor dial without a session to resume.
LEMMA CountedStep == Inv /\ Counted /\ [Next]_vars => Counted'
<1> SUFFICES ASSUME Inv, Counted, [Next]_vars, pc' = "dial",
                    resume' = NoPlace, history' # <<>>
             PROVE  ~history'[Len(history')]
  BY DEF Counted
<1>0. history \in Seq(BOOLEAN)
  BY DEF Inv, TypeOK, BudgetOK
<1>1. CASE AskToLogin \/ HoldLetThrough
  <2>1. history' = Append(history, FALSE)
    BY <1>1 DEF AskToLogin, HoldLetThrough
  <2>2. QED
    BY <1>0, <2>1
<1>2. CASE LoginAgesOut
  <2>1. /\ history # <<>> /\ history' = Tail(history)
        /\ pc = "dial" /\ resume = NoPlace
    BY <1>2 DEF LoginAgesOut, clientVars
  <2>2. history'[Len(history')] = history[Len(history)]
    BY <1>0, <2>1, TailKeepsLast
  <2>3. QED
    BY <2>1, <2>2 DEF Counted
<1>3. CASE ~(AskToLogin \/ HoldLetThrough \/ LoginAgesOut)
  <2>1. pc = "dial" /\ resume = NoPlace /\ history' = history
    BY <1>3 DEF Next, Discord, Supervise, Read, Outside, vars, budgetVars,
       clientVars, DiscordSends, DiscordForgets, DiscordAcks, Spawn,
       AskToResume, HoldLogin, HoldTimesOut, WaitOver, DialFails,
       DialResumes, DialLogsIn, ReadSaved, ReadDispatch, Handled,
       HandlerPanics, ReadAck, ReadInvalid, ReadReconnect, SocketLost,
       AuthFailed, Zombied, ConnectAnyway, Tick, Disconnect, AbortLands,
       Remove, SignIn, Restart, Stopped, ConnectionOver, Reading
  <2>2. QED
    BY <2>1 DEF Counted
<1>4. QED
  BY <1>1, <1>2, <1>3

\* Sessions that end, refused resumes, restarts and holds let through: no
\* session is ever started at Discord for a login the budget did not count.
THEOREM EveryLoginIsCounted == Spec => LoginsAreCounted
<1>1. Init => Counted
  BY DEF Init, Counted
<1>2. Inv /\ Inv' /\ Counted /\ [Next]_vars => Counted'
  BY CountedStep
<1>3. Inv /\ Counted /\ [Next]_vars =>
        [server'.sess # server.sess =>
            history = <<>> \/ ~history[Len(history)]]_vars
  <2> SUFFICES ASSUME Counted, Next, server'.sess # server.sess, Inv
               PROVE  history = <<>> \/ ~history[Len(history)]
    OBVIOUS
  <2>1. CASE DialLogsIn
    BY <2>1 DEF DialLogsIn, Counted
  <2>2. CASE DiscordSends \/ DiscordForgets
    BY <2>2 DEF DiscordSends, DiscordForgets, Inv, TypeOK, OutsideOK
  <2>3. CASE ~(DialLogsIn \/ DiscordSends \/ DiscordForgets)
    BY <2>3 DEF Next, Discord, Supervise, Read, Outside, DiscordAcks, Spawn,
       AskToResume, AskToLogin, HoldLogin, HoldTimesOut, HoldLetThrough,
       WaitOver, DialFails, DialResumes, ReadSaved, ReadDispatch, Handled,
       HandlerPanics, ReadAck, ReadInvalid, ReadReconnect, SocketLost,
       AuthFailed, Zombied, ConnectAnyway, LoginAgesOut, Tick, Disconnect,
       AbortLands, Remove, SignIn, Restart
  <2>4. QED
    BY <2>1, <2>2, <2>3
<1>4. QED
  BY <1>1, <1>2, <1>3, Invariant, PTL DEF Spec, LoginsAreCounted

-----------------------------------------------------------------------------
\* The servers announced up to the place in the stream, bar one that is
\* being handled, are among these.
UpToPlace(guilds) ==
    \A g \in Guilds : g <= resume.n /\ g # cur => g \in guilds

\* What a connection knows is what was announced: in the maps or about to be
\* replayed into them, in the copy a write is made of, and in the files.
ReplayedFirst == pc = "handle" => saved = {}
MapsKept ==
    resume # NoPlace => /\ maps.s = resume.s \/ 1 \in saved
                        /\ UpToPlace(maps.guilds \cup saved)
MemKept == mem.s # NoSession => UpToPlace(mem.guilds)
CleanIsWritten ==
    mem.s # NoSession /\ ~mem.dirty =>
        \/ disk.st = [s |-> mem.s, guilds |-> mem.guilds]
        \/ disk.st.s = NoSession          \* the account was removed
FilesAgree ==
    disk.pos.s # NoSession /\ disk.st.s = disk.pos.s =>
        \A g \in Guilds : g <= disk.pos.n => g \in disk.st.guilds

MapsInv == ReplayedFirst /\ MapsKept /\ MemKept /\ CleanIsWritten /\ FilesAgree

\* A step that leaves the session where it is.
MapsSame ==
    UNCHANGED <<disk, resume, saved, maps, mem, cur>>

\* Such a step keeps it, if it begins no handler.
LEMMA MapsInvSame ==
    ASSUME MapsInv, MapsSame, pc' = "handle" => pc = "handle"
    PROVE  MapsInv'
BY DEF MapsInv, MapsSame, ReplayedFirst, MapsKept, MemKept, CleanIsWritten,
       FilesAgree, UpToPlace

\* Nor does a connection that ends with its session, the files being left
\* or emptied.
LEMMA MapsInvOver ==
    ASSUME MapsInv, resume' = NoPlace, mem' = NoFile, pc' # "handle",
           disk' = disk \/ disk' = NoFiles
    PROVE  MapsInv'
<1>1. ReplayedFirst' /\ MapsKept'
  BY DEF ReplayedFirst, MapsKept
<1>2. mem'.s = NoSession
  BY DEF NoFile
<1>3. MemKept' /\ CleanIsWritten'
  BY <1>2 DEF MemKept, CleanIsWritten
<1>4. FilesAgree'
  <2>1. CASE disk' = disk
    BY <2>1 DEF MapsInv, FilesAgree
  <2>2. CASE disk' = NoFiles
    BY <2>2 DEF FilesAgree, NoFiles, NoPlace
  <2>3. QED
    BY <2>1, <2>2
<1>5. QED
  BY <1>1, <1>3, <1>4 DEF MapsInv

\* What is loaded at the start is what was written.
LEMMA SpawnMaps == ASSUME Inv, MapsInv, Spawn PROVE MapsInv'
<1> USE DEF Inv, TypeOK, OutsideOK, SessionOK, SocketOK
<1>1. UNCHANGED <<disk, cur>> /\ pc' = "ask" /\ cur = 0
  BY DEF Spawn
<1>2. CASE /\ Loadable
           /\ resume' = disk.pos
           /\ saved' = {1} \cup disk.st.guilds
           /\ mem' = [s |-> disk.st.s, guilds |-> disk.st.guilds,
                      dirty |-> FALSE]
  <2>1. ReplayedFirst' /\ FilesAgree'
    BY <1>1 DEF MapsInv, ReplayedFirst, FilesAgree
  <2>2. \A g \in Guilds : g <= disk.pos.n => g \in disk.st.guilds
    BY <1>2 DEF MapsInv, FilesAgree, Loadable
  <2>3. MapsKept' /\ MemKept'
    BY <1>1, <1>2, <2>2 DEF MapsKept, MemKept, UpToPlace
  <2>4. CleanIsWritten'
    <3>1. disk.st = [s |-> disk.st.s, guilds |-> disk.st.guilds]
      BY DEF Maps
    <3>2. QED
      BY <1>1, <1>2, <3>1 DEF CleanIsWritten
  <2>5. QED
    BY <2>1, <2>3, <2>4 DEF MapsInv
<1>3. CASE resume' = NoPlace /\ mem' = NoFile
  BY <1>1, <1>3, MapsInvOver
<1>4. QED
  BY <1>2, <1>3 DEF Spawn

\* READY and the servers that are replayed leave no gap behind them.
LEMMA SavedMaps == ASSUME Inv, MapsInv, ReadSaved PROVE MapsInv'
<1>1. PICK n \in saved :
         /\ saved' = saved \ {n}
         /\ maps' = IF n = 1 THEN [maps EXCEPT !.s = resume.s]
                    ELSE [maps EXCEPT !.guilds = @ \cup {n}]
  BY DEF ReadSaved
<1>2. UNCHANGED <<disk, resume, mem, cur, pc>> /\ pc = "read"
  BY DEF ReadSaved, Reading
<1>3. maps \in Maps
  BY DEF Inv, TypeOK, SessionOK
<1>4. MapsKept'
  <2>1. SUFFICES ASSUME resume # NoPlace
                 PROVE  (/\ maps.s = resume.s \/ 1 \in saved
                         /\ UpToPlace(maps.guilds \cup saved))'
    BY <1>2 DEF MapsKept
  <2>2. /\ maps.s = resume.s \/ 1 \in saved
        /\ UpToPlace(maps.guilds \cup saved)
    BY <2>1 DEF MapsInv, MapsKept
  <2>3. CASE n = 1
    <3>1. maps'.s = resume.s /\ maps'.guilds = maps.guilds
      BY <1>1, <1>3, <2>3 DEF Maps
    <3>2. \A g \in Guilds : g # 1
      OBVIOUS
    <3>3. QED
      BY <1>1, <1>2, <2>2, <2>3, <3>1, <3>2 DEF UpToPlace
  <2>4. CASE n # 1
    <3>1. maps'.s = maps.s /\ maps'.guilds = maps.guilds \cup {n}
      BY <1>1, <1>3, <2>4 DEF Maps
    <3>2. QED
      BY <1>1, <1>2, <2>2, <2>4, <3>1 DEF UpToPlace
  <2>5. QED
    BY <2>3, <2>4
<1>5. (ReplayedFirst /\ MemKept /\ CleanIsWritten /\ FilesAgree)'
  BY <1>2 DEF MapsInv, ReplayedFirst, MemKept, CleanIsWritten, FilesAgree,
              UpToPlace
<1>6. QED
  BY <1>4, <1>5 DEF MapsInv

\* The dispatch read next is the only one the maps do not have.
LEMMA DispatchMaps == ASSUME Inv, MapsInv, ReadDispatch PROVE MapsInv'
<1> USE DEF Inv, TypeOK, OutsideOK, SessionOK, SocketOK, InStep
<1>1. /\ UNCHANGED <<disk, saved, maps, mem>>
      /\ saved = {} /\ cur = 0 /\ cur' = conn.next /\ conn.at = "live"
  BY DEF ReadDispatch, Reading
<1>2. CASE resume = NoPlace
  <2>1. resume' = NoPlace /\ mem.s = NoSession
    BY <1>2 DEF ReadDispatch, NoPlace
  <2>2. QED
    BY <1>1, <2>1 DEF MapsInv, ReplayedFirst, MapsKept, MemKept,
                      CleanIsWritten, FilesAgree
<1>3. CASE resume # NoPlace
  <2>1. conn.next = resume.n + 1
    BY <1>1, <1>3
  <2>2. resume'.s = resume.s /\ resume'.n = conn.next
    BY <1>3 DEF ReadDispatch, Place
  <2>3. ASSUME NEW guilds, UpToPlace(guilds)
        PROVE  UpToPlace(guilds)'
    <3>1. resume.n \in Nat
      BY DEF Place
    <3>2. ASSUME NEW g \in Guilds, g <= resume.n + 1, g # resume.n + 1
          PROVE  g <= resume.n /\ g # 0
      BY <3>1, <3>2
    <3>3. QED
      BY <1>1, <2>1, <2>2, <2>3, <3>2 DEF UpToPlace
  <2>4. MapsKept' /\ MemKept'
    <3>1. MapsKept'
      BY <1>1, <1>3, <2>2, <2>3 DEF MapsInv, MapsKept
    <3>2. MemKept'
      BY <1>1, <2>3 DEF MapsInv, MemKept
    <3>3. QED
      BY <3>1, <3>2
  <2>5. QED
    BY <1>1, <2>4 DEF MapsInv, ReplayedFirst, CleanIsWritten, FilesAgree
<1>4. QED
  BY <1>2, <1>3

\* A handler adds what its dispatch announced, to the maps and to what will
\* be written.
LEMMA HandledMaps == ASSUME Inv, MapsInv, Handled PROVE MapsInv'
<1> USE DEF Inv, TypeOK, OutsideOK, SessionOK, SocketOK, InStep
<1>1. /\ UNCHANGED <<disk, saved>> /\ cur' = 0 /\ pc' = "read"
      /\ saved = {} /\ cur # 0
  BY DEF Handled, MapsInv, ReplayedFirst
<1>2. ReplayedFirst' /\ FilesAgree'
  BY <1>1 DEF MapsInv, ReplayedFirst, FilesAgree
<1>3. resume \in Place /\ maps \in Maps
  OBVIOUS
<1>4. CASE cur = 1 /\ HandleReady
  <2>1. /\ resume' = [s |-> server.sess, n |-> 1]
        /\ mem' = [s |-> server.sess, guilds |-> {}, dirty |-> TRUE]
        /\ maps'.s = server.sess
    BY <1>3, <1>4 DEF HandleReady, Maps
  <2>2. \A g \in Guilds : ~(g <= 1)
    OBVIOUS
  <2>3. MapsKept' /\ MemKept' /\ CleanIsWritten'
    BY <1>1, <2>1, <2>2 DEF MapsKept, MemKept, CleanIsWritten, UpToPlace
  <2>4. QED
    BY <1>2, <2>3 DEF MapsInv
<1>5. CASE cur \in Guilds /\ HandleGuild
  <2>1. /\ UNCHANGED resume
        /\ maps'.s = maps.s /\ maps'.guilds = maps.guilds \cup {cur}
    BY <1>3, <1>5 DEF HandleGuild, Maps
  <2>2. MapsKept'
    BY <1>1, <2>1 DEF MapsInv, MapsKept, UpToPlace
  <2>3. CASE mem.s = NoSession
    BY <1>1, <1>2, <1>5, <2>2, <2>3
       DEF MapsInv, HandleGuild, MemKept, CleanIsWritten
  <2>4. CASE mem.s # NoSession
    <3>1. mem'.guilds = mem.guilds \cup {cur} /\ mem'.dirty = TRUE
      BY <1>5, <2>4 DEF HandleGuild
    <3>2. MemKept' /\ CleanIsWritten'
      BY <1>1, <2>1, <2>4, <3>1
         DEF MapsInv, MemKept, CleanIsWritten, UpToPlace
    <3>3. QED
      BY <1>2, <2>2, <3>2 DEF MapsInv
  <2>5. QED
    BY <2>3, <2>4
<1>6. CASE cur \notin Guilds \cup {1} /\ HandleMessage
  BY <1>1, <1>2, <1>6 DEF MapsInv, HandleMessage, MapsKept, MemKept,
                          CleanIsWritten, UpToPlace
<1>7. QED
  BY <1>4, <1>5, <1>6 DEF Handled

\* A position is written with the state it belongs to, or beside one that
\* was written with everything up to it.
LEMMA AckMaps ==
    ASSUME ~MayFailToWrite, Inv, MapsInv, ReadAck
    PROVE  MapsInv'
<1> USE DEF Inv, TypeOK, OutsideOK, SessionOK, SocketOK, InStep
<1>1. /\ UNCHANGED <<resume, saved, maps, cur, pc>>
      /\ pc = "read" /\ cur = 0
  BY DEF ReadAck
<1>2. ReplayedFirst' /\ MapsKept'
  BY <1>1 DEF MapsInv, ReplayedFirst, MapsKept, UpToPlace
<1>3. CASE UNCHANGED <<mem, disk>>
  BY <1>1, <1>3, MapsInvSame DEF MapsSame
<1>4. CASE mem.s # NoSession /\ Write(resume.n)
  <2>1. /\ mem' = [mem EXCEPT !.dirty = @ /\ ~TRUE]
        /\ disk' = [disk EXCEPT
             !.st = IF mem.dirty /\ TRUE
                    THEN [s |-> mem.s, guilds |-> mem.guilds] ELSE @,
             !.pos = IF TRUE THEN [s |-> mem.s, n |-> resume.n] ELSE @,
             !.ours = IF TRUE THEN TRUE ELSE @]
    BY <1>4, Zenon DEF Write
  <2>2. /\ mem'.s = mem.s /\ mem'.guilds = mem.guilds /\ ~mem'.dirty
        /\ disk'.pos = [s |-> mem.s, n |-> resume.n]
    BY <2>1
  <2>3. disk'.st = IF mem.dirty THEN [s |-> mem.s, guilds |-> mem.guilds]
                   ELSE disk.st
    BY <2>1
  <2>4. \A g \in Guilds : g <= resume.n => g \in mem.guilds
    <3>1. \A g \in Guilds : g # 0
      OBVIOUS
    <3>2. QED
      BY <1>1, <1>4, <3>1 DEF MapsInv, MemKept, UpToPlace
  <2>5. \/ disk'.st = [s |-> mem.s, guilds |-> mem.guilds]
        \/ disk'.st.s = NoSession
    BY <1>4, <2>3 DEF MapsInv, CleanIsWritten
  <2>6. MemKept'
    BY <1>1, <2>2, <2>4 DEF MemKept, UpToPlace
  <2>7. CleanIsWritten'
    BY <2>2, <2>5 DEF CleanIsWritten
  <2>8. FilesAgree'
    BY <1>4, <2>2, <2>4, <2>5 DEF FilesAgree
  <2>9. QED
    BY <1>2, <2>6, <2>7, <2>8 DEF MapsInv
<1>5. CASE mem.dirty /\ TooBig
  <2>1. mem' = NoFile /\ disk'.pos = NoPlace
    BY <1>5 DEF TooBig
  <2>2. QED
    BY <1>2, <2>1 DEF MapsInv, MemKept, CleanIsWritten, FilesAgree, NoFile,
                      NoPlace
<1>6. QED
  BY <1>3, <1>4, <1>5 DEF ReadAck

\* Every step keeps it, where no write fails and no handler panics.
LEMMA MapsStep ==
    ASSUME ~MayFailToWrite, ~MayPanic, Inv, MapsInv, [Next]_vars
    PROVE  MapsInv'
<1> USE DEF budgetVars, clientVars
<1>1. CASE \/ DiscordSends \/ DiscordForgets \/ DiscordAcks
           \/ AskToResume \/ AskToLogin \/ HoldLogin \/ HoldTimesOut
           \/ HoldLetThrough \/ WaitOver \/ DialFails \/ DialResumes
           \/ DialLogsIn \/ ConnectAnyway \/ LoginAgesOut \/ Tick
           \/ Disconnect
           \/ UNCHANGED vars
  <2>1. MapsSame /\ (pc' = "handle" => pc = "handle")
    BY <1>1 DEF MapsSame, DiscordSends, DiscordForgets, DiscordAcks,
       AskToResume, AskToLogin, HoldLogin, HoldTimesOut, HoldLetThrough,
       WaitOver, DialFails, DialResumes, DialLogsIn, ConnectAnyway,
       LoginAgesOut, Tick, Disconnect, vars
  <2>2. QED
    BY <2>1, MapsInvSame
<1>2. CASE ReadReconnect \/ SocketLost \/ Zombied
  <2>1. /\ UNCHANGED <<disk, resume, saved, maps, mem>> /\ cur' = 0
        /\ pc = "read" /\ pc' # "handle"
    BY <1>2 DEF ReadReconnect, SocketLost, Zombied, Reading, ConnectionOver
  <2>2. cur = 0
    BY <2>1 DEF Inv, TypeOK, SocketOK
  <2>3. QED
    BY <2>1, <2>2, MapsInvSame DEF MapsSame
<1>3. CASE ReadInvalid \/ AuthFailed \/ AbortLands \/ Restart
  <2>1. resume' = NoPlace /\ mem' = NoFile /\ pc' # "handle"
    BY <1>3 DEF ReadInvalid, AuthFailed, AbortLands, Restart, Stopped,
                ConnectionOver
  <2>2. disk' = disk \/ disk' = NoFiles
    BY <1>3 DEF ReadInvalid, AuthFailed, AbortLands, Restart
  <2>3. QED
    BY <2>1, <2>2, MapsInvOver
<1>4. CASE HandlerPanics
  BY <1>4 DEF HandlerPanics
<1>5. CASE Remove
  <2>1. UNCHANGED <<resume, saved, maps, mem, cur, pc>> /\ disk' = NoFiles
    BY <1>5 DEF Remove
  <2>2. QED
    BY <2>1 DEF MapsInv, ReplayedFirst, MapsKept, MemKept, CleanIsWritten,
                FilesAgree, UpToPlace, NoFiles, NoPlace, NoMaps
<1>6. CASE SignIn
  <2>1. /\ UNCHANGED <<resume, saved, maps, mem, cur, pc>>
        /\ disk'.pos = disk.pos /\ disk'.st = disk.st
    BY <1>6 DEF SignIn, Inv, TypeOK, OutsideOK
  <2>2. QED
    BY <2>1 DEF MapsInv, ReplayedFirst, MapsKept, MemKept, CleanIsWritten,
                FilesAgree, UpToPlace
<1>7. QED
  BY <1>1, <1>2, <1>3, <1>4, <1>5, <1>6, SpawnMaps, SavedMaps, DispatchMaps,
     HandledMaps, AckMaps
     DEF Next, Discord, Supervise, Read, Outside

\* However connections drop, sessions end and the daemon restarts, what is
\* handled is handled with the READY of its session and every server that
\* was announced before it: as long as no file fails to be written and no
\* handler panics.
THEOREM NothingIsUnheardOf ==
    ASSUME ~MayFailToWrite, ~MayPanic
    PROVE  Spec => []MapsAreComplete
<1>1. Init => MapsInv
  BY DEF Init, MapsInv, ReplayedFirst, MapsKept, MemKept, CleanIsWritten,
         FilesAgree, NoFile, NoFiles, NoPlace
<1>2. Inv /\ MapsInv /\ [Next]_vars => MapsInv'
  BY MapsStep
<1>3. Inv /\ MapsInv => MapsAreComplete
  <2>1. SUFFICES ASSUME Inv, MapsInv, cur > 1
                 PROVE  /\ maps.s = server.sess
                        /\ \A g \in Guilds : g < cur => g \in maps.guilds
    BY DEF MapsAreComplete
  <2>0. TypeOK /\ InStep
    BY <2>1 DEF Inv
  <2>a. Guilds \subseteq Nat
    BY GuildsAssumption, MaxLenAssumption
  <2>b. cur \in Nat
    BY <2>0, MaxLenAssumption DEF TypeOK, SocketOK
  <2> USE <2>0 DEF TypeOK, SocketOK, SessionOK, InStep
  <2>2. cur # 0 /\ pc = "handle" /\ conn.at = "live" /\ conn.next = cur + 1
    BY <2>1
  <2>3. resume # NoPlace /\ resume.s = server.sess /\ conn.next = resume.n + 1
    BY <2>1, <2>2
  <2>4. resume.n = cur
    <3>1. resume.n \in Nat /\ cur \in Nat
      BY DEF Place
    <3>2. QED
      BY <2>2, <2>3, <3>1
  <2>5. saved = {} /\ maps.s = resume.s /\ UpToPlace(maps.guilds)
    <3> HIDE <2>0
    <3>1. saved = {}
      BY <2>1, <2>2 DEF MapsInv, ReplayedFirst
    <3>2. maps.s = resume.s /\ UpToPlace(maps.guilds \cup saved)
      BY <2>1, <2>3, <3>1 DEF MapsInv, MapsKept
    <3>3. maps.guilds \cup saved = maps.guilds
      BY <3>1
    <3>4. QED
      BY <3>1, <3>2, <3>3
  <2>6. \A g \in Guilds : g < cur => g <= cur /\ g # cur
    <3> HIDE <2>0
    <3>1. QED
      BY <2>a, <2>b
  <2>7. QED
    BY <2>3, <2>4, <2>5, <2>6 DEF UpToPlace
<1>4. QED
  BY <1>1, <1>2, <1>3, Invariant, PTL DEF Spec

=============================================================================
