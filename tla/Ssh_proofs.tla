----------------------------- MODULE Ssh_proofs -----------------------------
(* Proofs about Ssh for any number of calls, any length of stdin, any size   *)
(* of a read and any window.                                                 *)
EXTENDS Ssh, TLAPS

(* There is a client for all that is done with one, and wait() runs nothing  *)
(* but its probe.                                                            *)
PcInv == /\ pc \notin {"idle", "connect"} => client = "up"
         /\ pc \in {"wait", "sleep"} => probing
         /\ probing => pc \in {"wait", "sleep"} \cup Loop

(* What was read from stdin was sent or is pending, and the end of stdin is  *)
(* told only after all of it.                                                *)
StdinInv == /\ sent + pending = taken
            /\ stdin = "closed" => pending = 0 /\ taken = MaxIn

(* The status that arrived is that of the command, and the cat of a put has  *)
(* succeeded only after the end of stdin.                                    *)
StatusInv == pc \in Loop =>
               /\ known \in {"ok", "error"} => remote = known
               /\ remote = "ok" /\ op = "put_file" /\ ~ probing => stdin = "closed"

(* A client that is there was waited for, or was left by who gave up.        *)
AwaitInv == waits /\ client = "up" /\ ~ probing => answered \/ excused

(* The two halves of the types.                                              *)
ClientType ==
  /\ waits \in BOOLEAN /\ timed \in BOOLEAN
  /\ calls \in 0 .. MaxCalls
  /\ pc \in {"idle", "connect", "wait", "act", "open", "sleep"} \cup Loop
  /\ op \in Op /\ probing \in BOOLEAN
  /\ client \in {"none", "up"} /\ link \in BOOLEAN
  /\ answered \in BOOLEAN /\ excused \in BOOLEAN
  /\ waitLate \in BOOLEAN /\ missed \in BOOLEAN
  /\ result \in {"none", "transferred", "ok", "error", "lost", "raised"}
SessionType ==
  /\ remote \in {"chatty", "silent", "ok", "error"}
  /\ sending \in [Stream -> 0 .. Window] /\ buffer \in [Stream -> 0 .. Window]
  /\ known \in {"no", "ok", "error", "lost"}
  /\ stdin \in {"none", "open", "kept", "closed"}
  /\ taken \in 0 .. MaxIn /\ pending \in 0 .. ReadSize /\ sent \in 0 .. MaxIn
  /\ late \in BOOLEAN

IInv == /\ ClientType /\ SessionType /\ PcInv
        /\ StdinInv /\ StatusInv /\ AwaitInv /\ ShellPutIsComplete

(****************************** the parts ***********************************)

(* The types of the client and of its session are apart.                     *)
LEMMA TypeParts == TypeOK <=> ClientType /\ SessionType
  BY DEF TypeOK, ClientType, SessionType

(* A chunk of stdin is no longer than a read or than what is left, and empty *)
(* only at the end.                                                          *)
LEMMA ChunkType ==
  ASSUME SessionType
  PROVE  /\ Chunk \in 0 .. ReadSize /\ MaxIn \in Nat /\ ReadSize \in Nat \ {0}
         /\ pending = 0 => Chunk <= MaxIn - taken
         /\ pending > 0 => Chunk = pending
         /\ Chunk = 0 => pending = 0 /\ taken = MaxIn
  BY SshAssumption DEF SessionType, Chunk

(* When a call ends and when a probe is repeated.                            *)
LEMMA RaisesCases ==
  ASSUME Raises
  PROVE  \/ probing /\ pc' = "sleep" /\ probing' = probing /\ result' = result
         \/ ~ probing /\ pc' = "idle" /\ result' = "raised" /\ probing' = FALSE
  BY DEF Raises, Ends

(* Steps that leave the session alone, and end no call in success.           *)
LEMMA Aside ==
  ASSUME IInv, UNCHANGED session,
         \/ pc' \notin Loop /\ pc' # "idle"
         \/ pc' = "idle" /\ result' \in {"none", "raised", "transferred"}
         \/ pc' = "recv" /\ pc \in Loop /\ UNCHANGED <<op, probing>>
         \/ pc' = pc /\ UNCHANGED <<op, probing, result>>
  PROVE  SessionType' /\ StdinInv' /\ StatusInv' /\ ShellPutIsComplete'
<1>1. UNCHANGED <<remote, sending, buffer, known, stdin, taken, pending, sent, late>>
  BY DEF session
<1>2. SessionType'
  BY <1>1 DEF IInv, SessionType
<1>3. StdinInv'
  BY <1>1 DEF IInv, StdinInv
<1>4. StatusInv'
  BY <1>1 DEF IInv, StatusInv, Loop
<1>5. ShellPutIsComplete'
  BY <1>1 DEF IInv, ShellPutIsComplete
<1> QED
  BY <1>2, <1>3, <1>4, <1>5

(* The invariant holds before the first call.                                *)
LEMMA InitInv == Init => IInv
<1> SUFFICES ASSUME Init
             PROVE  IInv
  OBVIOUS
<1>1. ClientType
  <2>1. calls \in 0 .. MaxCalls
    BY SshAssumption DEF Init
  <2> QED
    BY <2>1 DEF Init, ClientType, Op
<1>2. SessionType
  <2>1. /\ None \in [Stream -> 0 .. Window]
        /\ taken \in 0 .. MaxIn /\ pending \in 0 .. ReadSize /\ sent \in 0 .. MaxIn
    BY SshAssumption DEF Init, None
  <2> QED
    BY <2>1 DEF Init, SessionType
<1>3. PcInv /\ StdinInv /\ StatusInv /\ AwaitInv /\ ShellPutIsComplete
  BY DEF Init, PcInv, StdinInv, StatusInv, AwaitInv, ShellPutIsComplete
<1> QED
  BY <1>1, <1>2, <1>3 DEF IInv

(* Every step keeps the invariant.                                           *)
LEMMA StepInv == IInv /\ [Next]_vars => IInv'
<1> SUFFICES ASSUME IInv, [Next]_vars
             PROVE  IInv'
  OBVIOUS
<1>0. ClientType /\ SessionType /\ PcInv /\ StdinInv /\ StatusInv /\ AwaitInv /\ ShellPutIsComplete
  BY DEF IInv
<1> USE <1>0 DEF Loop, Ends
<1>1. CASE Call
  <2>1. ClientType'
    BY <1>1, SshAssumption DEF Call, connection, ClientType
  <2>2. SessionType' /\ StdinInv' /\ StatusInv' /\ ShellPutIsComplete'
    BY <1>1, Aside DEF Call
  <2>3. PcInv'
    BY <1>1 DEF Call, PcInv
  <2>4. AwaitInv'
    BY <1>1 DEF Call, connection, AwaitInv
  <2> QED
    BY <2>1, <2>2, <2>3, <2>4 DEF IInv
<1>2. CASE Disconnect
  <2>1. ClientType'
    BY <1>2 DEF Disconnect, ClientType
  <2>2. SessionType' /\ StdinInv' /\ StatusInv' /\ ShellPutIsComplete'
    BY <1>2, Aside DEF Disconnect
  <2>3. PcInv'
    BY <1>2 DEF Disconnect, PcInv
  <2>4. AwaitInv'
    BY <1>2 DEF Disconnect, AwaitInv
  <2> QED
    BY <2>1, <2>2, <2>3, <2>4 DEF IInv
<1>3. CASE Connected
  <2>1. ClientType'
    BY <1>3 DEF Connected, connection, ClientType
  <2>2. SessionType' /\ StdinInv' /\ StatusInv' /\ ShellPutIsComplete'
    BY <1>3, Aside DEF Connected
  <2>3. PcInv'
    BY <1>3 DEF Connected, connection, PcInv, ClientType
  <2>4. AwaitInv'
    BY <1>3 DEF Connected, connection, AwaitInv
  <2> QED
    BY <2>1, <2>2, <2>3, <2>4 DEF IInv
<1>4. CASE Connects
  <2>1. ClientType'
    BY <1>4 DEF Connects, ConnectsThen, ClientType
  <2>2. SessionType' /\ StdinInv' /\ StatusInv' /\ ShellPutIsComplete'
    BY <1>4, Aside DEF Connects, ConnectsThen
  <2>3. PcInv'
    BY <1>4 DEF Connects, ConnectsThen, PcInv
  <2>4. AwaitInv'
    BY <1>4 DEF Connects, ConnectsThen, AwaitInv
  <2> QED
    BY <2>1, <2>2, <2>3, <2>4 DEF IInv
<1>5. CASE ConnectFails
  <2>1. ClientType'
    BY <1>5 DEF ConnectFails, connection, ClientType
  <2>2. SessionType' /\ StdinInv' /\ StatusInv' /\ ShellPutIsComplete'
    BY <1>5, Aside DEF ConnectFails
  <2>3. PcInv'
    BY <1>5 DEF ConnectFails, PcInv
  <2>4. AwaitInv'
    BY <1>5 DEF ConnectFails, connection, AwaitInv
  <2> QED
    BY <2>1, <2>2, <2>3, <2>4 DEF IInv
<1>6. CASE Transfer
  <2>1. ClientType'
    BY <1>6 DEF Transfer, connection, ClientType
  <2>2. SessionType' /\ StdinInv' /\ StatusInv' /\ ShellPutIsComplete'
    BY <1>6, Aside DEF Transfer
  <2>3. PcInv'
    BY <1>6 DEF Transfer, connection, PcInv
  <2>4. AwaitInv'
    BY <1>6 DEF Transfer, connection, PcInv, AwaitInv
  <2> QED
    BY <2>1, <2>2, <2>3, <2>4 DEF IInv
<1>7. CASE OpenFails
  <2>1. ClientType'
    BY <1>7, RaisesCases DEF OpenFails, ClientType
  <2>2. SessionType' /\ StdinInv' /\ StatusInv' /\ ShellPutIsComplete'
    BY <1>7, Aside, RaisesCases DEF OpenFails
  <2>3. PcInv'
    BY <1>7, RaisesCases DEF OpenFails, PcInv
  <2>4. AwaitInv'
    <3>1. UNCHANGED <<waits, client, answered>> /\ pc \in {"wait", "open", "act"}
      BY <1>7 DEF OpenFails, Opening
    <3>2. \/ probing' /\ probing
          \/ ~ probing /\ excused' = excused
          \/ excused' = (excused \/ probing)
      BY <1>7, RaisesCases DEF OpenFails
    <3> QED
      BY <3>1, <3>2 DEF AwaitInv
  <2> QED
    BY <2>1, <2>2, <2>3, <2>4 DEF IInv
<1>8. CASE Sleep
  <2>1. ClientType'
    BY <1>8 DEF Sleep, ClientType
  <2>2. SessionType' /\ StdinInv' /\ StatusInv' /\ ShellPutIsComplete'
    BY <1>8, Aside DEF Sleep
  <2>3. PcInv'
    BY <1>8 DEF Sleep, PcInv
  <2>4. AwaitInv'
    BY <1>8 DEF Sleep, AwaitInv
  <2> QED
    BY <2>1, <2>2, <2>3, <2>4 DEF IInv
<1>9. CASE CheckTime
  <2>1. ClientType'
    <3>1. /\ UNCHANGED <<waits, timed, calls, op, client, link, answered, excused, waitLate, missed>>
          /\ pc' \in {"recv", "sleep", "idle"} /\ result' \in {result, "raised"}
      BY <1>9, RaisesCases DEF CheckTime, connection
    <3>2. probing' \in BOOLEAN
      BY <1>9, RaisesCases DEF CheckTime, ClientType
    <3> QED
      BY <3>1, <3>2 DEF ClientType
  <2>2. SessionType' /\ StdinInv' /\ StatusInv' /\ ShellPutIsComplete'
    BY <1>9, Aside, RaisesCases DEF CheckTime
  <2>3. PcInv'
    BY <1>9, RaisesCases DEF CheckTime, connection, PcInv
  <2>4. AwaitInv'
    BY <1>9, RaisesCases DEF CheckTime, connection, AwaitInv
  <2> QED
    BY <2>1, <2>2, <2>3, <2>4 DEF IInv
<1>10. CASE WaitLate
  <2>1. ClientType'
    BY <1>10 DEF WaitLate, connection, ClientType
  <2>2. SessionType' /\ StdinInv' /\ StatusInv' /\ ShellPutIsComplete'
    BY <1>10, Aside DEF WaitLate
  <2>3. PcInv'
    BY <1>10 DEF WaitLate, connection, PcInv
  <2>4. AwaitInv'
    BY <1>10 DEF WaitLate, AwaitInv
  <2> QED
    BY <2>1, <2>2, <2>3, <2>4 DEF IInv
<1>11. CASE OpenSession
  <2>1. ClientType'
    BY <1>11 DEF OpenSession, connection, ClientType
  <2>2. SessionType'
    <3>1. /\ None \in [Stream -> 0 .. Window]
          /\ taken' \in 0 .. MaxIn /\ pending' \in 0 .. ReadSize /\ sent' \in 0 .. MaxIn
      BY <1>11, SshAssumption DEF OpenSession, None
    <3>2. stdin' \in {"none", "open", "kept", "closed"}
      BY <1>11 DEF OpenSession
    <3> QED
      BY <1>11, <3>1 DEF OpenSession, SessionType
  <2>3. PcInv'
    BY <1>11 DEF OpenSession, Opening, connection, PcInv
  <2>4. StdinInv'
    BY <1>11 DEF OpenSession, StdinInv
  <2>5. StatusInv'
    BY <1>11 DEF OpenSession, StatusInv
  <2>6. AwaitInv'
    BY <1>11 DEF OpenSession, connection, AwaitInv
  <2>7. ShellPutIsComplete'
    BY <1>11 DEF OpenSession, ShellPutIsComplete
  <2> QED
    BY <2>1, <2>2, <2>3, <2>4, <2>5, <2>6, <2>7 DEF IInv
<1>12. CASE Recv
  <2>1. ClientType'
    BY <1>12 DEF Recv, Read, connection, ClientType
  <2>2. SessionType'
    <3>1. PICK s \in Stream : \/ buffer[s] > 0 /\ buffer' = [buffer EXCEPT ![s] = buffer[s] - 1]
                              \/ buffer' = buffer
      BY <1>12 DEF Recv, Read, Stream
    <3>2. buffer' \in [Stream -> 0 .. Window]
      BY <3>1, SshAssumption DEF SessionType
    <3>3. UNCHANGED <<remote, sending, known, stdin, taken, pending, sent, late>>
      BY <1>12 DEF Recv, Read
    <3> QED
      BY <3>2, <3>3 DEF SessionType
  <2>3. PcInv'
    BY <1>12 DEF Recv, Read, connection, PcInv
  <2>4. StdinInv'
    BY <1>12 DEF Recv, Read, StdinInv
  <2>5. StatusInv'
    BY <1>12 DEF Recv, Read, StatusInv
  <2>6. AwaitInv'
    BY <1>12 DEF Recv, Read, connection, AwaitInv
  <2>7. ShellPutIsComplete'
    BY <1>12 DEF Recv, Read, ShellPutIsComplete
  <2> QED
    BY <2>1, <2>2, <2>3, <2>4, <2>5, <2>6, <2>7 DEF IInv
<1>13. CASE Send
  <2>1. ClientType'
    <3>1. UNCHANGED <<waits, timed, calls, op, client, link, answered, excused, waitLate, missed>>
      BY <1>13 DEF Send, SendThen, connection
    <3>2. \/ pc' = "exit" /\ probing' = probing /\ result' = result
          \/ Raises
      BY <1>13 DEF Send, SendThen
    <3>3. /\ pc' \in {"exit", "sleep", "idle"} /\ probing' \in BOOLEAN
          /\ result' \in {result, "raised"}
      BY <3>2, RaisesCases DEF ClientType
    <3> QED
      BY <3>1, <3>3 DEF ClientType
  <2>2. SessionType'
    <3>1. UNCHANGED <<remote, sending, buffer, known, late>>
      BY <1>13 DEF Send, SendThen
    <3>2. stdin' \in {stdin, "closed"}
      BY <1>13 DEF Send, SendThen
    <3>3. \/ UNCHANGED <<taken, pending, sent>>
          \/ /\ taken' = IF pending > 0 THEN taken ELSE taken + Chunk
             /\ \E n \in 1 .. Chunk : sent' = sent + n /\ pending' = Chunk - n
      BY <1>13 DEF Send, SendThen
    <3>4. taken' \in 0 .. MaxIn /\ pending' \in 0 .. ReadSize /\ sent' \in 0 .. MaxIn
      BY <3>3, ChunkType DEF SessionType, StdinInv
    <3> QED
      BY <3>1, <3>2, <3>4 DEF SessionType
  <2>3. PcInv'
    BY <1>13, RaisesCases DEF Send, SendThen, connection, PcInv
  <2>4. StdinInv'
    BY <1>13, ChunkType DEF Send, SendThen, SessionType, StdinInv
  <2>5. StatusInv'
    BY <1>13, RaisesCases DEF Send, SendThen, StatusInv
  <2>6. AwaitInv'
    BY <1>13, RaisesCases DEF Send, SendThen, connection, AwaitInv
  <2>7. ShellPutIsComplete'
    BY <1>13, RaisesCases DEF Send, SendThen, ShellPutIsComplete
  <2> QED
    BY <2>1, <2>2, <2>3, <2>4, <2>5, <2>6, <2>7 DEF IInv
<1>14. CASE ExitReady
  <2>1. ClientType'
    <3>1. UNCHANGED <<waits, timed, calls, op, client, link, excused, waitLate>>
      BY <1>14 DEF ExitReady
    <3>2. /\ pc' \in {"time", "act", "idle"} /\ probing' \in {probing, FALSE}
          /\ answered' \in {answered, TRUE} /\ result' \in {result, "raised", known}
      BY <1>14 DEF ExitReady
    <3>3. missed' \in BOOLEAN
      BY <1>14 DEF ExitReady, ClientType
    <3>4. known # "no" \/ result' = result
      BY <1>14 DEF ExitReady
    <3>5. result' \in {"none", "transferred", "ok", "error", "lost", "raised"}
      BY <3>2, <3>4 DEF ClientType, SessionType
    <3>6. probing' \in BOOLEAN /\ answered' \in BOOLEAN
      BY <3>2 DEF ClientType
    <3> QED
      BY <3>1, <3>2, <3>3, <3>5 DEF ClientType
  <2>2. SessionType'
    BY <1>14 DEF ExitReady, session, SessionType
  <2>3. PcInv'
    BY <1>14 DEF ExitReady, PcInv
  <2>4. StdinInv'
    BY <1>14 DEF ExitReady, session, StdinInv
  <2>5. StatusInv'
    BY <1>14 DEF ExitReady, session, StatusInv
  <2>6. AwaitInv'
    BY <1>14 DEF ExitReady, AwaitInv
  <2>7. ShellPutIsComplete'
    <3> SUFFICES ASSUME pc' = "idle", op' = "put_file",
                        result' \notin {"none", "raised", "transferred"}
                 PROVE  result' = "ok" /\ remote' = "ok" /\ sent' = MaxIn
      BY DEF ShellPutIsComplete
    <3>1. UNCHANGED <<remote, sent, op, taken, pending>> /\ pc = "exit" /\ ~ probing
          /\ result' = IF known # "ok" THEN "raised" ELSE known
      BY <1>14 DEF ExitReady, Raising, session
    <3>2. known = "ok" /\ remote = "ok" /\ stdin = "closed"
      BY <3>1 DEF StatusInv
    <3>3. sent = MaxIn
      BY <3>2 DEF StdinInv, SessionType
    <3> QED
      BY <3>1, <3>2, <3>3
  <2> QED
    BY <2>1, <2>2, <2>3, <2>4, <2>5, <2>6, <2>7 DEF IInv
<1>15. CASE FallsSilent
  <2>1. ClientType'
    BY <1>15 DEF FallsSilent, Outside, connection, ClientType
  <2>2. SessionType'
    BY <1>15 DEF FallsSilent, SessionType
  <2>3. PcInv'
    BY <1>15 DEF FallsSilent, Outside, connection, PcInv
  <2>4. StdinInv'
    BY <1>15 DEF FallsSilent, StdinInv
  <2>5. StatusInv'
    BY <1>15 DEF FallsSilent, StatusInv
  <2>6. AwaitInv'
    BY <1>15 DEF FallsSilent, Outside, connection, AwaitInv
  <2>7. ShellPutIsComplete'
    BY <1>15 DEF FallsSilent, Outside, ShellPutIsComplete
  <2> QED
    BY <2>1, <2>2, <2>3, <2>4, <2>5, <2>6, <2>7 DEF IInv
<1>16. CASE CommandExits
  <2>1. ClientType'
    BY <1>16 DEF CommandExits, Outside, connection, ClientType
  <2>2. SessionType'
    BY <1>16 DEF CommandExits, SessionType
  <2>3. PcInv'
    BY <1>16 DEF CommandExits, Outside, connection, PcInv
  <2>4. StdinInv'
    BY <1>16 DEF CommandExits, StdinInv
  <2>5. StatusInv'
    BY <1>16 DEF CommandExits, Outside, StatusInv
  <2>6. AwaitInv'
    BY <1>16 DEF CommandExits, Outside, connection, AwaitInv
  <2>7. ShellPutIsComplete'
    BY <1>16 DEF CommandExits, Outside, ShellPutIsComplete
  <2> QED
    BY <2>1, <2>2, <2>3, <2>4, <2>5, <2>6, <2>7 DEF IInv
<1>17. CASE StatusArrives
  <2>1. ClientType'
    BY <1>17 DEF StatusArrives, Outside, connection, ClientType
  <2>2. SessionType'
    BY <1>17 DEF StatusArrives, SessionType
  <2>3. PcInv'
    BY <1>17 DEF StatusArrives, Outside, connection, PcInv
  <2>4. StdinInv'
    BY <1>17 DEF StatusArrives, StdinInv
  <2>5. StatusInv'
    BY <1>17 DEF StatusArrives, Outside, StatusInv
  <2>6. AwaitInv'
    BY <1>17 DEF StatusArrives, Outside, connection, AwaitInv
  <2>7. ShellPutIsComplete'
    BY <1>17 DEF StatusArrives, Outside, ShellPutIsComplete
  <2> QED
    BY <2>1, <2>2, <2>3, <2>4, <2>5, <2>6, <2>7 DEF IInv
<1>18. CASE LinkLost
  <2>1. ClientType'
    <3>1. UNCHANGED <<waits, timed, calls, pc, op, probing, client, answered, excused, waitLate,
                      missed, result>>
      BY <1>18 DEF LinkLost, Outside
    <3>2. link' \in BOOLEAN
      BY <1>18 DEF LinkLost
    <3> QED
      BY <3>1, <3>2 DEF ClientType
  <2>2. SessionType'
    BY <1>18 DEF LinkLost, SessionType
  <2>3. PcInv'
    BY <1>18 DEF LinkLost, Outside, PcInv
  <2>4. StdinInv'
    BY <1>18 DEF LinkLost, StdinInv
  <2>5. StatusInv'
    BY <1>18 DEF LinkLost, Outside, StatusInv
  <2>6. AwaitInv'
    BY <1>18 DEF LinkLost, Outside, AwaitInv
  <2>7. ShellPutIsComplete'
    BY <1>18 DEF LinkLost, Outside, ShellPutIsComplete
  <2> QED
    BY <2>1, <2>2, <2>3, <2>4, <2>5, <2>6, <2>7 DEF IInv
<1>19. CASE CommandLate
  <2>1. ClientType'
    BY <1>19 DEF CommandLate, Outside, connection, ClientType
  <2>2. SessionType'
    BY <1>19 DEF CommandLate, SessionType
  <2>3. PcInv'
    BY <1>19 DEF CommandLate, Outside, connection, PcInv
  <2>4. StdinInv'
    BY <1>19 DEF CommandLate, StdinInv
  <2>5. StatusInv'
    BY <1>19 DEF CommandLate, Outside, StatusInv
  <2>6. AwaitInv'
    BY <1>19 DEF CommandLate, Outside, connection, AwaitInv
  <2>7. ShellPutIsComplete'
    BY <1>19 DEF CommandLate, Outside, ShellPutIsComplete
  <2> QED
    BY <2>1, <2>2, <2>3, <2>4, <2>5, <2>6, <2>7 DEF IInv
<1>20. CASE \E s \in Stream : Writes(s) \/ Arrives(s)
  <2>1. ClientType'
    BY <1>20 DEF Writes, Arrives, Outside, connection, ClientType
  <2>2. SessionType'
    BY <1>20, SshAssumption DEF Writes, Arrives, SessionType
  <2>3. PcInv'
    BY <1>20 DEF Writes, Arrives, Outside, connection, PcInv
  <2>4. StdinInv'
    BY <1>20 DEF Writes, Arrives, StdinInv
  <2>5. StatusInv'
    BY <1>20 DEF Writes, Arrives, Outside, StatusInv
  <2>6. AwaitInv'
    <3>1. UNCHANGED <<waits, client, probing, answered, excused>>
      BY <1>20 DEF Writes, Arrives, Outside, connection
    <3> QED
      BY <3>1 DEF AwaitInv
  <2>7. ShellPutIsComplete'
    BY <1>20 DEF Writes, Arrives, Outside, ShellPutIsComplete
  <2> QED
    BY <2>1, <2>2, <2>3, <2>4, <2>5, <2>6, <2>7 DEF IInv
<1>21. CASE UNCHANGED vars
  <2>1. ClientType'
    BY <1>21 DEF vars, connection, ClientType
  <2>2. SessionType'
    BY <1>21 DEF vars, session, SessionType
  <2>3. PcInv'
    BY <1>21 DEF vars, connection, PcInv
  <2>4. StdinInv'
    BY <1>21 DEF vars, session, StdinInv
  <2>5. StatusInv'
    BY <1>21 DEF vars, session, StatusInv
  <2>6. AwaitInv'
    BY <1>21 DEF vars, connection, AwaitInv
  <2>7. ShellPutIsComplete'
    BY <1>21 DEF vars, session, ShellPutIsComplete
  <2> QED
    BY <2>1, <2>2, <2>3, <2>4, <2>5, <2>6, <2>7 DEF IInv
<1> QED
  BY <1>1, <1>2, <1>3, <1>4, <1>5, <1>6, <1>7, <1>8, <1>9, <1>10, <1>11, <1>12, <1>13, <1>14,
     <1>15, <1>16, <1>17, <1>18, <1>19, <1>20, <1>21 DEF Next, Client, Library, Server, Done


(* What the place of the client says of stdin, status and connection always  *)
(* holds.                                                                    *)
THEOREM Inductive == Spec => []IInv
  BY InitInv, StepInv, PTL DEF Spec

(**************************** the theorems **********************************)

(* No more of stdin is taken or sent than there is, whatever send() takes.   *)
THEOREM TypeCorrect == Spec => []TypeOK
<1>1. IInv => TypeOK
  BY TypeParts DEF IInv
<1> QED
  BY Inductive, <1>1, PTL

(* A put_file() through the shell returns only when all of the file was sent *)
(* and cat has ended well.                                                   *)
THEOREM ShellPutComplete == Spec => []ShellPutIsComplete
<1>1. IInv => ShellPutIsComplete
  BY DEF IInv
<1> QED
  BY Inductive, <1>1, PTL

(* Commands run on a client that was waited for, or that an earlier call     *)
(* left behind.                                                              *)
THEOREM CommandAwaited == Spec => []CommandIsAwaited
<1>1. IInv => CommandIsAwaited
  BY DEF IInv, PcInv, AwaitInv, CommandIsAwaited, Loop
<1> QED
  BY Inductive, <1>1, PTL
=============================================================================
