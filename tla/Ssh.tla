-------------------------------- MODULE Ssh --------------------------------
(* The SSH client of vnftest/ssh.py: an AutoConnectSSH connects, waits until *)
(* the host executes a command, and runs commands over sessions of the one   *)
(* connection; SSH._run() moves stdin, stdout and stderr of a command.       *)
(*                                                                           *)
(* The server and the transport thread of paramiko are external: what a      *)
(* command writes, and then its exit status, arrive in order and at any      *)
(* time, also between two lines of _run(); a stream holds Window chunks on   *)
(* the way and Window in its buffer.  The connection may be lost.            *)
EXTENDS Naturals

CONSTANTS MaxCalls,  \* bound on the calls of the client
          Window,    \* chunks of a stream on the way, and in the buffer
          MaxIn,     \* the length of stdin
          ReadSize   \* how much of stdin is read at once

ASSUME SshAssumption == /\ MaxCalls \in Nat \ {0} /\ Window \in Nat \ {0}
                        /\ MaxIn \in Nat /\ ReadSize \in Nat \ {0}

(* "transfer" is put(), put_file_obj() or get_file_obj(); "get" is get() or   *)
(* send_command(), which AutoConnectSSH leaves as they are.                   *)
Op == {"execute", "run", "put_file", "transfer", "get"}
Stream == {"stdout", "stderr"}

VARIABLES
  waits, timed,   \* self._wait, and whether the caller set a timeout
  calls,          \* calls made so far
  pc, op,         \* where the client is, and what it was called for
  probing,        \* the session runs the uname of wait()
  client,         \* self._client, "none" for False
  link,           \* the connection is up
  answered,       \* history: wait() returned for this client
  excused,        \* history: wait() raised and left this client, or get() made it
  remote,         \* the command: "chatty", "silent", or how it exited
  sending, buffer,  \* chunks on the way, and arrived, of each stream
  known,          \* the exit status that has arrived
  stdin, taken, pending, sent,  \* the local stdin, and how far it was moved
  late, waitLate, \* the deadlines of the command and of wait()
  missed,         \* history: the command ended with output left unread
  result          \* how the last call ended

session == <<remote, sending, buffer, known, stdin, taken, pending, sent, late>>
connection == <<client, link, answered, excused>>
vars == <<waits, timed, calls, pc, op, probing, connection, session, waitLate, missed, result>>

Raising == op # "execute" /\ ~ probing    \* raise_on_error
Timed == timed \/ probing \/ op = "put_file"
None == [s \in Stream |-> 0]
Loop == {"recv", "stderr", "send", "exit", "time"}

Init == /\ waits \in BOOLEAN /\ timed \in BOOLEAN
        /\ calls = 0 /\ pc = "idle" /\ op = "execute" /\ probing = FALSE
        /\ client = "none" /\ link = FALSE /\ answered = FALSE /\ excused = FALSE
        /\ remote = "silent" /\ sending = None /\ buffer = None /\ known = "lost"
        /\ stdin = "none" /\ taken = 0 /\ pending = 0 /\ sent = 0 /\ late = FALSE
        /\ waitLate = FALSE /\ missed = FALSE /\ result = "none"

(******************************* the calls *********************************)

Call == /\ pc = "idle" /\ calls < MaxCalls
        /\ calls' = calls + 1
        /\ op' \in Op
        /\ pc' = "connect" /\ result' = "none"
        /\ UNCHANGED <<waits, timed, probing, connection, session, waitLate, missed>>

(* close(), drop_connection() *)
Disconnect == /\ pc = "idle"
              /\ client # "none"
              /\ client' = "none" /\ link' = FALSE
              /\ UNCHANGED <<waits, timed, calls, pc, op, probing, answered, excused, session,
                             waitLate, missed, result>>

Ends(value) == pc' = "idle" /\ result' = value /\ probing' = FALSE

(* _connect(): a client that is there is taken for a connected one *)
Connected == /\ pc = "connect" /\ client # "none"
             /\ pc' = "act"
             /\ UNCHANGED <<waits, timed, calls, op, probing, connection, session, waitLate, missed, result>>

ConnectsThen(waiting) ==
  /\ pc = "connect" /\ client = "none"
  /\ client' = "up" /\ link' = TRUE /\ answered' = FALSE /\ excused' = (op = "get")
  /\ pc' = IF waiting THEN "wait" ELSE "act"
  /\ probing' = waiting
  /\ waitLate' = FALSE
  /\ UNCHANGED <<waits, timed, calls, op, session, missed, result>>
ConnectsOnly == ConnectsThen(FALSE)                                    \* variant
Connects == ConnectsThen(waits /\ op # "get")

ConnectFails == /\ pc = "connect" /\ client = "none"
                /\ Ends("raised")
                /\ UNCHANGED <<waits, timed, calls, op, connection, session, waitLate, missed>>

(* One transfer of the library, which raises when the connection is lost.    *)
(* For put_file(), some of its errors lead to a second try through the shell. *)
Transfer == /\ pc = "act" /\ op \in {"transfer", "put_file", "get"}
            /\ \/ link /\ Ends("transferred")
               \/ Ends("raised")
               \/ op = "put_file" /\ pc' = "open" /\ UNCHANGED <<probing, result>>
            /\ UNCHANGED <<waits, timed, calls, op, connection, session, waitLate, missed>>

(******************************* sessions **********************************)

Opening == \/ pc \in {"wait", "open"}
           \/ pc = "act" /\ op \in {"execute", "run"}

OpenSession ==
  /\ Opening /\ link
  /\ pc' = "recv"
  /\ remote' = "chatty" /\ sending' = None /\ buffer' = None /\ known' = "no"
  /\ stdin' \in (IF probing THEN {"none"}
                 ELSE IF op = "put_file" THEN {"open"} ELSE {"none", "open", "kept"})
  /\ taken' = 0 /\ pending' = 0 /\ sent' = 0
  /\ late' = FALSE /\ missed' = FALSE
  /\ UNCHANGED <<waits, timed, calls, op, probing, connection, waitLate, result>>

(* wait() tries again after an SSHError or a socket.error *)
Raises == IF probing THEN pc' = "sleep" /\ UNCHANGED <<probing, result>>
                     ELSE Ends("raised")

(* open_session() or exec_command() raises.  Most of its errors are          *)
(* exceptions of paramiko that wait() does not catch.                        *)
OpenFails == /\ Opening
             /\ \/ Raises /\ UNCHANGED excused
                \/ Ends("raised") /\ excused' = (excused \/ probing)
             /\ UNCHANGED <<waits, timed, calls, op, client, link, answered, session, waitLate, missed>>

Sleep == /\ pc = "sleep"
         /\ IF waitLate THEN Ends("raised") /\ excused' = TRUE
                        ELSE pc' = "wait" /\ UNCHANGED <<probing, result, excused>>
         /\ UNCHANGED <<waits, timed, calls, op, client, link, answered, session, waitLate, missed>>

(* the reads of one turn of _run(): a chunk that was read starts a new turn *)
Read(s, here, next) ==
  /\ pc = here
  /\ IF buffer[s] > 0
     THEN buffer' = [buffer EXCEPT ![s] = @ - 1] /\ pc' = "recv"
     ELSE pc' = next /\ UNCHANGED buffer
  /\ UNCHANGED <<waits, timed, calls, op, probing, connection, remote, sending, known, stdin, taken,
                 pending, sent, late, waitLate, missed, result>>
Recv == Read("stdout", "recv", "stderr") \/ Read("stderr", "stderr", "send")

(* What is left of stdin is read when nothing is pending; an empty read      *)
(* closes it, unless it is to be kept open.  send() may take a part only.    *)
Chunk == IF pending > 0 THEN pending
         ELSE IF MaxIn - taken < ReadSize THEN MaxIn - taken ELSE ReadSize

SendThen(rest) ==
  /\ pc = "send"
  /\ \/ /\ pc' = "exit"
        /\ UNCHANGED <<stdin, taken, pending, sent, probing, result>>
     \/ /\ stdin \in {"open", "kept"} /\ Chunk = 0
        /\ stdin' = IF stdin = "open" THEN "closed" ELSE stdin
        /\ pc' = "exit"
        /\ UNCHANGED <<taken, pending, sent, probing, result>>
     \/ /\ stdin \in {"open", "kept"}
        /\ taken' = IF pending > 0 THEN taken ELSE taken + Chunk
        /\ \E n \in 1 .. Chunk : sent' = sent + n /\ pending' = rest[n]
        /\ pc' = "exit"
        /\ UNCHANGED <<stdin, probing, result>>
     \/ /\ stdin \in {"open", "kept"} /\ Chunk > 0 /\ ~ link
        /\ Raises
        /\ UNCHANGED <<stdin, taken, pending, sent>>
  /\ UNCHANGED <<waits, timed, calls, op, connection, remote, sending, buffer, known, late,
                 waitLate, missed>>
SendRepeats == SendThen([n \in 1 .. Chunk |-> Chunk])                    \* variant
SendForgets == SendThen([n \in 1 .. Chunk |-> 0])                        \* variant
Send == SendThen([n \in 1 .. Chunk |-> Chunk - n])

(* the exit status, -1 when the connection was lost, is looked at *)
ExitReady ==
  /\ pc = "exit"
  /\ IF known = "no" THEN pc' = "time" /\ UNCHANGED <<probing, result, answered, missed>>
     ELSE /\ missed' = (buffer # None)
          /\ IF probing THEN /\ answered' = TRUE /\ probing' = FALSE
                             /\ pc' = "act" /\ UNCHANGED result
             ELSE /\ Ends(IF Raising /\ known # "ok" THEN "raised" ELSE known)
                  /\ UNCHANGED answered
  /\ UNCHANGED <<waits, timed, calls, op, client, link, excused, session, waitLate>>

CheckTimeNever == pc = "time" /\ pc' = "recv"                          \* variant
                  /\ UNCHANGED <<waits, timed, calls, op, probing, connection, session, waitLate,
                                 missed, result>>
CheckTime == /\ pc = "time"
             /\ IF Timed /\ late THEN Raises
                ELSE \/ pc' = "recv" /\ UNCHANGED <<probing, result>>
                     \/ ~ link /\ Raises
             /\ UNCHANGED <<waits, timed, calls, op, connection, session, waitLate, missed>>

(************************ the server and the clock *************************)

Outside == <<waits, timed, calls, pc, op, probing, waitLate, missed, result>>

Writes(s) == /\ pc \in Loop /\ remote = "chatty"
             /\ sending[s] < Window
             /\ sending' = [sending EXCEPT ![s] = @ + 1]
             /\ UNCHANGED <<Outside, connection, remote, buffer, known, stdin, taken, pending, sent, late>>

FallsSilent == /\ pc \in Loop /\ remote = "chatty"
               /\ remote' = "silent"
               /\ UNCHANGED <<Outside, connection, sending, buffer, known, stdin, taken, pending, sent, late>>

(* the cat of _put_file_shell() succeeds only after the end of its stdin *)
CommandExits == /\ pc \in Loop /\ remote \in {"chatty", "silent"}
                /\ \/ remote' = "error"
                   \/ remote' = "ok" /\ (op = "put_file" /\ ~ probing => stdin = "closed")
                /\ UNCHANGED <<Outside, connection, sending, buffer, known, stdin, taken, pending, sent, late>>

Arrives(s) == /\ pc \in Loop /\ link
              /\ sending[s] > 0 /\ buffer[s] < Window
              /\ sending' = [sending EXCEPT ![s] = @ - 1]
              /\ buffer' = [buffer EXCEPT ![s] = @ + 1]
              /\ UNCHANGED <<Outside, connection, remote, known, stdin, taken, pending, sent, late>>

StatusArrives == /\ pc \in Loop /\ link
                 /\ remote \in {"ok", "error"} /\ known = "no"
                 /\ sending = None
                 /\ known' = remote
                 /\ UNCHANGED <<Outside, connection, remote, sending, buffer, stdin, taken, pending, sent, late>>

LinkLost == /\ link /\ link' = FALSE
            /\ known' = IF known = "no" THEN "lost" ELSE known
            /\ UNCHANGED <<Outside, client, answered, excused, remote, sending, buffer, stdin, taken,
                           pending, sent, late>>

CommandLate == /\ pc \in Loop /\ ~ late /\ late' = TRUE
               /\ UNCHANGED <<Outside, connection, remote, sending, buffer, known, stdin, taken, pending, sent>>

WaitLate == /\ probing /\ ~ waitLate /\ waitLate' = TRUE
            /\ UNCHANGED <<waits, timed, calls, pc, op, probing, connection, session, missed, result>>

Done == pc = "idle" /\ calls = MaxCalls /\ UNCHANGED vars

(* what waits for an answer of the host, without a timeout *)
Asking == pc \in {"act", "wait", "open"}
Library == Transfer \/ OpenSession \/ OpenFails
Client == \/ Connected \/ Connects \/ ConnectFails \/ Sleep
          \/ Recv \/ Send \/ ExitReady \/ CheckTime
Server == \/ FallsSilent \/ CommandExits \/ StatusArrives \/ LinkLost
          \/ \E s \in Stream : Writes(s) \/ Arrives(s)
Next == Call \/ Disconnect \/ Client \/ Library \/ Server \/ CommandLate \/ WaitLate \/ Done

Spec == Init /\ [][Next]_vars
(* The client runs, connect() has timeouts, and the clock goes on.  The      *)
(* server owes nothing: a command may hang, its output or the status may     *)
(* never arrive, and the calls of the library, exec_command() and the file   *)
(* transfers, return for certain only when the connection is lost.           *)
FairSpec == /\ Spec
            /\ WF_vars(Client) /\ WF_vars(~ link /\ Library)
            /\ WF_vars(CommandLate) /\ WF_vars(WaitLate)

(****************************** properties *********************************)

(* The types: in particular, no more of stdin is sent than there is, however *)
(* much of a chunk send() takes at a time.                                   *)
TypeOK ==
  /\ waits \in BOOLEAN /\ timed \in BOOLEAN
  /\ calls \in 0 .. MaxCalls
  /\ pc \in {"idle", "connect", "wait", "act", "open", "sleep"} \cup Loop
  /\ op \in Op /\ probing \in BOOLEAN
  /\ client \in {"none", "up"} /\ link \in BOOLEAN
  /\ answered \in BOOLEAN /\ excused \in BOOLEAN
  /\ remote \in {"chatty", "silent", "ok", "error"}
  /\ sending \in [Stream -> 0 .. Window] /\ buffer \in [Stream -> 0 .. Window]
  /\ known \in {"no", "ok", "error", "lost"}
  /\ stdin \in {"none", "open", "kept", "closed"}
  /\ taken \in 0 .. MaxIn /\ pending \in 0 .. ReadSize /\ sent \in 0 .. MaxIn
  /\ late \in BOOLEAN /\ waitLate \in BOOLEAN /\ missed \in BOOLEAN
  /\ result \in {"none", "transferred", "ok", "error", "lost", "raised"}

(* A put_file() that fell back on the shell returns only after the whole     *)
(* file was sent and the command ended well: no part of a chunk is forgotten *)
(* (ssh.py:320), and neither a failed command nor a lost connection, which   *)
(* has the status -1, is taken for a success.                                *)
ShellPutIsComplete ==
  pc = "idle" /\ op = "put_file" /\ result \notin {"none", "raised", "transferred"}
    => result = "ok" /\ remote = "ok" /\ sent = MaxIn

(* ssh.py:443, "always wait or we will get OpenStack SSH errors": a command  *)
(* runs on a client that has executed the uname of wait(), unless an earlier *)
(* call gave up waiting on it and left it, or was a get() or send_command(). *)
CommandIsAwaited == pc \in Loop /\ ~ probing /\ waits => answered \/ excused

(* A call ends, also when its command hangs, its output or exit status never *)
(* arrives, the connection is lost, or wait() fails again and again.  Two    *)
(* things without a timeout are excluded: a command that never stops writing *)
(* (continue, ssh.py:293), and a host that leaves a call of the library      *)
(* unanswered on a connection that stands (exec_command() at ssh.py:270 and  *)
(* 387, SFTP at ssh.py:392-396 and 429-438; of SCP the same is assumed).     *)
CallEnds == timed /\ <>[](~ (pc \in Loop /\ remote = "chatty")) /\ []<>(~ Asking)
              => (pc = "connect" ~> pc = "idle")

(* ssh.py:348, ":returns: tuple (exit_status, stdout, stderr)": when         *)
(* execute() returns the status of a command that ended by itself, it also   *)
(* returns all of its output.                                                *)
OutputIsComplete ==
  pc = "idle" /\ op = "execute" /\ result \in {"ok", "error"} => ~ missed
=============================================================================
