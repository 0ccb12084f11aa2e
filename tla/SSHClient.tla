------------------------------- MODULE SSHClient -------------------------------
(***************************************************************************)
(* One Client of pkg/sshclient/client.go: the goroutines that main.go      *)
(* starts for send(), resizeTerminal() and disconnect(), the goroutine     *)
(* that pumps c.stdin into the shell, and the SSH server at the other end  *)
(* of the connection.  c.mu is a sync.RWMutex: Lock first keeps new        *)
(* readers out, then waits until those inside have left.                   *)
(*                                                                         *)
(* What is sent is counted, not named: c.stdin is a FIFO with one reader.  *)
(***************************************************************************)
EXTENDS Integers, FiniteSets

CONSTANTS
  Callers,   \* goroutines started by the JavaScript side
  None,
  StdinCap,  \* capacity of c.stdin (100 in the code)
  MaxSends   \* bound of the model: a Send begins while fewer were accepted

ASSUME ClientAssumption ==
  /\ None \notin Callers
  /\ StdinCap \in Nat
  /\ MaxSends \in Nat

VARIABLES
  pc,            \* where each caller is
  writer,        \* holder of c.mu.Lock, or waiting for the readers, or None
  readers,       \* holders of c.mu.RLock
  conn,          \* c.conn # nil
  alive,         \* the connection behind it still works
  session,       \* c.session # nil
  shellStarted,  \* c.shellStarted
  shells,        \* history: shells started on the server
  shellUp,       \* the shell's channel is open at the server
  stdin,         \* c.stdin # nil
  stdinCloses,   \* how often close(c.stdin) ran; a second one panics
  queued,        \* chunks in the channel
  pump,          \* the goroutine that ranges over c.stdin
  accepted,      \* history: chunks for which Send found room
  written,       \* history: chunks the pump wrote to the shell
  registered,    \* the client is in `sessions'
  state          \* the last state given to onStateChange

mutex == <<writer, readers>>
link == <<conn, alive, registered, state>>
shell == <<session, shellStarted, shells, shellUp>>
pipe == <<stdin, stdinCloses, queued, pump, accepted, written>>
vars == <<pc, mutex, link, shell, pipe>>

ReaderPcs == {"enqueue", "resize"}
LockedPcs == {"opening", "requesting", "closing", "reporting"}
WriterPcs == {"shellLock", "disconnectLock"} \cup LockedPcs
WaitPcs == {"idle", "startShell", "relock", "failed", "disconnect"}

TypeOK ==
  /\ pc \in [Callers -> WaitPcs \cup ReaderPcs \cup WriterPcs]
  /\ writer \in Callers \cup {None}
  /\ readers \subseteq Callers
  /\ conn \in BOOLEAN /\ alive \in BOOLEAN
  /\ session \in BOOLEAN /\ shellStarted \in BOOLEAN
  /\ shells \in Nat /\ shellUp \in BOOLEAN
  /\ stdin \in BOOLEAN /\ stdinCloses \in Nat
  /\ queued \in 0 .. StdinCap
  /\ pump \in {"none", "spawned", "ranging", "writing", "blocked", "exited"}
  /\ accepted \in Nat /\ written \in Nat
  /\ registered \in BOOLEAN
  /\ state \in {"connecting", "error", "connected", "disconnecting", "disconnected"}

Init ==
  /\ pc = [c \in Callers |-> "idle"]
  /\ writer = None /\ readers = {}
  /\ conn = FALSE /\ alive = FALSE
  /\ session = FALSE /\ shellStarted = FALSE /\ shells = 0 /\ shellUp = FALSE
  /\ stdin = TRUE /\ stdinCloses = 0
  /\ queued = 0 /\ pump = "none" /\ accepted = 0 /\ written = 0
  /\ registered = FALSE
  /\ state = "connecting"

Goto(c, l) == pc' = [pc EXCEPT ![c] = l]

\* mu.Lock() in two steps; the second is a guard of what comes after it.
Announce(c) == writer = None /\ writer' = c /\ UNCHANGED readers
NoReaders == readers = {}

RLock(c) == writer = None /\ readers' = readers \cup {c} /\ UNCHANGED writer
RUnlock(c) == readers' = readers \ {c} /\ UNCHANGED writer
Unlock == writer' = None /\ UNCHANGED readers

-------------------------------------------------------------------------------
(* Connect runs before JavaScript has a handle on the client.              *)

Published == state \notin {"connecting", "error"}

\* send(), resizeTerminal() and disconnect() each start a goroutine.
Called(c) == Published /\ pc[c] = "idle"

ConnectDone ==
  /\ state = "connecting"
  /\ \/ /\ conn' = TRUE /\ alive' = TRUE /\ registered' = TRUE
        /\ state' = "connected"
     \/ state' = "error" /\ UNCHANGED <<conn, alive, registered>>
  /\ UNCHANGED <<pc, mutex, shell, pipe>>

\* The server, the network or the transport goes away.  Nobody is told.
LoseConnection ==
  /\ alive
  /\ alive' = FALSE /\ shellUp' = FALSE
  /\ UNCHANGED <<pc, mutex, conn, registered, state, session, shellStarted, shells, pipe>>

\* The remote shell exits; c.shellStarted stays set.
ShellExits ==
  /\ shellUp
  /\ shellUp' = FALSE
  /\ UNCHANGED <<pc, mutex, link, session, shellStarted, shells, pipe>>

-------------------------------------------------------------------------------
(* Send, and StartShell on the first one.                                  *)

\* RLock, test of shellStarted and, when there is no shell yet, RUnlock.
SendBegin(c) ==
  /\ Called(c) /\ accepted < MaxSends
  /\ \/ shellStarted /\ RLock(c) /\ Goto(c, "enqueue")
     \/ ~shellStarted /\ writer = None /\ Goto(c, "startShell") /\ UNCHANGED mutex
  /\ UNCHANGED <<link, shell, pipe>>

NotCheckedAgain == FALSE        \* mutant: StartShell trusts the test of Send
AlreadyStarted == shellStarted

ShellAnnounce(c) ==
  /\ pc[c] = "startShell"
  /\ Announce(c) /\ Goto(c, "shellLock")
  /\ UNCHANGED <<link, shell, pipe>>

\* The early returns: the shell was started meanwhile; not connected.
ShellLock(c) ==
  /\ pc[c] = "shellLock" /\ NoReaders
  /\ \/ AlreadyStarted /\ Unlock /\ Goto(c, "relock")
     \/ ~AlreadyStarted /\ ~conn /\ Unlock /\ Goto(c, "failed")
     \/ ~AlreadyStarted /\ conn /\ Goto(c, "opening") /\ UNCHANGED mutex
  /\ UNCHANGED <<link, shell, pipe>>

\* The answer to NewSession.
SessionAnswer(c) ==
  /\ pc[c] = "opening"
  /\ \/ alive /\ session' = TRUE /\ Goto(c, "requesting") /\ UNCHANGED mutex
     \/ Unlock /\ Goto(c, "failed") /\ UNCHANGED session
  /\ UNCHANGED <<link, shellStarted, shells, shellUp, pipe>>

\* The answer to RequestPty and Shell; a refusal leaves c.session set.
ShellAnswer(c) ==
  /\ pc[c] = "requesting"
  /\ \/ /\ alive
        /\ shellStarted' = TRUE /\ shells' = shells + 1 /\ shellUp' = TRUE
        /\ pump' = "spawned"
        /\ Goto(c, "relock")
     \/ Goto(c, "failed") /\ UNCHANGED <<shellStarted, shells, shellUp, pump>>
  /\ Unlock
  /\ UNCHANGED <<link, session, stdin, stdinCloses, queued, accepted, written>>

Relock(c) ==
  /\ pc[c] = "relock"
  /\ RLock(c) /\ Goto(c, "enqueue")
  /\ UNCHANGED <<link, shell, pipe>>

\* StartShell failed: Send takes c.mu.RLock all the same, and leaves with it.
SendFails(c) ==
  /\ pc[c] = "failed" /\ writer = None
  /\ Goto(c, "idle")
  /\ UNCHANGED <<mutex, link, shell, pipe>>

RoomForOneMore == stdin /\ queued <= StdinCap   \* mutant: off by one
Room == stdin /\ queued < StdinCap

FullIsFine(n) == n + 1          \* mutant: the default case returns nil too
Rejected(n) == n

\* select: a nil channel is never ready, so "stdin buffer full" is returned.
Enqueue(c) ==
  /\ pc[c] = "enqueue"
  /\ \/ Room /\ queued' = queued + 1 /\ accepted' = accepted + 1
     \/ ~Room /\ UNCHANGED queued /\ accepted' = Rejected(accepted)
  /\ RUnlock(c) /\ Goto(c, "idle")
  /\ UNCHANGED <<link, shell, stdin, stdinCloses, pump, written>>

-------------------------------------------------------------------------------
(* The pump goroutine.  `range c.stdin' evaluates c.stdin, without c.mu,   *)
(* when the goroutine first runs; stdin.Write ignores its error.           *)

PumpStart ==
  /\ pump = "spawned"
  /\ pump' = IF stdin THEN "ranging" ELSE "blocked"
  /\ UNCHANGED <<pc, mutex, link, shell, stdin, stdinCloses, queued, accepted, written>>

PumpTake ==
  /\ pump = "ranging" /\ queued > 0
  /\ queued' = queued - 1 /\ pump' = "writing"
  /\ UNCHANGED <<pc, mutex, link, shell, stdin, stdinCloses, accepted, written>>

PumpWrite ==
  /\ pump = "writing"
  /\ written' = IF shellUp THEN written + 1 ELSE written
  /\ pump' = "ranging"
  /\ UNCHANGED <<pc, mutex, link, shell, stdin, stdinCloses, queued, accepted>>

StopWhenIdle == queued = 0      \* mutant: the pump leaves an empty channel
Drained == queued = 0 /\ stdinCloses > 0

PumpExit ==
  /\ pump = "ranging" /\ Drained
  /\ pump' = "exited"
  /\ UNCHANGED <<pc, mutex, link, shell, stdin, stdinCloses, queued, accepted, written>>

-------------------------------------------------------------------------------
(* ResizeTerminal.                                                         *)

ResizeBegin(c) ==
  /\ Called(c) /\ session
  /\ RLock(c) /\ Goto(c, "resize")
  /\ UNCHANGED <<link, shell, pipe>>

WindowChange(c) ==
  /\ pc[c] = "resize"
  /\ RUnlock(c) /\ Goto(c, "idle")
  /\ UNCHANGED <<link, shell, pipe>>

-------------------------------------------------------------------------------
(* Disconnect.                                                             *)

\* notifyStateChange("disconnecting") comes before the lock.
DisconnectBegin(c) ==
  /\ Called(c)
  /\ state' = "disconnecting"
  /\ Goto(c, "disconnect")
  /\ UNCHANGED <<mutex, conn, alive, registered, shell, pipe>>

DisconnectAnnounce(c) ==
  /\ pc[c] = "disconnect"
  /\ Announce(c) /\ Goto(c, "disconnectLock")
  /\ UNCHANGED <<link, shell, pipe>>

ReadersIgnored == TRUE          \* mutant: does not wait for the readers
DisconnectLocked == NoReaders

CloseStdin(c) ==
  /\ pc[c] = "disconnectLock" /\ DisconnectLocked
  /\ stdinCloses' = IF stdin THEN stdinCloses + 1 ELSE stdinCloses
  /\ Goto(c, "closing")
  /\ UNCHANGED <<mutex, link, shell, stdin, queued, pump, accepted, written>>

\* c.stdin = nil, session.Close(), conn.Close(), shellStarted = false
CloseConnection(c) ==
  /\ pc[c] = "closing"
  /\ stdin' = FALSE
  /\ session' = FALSE /\ shellStarted' = FALSE /\ shellUp' = FALSE
  /\ conn' = FALSE /\ alive' = FALSE
  /\ Goto(c, "reporting")
  /\ UNCHANGED <<mutex, registered, state, shells, stdinCloses, queued, pump, accepted, written>>

ReleaseNothing == UNCHANGED mutex            \* mutant: Unlock forgotten
DisconnectUnlocks == Unlock

Report(c) ==
  /\ pc[c] = "reporting"
  /\ registered' = FALSE /\ state' = "disconnected"
  /\ DisconnectUnlocks /\ Goto(c, "idle")
  /\ UNCHANGED <<conn, alive, shell, pipe>>

-------------------------------------------------------------------------------
Waiting(c) == SessionAnswer(c) \/ ShellAnswer(c)
Running(c) ==
  \/ ShellAnnounce(c) \/ ShellLock(c) \/ Relock(c) \/ SendFails(c) \/ Enqueue(c)
  \/ WindowChange(c)
  \/ DisconnectAnnounce(c) \/ CloseStdin(c) \/ CloseConnection(c) \/ Report(c)
Calling(c) == SendBegin(c) \/ ResizeBegin(c) \/ DisconnectBegin(c)
Pumping == PumpStart \/ PumpTake \/ PumpWrite \/ PumpExit

Next ==
  \/ ConnectDone \/ LoseConnection \/ ShellExits
  \/ \E c \in Callers : Calling(c) \/ Running(c) \/ Waiting(c)
  \/ Pumping

Spec == Init /\ [][Next]_vars

\* A goroutine inside a call goes on (sync.RWMutex starves nobody that waits
\* for it), a server that is still there answers every request, and the shell
\* reads its input.  A request to a server that is gone may never return: the
\* end of a WebSocket is not reported to the Go side.  Nobody has to call
\* anything.
FairSpec ==
  /\ Spec
  /\ \A c \in Callers : SF_vars(Running(c)) /\ WF_vars(alive /\ Waiting(c))
  /\ WF_vars(Pumping)

-------------------------------------------------------------------------------
(* No goroutine panics: nobody is about to send on a closed channel that   *)
(* c.stdin still names, to use a c.session that is gone, or closes c.stdin *)
(* twice; and a shell is started at most once on a client, however many    *)
(* first Sends race each other and whatever the server refused before.     *)
NoPanic ==
  /\ \A c \in Callers : pc[c] = "enqueue" => ~(stdin /\ stdinCloses > 0)
  /\ \A c \in Callers : pc[c] = "resize" => session
  /\ stdinCloses <= 1
  /\ shells <= 1

(* Once JavaScript was told "disconnected" (and not yet "disconnecting" by *)
(* another call) nothing is left: no connection, no session, no shell, no  *)
(* entry in the registry, and no caller about to be accepted or to bring   *)
(* the shell back.                                                         *)
TornDown ==
  state = "disconnected" =>
    /\ ~conn /\ ~session /\ ~shellStarted /\ ~registered /\ ~stdin
    /\ \A c \in Callers : pc[c] \notin {"opening", "requesting", "resize"}

(* Nothing that Send accepted is written twice or out of thin air: the     *)
(* chunks accepted are in the channel, in the hands of the pump, written,  *)
(* or lost with the shell.                                                 *)
Held == queued + (IF pump = "writing" THEN 1 ELSE 0)
Accounted ==
  /\ written + Held <= accepted
  /\ shellUp => written + Held = accepted

(* A goroutine in the critical section of c.mu is what the mutex says, and *)
(* what it found there still holds when it acts on it.                     *)
LockInv ==
  /\ \A c \in Callers : writer = c <=> pc[c] \in WriterPcs
  /\ \A c \in Callers : c \in readers <=> pc[c] \in ReaderPcs
  /\ \A c \in Callers : pc[c] \in LockedPcs => readers = {}

ShellInv ==
  /\ \A c \in Callers : pc[c] \in {"opening", "requesting"} => conn /\ ~shellStarted
  /\ \A c \in Callers : pc[c] = "requesting" => session
  /\ \A c \in Callers : pc[c] = "resize" => session
  /\ \A c \in Callers : pc[c] \in {"relock", "enqueue"} => shells = 1
  /\ alive => conn
  /\ shellUp => alive /\ shellStarted
  /\ shells = 0 => accepted = 0
  /\ conn => (shells = 0 <=> ~shellStarted)
  /\ shells = 0 <=> pump = "none"
  /\ shells <= 1
  /\ shellStarted => session /\ conn
  /\ pump = "blocked" => ~conn

StdinInv ==
  /\ stdinCloses <= 1
  /\ stdin /\ stdinCloses = 1 => \E c \in Callers : pc[c] = "closing"
  /\ ~stdin => stdinCloses = 1
  /\ conn => stdin
  /\ \A c \in Callers : pc[c] = "closing" => stdinCloses = 1
  /\ \A c \in Callers : pc[c] = "reporting" => ~stdin /\ ~conn
  /\ ~conn => ~session /\ ~shellStarted

StateInv ==
  /\ conn => Published
  /\ ~Published => ~conn /\ shells = 0 /\ \A c \in Callers : pc[c] = "idle"
  /\ state = "disconnected" => ~stdin /\ ~registered
  /\ state \in {"connecting", "error", "connected"} =>
       /\ stdin
       /\ \A c \in Callers : pc[c] \notin {"disconnect", "disconnectLock", "closing", "reporting"}

IInv == TypeOK /\ LockInv /\ ShellInv /\ StdinInv /\ StateInv /\ Accounted

(* Every Disconnect gets its turn and ends with the client disconnected,   *)
(* also while other calls hold c.mu, except behind a StartShell that keeps *)
(* c.mu while it waits for a server that is gone.                          *)
DisconnectCompletes ==
  (state = "disconnecting") ~>
    \/ state = "disconnected"
    \/ ~alive /\ \E c \in Callers : pc[c] \in {"opening", "requesting"}

(* What Send accepted reaches the shell while the shell lives.             *)
Delivered ==
  \A k \in 1 .. MaxSends : (accepted >= k) ~> (written >= k \/ ~shellUp)

(* client.go:451 "Close stdin channel to stop goroutine": after Disconnect *)
(* the pump goroutine, if there is one, comes to an end.                   *)
PumpStops == (state = "disconnected" /\ pump # "none") ~> (pump = "exited")
===============================================================================
