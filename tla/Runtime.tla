-------------------------------- MODULE Runtime --------------------------------
(***************************************************************************)
(* One connected SSH client inside Go's WebAssembly runtime: who may run   *)
(* when JavaScript and Go call each other.                                 *)
(*                                                                         *)
(* Everything shares one thread and one stack.  JavaScript calls a Go      *)
(* function (_makeFuncWrapper, _resume): an event is pushed, goroutines    *)
(* run, and JavaScript gets control back when the handler has returned and *)
(* nothing else can run.  Go calls JavaScript (valueInvoke): the goroutine *)
(* is frozen below whatever JavaScript calls meanwhile.  When a handler    *)
(* waits and no goroutine can run, the runtime ends with "all goroutines   *)
(* are asleep - deadlock!".                                                *)
(*                                                                         *)
(* The methods of a session return a promise and do their work in a        *)
(* goroutine; SSHClient.send and SSHClient.disconnect do it in the handler.*)
(***************************************************************************)
EXTENDS Naturals, Sequences, SequencesExt

CONSTANTS
    Calls,      \* the calls JavaScript makes
    Kinds,      \* what it calls: a subset of Methods \cup Statics
    Throwing,   \* whether a callback of the application may throw
    Nobody

Methods == {"send", "disconnect"}
Statics == {"static send", "static disconnect"}

ASSUME RuntimeAssumption ==
    /\ Kinds \subseteq Methods \cup Statics
    /\ Nobody \notin Calls
    /\ Throwing \in BOOLEAN

VARIABLES
    stack,      \* events (Go called) and callbacks (Go is calling), innermost last
    kind,       \* what each call is
    pc,         \* where its Go code is
    settled,    \* the calls whose promise is settled
    lock,       \* c.mu: the writer that holds it or keeps new readers out
    readers,    \* c.mu: the calls that hold it for reading
    connected,  \* c.conn # nil and c.stdin # nil, and the session is registered
    shell,      \* c.shellStarted
    exited,     \* go.exited
    threw       \* history: a callback has thrown

clientVars == <<lock, readers, connected, shell>>
vars == <<stack, kind, pc, settled, clientVars, exited, threw>>

Event(k) == [type |-> "event", call |-> k]
Callback(k) == [type |-> "callback", call |-> k]
Frames == [type : {"event", "callback"}, call : Calls \cup {Nobody}]

(* Types, and the lock: a call in the middle of StartShell or of the locked *)
(* half of Disconnect (client.go:293, :448) shares it with nobody.         *)
TypeOK ==
    /\ stack \in Seq(Frames)
    /\ kind \in [Calls -> Kinds \cup {"none"}]
    /\ pc \in [Calls -> {"idle", "rlock", "lock shell", "start", "asking", "answered",
                         "refused", "relock", "enqueue", "sent", "give up",
                         "announce", "lock", "tear down", "down", "done"}]
    /\ settled \subseteq Calls
    /\ lock \in Calls \cup {Nobody}
    /\ readers \subseteq Calls
    /\ connected \in BOOLEAN
    /\ shell \in BOOLEAN
    /\ exited \in BOOLEAN
    /\ threw \in BOOLEAN
    /\ \A k \in Calls : pc[k] \in {"asking", "answered", "refused", "down"} =>
                         lock = k /\ readers = {}

(* After connect() has resolved.                                           *)
Init ==
    /\ stack = <<>>
    /\ kind = [k \in Calls |-> "none"]
    /\ pc = [k \in Calls |-> "idle"]
    /\ settled = {}
    /\ lock = Nobody
    /\ readers = {}
    /\ connected = TRUE
    /\ shell = FALSE
    /\ exited = FALSE
    /\ threw = FALSE

-----------------------------------------------------------------------------
(* The stack.                                                              *)

InEvent == stack # <<>> /\ Last(stack).type = "event"
InCallback == stack # <<>> /\ Last(stack).type = "callback"
Frozen(k) == Callback(k) \in ToSet(stack)

(* mutant: the methods of a session work in their handlers, too.           *)
NoGoroutine(k) == k # Nobody => pc[k] = "done"

(* A handler has returned: at once when it only starts a goroutine, with   *)
(* its work for a static function.                                         *)
Returned(k) == k # Nobody => (kind[k] \in Methods \/ pc[k] = "done")

(* JavaScript runs: from its event loop, or in a callback.                 *)
JSRuns == ~exited /\ (stack = <<>> \/ InCallback)

(* What a goroutine waits for at each of its steps.                        *)
Unlocked == lock = Nobody

(* mutant: a writer does not wait for the readers before it.               *)
NoReadersAwaited(k) ==
    /\ ~Frozen(k)
    /\ CASE pc[k] \in {"rlock", "relock", "give up", "lock shell", "lock"} -> Unlocked
         [] pc[k] \in {"idle", "asking", "done"} -> FALSE
         [] OTHER -> TRUE

Runnable(k) ==
    /\ ~Frozen(k)
    /\ CASE pc[k] \in {"rlock", "relock", "give up", "lock shell", "lock"} -> Unlocked
         [] pc[k] \in {"start", "tear down"} -> readers = {}
         [] pc[k] \in {"idle", "asking", "done"} -> FALSE
         [] OTHER -> TRUE

(* A goroutine gets the thread.                                            *)
Runs(k, at) == ~exited /\ InEvent /\ Runnable(k) /\ pc[k] = at

AllAsleep == \A k \in Calls : ~Runnable(k)

-----------------------------------------------------------------------------
(* Calls from JavaScript.                                                  *)

FirstStep(what) ==
    IF what \in {"send", "static send"} THEN "rlock" ELSE "announce"

(* A wrapped Go function is called.  A static function looks the session   *)
(* up first, and rejects when it is gone.                                  *)
Call(k, what) ==
    /\ JSRuns
    /\ kind[k] = "none"
    /\ kind' = [kind EXCEPT ![k] = what]
    /\ stack' = Append(stack, Event(k))
    /\ IF what \in Statics /\ ~connected
       THEN /\ pc' = [pc EXCEPT ![k] = "done"]
            /\ settled' = settled \cup {k}
       ELSE /\ pc' = [pc EXCEPT ![k] = FirstStep(what)]
            /\ UNCHANGED settled
    /\ UNCHANGED <<clientVars, exited, threw>>

(* Control goes back to JavaScript.                                        *)
Return ==
    /\ ~exited
    /\ InEvent
    /\ Returned(Last(stack).call)
    /\ AllAsleep
    /\ stack' = Front(stack)
    /\ UNCHANGED <<kind, pc, settled, clientVars, exited, threw>>

(* The handler waits for what only another event could bring.              *)
Deadlock ==
    /\ ~exited
    /\ InEvent
    /\ ~Returned(Last(stack).call)
    /\ AllAsleep
    /\ exited' = TRUE
    /\ UNCHANGED <<stack, kind, pc, settled, clientVars, threw>>

(* onPacketSend or onStateChange returns, and its goroutine goes on.       *)
CallbackReturns ==
    /\ ~exited
    /\ InCallback
    /\ stack' = Front(stack)
    /\ UNCHANGED <<kind, pc, settled, clientVars, exited, threw>>

(* It throws: js.Value.Invoke panics, and nothing recovers.                *)
CallbackThrows ==
    /\ Throwing
    /\ ~exited
    /\ InCallback
    /\ exited' = TRUE
    /\ threw' = TRUE
    /\ UNCHANGED <<stack, kind, pc, settled, clientVars>>

(* The server's answer comes as a message event: injectTransportData wakes *)
(* the goroutines of the connection, which wake the one that asked.        *)
ServerAnswers(k) ==
    /\ ~exited
    /\ stack = <<>>
    /\ pc[k] = "asking"
    /\ \E answer \in {"answered", "refused"} : pc' = [pc EXCEPT ![k] = answer]
    /\ stack' = <<Event(Nobody)>>
    /\ UNCHANGED <<kind, settled, clientVars, exited, threw>>

-----------------------------------------------------------------------------
(* Client.Send.                                                            *)

Goto(k, at) == pc' = [pc EXCEPT ![k] = at]
Settle(k) == Goto(k, "done") /\ settled' = settled \cup {k}

(* RLock; with no shell yet, RUnlock and StartShell.                       *)
SendBegin(k) ==
    /\ Runs(k, "rlock")
    /\ IF shell THEN /\ readers' = readers \cup {k}
                     /\ Goto(k, "enqueue")
                ELSE /\ Goto(k, "lock shell")
                     /\ UNCHANGED readers
    /\ UNCHANGED <<stack, kind, settled, lock, connected, shell, exited, threw>>

(* StartShell calls Lock: from here on new readers wait.                   *)
ShellLocks(k) ==
    /\ Runs(k, "lock shell")
    /\ lock' = k
    /\ Goto(k, "start")
    /\ UNCHANGED <<stack, kind, settled, readers, connected, shell, exited, threw>>

(* StartShell has the lock.  It returns at once, or asks the server for a  *)
(* channel, a pty and a shell and keeps the lock.                          *)
StartShell(k) ==
    /\ Runs(k, "start")
    /\ IF ~shell /\ connected
       THEN Goto(k, "asking") /\ UNCHANGED lock
       ELSE /\ lock' = Nobody
            /\ Goto(k, IF shell THEN "relock" ELSE "give up")
    /\ UNCHANGED <<stack, kind, settled, readers, connected, shell, exited, threw>>

(* mutant: an early return that forgets the lock.                          *)
KeepsLock(k) ==
    /\ \/ Runs(k, "answered") /\ shell' = TRUE /\ lock' = Nobody /\ Goto(k, "relock")
       \/ Runs(k, "refused") /\ Goto(k, "give up") /\ UNCHANGED <<shell, lock>>
    /\ UNCHANGED <<stack, kind, settled, readers, connected, exited, threw>>

(* The rest of StartShell, and its deferred Unlock.                        *)
ShellStarted(k) ==
    /\ \/ Runs(k, "answered") /\ shell' = TRUE /\ Goto(k, "relock")
       \/ Runs(k, "refused") /\ Goto(k, "give up") /\ UNCHANGED shell
    /\ lock' = Nobody
    /\ UNCHANGED <<stack, kind, settled, readers, connected, exited, threw>>

(* Send takes the read lock again, to go on or to return the error.        *)
Relock(k) ==
    /\ Runs(k, "relock")
    /\ readers' = readers \cup {k}
    /\ Goto(k, "enqueue")
    /\ UNCHANGED <<stack, kind, settled, lock, connected, shell, exited, threw>>

GiveUp(k) ==
    /\ Runs(k, "give up")
    /\ Settle(k)
    /\ UNCHANGED <<stack, kind, clientVars, exited, threw>>

(* The select: the chunk is queued and onPacketSend is called under the    *)
(* read lock, or c.stdin is full, or nil since a Disconnect.               *)
Enqueue(k) ==
    /\ Runs(k, "enqueue")
    /\ \/ /\ connected
          /\ stack' = Append(stack, Callback(k))
          /\ Goto(k, "sent")
          /\ UNCHANGED <<readers, settled>>
       \/ /\ Settle(k)
          /\ readers' = readers \ {k}
          /\ UNCHANGED stack
    /\ UNCHANGED <<kind, lock, connected, shell, exited, threw>>

Sent(k) ==
    /\ Runs(k, "sent")
    /\ Settle(k)
    /\ readers' = readers \ {k}
    /\ UNCHANGED <<stack, kind, lock, connected, shell, exited, threw>>

-----------------------------------------------------------------------------
(* Client.Disconnect.                                                      *)

(* onStateChange("disconnecting"), before the lock.                        *)
Announce(k) ==
    /\ Runs(k, "announce")
    /\ stack' = Append(stack, Callback(k))
    /\ Goto(k, "lock")
    /\ UNCHANGED <<kind, settled, clientVars, exited, threw>>

DisconnectLocks(k) ==
    /\ Runs(k, "lock")
    /\ lock' = k
    /\ Goto(k, "tear down")
    /\ UNCHANGED <<stack, kind, settled, readers, connected, shell, exited, threw>>

(* Everything is closed, the session is no longer registered, and          *)
(* onStateChange("disconnected") is called with the lock held.             *)
TearDown(k) ==
    /\ Runs(k, "tear down")
    /\ connected' = FALSE
    /\ shell' = FALSE
    /\ stack' = Append(stack, Callback(k))
    /\ Goto(k, "down")
    /\ UNCHANGED <<kind, settled, lock, readers, exited, threw>>

Down(k) ==
    /\ Runs(k, "down")
    /\ lock' = Nobody
    /\ Settle(k)
    /\ UNCHANGED <<stack, kind, readers, connected, shell, exited, threw>>

-----------------------------------------------------------------------------
GoStep(k) ==
    \/ SendBegin(k) \/ ShellLocks(k) \/ StartShell(k) \/ ShellStarted(k)
    \/ Relock(k) \/ GiveUp(k) \/ Enqueue(k) \/ Sent(k)
    \/ Announce(k) \/ DisconnectLocks(k) \/ TearDown(k) \/ Down(k)

Next ==
    \/ \E k \in Calls : (\E what \in Kinds : Call(k, what)) \/ GoStep(k) \/ ServerAnswers(k)
    \/ Return \/ Deadlock \/ CallbackReturns \/ CallbackThrows

(* What can run runs, callbacks end, and the server answers.               *)
Fairness ==
    /\ \A k \in Calls : SF_vars(GoStep(k)) /\ WF_vars(ServerAnswers(k))
    /\ WF_vars(Return) /\ WF_vars(Deadlock) /\ WF_vars(CallbackReturns)

Spec == Init /\ [][Next]_vars /\ Fairness

-----------------------------------------------------------------------------
(* How the runtime can die.  The methods of a session, called at any time  *)
(* and from any callback, never do it (main.go:118, :151).  A callback     *)
(* that throws does, and so does a static function whose handler waits:    *)
(* either while the server is asked for a shell, or because it was called  *)
(* in a callback, under the lock that the frozen caller holds.             *)
DeathCauses ==
    exited =>
        \/ threw
        \/ /\ kind[Last(stack).call] \in Statics
           /\ \/ \E k \in Calls : pc[k] = "asking"
              \/ \E k \in Calls : Frozen(k) /\ (lock = k \/ k \in readers)

(* Every promise settles while the runtime lives, although calls are made  *)
(* from inside of callbacks of one another and wait for each other's locks *)
(* (client.go:402-482).                                                    *)
CallsSettle == \A k \in Calls : (kind[k] # "none") ~> (k \in settled \/ exited)

(* SSHClient.send and SSHClient.disconnect, which return promises like the *)
(* methods of a session, leave the client alive.  They do not: the first   *)
(* SSHClient.send asks the server for a shell inside of its handler, and   *)
(* nothing can deliver the answer (main.go:221-250).                       *)
StaysAlive == ~exited
=============================================================================
