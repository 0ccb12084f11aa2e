---------------------------- MODULE ConnectionHook ----------------------------
(***************************************************************************)
(* useSSHConnection of lib/react.ts over SSHClient.connect(), on a page    *)
(* whose components initialize the library (Initialize).                   *)
(*                                                                         *)
(* A session is named by the attempt that made it.  The hook keeps the     *)
(* session in React state: what setSession was given last (`session') and  *)
(* what the last render saw (`committed'), which is what the disconnect    *)
(* callback in the user's hands and the cleanup of the effect close over.  *)
(* Every attempt has a transport id of its own; what happens when ids are  *)
(* shared is the subject of Session.                                       *)
(***************************************************************************)
EXTENDS Initialize

CONSTANTS MaxConnects,  \* how often the user calls connect at most
          None          \* null

ASSUME HookAssumption == MaxConnects \in Nat /\ None \notin 1 .. MaxConnects

Attempts == 1 .. MaxConnects

VARIABLES
    attempt,    \* where the call of connect is
    home,       \* the Go instance its transport was registered with
    session,    \* React state: the session, as of the last setSession
    committed,  \* the session that the last render saw
    state,      \* React state: connectionState
    present,    \* the component that uses the hook is mounted
    closing,    \* calls of session.disconnect() under way: <<attempt, who>>, and
                \* <<attempt, "resolved">> when the user's is to go on after its await
    skipped,    \* history: sessions replaced before React rendered them
    late        \* history: sessions established after the component went

hookVars == <<attempt, home, session, committed, state, present, closing, skipped, late>>
vars == <<loadVars, hookVars>>

Sessions == {a \in Attempts : attempt[a] = "established"}
Pending  == {a \in Attempts : attempt[a] \in {"opening", "handshake", "notified", "refused"}}
Bridged(a) == instance = home[a]

(* A session that the next render would be the first to see.               *)
Unrendered == {session} \ {None, committed}

TypeOK ==
    /\ LoadTypeOK
    /\ attempt \in [Attempts -> {"unused", "opening", "handshake", "notified", "refused",
                                 "established", "failed", "closed"}]
    /\ home \in [Attempts -> 0 .. runs]
    /\ session \in Attempts \cup {None}
    /\ committed \in Attempts \cup {None}
    /\ state \in {"idle", "connecting", "connected", "error", "disconnected"}
    /\ present \in BOOLEAN
    /\ closing \subseteq Attempts \X {"user", "cleanup", "resolved"}
    /\ skipped \subseteq Attempts
    /\ late \subseteq Attempts

HookInit ==
    /\ attempt = [a \in Attempts |-> "unused"]
    /\ home = [a \in Attempts |-> 0]
    /\ session = None
    /\ committed = None
    /\ state = "idle"
    /\ present = TRUE
    /\ closing = {}
    /\ skipped = {}
    /\ late = {}

-----------------------------------------------------------------------------
(* connect.                                                                *)

(* setState on a component that is gone has no effect.                     *)
SetState(s) == state' = IF present THEN s ELSE state

(* The callback of connect up to `await transport.connect()': a client     *)
(* that is not initialized throws, otherwise createTransport registers the *)
(* transport with the instance of the moment.                              *)
Connect(a) ==
    /\ present
    /\ attempt[a] = "unused"
    /\ \A b \in Attempts : b < a => attempt[b] # "unused"
    /\ attempt' = [attempt EXCEPT ![a] = IF initialized THEN "opening" ELSE "refused"]
    /\ home' = IF initialized THEN [home EXCEPT ![a] = instance] ELSE home
    /\ SetState("connecting")
    /\ UNCHANGED <<session, committed, present, closing, skipped, late>>

(* A call that goes on, with what the hook then shows.                     *)
Proceed(a, l, s) ==
    /\ attempt' = [attempt EXCEPT ![a] = l]
    /\ SetState(s)
    /\ UNCHANGED <<home, session, committed, present, closing, skipped, late>>

(* The socket is open and wasmInstance.connect is called, on the instance  *)
(* of now: one that does not know the transport rejects at once, any other *)
(* notifies "connecting".                                                  *)
Opened(a) ==
    /\ attempt[a] = "opening"
    /\ IF Bridged(a) THEN Proceed(a, "handshake", "connecting") ELSE Proceed(a, "refused", state)

(* transport.connect() rejects: the catch of the hook.                     *)
OpenFails(a) == attempt[a] = "opening" /\ Proceed(a, "failed", "error")

(* The server's answers reach the handshake through the TransportManager,  *)
(* which injects them into its own instance.                               *)
Reached(a) == attempt[a] = "handshake" /\ Bridged(a)

(* Client.Connect notifies "error", which the hook shows as "connecting",  *)
(* and the transport is closed before connect() rejects.                   *)
HandshakeFails(a) == Reached(a) /\ Proceed(a, "refused", "connecting")

(* connect() rejects: the catch of the hook.                               *)
ConnectRejects(a) == attempt[a] = "refused" /\ Proceed(a, "failed", "error")

(* Client.Connect notifies "connected" before it returns.  The hook shows  *)
(* that, and the application is told, with the session still to come.      *)
HandshakeSucceeds(a) == Reached(a) /\ Proceed(a, "notified", "connected")

(* setSession(newSession).                                                 *)
Remember(a) ==
    IF present
    THEN /\ session' = a
         /\ skipped' = skipped \cup Unrendered
    ELSE UNCHANGED <<session, skipped>>

(* connect() has resolved, through the await of SSHClient.connect() and    *)
(* that of the hook; nothing looks at whether the component is there.      *)
ConnectResolves(a) ==
    /\ attempt[a] = "notified"
    /\ attempt' = [attempt EXCEPT ![a] = "established"]
    /\ Remember(a)
    /\ SetState("connected")
    /\ late' = IF present THEN late ELSE late \cup {a}
    /\ UNCHANGED <<home, committed, present, closing>>

-----------------------------------------------------------------------------
(* disconnect.                                                             *)

(* session.disconnect() is called: Client.Disconnect notifies              *)
(* "disconnecting", which the hook shows as "connecting".                  *)
Begin(a, who) == closing' = closing \cup {<<a, who>>}

(* mutant: onStateChange leaves "disconnecting" out.                       *)
DisconnectSilently ==
    /\ present
    /\ committed # None
    /\ <<committed, "user">> \notin closing
    /\ Begin(committed, "user")
    /\ UNCHANGED <<attempt, home, session, committed, state, present, skipped, late>>

(* The disconnect callback of the last render.                             *)
Disconnect ==
    /\ present
    /\ committed # None
    /\ <<committed, "user">> \notin closing
    /\ Begin(committed, "user")
    /\ SetState("connecting")
    /\ UNCHANGED <<attempt, home, session, committed, present, skipped, late>>

(* setSession(null), whatever the session is by now.                       *)
Forget ==
    /\ session' = None
    /\ skipped' = skipped \cup Unrendered

(* Client.Disconnect is through and has notified "disconnected", shown as  *)
(* "connecting" too, also when the session was disconnected before.  Then  *)
(* the transport is closed and the promise resolves; only the user's call  *)
(* has something to do after that.                                         *)
Closed(a, who) ==
    /\ <<a, who>> \in closing
    /\ closing' = (closing \ {<<a, who>>})
                    \cup (IF who = "user" THEN {<<a, "resolved">>} ELSE {})
    /\ attempt' = [attempt EXCEPT ![a] = "closed"]
    /\ SetState("connecting")
    /\ UNCHANGED <<home, session, committed, present, skipped, late>>

(* The disconnect callback after its await.                                *)
Disconnected(a) ==
    /\ <<a, "resolved">> \in closing
    /\ closing' = closing \ {<<a, "resolved">>}
    /\ IF present THEN Forget ELSE UNCHANGED <<session, skipped>>
    /\ SetState("disconnected")
    /\ UNCHANGED <<attempt, home, committed, present, late>>

-----------------------------------------------------------------------------
(* React.                                                                  *)

(* mutant: the effect has no cleanup.                                      *)
NoCleanup == UNCHANGED <<closing, state>>

(* mutant: the cleanup does not look whether there is a session.           *)
AlwaysCleanup == Begin(committed, "cleanup") /\ SetState("connecting")

(* The cleanup of the effect of the last render: called when the session   *)
(* it depends on has changed, and when the component goes.                 *)
Cleanup ==
    IF committed = None
    THEN UNCHANGED <<closing, state>>
    ELSE /\ Begin(committed, "cleanup")
         /\ SetState("connecting")

(* The component renders with its new session.                             *)
Render ==
    /\ present
    /\ session # committed
    /\ Cleanup
    /\ committed' = session
    /\ UNCHANGED <<attempt, home, session, present, skipped, late>>

(* The component is taken from the page, with the renders it still had to  *)
(* do.                                                                     *)
Leave ==
    /\ present
    /\ Cleanup
    /\ present' = FALSE
    /\ skipped' = skipped \cup Unrendered
    /\ UNCHANGED <<attempt, home, session, committed, late>>

-----------------------------------------------------------------------------
Init == LoadInit /\ HookInit

Open(a) == Opened(a) \/ OpenFails(a)
Answer(a) == HandshakeSucceeds(a) \/ HandshakeFails(a)
Settle(a) == ConnectResolves(a) \/ ConnectRejects(a)

HookNext ==
    \/ \E a \in Attempts : \/ Connect(a) \/ Open(a) \/ Answer(a) \/ Settle(a)
                           \/ \E who \in {"user", "cleanup"} : Closed(a, who)
                           \/ Disconnected(a)
    \/ Disconnect \/ Render \/ Leave

Next ==
    \/ LoadNext /\ UNCHANGED hookVars
    \/ HookNext /\ UNCHANGED loadVars

(* The network and the server answer, the Go side finishes what it began,  *)
(* React renders.  The user does not have to do anything.                  *)
Fairness ==
    /\ LoadFairness
    /\ \A a \in Attempts : /\ WF_vars(Open(a) /\ UNCHANGED loadVars)
                           /\ WF_vars(Answer(a) /\ UNCHANGED loadVars)
                           /\ WF_vars(Settle(a) /\ UNCHANGED loadVars)
                           /\ WF_vars(Disconnected(a) /\ UNCHANGED loadVars)
                           /\ \A who \in {"user", "cleanup"} :
                                WF_vars(Closed(a, who) /\ UNCHANGED loadVars)
    /\ WF_vars(Render /\ UNCHANGED loadVars)

Spec == Init /\ [][Next]_vars /\ Fairness

-----------------------------------------------------------------------------
(* "connected" is never left behind by the notifications of an older       *)
(* session that is being closed, by a connect that fails meanwhile or by a *)
(* disconnect of the session before (react.ts:85-110): a hook that shows   *)
(* it has an established session which nobody is disconnecting, or one     *)
(* still to come: "connected" is notified in Go before connect() resolves  *)
(* (client.go:193), and until react.ts:92 the session that goes with it is *)
(* null or the one before.                                                 *)
ShownConnected ==
    present /\ state = "connected" =>
        \/ session \in Sessions /\ \A op \in closing : op[1] # session
        \/ \E a \in Attempts : attempt[a] = "notified"

(* No session is lost: one that is connected is held by the hook or is     *)
(* being disconnected (react.ts:92, :124-130).  Two kinds escape: a        *)
(* session replaced before React rendered it, for which no cleanup was     *)
(* ever registered, and one whose connect() came back after the component  *)
(* had gone.                                                               *)
Referenced ==
    \A a \in Sessions : \/ present /\ a \in {session, committed}
                        \/ \E op \in closing : op[1] = a
                        \/ a \in skipped \cup late

(* connect() settles, unless overlapping calls of initialize() exchanged   *)
(* the instance in the middle of the handshake: what the server says is    *)
(* then injected where nobody knows the transport, and the hook shows      *)
(* "connecting" for ever (transport.ts:216, index.ts:267-276).             *)
ConnectSettles ==
    \A a \in Attempts :
        (a \in Pending) ~> (a \notin Pending \/ (overlapped /\ ~Bridged(a)))

(* Once the hook shows "disconnected" it does so until the user calls it   *)
(* again (react.ts:107).  The code does not do this: setSession(null) makes *)
(* the effect clean up, and disconnecting the session a second time        *)
(* notifies states that the hook maps to "connecting".                     *)
StaysDisconnected ==
    [][state = "disconnected" /\ state' # state =>
          Disconnect \/ \E a \in Attempts : Connect(a)]_vars
=============================================================================
