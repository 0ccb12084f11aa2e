-------------------------------- MODULE Session --------------------------------
(***************************************************************************)
(* The calls connect(), getServerFingerprint() and disconnect() of         *)
(* SSHClient in lib/index.ts, each with a WebSocketTransport of its own    *)
(* (lib/transport.ts), and the two registries they go through under the    *)
(* id of the transport: the Map of the TransportManager in TypeScript and  *)
(* the map of JSTransports in Go (main.go, pkg/sshclient/transport.go).    *)
(*                                                                         *)
(* The page runs one thing at a time; the steps are what happens between   *)
(* two awaits.  Several calls may be under way, with the same id or not,   *)
(* sockets may fail or drop at any time, the server may refuse the         *)
(* handshake, and a session may be disconnected more than once.            *)
(***************************************************************************)
EXTENDS FiniteSets

CONSTANTS
  Calls,      \* calls of connect() and getServerFingerprint(), one transport each
  Captures,   \* those that are getServerFingerprint()
  PPKs,       \* those whose private key Connect() refuses: a PuTTY .ppk key, or
              \* one it cannot parse, which takes the same path
  Ids,        \* transport ids
  IdOf,       \* the id each caller gave its transport
  None

ASSUME CallsAssumption ==
  /\ Captures \subseteq Calls
  /\ PPKs \subseteq Calls \ Captures
  /\ IdOf \in [Calls -> Ids]
  /\ None \notin Calls

VARIABLES
  pc,            \* where each call is
  outcome,       \* what the caller got
  socket,        \* the WebSocket of each transport
  pipe,          \* the JSTransport of each transport
  uses,          \* the transport whose JSTransport the Go client runs over
  jsTransports,  \* TransportManager.transports in TypeScript
  goTransports,  \* transportManager.transports in Go
  again,         \* a disconnect() of each session that is not its first
  replaced       \* history: transports not yet closed whose entries in the
                 \* registries another call overwrote

registries == <<jsTransports, goTransports>>
vars == <<pc, outcome, socket, pipe, uses, registries, again, replaced>>

TypeOK ==
  /\ pc \in [Calls -> {"new", "opening", "handshake", "established", "closing",
                       "awaiting", "ended", "rejected", "abandoned"}]
  /\ outcome \in [Calls -> {"none", "ok", "typed", "untyped"}]
  /\ socket \in [Calls -> {"none", "opening", "open", "closed"}]
  /\ pipe \in [Calls -> {"none", "open", "closed"}]
  /\ uses \in [Calls -> Calls \cup {None}]
  /\ jsTransports \in [Ids -> Calls \cup {None}]
  /\ goTransports \in [Ids -> Calls \cup {None}]
  /\ again \in [Calls -> {"no", "closing", "awaiting"}]
  /\ replaced \subseteq Calls
  /\ \A c \in Calls :
       /\ pc[c] \in {"handshake", "established"} => uses[c] # None
       /\ (outcome[c] = "none") <=> (pc[c] \in {"new", "opening", "handshake"})

Init ==
  /\ pc = [c \in Calls |-> "new"]
  /\ outcome = [c \in Calls |-> "none"]
  /\ socket = [c \in Calls |-> "none"]
  /\ pipe = [c \in Calls |-> "none"]
  /\ uses = [c \in Calls |-> None]
  /\ jsTransports = [i \in Ids |-> None]
  /\ goTransports = [i \in Ids |-> None]
  /\ again = [c \in Calls |-> "no"]
  /\ replaced = {}

Over == {"new", "ended", "rejected", "abandoned"}
Goto(c, l) == pc' = [pc EXCEPT ![c] = l]
Unanswered(c, l, o) == Goto(c, l) /\ UNCHANGED outcome   \* mutant: no reject()
Settle(c, l, o) == Goto(c, l) /\ outcome' = [outcome EXCEPT ![c] = o]

LeftOpen(c) == Settle(c, "rejected", "typed")   \* mutant: no closeTransport()
GiveUp(c) == Settle(c, "closing", "typed")

\* ws.close() of a WebSocketTransport
Closed(t) == [socket EXCEPT ![t] = IF @ = "none" THEN "none" ELSE "closed"]

\* JSTransport.Close: its onClose callback disconnects the transport
ClosePipe(t) ==
  /\ pipe' = [pipe EXCEPT ![t] = "closed"]
  /\ socket' = IF pipe[t] = "open" THEN Closed(t) ELSE socket

-------------------------------------------------------------------------------
(* connect() and getServerFingerprint().                                   *)

\* connect() without a pin fails before anything else.
RejectWithoutPin(c) ==
  /\ pc[c] = "new" /\ c \notin Captures
  /\ Settle(c, "rejected", "typed")
  /\ UNCHANGED <<socket, pipe, uses, registries, again, replaced>>

\* createTransport() of the Go side: the id may have been registered already.
GoCreate(c) ==
  /\ pipe' = [pipe EXCEPT ![c] = "open"]
  /\ goTransports' = [goTransports EXCEPT ![IdOf[c]] = c]

\* The transport not yet closed that Begin(c) finds under the id.
Overwritten(c) == {d \in Calls : d = goTransports[IdOf[c]] /\ pipe[d] = "open"}

\* createTransport() and the call of transport.connect().  Nothing asks whether
\* the id is in use.
Begin(c) ==
  /\ pc[c] = "new"
  /\ GoCreate(c)
  /\ replaced' = replaced \cup Overwritten(c)
  /\ jsTransports' = [jsTransports EXCEPT ![IdOf[c]] = c]
  /\ socket' = [socket EXCEPT ![c] = "opening"]
  /\ Goto(c, "opening")
  /\ UNCHANGED <<outcome, uses, again>>

\* GetTransport(id)
LookUp(c) == uses' = [uses EXCEPT ![c] = goTransports[IdOf[c]]]

\* onopen; the Go side looks the transport up by its id.
SocketOpens(c) ==
  /\ pc[c] = "opening" /\ socket[c] = "opening"
  /\ socket' = [socket EXCEPT ![c] = "open"]
  /\ LookUp(c)
  /\ IF uses'[c] = None
     THEN GiveUp(c)
     ELSE Goto(c, "handshake") /\ UNCHANGED outcome
  /\ UNCHANGED <<pipe, registries, again, replaced>>

\* onerror: transport.connect() rejects outside of any try.
SocketFails(c) ==
  /\ pc[c] = "opening"
  /\ socket' = Closed(c)
  /\ Settle(c, "rejected", "untyped")
  /\ UNCHANGED <<pipe, uses, registries, again, replaced>>

\* The network or the bridge closes the socket; onClose is set by nobody.
SocketDrops(c) ==
  /\ socket[c] = "open"
  /\ socket' = Closed(c)
  /\ UNCHANGED <<pc, outcome, pipe, uses, registries, again, replaced>>

\* Connect() rejects a .ppk key before it touches the transport.
KeyRejected(c) ==
  /\ pc[c] = "handshake" /\ c \in PPKs
  /\ GiveUp(c)
  /\ UNCHANGED <<socket, pipe, uses, registries, again, replaced>>

\* The server's bytes reach the client: they come in on the socket of the
\* transport it uses and go to the JSTransport registered under its id.
Reachable(c) ==
  LET t == uses[c]
  IN  socket[t] = "open" /\ pipe[t] = "open" /\ goTransports[IdOf[t]] = t

\* Two handshakes over one transport spoil each other.
Answered(c) ==
  /\ pc[c] = "handshake" /\ c \notin PPKs
  /\ Reachable(c)
  /\ \A d \in Calls \ {c} :
       uses[d] = uses[c] => pc[d] \notin {"handshake", "established"}

HandshakeSucceeds(c) ==
  /\ Answered(c) /\ c \notin Captures
  /\ Settle(c, "established", "ok")
  /\ UNCHANGED <<socket, pipe, uses, registries, again, replaced>>

\* A handshake that fails, or that the host key callback stops, makes
\* NewClientConn close the transport.
Aborted(c) == ClosePipe(uses[c])

FingerprintCaptured(c) ==
  /\ Answered(c) /\ c \in Captures
  /\ Aborted(c)
  /\ Settle(c, "closing", "ok")
  /\ UNCHANGED <<uses, registries, again, replaced>>

\* The server refuses, or Read returns EOF.
HandshakeFails(c) ==
  /\ pc[c] = "handshake" /\ c \notin PPKs
  /\ Reachable(c) \/ pipe[uses[c]] = "closed"
  /\ Aborted(c)
  /\ GiveUp(c)
  /\ UNCHANGED <<uses, registries, again, replaced>>

-------------------------------------------------------------------------------
(* Session.disconnect(), SSHClient.disconnect() and closeTransport().      *)

\* Client.Disconnect closes the connection, and with it the JSTransport.
Disconnect(c) ==
  /\ pc[c] = "established"
  /\ ClosePipe(uses[c])
  /\ Goto(c, "closing")
  /\ UNCHANGED <<outcome, uses, registries, again, replaced>>

\* The static SSHClient.disconnect(sessionId) leaves the registries alone.
DisconnectById(c) ==
  /\ pc[c] = "established"
  /\ ClosePipe(uses[c])
  /\ Goto(c, "abandoned")
  /\ UNCHANGED <<outcome, uses, registries, again, replaced>>

\* disconnect() called once more, during the first or at any time after it, as
\* the cleanup of useSSHConnection does.  The Go client has nothing left to
\* close, but closeTransport is called all the same.
DisconnectAgain(c) ==
  /\ c \notin Captures /\ outcome[c] = "ok"
  /\ pc[c] \in {"closing", "awaiting", "ended", "abandoned"}
  /\ again[c] = "no"
  /\ again' = [again EXCEPT ![c] = "closing"]
  /\ UNCHANGED <<pc, outcome, socket, pipe, uses, registries, replaced>>

\* closeTransport(i) up to its await: whatever is registered is disconnected.
StartClose(i) ==
  socket' = IF jsTransports[i] = None THEN socket ELSE Closed(jsTransports[i])

CloseBegin(c) ==
  /\ pc[c] = "closing"
  /\ StartClose(IdOf[c])
  /\ Goto(c, IF jsTransports[IdOf[c]] = None THEN "ended" ELSE "awaiting")
  /\ UNCHANGED <<outcome, pipe, uses, registries, again, replaced>>

AgainBegin(c) ==
  /\ again[c] = "closing"
  /\ StartClose(IdOf[c])
  /\ again' = [again EXCEPT ![c] = IF jsTransports[IdOf[c]] = None THEN "no" ELSE "awaiting"]
  /\ UNCHANGED <<pc, outcome, pipe, uses, registries, replaced>>

\* disconnect() resolves at once, whether or not there was a socket to close.
OnlyIfOpen(c) == pc[c] = "awaiting" /\ pipe[c] = "open"   \* mutant: it does not
Disconnected(c) == pc[c] = "awaiting"

KeptInGo(i) == goTransports               \* mutant: no RemoveTransport()
WithoutGo(i) == [goTransports EXCEPT ![i] = None]

\* closeTransport() of the Go side: whatever is registered by now is closed.
RemoveOnly(i) == goTransports' = WithoutGo(i) /\ UNCHANGED <<pipe, socket>>   \* mutant: no Close()
GoClose(i) ==
  /\ IF goTransports[i] = None THEN UNCHANGED <<pipe, socket>> ELSE ClosePipe(goTransports[i])
  /\ goTransports' = WithoutGo(i)

\* wasm.closeTransport(id) and transports.delete(id).
FinishClose(i) ==
  /\ GoClose(i)
  /\ jsTransports' = [jsTransports EXCEPT ![i] = None]

CloseEnd(c) ==
  /\ Disconnected(c)
  /\ FinishClose(IdOf[c])
  /\ Goto(c, "ended")
  /\ UNCHANGED <<outcome, uses, again, replaced>>

AgainEnd(c) ==
  /\ again[c] = "awaiting"
  /\ FinishClose(IdOf[c])
  /\ again' = [again EXCEPT ![c] = "no"]
  /\ UNCHANGED <<pc, outcome, uses, replaced>>

-------------------------------------------------------------------------------
Opening(c) == SocketOpens(c) \/ SocketFails(c)
Handshake(c) ==
  \/ KeyRejected(c)
  \/ HandshakeSucceeds(c) \/ FingerprintCaptured(c) \/ HandshakeFails(c)
Closing(c) == CloseBegin(c) \/ CloseEnd(c)
ClosingAgain(c) == AgainBegin(c) \/ AgainEnd(c)

Next ==
  \E c \in Calls :
    \/ RejectWithoutPin(c) \/ Begin(c)
    \/ Opening(c) \/ Handshake(c) \/ Closing(c) \/ ClosingAgain(c)
    \/ SocketDrops(c)
    \/ Disconnect(c) \/ DisconnectById(c) \/ DisconnectAgain(c)

Spec == Init /\ [][Next]_vars

\* A socket opens or fails, a server that is reached answers, continuations
\* run.
FairSpec ==
  /\ Spec
  /\ \A c \in Calls : /\ WF_vars(Opening(c)) /\ WF_vars(Handshake(c))
                        /\ WF_vars(Closing(c)) /\ WF_vars(ClosingAgain(c))

-------------------------------------------------------------------------------
(* index.ts:349 "Close the transport we just opened so the caller doesn't  *)
(* leak a WebSocket on auth/host-key failure": when a call is over its     *)
(* socket is closed, also when other calls with its id and repeated        *)
(* disconnects close what they find under the id.  One kind leaks: a       *)
(* transport whose id another createTransport() took while its socket was  *)
(* in use, which closeTransport() then no longer finds.                    *)
NoSocketLeak ==
  \A c \in Calls :
    pc[c] \in Over => socket[c] \in {"none", "closed"} \/ c \in replaced

(* A client runs over a transport of its id, and over the one its caller   *)
(* passed unless the id was taken from it; a call that closed its          *)
(* transport is in neither registry any more (transport.go:198-206).       *)
Isolated ==
  \A c \in Calls :
    /\ pc[c] \in {"handshake", "established"} =>
         IdOf[uses[c]] = IdOf[c] /\ (uses[c] = c \/ c \in replaced)
    /\ pc[c] = "ended" => c \notin {jsTransports[IdOf[c]], goTransports[IdOf[c]]}

(* No client is left deaf, connected over a transport that no data can     *)
(* reach: closeTransport() looks a transport up, awaits, and closes and    *)
(* deletes by id what may be that of a newer call by then, and a repeated  *)
(* disconnect() closes by an id that may be in use again (transport.ts:225,*)
(* react.ts:126).  Whoever is deleted was closed, pipe and socket, so its  *)
(* Read returns EOF.  Only a transport that lost its id stays open.        *)
NeverDeaf ==
  \A c \in Calls :
    pc[c] \in {"handshake", "established"} /\ c \notin replaced =>
      \/ jsTransports[IdOf[c]] = c /\ goTransports[IdOf[c]] = c
      \/ pipe[c] = "closed" /\ socket[c] = "closed"

(* The handshake of c waits for bytes that will never come: its socket has *)
(* dropped, or a transport that took the id gets them, and no              *)
(* closeTransport() of the id is under way.                                *)
Stranded(c) ==
  LET t == uses[c]
  IN  /\ pc[c] = "handshake" /\ pipe[t] = "open"
      /\ socket[t] = "closed" \/ goTransports[IdOf[t]] # t
      /\ \A d \in Calls : IdOf[d] = IdOf[t] => "awaiting" \notin {pc[d], again[d]}

(* connect() and getServerFingerprint() settle, and close what they opened *)
(* when they fail, however other calls close or take their transport,      *)
(* except for a handshake that is stranded (index.ts:343-351).             *)
Settles ==
  \A c \in Calls :
    (pc[c] \in {"opening", "handshake", "closing", "awaiting"}) ~>
      (pc[c] \in {"established"} \cup Over \/ Stranded(c))

(* README.md:138, of the error code transport-error: "Bridge unreachable,  *)
(* WebSocket failed, TCP connection refused": when the bridge goes away    *)
(* while connect() runs, connect() comes to an end.                        *)
SettlesWhenDropped ==
  \A c \in Calls : (pc[c] = "handshake" /\ socket[c] = "closed") ~> (pc[c] # "handshake")
===============================================================================
