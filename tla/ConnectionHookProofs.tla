------------------------- MODULE ConnectionHookProofs -------------------------
(***************************************************************************)
(* Theorems about Initialize and ConnectionHook, for any components and    *)
(* any number of calls.  LoadInv is the part of the inductive invariant    *)
(* that is about initialize(): calls are numbered in the order they begin  *)
(* (Numbered), each starts at most one Go instance (OneRunEach), and as    *)
(* long as none have overlapped, at most one is under way, and none once   *)
(* the library is initialized (OneAtATime).  HookInv says of which attempts*)
(* the hook and the disconnects under way speak.                           *)
(***************************************************************************)
EXTENDS ConnectionHook, FiniteSetTheorems, TLAPS

Numbered == \A k \in Calls : call[k] # "idle" <=> k <= Len(caller)

Past == {k \in Calls : call[k] \in {"starting", "resolved", "rejected"}}
OneRunEach == runs <= Cardinality(Past)

OneAtATime ==
    ~overlapped =>
        /\ \A j, k \in Calls : call[j] \in UnderWay /\ call[k] \in UnderWay => j = k
        /\ initialized => \A k \in Calls : call[k] \notin UnderWay

LoadInv == LoadTypeOK /\ Numbered /\ OneRunEach /\ OneAtATime

\* A session that the hook has, or that is being disconnected, was established;
\* one whose disconnect() has come back is closed.
Made(a) == attempt[a] \in {"established", "closed"}

HookInv ==
    /\ session # None => Made(session)
    /\ committed # None => Made(committed)
    /\ \A op \in closing : Made(op[1]) /\ (op[2] = "resolved" => attempt[op[1]] = "closed")

IInv == LoadInv /\ TypeOK /\ HookInv /\ ShownConnected /\ Referenced

-----------------------------------------------------------------------------
(* initialize().                                                            *)

LEMMA InitLoad == LoadInit => LoadInv
<1> SUFFICES ASSUME LoadInit PROVE LoadInv
  OBVIOUS
<1> USE InitializeAssumption DEF LoadInit
<1>1. LoadTypeOK
  <2>1. caller \in Seq(Components) /\ Len(caller) = 0
    OBVIOUS
  <2>2. runs \in 0 .. MaxCalls /\ global \in 0 .. runs /\ instance \in 0 .. runs
    OBVIOUS
  <2>3. call \in [Calls -> UnderWay \cup {"idle", "resolved", "rejected"}]
    BY DEF UnderWay
  <2>4. /\ effect \in [Components -> 0 .. Len(caller)]
        /\ shown \in [Components -> {"loading", "ready", "error"}]
    BY <2>1
  <2>5. /\ scripts \subseteq Calls /\ goClass \in BOOLEAN /\ initialized \in BOOLEAN
        /\ mounted \subseteq Components /\ overlapped \in BOOLEAN
    OBVIOUS
  <2>6. Len(caller) <= MaxCalls
    BY <2>1
  <2> HIDE DEF LoadInit
  <2> QED
    BY <2>1, <2>2, <2>3, <2>4, <2>5, <2>6 DEF LoadTypeOK
<1>2. Numbered
  BY DEF Numbered, Calls
<1>3. Past = {}
  BY DEF Past
<1>4. OneRunEach
  BY <1>3, FS_EmptySet DEF OneRunEach
<1>5. OneAtATime
  BY DEF OneAtATime, UnderWay
<1> QED
  BY <1>1, <1>2, <1>4, <1>5 DEF LoadInv

\* Calls are numbered as they begin.
LEMMA NumberedStep ==
  ASSUME LoadInv, LoadNext
  PROVE  Numbered'
<1> USE InitializeAssumption DEF LoadInv, LoadTypeOK, Numbered, UnderWay, Calls
<1>1. ASSUME NEW k \in Calls, Probed(k) \/ ScriptLoads(k) \/ ScriptFails(k) \/ ScriptTimeout(k)
                               \/ Fetched(k) \/ FetchFails(k) \/ Ready(k)
      PROVE  Numbered'
  <2>1. CASE Probed(k)
    BY <2>1 DEF Probed, LoadExecutor, Reject, Show, pageVars
  <2>2. CASE ScriptLoads(k)
    BY <2>2 DEF ScriptLoads, pageVars
  <2>3. CASE ScriptFails(k)
    BY <2>3 DEF ScriptFails, Reject, Show, pageVars
  <2>4. CASE ScriptTimeout(k)
    BY <2>4 DEF ScriptTimeout, Reject, Show, pageVars
  <2>5. CASE Fetched(k)
    BY <2>5 DEF Fetched, pageVars
  <2>6. CASE FetchFails(k)
    BY <2>6 DEF FetchFails, Reject, Show, pageVars
  <2>7. CASE Ready(k)
    BY <2>7 DEF Ready, Resolve, Reject, Show, pageVars
  <2> QED
    BY <1>1, <2>1, <2>2, <2>3, <2>4, <2>5, <2>6, <2>7
<1>2. ASSUME NEW c \in Components, Effect(c)
      PROVE  Numbered'
  BY <1>2 DEF Effect, Enter, AlreadyInitialized, LoadExecutor
<1>3. ASSUME NEW c \in Components, Unmount(c)
      PROVE  Numbered'
  BY <1>3 DEF Unmount
<1> QED
  BY <1>1, <1>2, <1>3 DEF LoadNext

\* Calls that do not overlap.
LEMMA OneAtATimeStep ==
  ASSUME LoadInv, LoadNext
  PROVE  OneAtATime'
<1> USE InitializeAssumption DEF LoadInv, LoadTypeOK, Numbered, OneAtATime, UnderWay
<1>1. ASSUME NEW k \in Calls, Probed(k) \/ ScriptLoads(k) \/ ScriptFails(k) \/ ScriptTimeout(k)
                               \/ Fetched(k) \/ FetchFails(k) \/ Ready(k)
      PROVE  OneAtATime'
  <2>1. CASE Probed(k)
    BY <2>1 DEF Probed, LoadExecutor, Reject, Show, pageVars
  <2>2. CASE ScriptLoads(k)
    BY <2>2 DEF ScriptLoads, pageVars
  <2>3. CASE ScriptFails(k)
    BY <2>3 DEF ScriptFails, Reject, Show, pageVars
  <2>4. CASE ScriptTimeout(k)
    BY <2>4 DEF ScriptTimeout, Reject, Show, pageVars
  <2>5. CASE Fetched(k)
    BY <2>5 DEF Fetched, pageVars
  <2>6. CASE FetchFails(k)
    BY <2>6 DEF FetchFails, Reject, Show, pageVars
  <2>7. CASE Ready(k)
    BY <2>7 DEF Ready, Resolve, Reject, Show, pageVars
  <2> QED
    BY <1>1, <2>1, <2>2, <2>3, <2>4, <2>5, <2>6, <2>7
<1>2. ASSUME NEW c \in Components, Effect(c)
      PROVE  OneAtATime'
  <2> DEFINE k == Len(caller) + 1
  <2>1. k \in Calls /\ call[k] = "idle" /\ UNCHANGED initialized
    BY <1>2 DEF Effect, Calls
  <2>2. CASE /\ initialized
             /\ call' = [call EXCEPT ![k] = "resolved"]
             /\ UNCHANGED overlapped
    BY <2>1, <2>2
  <2>3. CASE /\ ~initialized
             /\ overlapped' = (overlapped \/ \E j \in Calls : call[j] \in UnderWay)
             /\ \A j \in Calls \ {k} : call'[j] = call[j]
    BY <2>1, <2>3
  <2>4. call' = [call EXCEPT ![k] = "resolved"] \/ ~initialized
    BY <1>2 DEF Effect, Enter, AlreadyInitialized
  <2> QED
    BY <1>2, <2>1, <2>2, <2>3, <2>4 DEF Effect, Enter, AlreadyInitialized, LoadExecutor
<1>3. ASSUME NEW c \in Components, Unmount(c)
      PROVE  OneAtATime'
  BY <1>3 DEF Unmount
<1> QED
  BY <1>1, <1>2, <1>3 DEF LoadNext

\* An instance is started by a call that is past its start for good.
LEMMA RunsStep ==
  ASSUME LoadInv, LoadNext
  PROVE  OneRunEach' /\ runs' \in 0 .. MaxCalls /\ runs <= runs'
<1> USE InitializeAssumption DEF LoadInv, LoadTypeOK
<1>1. /\ IsFiniteSet(Calls) /\ Cardinality(Calls) = MaxCalls
      /\ IsFiniteSet(Past) /\ Cardinality(Past) \in Nat
      /\ IsFiniteSet(Past') /\ Cardinality(Past') \in Nat /\ Cardinality(Past') <= MaxCalls
  <2>1. IsFiniteSet(Calls) /\ Cardinality(Calls) = MaxCalls
    BY FS_Interval DEF Calls
  <2>2. Past \subseteq Calls /\ Past' \subseteq Calls
    BY DEF Past
  <2> QED
    BY <2>1, <2>2, FS_Subset, FS_CardinalityType
<1>2. SUFFICES OneRunEach' /\ runs' \in Nat /\ runs <= runs'
  BY <1>1 DEF OneRunEach
<1>3. ASSUME Past \subseteq Past', runs' = runs
      PROVE  OneRunEach' /\ runs' \in Nat /\ runs <= runs'
  <2>1. Cardinality(Past) <= Cardinality(Past')
    BY <1>1, <1>3, FS_Subset
  <2> QED
    BY <1>1, <1>3, <2>1 DEF OneRunEach
<1>4. ASSUME NEW k \in Calls, Fetched(k)
      PROVE  OneRunEach' /\ runs' \in Nat /\ runs <= runs'
  <2>1. k \notin Past /\ Past' = Past \cup {k} /\ runs' = runs + 1
    BY <1>4 DEF Past, Fetched
  <2>2. Cardinality(Past') = Cardinality(Past) + 1
    BY <1>1, <2>1, FS_AddElement
  <2> QED
    BY <1>1, <2>1, <2>2 DEF OneRunEach
<1>5. ASSUME NEW k \in Calls, Probed(k) \/ ScriptLoads(k) \/ ScriptFails(k) \/ ScriptTimeout(k)
                               \/ FetchFails(k) \/ Ready(k)
      PROVE  Past \subseteq Past' /\ runs' = runs
  <2>1. CASE Probed(k)
    BY <2>1 DEF Past, Probed, LoadExecutor, Reject
  <2>2. CASE ScriptLoads(k)
    BY <2>2 DEF Past, ScriptLoads
  <2>3. CASE ScriptFails(k)
    BY <2>3 DEF Past, ScriptFails, Reject
  <2>4. CASE ScriptTimeout(k)
    BY <2>4 DEF Past, ScriptTimeout, Reject
  <2>5. CASE FetchFails(k)
    BY <2>5 DEF Past, FetchFails, Reject
  <2>6. CASE Ready(k)
    BY <2>6 DEF Past, Ready, Resolve, Reject
  <2> QED
    BY <1>5, <2>1, <2>2, <2>3, <2>4, <2>5, <2>6
<1>6. ASSUME NEW c \in Components, Effect(c)
      PROVE  Past \subseteq Past' /\ runs' = runs
  <2> DEFINE k == Len(caller) + 1
  <2>1. call[k] = "idle" /\ runs' = runs
    BY <1>6 DEF Numbered, Effect, Calls
  <2>2. \A j \in Calls \ {k} : call'[j] = call[j]
    BY <1>6 DEF Effect, Enter, LoadExecutor
  <2> QED
    BY <2>1, <2>2 DEF Past
<1>7. ASSUME NEW c \in Components, Unmount(c)
      PROVE  Past \subseteq Past' /\ runs' = runs
  BY <1>7 DEF Unmount, Past
<1> QED
  BY <1>3, <1>4, <1>5, <1>6, <1>7 DEF LoadNext

LEMMA ShowType ==
  ASSUME LoadTypeOK, NEW k, NEW what \in {"loading", "ready", "error"}, Show(k, what)
  PROVE  shown' \in [Components -> {"loading", "ready", "error"}]
BY DEF LoadTypeOK, Show

LEMMA RejectType ==
  ASSUME LoadTypeOK, NEW k \in Calls, Reject(k)
  PROVE  /\ call' \in [Calls -> UnderWay \cup {"idle", "resolved", "rejected"}]
         /\ initialized' \in BOOLEAN
         /\ shown' \in [Components -> {"loading", "ready", "error"}]
<1>1. Show(k, "error")
  BY DEF Reject
<1>2. shown' \in [Components -> {"loading", "ready", "error"}]
  BY <1>1, ShowType
<1> QED
  BY <1>2 DEF Reject, LoadTypeOK


\* Types.
LEMMA LoadTypeStep ==
  ASSUME LoadInv, LoadNext
  PROVE  LoadTypeOK'
<1> USE InitializeAssumption DEF LoadTypeOK, UnderWay
<1>0. LoadTypeOK /\ runs' \in 0 .. MaxCalls /\ runs <= runs'
  BY RunsStep DEF LoadInv
<1>1. ASSUME NEW k \in Calls, Probed(k) \/ ScriptLoads(k) \/ ScriptFails(k) \/ ScriptTimeout(k)
                               \/ Fetched(k) \/ FetchFails(k) \/ Ready(k)
      PROVE  LoadTypeOK'
  <2>1. CASE Probed(k)
    <3>1. CASE Reject(k) /\ UNCHANGED scripts
      BY <1>0, <2>1, <3>1, RejectType DEF Probed, pageVars
    <3>2. CASE LoadExecutor(k) /\ UNCHANGED <<initialized, shown>>
      BY <1>0, <2>1, <3>2 DEF Probed, LoadExecutor, pageVars
    <3> QED
      BY <2>1, <3>1, <3>2 DEF Probed
  <2>2. CASE ScriptLoads(k)
    BY <1>0, <2>2 DEF ScriptLoads, pageVars
  <2>3. CASE ScriptFails(k)
    <3>1. CASE Reject(k)
      BY <1>0, <2>3, <3>1, RejectType DEF ScriptFails, pageVars
    <3>2. CASE UNCHANGED <<call, initialized, shown>>
      BY <1>0, <2>3, <3>2 DEF ScriptFails, pageVars
    <3> QED
      BY <2>3, <3>1, <3>2 DEF ScriptFails
  <2>4. CASE ScriptTimeout(k)
    BY <1>0, <2>4, RejectType DEF ScriptTimeout, pageVars
  <2>5. CASE Fetched(k)
    BY <1>0, <2>5 DEF Fetched, pageVars
  <2>6. CASE FetchFails(k)
    BY <1>0, <2>6, RejectType DEF FetchFails, pageVars
  <2>7. CASE Ready(k)
    <3>1. CASE Reject(k)
      BY <1>0, <2>7, <3>1, RejectType DEF Ready, pageVars
    <3>2. CASE Resolve(k) /\ initialized' = TRUE
      <4>1. shown' \in [Components -> {"loading", "ready", "error"}]
        BY <1>0, <3>2, ShowType DEF Resolve
      <4> QED
        BY <1>0, <2>7, <3>2, <4>1 DEF Ready, Resolve, pageVars
    <3> QED
      BY <2>7, <3>1, <3>2 DEF Ready
  <2> QED
    BY <1>1, <2>1, <2>2, <2>3, <2>4, <2>5, <2>6, <2>7
<1>2. ASSUME NEW c \in Components, Effect(c)
      PROVE  LoadTypeOK'
  <2> DEFINE k == Len(caller) + 1
  <2>1. k \in Calls
    BY <1>0, <1>2 DEF Effect, Calls
  <2>2. caller' \in Seq(Components) /\ Len(caller') = k /\ k <= MaxCalls
    BY <1>0, <1>2 DEF Effect
  <2>3. /\ effect' \in [Components -> 0 .. Len(caller')]
        /\ mounted' \subseteq Components
    BY <1>0, <1>2, <2>2 DEF Effect
  <2>4. /\ call' \in [Calls -> UnderWay \cup {"idle", "resolved", "rejected"}]
        /\ scripts' \subseteq Calls
        /\ shown' \in [Components -> {"loading", "ready", "error"}]
        /\ overlapped' \in BOOLEAN
    <3>1. CASE AlreadyInitialized
      BY <1>0, <1>2, <2>1, <3>1 DEF Effect, Enter
    <3>2. CASE ~AlreadyInitialized
      BY <1>0, <1>2, <2>1, <3>2 DEF Effect, Enter, LoadExecutor
    <3> QED
      BY <3>1, <3>2
  <2> QED
    BY <1>0, <1>2, <2>2, <2>3, <2>4 DEF Effect
<1>3. ASSUME NEW c \in Components, Unmount(c)
      PROVE  LoadTypeOK'
  BY <1>0, <1>3 DEF Unmount
<1> QED
  BY <1>1, <1>2, <1>3 DEF LoadNext

LEMMA LoadStep ==
  ASSUME LoadInv, [LoadNext]_loadVars
  PROVE  LoadInv'
<1>1. CASE LoadNext
  BY <1>1, NumberedStep, OneAtATimeStep, RunsStep, LoadTypeStep DEF LoadInv
<1>2. CASE UNCHANGED loadVars
  BY <1>2 DEF LoadInv, LoadTypeOK, Numbered, OneRunEach, Past, OneAtATime, UnderWay, loadVars
<1> QED
  BY <1>1, <1>2

\* An initialized library that no calls have overlapped on: none is under
\* way, so what is still to come is late scripts and calls that return at once.
LEMMA BridgeStep ==
  ASSUME LoadInv, LoadNext, initialized, ~overlapped
  PROVE  initialized' /\ instance' = instance
<1>1. \A k \in Calls : call[k] \notin UnderWay
  BY DEF LoadInv, OneAtATime
<1>2. ASSUME NEW k \in Calls
      PROVE  /\ ~Probed(k) /\ ~ScriptTimeout(k) /\ ~Fetched(k) /\ ~FetchFails(k) /\ ~Ready(k)
             /\ call[k] # "script"
  BY <1>1 DEF UnderWay, Probed, ScriptTimeout, Fetched, FetchFails, Ready
<1>3. ASSUME NEW k \in Calls, ScriptLoads(k) \/ ScriptFails(k)
      PROVE  initialized' /\ instance' = instance
  BY <1>2, <1>3 DEF ScriptLoads, ScriptFails
<1>4. ASSUME NEW c \in Components, Effect(c) \/ Unmount(c)
      PROVE  initialized' /\ instance' = instance
  BY <1>4 DEF Effect, Unmount
<1> QED
  BY <1>2, <1>3, <1>4 DEF LoadNext

-----------------------------------------------------------------------------
(* The hook.                                                                *)

LEMMA InitHook == Init => IInv
<1> SUFFICES ASSUME Init PROVE IInv
  OBVIOUS
<1>1. LoadInv /\ LoadTypeOK
  BY InitLoad DEF Init, LoadInv
<1> USE HookAssumption DEF Init, HookInit
<1>2. TypeOK
  <2>1. 0 \in 0 .. runs
    BY <1>1 DEF LoadTypeOK
  <2> HIDE DEF Init
  <2>2. HookInit
    BY DEF Init
  <2> QED
    BY <1>1, <2>1, <2>2 DEF TypeOK, Attempts
<1>3. HookInv /\ ShownConnected
  BY DEF HookInv, ShownConnected
<1>4. Referenced
  BY DEF Referenced, Sessions
<1> QED
  BY <1>1, <1>2, <1>3, <1>4 DEF IInv

\* initialize() leaves the hook alone; attempts keep the instance they had.
LEMMA LoadKeepsHook ==
  ASSUME IInv, LoadNext, UNCHANGED hookVars
  PROVE  IInv'
<1>1. LoadInv' /\ LoadTypeOK'
  BY LoadStep DEF IInv, LoadInv
<1>2. runs \in Nat /\ runs' \in Nat /\ runs <= runs'
  BY RunsStep DEF IInv, LoadInv, LoadTypeOK
<1>3. 0 .. runs \subseteq 0 .. runs'
  BY <1>2
<1>4. TypeOK'
  <2>1. home' \in [Attempts -> 0 .. runs']
    BY <1>3 DEF IInv, TypeOK, hookVars
  <2> QED
    BY <1>1, <2>1 DEF IInv, TypeOK, hookVars
<1>5. HookInv' /\ ShownConnected' /\ Referenced'
  BY DEF IInv, HookInv, Made, ShownConnected, Referenced, Sessions, hookVars
<1> QED
  BY <1>1, <1>4, <1>5 DEF IInv

HookIInv == TypeOK /\ HookInv /\ ShownConnected /\ Referenced

LEMMA HookKeepsLoad ==
  ASSUME IInv, UNCHANGED loadVars, HookIInv'
  PROVE  IInv'
BY LoadStep DEF IInv, HookIInv

\* What the closures of the hook name is established or closed, so an attempt
\* that is still on its way is named by none.
LEMMA OnItsWay ==
  ASSUME HookIInv, NEW a \in Attempts, ~Made(a)
  PROVE  /\ session # a /\ committed # a
         /\ \A op \in closing : op[1] # a
BY HookAssumption DEF HookIInv, HookInv, Attempts

\* A call that goes on and is not established by that.
LEMMA ProceedStep ==
  ASSUME HookIInv, NEW a \in Attempts, ~Made(a), attempt[a] # "notified",
         NEW l \in {"handshake", "notified", "refused", "failed"},
         NEW s \in {"idle", "connecting", "connected", "error", "disconnected"},
         s = "connected" => l = "notified" \/ s = state,
         Proceed(a, l, s), UNCHANGED loadVars
  PROVE  HookIInv'
<1>1. /\ session # a /\ committed # a
      /\ \A op \in closing : op[1] # a
  BY OnItsWay
<1> USE DEF HookIInv, Proceed, SetState, TypeOK, LoadTypeOK, loadVars
<1>2. attempt' = [attempt EXCEPT ![a] = l]
  OBVIOUS
<1>3. TypeOK'
  OBVIOUS
<1>4. HookInv'
  BY <1>1 DEF HookInv, Made
<1>5. ShownConnected'
  <2> SUFFICES ASSUME present, state' = "connected"
               PROVE  \/ session \in Sessions' /\ \A op \in closing : op[1] # session
                      \/ \E b \in Attempts : attempt'[b] = "notified"
    BY DEF ShownConnected
  <2>1. CASE l = "notified"
    BY <1>2, <2>1
  <2>2. CASE l # "notified"
    <3>1. state = "connected"
      BY <2>2
    <3>2. CASE session \in Sessions /\ \A op \in closing : op[1] # session
      BY <1>1, <1>2, <3>2 DEF Sessions
    <3>3. CASE \E b \in Attempts : attempt[b] = "notified"
      BY <1>2, <3>3
    <3> QED
      BY <3>1, <3>2, <3>3 DEF ShownConnected
  <2> QED
    BY <2>1, <2>2
<1>6. Referenced'
  BY <1>1, <1>2 DEF Referenced, Sessions
<1> QED
  BY <1>3, <1>4, <1>5, <1>6

LEMMA ConnectStep ==
  ASSUME HookIInv, NEW a \in Attempts, Connect(a), UNCHANGED loadVars
  PROVE  HookIInv'
<1>1. ~Made(a)
  BY DEF Connect, Made
<1>2. /\ session # a /\ committed # a
      /\ \A op \in closing : op[1] # a
  BY <1>1, OnItsWay
<1> USE DEF HookIInv, Connect, SetState, TypeOK, LoadTypeOK, loadVars
<1>3. attempt' \in {[attempt EXCEPT ![a] = "opening"], [attempt EXCEPT ![a] = "refused"]}
  OBVIOUS
<1>4. TypeOK'
  OBVIOUS
<1>5. HookInv'
  BY <1>1, <1>2, <1>3 DEF HookInv, Made
<1>6. ShownConnected'
  BY DEF ShownConnected
<1>7. Referenced'
  BY <1>1, <1>2, <1>3 DEF Referenced, Sessions
<1> QED
  BY <1>4, <1>5, <1>6, <1>7

LEMMA OpenStep ==
  ASSUME HookIInv, NEW a \in Attempts, Open(a), UNCHANGED loadVars
  PROVE  HookIInv'
<1>1. ~Made(a) /\ attempt[a] # "notified"
  BY DEF Open, Opened, OpenFails, Made
<1>2. state \in {"idle", "connecting", "connected", "error", "disconnected"}
  BY DEF HookIInv, TypeOK
<1>3. \/ Proceed(a, "handshake", "connecting") \/ Proceed(a, "refused", state)
      \/ Proceed(a, "failed", "error")
  BY DEF Open, Opened, OpenFails
<1> QED
  BY <1>1, <1>2, <1>3, ProceedStep

LEMMA AnswerStep ==
  ASSUME HookIInv, NEW a \in Attempts, Answer(a), UNCHANGED loadVars
  PROVE  HookIInv'
<1>1. ~Made(a) /\ attempt[a] # "notified"
  BY DEF Answer, HandshakeSucceeds, HandshakeFails, Reached, Made
<1>2. Proceed(a, "notified", "connected") \/ Proceed(a, "refused", "connecting")
  BY DEF Answer, HandshakeSucceeds, HandshakeFails
<1> QED
  BY <1>1, <1>2, ProceedStep

LEMMA ConnectRejectsStep ==
  ASSUME HookIInv, NEW a \in Attempts, ConnectRejects(a), UNCHANGED loadVars
  PROVE  HookIInv'
<1>1. ~Made(a) /\ attempt[a] # "notified" /\ Proceed(a, "failed", "error")
  BY DEF ConnectRejects, Made
<1> QED
  BY <1>1, ProceedStep

LEMMA ConnectResolvesStep ==
  ASSUME HookIInv, NEW a \in Attempts, ConnectResolves(a), UNCHANGED loadVars
  PROVE  HookIInv'
<1>1. ~Made(a)
  BY DEF ConnectResolves, Made
<1>2. /\ session # a /\ committed # a
      /\ \A op \in closing : op[1] # a
  BY <1>1, OnItsWay
<1> USE HookAssumption DEF HookIInv, ConnectResolves, Remember, SetState, TypeOK, LoadTypeOK,
                           loadVars, Unrendered
<1>3. attempt' = [attempt EXCEPT ![a] = "established"]
  OBVIOUS
<1>4. TypeOK'
  OBVIOUS
<1>5. HookInv'
  BY <1>2, <1>3 DEF HookInv, Made
<1>6. ShownConnected'
  BY <1>2, <1>3 DEF ShownConnected, Sessions
<1>7. Referenced'
  <2> SUFFICES ASSUME NEW b \in Attempts, attempt'[b] = "established"
               PROVE  \/ present' /\ b \in {session', committed'}
                      \/ \E op \in closing' : op[1] = b
                      \/ b \in skipped' \cup late'
    BY DEF Referenced, Sessions
  <2>1. CASE b = a
    BY <2>1
  <2>2. CASE b # a
    <3>1. \/ present /\ b \in {session, committed}
          \/ \E op \in closing : op[1] = b
          \/ b \in skipped \cup late
      BY <1>3, <2>2 DEF Referenced, Sessions
    <3>2. b # None
      BY DEF Attempts
    <3> QED
      BY <2>2, <3>1, <3>2
  <2> QED
    BY <2>1, <2>2
<1> QED
  BY <1>4, <1>5, <1>6, <1>7

LEMMA ClosedStep ==
  ASSUME HookIInv, NEW a \in Attempts, NEW who \in {"user", "cleanup"}, Closed(a, who),
         UNCHANGED loadVars
  PROVE  HookIInv'
<1> USE HookAssumption DEF HookIInv, Closed, SetState, TypeOK, LoadTypeOK, loadVars
<1>1. /\ attempt' = [attempt EXCEPT ![a] = "closed"]
      /\ \A op \in closing' : op \in closing \/ op = <<a, "resolved">>
      /\ \A op \in closing : op[1] # a => op \in closing'
  OBVIOUS
<1>2. TypeOK'
  OBVIOUS
<1>3. HookInv'
  BY <1>1 DEF HookInv, Made
<1>4. ShownConnected'
  BY DEF ShownConnected
<1>5. Referenced'
  BY <1>1 DEF Referenced, Sessions
<1> QED
  BY <1>2, <1>3, <1>4, <1>5

LEMMA DisconnectedStep ==
  ASSUME HookIInv, NEW a \in Attempts, Disconnected(a), UNCHANGED loadVars
  PROVE  HookIInv'
<1> USE HookAssumption DEF HookIInv, Disconnected, Forget, SetState, TypeOK, LoadTypeOK, loadVars,
                           Unrendered
<1>1. closing' \subseteq closing /\ attempt[a] = "closed"
  BY DEF HookInv
<1>2. TypeOK'
  OBVIOUS
<1>3. HookInv'
  BY <1>1 DEF HookInv, Made
<1>4. ShownConnected'
  BY DEF ShownConnected
<1>5. Referenced'
  <2> SUFFICES ASSUME NEW b \in Attempts, attempt[b] = "established"
               PROVE  \/ present' /\ b \in {session', committed'}
                      \/ \E op \in closing' : op[1] = b
                      \/ b \in skipped' \cup late'
    BY DEF Referenced, Sessions
  <2>1. b # a /\ b # None
    BY <1>1 DEF Attempts
  <2>2. \/ present /\ b \in {session, committed}
        \/ \E op \in closing : op[1] = b
        \/ b \in skipped \cup late
    BY DEF Referenced, Sessions
  <2> QED
    BY <2>1, <2>2
<1> QED
  BY <1>2, <1>3, <1>4, <1>5

LEMMA DisconnectStep ==
  ASSUME HookIInv, Disconnect, UNCHANGED loadVars
  PROVE  HookIInv'
<1> USE HookAssumption DEF HookIInv, Disconnect, Begin, SetState, TypeOK, LoadTypeOK, loadVars
<1>1. TypeOK'
  OBVIOUS
<1>2. HookInv'
  BY DEF HookInv, Made
<1>3. ShownConnected'
  BY DEF ShownConnected
<1>4. Referenced'
  BY DEF Referenced, Sessions
<1> QED
  BY <1>1, <1>2, <1>3, <1>4

\* The cleanup names the session of the last render.
LEMMA CleanupStep ==
  ASSUME HookIInv, Cleanup
  PROVE  /\ closing \subseteq closing'
         /\ closing' \subseteq Attempts \X {"user", "cleanup", "resolved"}
         /\ \A op \in closing' \ closing : op = <<committed, "cleanup">>
         /\ committed # None => \E op \in closing' : op[1] = committed
         /\ state' \in {"idle", "connecting", "connected", "error", "disconnected"}
         /\ state' = "connected" /\ present =>
              committed = None /\ state = "connected" /\ closing' = closing
<1>1. TypeOK
  BY DEF HookIInv
<1>2. CASE committed = None
  BY <1>1, <1>2 DEF TypeOK, Cleanup
<1>3. CASE committed # None
  <2>1. /\ committed \in Attempts /\ closing \subseteq Attempts \X {"user", "cleanup", "resolved"}
        /\ closing' = closing \cup {<<committed, "cleanup">>}
        /\ SetState("connecting")
    BY <1>1, <1>3 DEF TypeOK, Cleanup, Begin
  <2>2. <<committed, "cleanup">>[1] = committed
    OBVIOUS
  <2>3. state' \in {"idle", "connecting", "connected", "error", "disconnected"}
    BY <1>1, <2>1 DEF TypeOK, SetState
  <2>4. ~(state' = "connected" /\ present)
    BY <2>1 DEF SetState
  <2>5. \E op \in closing' : op[1] = committed
    BY <2>1, <2>2
  <2>6. /\ closing \subseteq closing'
        /\ closing' \subseteq Attempts \X {"user", "cleanup", "resolved"}
    BY <2>1
  <2>7. \A op \in closing' \ closing : op = <<committed, "cleanup">>
    BY <2>1, <2>2
  <2> QED
    BY <2>3, <2>4, <2>5, <2>6, <2>7
<1> QED
  BY <1>2, <1>3

LEMMA RenderStep ==
  ASSUME HookIInv, Render, UNCHANGED loadVars
  PROVE  HookIInv'
<1>1. /\ closing \subseteq closing'
      /\ closing' \subseteq Attempts \X {"user", "cleanup", "resolved"}
      /\ \A op \in closing' \ closing : op = <<committed, "cleanup">>
      /\ committed # None => \E op \in closing' : op[1] = committed
      /\ state' \in {"idle", "connecting", "connected", "error", "disconnected"}
      /\ state' = "connected" /\ present =>
           committed = None /\ state = "connected" /\ closing' = closing
  BY CleanupStep DEF Render
<1>2. /\ committed' = session /\ present
      /\ UNCHANGED <<attempt, home, session, present, skipped, late>>
  BY DEF Render
<1>3. TypeOK'
  BY <1>1, <1>2 DEF HookIInv, TypeOK, LoadTypeOK, loadVars
<1>4. HookInv'
  <2>1. committed # None => Made(committed)
    BY DEF HookIInv, HookInv
  <2>2. closing' # closing => committed # None
    BY DEF Render, Cleanup
  <2> QED
    BY <1>1, <1>2, <2>1, <2>2 DEF HookIInv, HookInv, Made
<1>5. ShownConnected'
  BY <1>1, <1>2 DEF HookIInv, ShownConnected, Sessions
<1>6. Referenced'
  <2> SUFFICES ASSUME NEW b \in Attempts, attempt'[b] = "established"
               PROVE  \/ present' /\ b \in {session', committed'}
                      \/ \E op \in closing' : op[1] = b
                      \/ b \in skipped' \cup late'
    BY DEF Referenced, Sessions
  <2>1. b # None
    BY HookAssumption DEF Attempts
  <2>2. \/ present /\ b \in {session, committed}
        \/ \E op \in closing : op[1] = b
        \/ b \in skipped \cup late
    BY <1>2 DEF HookIInv, Referenced, Sessions
  <2> QED
    BY <1>1, <1>2, <2>1, <2>2
<1> QED
  BY <1>3, <1>4, <1>5, <1>6 DEF HookIInv

LEMMA LeaveStep ==
  ASSUME HookIInv, Leave, UNCHANGED loadVars
  PROVE  HookIInv'
<1>1. /\ closing \subseteq closing'
      /\ closing' \subseteq Attempts \X {"user", "cleanup", "resolved"}
      /\ \A op \in closing' \ closing : op = <<committed, "cleanup">>
      /\ committed # None => \E op \in closing' : op[1] = committed
      /\ state' \in {"idle", "connecting", "connected", "error", "disconnected"}
  BY CleanupStep DEF Leave
<1>2. /\ present /\ present' = FALSE
      /\ skipped' = skipped \cup ({session} \ {None, committed})
      /\ UNCHANGED <<attempt, home, session, committed, late>>
  BY DEF Leave, Unrendered
<1>3. TypeOK'
  BY <1>1, <1>2 DEF HookIInv, TypeOK, LoadTypeOK, loadVars
<1>4. HookInv'
  <2>1. closing' # closing => committed # None
    BY DEF Leave, Cleanup
  <2> QED
    BY <1>1, <1>2, <2>1 DEF HookIInv, HookInv, Made
<1>5. ShownConnected'
  BY <1>2 DEF ShownConnected
<1>6. Referenced'
  <2> SUFFICES ASSUME NEW b \in Attempts, attempt'[b] = "established"
               PROVE  \/ \E op \in closing' : op[1] = b
                      \/ b \in skipped' \cup late'
    BY DEF Referenced, Sessions
  <2>1. b # None
    BY HookAssumption DEF Attempts
  <2>2. \/ b \in {session, committed}
        \/ \E op \in closing : op[1] = b
        \/ b \in skipped \cup late
    BY <1>2 DEF HookIInv, Referenced, Sessions
  <2> QED
    BY <1>1, <1>2, <2>1, <2>2
<1> QED
  BY <1>3, <1>4, <1>5, <1>6 DEF HookIInv

LEMMA HookStep ==
  ASSUME HookIInv, HookNext, UNCHANGED loadVars
  PROVE  HookIInv'
BY ConnectStep, OpenStep, AnswerStep, ConnectResolvesStep, ConnectRejectsStep, ClosedStep,
   DisconnectedStep, DisconnectStep, RenderStep, LeaveStep DEF HookNext, Settle

LEMMA Inductive == IInv /\ [Next]_vars => IInv'
<1> SUFFICES ASSUME IInv, [Next]_vars PROVE IInv'
  OBVIOUS
<1>1. CASE LoadNext /\ UNCHANGED hookVars
  BY <1>1, LoadKeepsHook
<1>2. CASE HookNext /\ UNCHANGED loadVars
  BY <1>2, HookStep, HookKeepsLoad DEF IInv, HookIInv
<1>3. CASE UNCHANGED vars
  <2>1. UNCHANGED loadVars /\ UNCHANGED hookVars
    BY <1>3 DEF vars
  <2>2. HookIInv'
    BY <2>1 DEF IInv, HookIInv, TypeOK, LoadTypeOK, HookInv, Made, ShownConnected, Referenced,
                Sessions, hookVars, loadVars
  <2> QED
    BY <2>1, <2>2, HookKeepsLoad
<1> QED
  BY <1>1, <1>2, <1>3 DEF Next

LEMMA Invariance == Spec => []IInv
BY InitHook, Inductive, PTL DEF Spec

-----------------------------------------------------------------------------
(* The state of a page of any size is of its types: initialize() never     *)
(* starts more Go instances than it was called, and what the hook and the  *)
(* disconnects under way name are sessions (index.ts:267, react.ts:85-130).*)
THEOREM TypeCorrect == Spec => []TypeOK
<1>1. IInv => TypeOK
  BY DEF IInv
<1> QED
  BY <1>1, Invariance, PTL

(* Whatever else is being opened, fails or is being closed, a hook that    *)
(* shows "connected" has an established session that nobody is             *)
(* disconnecting, or a connect() is about to resolve that was notified     *)
(* "connected" (client.go:193, react.ts:85-110).                           *)
THEOREM ConnectedIsTrue == Spec => []ShownConnected
<1>1. IInv => ShownConnected
  BY DEF IInv
<1> QED
  BY <1>1, Invariance, PTL

(* An established session is held by the hook or being disconnected, or is *)
(* one of the two kinds that escape (react.ts:92, :124-130).               *)
THEOREM NoSessionLost == Spec => []Referenced
<1>1. IInv => Referenced
  BY DEF IInv
<1> QED
  BY <1>1, Invariance, PTL

(* Without overlapping calls an initialized client keeps its Go instance,  *)
(* however many components come and go and whatever scripts arrive late    *)
(* (index.ts:198-293).                                                     *)
THEOREM BridgeKept == Spec => BridgeStable
<1>1. IInv /\ [Next]_vars =>
        [initialized /\ ~overlapped => initialized' /\ instance' = instance]_loadVars
  BY BridgeStep DEF IInv, Next, vars, loadVars
<1> QED
  BY <1>1, Invariance, PTL DEF Spec, BridgeStable

(* Calls of initialize() under way exclude each other, and there is none   *)
(* once one has succeeded, as long as none began during another: it is the *)
(* overlap alone that exchanges instances (index.ts:198-293).              *)
THEOREM CallsExclude == Spec => []OneAtATime
<1>1. IInv => OneAtATime
  BY DEF IInv, LoadInv
<1> QED
  BY <1>1, Invariance, PTL
===============================================================================
