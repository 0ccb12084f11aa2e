------------------------------ MODULE Initialize ------------------------------
(***************************************************************************)
(* SSHClient.initialize() and the components of a page that call it when   *)
(* they are mounted: useSSHClient of lib/react.ts, lib/next.ts and         *)
(* lib/vite.ts, useSSHClientVue of lib/vite.ts.                            *)
(*                                                                         *)
(* initialize() tests SSHClient.initialized before its first await and     *)
(* sets it after its last one, so calls overlap.  Calls are numbered as    *)
(* they begin; a step is what runs between two awaits.  Go instances are   *)
(* numbered in the order in which go.run starts them.                      *)
(***************************************************************************)
EXTENDS Naturals, Sequences

CONSTANTS
    Hooks,          \* components that use a React hook
    Composables,    \* components that use useSSHClientVue
    MaxCalls        \* how often initialize() is called at most

Components == Hooks \cup Composables
Calls == 1 .. MaxCalls

ASSUME InitializeAssumption ==
    /\ Hooks \cap Composables = {}
    /\ MaxCalls \in Nat

VARIABLES
    call,           \* where each call of initialize() is
    scripts,        \* the calls whose <script> for wasm_exec.js is loading
    goClass,        \* window.Go is defined
    runs,           \* how many Go instances were started
    global,         \* the instance that window.SSHClient belongs to, or 0
    instance,       \* SSHClient.wasmInstance, which the TransportManager shares
    initialized,    \* SSHClient.initialized
    caller,         \* the component whose effect made each call, in order
    effect,         \* the call of the last effect of each component, or 0
    mounted,        \* the components that are mounted
    shown,          \* isLoading, isInitialized and initError of each component
    overlapped      \* history: a call began while another one was under way

loadVars == <<call, scripts, goClass, runs, global, instance, initialized,
              caller, effect, mounted, shown, overlapped>>
pageVars == <<caller, effect, mounted, overlapped>>

UnderWay == {"probing", "script", "fetching", "starting"}

LoadTypeOK ==
    /\ call \in [Calls -> UnderWay \cup {"idle", "resolved", "rejected"}]
    /\ scripts \subseteq Calls
    /\ goClass \in BOOLEAN
    /\ runs \in 0 .. MaxCalls
    /\ global \in 0 .. runs
    /\ instance \in 0 .. runs
    /\ initialized \in BOOLEAN
    /\ caller \in Seq(Components) /\ Len(caller) <= MaxCalls
    /\ effect \in [Components -> 0 .. Len(caller)]
    /\ mounted \subseteq Components
    /\ shown \in [Components -> {"loading", "ready", "error"}]
    /\ overlapped \in BOOLEAN

LoadInit ==
    /\ call = [k \in Calls |-> "idle"]
    /\ scripts = {}
    /\ goClass = FALSE
    /\ runs = 0
    /\ global = 0
    /\ instance = 0
    /\ initialized = FALSE
    /\ caller = <<>>
    /\ effect = [c \in Components |-> 0]
    /\ mounted = {}
    /\ shown = [c \in Components |-> "loading"]
    /\ overlapped = FALSE

-----------------------------------------------------------------------------
(* How a call ends, and what its component makes of it.                    *)

(* The `mounted' of an effect's closure: a hook's cleanup clears it, the   *)
(* composable of Vue has none.                                             *)
Current(k) ==
    \/ caller[k] \in Composables
    \/ caller[k] \in mounted /\ k = effect[caller[k]]

Show(k, what) == shown' = IF Current(k) THEN [shown EXCEPT ![caller[k]] = what]
                                        ELSE shown

Resolve(k) ==
    /\ call' = [call EXCEPT ![k] = "resolved"]
    /\ Show(k, "ready")

(* mutant: the failure reaches neither the flag nor the component.         *)
RejectOnly(k) ==
    /\ call' = [call EXCEPT ![k] = "rejected"]
    /\ UNCHANGED <<shown, initialized>>

(* The catch of initialize().                                              *)
Reject(k) ==
    /\ call' = [call EXCEPT ![k] = "rejected"]
    /\ initialized' = FALSE
    /\ Show(k, "error")

-----------------------------------------------------------------------------
(* The steps of a call.                                                    *)

(* loadWasmExecutor: the script is only added when window.Go is missing.   *)
LoadExecutor(k) ==
    IF goClass THEN /\ call' = [call EXCEPT ![k] = "fetching"]
                    /\ UNCHANGED scripts
               ELSE /\ call' = [call EXCEPT ![k] = "script"]
                    /\ scripts' = scripts \cup {k}

(* mutant: every call starts over.                                         *)
NeverInitialized == FALSE

(* The test at the head of initialize().                                   *)
AlreadyInitialized == initialized

(* initialize() up to its first await.  With autoDetect, the default, it   *)
(* asks for the files first; a legacy string argument skips that.          *)
Enter(c, k) ==
    \/ /\ AlreadyInitialized
       /\ call' = [call EXCEPT ![k] = "resolved"]
       /\ shown' = [shown EXCEPT ![c] = "ready"]
       /\ UNCHANGED <<scripts, overlapped>>
    \/ /\ ~AlreadyInitialized
       /\ overlapped' = (overlapped \/ \E j \in Calls : call[j] \in UnderWay)
       /\ UNCHANGED shown
       /\ \/ /\ call' = [call EXCEPT ![k] = "probing"]
             /\ UNCHANGED scripts
          \/ LoadExecutor(k)

(* testAssetAvailability answers: both files are there, or one is not.     *)
Probed(k) ==
    /\ call[k] = "probing"
    /\ \/ LoadExecutor(k) /\ UNCHANGED <<initialized, shown>>
       \/ Reject(k) /\ UNCHANGED scripts
    /\ UNCHANGED <<goClass, runs, global, instance, pageVars>>

(* The script was executed.  One that comes after the timeout still        *)
(* defines window.Go, but its promise is settled.                          *)
ScriptLoads(k) ==
    /\ k \in scripts
    /\ scripts' = scripts \ {k}
    /\ goClass' = TRUE
    /\ call' = IF call[k] = "script" THEN [call EXCEPT ![k] = "fetching"] ELSE call
    /\ UNCHANGED <<runs, global, instance, initialized, shown, pageVars>>

(* onerror.                                                                *)
ScriptFails(k) ==
    /\ k \in scripts
    /\ scripts' = scripts \ {k}
    /\ IF call[k] = "script" THEN Reject(k) ELSE UNCHANGED <<call, initialized, shown>>
    /\ UNCHANGED <<goClass, runs, global, instance, pageVars>>

(* The timer of loadWasmExecutor; the <script> stays in the document.      *)
ScriptTimeout(k) ==
    /\ call[k] = "script"
    /\ Reject(k)
    /\ UNCHANGED <<scripts, goClass, runs, global, instance, pageVars>>

(* The module was fetched and compiled, and go.run has run main() up to    *)
(* its select{}: it has set window.SSHClient, if it got that far.          *)
Fetched(k) ==
    /\ call[k] = "fetching"
    /\ call' = [call EXCEPT ![k] = "starting"]
    /\ runs' = runs + 1
    /\ global' \in {global, runs + 1}
    /\ UNCHANGED <<scripts, goClass, instance, initialized, shown, pageVars>>

(* The fetch, its status, or WebAssembly.instantiate fails.                *)
FetchFails(k) ==
    /\ call[k] = "fetching"
    /\ Reject(k)
    /\ UNCHANGED <<scripts, goClass, runs, global, instance, pageVars>>

(* After 100 ms: whatever window.SSHClient is now becomes the instance of  *)
(* SSHClient and of its TransportManager.                                  *)
Ready(k) ==
    /\ call[k] = "starting"
    /\ instance' = global
    /\ IF global = 0 THEN Reject(k)
                     ELSE Resolve(k) /\ initialized' = TRUE
    /\ UNCHANGED <<scripts, goClass, runs, global, pageVars>>

-----------------------------------------------------------------------------
(* The components.                                                         *)

(* The effect runs: when the component is mounted, and for a hook again    *)
(* when its options change.  The cleanup of the run before makes that run  *)
(* no longer Current; isLoading is not set again.                          *)
Effect(c) ==
    LET k == Len(caller) + 1 IN
    /\ k <= MaxCalls
    /\ effect[c] = 0 \/ (c \in Hooks /\ c \in mounted)
    /\ caller' = Append(caller, c)
    /\ effect' = [effect EXCEPT ![c] = k]
    /\ mounted' = mounted \cup {c}
    /\ Enter(c, k)
    /\ UNCHANGED <<goClass, runs, global, instance, initialized>>

Unmount(c) ==
    /\ c \in mounted
    /\ mounted' = mounted \ {c}
    /\ UNCHANGED <<call, scripts, goClass, runs, global, instance, initialized,
                   caller, effect, shown, overlapped>>

LoadNext ==
    \/ \E k \in Calls : \/ Probed(k) \/ ScriptLoads(k) \/ ScriptFails(k)
                        \/ ScriptTimeout(k) \/ Fetched(k) \/ FetchFails(k)
                        \/ Ready(k)
    \/ \E c \in Components : Effect(c) \/ Unmount(c)

(* Timers fire and the network answers; nobody has to mount anything.      *)
LoadFairness ==
    \A k \in Calls : /\ WF_loadVars(Probed(k))
                     /\ WF_loadVars(ScriptTimeout(k) \/ ScriptLoads(k) \/ ScriptFails(k))
                     /\ WF_loadVars(Fetched(k) \/ FetchFails(k))
                     /\ WF_loadVars(Ready(k))

-----------------------------------------------------------------------------
(* Once initialize() has succeeded it stays so, and the instance that      *)
(* transports are registered with is never exchanged under them, as long   *)
(* as no two calls overlapped: one that fails, late scripts and components *)
(* that are unmounted in the middle included (index.ts:198-293).  Calls do *)
(* overlap when two components mount together, and in React's StrictMode;  *)
(* then a second instance replaces the first, and a call that fails makes  *)
(* an initialized client unusable.                                         *)
BridgeStable ==
    [][initialized /\ ~overlapped => initialized' /\ instance' = instance]_loadVars

(* A mounted component does not show "loading" for ever, although outcomes *)
(* of earlier effects are ignored and files may never come (react.ts:50,   *)
(* next.ts:128, vite.ts:140 and :176).                                     *)
Loaded ==
    \A c \in Components : (c \in mounted) ~> (shown[c] # "loading" \/ c \notin mounted)
=============================================================================
