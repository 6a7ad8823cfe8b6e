------------------------------- MODULE Engine -------------------------------
(***************************************************************************)
(* MCPEngine of src/mcp/engine.ts and what the sessions of one process do   *)
(* with it (src/mcp/session.ts, execute() of src/mcp/tools.ts): one open    *)
(* index, its watcher and the catch-up sync, shared by all sessions.  An    *)
(* index instance is numbered in the order of its opening.                  *)
(***************************************************************************)
EXTENDS Naturals, FiniteSets

CONSTANTS
  Sessions,
  MaxOpens,   \* bound: instances opened, at least one
  MaxFails    \* bound: opens that throw

ASSUME EngineAssumption == MaxOpens \in Nat \ {0} /\ MaxFails \in Nat

VARIABLES
  closed,
  opening,    \* initPromise: doInitialize() awaits its open
  cg,         \* the engine's instance, 0 when null
  default,    \* the tool handler's instance
  opened,     \* instances opened so far
  open,       \* those that have not been closed
  watched,    \* the instance whose watcher runs, 0 before watcherStarted
  gate,       \* catchUpGate, as the instance whose catch-up it awaits
  synced,     \* instances whose catch-up sync has ended
  passed,     \* instances whose gate a call has waited at
  doubled,    \* an instance was opened beside another
  fails,
  ses,        \* per session, what it does
  at          \* the instance whose gate its call waits at, or which serves its call

engine  == <<closed, opening, cg, default, opened, open, watched, gate, synced, passed, doubled, fails, ses, at>>

Instances == 1..MaxOpens

(* new: no initialize yet; joined: awaits the initialization; ready: between *)
(* calls; asked, resumed: its call awaits that, or is about to go on; gated,  *)
(* running: its call waits at the gate, or is served.                        *)
Doing == {"new", "joined", "asked", "resumed", "ready", "gated", "running"}
Settled == \A s \in Sessions : ses[s] # "resumed"

EngineTypeOK == /\ closed \in BOOLEAN /\ opening \in BOOLEAN /\ doubled \in BOOLEAN
                /\ cg \in 0..MaxOpens /\ default \in 0..MaxOpens /\ opened \in 0..MaxOpens
                /\ open \subseteq Instances /\ watched \in 0..MaxOpens /\ gate \in 0..MaxOpens
                /\ synced \subseteq Instances /\ passed \subseteq Instances /\ fails \in 0..MaxFails
                /\ (cg # 0 => cg = default) /\ (gate # 0 => gate = default)
                /\ ses \in [Sessions -> Doing] /\ at \in [Sessions -> 0..MaxOpens]

(* Daemon.start() begins to open the index before anybody connects.         *)
EngineInit == /\ closed = FALSE /\ opening = TRUE /\ cg = 0 /\ default = 0
              /\ opened = 0 /\ open = {} /\ watched = 0 /\ gate = 0
              /\ synced = {} /\ passed = {} /\ doubled = FALSE /\ fails = 0
              /\ ses = [s \in Sessions |-> "new"] /\ at = [s \in Sessions |-> 0]

-----------------------------------------------------------------------------
(* Mutant: a default that is there already stays. *)
AdoptFirst(i) == /\ opened < MaxOpens
                 /\ opened' = i /\ open' = open \cup {i}
                 /\ cg' = i /\ default' = (IF default = 0 THEN i ELSE default)
                 /\ watched' = IF watched = 0 THEN i ELSE watched
                 /\ doubled' = (doubled \/ open # {})

(* The instance is stored over whatever was there, becomes the default and   *)
(* gets the watcher if there is none yet; its catch-up becomes the gate.     *)
Adopt(i) == /\ opened < MaxOpens
            /\ opened' = i /\ open' = open \cup {i}
            /\ cg' = i /\ default' = i
            /\ watched' = IF watched = 0 THEN i ELSE watched
            /\ doubled' = (doubled \/ open # {})

(* ensureInitialized() on the session's initialize *)
Initialize(s) == /\ ses[s] = "new"
                 /\ IF closed \/ default # 0
                    THEN ses' = [ses EXCEPT ![s] = "ready"] /\ UNCHANGED opening
                    ELSE ses' = [ses EXCEPT ![s] = "joined"] /\ opening' = TRUE
                 /\ UNCHANGED <<closed, cg, default, opened, open, watched, gate, synced, passed, doubled, fails, at>>

(* Those who awaited the initialization go on before anything else runs.     *)
Released == [s \in Sessions |-> CASE ses[s] = "joined" -> "ready"
                                  [] ses[s] = "asked" -> "resumed"
                                  [] OTHER -> ses[s]]

(* Mutant: the sync is started without becoming the gate. *)
OpenDoneUngated == /\ opening /\ opening' = FALSE
                   /\ Adopt(opened + 1) /\ ses' = Released
                   /\ UNCHANGED <<closed, gate, synced, passed, fails, at>>

(* doInitialize() comes back from its await, whether stopped meanwhile or not. *)
OpenDone == /\ opening /\ opening' = FALSE
            /\ Adopt(opened + 1) /\ gate' = opened' /\ ses' = Released
            /\ UNCHANGED <<closed, synced, passed, fails, at>>

OpenFails == /\ opening /\ opening' = FALSE
             /\ fails < MaxFails /\ fails' = fails + 1 /\ ses' = Released
             /\ UNCHANGED <<closed, cg, default, opened, open, watched, gate, synced, passed, doubled, at>>

(* execute(): the call that finds the gate takes it away and waits.  A call    *)
(* that goes on takes the default instance then, or is told there is none.    *)
Execute(s, g) == IF g # 0
                 THEN /\ gate' = 0 /\ passed' = passed \cup {g}
                      /\ ses' = [ses EXCEPT ![s] = "gated"] /\ at' = [at EXCEPT ![s] = g]
                 ELSE /\ gate' = 0 /\ UNCHANGED passed
                      /\ ses' = [ses EXCEPT ![s] = "running"] /\ at' = [at EXCEPT ![s] = default]

(* handleToolsCall(): a call waits for the initialization its session joined. *)
AskEarly(s) == /\ ses[s] = "joined" /\ ses' = [ses EXCEPT ![s] = "asked"]
               /\ UNCHANGED <<closed, opening, cg, default, opened, open, watched, gate, synced, passed, doubled, fails, at>>

(* With no default after that, retryInitializeSync() opens on the spot: it    *)
(* looks at the default only, not at an open that is under way.              *)
Ask(s) ==
  /\ ses[s] \in {"ready", "resumed"}
  /\ \/ /\ closed \/ default # 0
        /\ Execute(s, gate) /\ UNCHANGED <<cg, default, opened, open, watched, doubled, fails>>
     \/ /\ ~closed /\ default = 0
        /\ Adopt(opened + 1) /\ Execute(s, opened') /\ UNCHANGED fails
     \/ /\ ~closed /\ default = 0 /\ fails < MaxFails /\ fails' = fails + 1
        /\ Execute(s, gate) /\ UNCHANGED <<cg, default, opened, open, watched, doubled>>
  /\ UNCHANGED <<closed, opening, synced>>

GateOpens(s) == /\ ses[s] = "gated" /\ at[s] \in synced
                /\ ses' = [ses EXCEPT ![s] = "running"] /\ at' = [at EXCEPT ![s] = default]
                /\ UNCHANGED <<closed, opening, cg, default, opened, open, watched, gate, synced, passed, doubled, fails>>

(* Mutant: no time box (before issue 905) *)
GateTimesOutNever(s) == FALSE /\ UNCHANGED engine

GateTimesOut(s) == /\ ses[s] = "gated" /\ at[s] \notin synced
                   /\ ses' = [ses EXCEPT ![s] = "running"] /\ at' = [at EXCEPT ![s] = default]
                   /\ UNCHANGED <<closed, opening, cg, default, opened, open, watched, gate, synced, passed, doubled, fails>>

Answer(s) == /\ ses[s] = "running" /\ ses' = [ses EXCEPT ![s] = "ready"] /\ at' = [at EXCEPT ![s] = 0]
             /\ UNCHANGED <<closed, opening, cg, default, opened, open, watched, gate, synced, passed, doubled, fails>>

SyncEnds(i) == /\ i <= opened /\ i \notin synced /\ synced' = synced \cup {i}
               /\ UNCHANGED <<closed, opening, cg, default, opened, open, watched, gate, passed, doubled, fails, ses, at>>

(* stop(): closes the instance it knows; the handler keeps its reference.    *)
EngineStop == /\ closed' = TRUE /\ open' = open \ {cg} /\ cg' = 0
              /\ UNCHANGED <<opening, default, opened, watched, gate, synced, passed, doubled, fails, ses, at>>

=============================================================================
