------------------------------- MODULE Daemon -------------------------------
(***************************************************************************)
(* The life of the shared daemon of src/mcp/daemon.ts: its connections, its *)
(* timers and its shutdown, around the Engine that serves the sessions.      *)
(* handleConnection(), the timers and stop() run on one thread; between two *)
(* of them a socket may close, or its peer die without a close.              *)
(***************************************************************************)
EXTENDS Engine

VARIABLES
  phase,      \* serve, closing (stop() awaits server.close()), exited
  conn,       \* per connection: none, hello, open (a session), shut
  peer,       \* its peer process: alive or not
  known,      \* the client hello told its PID
  clients,    \* the sessions the daemon counts
  idleTimer,  \* it is armed
  fresh       \* traffic since the last tick of the inactivity backstop

vars == <<phase, conn, peer, known, clients, idleTimer, fresh, engine>>

TypeOK == /\ EngineTypeOK
          /\ phase \in {"serve", "closing", "exited"}
          /\ conn \in [Sessions -> {"none", "hello", "open", "shut"}]
          /\ peer \in [Sessions -> BOOLEAN] /\ known \in [Sessions -> BOOLEAN]
          /\ clients \subseteq Sessions /\ idleTimer \in BOOLEAN /\ fresh \in BOOLEAN

Init == /\ EngineInit
        /\ phase = "serve" /\ conn = [c \in Sessions |-> "none"]
        /\ peer = [c \in Sessions |-> TRUE] /\ known = [c \in Sessions |-> FALSE]
        /\ clients = {} /\ idleTimer = TRUE /\ fresh = TRUE

Live(c) == conn[c] \in {"hello", "open"}
Set(c, s) == conn' = [conn EXCEPT ![c] = s]

-----------------------------------------------------------------------------
Connect(c) == /\ phase = "serve" /\ conn[c] = "none" /\ Set(c, "hello")
              /\ UNCHANGED <<phase, peer, known, clients, idleTimer, fresh, engine>>

(* readClientHello() resolves: with the hello, with another first line or by *)
(* its timeout.  The session is counted, also by a daemon that is stopping.  *)
Attach(c, told) == /\ conn[c] = "hello" /\ Set(c, "open")
                   /\ told => peer[c]
                   /\ known' = [known EXCEPT ![c] = told]
                   /\ clients' = clients \cup {c} /\ idleTimer' = FALSE
                   /\ UNCHANGED <<phase, peer, fresh, engine>>

(* It resolves because the socket closed: the session is counted all the      *)
(* same, and its onClose comes too late to hear of it.                       *)
AttachClosed(c) == /\ conn[c] = "hello" /\ Set(c, "shut")
                   /\ clients' = clients \cup {c} /\ idleTimer' = FALSE
                   /\ UNCHANGED <<phase, peer, known, fresh, engine>>

(* Mutant: the idle timer is armed by start() only. *)
DropForgetful(c) == clients' = clients \ {c} /\ UNCHANGED idleTimer

(* dropClient() *)
Drop(c) == /\ clients' = clients \ {c}
           /\ idleTimer' = (idleTimer \/ (c \in clients /\ clients = {c} /\ phase = "serve"))

SocketClose(c) == /\ conn[c] = "open" /\ Set(c, "shut") /\ Drop(c)
                  /\ UNCHANGED <<phase, peer, known, fresh, engine>>

(* The peer is gone and no close arrives (#692). *)
PeerDies(c) == /\ Live(c) /\ peer[c] /\ peer' = [peer EXCEPT ![c] = FALSE]
               /\ UNCHANGED <<phase, conn, known, clients, idleTimer, fresh, engine>>

(* reapDeadClients() *)
Reap(c) == /\ phase = "serve" /\ c \in clients /\ known[c] /\ ~peer[c]
           /\ Set(c, "shut") /\ Drop(c)
           /\ UNCHANGED <<phase, peer, known, fresh, engine>>

-----------------------------------------------------------------------------
(* stop(): the sessions are ended and forgotten, the timers cleared. *)
Stop == /\ phase = "serve" /\ phase' = "closing"
        /\ conn' = [c \in Sessions |-> IF c \in clients THEN "shut" ELSE conn[c]]
        /\ clients' = {} /\ idleTimer' = FALSE
        /\ UNCHANGED <<peer, known, fresh>>

IdleTimerFires == /\ idleTimer
                  /\ IF clients = {}
                     THEN Stop
                     ELSE UNCHANGED <<phase, conn, peer, known, clients, idleTimer, fresh>>
                  /\ UNCHANGED engine

(* Mutant: sessions whose socket is gone do not count. *)
BackstopCounted == /\ phase = "serve" /\ \E c \in clients : conn[c] = "open"
                   /\ IF fresh
                      THEN fresh' = FALSE /\ UNCHANGED <<phase, conn, peer, known, clients, idleTimer>>
                      ELSE Stop
                   /\ UNCHANGED engine

(* The inactivity backstop leaves a daemon without clients to the idle timer. *)
Backstop == /\ phase = "serve" /\ clients # {}
            /\ IF fresh
               THEN fresh' = FALSE /\ UNCHANGED <<phase, conn, peer, known, clients, idleTimer>>
               ELSE Stop
            /\ UNCHANGED engine

Signal == Stop /\ UNCHANGED engine

(* Mutant: the engine is stopped before the server has closed. *)
ExitUnwaited == /\ phase = "closing" /\ ~closed /\ EngineStop
                /\ UNCHANGED <<phase, conn, peer, known, clients, idleTimer, fresh>>

(* server.close() resolves when the last socket has closed. *)
Exit == /\ phase = "closing" /\ \A c \in Sessions : ~Live(c)
        /\ phase' = "exited" /\ EngineStop
        /\ UNCHANGED <<conn, peer, known, clients, idleTimer, fresh>>

-----------------------------------------------------------------------------
(* A session hears its client while the socket is open; a call it has begun  *)
(* goes on without it.                                                       *)
Hear(c) == /\ conn[c] = "open" /\ peer[c] /\ fresh' = TRUE
           /\ Initialize(c) \/ AskEarly(c) \/ (ses[c] = "ready" /\ Ask(c))
           /\ UNCHANGED <<phase, conn, peer, known, clients, idleTimer>>

GoOn(c) == /\ ses[c] = "resumed" /\ Ask(c)
           /\ UNCHANGED <<phase, conn, peer, known, clients, idleTimer, fresh>>
Proceed(c) == /\ GateOpens(c) \/ GateTimesOut(c) \/ Answer(c)
              /\ UNCHANGED <<phase, conn, peer, known, clients, idleTimer, fresh>>
Open == /\ OpenDone \/ OpenFails
        /\ UNCHANGED <<phase, conn, peer, known, clients, idleTimer, fresh>>
Sync == /\ \E i \in Instances : SyncEnds(i)
        /\ UNCHANGED <<phase, conn, peer, known, clients, idleTimer, fresh>>

Lifecycle == \/ \E c \in Sessions : \/ Connect(c) \/ Attach(c, TRUE) \/ Attach(c, FALSE) \/ AttachClosed(c)
                                    \/ SocketClose(c) \/ PeerDies(c) \/ Reap(c)
             \/ IdleTimerFires \/ Backstop \/ Signal \/ Exit

Next == /\ phase # "exited"
        /\ \/ \E c \in Sessions : GoOn(c)
           \/ Settled /\ (Lifecycle \/ Open \/ Sync \/ \E c \in Sessions : Hear(c) \/ Proceed(c))

Spec == Init /\ [][Next]_vars

(* Timers fire, handlers run and an open ends; a catch-up sync may take for  *)
(* ever, and a client need not send anything or leave.                       *)
Fairness == /\ WF_vars(phase # "exited" /\ Settled /\ IdleTimerFires)
            /\ WF_vars(Settled /\ Backstop) /\ WF_vars(Settled /\ Exit)
            /\ WF_vars(phase # "exited" /\ Settled /\ Open)
            /\ \A c \in Sessions : /\ WF_vars(phase # "exited" /\ GoOn(c))
                                   /\ WF_vars(phase # "exited" /\ Settled /\ Proceed(c))
                                   /\ WF_vars(phase # "exited" /\ Settled /\ (Attach(c, TRUE) \/ Attach(c, FALSE) \/ AttachClosed(c)))
                                   /\ WF_vars(Settled /\ Reap(c))

LiveSpec == Spec /\ Fairness

-----------------------------------------------------------------------------
(* A daemon that counts no client always has its idle timer running, however *)
(* its clients went: closed, reaped, never attached.                         *)
IdleTimerRuns == phase = "serve" /\ clients = {} => idleTimer

(* A daemon whose peers are all gone stops or gets a new client, even with    *)
(* sessions that nobody will ever close: ones whose socket closed before the *)
(* hello was read, and ones whose peer died without a close.                 *)
Deserted == phase = "serve" /\ \A c \in Sessions : Live(c) => ~peer[c]
DesertedDaemonStops == Deserted ~> ~Deserted

(* A session whose socket is open is served from an open index, also by a     *)
(* daemon that is stopping.                                                  *)
NoCallOnClosedIndex ==
  \A c \in Sessions : conn[c] = "open" /\ ses[c] = "running" /\ at[c] # 0 => at[c] \in open

(* No call is served from an index whose catch-up is still running unless a  *)
(* call has waited at its gate: nobody slips past an open.  (A second open    *)
(* beside the first has calls of the first wait at the wrong gate.)          *)
CallsPassTheGate ==
  ~doubled => \A s \in Sessions : ses[s] = "running" /\ at[s] # 0 => at[s] \in synced \cup passed

(* A call gets its answer though its catch-up never ends and though the open  *)
(* it waits for fails.                                                       *)
CallsAnswered == \A s \in Sessions :
  ses[s] \in {"asked", "resumed", "gated", "running"} ~> (ses[s] = "ready" \/ phase = "exited")

(* A daemon with a session to serve has an index open for it, and one that  *)
(* counts no client has its timer running.                                  *)
ClientsAreServed == TypeOK /\ NoCallOnClosedIndex /\ IdleTimerRuns
=============================================================================
