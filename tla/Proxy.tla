-------------------------------- MODULE Proxy --------------------------------
(***************************************************************************)
(* runLocalHandshakeProxy of src/mcp/proxy.ts: the process an MCP host      *)
(* talks to.  It answers the handshake itself, passes calls on to the       *)
(* shared daemon once that is reached (getDaemonSocket of src/mcp/index.ts) *)
(* and serves them in its own process when there is no daemon, or when the  *)
(* daemon is lost.                                                          *)
(***************************************************************************)
EXTENDS Naturals, Sequences, FiniteSets, SequencesExt

CONSTANTS
  Initialize,  \* the host's first message
  Calls,       \* tools/call requests
  Probes,      \* requests with an immediate answer: ping, unknown methods
  Locals,      \* requests the proxy always answers: tools/list, prompts/list, ...
  Notes,       \* notifications
  MaxPolls     \* DAEMON_CONNECT_MAX_RETRIES

Requests == {Initialize} \cup Calls \cup Probes \cup Locals
Messages == Requests \cup Notes

ASSUME ProxyAssumption ==
  /\ MaxPolls \in Nat \ {0}
  /\ Initialize \notin Calls \cup Probes \cup Locals \cup Notes
  /\ Calls \cap Probes = {} /\ (Calls \cup Probes) \cap Locals = {}
  /\ Notes \cap (Calls \cup Probes \cup Locals) = {}

VARIABLES
  said,      \* what the host has written, in order
  answers,   \* replies written to the host, per message
  status,    \* daemonStatus
  polls,     \* attempts to reach a daemon
  gaveUp,    \* getDaemonSocket resolved without a socket
  link,      \* the socket; dead until its close or error event has run
  pending,   \* lines buffered until the daemon resolves
  inflight,  \* calls and probes sent to the daemon and not answered
  drain,     \* buffered lines the fallback works off one at a time
  serving,   \* handleLocally() calls that await the engine
  daemon,    \* the daemon process: down, coming, up or other (a version not ours)
  wire,      \* lines on their way to the daemon's session
  working,   \* calls that session works on
  back,      \* its replies on their way to the proxy
  up         \* the proxy has not exited

vars == <<said, answers, status, polls, gaveUp, link, pending, inflight, drain,
          serving, daemon, wire, working, back, up>>

reach  == <<polls, gaveUp, daemon>>
remote == <<wire, working>>

TypeOK == /\ said \in Seq(Messages) /\ answers \in [Messages -> Nat]
          /\ status \in {"connecting", "ready", "failed"}
          /\ polls \in 0..(MaxPolls + 1) /\ gaveUp \in BOOLEAN
          /\ link \in {"none", "open", "dead"}
          /\ pending \in Seq(Messages) /\ drain \in Seq(Messages)
          /\ inflight \subseteq Calls \cup Probes /\ serving \subseteq Calls
          /\ daemon \in {"down", "coming", "up", "other"}
          /\ wire \in Seq(Messages) /\ working \subseteq Calls
          /\ back \in Seq(Requests) /\ up \in BOOLEAN

Init == /\ said = <<>> /\ answers = [m \in Messages |-> 0]
        /\ status = "connecting" /\ polls = 0 /\ gaveUp = FALSE /\ link = "none"
        /\ pending = <<>> /\ inflight = {} /\ drain = <<>> /\ serving = {}
        /\ daemon \in {"down", "up", "other"}
        /\ wire = <<>> /\ working = {} /\ back = <<>> /\ up = TRUE

-----------------------------------------------------------------------------
(* trackInflight(): initialize is answered here, notifications need nothing *)
TrackedAll(ms) == ms \cap (Calls \cup Probes \cup {Initialize})

Tracked(ms) == ms \cap (Calls \cup Probes)

(* handleLocally() on messages ms, while the host gets `extra` answers of   *)
(* another kind: calls wait for the engine, the rest is answered at once.   *)
HandleLocally(ms, extra) ==
  /\ serving' = serving \cup (ms \cap Calls)
  /\ answers' = [m \in Messages |-> IF m \in (ms \cap Probes) \cup extra
                                    THEN answers[m] + 1 ELSE answers[m]]

RouteToDaemonEarly(m, extra) ==
  IF status = "failed" THEN HandleLocally({m}, extra) /\ UNCHANGED <<inflight, wire, pending>>
  ELSE /\ IF link = "open" THEN wire' = Append(wire, m) /\ UNCHANGED pending
                           ELSE pending' = Append(pending, m) /\ UNCHANGED wire
       /\ inflight' = IF link = "open" THEN inflight \cup Tracked({m}) ELSE inflight
       /\ HandleLocally({}, extra)

(* routeToDaemon().  A write to a dead socket goes nowhere. *)
RouteToDaemon(m, extra) ==
  CASE status = "ready" ->
         /\ inflight' = inflight \cup Tracked({m})
         /\ wire' = IF link = "open" THEN Append(wire, m) ELSE wire
         /\ HandleLocally({}, extra) /\ UNCHANGED pending
    [] status = "failed" ->
         /\ HandleLocally({m}, extra) /\ UNCHANGED <<inflight, wire, pending>>
    [] status = "connecting" ->
         /\ pending' = Append(pending, m)
         /\ HandleLocally({}, extra) /\ UNCHANGED <<inflight, wire>>

(* The host writes a line: initialize first, each message once. *)
Say(m) ==
  /\ up /\ m \notin ToSet(said) /\ (m = Initialize <=> said = <<>>)
  /\ said' = Append(said, m)
  /\ IF m \in Locals
     THEN HandleLocally({}, {m}) /\ UNCHANGED <<inflight, wire, pending>>
     ELSE RouteToDaemon(m, {m} \cap {Initialize})
  /\ UNCHANGED <<status, polls, gaveUp, link, drain, daemon, working, back, up>>

(* The awaits of a call handled in this process are over. *)
LocalDone(m) ==
  /\ up /\ m \in serving
  /\ serving' = serving \ {m}
  /\ answers' = [answers EXCEPT ![m] = @ + 1]
  /\ drain' = IF drain # <<>> /\ Head(drain) = m THEN Tail(drain) ELSE drain
  /\ UNCHANGED <<said, status, reach, link, pending, inflight, remote, back, up>>

-----------------------------------------------------------------------------
(* getDaemonSocket(): probe, spawn a daemon if there is none, then poll.    *)

Searching == up /\ status = "connecting" /\ link = "none" /\ ~gaveUp

Reached == /\ Searching /\ daemon = "up" /\ link' = "open"
           /\ UNCHANGED reach

(* A daemon of another version is definitive. *)
WrongVersion == /\ Searching /\ daemon = "other" /\ gaveUp' = TRUE
                /\ UNCHANGED <<link, polls, daemon>>

(* Refused, closed before the hello, or no hello in time *)
Unreached == /\ Searching
             /\ polls' = polls + 1
             /\ IF polls = 0
                THEN \/ daemon' = (IF daemon = "down" THEN "coming" ELSE daemon) /\ UNCHANGED gaveUp
                     \/ gaveUp' = TRUE /\ UNCHANGED daemon          \* spawn throws
                ELSE gaveUp' = (polls = MaxPolls) /\ UNCHANGED daemon
             /\ UNCHANGED link

Probe == /\ Reached \/ WrongVersion \/ Unreached
         /\ UNCHANGED <<said, answers, status, pending, inflight, drain, serving, remote, back, up>>

AttachUntracked ==
  /\ up /\ status = "connecting" /\ link = "open"
  /\ status' = "ready" /\ wire' = wire \o pending /\ pending' = <<>>
  /\ UNCHANGED <<said, answers, reach, link, inflight, drain, serving, working, back, up>>

(* The socket is there: send what was buffered. *)
Attach ==
  /\ up /\ status = "connecting" /\ link = "open"
  /\ status' = "ready"
  /\ inflight' = inflight \cup Tracked(ToSet(pending))
  /\ wire' = wire \o pending /\ pending' = <<>>
  /\ UNCHANGED <<said, answers, reach, link, drain, serving, working, back, up>>

(* No daemon, or a socket that died before anybody listened to it *)
GoInProcess ==
  /\ up /\ status = "connecting" /\ (gaveUp \/ link = "dead")
  /\ status' = "failed" /\ link' = "none"
  /\ drain' = pending /\ pending' = <<>>
  /\ UNCHANGED <<said, answers, reach, inflight, serving, remote, back, up>>

(* for (line of buffered) await handleLocally(line) *)
DrainOne ==
  /\ up /\ drain # <<>> /\ Head(drain) \notin serving
  /\ HandleLocally({Head(drain)}, {})
  /\ drain' = IF Head(drain) \in Calls THEN drain ELSE Tail(drain)
  /\ UNCHANGED <<said, status, reach, link, pending, inflight, remote, back, up>>

ReadReplyTracked ==
  /\ up /\ status = "ready" /\ link \in {"open", "dead"} /\ back # <<>>
  /\ back' = Tail(back)
  /\ answers' = IF Head(back) = Initialize THEN answers
                ELSE [answers EXCEPT ![Head(back)] = @ + 1]
  /\ UNCHANGED <<said, status, reach, link, pending, inflight, drain, serving, remote, up>>

ReadReplyVerbatim ==
  /\ up /\ status = "ready" /\ link \in {"open", "dead"} /\ back # <<>>
  /\ back' = Tail(back)
  /\ inflight' = inflight \ {Head(back)}
  /\ answers' = [answers EXCEPT ![Head(back)] = @ + 1]
  /\ UNCHANGED <<said, status, reach, link, pending, drain, serving, remote, up>>

(* A line of the daemon.  Its reply to initialize is not passed on. *)
ReadReply ==
  /\ up /\ status = "ready" /\ link \in {"open", "dead"} /\ back # <<>>
  /\ back' = Tail(back)
  /\ inflight' = inflight \ {Head(back)}
  /\ answers' = IF Head(back) = Initialize THEN answers
                ELSE [answers EXCEPT ![Head(back)] = @ + 1]
  /\ UNCHANGED <<said, status, reach, link, pending, drain, serving, remote, up>>

DaemonLostForgetful ==
  /\ up /\ status = "ready" /\ link = "dead"
  /\ status' = "failed" /\ link' = "none" /\ back' = <<>>
  /\ UNCHANGED <<said, answers, reach, pending, inflight, drain, serving, remote, up>>

(* onDaemonLost(): the rest of the socket is discarded and every request   *)
(* without an answer is served here.                                       *)
DaemonLost ==
  /\ up /\ status = "ready" /\ link = "dead"
  /\ status' = "failed" /\ link' = "none" /\ back' = <<>>
  /\ HandleLocally(inflight, {}) /\ inflight' = {}
  /\ UNCHANGED <<said, reach, pending, drain, remote, up>>

(* stdin ends or fails, or the parent is gone *)
Shutdown == /\ up /\ up' = FALSE
            /\ UNCHANGED <<said, answers, status, reach, link, pending, inflight,
                           drain, serving, remote, back>>

-----------------------------------------------------------------------------
(* The daemon's session (src/mcp/session.ts, src/mcp/transport.ts): lines   *)
(* are taken in order, calls are answered in any order.                     *)

Hear == /\ up /\ link = "open" /\ wire # <<>>
        /\ wire' = Tail(wire)
        /\ working' = working \cup ({Head(wire)} \cap Calls)
        /\ back' = IF Head(wire) \in Calls \cup Notes THEN back ELSE Append(back, Head(wire))
        /\ UNCHANGED <<said, answers, status, reach, link, pending, inflight, drain, serving, up>>

Work(m) == /\ up /\ link = "open" /\ m \in working
           /\ working' = working \ {m} /\ back' = Append(back, m)
           /\ UNCHANGED <<said, answers, status, reach, link, pending, inflight, drain, serving, wire, up>>

(* A spawned daemon, or another session's, binds its socket. *)
DaemonStarts == /\ up /\ daemon \in {"down", "coming"} /\ status = "connecting"
                /\ daemon' \in {"up", "other"}
                /\ UNCHANGED <<said, answers, status, polls, gaveUp, link, pending, inflight,
                               drain, serving, remote, back, up>>

(* The daemon stops or is killed, or only the connection breaks: what it   *)
(* has not sent is lost, and of what it has sent a prefix arrives.         *)
Break == /\ up /\ daemon = "up" /\ (link = "open" \/ status = "connecting")
         /\ daemon' \in IF link = "open" THEN {"up", "down"} ELSE {"down"}
         /\ link' = IF link = "open" THEN "dead" ELSE link
         /\ wire' = <<>> /\ working' = {}
         /\ \E n \in 0..Len(back) : back' = SubSeq(back, 1, n)
         /\ UNCHANGED <<said, answers, status, polls, gaveUp, pending, inflight, drain, serving, up>>

Own == \/ Probe \/ Attach \/ GoInProcess \/ DrainOne \/ ReadReply \/ DaemonLost
       \/ \E m \in Calls : LocalDone(m)

Session == Hear \/ \E m \in Calls : Work(m)

Next == \/ Own \/ Session \/ DaemonStarts \/ Break \/ Shutdown
        \/ \E m \in Messages : Say(m)

Spec == Init /\ [][Next]_vars

(* The event loop of the proxy runs; a session takes its lines and ends     *)
(* each call, or its connection breaks (a wedged daemon kills itself).      *)
LiveSpec == Spec /\ WF_vars(Probe) /\ WF_vars(Attach \/ GoInProcess) /\ WF_vars(DrainOne)
                 /\ WF_vars(ReadReply) /\ WF_vars(DaemonLost)
                 /\ WF_vars(Hear) /\ \A m \in Calls : WF_vars(LocalDone(m)) /\ WF_vars(Work(m))

-----------------------------------------------------------------------------
Unanswered == {m \in ToSet(said) \cap (Calls \cup Probes) : answers[m] = 0}

(* A request reaches the host's ears once, wherever it was served: here, by *)
(* the daemon, or here again after the daemon died with or without having    *)
(* answered it.  Notifications get no reply.                                 *)
OneReplyEach == \A m \in Messages : answers[m] <= IF m \in Requests THEN 1 ELSE 0

(* Each unanswered request is in one place only, from which its reply will  *)
(* come: buffered, sent to a daemon that still has the line or its reply, or *)
(* under way in this process.  What is answered is nowhere.                  *)
Places(m) == {p \in {"pending", "drain", "inflight", "serving"} :
                CASE p = "pending"  -> m \in ToSet(pending)
                  [] p = "drain"    -> m \in ToSet(drain) /\ ~(drain[1] = m /\ m \in serving)
                  [] p = "inflight" -> m \in inflight
                  [] p = "serving"  -> m \in serving}

EveryRequestInHand ==
  up => /\ \A m \in Calls \cup Probes : Cardinality(Places(m)) = IF m \in Unanswered THEN 1 ELSE 0
        /\ link # "dead" => ToSet(wire) \cap (Calls \cup Probes) \subseteq inflight
        /\ link = "open" => inflight \subseteq ToSet(wire) \cup working \cup ToSet(back)

(* The daemon gets the lines in the order the host wrote them, initialize   *)
(* first, although some were buffered and some were sent at once.            *)
LinesInOrder ==
  LET lines == wire \o pending
      Said(m) == CHOOSE k \in DOMAIN said : said[k] = m
  IN \A i, j \in DOMAIN lines : i < j => Said(lines[i]) < Said(lines[j])

Promise == INSTANCE ReplyPromise WITH asked <- ToSet(said), replies <- answers

(* The host sees no more of all this than requests and their one reply.      *)
KeepsReplyPromise == Promise!Spec

(* A broken or missing daemon never leaves a request without an answer.      *)
EveryRequestAnswered ==
  \A m \in Requests : m \in ToSet(said) ~> answers[m] = 1 \/ ~up

(* No request is dropped, answered twice or overtaken: the place it is in,   *)
(* or its one reply, whatever becomes of the daemon.                         *)
RequestsAccounted == TypeOK /\ OneReplyEach /\ EveryRequestInHand /\ LinesInOrder
=============================================================================
