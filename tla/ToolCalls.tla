----------------------------- MODULE ToolCalls -----------------------------
(***************************************************************************)
(* A read tool of src/mcp/tools.ts over an index that the watcher keeps:   *)
(* execute() awaits the reading of rows, in-process or in a thread of the  *)
(* query pool, while edits, events and syncs go on, and only then looks at *)
(* the state of the watcher to decide what to warn of.                     *)
(*                                                                         *)
(* Each connection keeps the nodes it has looked up by id (nodeCache of    *)
(* src/db/queries.ts) and drops those that it writes itself.  Calls do not *)
(* touch the index, and connections meet in it alone: one connection and   *)
(* one call at a time are enough.  A file stands for one of its nodes.     *)
(***************************************************************************)
EXTENDS Watcher, FiniteSets

CONSTANT CacheSize   \* maxCacheSize

ASSUME CacheAssumption == CacheSize \in Nat \ {0}

VARIABLES
  thread,   \* whose connection it is: the watcher's, which is "main", or a worker's
  cache,    \* its nodeCache; what drives a node out is not told apart from age
  aged,     \* [file, writer] of cached nodes whose row was replaced since, by
            \* the connection itself or by another
  reading,  \* execute() awaits executeReadTool() or queryPool.run()
  cited,    \* the files whose rows are in the result so far
  old,      \* those of them that are not on disk as the result shows them
  passed    \* those of them that no notice can know of: the index caught up with
            \* them since, or another connection had aged them in the cache

call  == <<reading, cited, old, passed>>
kept  == <<thread, cache, aged>>
every == <<vars, kept, call>>

AgedIn(c)    == {a \in aged : a[1] \in c}
AgedBy(f, W) == \E w \in W : <<f, w>> \in aged
Self  == "self"
Other == "other"

(* cacheNode(): a full cache makes room *)
Cached(f) == IF f \in cache \/ Cardinality(cache) < CacheSize
             THEN {cache \cup {f}}
             ELSE {(cache \ {g}) \cup {f} : g \in cache}

\* the files of formatStaleBanner, all of them under formatDegradedBanner;
\* each mutant is a notice that trusts too much: entries a sync is said to
\* absorb, or the empty pendingFiles of a watcher that gave up
WarnedNotIndexing == IF degraded THEN Files ELSE {f \in Files : pending[f] = "after" \/ (pending[f] # "no" /\ ~syncing)}
WarnedPending     == {f \in Files : pending[f] # "no"}
Warned            == IF degraded THEN Files ELSE {f \in Files : pending[f] # "no"}

CallBegins == /\ ~reading /\ reading' = TRUE
              /\ UNCHANGED <<cited, old, passed, kept, vars>>

\* getNodeById, getNodesByIds: the node in the cache, or else the row
CallLooksUp(f) ==
  /\ reading /\ f \notin cited
  /\ cited' = cited \cup {f}
  /\ old' = IF f \in stale \/ AgedBy(f, {Self, Other}) THEN old \cup {f} ELSE old
  /\ passed' = IF AgedBy(f, {Other}) THEN passed \cup {f} ELSE passed
  /\ cache' \in Cached(f) /\ aged' = AgedIn(cache')
  /\ UNCHANGED <<reading, thread, vars>>

\* any other query: rows by name, by file or by text
CallQueries(f) == /\ reading /\ f \notin cited
                  /\ cited' = cited \cup {f} /\ old' = old \cup ({f} \cap stale)
                  /\ UNCHANGED <<reading, passed, kept, vars>>

\* withStalenessNotice, of the files in Warned; a call that fails shows no
\* row, like one that has read nothing
CallAnswers == /\ reading /\ reading' = FALSE
               /\ cited' = {} /\ old' = {} /\ passed' = {} /\ UNCHANGED <<kept, vars>>

\* another thread for one that died; a call it had begins anew
Respawn == /\ thread = "worker" /\ cache' = {} /\ aged' = {}
           /\ cited' = {} /\ old' = {} /\ passed' = {}
           /\ UNCHANGED <<reading, thread, vars>>

-----------------------------------------------------------------------------
(* The files whose rows a step of the watcher's world replaces, and who may  *)
(* do that: the watcher's sync has the main connection, another sync one of  *)
(* its own, or the main one if it is the catch-up of the engine.             *)
Rewritten == (stale \ stale') \cup {f \in stale : progress[f] = "dirty" /\ progress'[f] = "done"}
Writers   == {IF thread = "main" THEN Self ELSE Other} \cup
             (IF progress' = progress THEN {Other} ELSE {})

\* insertNode, updateNode, deleteNodesByFile: a connection forgets what it
\* replaces; a mutant keeps what is not gone for good
ForgetNone(fs) == cache
Forget(fs)     == cache \ fs

Replace(w) == /\ cache' = IF w = Self THEN Forget(Rewritten) ELSE cache
              /\ aged' = AgedIn(cache') \cup ((Rewritten \cap cache') \X {w})

\* whatever else happens; an edit makes what was read of the file old
Elsewhere == /\ Next
             /\ \E w \in Writers : Replace(w)
             /\ old' = old \cup (cited \cap (stale' \ stale))
             /\ passed' = passed \cup (old \cap (stale \ stale'))
             /\ UNCHANGED <<thread, reading, cited>>

ToolInit == /\ Init /\ thread \in {"main", "worker"} /\ cache = {} /\ aged = {}
            /\ reading = FALSE /\ cited = {} /\ old = {} /\ passed = {}
ToolNext == \/ CallBegins \/ CallAnswers \/ Respawn \/ Elsewhere
            \/ \E f \in Files : CallLooksUp(f) \/ CallQueries(f)

ToolSpec == ToolInit /\ [][ToolNext]_every

-----------------------------------------------------------------------------
(* An answer that shows a file as it no longer is says so, whatever went on  *)
(* between its reads and the notice (tools.ts:1216-1219).  It does not of a  *)
(* file whose event has yet to arrive, one the watcher does not answer for,  *)
(* one that the index caught up with after it was read (the notice is taken  *)
(* from the state after the reads), and one whose node was in the cache of a *)
(* connection when another connection replaced it.  What the connection      *)
(* replaced itself it never serves again.                                    *)
AnswersWarn ==
  [][CallAnswers => \A f \in old \ (Warned \cup passed) :
       ~degraded /\ (Active => f \in events \/ f \in excused)]_every
=============================================================================
