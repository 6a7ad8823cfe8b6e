------------------------------- MODULE Links -------------------------------
(***************************************************************************)
(* The edges of the graph: how a use of a name in one file comes to point  *)
(* at a symbol of another, and what becomes of the edge when either file is *)
(* indexed again.  storeExtractionResult() and sync() of                   *)
(* src/extraction/index.ts, the resolution passes of src/resolution/index.ts *)
(* and src/index.ts, and the statements of src/db/queries.ts they run.     *)
(*                                                                         *)
(* SyncReconcile says which files an operation stores; here it stores those *)
(* whose content differs.  The matching heuristics are any choice among    *)
(* the symbols with the name, or none.                                     *)
(***************************************************************************)
EXTENDS Naturals, FiniteSets, FiniteSetsExt

CONSTANTS
  Files, Names, Lines,
  Versions,   \* what each file may hold: a set of contents
  Gone,       \* the content of a file that is not there, or not recorded
  NoSymbol,   \* what the resolver returns for a use it cannot place
  Aliased,    \* names a resolver renames: the delete by key misses the row
  Late,       \* names only the second pass can place (inherited members)
  BatchSize,
  MaxEdits    \* bound: writes of files

Symbols  == Files \X Names \X Lines     \* the row's id: sha256(file:kind:name:line)
Uses     == Files \X Names
Contents == [defs : SUBSET (Names \X Lines), uses : SUBSET Names]

ASSUME LinksAssumption ==
  /\ IsFiniteSet(Files) /\ IsFiniteSet(Names) /\ Lines \subseteq Nat /\ IsFiniteSet(Lines)
  /\ Gone \notin Contents /\ Versions \in [Files -> SUBSET (Contents \cup {Gone})]
  /\ NoSymbol \notin Symbols
  /\ BatchSize \in Nat \ {0} /\ MaxEdits \in Nat

VARIABLES
  disk,      \* what each file holds
  record,    \* the content each file's row was made from, or Gone
  symbols,   \* table nodes
  edges,     \* table edges: [use, target]
  pending,   \* table unresolved_refs: uses
  phase,     \* what the operation does next, see Phases
  toStore,   \* files to store
  scope,     \* changedFilePaths
  left,      \* prevRemaining of the batch loop
  deferred,  \* deferredChainRefs and deferredThisMemberRefs
  outcome,   \* of resolveAll(): the rows it resolved and those it did not
  edits,
  (* history *)
  missed,    \* uses the resolver refused, or whose symbol went away
  torn,      \* files whose replacement was cut short
  unswept    \* uses whose resolution was cut between its edge and its row

tables  == <<record, symbols, edges, pending>>
local   == <<toStore, scope, left, deferred, outcome>>
history == <<missed, torn, unswept>>
vars    == <<disk, tables, phase, local, edits, history>>

Edges == [use : Uses, target : Symbols]
OutcomeType == [resolved : SUBSET Uses, unresolved : SUBSET Uses]
NoOutcome == [resolved |-> {}, unresolved |-> {}]
(* Files are stored (sync, bulk); rows read, resolved and their edges put in *)
(* (resolve, batch); rows deleted (resolved, placed; swept); second pass.   *)
Phases == {"idle", "sync", "bulk", "resolve", "resolved", "batch", "placed", "swept", "second"}
Unbounded == Cardinality(Uses) + 1       \* Number.POSITIVE_INFINITY

TypeOK == /\ disk \in [Files -> Contents \cup {Gone}]
          /\ record \in [Files -> Contents \cup {Gone}]
          /\ symbols \subseteq Symbols /\ edges \subseteq Edges /\ pending \subseteq Uses
          /\ phase \in Phases /\ toStore \subseteq Files /\ scope \subseteq Files
          /\ left \in Nat /\ deferred \subseteq Uses /\ outcome \in OutcomeType /\ edits \in 0..MaxEdits
          /\ missed \subseteq Uses /\ torn \subseteq Files /\ unswept \subseteq Uses

Init == /\ disk \in {d \in [Files -> Contents \cup {Gone}] : \A f \in Files : d[f] \in Versions[f]}
        /\ record = [f \in Files |-> Gone]
        /\ symbols = {} /\ edges = {} /\ pending = {}
        /\ phase = "idle" /\ toStore = {} /\ scope = {} /\ left = 0 /\ deferred = {}
        /\ outcome = NoOutcome /\ edits = 0 /\ missed = {} /\ torn = {} /\ unswept = {}

Recorded(f) == record[f] # Gone
SymbolsIn(F) == {s \in symbols : s[1] \in F}
UsesIn(F)    == {u \in Uses : u[1] \in F}
SymbolsOf(f, c) == {<<f, d[1], d[2]>> : d \in c.defs}
UsesOf(f, c)    == {<<f, n>> : n \in c.uses}

Write(f, c) == /\ edits < MaxEdits /\ c # disk[f]
               /\ disk' = [disk EXCEPT ![f] = c] /\ edits' = edits + 1
               /\ UNCHANGED <<tables, phase, local, history>>

-----------------------------------------------------------------------------
(* The tables' foreign keys: edges go with either end. *)
Without(E, F, dropped) == {e \in E : e.use[1] \notin F /\ e.target \notin dropped}

(* sync(): the files that are gone are deleted, those that differ listed.  *)
(* A sync that only removes resolves nothing.                              *)
SyncBegin ==
  LET gone    == {f \in Files : Recorded(f) /\ disk[f] = Gone}
      changed == {f \in Files : disk[f] # Gone /\ disk[f] # record[f]}
  IN /\ phase = "idle"
     /\ record' = [f \in Files |-> IF f \in gone THEN Gone ELSE record[f]]
     /\ symbols' = symbols \ SymbolsIn(gone)
     /\ edges' = Without(edges, gone, SymbolsIn(gone))
     /\ pending' = pending \ UsesIn(gone)
     /\ missed' = (missed \cup {e.use : e \in edges \ edges'}) \ UsesIn(gone)
     /\ torn' = torn \ gone /\ unswept' = unswept \ UsesIn(gone)
     /\ toStore' = changed /\ scope' = changed
     /\ phase' = IF changed = {} THEN "idle" ELSE "sync"
     /\ UNCHANGED <<disk, left, deferred, outcome, edits>>

(* indexAll(): every file there is; a run that indexes none resolves none. *)
BulkBegin == LET present == {f \in Files : disk[f] # Gone}
             IN /\ phase = "idle" /\ present # {}
                /\ toStore' = present /\ scope' = {} /\ phase' = "bulk"
                /\ left' = Unbounded
                /\ UNCHANGED <<disk, tables, deferred, outcome, edits, history>>

(* A file that has gone, or whose content is the recorded one *)
StoreSame(f) == /\ phase \in {"sync", "bulk"} /\ f \in toStore
                /\ disk[f] \in {Gone, record[f]}
                /\ toStore' = toStore \ {f}
                /\ UNCHANGED <<disk, tables, phase, scope, left, deferred, outcome, edits, history>>

(* Edges into f from other files, if f is on record, by what they point at *)
Incoming(f) ==
  IF Recorded(f) THEN {e \in edges : e.target[1] = f /\ e.use[1] # f} ELSE {}

NewestShifted(f, c, n) == <<f, n, Max({d[2] : d \in {x \in c.defs : x[1] = n}}) + 1>>

(* newNodesByKindName: of several symbols of one name the last one is kept *)
Newest(f, c, n) == <<f, n, Max({d[2] : d \in {x \in c.defs : x[1] = n}})>>

ReattachedByOldId(f, c) == Incoming(f)

ReattachedIfUnmoved(f, c) == {e \in Incoming(f) : e.target \in SymbolsOf(f, c)}

Reattached(f, c) == {[use |-> e.use, target |-> Newest(f, c, e.target[2])] :
                       e \in {i \in Incoming(f) : \E d \in c.defs : d[1] = i.target[2]}}

(* storeExtractionResult(), up to one of its transactions: delete, nodes,   *)
(* edges, references, record.  Rows of a file without a record are          *)
(* replaced where the new ones have their ids, and otherwise stay.          *)
Steps == [deleted |-> 1, nodes |-> 2, relinked |-> 3, refs |-> 4, done |-> 5]

StoreUpTo(f, step) ==
  LET c        == disk[f]
      fresh    == IF step >= Steps.nodes THEN SymbolsOf(f, c) ELSE {}
      dropped  == IF Recorded(f) THEN SymbolsIn({f}) ELSE fresh
      relinked == IF step >= Steps.relinked THEN Reattached(f, c) ELSE {}
      others   == IF Recorded(f) THEN pending \ UsesIn({f}) ELSE pending
  IN /\ symbols' = (symbols \ dropped) \cup fresh
     /\ edges' = Without(edges, {f}, dropped) \cup relinked
     /\ pending' = others \cup IF step >= Steps.refs THEN UsesOf(f, c) ELSE {}
     /\ record' = [record EXCEPT ![f] = IF step = Steps.done THEN c ELSE Gone]

(* Uses whose symbol a replacement takes away for good *)
Severed(f, c) ==
  {e.use : e \in {x \in edges : x.target[1] = f
                     /\ (Recorded(f) => \A d \in c.defs : d[1] # x.target[2])}}

Store(f) == /\ phase \in {"sync", "bulk"} /\ f \in toStore
            /\ disk[f] \notin {Gone, record[f]}
            /\ StoreUpTo(f, Steps.done)
            /\ missed' = (missed \cup Severed(f, disk[f])) \ UsesIn({f})
            /\ toStore' = toStore \ {f} /\ torn' = IF Recorded(f) THEN torn \ {f} ELSE torn
            /\ unswept' = unswept \ UsesIn({f})
            /\ UNCHANGED <<disk, phase, scope, left, deferred, outcome, edits>>

(* The process dies within the replacement, or anywhere else. *)
Over == /\ phase' = "idle" /\ toStore' = {} /\ scope' = {} /\ left' = 0
        /\ deferred' = {} /\ outcome' = NoOutcome

Cut(f) == /\ phase \in {"sync", "bulk"} /\ f \in toStore
          /\ disk[f] \notin {Gone, record[f]}
          /\ \E step \in Steps.deleted..Steps.refs : StoreUpTo(f, step)
          /\ missed' = (missed \cup {e.use : e \in {x \in edges : x.target[1] = f}}) \ UsesIn({f})
          /\ torn' = torn \cup {f} /\ unswept' = unswept \ UsesIn({f})
          /\ Over /\ UNCHANGED <<disk, edits>>

(* Edges are in the database whose rows have not been deleted *)
Unfinished == IF phase \in {"resolved", "placed"} THEN outcome.resolved ELSE {}

Die == /\ phase # "idle" /\ Over /\ unswept' = unswept \cup Unfinished
       /\ UNCHANGED <<disk, tables, edits, missed, torn>>

-----------------------------------------------------------------------------
(* Resolution: each row becomes an edge or not                             *)

Candidates(u) == {s \in symbols : s[2] = u[2]}

(* What resolveOne() may return; it finds a match under another name if any *)
Places(u) == IF u[2] \in Late THEN {NoSymbol}
             ELSE IF u[2] \in Aliased /\ Candidates(u) # {} THEN Candidates(u)
             ELSE Candidates(u) \cup {NoSymbol}

Outcomes(rows) ==
  {r \in [rows -> Symbols \cup {NoSymbol}] : \A u \in rows : r[u] \in Places(u)}

Placed(r) == {u \in DOMAIN r : r[u] # NoSymbol}
Made(r)   == {[use |-> u, target |-> r[u]] : u \in Placed(r)}
Put(r)    == {u \in DOMAIN r \ Placed(r) : u[2] \in Late}

(* deleteSpecificResolvedReferences() *)
DeleteByNode(rows) == pending' = pending \ UsesIn({u[1] : u \in rows})

DeleteByKey(rows) == pending' = pending \ rows

AllStored == /\ phase \in {"sync", "bulk"} /\ toStore = {}
             /\ phase' = IF phase = "sync" THEN "resolve" ELSE "batch"
             /\ UNCHANGED <<disk, tables, local, edits, history>>

(* resolveAll(), whose edges are inserted: a transaction of its own *)
Insert(rows) ==
  \E r \in Outcomes(rows) :
    /\ edges' = edges \cup Made(r) /\ deferred' = deferred \cup Put(r)
    /\ outcome' = [resolved |-> Placed(r), unresolved |-> rows \ Placed(r)]

(* resolveAndPersist(), of a sync: the rows of the changed files; those that *)
(* stay unresolved are kept.                                               *)
Resolve ==
  /\ phase = "resolve" /\ phase' = "resolved"
  /\ Insert({u \in pending : u[1] \in scope})
  /\ UNCHANGED <<disk, record, symbols, pending, toStore, scope, left, edits, history>>

(* One pass of resolveAndPersistBatched(): rows are read from offset 0 *)
Batch ==
  /\ phase = "batch" /\ pending # {} /\ phase' = "placed"
  /\ \E B \in kSubset(Min({BatchSize, Cardinality(pending)}), pending) : Insert(B)
  /\ UNCHANGED <<disk, record, symbols, pending, toStore, scope, left, edits, history>>

(* The next transaction deletes the rows of the resolved, by the name in the *)
(* resolver's answer.  A sync then is through with its rows.               *)
AfterResolved ==
  IF phase = "resolved" THEN phase' = "second" /\ outcome' = NoOutcome
                        ELSE phase' = "swept" /\ UNCHANGED outcome

KeepResolved ==
  /\ phase \in {"resolved", "placed"} /\ AfterResolved
  /\ unswept' = unswept \ outcome.resolved
  /\ UNCHANGED <<disk, tables, toStore, scope, left, deferred, edits, missed, torn>>

DeleteResolved ==
  /\ phase \in {"resolved", "placed"} /\ AfterResolved
  /\ DeleteByKey({u \in outcome.resolved : u[2] \notin Aliased})
  /\ unswept' = unswept \ outcome.resolved
  /\ UNCHANGED <<disk, record, symbols, edges, toStore, scope, left, deferred, edits, missed, torn>>

(* The two tests that end the batch loop *)
NothingPlaced == outcome.resolved = {}
NoProgressUnseen == FALSE

NoProgress == Cardinality(pending') >= left

(* The third deletes those of the unresolved; the loop goes on, or not.     *)
DeleteUnresolved ==
  /\ phase = "swept"
  /\ DeleteByKey(outcome.unresolved) /\ missed' = missed \cup outcome.unresolved
  /\ IF NothingPlaced \/ NoProgress
     THEN phase' = "second" /\ UNCHANGED left
     ELSE phase' = "batch" /\ left' = Cardinality(pending')
  /\ outcome' = NoOutcome /\ unswept' = unswept \ outcome.unresolved
  /\ UNCHANGED <<disk, record, symbols, edges, toStore, scope, deferred, edits, torn>>

BatchesDone == /\ phase = "batch" /\ pending = {} /\ phase' = "second"
               /\ UNCHANGED <<disk, tables, local, edits, history>>

(* resolveChainedCallsViaConformance() and resolveDeferredThisMemberRefs(): *)
(* edges for deferred uses; their rows are not looked at again.            *)
SecondPass ==
  /\ phase = "second" /\ Over
  /\ \E r \in [deferred -> Symbols \cup {NoSymbol}] :
       /\ \A u \in deferred : r[u] \in Candidates(u) \cup {NoSymbol}
       /\ edges' = edges \cup Made(r)
  /\ UNCHANGED <<disk, record, symbols, pending, edits, history>>

Work == \/ \E f \in Files : StoreSame(f) \/ Store(f)
        \/ AllStored \/ Resolve \/ Batch \/ DeleteResolved \/ DeleteUnresolved
        \/ BatchesDone \/ SecondPass

Next == \/ \E f \in Files : Cut(f) \/ \E c \in Versions[f] : Write(f, c)
        \/ SyncBegin \/ BulkBegin \/ Work \/ Die

Spec == Init /\ [][Next]_vars

(* An operation under way goes on: nothing but its own statements and a    *)
(* setImmediate hold it up.                                                *)
LiveSpec == Spec /\ WF_vars(Work)

-----------------------------------------------------------------------------
Linked(u) == \E e \in edges : e.use = u

(* The callers shown for a symbol do use its name: every edge starts at a   *)
(* file whose indexed content has the use and ends at a symbol of the       *)
(* indexed content of its file, whatever was indexed again in between.     *)
EdgesAreBacked ==
  \A e \in edges :
    LET f == e.use[1]  g == e.target[1] IN
    /\ e.use[2] = e.target[2] /\ e.target \in symbols
    /\ f \in torn \/ (Recorded(f) /\ e.use[2] \in record[f].uses)
    /\ g \in torn \/ (Recorded(g) /\ e.target \in SymbolsOf(g, record[g]))

(* No use of the indexed content gets lost: it waits to be resolved, or has *)
(* its edge, or the resolver refused it, or its symbol went away.          *)
UsesAccounted ==
  \A f \in Files : Recorded(f) =>
    \A u \in UsesOf(f, record[f]) : u \in pending \/ Linked(u) \/ u \in missed

(* Between operations no row of unresolved_refs is of a use that has its    *)
(* edge, or the next full index would give it a second one (edges has no    *)
(* unique key).  The exceptions: rows the delete misses, rows the second    *)
(* pass served, files cut short, and a resolution that was cut after its    *)
(* edges -- until the next pass over the row, which has to delete it.       *)
ResolvedRowsAreGone ==
  phase = "idle" =>
    \A u \in pending : u[2] \in Aliased \cup Late \/ u[1] \in torn \/ u \in unswept \/ ~Linked(u)

(* extraction/index.ts:1753, issue #899: no step cuts the last edge of a    *)
(* use in an unchanged file to a name the other file goes on defining --    *)
(* unless the replacement is cut short.                                    *)
CallersKeepTheirEdges ==
  [][\A u \in Uses, g \in Files :
       /\ record'[u[1]] = record[u[1]] /\ Recorded(u[1]) /\ Recorded(g)
       /\ g \notin torn' /\ record'[g] # Gone
       /\ \E d \in record'[g].defs : d[1] = u[2]
       /\ \E e \in edges : e.use = u /\ e.target[1] = g
       => \E e \in edges' : e.use = u /\ e.target[1] = g]_vars

(* Indexing comes to its end: in particular the batch loop, which reads     *)
(* from offset 0 again and again, though a resolver's match misses its row. *)
OperationEnds == (phase # "idle") ~> (phase = "idle")

(* The tables are well formed and account for every use of the indexed      *)
(* content, once: none lost, none both an edge and a row unless cut short.  *)
RowsAccounted == TypeOK /\ UsesAccounted /\ ResolvedRowsAreGone
=============================================================================
