---------------------------- MODULE RecordStore -----------------------------
(***************************************************************************)
(* The record requests of application/record_service.go on the rows of     *)
(* infrastructure/repository/record_repository_dynamic.go: UpdateRecord,   *)
(* CreateRecord, BatchUpdateRecords, DeleteRecord and BatchDeleteRecords,  *)
(* with the read-through cache of cached_repository.go, the recalculation  *)
(* of computed fields (calculation_service.go) and the link titles written *)
(* after the commit (link_title_update_service.go).                        *)
(*                                                                         *)
(* The lookups run on the connection pool, outside of the transaction that *)
(* saves; the database is read committed, locks the rows a transaction has *)
(* written, and breaks deadlocks.  The data of a row is the set of the     *)
(* requests whose change it contains, so that a change overwritten by a    *)
(* stale copy is seen.                                                     *)
(***************************************************************************)
EXTENDS Naturals, Sequences, FiniteSets

CONSTANTS
  Requests,     \* the requests, each served by a goroutine of its own
  Recs,         \* the records
  Fresh,        \* those that do not exist at first (CreateRecord's new ids)
  Linked,       \* record -> records with a link cell that points to it
  Kinds,        \* the kinds of request, of those of AllKinds
  Bumps,        \* {1}: no change affects a computed field, 2: it may
  FieldKeys,    \* how batch items name their fields: "id", "name"
  Cached,       \* the container wired CachedRecordRepository
  Connections,  \* database.max_open_conns
  MaxItems,     \* bound: the records of a batch
  Absent        \* "no row"

AllKinds == {"create", "update", "batchUpdate", "delete", "batchDelete"}
TxKinds == {"create", "update", "batchUpdate", "delete"}
Batches == {"batchUpdate", "batchDelete"}

ASSUME RecordAssumption ==
  /\ Fresh \subseteq Recs
  /\ Linked \in [Recs -> SUBSET Recs]
  /\ Kinds \subseteq AllKinds
  /\ Bumps \subseteq {1, 2}
  /\ FieldKeys \subseteq {"id", "name"}
  /\ Cached \in BOOLEAN
  /\ Connections \in Nat
  /\ MaxItems \in Nat \ {0}

\* title: the content of the linked record that this row's link cell shows.
Row == [version : Nat, applied : SUBSET Requests, title : SUBSET Requests]

\* No row, with or without its title.
ASSUME AbsentAssumption ==
  /\ Absent \notin Row
  /\ Absent \notin [version : Nat, applied : SUBSET Requests]

\* What a cached *Record decodes to: its fields are unexported.
Blank == [version |-> 0, applied |-> {}, title |-> {}]

Request ==
  [kind : AllKinds, items : Seq(Recs), expected : Nat, bump : {1, 2},
   key : {"id", "name"}]

\* A record saved by a request, as its callbacks remember it.
Saved == [rec : Recs, version : Nat, applied : SUBSET Requests]

VARIABLES
  rows,       \* the committed rows
  cache,      \* the records with a live entry record:ids:<table>:<id>
  pc,         \* where a request is
  req,        \* what was asked
  item,       \* index of the item in hand
  read,       \* the row the lookup returned
  mem,        \* the entity in memory, after Update
  insert,     \* Save counted no row and will insert
  written,    \* rows written, and locked, by the open transaction
  aborted,    \* the database refuses further statements of the transaction
  good,       \* the items saved, in order
  todo,       \* the callbacks left, one element per saved record
  title,      \* the title a callback is about to write
  announced   \* events published: [rec, version, by]

reqVars == <<req, item, read, mem, insert>>
txVars == <<written, aborted, good>>
afterVars == <<todo, title, announced>>
vars == <<rows, cache, pc, reqVars, txVars, afterVars>>

Active == {"find", "count", "write", "remove", "end", "after", "titles", "retitle"}

TypeOK ==
  /\ rows \in [Recs -> Row \union {Absent}]
  /\ cache \subseteq Recs
  /\ pc \in [Requests -> Active \union {"idle", "ok", "err", "unknown", "crashed"}]
  /\ req \in [Requests -> Request]
  /\ item \in [Requests -> Nat]
  /\ read \in [Requests -> Row]
  /\ mem \in [Requests -> Row]
  /\ insert \in [Requests -> BOOLEAN]
  /\ written \in [Requests -> [Recs -> Row \union {Absent}]]
  /\ aborted \in [Requests -> BOOLEAN]
  /\ good \in [Requests -> Seq(Saved)]
  /\ todo \in [Requests -> Seq(Saved)]
  /\ title \in [Requests -> SUBSET Requests]
  /\ announced \subseteq [rec : Recs, version : Nat, by : Requests]

NoRows == [r \in Recs |-> Absent]

NoRequest ==
  [kind |-> "update", items |-> << >>, expected |-> 0, bump |-> 1, key |-> "id"]

Init ==
  /\ rows = [r \in Recs |->
               IF r \in Fresh THEN Absent
                              ELSE [version |-> 1, applied |-> {}, title |-> {}]]
  /\ cache = {}
  /\ pc = [q \in Requests |-> "idle"]
  /\ req = [q \in Requests |-> NoRequest]
  /\ item = [q \in Requests |-> 1]
  /\ read = [q \in Requests |-> Blank]
  /\ mem = [q \in Requests |-> Blank]
  /\ insert = [q \in Requests |-> FALSE]
  /\ written = [q \in Requests |-> NoRows]
  /\ aborted = [q \in Requests |-> FALSE]
  /\ good = [q \in Requests |-> << >>]
  /\ todo = [q \in Requests |-> << >>]
  /\ title = [q \in Requests |-> {}]
  /\ announced = {}

-----------------------------------------------------------------------------
(* The connection pool: an open transaction keeps one connection; lookups, *)
(* deletes and titles take another one for the time of a statement.        *)

InTx(q) ==
  /\ req[q].kind \in TxKinds
  /\ pc[q] \in {"find", "count", "write", "remove", "end"}

FreeConnection == Cardinality({q \in Requests : InTx(q)}) < Connections

LockedByOther(q, r) == \E p \in Requests \ {q} : written[p][r] # Absent

-----------------------------------------------------------------------------
(* Requests *)

\* What a client can ask for now.  It names records it has seen, with a
\* version it has seen; a created record gets an id nobody has used.
Asks(q, k) ==
  IF k = "create"
    THEN {[kind |-> k, items |-> <<r>>, expected |-> 0, bump |-> b, key |-> "id"] :
            r \in {f \in Fresh : \A p \in Requests :
                                   req[p].kind = "create" => req[p].items # <<f>>},
            b \in Bumps}
    ELSE LET known == {r \in Recs : r \in Fresh => rows[r] # Absent}
             lists == IF k \in Batches
                        THEN UNION {[1 .. n -> known] : n \in 1 .. MaxItems}
                        ELSE [{1} -> known]
             seen(r) == IF k = "update" /\ rows[r] # Absent
                          THEN 0 .. rows[r].version ELSE {0}
             keys == IF k = "batchUpdate" THEN FieldKeys ELSE {"id"}
             bumps == IF k = "update" THEN Bumps ELSE {1}
         IN  UNION {{[kind |-> k, items |-> s, expected |-> e, bump |-> b, key |-> n] :
                       e \in seen(s[1]), b \in bumps, n \in keys} : s \in lists}

\* The handler opens the transaction, if the request has one.  DeleteRecord
\* takes the repository for an uncached one and panics when it is not.
Begin(q) ==
  /\ pc[q] = "idle"
  /\ \E k \in Kinds : \E a \in Asks(q, k) :
       /\ k \in TxKinds => FreeConnection
       /\ req' = [req EXCEPT ![q] = a]
       /\ mem' = [mem EXCEPT ![q] =
                    IF k = "create" THEN [version |-> a.bump, applied |-> {q}, title |-> {}]
                                    ELSE @]
       /\ pc' = [pc EXCEPT ![q] =
                   IF k = "create" THEN "count"
                   ELSE IF k = "delete" /\ Cached THEN "err" ELSE "find"]
  /\ UNCHANGED <<rows, cache, item, read, insert, txVars, afterVars>>

Current(q) == req[q].items[item[q]]

\* A batch goes on with its next item, whatever became of this one.
NextItem(q) ==
  IF item[q] < Len(req[q].items)
    THEN /\ item' = [item EXCEPT ![q] = @ + 1]
         /\ pc' = [pc EXCEPT ![q] = "find"]
    ELSE /\ pc' = [pc EXCEPT ![q] = "end"]
         /\ UNCHANGED item

\* Seeded fault: a batch tries a failed item again.
RetriesItem(q) ==
  /\ pc' = [pc EXCEPT ![q] = IF req[q].kind \in Batches THEN "find" ELSE "err"]
  /\ UNCHANGED item

\* A failed item ends a single request, which rolls back: it wrote nothing.
ItemFails(q) ==
  IF req[q].kind \in Batches
    THEN NextItem(q)
    ELSE pc' = [pc EXCEPT ![q] = "err"] /\ UNCHANGED item

\* Seeded fault: the client's version is compared the other way round.
ConflictsBackwards(q, row) ==
  req[q].kind = "update" /\ req[q].expected > 0 /\ row.version < req[q].expected

\* The optimistic lock on the client's version (HasChangedSince).
Conflicts(q, row) ==
  req[q].kind = "update" /\ req[q].expected > 0 /\ row.version > req[q].expected

\* Update merges the change into the copy and increments the version; when a
\* computed field is affected, CalculateAffectedFields does so once more.  A
\* batch item keyed by field names merges under keys that Save drops.
Changed(q, row) ==
  [version |-> row.version + req[q].bump,
   applied |-> IF req[q].key = "id" THEN row.applied \union {q} ELSE row.applied,
   title   |-> row.title]

\* The lookup returned row: check the version, change the entity in memory.
Modify(q, row) ==
  /\ read' = [read EXCEPT ![q] = row]
  /\ IF Conflicts(q, row)
       THEN /\ ItemFails(q)
            /\ UNCHANGED mem
       ELSE /\ mem' = [mem EXCEPT ![q] = Changed(q, row)]
            /\ pc' = [pc EXCEPT ![q] = "count"]
            /\ UNCHANGED item

Updates(q) == pc[q] = "find" /\ req[q].kind \in {"update", "batchUpdate"}

\* FindByIDs answers from the cache: a blank record.
FindCached(q) ==
  /\ Updates(q)
  /\ Current(q) \in cache
  /\ Modify(q, Blank)
  /\ UNCHANGED <<rows, cache, req, insert, txVars, afterVars>>

\* FindByIDs reads the committed row and leaves an entry in the cache.
FindRow(q) ==
  /\ Updates(q)
  /\ Current(q) \notin cache
  /\ FreeConnection
  /\ rows[Current(q)] # Absent
  /\ Modify(q, rows[Current(q)])
  /\ cache' = IF Cached THEN cache \union {Current(q)} ELSE cache
  /\ UNCHANGED <<rows, req, insert, txVars, afterVars>>

\* No row: an empty list is never served from the cache.
FindMissing(q) ==
  /\ pc[q] = "find"
  /\ req[q].kind \in {"update", "batchUpdate"} => Current(q) \notin cache
  /\ FreeConnection
  /\ rows[Current(q)] = Absent
  /\ ItemFails(q)
  /\ UNCHANGED <<rows, cache, req, read, mem, insert, txVars, afterVars>>

CacheExpires(r) ==
  /\ r \in cache
  /\ cache' = cache \ {r}
  /\ UNCHANGED <<rows, pc, reqVars, txVars, afterVars>>

-----------------------------------------------------------------------------
(* Save, in the transaction *)

\* The row a statement of q sees: its own write, or the committed one.
Sees(q, r) == IF written[q][r] # Absent THEN written[q][r] ELSE rows[r]

\* Save counts the row to choose between INSERT and UPDATE.  A blank record
\* has no table, and Save fails; so does any statement after a deadlock.
Count(q) ==
  /\ pc[q] = "count"
  /\ IF aborted[q] \/ (req[q].kind # "create" /\ read[q] = Blank)
       THEN ItemFails(q) /\ UNCHANGED insert
       ELSE /\ insert' = [insert EXCEPT ![q] = Sees(q, Current(q)) = Absent]
            /\ pc' = [pc EXCEPT ![q] = "write"]
            /\ UNCHANGED item
  /\ UNCHANGED <<rows, cache, req, read, mem, txVars, afterVars>>

\* Seeded fault: the UPDATE does not check the version.
MatchesAny(q, row) ==
  IF insert[q] THEN row = Absent ELSE row # Absent

\* UPDATE ... WHERE __id = ? AND __version = version - 1, or INSERT.
Matches(q, row) ==
  IF insert[q] THEN row = Absent
               ELSE row # Absent /\ row.version = mem[q].version - 1

SavedRecord(q) ==
  [rec |-> Current(q), version |-> mem[q].version, applied |-> mem[q].applied]

\* Seeded fault: Save writes on the pool and not in the transaction.
WriteOutside(q) ==
  /\ pc[q] = "write"
  /\ ~ LockedByOther(q, Current(q))
  /\ Matches(q, Sees(q, Current(q)))
  /\ rows' = [rows EXCEPT ![Current(q)] = mem[q]]
  /\ good' = [good EXCEPT ![q] = Append(@, SavedRecord(q))]
  /\ NextItem(q)
  /\ UNCHANGED <<cache, req, read, mem, insert, written, aborted, afterVars>>

Write(q) ==
  /\ pc[q] = "write"
  /\ ~ LockedByOther(q, Current(q))
  /\ Matches(q, Sees(q, Current(q)))
  /\ written' = [written EXCEPT ![q][Current(q)] = mem[q]]
  /\ good' = [good EXCEPT ![q] = Append(@, SavedRecord(q))]
  /\ NextItem(q)
  /\ UNCHANGED <<rows, cache, req, read, mem, insert, aborted, afterVars>>

\* ErrConflict, or the unique constraint, which aborts the transaction.
WriteConflict(q) ==
  /\ pc[q] = "write"
  /\ ~ LockedByOther(q, Current(q))
  /\ ~ Matches(q, Sees(q, Current(q)))
  /\ ItemFails(q)
  /\ aborted' = [aborted EXCEPT ![q] = @ \/ insert[q]]
  /\ UNCHANGED <<rows, cache, req, read, mem, insert, written, good, afterVars>>

\* Requests that wait, in a cycle, for rows the others have written.
InCycle(q) ==
  \E S \in SUBSET {p \in Requests : pc[p] = "write"} :
    /\ q \in S
    /\ \A p \in S : \E o \in S \ {p} : written[o][Current(p)] # Absent
    /\ \A o \in S : \E p \in S \ {o} : written[o][Current(p)] # Absent

\* The database breaks the deadlock: q's statement fails, its rows are free.
DeadlockVictim(q) ==
  /\ InCycle(q)
  /\ aborted' = [aborted EXCEPT ![q] = TRUE]
  /\ written' = [written EXCEPT ![q] = NoRows]
  /\ ItemFails(q)
  /\ UNCHANGED <<rows, cache, req, read, mem, insert, good, afterVars>>

-----------------------------------------------------------------------------
(* Delete, on a connection of its own *)

\* Seeded fault: a missing row is not noticed.
FindToDeleteUnchecked(q) ==
  /\ pc[q] = "find"
  /\ req[q].kind \in {"delete", "batchDelete"}
  /\ FreeConnection
  /\ read' = [read EXCEPT ![q] = rows[Current(q)]]
  /\ pc' = [pc EXCEPT ![q] = "remove"]
  /\ UNCHANGED <<rows, cache, req, item, mem, insert, txVars, afterVars>>

FindToDelete(q) ==
  /\ pc[q] = "find"
  /\ req[q].kind \in {"delete", "batchDelete"}
  /\ FreeConnection
  /\ rows[Current(q)] # Absent
  /\ read' = [read EXCEPT ![q] = rows[Current(q)]]
  /\ pc' = [pc EXCEPT ![q] = "remove"]
  /\ UNCHANGED <<rows, cache, req, item, mem, insert, txVars, afterVars>>

\* DELETE ... WHERE __id = ?, committed at once.
Remove(q) ==
  /\ pc[q] = "remove"
  /\ FreeConnection
  /\ ~ LockedByOther(q, Current(q))
  /\ rows' = [rows EXCEPT ![Current(q)] = Absent]
  /\ good' = [good EXCEPT ![q] =
                Append(@, [rec |-> Current(q), version |-> read[q].version,
                           applied |-> read[q].applied])]
  /\ NextItem(q)
  /\ UNCHANGED <<cache, req, read, mem, insert, written, aborted, afterVars>>

-----------------------------------------------------------------------------
(* The end of the transaction *)

Committed(q) ==
  [r \in Recs |-> IF written[q][r] # Absent THEN written[q][r] ELSE rows[r]]

Commit(q) ==
  /\ pc[q] = "end"
  /\ good[q] # << >>
  /\ ~ aborted[q]
  /\ req[q].kind \in TxKinds
  /\ rows' = Committed(q)
  /\ written' = [written EXCEPT ![q] = NoRows]
  /\ todo' = [todo EXCEPT ![q] = good[q]]
  /\ pc' = [pc EXCEPT ![q] = "after"]
  /\ UNCHANGED <<cache, reqVars, aborted, good, title, announced>>

\* Seeded fault: an error is returned and the transaction left open.
LeavesOpen(q) ==
  /\ pc[q] = "end"
  /\ req[q].kind \in TxKinds
  /\ pc' = [pc EXCEPT ![q] = "err"]
  /\ UNCHANGED <<rows, cache, reqVars, txVars, afterVars>>

\* Nothing saved, a transaction the database has aborted, a refused commit.
Rollback(q) ==
  /\ pc[q] = "end"
  /\ req[q].kind \in TxKinds
  /\ written' = [written EXCEPT ![q] = NoRows]
  /\ pc' = [pc EXCEPT ![q] = "err"]
  /\ UNCHANGED <<rows, cache, reqVars, aborted, good, afterVars>>

\* The connection breaks: the database has committed, and nobody knows.
CommitUnanswered(q) ==
  /\ pc[q] = "end"
  /\ good[q] # << >>
  /\ ~ aborted[q]
  /\ req[q].kind \in TxKinds
  /\ rows' = Committed(q)
  /\ written' = [written EXCEPT ![q] = NoRows]
  /\ pc' = [pc EXCEPT ![q] = "unknown"]
  /\ UNCHANGED <<cache, reqVars, aborted, good, afterVars>>

AnswerBatchDelete(q) ==
  /\ pc[q] = "end"
  /\ req[q].kind = "batchDelete"
  /\ pc' = [pc EXCEPT ![q] = "ok"]
  /\ UNCHANGED <<rows, cache, reqVars, txVars, afterVars>>

-----------------------------------------------------------------------------
(* The callbacks, after the commit *)

Callback(q) == pc[q] = "after" /\ todo[q] # << >>

\* publishRecordEvent with what q has saved: only UpdateRecord gives its event
\* a NewVersion, that of a create or a delete is published as 0.
Event(q, saved) ==
  [rec |-> saved.rec, by |-> q,
   version |-> IF req[q].kind \in {"create", "delete"} THEN 0 ELSE saved.version]

\* The record event is published; UpdateRecord then updates the titles.
Announce(q) ==
  /\ Callback(q)
  /\ req[q].kind # "batchUpdate"
  /\ announced' = announced \union {Event(q, Head(todo[q]))}
  /\ IF req[q].kind = "update"
       THEN pc' = [pc EXCEPT ![q] = "titles"] /\ UNCHANGED todo
       ELSE todo' = [todo EXCEPT ![q] = Tail(@)] /\ UNCHANGED pc
  /\ UNCHANGED <<rows, cache, reqVars, txVars, title>>

\* UpdateRecord's callback reads the record again, BatchUpdateRecords' takes
\* the entity it saved.
ReadTitle(q) ==
  /\ \/ pc[q] = "titles"
     \/ Callback(q) /\ req[q].kind = "batchUpdate"
  /\ FreeConnection
  /\ LET saved == Head(todo[q])
     IN  title' = [title EXCEPT ![q] =
           IF pc[q] = "titles" /\ rows[saved.rec] # Absent
             THEN rows[saved.rec].applied ELSE saved.applied]
  /\ pc' = [pc EXCEPT ![q] = "retitle"]
  /\ UNCHANGED <<rows, cache, reqVars, txVars, todo, announced>>

\* BatchUpdateLinkFieldTitle: one statement sets the title in all the rows
\* that link to the record, and leaves their versions alone.
Retitle(q) ==
  LET targets == {t \in Linked[Head(todo[q]).rec] : rows[t] # Absent}
  IN  /\ pc[q] = "retitle"
      /\ FreeConnection
      /\ \A t \in targets : ~ LockedByOther(q, t)
      /\ rows' = [t \in Recs |-> IF t \in targets
                                   THEN [rows[t] EXCEPT !.title = title[q]]
                                   ELSE rows[t]]
      /\ todo' = [todo EXCEPT ![q] = Tail(@)]
      /\ pc' = [pc EXCEPT ![q] = "after"]
      /\ UNCHANGED <<cache, reqVars, txVars, title, announced>>

AnswerOk(q) ==
  /\ pc[q] = "after"
  /\ todo[q] = << >>
  /\ pc' = [pc EXCEPT ![q] = "ok"]
  /\ UNCHANGED <<rows, cache, reqVars, txVars, afterVars>>

\* The process dies: transactions roll back, callbacks are lost.
Crash ==
  /\ \E q \in Requests : pc[q] \in Active
  /\ pc' = [q \in Requests |-> IF pc[q] \in Active THEN "crashed" ELSE pc[q]]
  /\ written' = [q \in Requests |-> NoRows]
  /\ UNCHANGED <<rows, cache, reqVars, aborted, good, afterVars>>

-----------------------------------------------------------------------------
Lookup(q) == FindCached(q) \/ FindRow(q) \/ FindMissing(q) \/ FindToDelete(q)

Statement(q) ==
  Count(q) \/ Write(q) \/ WriteConflict(q) \/ DeadlockVictim(q) \/ Remove(q)

End(q) ==
  Commit(q) \/ Rollback(q) \/ CommitUnanswered(q) \/ AnswerBatchDelete(q)

After(q) == Announce(q) \/ ReadTitle(q) \/ Retitle(q) \/ AnswerOk(q)

Step(q) == Lookup(q) \/ Statement(q) \/ End(q) \/ After(q)

Next ==
  \/ \E q \in Requests : Begin(q) \/ Step(q)
  \/ \E r \in Recs : CacheExpires(r)
  \/ Crash

Spec == Init /\ [][Next]_vars

\* The goroutine of a request keeps running; a waiting statement is served.
Fairness == \A q \in Requests : WF_vars(Step(q))

FairSpec == Spec /\ Fairness

-----------------------------------------------------------------------------
(* Properties *)

\* Where nothing of a request has been committed.
Uncommitted == {"idle", "find", "count", "write", "remove", "end", "err"}

\* The change of a request that has not committed, or has failed, is in no row
\* and in no title: copies of rows and titles, which travel outside of the
\* transactions, carry committed data only.
UncommittedUnseen ==
  \A q \in Requests :
    pc[q] \in Uncommitted =>
      \A r \in Recs :
        rows[r] # Absent => q \notin rows[r].applied \union rows[r].title

Past == {"after", "titles", "retitle", "ok"}

\* Optimistic locking (Save's WHERE __version = ?): the change of a request
\* that has committed stays in the row, whoever saves a copy of the row later.
NoLostUpdate ==
  \A q \in Requests :
    pc[q] \in Past =>
      \A k \in DOMAIN good[q] :
        LET r == good[q][k].rec
        IN  rows[r] # Absent /\ q \in rows[r].applied

\* An update that names a version replaces a row of that very version, though
\* the version is compared when the row is read and the row saved later.
ClientVersionRespected ==
  [][\A q \in Requests :
       (/\ req[q].expected > 0
        /\ pc[q] = "end"
        /\ pc'[q] = "after"
        /\ rows[Current(q)] # Absent)
       => rows[Current(q)].version = req[q].expected]_vars

\* While no record is deleted, two requests never publish an event with the
\* same version for a record (0 for its creation, the version it has saved for
\* an update), however their callbacks are delayed: a client that follows the
\* events can order them by version.
AnnouncedVersionsDiffer ==
  \A a, b \in announced :
    a.rec = b.rec /\ a.version = b.version => a.by = b.by

\* A batch that failed has changed no row; one whose commit was not answered
\* may have changed all those it had saved.
BatchAllOrNothing ==
  \A q \in Requests :
    pc[q] \in {"err", "unknown"} /\ req[q].kind = "batchUpdate" =>
      LET changed == {r \in Recs : rows[r] # Absent /\ q \in rows[r].applied}
      IN  \/ changed = {}
          \/ /\ pc[q] = "unknown"
             /\ \A k \in DOMAIN good[q] :
                  good[q][k].rec \in changed \/ rows[good[q][k].rec] = Absent

\* Every request is answered: deadlocks among batches are broken, and with a
\* connection more than requests nobody waits for a connection for ever.
Terminates ==
  \A q \in Requests : pc[q] \in Active ~> pc[q] \in {"ok", "err", "unknown", "crashed"}

\* Every row the next statement of q writes is to be free of other locks.
AwaitsRows(q) ==
  \/ pc[q] \in {"write", "remove"} /\ LockedByOther(q, Current(q))
  \/ /\ pc[q] = "retitle"
     /\ \E t \in Linked[Head(todo[q]).rec] : rows[t] # Absent /\ LockedByOther(q, t)

\* Only connections can run out: while one is free and a request is open, some
\* request can go on, or is one the database has to fail.  The locks the others
\* wait for belong to open transactions, and neither deletes nor titles, which
\* wait for them outside of a transaction, hold any.
NeverStuck ==
  FreeConnection /\ (\E q \in Requests : pc[q] \in Active) =>
    \E q \in Requests : pc[q] \in Active /\ (~ AwaitsRows(q) \/ InCycle(q))

\* The steps left to q, at most: three for an item that is saved and three for
\* its callback, and the end between them.
StepsLeft == [q \in Requests |->
  LET n == Len(req[q].items)
      later == 3 * n + 2 + 4 * (n - item[q])
      l == Len(todo[q])
  IN  CASE pc[q] = "find" -> later + 3
        [] pc[q] \in {"count", "remove"} -> later + 2
        [] pc[q] = "write" -> later + 1
        [] pc[q] = "end" -> 3 * n + 2
        [] pc[q] = "after" -> 3 * l + 1
        [] pc[q] = "titles" -> 3 * l
        [] pc[q] = "retitle" -> 3 * l - 1
        [] OTHER -> 0]

\* No step of a request is for nothing: whatever fails, conflicts or is broken
\* off, each step brings its answer nearer, and nothing puts it off.
StepsRunOut ==
  [][\A q \in Requests :
       pc[q] \in Active =>
         /\ StepsLeft'[q] \in 0 .. StepsLeft[q]
         /\ Step(q) => StepsLeft'[q] < StepsLeft[q]]_vars

\* Optimistic locking, as the documents describe it: the row an update replaces
\* is the row it has read, nobody having changed or deleted it in between.
ReplacesWhatWasRead ==
  [][\A q \in Requests :
       (/\ req[q].kind = "update"
        /\ pc[q] = "end"
        /\ pc'[q] = "after")
       => LET row == rows[Current(q)]
          IN  /\ row # Absent
              /\ row.version = read[q].version
              /\ row.applied = read[q].applied]_vars

\* The comment of UpdateLinkTitlesForRecord: when a record is updated, the
\* titles of all the link cells that refer to it are.
TitlesFollow ==
  (\A q \in Requests : pc[q] \in {"idle", "ok"}) =>
    \A r \in Recs : \A t \in Linked[r] :
      rows[r] # Absent /\ rows[t] # Absent => rows[t].title = rows[r].applied

\* The rows without their titles are a table with optimistic locking.
Table == INSTANCE VersionedTable WITH
  table <- [r \in Recs |->
              IF rows[r] = Absent THEN Absent
              ELSE [version |-> rows[r].version, applied |-> rows[r].applied]],
  told <- {q \in Requests : pc[q] = "ok"}

ImplementsVersionedTable == Table!Spec
=============================================================================
