----------------------- MODULE RecordStoreRefinement ------------------------
(***************************************************************************)
(* For any number of requests and records: while nobody deletes a record   *)
(* (KeepsRows), no version is announced twice; when, besides, no change is *)
(* recalculated, batches are all or nothing and a version a client names   *)
(* is respected; and when batches name fields by their ids too             *)
(* (SavesOnly), RecordStore implements VersionedTable, the table that      *)
(* optimistic locking promises.                                            *)
(***************************************************************************)
EXTENDS RecordStoreProofs

\* Where a request calls its callbacks.
Calling == {"after", "titles", "retitle"}

\* The announcements made, and those the callbacks left will make.
Owed(q) ==
  IF pc[q] \in Calling
    THEN {Event(q, todo[q][k]) : k \in DOMAIN todo[q]}
    ELSE {}

Claims == announced \union UNION {Owed(q) : q \in Requests}

\* A request stays what it is once it has begun.
LEMMA RequestKept ==
  ASSUME LInv, [Next]_vars, NEW p \in Requests
  PROVE  \/ pc[p] # "idle" /\ pc'[p] # "idle" /\ req'[p] = req[p]
         \/ pc[p] = "idle" /\ pc'[p] = "idle" /\ req'[p] = req[p]
         \/ Begin(p)
<1> USE DEF LInv, TInv, TypeOK, reqVars, txVars, afterVars
<1>1. ASSUME NEW q \in Requests, Begin(q), q # p
      PROVE  req'[p] = req[p] /\ pc'[p] = pc[p]
  BY <1>1 DEF Begin
<1>2. ASSUME NEW q \in Requests, Lookup(q)
      PROVE  /\ req' = req /\ pc[q] # "idle" /\ pc'[q] # "idle"
             /\ q # p => pc'[p] = pc[p]
  BY <1>2 DEF Lookup, FindCached, FindRow, FindMissing, FindToDelete, Modify, ItemFails,
              NextItem, Updates
<1>3. ASSUME NEW q \in Requests, Statement(q)
      PROVE  /\ req' = req /\ pc[q] # "idle" /\ pc'[q] # "idle"
             /\ q # p => pc'[p] = pc[p]
  <2>1. CASE Count(q) \/ WriteConflict(q) \/ DeadlockVictim(q)
    <3>1. pc[q] \in {"count", "write"}
      BY <2>1 DEF Count, WriteConflict, DeadlockVictim, InCycle
    <3>2. req' = req /\ pc'[q] # "idle" /\ (q # p => pc'[p] = pc[p])
      BY <2>1 DEF Count, WriteConflict, DeadlockVictim, ItemFails, NextItem
    <3> QED
      BY <3>1, <3>2
  <2>2. CASE Write(q) \/ Remove(q)
    BY <2>2 DEF Write, Remove, NextItem
  <2> QED
    BY <1>3, <2>1, <2>2 DEF Statement
<1>4. ASSUME NEW q \in Requests, End(q)
      PROVE  /\ req' = req /\ pc[q] # "idle" /\ pc'[q] # "idle"
             /\ q # p => pc'[p] = pc[p]
  BY <1>4 DEF End, Commit, Rollback, CommitUnanswered, AnswerBatchDelete
<1>5. ASSUME NEW q \in Requests, After(q)
      PROVE  /\ req' = req /\ pc[q] # "idle" /\ pc'[q] # "idle"
             /\ q # p => pc'[p] = pc[p]
  BY <1>5 DEF After, Announce, Callback, ReadTitle, Retitle, AnswerOk, InRange
<1>6. CASE Crash
  BY <1>6 DEF Crash, Active
<1>7. ASSUME NEW r \in Recs, CacheExpires(r)
      PROVE  req' = req /\ pc' = pc
  BY <1>7 DEF CacheExpires
<1>8. CASE UNCHANGED vars
  BY <1>8 DEF vars
<1> QED
  BY <1>1, <1>2, <1>3, <1>4, <1>5, <1>6, <1>7, <1>8 DEF Next, Step

\* A step that commits nothing and announces nothing new; the answer to a
\* request may be one.
Silent ==
  /\ SameRows
  /\ \A q \in Requests : pc'[q] \in Past => pc[q] \in Past /\ good'[q] = good[q]
  /\ \A q \in Requests : pc[q] = "ok" => pc'[q] = "ok"
  /\ \A q \in Requests : pc'[q] = "ok" => pc[q] = "ok" \/ AnswerOk(q)
  /\ Claims' \subseteq Claims

\* Nobody begins to call callbacks, none is added.
LEMMA ClaimsKept ==
  ASSUME UNCHANGED <<announced, todo>>,
         \A q \in Requests :
           pc'[q] \in Calling => pc[q] \in Calling /\ req'[q] = req[q]
  PROVE  Claims' \subseteq Claims
BY DEF Claims, Owed, Event

\* A step of q before the end of its transaction.
LEMMA EarlyIsSilent ==
  ASSUME TInv, NEW q \in Requests, pc[q] \in Uncommitted, rows' = rows,
         UNCHANGED <<announced, todo>>,
         pc'[q] \in {"find", "count", "write", "end", "err"},
         \A p \in Requests \ {q} :
           pc'[p] = pc[p] /\ good'[p] = good[p] /\ req'[p] = req[p]
  PROVE  Silent
<1>1. Claims' \subseteq Claims
  BY ClaimsKept DEF Calling
<1> QED
  BY <1>1 DEF Silent, SameRows, Uncommitted, Past

LEMMA LookupIsSilent ==
  ASSUME KeepsRows, LInv, NEW q \in Requests, Begin(q) \/ Lookup(q)
  PROVE  Silent
<1> USE DEF TInv, TypeOK, txVars, afterVars
<1>1. TInv /\ InvAt(q)
  BY DEF LInv
<1>2. CASE Begin(q)
  <2>1. PICK k \in Kinds :
          pc' = [pc EXCEPT ![q] = IF k = "create" THEN "count"
                                  ELSE IF k = "delete" /\ Cached THEN "err" ELSE "find"]
    BY <1>2 DEF Begin
  <2>2. pc'[q] \in {"find", "count", "err"} /\ \A p \in Requests \ {q} : pc'[p] = pc[p]
    BY <1>1, <2>1
  <2> QED
    BY <1>1, <1>2, <2>2, EarlyIsSilent DEF Begin, Uncommitted
<1>3. CASE FindCached(q) \/ FindRow(q)
  <2>1. PICK row : Modify(q, row)
    BY <1>3 DEF FindCached, FindRow
  <2>2. /\ pc'[q] \in {"find", "count", "end", "err"}
        /\ \A p \in Requests \ {q} : pc'[p] = pc[p]
    BY <1>1, <2>1 DEF Modify, ItemFails, NextItem
  <2> QED
    BY <1>1, <1>3, <2>2, EarlyIsSilent DEF FindCached, FindRow, Updates, Uncommitted
<1>4. CASE FindMissing(q)
  <2>1. /\ pc'[q] \in {"find", "end", "err"}
        /\ \A p \in Requests \ {q} : pc'[p] = pc[p]
    BY <1>1, <1>4 DEF FindMissing, ItemFails, NextItem
  <2> QED
    BY <1>1, <1>4, <2>1, EarlyIsSilent DEF FindMissing, Uncommitted
<1>5. CASE FindToDelete(q)
  BY <1>1, <1>5 DEF FindToDelete, InvAt, AskedAt
<1> QED
  BY <1>2, <1>3, <1>4, <1>5 DEF Lookup

LEMMA StatementIsSilent ==
  ASSUME LInv, NEW q \in Requests, Statement(q) \/ Rollback(q)
  PROVE  Silent
<1> USE DEF TInv, TypeOK, txVars, afterVars, Uncommitted
<1>1. TInv /\ InvAt(q)
  BY DEF LInv
<1>2. CASE Count(q)
  <2>1. /\ pc'[q] \in {"find", "write", "end", "err"}
        /\ \A p \in Requests \ {q} : pc'[p] = pc[p]
    BY <1>1, <1>2 DEF Count, ItemFails, NextItem
  <2> QED
    BY <1>1, <1>2, <2>1, EarlyIsSilent DEF Count
<1>3. CASE Write(q)
  <2>1. /\ pc'[q] \in {"find", "end"}
        /\ \A p \in Requests \ {q} : pc'[p] = pc[p] /\ good'[p] = good[p]
    BY <1>1, <1>3 DEF Write, NextItem
  <2> QED
    BY <1>1, <1>3, <2>1, EarlyIsSilent DEF Write
<1>4. CASE WriteConflict(q) \/ DeadlockVictim(q)
  <2>1. pc[q] = "write"
    BY <1>4 DEF WriteConflict, DeadlockVictim, InCycle
  <2>2. /\ pc'[q] \in {"find", "end", "err"}
        /\ \A p \in Requests \ {q} : pc'[p] = pc[p]
    BY <1>1, <1>4 DEF WriteConflict, DeadlockVictim, ItemFails, NextItem
  <2> QED
    BY <1>1, <1>4, <2>1, <2>2, EarlyIsSilent DEF WriteConflict, DeadlockVictim
<1>5. CASE Remove(q)
  BY <1>1, <1>5 DEF Remove, InvAt, AskedAt
<1>6. CASE Rollback(q)
  <2>1. pc'[q] = "err" /\ \A p \in Requests \ {q} : pc'[p] = pc[p]
    BY <1>1, <1>6 DEF Rollback
  <2> QED
    BY <1>1, <1>6, <2>1, EarlyIsSilent DEF Rollback, reqVars
<1> QED
  BY <1>2, <1>3, <1>4, <1>5, <1>6 DEF Statement

\* A callback announces what it owes, and owes no more.
LEMMA AfterIsSilent ==
  ASSUME LInv, NEW q \in Requests, After(q)
  PROVE  Silent
<1> USE DEF TInv, TypeOK
<1>1. TInv /\ SameRows
  BY TitlesOnly DEF LInv
<1>2. /\ pc[q] \in Calling
      /\ pc'[q] \in Past
      /\ pc'[q] = "ok" => AnswerOk(q)
      /\ \A p \in Requests \ {q} : pc'[p] = pc[p] /\ todo'[p] = todo[p]
      /\ good' = good /\ req' = req
  <2>1. CASE Announce(q)
    BY <1>1, <2>1 DEF Announce, Callback, Calling, Past, txVars, reqVars
  <2>2. CASE ReadTitle(q)
    BY <1>1, <2>2 DEF ReadTitle, Callback, Calling, Past, txVars, reqVars
  <2>3. CASE Retitle(q)
    BY <1>1, <2>3 DEF Retitle, Calling, Past, txVars, reqVars
  <2>4. CASE AnswerOk(q)
    BY <1>1, <2>4 DEF AnswerOk, Calling, Past, txVars, reqVars, afterVars
  <2> QED
    BY <2>1, <2>2, <2>3, <2>4 DEF After
<1>3. todo[q] \in Seq(Saved) /\ todo[q] # << >> =>
        /\ 1 \in DOMAIN todo[q]
        /\ Head(todo[q]) = todo[q][1]
        /\ Tail(todo[q]) \in Seq(Saved)
        /\ \A k \in DOMAIN Tail(todo[q]) :
             k + 1 \in DOMAIN todo[q] /\ Tail(todo[q])[k] = todo[q][k + 1]
  OBVIOUS
<1>4. \A k \in DOMAIN todo'[q] : \E l \in DOMAIN todo[q] : todo'[q][k] = todo[q][l]
  <2>1. CASE todo' = todo
    BY <2>1
  <2>2. CASE todo' = [todo EXCEPT ![q] = Tail(@)] /\ todo[q] # << >>
    <3>1. todo'[q] = Tail(todo[q]) /\ todo[q] \in Seq(Saved)
      BY <1>1, <2>2
    <3> QED
      BY <1>3, <2>2, <3>1
  <2> QED
    BY <1>1, <2>1, <2>2 DEF After, Announce, Callback, ReadTitle, Retitle, AnswerOk,
                            afterVars, InRange
<1>5. announced' \subseteq announced \union Owed(q)
  <2>1. CASE Announce(q)
    <3>1. 1 \in DOMAIN todo[q] /\ Head(todo[q]) = todo[q][1]
      BY <1>1, <1>3, <2>1 DEF Announce, Callback
    <3> QED
      BY <1>2, <2>1, <3>1 DEF Announce, Owed
  <2> QED
    BY <2>1 DEF After, ReadTitle, Retitle, AnswerOk, afterVars
<1>6. Owed(q)' \subseteq Owed(q)
  BY <1>2, <1>4 DEF Owed, Event
<1>7. \A p \in Requests \ {q} : Owed(p)' = Owed(p)
  BY <1>2 DEF Owed, Event
<1>8. Claims' \subseteq Claims
  BY <1>5, <1>6, <1>7 DEF Claims
<1> QED
  BY <1>1, <1>2, <1>8 DEF Silent, Uncommitted, Past, Calling

\* The process dies: nothing is owed any more.
LEMMA CrashIsSilent ==
  ASSUME LInv, Crash
  PROVE  Silent
<1>1. \A q \in Requests : pc'[q] = IF pc[q] \in Active THEN "crashed" ELSE pc[q]
  BY DEF Crash
<1>2. UNCHANGED <<rows, req, good, todo, announced>>
  BY DEF Crash, reqVars, afterVars
<1>3. Claims' \subseteq Claims
  BY <1>1, <1>2, ClaimsKept DEF Calling, Active
<1> QED
  BY <1>1, <1>2, <1>3 DEF Silent, SameRows, Uncommitted, Past, Active

Committing(q) == Commit(q) \/ CommitUnanswered(q)

\* Only a commit shows.
LEMMA SilentOrCommit ==
  ASSUME KeepsRows, LInv, [Next]_vars
  PROVE  Silent \/ \E q \in Requests : Committing(q)
<1>1. ASSUME NEW q \in Requests, Begin(q) \/ Step(q)
      PROVE  Silent \/ Committing(q)
  <2>1. CASE AnswerBatchDelete(q)
    BY <2>1 DEF AnswerBatchDelete, LInv, InvAt, AskedAt
  <2> QED
    BY <1>1, <2>1, LookupIsSilent, StatementIsSilent, AfterIsSilent
    DEF Step, End, Committing
<1>2. ASSUME UNCHANGED <<rows, pc, req, good, todo, announced>>
      PROVE  Silent
  <2>1. Claims' \subseteq Claims
    BY <1>2, ClaimsKept
  <2> QED
    BY <1>2, <2>1 DEF Silent, SameRows
<1>3. ASSUME NEW r \in Recs, CacheExpires(r)
      PROVE  Silent
  BY <1>2, <1>3 DEF CacheExpires, reqVars, txVars, afterVars
<1>4. CASE UNCHANGED vars
  BY <1>2, <1>4 DEF vars, reqVars, txVars, afterVars
<1> QED
  BY <1>1, <1>3, <1>4, CrashIsSilent DEF Next

\* What a commit does, answered or not.
LEMMA CommitShows ==
  ASSUME LInv, NEW q \in Requests, Committing(q)
  PROVE  /\ pc[q] = "end" /\ good[q] # << >> /\ ~ aborted[q]
         /\ rows' = Committed(q)
         /\ pc'[q] \in {"after", "unknown"}
         /\ \A p \in Requests \ {q} : pc'[p] = pc[p] /\ todo'[p] = todo[p]
         /\ pc'[q] = "after" => todo'[q] = good[q]
         /\ UNCHANGED <<req, good, announced>>
<1>1. TInv
  BY DEF LInv
<1>2. CASE Commit(q)
  BY <1>1, <1>2 DEF Commit, TInv, TypeOK, reqVars
<1>3. CASE CommitUnanswered(q)
  BY <1>1, <1>3 DEF CommitUnanswered, TInv, TypeOK, reqVars, afterVars
<1> QED
  BY <1>2, <1>3 DEF Committing

-----------------------------------------------------------------------------
(* Versions are claimed once. *)

\* Only what has saved something commits.
SavedSome == \A q \in Requests : pc[q] \in Past => good[q] # << >>

ClaimsPast ==
  \A a \in Claims : rows[a.rec] # Absent /\ a.version <= rows[a.rec].version

ClaimsDiffer ==
  \A a, b \in Claims : a.rec = b.rec /\ a.version = b.version => a.by = b.by

\* A record is created by one request.
CreatesDiffer ==
  \A p, q \in Requests :
    /\ req[p].kind = "create"
    /\ req[q].kind = "create"
    /\ req[p].items = req[q].items
    => p = q

\* A creation is claimed as version 0, a change as a later one.
ClaimsOfKind ==
  \A a \in Claims :
    /\ pc[a.by] # "idle"
    /\ req[a.by].kind = "create" => a.version = 0 /\ req[a.by].items = <<a.rec>>
    /\ req[a.by].kind # "create" => a.version >= 1

\* A create has one item.
CreatesAtFirst == \A q \in Requests : req[q].kind = "create" => item[q] = 1

CInv ==
  SavedSome /\ CreatesDiffer /\ CreatesAtFirst /\ ClaimsPast /\ ClaimsOfKind /\ ClaimsDiffer

LEMMA ClaimsType ==
  ASSUME TInv, NEW a \in Claims
  PROVE  a \in [rec : Recs, version : Nat, by : Requests]
<1>1. CASE a \in announced
  BY <1>1 DEF TInv, TypeOK
<1>2. ASSUME NEW q \in Requests, a \in Owed(q)
      PROVE  a \in [rec : Recs, version : Nat, by : Requests]
  <2>1. todo[q] \in Seq(Saved)
    BY DEF TInv, TypeOK
  <2>2. PICK k \in DOMAIN todo[q] : a = Event(q, todo[q][k])
    BY <1>2 DEF Owed
  <2>3. todo[q][k] \in Saved
    BY <2>1, ElementOfSeq, LenProperties
  <2> QED
    BY <2>2, <2>3 DEF Saved, Event
<1> QED
  BY <1>1, <1>2 DEF Claims

LEMMA InitClaims == Init => CInv
<1> SUFFICES ASSUME Init
             PROVE  CInv
  OBVIOUS
<1>1. SavedSome
  BY DEF Init, SavedSome, Past
<1>2. Claims = {}
  BY DEF Init, Claims, Owed, Calling
<1>3. CreatesDiffer
  BY DEF Init, CreatesDiffer, NoRequest
<1>4. CreatesAtFirst
  BY DEF Init, CreatesAtFirst
<1> QED
  BY <1>1, <1>2, <1>3, <1>4 DEF CInv, ClaimsPast, ClaimsOfKind, ClaimsDiffer

LEMMA CreatesStayAtFirst ==
  ASSUME LInv, CreatesAtFirst, [Next]_vars
  PROVE  CreatesAtFirst'
<1> USE DEF LInv, TInv, TypeOK, reqVars, txVars, afterVars
<1>1. ASSUME NEW q \in Requests, Lookup(q) \/ Statement(q)
      PROVE  /\ req' = req /\ pc[q] # "idle"
             /\ item'[q] = item[q] \/ item[q] < Len(req[q].items)
             /\ \A p \in Requests \ {q} : item'[p] = item[p]
  <2>1. CASE Lookup(q)
    BY <2>1 DEF Lookup, FindCached, FindRow, FindMissing, FindToDelete, Modify, ItemFails,
                NextItem, Updates
  <2>2. CASE Statement(q)
    BY <2>2 DEF Statement, Count, Write, WriteConflict, DeadlockVictim, InCycle, Remove,
                ItemFails, NextItem
  <2> QED
    BY <1>1, <2>1, <2>2
<1>2. ASSUME NEW q \in Requests, Lookup(q) \/ Statement(q)
      PROVE  CreatesAtFirst'
  <2>1. req[q].kind = "create" => Len(req[q].items) = 1
    BY <1>1, <1>2 DEF InvAt, AskedAt
  <2>2. item[q] \in Nat /\ req' = req /\ \A p \in Requests \ {q} : item'[p] = item[p]
    BY <1>1, <1>2
  <2>3. req[q].kind = "create" => item'[q] = 1
    <3> SUFFICES ASSUME req[q].kind = "create"
                 PROVE  item'[q] = 1
      OBVIOUS
    <3>1. item[q] = 1 /\ Len(req[q].items) = 1
      BY <2>1 DEF CreatesAtFirst
    <3>2. item'[q] = item[q] \/ item[q] < Len(req[q].items)
      BY <1>1, <1>2
    <3>3. ~ (item[q] < Len(req[q].items))
      BY <3>1
    <3> QED
      BY <3>1, <3>2, <3>3
  <2> QED
    BY <2>2, <2>3 DEF CreatesAtFirst
<1>3. ASSUME NEW q \in Requests, Begin(q)
      PROVE  CreatesAtFirst'
  BY <1>3 DEF Begin, InRange, CreatesAtFirst
<1>4. CASE req' = req /\ item' = item
  BY <1>4 DEF CreatesAtFirst
<1> QED
  BY <1>2, <1>3, <1>4 DEF Next, Step, End, Commit, Rollback, CommitUnanswered,
    AnswerBatchDelete, After, Announce, ReadTitle, Retitle, AnswerOk, Crash, CacheExpires, vars

\* A new record gets an id no other creation has.
LEMMA CreatesStay ==
  ASSUME LInv, CreatesDiffer, [Next]_vars
  PROVE  CreatesDiffer'
<1>1. CASE \A p \in Requests : req'[p] = req[p]
  BY <1>1 DEF CreatesDiffer
<1>2. ASSUME NEW q \in Requests, Begin(q)
      PROVE  CreatesDiffer'
  <2>1. PICK k \in Kinds : \E a \in Asks(q, k) : req' = [req EXCEPT ![q] = a]
    BY <1>2 DEF Begin
  <2>2. PICK a \in Asks(q, k) : req' = [req EXCEPT ![q] = a]
    BY <2>1
  <2>3. req'[q] = a /\ \A p \in Requests \ {q} : req'[p] = req[p]
    BY <2>2 DEF LInv, TInv, TypeOK
  <2>4. ASSUME a.kind = "create", NEW p \in Requests, req[p].kind = "create"
        PROVE  req[p].items # a.items
    <3>1. k = "create"
      BY <2>4 DEF Asks
    <3>2. PICK r \in Fresh : a.items = <<r>> /\ req[p].items # <<r>>
      BY <2>4, <3>1 DEF Asks
    <3> QED
      BY <3>2
  <2> QED
    BY <2>3, <2>4 DEF CreatesDiffer
<1> QED
  BY <1>1, <1>2, RequestKept

LEMMA SilentKeepsClaims ==
  ASSUME LInv, CInv, Silent, [Next]_vars
  PROVE  CInv'
<1>1. SavedSome'
  BY DEF CInv, SavedSome, Silent
<1>2. ClaimsPast'
  <2> SUFFICES ASSUME NEW a \in Claims'
               PROVE  rows'[a.rec] # Absent /\ a.version <= rows'[a.rec].version
    BY DEF ClaimsPast
  <2>1. a \in Claims
    BY DEF Silent
  <2>2. a.rec \in Recs
    BY <2>1, ClaimsType DEF LInv
  <2> QED
    BY <2>1, <2>2 DEF CInv, ClaimsPast, Silent, SameRows
<1>3. ClaimsDiffer'
  <2> SUFFICES ASSUME NEW a \in Claims', NEW b \in Claims',
                      a.rec = b.rec, a.version = b.version
               PROVE  a.by = b.by
    BY DEF ClaimsDiffer
  <2> QED
    BY DEF CInv, ClaimsDiffer, Silent
<1>4. CreatesDiffer' /\ CreatesAtFirst'
  BY CreatesStay, CreatesStayAtFirst DEF CInv
<1>5. ClaimsOfKind'
  <2> SUFFICES ASSUME NEW a \in Claims'
               PROVE  /\ pc'[a.by] # "idle"
                      /\ req'[a.by].kind = "create" =>
                           a.version = 0 /\ req'[a.by].items = <<a.rec>>
                      /\ req'[a.by].kind # "create" => a.version >= 1
    BY DEF ClaimsOfKind
  <2>1. a \in Claims
    BY DEF Silent
  <2>2. a.by \in Requests
    BY <2>1, ClaimsType DEF LInv
  <2>3. pc[a.by] # "idle"
    BY <2>1 DEF CInv, ClaimsOfKind
  <2>4. pc'[a.by] # "idle" /\ req'[a.by] = req[a.by]
    BY <2>2, <2>3, RequestKept DEF Begin
  <2> QED
    BY <2>1, <2>4 DEF CInv, ClaimsOfKind
<1> QED
  BY <1>1, <1>2, <1>3, <1>4, <1>5 DEF CInv

\* What a commit does to a row.
LEMMA CommittedRow ==
  ASSUME LInv, NEW q \in Requests, rows' = Committed(q), NEW r \in Recs
  PROVE  /\ written[q][r] = Absent => rows'[r] = rows[r]
         /\ written[q][r] # Absent => /\ rows'[r] = written[q][r]
                                      /\ rows'[r] # Absent
                                      /\ Follows(q, rows'[r], rows[r])
<1>1. rows'[r] = IF written[q][r] # Absent THEN written[q][r] ELSE rows[r]
  BY DEF Committed
<1>2. written[q][r] # Absent => Follows(q, written[q][r], rows[r])
  BY DEF LInv, InvAt, WrittenAt
<1> QED
  BY <1>1, <1>2

\* What a commit claims: a creation, or the versions after the committed ones.
LEMMA CommitClaims ==
  ASSUME LInv, CreatesAtFirst,
         NEW q \in Requests, Committing(q), NEW a \in Claims', a \notin Claims
  PROVE  /\ a.rec \in Recs
         /\ a.by = q
         /\ rows'[a.rec] # Absent
         /\ rows'[a.rec].version \in Nat
         /\ written[q][a.rec] # Absent
         /\ IF req[q].kind = "create"
              THEN a.version = 0 /\ req[q].items = <<a.rec>>
              ELSE a.version >= 1 /\ rows'[a.rec].version = a.version
<1>1. /\ pc[q] = "end" /\ ~ aborted[q]
      /\ rows' = Committed(q)
      /\ \A p \in Requests \ {q} : pc'[p] = pc[p] /\ todo'[p] = todo[p]
      /\ pc'[q] \in {"after", "unknown"}
      /\ pc'[q] = "after" => todo'[q] = good[q]
      /\ announced' = announced
  BY CommitShows
<1>0. req' = req
  BY CommitShows
<1>2. \A p \in Requests \ {q} : Owed(p)' = Owed(p)
  BY <1>0, <1>1 DEF Owed, Event
<1>3. a \in Owed(q)'
  BY <1>1, <1>2 DEF Claims
<1>4. PICK k \in DOMAIN good[q] : a = Event(q, good[q][k])
  BY <1>0, <1>1, <1>3 DEF Owed, Calling, Event
<1>5. good[q][k].rec \in Recs
  BY GoodType DEF LInv
<1>6. /\ written[q][good[q][k].rec] # Absent
      /\ written[q][good[q][k].rec].version = good[q][k].version
  BY <1>1 DEF LInv, InvAt, SavedAt, Open
<1>7. a.rec = good[q][k].rec /\ a.by = q
  BY <1>4 DEF Event
<1>8. /\ rows'[a.rec] = written[q][a.rec]
      /\ rows'[a.rec] # Absent
      /\ Follows(q, rows'[a.rec], rows[a.rec])
  BY <1>1, <1>5, <1>6, <1>7, CommittedRow
<1>9. rows'[a.rec].version \in Nat
  BY <1>5, <1>7, <1>8 DEF LInv, TInv, TypeOK, Row
<1>10. CASE req[q].kind = "create"
  <2>1. a.version = 0
    BY <1>4, <1>10 DEF Event
  <2>2. a.rec = Current(q) /\ Len(req[q].items) = 1
    BY <1>1, <1>5, <1>6, <1>7, <1>10 DEF LInv, InvAt, WrittenAt, AskedAt
  <2>3. req[q].items \in Seq(Recs) /\ item[q] = 1
    BY <1>10 DEF LInv, TInv, TypeOK, Request, CreatesAtFirst
  <2>4. req[q].items = <<a.rec>>
    BY <2>2, <2>3 DEF Current
  <2> QED
    BY <1>5, <1>6, <1>7, <1>8, <1>9, <1>10, <2>1, <2>4
<1>11. CASE req[q].kind # "create"
  <2>1. a.version = rows'[a.rec].version
    <3>1. req[q].kind # "delete"
      BY <1>1 DEF LInv, InvAt, AskedAt
    <3> QED
      BY <1>4, <1>6, <1>7, <1>8, <1>11, <3>1 DEF Event
  <2>2. rows[a.rec] # Absent /\ rows'[a.rec].version = rows[a.rec].version + 1
    BY <1>8, <1>11 DEF Follows
  <2>3. rows[a.rec].version \in Nat
    BY <1>5, <1>7, <2>2 DEF LInv, TInv, TypeOK, Row
  <2> QED
    BY <1>5, <1>6, <1>7, <1>8, <1>9, <1>11, <2>1, <2>2, <2>3
<1> QED
  BY <1>10, <1>11

LEMMA CommitKeepsClaims ==
  ASSUME LInv, CInv, [Next]_vars, NEW q \in Requests, Committing(q)
  PROVE  CInv'
<1>1. /\ pc[q] = "end" /\ good[q] # << >>
      /\ rows' = Committed(q)
      /\ \A p \in Requests \ {q} : pc'[p] = pc[p]
      /\ pc'[q] \in {"after", "unknown"}
      /\ good' = good
      /\ req' = req
  BY CommitShows
<1>2. RowsGrow
  BY <1>1, CommitGrows
<1>3. SavedSome'
  BY <1>1 DEF CInv, SavedSome, Past
<1>4. \A a \in Claims : a.rec \in Recs /\ a.version \in Nat
  BY ClaimsType DEF LInv
<1>5. \A r \in Recs : /\ rows[r] # Absent => rows[r].version \in Nat
                      /\ rows'[r] # Absent => rows'[r].version \in Nat
  <2>1. \A r \in Recs : written[q][r] # Absent => written[q][r].version \in Nat
    BY DEF LInv, TInv, TypeOK, Row
  <2>2. \A r \in Recs : rows[r] # Absent => rows[r].version \in Nat
    BY DEF LInv, TInv, TypeOK, Row
  <2> QED
    BY <1>1, <2>1, <2>2, CommittedRow
<1>6. ClaimsPast'
  <2> SUFFICES ASSUME NEW a \in Claims'
               PROVE  rows'[a.rec] # Absent /\ a.version <= rows'[a.rec].version
    BY DEF ClaimsPast
  <2>1. CASE a \in Claims
    <3>1. rows[a.rec] # Absent /\ a.version <= rows[a.rec].version
      BY <2>1 DEF CInv, ClaimsPast
    <3>2. rows'[a.rec] # Absent /\ rows[a.rec].version <= rows'[a.rec].version
      BY <1>2, <1>4, <2>1, <3>1 DEF RowsGrow
    <3> QED
      BY <1>4, <1>5, <2>1, <3>1, <3>2
  <2>2. CASE a \notin Claims
    <3>1. /\ a.rec \in Recs /\ rows'[a.rec] # Absent
          /\ rows'[a.rec].version \in Nat
          /\ a.version = 0 \/ rows'[a.rec].version = a.version
      BY <2>2, CommitClaims DEF CInv
    <3> QED
      BY <3>1
  <2> QED
    BY <2>1, <2>2
<1>7. ClaimsOfKind'
  <2> SUFFICES ASSUME NEW a \in Claims'
               PROVE  /\ pc'[a.by] # "idle"
                      /\ req[a.by].kind = "create" =>
                           a.version = 0 /\ req[a.by].items = <<a.rec>>
                      /\ req[a.by].kind # "create" => a.version >= 1
    BY <1>1 DEF ClaimsOfKind
  <2>1. CASE a \in Claims
    BY <1>1, <2>1, ClaimsType DEF CInv, ClaimsOfKind, LInv
  <2>2. CASE a \notin Claims
    BY <1>1, <2>2, CommitClaims DEF CInv
  <2> QED
    BY <2>1, <2>2
<1>8. ASSUME NEW a \in Claims', NEW b \in Claims, a \notin Claims,
             a.rec = b.rec, a.version = b.version
      PROVE  a.by = b.by
  <2>1. a.by = q /\ a.rec \in Recs /\ written[q][a.rec] # Absent
    BY <1>8, CommitClaims DEF CInv
  <2>2. b.by \in Requests /\ b.version \in Nat
    BY ClaimsType DEF LInv
  <2>3. CASE req[q].kind = "create"
    <3>1. a.version = 0 /\ req[q].items = <<a.rec>>
      BY <1>8, <2>3, CommitClaims DEF CInv
    <3>2. req[b.by].kind = "create" /\ req[b.by].items = <<b.rec>>
      <4>1. b.version = 0 /\ ~ (b.version >= 1)
        BY <1>8, <3>1
      <4>2. /\ req[b.by].kind = "create" => req[b.by].items = <<b.rec>>
            /\ req[b.by].kind # "create" => b.version >= 1
        BY DEF CInv, ClaimsOfKind
      <4> QED
        BY <4>1, <4>2
    <3> QED
      BY <1>8, <2>1, <2>2, <2>3, <3>1, <3>2 DEF CInv, CreatesDiffer
  <2>4. CASE req[q].kind # "create"
    <3>1. rows'[a.rec].version = a.version
      BY <1>8, <2>4, CommitClaims DEF CInv
    <3>2. rows[a.rec] # Absent /\ b.version <= rows[a.rec].version
      BY <1>8 DEF CInv, ClaimsPast
    <3>3. rows'[a.rec].version = rows[a.rec].version + 1
      BY <1>1, <2>1, <3>2, CommittedRow DEF Follows
    <3> QED
      BY <1>5, <1>8, <2>1, <2>2, <3>1, <3>2, <3>3
  <2> QED
    BY <2>3, <2>4
<1>9. ClaimsDiffer'
  <2> SUFFICES ASSUME NEW a \in Claims', NEW b \in Claims',
                      a.rec = b.rec, a.version = b.version
               PROVE  a.by = b.by
    BY DEF ClaimsDiffer
  <2>1. CASE a \in Claims /\ b \in Claims
    BY <2>1 DEF CInv, ClaimsDiffer
  <2>2. CASE a \notin Claims /\ b \notin Claims
    BY <2>2, CommitClaims DEF CInv
  <2>3. CASE a \notin Claims /\ b \in Claims
    BY <1>8, <2>3
  <2>4. CASE a \in Claims /\ b \notin Claims
    BY <1>8, <2>4
  <2> QED
    BY <2>1, <2>2, <2>3, <2>4
<1>10. CreatesDiffer' /\ CreatesAtFirst'
  BY CreatesStay, CreatesStayAtFirst DEF CInv
<1> QED
  BY <1>3, <1>6, <1>7, <1>9, <1>10 DEF CInv

LEMMA NextClaims == KeepsRows /\ LInv /\ CInv /\ [Next]_vars => CInv'
  BY SilentOrCommit, SilentKeepsClaims, CommitKeepsClaims

\* While no record is deleted, no two requests announce the same version of a
\* record, a creation being announced as version 0, however the callbacks of the
\* requests that saved it are delayed.
THEOREM RecordsAnnouncedVersionsDiffer ==
  ASSUME KeepsRows
  PROVE  Spec => []AnnouncedVersionsDiffer
<1>1. CInv => AnnouncedVersionsDiffer
  BY DEF CInv, ClaimsDiffer, Claims, AnnouncedVersionsDiffer
<1> QED
  BY InitLocks, NextLocks, InitClaims, NextClaims, <1>1, PTL DEF Spec

\* A batch that fails, or whose transaction the database aborts, leaves nothing
\* behind; one whose commit is not answered is there with all it has saved.
THEOREM RecordsBatchAllOrNothing ==
  ASSUME KeepsRows, NoRecalculation
  PROVE  Spec => []BatchAllOrNothing
<1>1. LInv /\ UInv => BatchAllOrNothing
  <2> SUFFICES ASSUME LInv, UInv, NEW q \in Requests,
                      pc[q] \in {"err", "unknown"}, req[q].kind = "batchUpdate"
               PROVE  LET changed == {r \in Recs : rows[r] # Absent /\ q \in rows[r].applied}
                      IN  \/ changed = {}
                          \/ /\ pc[q] = "unknown"
                             /\ \A k \in DOMAIN good[q] :
                                  \/ good[q][k].rec \in changed
                                  \/ rows[good[q][k].rec] = Absent
    BY DEF BatchAllOrNothing
  <2>1. CASE pc[q] = "err"
    BY <2>1 DEF UInv, Hidden, Shown, Uncommitted
  <2>2. CASE req[q].key = "name"
    BY <2>2 DEF UInv, Hidden, Shown
  <2>3. CASE pc[q] = "unknown" /\ req[q].key = "id"
    <3>1. \A k \in DOMAIN good[q] : good[q][k].rec \in Recs
      BY GoodType DEF LInv
    <3>2. \A k \in DOMAIN good[q] :
            /\ rows[good[q][k].rec] # Absent
            /\ q \in rows[good[q][k].rec].applied
      BY <2>3 DEF LInv, InvAt, KeptAt, Mark
    <3> QED
      BY <2>3, <3>1, <3>2
  <2>4. req[q].key \in {"id", "name"}
    BY DEF LInv, TInv, TypeOK, Request
  <2> QED
    BY <2>1, <2>2, <2>3, <2>4
<1>2. LInv /\ LInv' => TInv /\ TInv'
  BY DEF LInv
<1> QED
  BY InitLocks, NextLocks, InitHidden, NextHidden, <1>1, <1>2, PTL DEF Spec

-----------------------------------------------------------------------------
(* The version a client names: the request has read a row no newer than it, *)
(* and Save writes on the version read only.                                *)

ExpectedAt(q) ==
  pc[q] \in Open /\ req[q].expected > 0 =>
    LET row == rows[Current(q)]
    IN  /\ req[q].kind = "update"
        /\ Current(q) \in Recs
        /\ row # Absent
        /\ req[q].expected <= row.version
        /\ pc[q] \in {"count", "write"} /\ read[q] # Blank =>
             read[q].version <= req[q].expected
        /\ pc[q] = "end" /\ written[q][Current(q)] # Absent =>
             row.version <= req[q].expected

VInv == \A q \in Requests : ExpectedAt(q)

\* Rows grow, and those q has written change with its own commit only.
LEMMA OthersExpect ==
  ASSUME LInv, NEW q \in Requests, ExpectedAt(q), SameAt(q), RowsGrow, RowsLocked(q), TInv'
  PROVE  ExpectedAt(q)'
<1> SUFFICES ASSUME pc[q] \in Open, req[q].expected > 0
             PROVE  ExpectedAt(q)'
  BY DEF ExpectedAt, SameAt
<1> DEFINE r == Current(q)
<1>1. Current(q)' = r
  BY DEF Current, SameAt
<1>2. /\ req[q].kind = "update" /\ r \in Recs
      /\ rows[r] # Absent /\ req[q].expected <= rows[r].version
  BY DEF ExpectedAt
<1>3. rows'[r] # Absent /\ rows[r].version <= rows'[r].version
  BY <1>2 DEF RowsGrow
<1>4. rows[r].version \in Nat /\ rows'[r].version \in Nat /\ req[q].expected \in Nat
  BY <1>2, <1>3 DEF LInv, TInv, TypeOK, Row, Request
<1>5. req[q].expected <= rows'[r].version
  BY <1>2, <1>3, <1>4
<1>6. written[q][r] # Absent => rows'[r].version = rows[r].version
  BY <1>2 DEF RowsLocked
<1> QED
  BY <1>1, <1>2, <1>3, <1>5, <1>6 DEF ExpectedAt, SameAt

\* A version a client names is that of a row it has seen.
LEMMA AsksSeen ==
  ASSUME TInv, NEW q \in Requests, NEW k \in Kinds, NEW a \in Asks(q, k), a.expected > 0
  PROVE  /\ k = "update"
         /\ a.items[1] \in Recs
         /\ rows[a.items[1]] # Absent
         /\ a.expected <= rows[a.items[1]].version
<1>1. k # "create"
  BY DEF Asks
<1>2. CASE k # "update"
  <2>1. a.expected \in {0}
    BY <1>1, <1>2 DEF Asks
  <2> QED
    BY <2>1
<1>3. CASE k = "update"
  <2> DEFINE known == {r \in Recs : r \in Fresh => rows[r] # Absent}
             seen(r) == IF rows[r] # Absent THEN 0 .. rows[r].version ELSE {0}
             asked(s) == {[kind |-> k, items |-> s, expected |-> e, bump |-> b, key |-> n] :
                            e \in seen(s[1]), b \in Bumps, n \in {"id"}}
  <2>1. PICK s \in [{1} -> known] : a.items = s /\ a.expected \in seen(s[1])
    <3>1. a \in UNION {asked(s) : s \in [{1} -> known]}
      BY <1>3 DEF Asks, Batches
    <3>2. PICK s \in [{1} -> known] : a \in asked(s)
      BY <3>1
    <3>3. PICK e \in seen(s[1]), b \in Bumps, n \in {"id"} :
            a = [kind |-> k, items |-> s, expected |-> e, bump |-> b, key |-> n]
      BY <3>2
    <3> QED
      BY <3>3
  <2>2. s[1] \in Recs /\ rows[s[1]] # Absent
    BY <2>1
  <2>3. rows[s[1]].version \in Nat
    BY <2>2 DEF TInv, TypeOK, Row
  <2> QED
    BY <1>3, <2>1, <2>2, <2>3
<1> QED
  BY <1>2, <1>3

LEMMA BeginExpects ==
  ASSUME KeepsRows, LInv, NEW q \in Requests, Begin(q)
  PROVE  ExpectedAt(q)'
<1>1. TInv /\ pc[q] = "idle" /\ UNCHANGED <<rows, item, read, written>>
  BY DEF LInv, Begin, txVars
<1>2. PICK k \in Kinds : \E a \in Asks(q, k) :
        /\ req' = [req EXCEPT ![q] = a]
        /\ pc' = [pc EXCEPT ![q] = IF k = "create" THEN "count"
                                   ELSE IF k = "delete" /\ Cached THEN "err" ELSE "find"]
  BY DEF Begin
<1>3. PICK a \in Asks(q, k) :
        /\ req' = [req EXCEPT ![q] = a]
        /\ pc' = [pc EXCEPT ![q] = IF k = "create" THEN "count"
                                   ELSE IF k = "delete" /\ Cached THEN "err" ELSE "find"]
  BY <1>2
<1>4. /\ req'[q] = a /\ a.kind = k
      /\ pc'[q] = IF k = "create" THEN "count" ELSE "find"
  <2>1. a.kind = k /\ k # "delete"
    BY <1>1, AsksToSave
  <2> QED
    BY <1>1, <1>3, <2>1 DEF TInv, TypeOK
<1>5. Current(q)' = a.items[1]
  BY <1>1, <1>4 DEF Current, TInv, InRange
<1> SUFFICES ASSUME a.expected > 0
             PROVE  ExpectedAt(q)'
  BY <1>4 DEF ExpectedAt
<1>6. /\ k = "update"
      /\ a.items[1] \in Recs
      /\ rows[a.items[1]] # Absent
      /\ a.expected <= rows[a.items[1]].version
  BY <1>1, AsksSeen
<1> QED
  BY <1>1, <1>4, <1>5, <1>6 DEF ExpectedAt

\* An update that fails before its end is over.
LEMMA FailExpects ==
  ASSUME LInv, NEW q \in Requests, ExpectedAt(q), pc[q] \in {"find", "count", "write"},
         ItemFails(q), req' = req
  PROVE  ExpectedAt(q)'
<1> SUFFICES ASSUME req[q].expected > 0
             PROVE  pc'[q] = "err"
  BY DEF ExpectedAt, Open
<1>1. req[q].kind = "update"
  BY DEF ExpectedAt, Open
<1> QED
  BY <1>1 DEF ItemFails, Batches, LInv, TInv, TypeOK

\* HasChangedSince: what is read is not newer than the version named.
LEMMA ModifyExpects ==
  ASSUME LInv, NEW q \in Requests, ExpectedAt(q), NEW row \in Row,
         Updates(q), Modify(q, row), UNCHANGED <<rows, req, written>>
  PROVE  ExpectedAt(q)'
<1>1. pc[q] = "find"
  BY DEF Updates
<1>2. CASE Conflicts(q, row)
  BY <1>1, <1>2, FailExpects DEF Modify
<1>3. CASE ~ Conflicts(q, row)
  <2> SUFFICES ASSUME req[q].expected > 0
               PROVE  ExpectedAt(q)'
    BY DEF ExpectedAt
  <2>1. /\ req[q].kind = "update" /\ Current(q) \in Recs
        /\ rows[Current(q)] # Absent /\ req[q].expected <= rows[Current(q)].version
    BY <1>1 DEF ExpectedAt, Open
  <2>2. pc'[q] = "count" /\ read'[q] = row /\ item' = item
    BY <1>3 DEF Modify, LInv, TInv, TypeOK
  <2>3. row.version <= req[q].expected
    <3>1. row.version \in Nat /\ req[q].expected \in Nat
      BY DEF Row, LInv, TInv, TypeOK, Request
    <3> QED
      BY <1>3, <2>1, <3>1 DEF Conflicts
  <2>4. Current(q)' = Current(q)
    BY <2>2 DEF Current
  <2> QED
    BY <2>1, <2>2, <2>3, <2>4 DEF ExpectedAt
<1> QED
  BY <1>2, <1>3

LEMMA LookupExpects ==
  ASSUME LInv, NEW q \in Requests, ExpectedAt(q), Lookup(q)
  PROVE  ExpectedAt(q)'
<1>1. CASE FindCached(q)
  <2>1. Blank \in Row
    BY DEF Blank, Row
  <2> QED
    BY <1>1, <2>1, ModifyExpects DEF FindCached, txVars
<1>2. CASE FindRow(q)
  <2>1. Current(q) \in Recs
    BY <1>2, CurrentType DEF FindRow, Updates, AtItem, LInv
  <2>2. rows[Current(q)] \in Row
    BY <1>2, <2>1 DEF FindRow, LInv, TInv, TypeOK
  <2> QED
    BY <1>2, <2>2, ModifyExpects DEF FindRow, txVars
<1>3. CASE FindMissing(q)
  BY <1>3, FailExpects DEF FindMissing
<1>4. CASE FindToDelete(q)
  BY <1>4 DEF FindToDelete, LInv, InvAt, AskedAt
<1> QED
  BY <1>1, <1>2, <1>3, <1>4 DEF Lookup

\* Save writes on the row that was read: it has the version read.
LEMMA WriteExpects ==
  ASSUME NoRecalculation, LInv, NEW q \in Requests, ExpectedAt(q), Write(q)
  PROVE  ExpectedAt(q)'
<1>1. TInv /\ InvAt(q) /\ pc[q] = "write"
  BY DEF LInv, Write
<1> SUFFICES ASSUME req[q].expected > 0
             PROVE  ExpectedAt(q)'
  BY DEF ExpectedAt, Write
<1> DEFINE r == Current(q)
<1>2. /\ req[q].kind = "update" /\ r \in Recs
      /\ rows[r] # Absent /\ req[q].expected <= rows[r].version
      /\ read[q] # Blank => read[q].version <= req[q].expected
  BY <1>1 DEF ExpectedAt, Open
<1>3. read[q] # Blank /\ mem[q].version = read[q].version + 1
  BY <1>1, <1>2 DEF InvAt, AskedAt, InHandAt, ReadsPast
<1>4. mem[q].version = rows[r].version + 1
  BY <1>1, <1>2, WritesNext DEF Write, Follows
<1>5. read[q].version \in Nat /\ rows[r].version \in Nat /\ req[q].expected \in Nat
  BY <1>1, <1>2 DEF TInv, TypeOK, Row, Request
<1>6. rows[r].version <= req[q].expected
  BY <1>2, <1>3, <1>4, <1>5
<1>7. item[q] = 1 /\ Len(req[q].items) = 1
  <2>1. Len(req[q].items) = 1 /\ item[q] \in 1 .. Len(req[q].items)
    BY <1>1, <1>2 DEF InvAt, AskedAt, TInv, InRange, AtItem
  <2> QED
    BY <2>1
<1>8. pc'[q] = "end" /\ item' = item /\ rows' = rows /\ req' = req
  BY <1>1, <1>7 DEF Write, NextItem, TInv, TypeOK
<1>9. Current(q)' = r
  BY <1>8 DEF Current
<1> QED
  BY <1>2, <1>6, <1>8, <1>9 DEF ExpectedAt

LEMMA StatementExpects ==
  ASSUME NoRecalculation, LInv, NEW q \in Requests, ExpectedAt(q), Statement(q)
  PROVE  ExpectedAt(q)'
<1>1. CASE Count(q)
  <2>1. CASE ItemFails(q)
    BY <1>1, <2>1, FailExpects DEF Count
  <2>2. CASE ~ ItemFails(q)
    <3>1. /\ pc[q] = "count" /\ pc'[q] = "write"
          /\ UNCHANGED <<rows, req, item, read, written>>
      BY <1>1, <2>2 DEF Count, LInv, TInv, TypeOK, txVars
    <3>2. Current(q)' = Current(q)
      BY <3>1 DEF Current
    <3> QED
      BY <3>1, <3>2 DEF ExpectedAt, Open
  <2> QED
    BY <2>1, <2>2
<1>2. CASE Write(q)
  BY <1>2, WriteExpects
<1>3. CASE WriteConflict(q)
  BY <1>3, FailExpects DEF WriteConflict
<1>4. CASE DeadlockVictim(q)
  BY <1>4, FailExpects DEF DeadlockVictim, InCycle
<1>5. CASE Remove(q)
  BY <1>5 DEF Remove, LInv, InvAt, AskedAt
<1> QED
  BY <1>1, <1>2, <1>3, <1>4, <1>5 DEF Statement

\* Afterwards the transaction is over.
LEMMA OverExpects ==
  ASSUME LInv, NEW q \in Requests, End(q) \/ After(q)
  PROVE  ExpectedAt(q)'
<1>1. pc'[q] \notin Open
  <2>1. CASE End(q)
    BY <2>1 DEF End, Commit, Rollback, CommitUnanswered, AnswerBatchDelete, Open,
                LInv, TInv, TypeOK
  <2>2. CASE After(q)
    BY <2>2 DEF After, Announce, Callback, ReadTitle, Retitle, AnswerOk, Open,
                LInv, TInv, TypeOK
  <2> QED
    BY <2>1, <2>2
<1> QED
  BY <1>1 DEF ExpectedAt

\* What a step of q does to the rows the others have read or written.
LEMMA StepsGrow ==
  ASSUME KeepsRows, LInv, [Next]_vars
  PROVE  /\ RowsGrow
         /\ \A q, p \in Requests : (Begin(q) \/ Step(q)) /\ p # q => RowsLocked(p)
<1>1. CASE Silent
  BY <1>1, SameRowsGrow DEF Silent, LInv
<1>2. ASSUME NEW c \in Requests, Committing(c)
      PROVE  /\ RowsGrow
             /\ \A q, p \in Requests : (Begin(q) \/ Step(q)) /\ p # q => RowsLocked(p)
  <2>1. rows' = Committed(c) /\ pc[c] = "end" /\ pc'[c] # "end"
    BY <1>2, CommitShows
  <2>2. RowsGrow
    BY <2>1, CommitGrows
  <2>3. ASSUME NEW q \in Requests, Begin(q) \/ Step(q)
        PROVE  q = c
    BY <2>1, <2>3, StepsApart DEF SameAt, LInv
  <2>4. ASSUME NEW p \in Requests \ {c}
        PROVE  RowsLocked(p)
    BY <2>1, CommittedRow DEF LInv, Exclusive, RowsLocked
  <2> QED
    BY <2>2, <2>3, <2>4
<1> QED
  BY <1>1, <1>2, SilentOrCommit

LEMMA InitExpects == Init => VInv
BY DEF Init, VInv, ExpectedAt, Open

LEMMA NextExpects == KeepsRows /\ NoRecalculation /\ LInv /\ LInv' /\ VInv /\ [Next]_vars => VInv'
<1> SUFFICES ASSUME KeepsRows, NoRecalculation, LInv, LInv', VInv, [Next]_vars,
                    NEW p \in Requests
             PROVE  ExpectedAt(p)'
  BY DEF VInv
<1>1. TInv /\ TInv' /\ ExpectedAt(p) /\ RowsGrow
  BY StepsGrow DEF LInv, VInv
<1>2. ASSUME NEW q \in Requests, Begin(q) \/ Step(q)
      PROVE  ExpectedAt(p)'
  <2>1. CASE p = q
    BY <1>1, <1>2, <2>1, BeginExpects, LookupExpects, StatementExpects, OverExpects
    DEF Step
  <2>2. CASE p # q
    BY <1>1, <1>2, <2>2, StepsApart, StepsGrow, OthersExpect
  <2> QED
    BY <2>1, <2>2
<1>3. CASE Crash
  <2>1. pc'[p] \notin Open
    BY <1>1, <1>3 DEF Crash, Active, Open, TInv, TypeOK
  <2> QED
    BY <2>1 DEF ExpectedAt
<1>4. CASE UNCHANGED <<rows, pc, reqVars, txVars, afterVars>>
  <2>1. SameAt(p) /\ RowsLocked(p)
    BY <1>4 DEF SameAt, RowsLocked, reqVars, txVars, afterVars
  <2> QED
    BY <1>1, <2>1, OthersExpect
<1> QED
  BY <1>2, <1>3, <1>4 DEF Next, CacheExpires, vars

\* An update that names a version replaces the row of that version, for any
\* number of requests: HasChangedSince refuses the newer rows and Save's WHERE
\* clause those that change between the lookup and the statement.
THEOREM RecordsClientVersionRespected ==
  ASSUME KeepsRows, NoRecalculation
  PROVE  Spec => ClientVersionRespected
<1> DEFINE Respects(q) ==
      (/\ req[q].expected > 0
       /\ pc[q] = "end"
       /\ pc'[q] = "after"
       /\ rows[Current(q)] # Absent)
      => rows[Current(q)].version = req[q].expected
<1>1. ASSUME LInv, VInv, [Next]_vars, NEW q \in Requests
      PROVE  Respects(q)
  <2> SUFFICES ASSUME req[q].expected > 0, pc[q] = "end", pc'[q] = "after"
               PROVE  rows[Current(q)].version = req[q].expected
    OBVIOUS
  <2>1. TInv /\ InvAt(q)
    BY <1>1 DEF LInv
  <2>2. Commit(q)
    <3>1. ASSUME NEW p \in Requests, Begin(p) \/ Step(p)
          PROVE  p = q
      BY <2>1, <3>1, StepsApart DEF SameAt
    <3>2. ~ Crash /\ ~ UNCHANGED pc
      BY <2>1 DEF Crash, Active, TInv, TypeOK
    <3>3. Begin(q) \/ Step(q)
      BY <1>1, <3>1, <3>2 DEF Next, CacheExpires, vars
    <3>4. ~ Begin(q) /\ ~ Lookup(q) /\ ~ Statement(q) /\ ~ After(q)
      BY DEF Begin, Lookup, FindCached, FindRow, FindMissing, FindToDelete, Updates,
             Statement, Count, Write, WriteConflict, DeadlockVictim, InCycle, Remove,
             After, Announce, Callback, ReadTitle, Retitle, AnswerOk
    <3>5. ~ Rollback(q) /\ ~ CommitUnanswered(q) /\ ~ AnswerBatchDelete(q)
      BY <2>1 DEF Rollback, CommitUnanswered, AnswerBatchDelete, TInv, TypeOK
    <3> QED
      BY <3>3, <3>4, <3>5 DEF Step, End
  <2>3. /\ req[q].kind = "update" /\ Current(q) \in Recs
        /\ rows[Current(q)] # Absent /\ req[q].expected <= rows[Current(q)].version
        /\ written[q][Current(q)] # Absent => rows[Current(q)].version <= req[q].expected
    BY <1>1 DEF VInv, ExpectedAt, Open
  <2>4. written[q][Current(q)] # Absent
    <3>1. 1 \in DOMAIN good[q] /\ ~ aborted[q]
      BY <2>1, <2>2 DEF Commit, TInv, TypeOK
    <3>2. good[q][1].rec \in Recs /\ written[q][good[q][1].rec] # Absent
      BY <2>1, <3>1, GoodType DEF InvAt, SavedAt, Open
    <3>3. good[q][1].rec = Current(q)
      BY <2>1, <2>3, <3>2 DEF InvAt, WrittenAt
    <3> QED
      BY <3>2, <3>3
  <2>5. rows[Current(q)].version \in Nat /\ req[q].expected \in Nat
    BY <2>1, <2>3 DEF TInv, TypeOK, Row, Request
  <2> QED
    BY <2>3, <2>4, <2>5
<1>2. LInv /\ VInv /\ [Next]_vars => [\A q \in Requests : Respects(q)]_vars
  BY <1>1
<1> QED
  BY InitLocks, NextLocks, InitExpects, NextExpects, <1>2, PTL
  DEF Spec, ClientVersionRespected

-----------------------------------------------------------------------------
(* Refinement: a commit is an Update or a Create, an answer is a Tell, and *)
(* VersionedTable sees nothing else.                                       *)

TableRow(row) == [version |-> row.version, applied |-> row.applied]

TableRows == [r \in Recs |-> IF rows[r] = Absent THEN Absent ELSE TableRow(rows[r])]

Told == {q \in Requests : pc[q] = "ok"}

LEMMA TableRowIsPresent ==
  ASSUME TypeOK, NEW r \in Recs, rows[r] # Absent
  PROVE  /\ TableRows[r] # Absent
         /\ TableRows[r].version = rows[r].version
         /\ TableRows[r].applied = rows[r].applied
<1>1. rows[r].version \in Nat /\ rows[r].applied \in SUBSET Requests
  BY DEF TypeOK, Row
<1>2. TableRow(rows[r]) \in [version : Nat, applied : SUBSET Requests]
  BY <1>1 DEF TableRow
<1>3. TableRows[r] = TableRow(rows[r])
  BY DEF TableRows
<1>4. TableRow(rows[r]) # Absent
  BY <1>2, AbsentAssumption
<1> QED
  BY <1>3, <1>4 DEF TableRow

LEMMA InitTable == Init => Table!Init
<1> SUFFICES ASSUME Init
             PROVE  /\ \E present \in SUBSET Recs :
                         TableRows = [r \in Recs |->
                           IF r \in present THEN [version |-> 1, applied |-> {}] ELSE Absent]
                    /\ Told = {}
  BY DEF Table!Init, TableRows, TableRow, Told
<1>1. \A r \in Recs : r \notin Fresh =>
        rows[r] = [version |-> 1, applied |-> {}, title |-> {}]
  BY DEF Init
<1>2. \A r \in Recs : r \notin Fresh => rows[r] \in Row
  BY <1>1 DEF Row
<1>3. TableRows = [r \in Recs |->
        IF r \in Recs \ Fresh THEN [version |-> 1, applied |-> {}] ELSE Absent]
  BY <1>1, <1>2, AbsentAssumption DEF Init, TableRows, TableRow
<1> QED
  BY <1>3 DEF Init, Told

\* The table shows versions and changes.
LEMMA SameTable ==
  ASSUME SameRows
  PROVE  TableRows' = TableRows
  BY DEF SameRows, TableRows, TableRow

\* A request that has committed is in the table, one that has not is not.
LEMMA TableShows ==
  ASSUME SavesOnly, LInv, CInv, UInv, NEW q \in Requests
  PROVE  /\ pc[q] \in Past => Table!Applied(q)
         /\ pc[q] \in Uncommitted => ~ Table!Applied(q)
<1>1. TypeOK
  BY DEF LInv, TInv
<1>2. \A r \in Recs : rows[r] # Absent =>
        TableRows[r] # Absent /\ TableRows[r].applied = rows[r].applied
  BY <1>1, TableRowIsPresent
<1>3. \A r \in Recs : rows[r] = Absent => TableRows[r] = Absent
  BY DEF TableRows
<1>4. ASSUME pc[q] \in Past
      PROVE  \E r \in Recs : TableRows[r] # Absent /\ q \in TableRows[r].applied
  <2>1. good[q] # << >> /\ good[q] \in Seq(Saved)
    BY <1>1, <1>4 DEF CInv, SavedSome, TypeOK
  <2>2. 1 \in DOMAIN good[q]
    BY <2>1
  <2>3. /\ good[q][1].rec \in Recs
        /\ rows[good[q][1].rec] # Absent
        /\ q \in rows[good[q][1].rec].applied
    BY <1>4, <2>2, GoodType DEF LInv, InvAt, AskedAt, KeptAt, Mark, Past, SavesOnly
  <2> QED
    BY <1>2, <2>3
<1>5. ASSUME pc[q] \in Uncommitted, NEW r \in Recs, TableRows[r] # Absent
      PROVE  q \notin TableRows[r].applied
  <2>1. rows[r] # Absent
    BY <1>3, <1>5
  <2>2. q \notin rows[r].applied
    BY <1>5, <2>1 DEF UInv, Hidden, Shown
  <2> QED
    BY <1>2, <2>1, <2>2
<1> QED
  BY <1>4, <1>5 DEF Table!Applied, Table!AppliedIn, TableRows, TableRow

\* A commit without an answer yet: the rows that q has written change at once.
LEMMA CommitIsUpdate ==
  ASSUME SavesOnly, LInv, TypeOK', CInv, UInv, NEW q \in Requests, Committing(q)
  PROVE  \/ \E S \in (SUBSET Recs) \ {{}} : Table!Update(q, S)
         \/ \E r \in Recs : Table!Create(q, r)
<1> DEFINE W == {r \in Recs : written[q][r] # Absent}
<1>1. /\ TypeOK /\ InvAt(q)
      /\ pc[q] = "end" /\ good[q] # << >> /\ ~ aborted[q]
      /\ rows' = Committed(q)
      /\ pc'[q] \in {"after", "unknown"}
      /\ \A p \in Requests \ {q} : pc'[p] = pc[p]
  BY CommitShows DEF LInv, TInv
<1>2. Told' = Told
  BY <1>1 DEF Told
<1>3. ~ Table!Applied(q)
  BY <1>1, TableShows DEF Uncommitted
<1>4. \A r \in Recs \ W : TableRows'[r] = TableRows[r]
  BY <1>1, CommittedRow DEF TableRows
<1>5. req[q].bump = 1 /\ Mark(q) = {q}
  BY <1>1 DEF InvAt, AskedAt, Mark, SavesOnly
<1>6. \A r \in W :
        /\ rows'[r] # Absent
        /\ Follows(q, rows'[r], rows[r])
        /\ TableRows'[r] = TableRow(rows'[r])
  BY <1>1, CommittedRow DEF TableRows
<1>7. W # {}
  <2>1. 1 \in DOMAIN good[q]
    BY <1>1 DEF TypeOK
  <2>2. good[q][1].rec \in Recs /\ written[q][good[q][1].rec] # Absent
    BY <1>1, <2>1, GoodType DEF LInv, InvAt, SavedAt, Open
  <2> QED
    BY <2>2
<1>8. CASE req[q].kind = "create"
  <2>1. PICK r \in W : TRUE
    BY <1>7
  <2>2. W = {r}
    BY <1>1, <1>8, <2>1 DEF InvAt, WrittenAt
  <2>3. rows[r] = Absent /\ TableRows'[r] = [version |-> 1, applied |-> {q}]
    BY <1>5, <1>6, <1>8, <2>1 DEF Follows, TableRow
  <2>4. TableRows' = [TableRows EXCEPT ![r] = [version |-> 1, applied |-> {q}]]
    BY <1>4, <2>2, <2>3 DEF TableRows
  <2>5. TableRows[r] = Absent
    BY <2>3, <2>1 DEF TableRows
  <2>6. Table!Create(q, r)
    BY <1>2, <1>3, <2>4, <2>5 DEF Table!Create, TableRows, TableRow, Told
  <2> QED
    BY <2>1, <2>6
<1>9. CASE req[q].kind # "create"
  <2>1. \A r \in W :
          /\ rows[r] # Absent
          /\ TableRows'[r] = [version |-> rows[r].version + 1,
                              applied |-> rows[r].applied \union {q}]
    BY <1>5, <1>6, <1>9 DEF Follows, TableRow
  <2>2. \A r \in W :
          /\ TableRows[r] # Absent
          /\ TableRows[r].version = rows[r].version
          /\ TableRows[r].applied = rows[r].applied
    BY <1>1, <2>1, TableRowIsPresent
  <2>3. TableRows' = [r \in Recs |->
          IF r \in W THEN [version |-> TableRows[r].version + 1,
                           applied |-> TableRows[r].applied \union {q}]
                     ELSE TableRows[r]]
    BY <1>4, <2>1, <2>2 DEF TableRows
  <2>4. PICK S \in (SUBSET Recs) \ {{}} : S = W
    BY <1>7
  <2>5. Table!Update(q, S)
    BY <1>2, <1>3, <2>2, <2>3, <2>4
    DEF Table!Update, TableRows, TableRow, Told
  <2> QED
    BY <2>5, Zenon
<1> QED
  BY <1>8, <1>9

\* A step that commits nothing answers at most one request, with success only
\* after its commit.
LEMMA SilentIsTell ==
  ASSUME SavesOnly, LInv, CInv, UInv, Silent
  PROVE  (\E q \in Requests : Table!Tell(q)) \/ UNCHANGED <<TableRows, Told>>
<1>1. TableRows' = TableRows /\ TypeOK
  BY SameTable DEF Silent, LInv, TInv
<1>2. CASE \E q \in Requests : AnswerOk(q)
  <2>1. PICK q \in Requests : AnswerOk(q)
    BY <1>2
  <2>2. Told' = Told \union {q}
    BY <1>1, <2>1 DEF AnswerOk, Told, TypeOK
  <2>3. Table!Applied(q)
    BY <2>1, TableShows DEF AnswerOk, Past
  <2> QED
    BY <1>1, <2>2, <2>3 DEF Table!Tell, TableRows, TableRow, Told
<1>3. CASE ~ \E q \in Requests : AnswerOk(q)
  <2>1. \A q \in Requests : pc'[q] = "ok" <=> pc[q] = "ok"
    BY <1>3 DEF Silent
  <2> QED
    BY <1>1, <2>1 DEF Told
<1> QED
  BY <1>2, <1>3

\* Requests that create and update records behave as on a table with optimistic
\* locking: each takes effect at one instant, on the rows as they are then.
THEOREM RecordsRefineVersionedTable ==
  ASSUME SavesOnly
  PROVE  Spec => ImplementsVersionedTable
<1>1. KeepsRows
  BY DEF SavesOnly
<1>2. LInv /\ LInv' /\ CInv /\ UInv /\ [Next]_vars => [Table!Next]_Table!vars
  <2> SUFFICES ASSUME LInv, LInv', CInv, UInv, [Next]_vars
               PROVE  Table!Next \/ UNCHANGED <<TableRows, Told>>
    BY DEF Table!vars, TableRows, TableRow, Told
  <2> QED
    BY <1>1, SilentOrCommit, CommitIsUpdate, SilentIsTell DEF Table!Next, LInv, TInv
<1>3. LInv /\ LInv' => TInv /\ TInv'
  BY DEF LInv
<1> QED
  BY InitLocks, NextLocks, InitClaims, NextClaims, InitHidden, NextHidden, InitTable,
     <1>1, <1>2, <1>3, PTL
  DEF Spec, Table!Spec, ImplementsVersionedTable
=============================================================================
