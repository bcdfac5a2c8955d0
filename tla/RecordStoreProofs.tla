-------------------------- MODULE RecordStoreProofs -------------------------
(***************************************************************************)
(* Theorems about RecordStore, for any number of requests and records: its *)
(* types; that nothing uncommitted is seen; that requests are never stuck  *)
(* while a connection is free, and every step brings them nearer to their  *)
(* answer; and the invariant of optimistic locking while nobody deletes    *)
(* rows, with it that no committed change is lost while no change affects  *)
(* a computed field and items name fields by their ids.                    *)
(***************************************************************************)
EXTENDS RecordStore, SequenceTheorems, Waiting, TLAPS

Pcs == Active \union {"idle", "ok", "err", "unknown", "crashed"}

AtItem == {"find", "count", "write", "remove"}

\* The item in hand is one of the request's, a callback has a record to handle.
InRange ==
  \A q \in Requests :
    /\ pc[q] = "idle" => item[q] = 1
    /\ pc[q] \in AtItem => item[q] \in 1 .. Len(req[q].items)
    /\ pc[q] \in {"titles", "retitle"} => todo[q] # << >>

TInv == TypeOK /\ InRange

-----------------------------------------------------------------------------
\* What a client asks for is a request with at least one record.
LEMMA AsksType ==
  ASSUME TypeOK, NEW q \in Requests, NEW k \in Kinds, NEW a \in Asks(q, k)
  PROVE  a \in Request /\ Len(a.items) \in Nat \ {0} /\ a.kind = k
<1> USE RecordAssumption
<1>1. CASE k = "create"
  <2>1. PICK r \in Recs, b \in Bumps :
          a = [kind |-> k, items |-> <<r>>, expected |-> 0, bump |-> b, key |-> "id"]
    BY <1>1 DEF Asks
  <2>2. <<r>> \in Seq(Recs) /\ Len(<<r>>) = 1
    OBVIOUS
  <2>3. b \in {1, 2}
    BY <2>1
  <2>4. a \in Request
    BY <1>1, <2>1, <2>2, <2>3 DEF Request, AllKinds
  <2> QED
    BY <2>1, <2>2, <2>4
<1>2. CASE k # "create"
  <2> DEFINE known == {r \in Recs : r \in Fresh => rows[r] # Absent}
             lists == IF k \in Batches
                        THEN UNION {[1 .. n -> known] : n \in 1 .. MaxItems}
                        ELSE [{1} -> known]
  <2>1. PICK s \in lists : \E e \in Nat, b \in {1, 2}, n \in {"id", "name"} :
          a = [kind |-> k, items |-> s, expected |-> e, bump |-> b, key |-> n]
    <3>1. \A r \in Recs : rows[r] # Absent => rows[r].version \in Nat
      BY DEF TypeOK, Row
    <3> QED
      BY <1>2, <3>1 DEF Asks
  <2>2. PICK n \in Nat \ {0} : s \in [1 .. n -> Recs]
    <3>1. CASE k \in Batches
      <4>1. PICK n \in 1 .. MaxItems : s \in [1 .. n -> known]
        BY <2>1, <3>1
      <4>2. s \in [1 .. n -> Recs]
        BY <4>1
      <4> QED
        BY <4>1, <4>2
    <3>2. CASE k \notin Batches
      <4>1. s \in [{1} -> known]
        BY <2>1, <3>2
      <4>2. {1} = 1 .. 1
        OBVIOUS
      <4>3. s \in [1 .. 1 -> Recs]
        BY <4>1, <4>2
      <4> QED
        BY <4>3
    <3> QED
      BY <3>1, <3>2
  <2>3. s \in Seq(Recs)
    BY <2>2, SeqDef
  <2>4. Len(s) = n
    BY <2>2, <2>3, LenProperties
  <2> QED
    BY <2>1, <2>2, <2>3, <2>4, RecordAssumption DEF Request
<1> QED
  BY <1>1, <1>2

-----------------------------------------------------------------------------
\* Going on after an item keeps the request within its items.
LEMMA GoesOn ==
  ASSUME TInv, NEW q \in Requests, pc[q] \in AtItem,
         NextItem(q) \/ ItemFails(q), req' = req
  PROVE  /\ pc' \in [Requests -> Pcs]
         /\ item' \in [Requests -> Nat]
         /\ \A p \in Requests :
              /\ pc'[p] = "idle" => item'[p] = 1
              /\ pc'[p] \in AtItem => item'[p] \in 1 .. Len(req'[p].items)
              /\ pc'[p] \in {"titles", "retitle"} => pc'[p] = pc[p]
<1>1. req[q].items \in Seq(Recs)
  BY DEF TInv, TypeOK, Request
<1>2. Len(req[q].items) \in Nat
  BY <1>1, LenProperties
<1>3. CASE pc' = [pc EXCEPT ![q] = "end"] /\ UNCHANGED item
  BY <1>3 DEF TInv, TypeOK, InRange, Pcs, Active, AtItem
<1>4. CASE pc' = [pc EXCEPT ![q] = "err"] /\ UNCHANGED item
  BY <1>4 DEF TInv, TypeOK, InRange, Pcs, Active, AtItem
<1>5. CASE /\ item[q] < Len(req[q].items)
           /\ item' = [item EXCEPT ![q] = @ + 1]
           /\ pc' = [pc EXCEPT ![q] = "find"]
  BY <1>2, <1>5 DEF TInv, TypeOK, InRange, Pcs, Active, AtItem
<1> QED
  BY <1>3, <1>4, <1>5 DEF NextItem, ItemFails

\* The item in hand is a record.
LEMMA CurrentType ==
  ASSUME TInv, NEW q \in Requests, pc[q] \in AtItem
  PROVE  Current(q) \in Recs
<1>1. req[q].items \in Seq(Recs)
  BY DEF TInv, TypeOK, Request
<1>2. item[q] \in 1 .. Len(req[q].items)
  BY DEF TInv, InRange
<1> QED
  BY <1>1, <1>2, ElementOfSeq DEF Current

LEMMA InitType == Init => TInv
<1> SUFFICES ASSUME Init
             PROVE  TInv
  OBVIOUS
<1>1. rows \in [Recs -> Row \union {Absent}]
  BY DEF Init, Row
<1>2. NoRequest \in Request
  BY DEF NoRequest, Request, AllKinds
<1>3. Blank \in Row
  BY DEF Blank, Row
<1>4. NoRows \in [Recs -> Row \union {Absent}]
  BY DEF NoRows
<1>5. TypeOK
  BY <1>1, <1>2, <1>3, <1>4 DEF Init, TypeOK, Pcs, Active
<1> QED
  BY <1>5 DEF Init, TInv, InRange, AtItem

-----------------------------------------------------------------------------
LEMMA BeginType ==
  ASSUME TInv, NEW q \in Requests, Begin(q)
  PROVE  TInv'
<1> USE RecordAssumption
<1>0. PICK k \in Kinds : \E a \in Asks(q, k) :
        /\ req' = [req EXCEPT ![q] = a]
        /\ mem' = [mem EXCEPT ![q] =
                     IF k = "create" THEN [version |-> a.bump, applied |-> {q}, title |-> {}]
                                     ELSE @]
        /\ pc' = [pc EXCEPT ![q] =
                    IF k = "create" THEN "count"
                    ELSE IF k = "delete" /\ Cached THEN "err" ELSE "find"]
  BY DEF Begin
<1>1. PICK a \in Asks(q, k) :
        /\ req' = [req EXCEPT ![q] = a]
        /\ mem' = [mem EXCEPT ![q] =
                     IF k = "create" THEN [version |-> a.bump, applied |-> {q}, title |-> {}]
                                     ELSE @]
        /\ pc' = [pc EXCEPT ![q] =
                    IF k = "create" THEN "count"
                    ELSE IF k = "delete" /\ Cached THEN "err" ELSE "find"]
  BY <1>0
<1>2. a \in Request /\ Len(a.items) \in Nat \ {0}
  BY AsksType DEF TInv
<1>3. [version |-> a.bump, applied |-> {q}, title |-> {}] \in Row
  BY <1>2 DEF Request, Row
<1>4. mem' \in [Requests -> Row]
  BY <1>1, <1>3 DEF TInv, TypeOK
<1>5. req' \in [Requests -> Request]
  BY <1>1, <1>2 DEF TInv, TypeOK
<1>6. TypeOK'
  BY <1>1, <1>4, <1>5 DEF Begin, TInv, TypeOK, Active, txVars, afterVars
<1>7. InRange'
  <2> SUFFICES ASSUME NEW p \in Requests
               PROVE  /\ pc'[p] = "idle" => item'[p] = 1
                      /\ pc'[p] \in AtItem => item'[p] \in 1 .. Len(req'[p].items)
                      /\ pc'[p] \in {"titles", "retitle"} => todo'[p] # << >>
    BY DEF InRange
  <2>1. item' = item /\ todo' = todo /\ pc[q] = "idle"
    BY DEF Begin, afterVars
  <2>2. CASE p = q
    <3>1. item'[q] = 1 /\ req'[q] = a
      BY <1>1, <2>1 DEF TInv, TypeOK, InRange
    <3>2. pc'[q] \in {"count", "err", "find"}
      BY <1>1 DEF TInv, TypeOK
    <3> QED
      BY <1>2, <2>2, <3>1, <3>2
  <2>3. CASE p # q
    BY <1>1, <2>1, <2>3 DEF TInv, TypeOK, InRange
  <2> QED
    BY <2>2, <2>3
<1> QED
  BY <1>6, <1>7 DEF TInv

\* The lookups that update: the entity is changed, or the version conflicts.
LEMMA ModifyType ==
  ASSUME TInv, NEW q \in Requests, NEW row \in Row, pc[q] = "find",
         Modify(q, row), cache' \subseteq Recs,
         UNCHANGED <<rows, req, insert, txVars, afterVars>>
  PROVE  TInv'
<1>1. Changed(q, row) \in Row
  <2>1. req[q].bump \in {1, 2}
    BY DEF TInv, TypeOK, Request
  <2> QED
    BY <2>1 DEF Changed, Row
<1>2. read' \in [Requests -> Row] /\ mem' \in [Requests -> Row]
  BY <1>1 DEF Modify, TInv, TypeOK
<1>3. /\ pc' \in [Requests -> Pcs]
      /\ item' \in [Requests -> Nat]
      /\ \A p \in Requests :
           /\ pc'[p] = "idle" => item'[p] = 1
           /\ pc'[p] \in AtItem => item'[p] \in 1 .. Len(req'[p].items)
           /\ pc'[p] \in {"titles", "retitle"} => pc'[p] = pc[p]
  <2>1. CASE Conflicts(q, row)
    <3>1. pc[q] \in AtItem /\ ItemFails(q)
      BY <2>1 DEF Modify, AtItem
    <3> QED
      BY <3>1, GoesOn
  <2>2. CASE ~ Conflicts(q, row)
    BY <2>2 DEF Modify, TInv, TypeOK, InRange, AtItem, Pcs, Active
  <2> QED
    BY <2>1, <2>2
<1>4. TypeOK'
  BY <1>2, <1>3 DEF TInv, TypeOK, Pcs, txVars, afterVars
<1>5. InRange'
  BY <1>3 DEF TInv, InRange, afterVars
<1> QED
  BY <1>4, <1>5 DEF TInv

LEMMA LookupType ==
  ASSUME TInv, NEW q \in Requests, Lookup(q)
  PROVE  TInv'
<1>1. CASE FindCached(q)
  <2>1. Blank \in Row
    BY DEF Blank, Row
  <2> QED
    BY <1>1, <2>1, ModifyType DEF FindCached, Updates, TInv, TypeOK
<1>2. CASE FindRow(q)
  <2>1. pc[q] = "find" /\ pc[q] \in AtItem
    BY <1>2 DEF FindRow, Updates, AtItem
  <2>2. Current(q) \in Recs
    BY <2>1, CurrentType
  <2>3. rows[Current(q)] \in Row
    BY <1>2, <2>2 DEF FindRow, TInv, TypeOK
  <2>4. cache' \subseteq Recs
    BY <1>2, <2>2 DEF FindRow, TInv, TypeOK
  <2> QED
    BY <1>2, <2>1, <2>3, <2>4, ModifyType DEF FindRow
<1>3. CASE FindMissing(q)
  <2>1. pc[q] \in AtItem
    BY <1>3 DEF FindMissing, AtItem
  <2>2. /\ pc' \in [Requests -> Pcs]
        /\ item' \in [Requests -> Nat]
        /\ \A p \in Requests :
             /\ pc'[p] = "idle" => item'[p] = 1
             /\ pc'[p] \in AtItem => item'[p] \in 1 .. Len(req'[p].items)
             /\ pc'[p] \in {"titles", "retitle"} => pc'[p] = pc[p]
    BY <1>3, <2>1, GoesOn DEF FindMissing
  <2> QED
    BY <1>3, <2>2 DEF FindMissing, TInv, TypeOK, InRange, Pcs, txVars, afterVars
<1>4. CASE FindToDelete(q)
  <2>1. pc[q] = "find" /\ pc[q] \in AtItem
    BY <1>4 DEF FindToDelete, AtItem
  <2>2. rows[Current(q)] \in Row
    BY <1>4, <2>1, CurrentType DEF FindToDelete, TInv, TypeOK
  <2>3. read' \in [Requests -> Row]
    BY <1>4, <2>2 DEF FindToDelete, TInv, TypeOK
  <2>4. TypeOK'
    BY <1>4, <2>3 DEF FindToDelete, TInv, TypeOK, Active, txVars, afterVars
  <2>5. InRange'
    BY <1>4, <2>1 DEF FindToDelete, TInv, TypeOK, InRange, AtItem, txVars, afterVars
  <2> QED
    BY <2>4, <2>5 DEF TInv
<1> QED
  BY <1>1, <1>2, <1>3, <1>4 DEF Lookup

-----------------------------------------------------------------------------
LEMMA StatementType ==
  ASSUME TInv, NEW q \in Requests, Statement(q)
  PROVE  TInv'
<1> DEFINE Went ==
      /\ pc' \in [Requests -> Pcs]
      /\ item' \in [Requests -> Nat]
      /\ \A p \in Requests :
           /\ pc'[p] = "idle" => item'[p] = 1
           /\ pc'[p] \in AtItem => item'[p] \in 1 .. Len(req'[p].items)
           /\ pc'[p] \in {"titles", "retitle"} => pc'[p] = pc[p]
<1>1. CASE Count(q)
  <2>1. pc[q] \in AtItem /\ req' = req
    BY <1>1 DEF Count, AtItem
  <2>2. Went /\ insert' \in [Requests -> BOOLEAN]
    <3>1. CASE ItemFails(q) /\ UNCHANGED insert
      BY <2>1, <3>1, GoesOn DEF TInv, TypeOK
    <3>2. CASE /\ insert' = [insert EXCEPT ![q] = Sees(q, Current(q)) = Absent]
               /\ pc' = [pc EXCEPT ![q] = "write"]
               /\ UNCHANGED item
      <4>1. insert' \in [Requests -> BOOLEAN]
        <5> DEFINE new == Sees(q, Current(q)) = Absent
        <5>1. new \in BOOLEAN
          OBVIOUS
        <5>2. insert' = [insert EXCEPT ![q] = new]
          BY <3>2
        <5> HIDE DEF new
        <5> QED
          BY <5>1, <5>2 DEF TInv, TypeOK
      <4>2. Went
        BY <2>1, <3>2 DEF TInv, TypeOK, InRange, Pcs, Active, AtItem
      <4> QED
        BY <4>1, <4>2
    <3> QED
      BY <1>1, <3>1, <3>2 DEF Count
  <2> QED
    BY <1>1, <2>2 DEF Count, TInv, TypeOK, InRange, Pcs, txVars, afterVars
<1>2. CASE Write(q)
  <2>1. pc[q] \in AtItem /\ req' = req
    BY <1>2 DEF Write, AtItem
  <2>2. Went
    BY <1>2, <2>1, GoesOn DEF Write
  <2>3. mem[q] \in Row /\ Current(q) \in Recs
    BY <2>1, CurrentType DEF TInv, TypeOK
  <2>4. written' \in [Requests -> [Recs -> Row \union {Absent}]]
    BY <1>2, <2>3 DEF Write, TInv, TypeOK
  <2>5. SavedRecord(q) \in Saved
    BY <2>3 DEF SavedRecord, Saved, Row
  <2>6. good' \in [Requests -> Seq(Saved)]
    BY <1>2, <2>5 DEF Write, TInv, TypeOK
  <2> QED
    BY <1>2, <2>2, <2>4, <2>6 DEF Write, TInv, TypeOK, InRange, Pcs, afterVars
<1>3. CASE WriteConflict(q)
  <2>1. pc[q] \in AtItem /\ req' = req
    BY <1>3 DEF WriteConflict, AtItem
  <2>2. Went
    BY <1>3, <2>1, GoesOn DEF WriteConflict
  <2>3. aborted[q] \in BOOLEAN /\ insert[q] \in BOOLEAN
    BY DEF TInv, TypeOK
  <2>4. (aborted[q] \/ insert[q]) \in BOOLEAN
    BY <2>3
  <2>5. aborted' \in [Requests -> BOOLEAN]
    <3> DEFINE new == aborted[q] \/ insert[q]
    <3>1. aborted' = [aborted EXCEPT ![q] = new]
      BY <1>3 DEF WriteConflict
    <3>2. new \in BOOLEAN
      BY <2>4
    <3> HIDE DEF new
    <3> QED
      BY <3>1, <3>2 DEF TInv, TypeOK
  <2> QED
    BY <1>3, <2>2, <2>5 DEF WriteConflict, TInv, TypeOK, InRange, Pcs, afterVars
<1>4. CASE DeadlockVictim(q)
  <2>1. pc[q] \in AtItem /\ req' = req
    BY <1>4 DEF DeadlockVictim, InCycle, AtItem
  <2>2. Went
    BY <1>4, <2>1, GoesOn DEF DeadlockVictim
  <2>3. NoRows \in [Recs -> Row \union {Absent}]
    BY DEF NoRows
  <2>4. /\ written' \in [Requests -> [Recs -> Row \union {Absent}]]
        /\ aborted' \in [Requests -> BOOLEAN]
    BY <1>4, <2>3 DEF DeadlockVictim, TInv, TypeOK
  <2> QED
    BY <1>4, <2>2, <2>4 DEF DeadlockVictim, TInv, TypeOK, InRange, Pcs, afterVars
<1>5. CASE Remove(q)
  <2>1. pc[q] \in AtItem /\ req' = req
    BY <1>5 DEF Remove, AtItem
  <2>2. Went
    BY <1>5, <2>1, GoesOn DEF Remove
  <2>3. Current(q) \in Recs /\ read[q] \in Row
    BY <2>1, CurrentType DEF TInv, TypeOK
  <2>4. rows' \in [Recs -> Row \union {Absent}]
    BY <1>5, <2>3 DEF Remove, TInv, TypeOK
  <2>5. [rec |-> Current(q), version |-> read[q].version, applied |-> read[q].applied] \in Saved
    BY <2>3 DEF Saved, Row
  <2>6. good' \in [Requests -> Seq(Saved)]
    BY <1>5, <2>5 DEF Remove, TInv, TypeOK
  <2> QED
    BY <1>5, <2>2, <2>4, <2>6 DEF Remove, TInv, TypeOK, InRange, Pcs, afterVars
<1> QED
  BY <1>1, <1>2, <1>3, <1>4, <1>5 DEF Statement

LEMMA EndType ==
  ASSUME TInv, NEW q \in Requests, End(q)
  PROVE  TInv'
<1>1. Committed(q) \in [Recs -> Row \union {Absent}]
  BY DEF Committed, TInv, TypeOK
<1>2. NoRows \in [Recs -> Row \union {Absent}]
  BY DEF NoRows
<1>3. CASE Commit(q)
  <2>1. /\ rows' \in [Recs -> Row \union {Absent}]
        /\ written' \in [Requests -> [Recs -> Row \union {Absent}]]
        /\ todo' \in [Requests -> Seq(Saved)]
    BY <1>1, <1>2, <1>3 DEF Commit, TInv, TypeOK
  <2> QED
    BY <1>3, <2>1 DEF Commit, TInv, TypeOK, InRange, AtItem, Active, reqVars
<1>4. CASE Rollback(q)
  BY <1>2, <1>4 DEF Rollback, TInv, TypeOK, InRange, AtItem, Active, reqVars, afterVars
<1>5. CASE CommitUnanswered(q)
  <2>1. /\ rows' \in [Recs -> Row \union {Absent}]
        /\ written' \in [Requests -> [Recs -> Row \union {Absent}]]
    BY <1>1, <1>2, <1>5 DEF CommitUnanswered, TInv, TypeOK
  <2> QED
    BY <1>5, <2>1 DEF CommitUnanswered, TInv, TypeOK, InRange, AtItem, Active, reqVars, afterVars
<1>6. CASE AnswerBatchDelete(q)
  BY <1>6 DEF AnswerBatchDelete, TInv, TypeOK, InRange, AtItem, Active,
    reqVars, txVars, afterVars
<1> QED
  BY <1>3, <1>4, <1>5, <1>6 DEF End

\* The record of the callback in hand.
LEMMA HeadType ==
  ASSUME TInv, NEW q \in Requests, todo[q] # << >>
  PROVE  /\ Head(todo[q]) \in Saved
         /\ Tail(todo[q]) \in Seq(Saved)
<1>1. todo[q] \in Seq(Saved)
  BY DEF TInv, TypeOK
<1> QED
  BY <1>1, HeadTailProperties

LEMMA AfterType ==
  ASSUME TInv, NEW q \in Requests, After(q)
  PROVE  TInv'
<1>1. CASE Announce(q)
  <2>1. /\ Head(todo[q]) \in Saved
        /\ Tail(todo[q]) \in Seq(Saved)
        /\ todo[q] # << >> /\ pc[q] = "after"
    BY <1>1, HeadType DEF Announce, Callback
  <2>2. announced' \subseteq [rec : Recs, version : Nat, by : Requests]
    <3>1. Event(q, Head(todo[q])) \in [rec : Recs, version : Nat, by : Requests]
      BY <2>1 DEF Saved, Event
    <3> QED
      BY <1>1, <3>1 DEF Announce, TInv, TypeOK
  <2>3. /\ pc' \in [Requests -> Pcs]
        /\ todo' \in [Requests -> Seq(Saved)]
    BY <1>1, <2>1 DEF Announce, TInv, TypeOK, Pcs, Active
  <2>4. TypeOK'
    BY <1>1, <2>2, <2>3 DEF Announce, TInv, TypeOK, Pcs, reqVars, txVars
  <2>5. InRange'
    BY <1>1, <2>1 DEF Announce, TInv, TypeOK, InRange, AtItem, reqVars
  <2> QED
    BY <2>4, <2>5 DEF TInv
<1>2. CASE ReadTitle(q)
  <2>1. todo[q] # << >> /\ pc[q] \in {"after", "titles"}
    BY <1>2 DEF ReadTitle, Callback, TInv, InRange
  <2>2. Head(todo[q]) \in Saved
    BY <2>1, HeadType
  <2> DEFINE shown == IF pc[q] = "titles" /\ rows[Head(todo[q]).rec] # Absent
                        THEN rows[Head(todo[q]).rec].applied ELSE Head(todo[q]).applied
  <2>3. shown \in SUBSET Requests
    BY <2>2 DEF TInv, TypeOK, Row, Saved
  <2>4. title' = [title EXCEPT ![q] = shown]
    BY <1>2 DEF ReadTitle
  <2> HIDE DEF shown
  <2>5. title' \in [Requests -> SUBSET Requests]
    BY <2>3, <2>4 DEF TInv, TypeOK
  <2> QED
    BY <1>2, <2>1, <2>5 DEF ReadTitle, TInv, TypeOK, InRange, AtItem, Active, reqVars, txVars
<1>3. CASE Retitle(q)
  <2>1. todo[q] # << >> /\ pc[q] = "retitle"
    BY <1>3 DEF Retitle, TInv, InRange
  <2>2. Tail(todo[q]) \in Seq(Saved)
    BY <2>1, HeadType
  <2>3. \A t \in Recs : rows[t] # Absent =>
          [rows[t] EXCEPT !.title = title[q]] \in Row
    <3>1. ASSUME NEW row \in Row, NEW shown \in SUBSET Requests
          PROVE  [row EXCEPT !.title = shown] \in Row
      BY DEF Row
    <3> QED
      BY <3>1 DEF TInv, TypeOK
  <2>4. rows' \in [Recs -> Row \union {Absent}]
    BY <1>3, <2>3 DEF Retitle, TInv, TypeOK
  <2>5. todo' \in [Requests -> Seq(Saved)]
    BY <1>3, <2>2 DEF Retitle, TInv, TypeOK
  <2> QED
    BY <1>3, <2>1, <2>4, <2>5
    DEF Retitle, TInv, TypeOK, InRange, AtItem, Active, reqVars, txVars
<1>4. CASE AnswerOk(q)
  BY <1>4 DEF AnswerOk, TInv, TypeOK, InRange, AtItem, Active, reqVars, txVars, afterVars
<1> QED
  BY <1>1, <1>2, <1>3, <1>4 DEF After

LEMMA NextType == TInv /\ [Next]_vars => TInv'
<1> SUFFICES ASSUME TInv, [Next]_vars
             PROVE  TInv'
  OBVIOUS
<1>1. ASSUME NEW q \in Requests, Begin(q)
      PROVE  TInv'
  BY <1>1, BeginType
<1>2. ASSUME NEW q \in Requests, Step(q)
      PROVE  TInv'
  BY <1>2, LookupType, StatementType, EndType, AfterType DEF Step
<1>3. ASSUME NEW r \in Recs, CacheExpires(r)
      PROVE  TInv'
  BY <1>3 DEF CacheExpires, TInv, TypeOK, InRange, reqVars, txVars, afterVars
<1>4. CASE Crash
  <2>1. NoRows \in [Recs -> Row \union {Absent}]
    BY DEF NoRows
  <2> QED
    BY <1>4, <2>1 DEF Crash, TInv, TypeOK, InRange, AtItem, Active, reqVars, afterVars
<1>5. CASE UNCHANGED vars
  BY <1>5 DEF vars, TInv, TypeOK, InRange, reqVars, txVars, afterVars
<1> QED
  BY <1>1, <1>2, <1>3, <1>4, <1>5 DEF Next

\* Every variable keeps its type: a request never reaches past its items, no
\* callback runs without a record, no row is half written.
THEOREM RecordsTypeOK == Spec => []TypeOK
<1>1. TInv => TypeOK
  BY DEF TInv
<1> QED
  BY InitType, NextType, <1>1, PTL DEF Spec

-----------------------------------------------------------------------------
\* What a step that p does not take leaves p.
SameAt(p) ==
  /\ pc'[p] = pc[p]
  /\ req'[p] = req[p]
  /\ item'[p] = item[p]
  /\ read'[p] = read[p]
  /\ mem'[p] = mem[p]
  /\ insert'[p] = insert[p]
  /\ written'[p] = written[p]
  /\ aborted'[p] = aborted[p]
  /\ good'[p] = good[p]
  /\ todo'[p] = todo[p]
  /\ title'[p] = title[p]

\* A step of a request leaves the others where they are.
LEMMA StepsApart ==
  ASSUME TInv, NEW q \in Requests, Begin(q) \/ Step(q), NEW p \in Requests \ {q}
  PROVE  SameAt(p)
<1> USE DEF SameAt, TInv, TypeOK
<1>1. CASE Begin(q)
  <2>1. PICK k \in Kinds : \E a \in Asks(q, k) :
          /\ req' = [req EXCEPT ![q] = a]
          /\ mem' = [mem EXCEPT ![q] =
                       IF k = "create" THEN [version |-> a.bump, applied |-> {q}, title |-> {}]
                                       ELSE @]
          /\ pc' = [pc EXCEPT ![q] =
                      IF k = "create" THEN "count"
                      ELSE IF k = "delete" /\ Cached THEN "err" ELSE "find"]
    BY <1>1 DEF Begin
  <2> QED
    BY <1>1, <2>1 DEF Begin, txVars, afterVars
<1>2. CASE Lookup(q)
  <2>1. ASSUME NEW row, Modify(q, row), UNCHANGED <<req, insert, txVars, afterVars>>
        PROVE  SameAt(p)
    BY <2>1 DEF Modify, ItemFails, NextItem, txVars, afterVars
  <2>2. CASE FindMissing(q)
    BY <2>2 DEF FindMissing, ItemFails, NextItem, txVars, afterVars
  <2>3. CASE FindToDelete(q)
    BY <2>3 DEF FindToDelete, txVars, afterVars
  <2> QED
    BY <1>2, <2>1, <2>2, <2>3 DEF Lookup, FindCached, FindRow
<1>3. CASE Count(q)
  <2> DEFINE new == Sees(q, Current(q)) = Absent
  <2>1. insert' = insert \/ insert' = [insert EXCEPT ![q] = new]
    BY <1>3 DEF Count
  <2> HIDE DEF new
  <2> QED
    BY <1>3, <2>1 DEF Count, ItemFails, NextItem, txVars, afterVars
<1>4. CASE Write(q)
  <2>1. /\ written' = [written EXCEPT ![q] = [written[q] EXCEPT ![Current(q)] = mem[q]]]
        /\ good' = [good EXCEPT ![q] = Append(good[q], SavedRecord(q))]
    BY <1>4 DEF Write
  <2> QED
    BY <1>4, <2>1 DEF Write, NextItem, afterVars
<1>5. CASE WriteConflict(q) \/ DeadlockVictim(q)
  BY <1>5 DEF WriteConflict, DeadlockVictim, ItemFails, NextItem, afterVars
<1>6. CASE Remove(q)
  BY <1>6 DEF Remove, NextItem, afterVars
<1>7. CASE End(q)
  BY <1>7 DEF End, Commit, Rollback, CommitUnanswered, AnswerBatchDelete, reqVars, txVars, afterVars
<1>8. CASE After(q)
  BY <1>8 DEF After, Announce, ReadTitle, Retitle, AnswerOk, reqVars, txVars, afterVars
<1> QED
  BY <1>1, <1>2, <1>3, <1>4, <1>5, <1>6, <1>7, <1>8 DEF Step, Statement

-----------------------------------------------------------------------------
(* Nothing uncommitted is seen, whatever the requests. *)

\* A copy that p holds has the change of q.
Holds(p, q) ==
  \/ q \in read[p].applied \union read[p].title
  \/ q \in mem[p].applied \union mem[p].title
  \/ \E r \in Recs : written[p][r] # Absent
                   /\ q \in written[p][r].applied \union written[p][r].title
  \/ \E k \in DOMAIN good[p] : q \in good[p][k].applied
  \/ \E k \in DOMAIN todo[p] : q \in todo[p][k].applied
  \/ q \in title[p]

\* The changes that requests have copies of, and those that the rows show.
Known == [p \in Requests |-> {q \in Requests : Holds(p, q)}]

Shown ==
  {q \in Requests :
     \E r \in Recs : rows[r] # Absent /\ q \in rows[r].applied \union rows[r].title}

\* A change keyed by names is never made.
Hidden == {q \in Requests : pc[q] \in Uncommitted \/ req[q].key = "name"}

\* Before the commit the change of a request is known to nobody else, and in
\* the beginning not to the request itself.
UInv ==
  \A q \in Hidden :
    /\ q \notin Shown
    /\ \A p \in Requests :
         p # q \/ req[q].key = "name" \/ pc[q] = "idle" => q \notin Known[p]

LEMMA InitHidden == Init => UInv
BY DEF Init, UInv, Hidden, Known, Holds, Shown, NoRows, Blank

\* What a step of p learns it reads from a row or changes itself, and only
\* after its commit does it reach the rows.
Flows(p) ==
  /\ Known'[p] \subseteq Known[p] \union Shown
       \union (IF req'[p].key = "id" THEN {p} ELSE {})
  /\ Shown' \subseteq Shown \union (IF pc'[p] \in Uncommitted THEN {} ELSE Known[p])
  /\ pc'[p] \in Uncommitted => pc[p] \in Uncommitted
  /\ pc[p] # "idle" => req'[p] = req[p]
  /\ pc[p] = "idle" => pc'[p] \in Uncommitted
  /\ pc'[p] # "idle"

\* The others learn nothing of it.
LEMMA OthersKnow ==
  ASSUME NEW o \in Requests, SameAt(o)
  PROVE  Known'[o] = Known[o]
BY DEF SameAt, Known, Holds

LEMMA FlowsKeep ==
  ASSUME UInv, NEW p \in Requests, Flows(p), \A o \in Requests \ {p} : SameAt(o)
  PROVE  UInv'
<1>0. \A o \in Requests \ {p} :
        pc'[o] = pc[o] /\ req'[o] = req[o] /\ Known'[o] = Known[o]
  BY OthersKnow DEF SameAt
<1> SUFFICES ASSUME NEW q \in Hidden'
             PROVE  /\ q \notin Shown'
                    /\ \A o \in Requests :
                         o # q \/ req'[q].key = "name" \/ pc'[q] = "idle" =>
                           q \notin Known'[o]
  BY DEF UInv
<1>1. q \in Requests /\ (pc'[q] \in Uncommitted \/ req'[q].key = "name")
  BY DEF Hidden
<1>2. q \in Hidden
  BY <1>0, <1>1 DEF Hidden, Flows, Uncommitted
<1>3. /\ q \notin Shown
      /\ \A o \in Requests :
           o # q \/ req[q].key = "name" \/ pc[q] = "idle" => q \notin Known[o]
  BY <1>2 DEF UInv
<1>4. q \notin Shown'
  BY <1>0, <1>1, <1>3 DEF Flows, Uncommitted
<1>5. ASSUME NEW o \in Requests, o # q \/ req'[q].key = "name" \/ pc'[q] = "idle"
      PROVE  q \notin Known'[o]
  BY <1>0, <1>1, <1>3, <1>5 DEF Flows, Uncommitted
<1> QED
  BY <1>4, <1>5

\* A step of p before its commit that leaves the rows alone.
LEMMA EarlyFlows ==
  ASSUME NEW p \in Requests, rows' = rows, req' = req,
         pc[p] \in Uncommitted, pc[p] # "idle", pc'[p] \in Uncommitted, pc'[p] # "idle",
         Known'[p] \subseteq Known[p] \union Shown
           \union (IF req[p].key = "id" THEN {p} ELSE {})
  PROVE  Flows(p)
<1>1. Shown' = Shown
  BY DEF Shown
<1> QED
  BY <1>1 DEF Flows

LEMMA BeginFlows ==
  ASSUME TInv, NEW p \in Requests, Begin(p)
  PROVE  Flows(p)
<1>1. PICK k \in Kinds : \E a \in Asks(p, k) :
        /\ req' = [req EXCEPT ![p] = a]
        /\ mem' = [mem EXCEPT ![p] =
                     IF k = "create" THEN [version |-> a.bump, applied |-> {p}, title |-> {}]
                                     ELSE @]
        /\ pc' = [pc EXCEPT ![p] =
                    IF k = "create" THEN "count"
                    ELSE IF k = "delete" /\ Cached THEN "err" ELSE "find"]
  BY DEF Begin
<1>2. PICK a \in Asks(p, k) :
        /\ req' = [req EXCEPT ![p] = a]
        /\ mem' = [mem EXCEPT ![p] =
                     IF k = "create" THEN [version |-> a.bump, applied |-> {p}, title |-> {}]
                                     ELSE @]
        /\ pc' = [pc EXCEPT ![p] =
                    IF k = "create" THEN "count"
                    ELSE IF k = "delete" /\ Cached THEN "err" ELSE "find"]
  BY <1>1
<1>3. UNCHANGED <<rows, read, written, good, todo, title>> /\ pc[p] = "idle"
  BY DEF Begin, txVars, afterVars
<1>4. pc'[p] \in {"count", "err", "find"} /\ req'[p] = a
  BY <1>2, <1>3 DEF TInv, TypeOK
<1>5. Known'[p] \subseteq Known[p] \union (IF req'[p].key = "id" THEN {p} ELSE {})
  <2>1. CASE k = "create"
    <3>1. a.key = "id"
      BY <2>1 DEF Asks
    <3>2. mem'[p] = [version |-> a.bump, applied |-> {p}, title |-> {}]
      BY <1>2, <2>1 DEF TInv, TypeOK
    <3> QED
      BY <1>3, <1>4, <3>1, <3>2 DEF Known, Holds
  <2>2. CASE k # "create"
    <3>1. mem'[p] = mem[p]
      BY <1>2, <2>2 DEF TInv, TypeOK
    <3> QED
      BY <1>3, <3>1 DEF Known, Holds
  <2> QED
    BY <2>1, <2>2
<1>6. Shown' = Shown
  BY <1>3 DEF Shown
<1> QED
  BY <1>3, <1>4, <1>5, <1>6 DEF Flows, Uncommitted

\* A failed item.
LEMMA FailFlows ==
  ASSUME TInv, NEW p \in Requests, pc[p] \in {"find", "count", "write"}, ItemFails(p),
         UNCHANGED <<rows, req, mem, good, todo, title>>,
         read'[p].applied \union read'[p].title
           \subseteq Shown \union read[p].applied \union read[p].title,
         \A r \in Recs : written'[p][r] # Absent => written'[p][r] = written[p][r]
  PROVE  Flows(p)
<1>1. pc'[p] \in {"find", "end", "err"}
  BY DEF ItemFails, NextItem, TInv, TypeOK
<1>2. Known'[p] \subseteq Known[p] \union Shown
  BY DEF Known, Holds
<1> QED
  BY <1>1, <1>2, EarlyFlows DEF Uncommitted

LEMMA ModifyFlows ==
  ASSUME TInv, NEW p \in Requests, NEW row \in Row, Updates(p), Modify(p, row),
         row = Blank \/ (Current(p) \in Recs /\ row = rows[Current(p)]),
         UNCHANGED <<rows, req, insert, txVars, afterVars>>
  PROVE  Flows(p)
<1>1. row.applied \union row.title \subseteq Shown
  <2>1. row.applied \union row.title \subseteq Requests
    BY DEF Row
  <2> QED
    BY <2>1, AbsentAssumption DEF Blank, Shown
<1>2. read'[p] = row
  BY DEF Modify, TInv, TypeOK
<1>3. CASE Conflicts(p, row)
  BY <1>1, <1>2, <1>3, FailFlows DEF Modify, Updates, txVars, afterVars
<1>4. CASE ~ Conflicts(p, row)
  <2>1. mem'[p] = Changed(p, row) /\ pc'[p] = "count"
    BY <1>4 DEF Modify, TInv, TypeOK
  <2>2. mem'[p].applied \union mem'[p].title
          \subseteq Shown \union (IF req[p].key = "id" THEN {p} ELSE {})
    BY <1>1, <2>1 DEF Changed
  <2>3. Known'[p] \subseteq Known[p] \union Shown
          \union (IF req[p].key = "id" THEN {p} ELSE {})
    BY <1>1, <1>2, <2>2 DEF Known, Holds, txVars, afterVars
  <2> QED
    BY <2>1, <2>3, EarlyFlows DEF Updates, Uncommitted
<1> QED
  BY <1>3, <1>4

LEMMA LookupFlows ==
  ASSUME TInv, NEW p \in Requests, Lookup(p)
  PROVE  Flows(p)
<1>1. CASE FindCached(p)
  <2>1. Blank \in Row
    BY DEF Blank, Row
  <2> QED
    BY <1>1, <2>1, ModifyFlows DEF FindCached
<1>2. CASE FindRow(p)
  <2>1. Current(p) \in Recs
    BY <1>2, CurrentType DEF FindRow, Updates, AtItem
  <2>2. rows[Current(p)] \in Row
    BY <1>2, <2>1 DEF FindRow, TInv, TypeOK
  <2> QED
    BY <1>2, <2>1, <2>2, ModifyFlows DEF FindRow
<1>3. CASE FindMissing(p)
  BY <1>3, FailFlows DEF FindMissing, txVars, afterVars
<1>4. CASE FindToDelete(p)
  <2>1. Current(p) \in Recs
    BY <1>4, CurrentType DEF FindToDelete, AtItem
  <2>2. read'[p] = rows[Current(p)] /\ pc'[p] = "remove"
    BY <1>4 DEF FindToDelete, TInv, TypeOK
  <2>3. Known'[p] \subseteq Known[p] \union Shown
    BY <1>4, <2>1, <2>2 DEF FindToDelete, Known, Holds, Shown, txVars, afterVars
  <2> QED
    BY <1>4, <2>2, <2>3, EarlyFlows DEF FindToDelete, Uncommitted
<1> QED
  BY <1>1, <1>2, <1>3, <1>4 DEF Lookup

\* What a request saves it knows.
LEMMA SavesKnown ==
  ASSUME TInv, NEW p \in Requests, NEW new \in Saved,
         good' = [good EXCEPT ![p] = Append(@, new)],
         new.applied \subseteq Known[p]
  PROVE  \A k \in DOMAIN good'[p] : good'[p][k].applied \subseteq Known[p]
<1>1. good[p] \in Seq(Saved) /\ good'[p] = Append(good[p], new)
  BY DEF TInv, TypeOK
<1>2. \A k \in DOMAIN good'[p] :
        good'[p][k] = new \/ (k \in DOMAIN good[p] /\ good'[p][k] = good[p][k])
  BY <1>1, AppendProperties, LenProperties
<1>3. \A k \in DOMAIN good[p] : good[p][k].applied \subseteq Known[p]
  <2>1. \A k \in DOMAIN good[p] : good[p][k] \in Saved
    BY <1>1, ElementOfSeq, LenProperties
  <2> QED
    BY <2>1 DEF Known, Holds, Saved
<1> QED
  BY <1>2, <1>3

LEMMA StatementFlows ==
  ASSUME TInv, NEW p \in Requests, Statement(p)
  PROVE  Flows(p)
<1> USE DEF TInv, TypeOK
<1>1. CASE Count(p)
  <2>1. CASE ItemFails(p)
    BY <1>1, <2>1, FailFlows DEF Count, txVars, afterVars
  <2>2. CASE ~ ItemFails(p)
    <3>1. pc' = [pc EXCEPT ![p] = "write"] /\ pc[p] = "count"
      BY <1>1, <2>2 DEF Count
    <3>2. pc'[p] = "write"
      BY <3>1
    <3>3. Known'[p] = Known[p]
      BY <1>1 DEF Count, Known, Holds, txVars, afterVars
    <3> QED
      BY <1>1, <3>1, <3>2, <3>3, EarlyFlows DEF Count, Uncommitted, txVars, afterVars
  <2> QED
    BY <2>1, <2>2
<1>2. CASE Write(p)
  <2>1. Current(p) \in Recs /\ mem[p] \in Row /\ pc[p] = "write"
    BY <1>2, CurrentType DEF Write, AtItem
  <2>2. written' = [written EXCEPT ![p] = [written[p] EXCEPT ![Current(p)] = mem[p]]]
    BY <1>2 DEF Write
  <2>3. pc'[p] \in {"find", "end"}
    BY <1>2 DEF Write, NextItem
  <2>4. SavedRecord(p) \in Saved /\ SavedRecord(p).applied \subseteq Known[p]
    BY <2>1 DEF SavedRecord, Saved, Row, Known, Holds
  <2>5. \A k \in DOMAIN good'[p] : good'[p][k].applied \subseteq Known[p]
    BY <1>2, <2>4, SavesKnown DEF Write
  <2>6. \A r \in Recs : written'[p][r] \in {written[p][r], mem[p]}
    BY <2>1, <2>2
  <2>7. ASSUME NEW q \in Requests, Holds(p, q)'
        PROVE  Holds(p, q)
    <3>1. CASE \/ q \in read'[p].applied \union read'[p].title
               \/ q \in mem'[p].applied \union mem'[p].title
               \/ \E k \in DOMAIN todo'[p] : q \in todo'[p][k].applied
               \/ q \in title'[p]
      <4>1. read' = read /\ mem' = mem /\ todo' = todo /\ title' = title
        BY <1>2 DEF Write, afterVars
      <4> QED
        BY <3>1, <4>1 DEF Holds
    <3>2. CASE \E r \in Recs : written'[p][r] # Absent
                 /\ q \in written'[p][r].applied \union written'[p][r].title
      BY <2>6, <3>2 DEF Holds
    <3>3. CASE \E k \in DOMAIN good'[p] : q \in good'[p][k].applied
      BY <2>5, <3>3 DEF Known
    <3> QED
      BY <2>7, <3>1, <3>2, <3>3 DEF Holds
  <2>8. Known'[p] \subseteq Known[p]
    BY <2>7 DEF Known
  <2> QED
    BY <1>2, <2>1, <2>3, <2>8, EarlyFlows DEF Write, Uncommitted
<1>3. CASE WriteConflict(p)
  BY <1>3, FailFlows DEF WriteConflict, afterVars
<1>4. CASE DeadlockVictim(p)
  <2>1. \A r \in Recs : written'[p][r] = Absent
    BY <1>4 DEF DeadlockVictim, NoRows
  <2> QED
    BY <1>4, <2>1, FailFlows DEF DeadlockVictim, InCycle, afterVars
<1>5. CASE Remove(p)
  <2>1. Current(p) \in Recs /\ read[p] \in Row /\ pc[p] = "remove"
    BY <1>5, CurrentType DEF Remove, AtItem
  <2> DEFINE new == [rec |-> Current(p), version |-> read[p].version,
                     applied |-> read[p].applied]
  <2>2. new \in Saved /\ new.applied \subseteq Known[p]
    BY <2>1 DEF Saved, Row, Known, Holds
  <2>3. \A k \in DOMAIN good'[p] : good'[p][k].applied \subseteq Known[p]
    <3>1. good' = [good EXCEPT ![p] = Append(@, new)]
      BY <1>5 DEF Remove
    <3> HIDE DEF new
    <3> QED
      BY <2>2, <3>1, SavesKnown
  <2>4. Known'[p] \subseteq Known[p]
    BY <1>5, <2>3 DEF Remove, Known, Holds, afterVars
  <2>5. pc'[p] \in {"find", "end"}
    BY <1>5 DEF Remove, NextItem
  <2>6. Shown' \subseteq Shown
    BY <1>5, <2>1 DEF Remove, Shown
  <2> QED
    BY <1>5, <2>1, <2>4, <2>5, <2>6 DEF Flows, Remove, Uncommitted
<1> QED
  BY <1>1, <1>2, <1>3, <1>4, <1>5 DEF Statement

\* A commit brings what the request has written into the rows.
LEMMA EndFlows ==
  ASSUME TInv, NEW p \in Requests, End(p)
  PROVE  Flows(p)
<1> USE DEF TInv, TypeOK
<1>1. /\ pc[p] = "end"
      /\ pc'[p] \in {"after", "err", "unknown", "ok"}
      /\ UNCHANGED <<req, read, mem, good, title>>
  BY DEF End, Commit, Rollback, CommitUnanswered, AnswerBatchDelete, reqVars, txVars, afterVars
<1>2. todo'[p] \in {todo[p], good[p]}
  BY DEF End, Commit, Rollback, CommitUnanswered, AnswerBatchDelete, afterVars
<1>3. \A r \in Recs : written'[p][r] \in {Absent, written[p][r]}
  BY DEF End, Commit, Rollback, CommitUnanswered, AnswerBatchDelete, NoRows, txVars
<1>4. Known'[p] \subseteq Known[p]
  BY <1>1, <1>2, <1>3 DEF Known, Holds
<1>5. Shown' \subseteq Shown \union (IF pc'[p] \in Uncommitted THEN {} ELSE Known[p])
  <2>1. CASE rows' = rows
    BY <2>1 DEF Shown
  <2>2. CASE rows' = Committed(p) /\ pc'[p] \notin Uncommitted
    BY <2>2 DEF Committed, Shown, Known, Holds
  <2> QED
    BY <2>1, <2>2 DEF End, Commit, Rollback, CommitUnanswered, AnswerBatchDelete, Uncommitted
<1> QED
  BY <1>1, <1>4, <1>5 DEF Flows, Uncommitted

LEMMA AfterFlows ==
  ASSUME TInv, NEW p \in Requests, After(p)
  PROVE  Flows(p)
<1> USE DEF TInv, TypeOK
<1>1. /\ pc[p] \in {"after", "titles", "retitle"}
      /\ pc'[p] \in {"after", "titles", "retitle", "ok"}
      /\ UNCHANGED <<req, read, mem, written, good>>
  BY DEF After, Announce, Callback, ReadTitle, Retitle, AnswerOk, reqVars, txVars, afterVars
<1>2. todo[p] # << >> =>
        /\ 1 \in DOMAIN todo[p] /\ Head(todo[p]) = todo[p][1] /\ Head(todo[p]) \in Saved
        /\ \A k \in DOMAIN Tail(todo[p]) :
             k + 1 \in DOMAIN todo[p] /\ Tail(todo[p])[k] = todo[p][k + 1]
  <2>1. todo[p] \in Seq(Saved)
    OBVIOUS
  <2> QED
    BY <2>1
<1>3. \A k \in DOMAIN todo'[p] : \E l \in DOMAIN todo[p] : todo'[p][k] = todo[p][l]
  <2>1. CASE todo' = todo
    BY <2>1
  <2>2. CASE todo' = [todo EXCEPT ![p] = Tail(@)] /\ todo[p] # << >>
    <3>1. todo'[p] = Tail(todo[p])
      BY <2>2
    <3> QED
      BY <1>2, <2>2, <3>1
  <2> QED
    BY <2>1, <2>2 DEF After, Announce, Callback, ReadTitle, Retitle, AnswerOk, InRange, afterVars
<1>4. title'[p] \subseteq Known[p] \union Shown
  <2>1. CASE ReadTitle(p)
    <3>1. todo[p] # << >>
      BY <2>1 DEF ReadTitle, Callback, InRange
    <3>2. \/ title'[p] = Head(todo[p]).applied
          \/ /\ rows[Head(todo[p]).rec] # Absent
             /\ title'[p] = rows[Head(todo[p]).rec].applied
      BY <2>1 DEF ReadTitle
    <3> QED
      BY <1>2, <3>1, <3>2 DEF Known, Holds, Shown, Saved, Row
  <2> QED
    BY <2>1 DEF After, Announce, Retitle, AnswerOk, Known, Holds, afterVars
<1>5. Known'[p] \subseteq Known[p] \union Shown
  <2>1. \A k \in DOMAIN todo'[p] :
          \A q \in Requests : q \in todo'[p][k].applied => q \in Known[p]
    BY <1>3 DEF Known, Holds
  <2> QED
    BY <1>1, <1>4, <2>1 DEF Known, Holds
<1>6. Shown' \subseteq Shown \union Known[p]
  <2>1. CASE rows' = rows
    BY <2>1 DEF Shown
  <2>2. CASE Retitle(p)
    <3>1. \A r \in Recs : rows'[r] = rows[r] \/
            (rows[r] # Absent /\ rows'[r] = [rows[r] EXCEPT !.title = title[p]])
      BY <2>2 DEF Retitle
    <3>2. ASSUME NEW row \in Row, NEW shown \in SUBSET Requests
          PROVE  /\ [row EXCEPT !.title = shown].applied = row.applied
                 /\ [row EXCEPT !.title = shown].title = shown
      BY DEF Row
    <3>3. \A r \in Recs : rows'[r] = rows[r] \/
            (rows[r] # Absent /\ rows'[r].applied = rows[r].applied
             /\ rows'[r].title = title[p])
      <4> SUFFICES ASSUME NEW r \in Recs, rows[r] # Absent,
                          rows'[r] = [rows[r] EXCEPT !.title = title[p]]
                   PROVE  rows'[r].applied = rows[r].applied /\ rows'[r].title = title[p]
        BY <3>1
      <4>1. rows[r] \in Row /\ title[p] \in SUBSET Requests
        OBVIOUS
      <4> QED
        BY <3>2, <4>1
    <3> QED
      BY <3>3 DEF Shown, Known, Holds
  <2> QED
    BY <1>1, <2>1, <2>2 DEF After, Announce, ReadTitle, AnswerOk, Uncommitted
<1> QED
  BY <1>1, <1>5, <1>6 DEF Flows, Uncommitted

LEMMA NextHidden == TInv /\ TInv' /\ UInv /\ [Next]_vars => UInv'
<1> SUFFICES ASSUME TInv, TInv', UInv, [Next]_vars
             PROVE  UInv'
  OBVIOUS
<1>1. ASSUME NEW p \in Requests, Begin(p) \/ Step(p)
      PROVE  UInv'
  <2>1. Flows(p)
    BY <1>1, BeginFlows, LookupFlows, StatementFlows, EndFlows, AfterFlows DEF Step
  <2>2. \A o \in Requests \ {p} : SameAt(o)
    BY <1>1, StepsApart
  <2> QED
    BY <2>1, <2>2, FlowsKeep
<1>2. CASE Crash
  <2>1. \A q \in Hidden' : q \in Hidden /\ (pc'[q] = pc[q] \/ pc'[q] # "idle")
    BY <1>2 DEF Crash, Hidden, Uncommitted, Active, reqVars, TInv, TypeOK
  <2>2. \A p \in Requests : Known'[p] \subseteq Known[p]
    BY <1>2 DEF Crash, Known, Holds, NoRows, reqVars, afterVars
  <2>3. Shown' = Shown /\ req' = req
    BY <1>2 DEF Crash, Shown, reqVars
  <2>4. Hidden' \subseteq Requests
    BY DEF Hidden
  <2> QED
    BY <2>1, <2>2, <2>3, <2>4 DEF UInv
<1>3. CASE UNCHANGED <<rows, pc, reqVars, txVars, afterVars>>
  BY <1>3 DEF UInv, Hidden, Shown, Known, Holds, reqVars, txVars, afterVars
<1> QED
  BY <1>1, <1>2, <1>3 DEF Next, CacheExpires, vars

\* Whatever clients ask for, deletes, recalculations and names included: rows
\* and titles hold nothing of a request before it commits, or when it fails.
THEOREM RecordsUncommittedUnseen == Spec => []UncommittedUnseen
<1>1. UInv => UncommittedUnseen
  BY DEF UInv, Hidden, Shown, UncommittedUnseen
<1> QED
  BY InitType, NextType, InitHidden, NextHidden, <1>1, PTL DEF Spec

-----------------------------------------------------------------------------
(* Deadlocks, and how far requests are *)

Deletes == {"delete", "batchDelete"}

\* Row locks belong to transactions at their items or their end: those of a
\* single request are taken with its only item, and deletes take none.  A
\* request saves an item at most once.
ProgressAt(q) ==
  /\ pc[q] \in AtItem /\ req[q].kind \notin Batches => Len(req[q].items) = 1
  /\ pc[q] = "remove" => req[q].kind \in Deletes
  /\ pc[q] \in {"count", "write"} => req[q].kind \notin Deletes
  /\ (\E r \in Recs : written[q][r] # Absent) =>
       /\ req[q].kind \notin Deletes
       /\ pc[q] \in {"find", "count", "write", "end"}
       /\ pc[q] = "end" \/ req[q].kind \in Batches
  /\ pc[q] = "idle" => good[q] = << >>
  /\ pc[q] \in AtItem => Len(good[q]) < item[q]
  /\ pc[q] = "end" => Len(good[q]) <= Len(req[q].items)

PInv == \A q \in Requests : ProgressAt(q)

\* How a request goes on after an item: with the next one, with the end, or
\* with an error.
LEMMA GoesOnTo ==
  ASSUME TInv, NEW q \in Requests, pc[q] \in AtItem
  PROVE  /\ Len(req[q].items) \in Nat /\ item[q] \in 1 .. Len(req[q].items)
         /\ Len(good[q]) \in Nat /\ Len(todo[q]) \in Nat
         /\ NextItem(q) =>
              \/ /\ pc'[q] = "find" /\ item'[q] = item[q] + 1
                 /\ item[q] < Len(req[q].items)
              \/ pc'[q] = "end" /\ item'[q] = item[q] /\ item[q] = Len(req[q].items)
         /\ ItemFails(q) => \/ req[q].kind \in Batches /\ NextItem(q)
                            \/ req[q].kind \notin Batches /\ pc'[q] = "err"
<1>1. req[q].items \in Seq(Recs) /\ good[q] \in Seq(Saved) /\ todo[q] \in Seq(Saved)
  BY DEF TInv, TypeOK, Request
<1>2. Len(req[q].items) \in Nat /\ Len(good[q]) \in Nat /\ Len(todo[q]) \in Nat
  BY <1>1, LenProperties
<1>3. item[q] \in 1 .. Len(req[q].items)
  BY DEF TInv, InRange
<1> QED
  BY <1>2, <1>3 DEF NextItem, ItemFails, TInv, TypeOK

\* Only batches name several records.
LEMMA AsksSingle ==
  ASSUME TInv, NEW q \in Requests, NEW k \in Kinds, NEW a \in Asks(q, k), k \notin Batches
  PROVE  Len(a.items) = 1
<1>1. CASE k = "create"
  BY <1>1 DEF Asks
<1>2. CASE k # "create"
  <2> DEFINE known == {r \in Recs : r \in Fresh => rows[r] # Absent}
  <2>1. a.items \in [{1} -> known]
    BY <1>2 DEF Asks
  <2>2. {1} = 1 .. 1
    OBVIOUS
  <2>3. a.items \in [1 .. 1 -> Recs]
    BY <2>1, <2>2
  <2>4. a.items \in Seq(Recs)
    BY <2>3, SeqDef
  <2> QED
    BY <2>3, <2>4, LenProperties
<1> QED
  BY <1>1, <1>2

LEMMA BeginProgress ==
  ASSUME TInv, NEW q \in Requests, ProgressAt(q), Begin(q)
  PROVE  ProgressAt(q)'
<1>1. PICK k \in Kinds : \E a \in Asks(q, k) :
        /\ req' = [req EXCEPT ![q] = a]
        /\ pc' = [pc EXCEPT ![q] =
                    IF k = "create" THEN "count"
                    ELSE IF k = "delete" /\ Cached THEN "err" ELSE "find"]
  BY DEF Begin
<1>2. PICK a \in Asks(q, k) :
        /\ req' = [req EXCEPT ![q] = a]
        /\ pc' = [pc EXCEPT ![q] =
                    IF k = "create" THEN "count"
                    ELSE IF k = "delete" /\ Cached THEN "err" ELSE "find"]
  BY <1>1
<1>3. /\ req'[q] = a /\ a.kind = k
      /\ \/ pc'[q] = "count" /\ k = "create"
         \/ pc'[q] \in {"find", "err"}
      /\ k \notin Batches => Len(a.items) = 1
  BY <1>2, AsksType, AsksSingle DEF TInv, TypeOK
<1>4. pc[q] = "idle" /\ UNCHANGED <<item, written, good>>
  BY DEF Begin, txVars
<1>5. item'[q] = 1 /\ good'[q] = << >> /\ \A r \in Recs : written'[q][r] = Absent
  BY <1>4 DEF TInv, InRange, ProgressAt
<1> QED
  BY <1>3, <1>5 DEF ProgressAt, Deletes, AtItem

\* A failed item saves nothing.
LEMMA FailProgress ==
  ASSUME TInv, NEW q \in Requests, ProgressAt(q), pc[q] \in {"find", "count", "write"},
         ItemFails(q), UNCHANGED <<req, good>>,
         \A r \in Recs : written'[q][r] \in {Absent, written[q][r]}
  PROVE  ProgressAt(q)'
<1>1. /\ Len(req[q].items) \in Nat /\ item[q] \in 1 .. Len(req[q].items)
      /\ Len(good[q]) \in Nat
      /\ \/ /\ pc'[q] = "find" /\ item'[q] = item[q] + 1 /\ req[q].kind \in Batches
         \/ /\ pc'[q] = "end" /\ item'[q] = item[q] /\ item[q] = Len(req[q].items)
         \/ /\ pc'[q] = "err" /\ req[q].kind \notin Batches
  BY GoesOnTo DEF AtItem
<1> QED
  BY <1>1 DEF ProgressAt, AtItem

\* A saved item is done with.
LEMMA SaveProgress ==
  ASSUME TInv, NEW q \in Requests, ProgressAt(q), pc[q] \in {"write", "remove"},
         NextItem(q), UNCHANGED req, NEW new \in Saved,
         good' = [good EXCEPT ![q] = Append(good[q], new)],
         pc[q] = "remove" => written' = written
  PROVE  ProgressAt(q)'
<1>1. /\ Len(req[q].items) \in Nat /\ item[q] \in 1 .. Len(req[q].items)
      /\ Len(good[q]) \in Nat
      /\ \/ /\ pc'[q] = "find" /\ item'[q] = item[q] + 1
            /\ item[q] < Len(req[q].items)
         \/ pc'[q] = "end" /\ item'[q] = item[q] /\ item[q] = Len(req[q].items)
  BY GoesOnTo DEF AtItem
<1>2. Len(good'[q]) = Len(good[q]) + 1
  <2>1. good[q] \in Seq(Saved) /\ good'[q] = Append(good[q], new)
    BY DEF TInv, TypeOK
  <2> QED
    BY <2>1, AppendProperties
<1>3. Len(good'[q]) <= item[q]
  <2>1. Len(good[q]) < item[q]
    BY DEF ProgressAt, AtItem
  <2>2. \A l, m, i \in Nat : l < i /\ m = l + 1 => m <= i
    OBVIOUS
  <2> QED
    BY <1>1, <1>2, <2>1, <2>2
<1>4. pc'[q] = "find" => req[q].kind \in Batches
  <2>1. req[q].kind \notin Batches => Len(req[q].items) = 1
    BY DEF ProgressAt, AtItem
  <2>2. \A i, n \in Nat : i \in 1 .. n /\ i < n => n # 1
    OBVIOUS
  <2>3. item[q] \in Nat
    BY <1>1
  <2> QED
    BY <1>1, <2>1, <2>2, <2>3
<1>5. ProgressAt(q)'
  <2>1. CASE pc'[q] = "find"
    <3>1. req'[q] = req[q] /\ req[q].kind \in Batches
      BY <1>4, <2>1
    <3>2. Len(good'[q]) < item'[q]
      BY <1>1, <1>2, <1>3, <2>1
    <3>3. (\E r \in Recs : written'[q][r] # Absent) => req[q].kind \notin Deletes
      BY DEF ProgressAt
    <3> QED
      BY <2>1, <3>1, <3>2, <3>3 DEF ProgressAt, AtItem
  <2>2. CASE pc'[q] = "end"
    <3>1. Len(good'[q]) <= Len(req'[q].items)
      BY <1>1, <1>3, <2>2
    <3>2. (\E r \in Recs : written'[q][r] # Absent) => req[q].kind \notin Deletes
      BY DEF ProgressAt
    <3> QED
      BY <2>2, <3>1, <3>2 DEF ProgressAt, AtItem
  <2> QED
    BY <1>1, <2>1, <2>2
<1> QED
  BY <1>5

LEMMA LookupProgress ==
  ASSUME TInv, NEW q \in Requests, ProgressAt(q), Lookup(q)
  PROVE  ProgressAt(q)'
<1> USE DEF txVars, afterVars
<1>1. ASSUME NEW row, Updates(q), Modify(q, row), UNCHANGED <<req, insert, txVars>>
      PROVE  ProgressAt(q)'
  <2>1. CASE Conflicts(q, row)
    BY <1>1, <2>1, FailProgress DEF Modify, Updates
  <2>2. CASE ~ Conflicts(q, row)
    <3>1. pc'[q] = "count" /\ item' = item
      BY <1>1, <2>2 DEF Modify, TInv, TypeOK
    <3> QED
      BY <1>1, <3>1 DEF Updates, ProgressAt, AtItem, Deletes
  <2> QED
    BY <2>1, <2>2
<1>2. CASE FindMissing(q)
  BY <1>2, FailProgress DEF FindMissing
<1>3. CASE FindToDelete(q)
  <2>1. pc'[q] = "remove" /\ UNCHANGED <<req, item, written, good>>
    BY <1>3 DEF FindToDelete, TInv, TypeOK
  <2> QED
    BY <1>3, <2>1 DEF FindToDelete, ProgressAt, AtItem, Deletes
<1> QED
  BY <1>1, <1>2, <1>3 DEF Lookup, FindCached, FindRow

LEMMA StatementProgress ==
  ASSUME TInv, NEW q \in Requests, ProgressAt(q), Statement(q)
  PROVE  ProgressAt(q)'
<1> USE DEF txVars, afterVars
<1>1. CASE Count(q)
  <2>1. pc[q] = "count" /\ UNCHANGED <<req, written, good>>
    BY <1>1 DEF Count
  <2>2. CASE ItemFails(q)
    BY <2>1, <2>2, FailProgress
  <2>3. CASE pc' = [pc EXCEPT ![q] = "write"] /\ UNCHANGED item
    <3>1. pc'[q] = "write"
      BY <2>3 DEF TInv, TypeOK
    <3> QED
      BY <2>1, <2>3, <3>1 DEF ProgressAt, AtItem
  <2> QED
    BY <1>1, <2>2, <2>3 DEF Count
<1>2. CASE Write(q)
  <2>1. Current(q) \in Recs /\ mem[q] \in Row
    BY <1>2, CurrentType DEF Write, AtItem, TInv, TypeOK
  <2>2. SavedRecord(q) \in Saved
    BY <2>1 DEF SavedRecord, Saved, Row
  <2> QED
    BY <1>2, <2>2, SaveProgress DEF Write
<1>3. CASE WriteConflict(q)
  BY <1>3, FailProgress DEF WriteConflict
<1>4. CASE DeadlockVictim(q)
  <2>1. pc[q] = "write" /\ \A r \in Recs : written'[q][r] = Absent
    BY <1>4 DEF DeadlockVictim, InCycle, NoRows, TInv, TypeOK
  <2> QED
    BY <1>4, <2>1, FailProgress DEF DeadlockVictim
<1>5. CASE Remove(q)
  <2> DEFINE new == [rec |-> Current(q), version |-> read[q].version,
                     applied |-> read[q].applied]
  <2>1. Current(q) \in Recs /\ read[q] \in Row
    BY <1>5, CurrentType DEF Remove, AtItem, TInv, TypeOK
  <2>2. new \in Saved
    BY <2>1 DEF Saved, Row
  <2>3. good' = [good EXCEPT ![q] = Append(good[q], new)]
    BY <1>5 DEF Remove
  <2> HIDE DEF new
  <2> QED
    BY <1>5, <2>2, <2>3, SaveProgress DEF Remove
<1> QED
  BY <1>1, <1>2, <1>3, <1>4, <1>5 DEF Statement

\* After its end a request holds no locks.
LEMMA OverProgress ==
  ASSUME TInv, NEW q \in Requests, ProgressAt(q), End(q) \/ After(q)
  PROVE  ProgressAt(q)'
<1> USE DEF TInv, TypeOK
<1>1. /\ pc[q] \in {"end", "after", "titles", "retitle"}
      /\ pc'[q] \in {"after", "titles", "retitle", "ok", "err", "unknown"}
  BY DEF End, Commit, Rollback, CommitUnanswered, AnswerBatchDelete,
    After, Announce, Callback, ReadTitle, Retitle, AnswerOk
<1>2. \A r \in Recs : written'[q][r] = Absent
  <2>1. CASE pc[q] = "end" /\ req[q].kind \in Deletes
    BY <2>1 DEF End, Commit, Rollback, CommitUnanswered, AnswerBatchDelete, NoRows,
      After, Announce, Callback, ReadTitle, Retitle, AnswerOk, txVars, ProgressAt
  <2>2. CASE pc[q] = "end" /\ req[q].kind \notin Deletes
    BY <2>2 DEF End, Commit, Rollback, CommitUnanswered, AnswerBatchDelete, NoRows,
      After, Announce, Callback, ReadTitle, Retitle, AnswerOk, Deletes
  <2>3. CASE pc[q] # "end"
    BY <1>1, <2>3 DEF End, Commit, Rollback, CommitUnanswered, AnswerBatchDelete,
      After, Announce, ReadTitle, Retitle, AnswerOk, txVars, ProgressAt
  <2> QED
    BY <2>1, <2>2, <2>3
<1> QED
  BY <1>1, <1>2 DEF ProgressAt, AtItem

LEMMA InitProgress == Init => PInv
<1> SUFFICES ASSUME Init, NEW q \in Requests
             PROVE  ProgressAt(q)
  BY DEF PInv
<1>1. pc[q] = "idle" /\ good[q] = << >> /\ \A r \in Recs : written[q][r] = Absent
  BY DEF Init, NoRows
<1> QED
  BY <1>1 DEF ProgressAt, AtItem

LEMMA NextProgress == TInv /\ PInv /\ [Next]_vars => PInv'
<1> SUFFICES ASSUME TInv, PInv, [Next]_vars, NEW p \in Requests
             PROVE  ProgressAt(p)'
  BY DEF PInv
<1>1. ProgressAt(p)
  BY DEF PInv
<1>2. ASSUME SameAt(p)
      PROVE  ProgressAt(p)'
  BY <1>1, <1>2 DEF SameAt, ProgressAt
<1>3. ASSUME NEW q \in Requests, Begin(q) \/ Step(q)
      PROVE  ProgressAt(p)'
  <2>1. CASE p = q
    BY <1>1, <1>3, <2>1, BeginProgress, LookupProgress, StatementProgress, OverProgress
    DEF Step
  <2>2. CASE p # q
    BY <1>2, <1>3, <2>2, StepsApart
  <2> QED
    BY <2>1, <2>2
<1>4. CASE Crash
  <2>1. pc'[p] \notin Active /\ (pc'[p] = "idle" => pc[p] = "idle")
        /\ good' = good /\ \A r \in Recs : written'[p][r] = Absent
    BY <1>4 DEF Crash, NoRows, Active, TInv, TypeOK
  <2> QED
    BY <1>1, <2>1 DEF ProgressAt, AtItem, Active
<1>5. CASE UNCHANGED <<rows, pc, reqVars, txVars, afterVars>>
  BY <1>2, <1>5 DEF SameAt, reqVars, txVars, afterVars
<1> QED
  BY <1>3, <1>4, <1>5 DEF Next, CacheExpires, vars

\* Who waits for a row has another request waiting for a row with it: locks are
\* held by open transactions, and those wait only when they write.
LEMMA HoldersWrite ==
  ASSUME TInv, PInv, \A p \in Requests : pc[p] \in Active => AwaitsRows(p),
         NEW q \in Requests, pc[q] \in Active
  PROVE  \E o \in Requests \ {q} :
           /\ pc[o] = "write"
           /\ pc[q] = "write" => written[o][Current(q)] # Absent
<1>1. PICK r \in Recs : /\ LockedByOther(q, r)
                        /\ pc[q] = "write" => r = Current(q)
  <2>1. CASE pc[q] \in {"write", "remove"} /\ LockedByOther(q, Current(q))
    BY <2>1, CurrentType DEF AtItem
  <2>2. CASE /\ pc[q] = "retitle"
             /\ \E t \in Linked[Head(todo[q]).rec] : rows[t] # Absent /\ LockedByOther(q, t)
    <3>1. Head(todo[q]).rec \in Recs
      BY <2>2, HeadType DEF TInv, InRange, Saved
    <3>2. Linked[Head(todo[q]).rec] \subseteq Recs
      BY <3>1, RecordAssumption
    <3> QED
      BY <2>2, <3>2
  <2> QED
    BY <2>1, <2>2 DEF AwaitsRows
<1>2. PICK o \in Requests \ {q} : written[o][r] # Absent
  BY <1>1 DEF LockedByOther
<1>3. pc[o] \in {"find", "count", "write", "end"}
  BY <1>2 DEF PInv, ProgressAt
<1>4. pc[o] = "write"
  BY <1>3 DEF Active, AwaitsRows
<1> QED
  BY <1>1, <1>2, <1>4

LEMMA AwaitsInCycle ==
  ASSUME TInv, PInv, IsFiniteSet(Requests),
         \A p \in Requests : pc[p] \in Active => AwaitsRows(p),
         NEW q \in Requests, pc[q] \in Active
  PROVE  \E p \in Requests : pc[p] \in Active /\ InCycle(p)
<1> DEFINE B == {p \in Requests : pc[p] = "write"}
           W == {w \in Requests \X Requests : written[w[2]][Current(w[1])] # Absent}
<1>1. IsFiniteSet(B) /\ B # {}
  BY HoldersWrite, FS_Subset
<1>2. \A t \in B : \E u \in B \ {t} : <<t, u>> \in W
  BY HoldersWrite DEF Active
<1>3. PICK S \in SUBSET B :
        /\ S # {}
        /\ \A t \in S : \E u \in S \ {t} : <<t, u>> \in W
        /\ \A u \in S : \E t \in S \ {u} : <<t, u>> \in W
  <2> HIDE DEF B, W
  <2> QED
    BY <1>1, <1>2, CycleOfWaits
<1>4. PICK p \in S : TRUE
  BY <1>3
<1>5. InCycle(p)
  <2>1. \A t \in S : \E u \in S \ {t} : written[u][Current(t)] # Absent
    BY <1>3
  <2>2. \A u \in S : \E t \in S \ {u} : written[u][Current(t)] # Absent
    BY <1>3
  <2> QED
    BY <1>3, <1>4, <2>1, <2>2 DEF InCycle
<1> QED
  BY <1>4, <1>5 DEF Active

\* While a connection is free some open request can go on, or is one of a cycle
\* that the database breaks: deletes and titles, which wait for rows outside of
\* a transaction, are no part of it.
THEOREM RecordsNeverStuck ==
  ASSUME IsFiniteSet(Requests) PROVE Spec => []NeverStuck
<1>1. TInv /\ PInv => NeverStuck
  BY AwaitsInCycle DEF NeverStuck
<1> QED
  BY InitType, NextType, InitProgress, NextProgress, <1>1, PTL DEF Spec

-----------------------------------------------------------------------------
(* Every step brings the answer nearer *)

Falls(q) == StepsLeft'[q] \in 0 .. (StepsLeft[q] - 1)

\* The numbers that StepsLeft counts with.
LEMMA StepsCount ==
  ASSUME TInv, NEW q \in Requests
  PROVE  /\ Len(req[q].items) \in Nat /\ item[q] \in Nat /\ Len(todo[q]) \in Nat
         /\ pc[q] \in AtItem => item[q] \in 1 .. Len(req[q].items)
         /\ pc[q] \in {"titles", "retitle"} => Len(todo[q]) >= 1
<1>1. req[q].items \in Seq(Recs) /\ todo[q] \in Seq(Saved)
  BY DEF TInv, TypeOK, Request
<1>2. Len(req[q].items) \in Nat /\ Len(todo[q]) \in Nat
  BY <1>1, LenProperties
<1>3. todo[q] # << >> => Len(todo[q]) >= 1
  BY <1>1, <1>2, EmptySeq
<1> QED
  BY <1>2, <1>3 DEF TInv, TypeOK, InRange

\* An open request has a step left at least.
LEMMA StepIsLeft ==
  ASSUME TInv, NEW q \in Requests, pc[q] \in Active
  PROVE  StepsLeft[q] \in Nat \ {0}
<1> DEFINE n == Len(req[q].items)
           l == Len(todo[q])
<1>1. /\ n \in Nat /\ item[q] \in Nat /\ l \in Nat
      /\ pc[q] \in AtItem => item[q] \in 1 .. n
      /\ pc[q] \in {"titles", "retitle"} => l >= 1
  BY StepsCount
<1>2. /\ pc[q] \in AtItem => n - item[q] \in Nat
      /\ 3 * n + 2 \in Nat
  <2> HIDE DEF n
  <2> QED
    BY <1>1
<1>3. /\ pc[q] = "find" => StepsLeft[q] = 3 * n + 2 + 4 * (n - item[q]) + 3
      /\ pc[q] \in {"count", "remove"} => StepsLeft[q] = 3 * n + 2 + 4 * (n - item[q]) + 2
      /\ pc[q] = "write" => StepsLeft[q] = 3 * n + 2 + 4 * (n - item[q]) + 1
      /\ pc[q] = "end" => StepsLeft[q] = 3 * n + 2
      /\ pc[q] = "after" => StepsLeft[q] = 3 * l + 1
      /\ pc[q] = "titles" => StepsLeft[q] = 3 * l
      /\ pc[q] = "retitle" => StepsLeft[q] = 3 * l - 1
  BY DEF StepsLeft
<1> HIDE DEF n, l
<1>4. CASE pc[q] \in AtItem
  <2> DEFINE k == n - item[q]
             m == 3 * n + 2
  <2>1. k \in Nat /\ m \in Nat
    BY <1>2, <1>4
  <2>2. StepsLeft[q] \in {m + 4 * k + 1, m + 4 * k + 2, m + 4 * k + 3}
    BY <1>3, <1>4 DEF AtItem
  <2> HIDE DEF k, m
  <2> QED
    BY <2>1, <2>2
<1>5. CASE pc[q] \notin AtItem
  BY <1>1, <1>3, <1>5 DEF Active, AtItem
<1> QED
  BY <1>4, <1>5

\* Being over is nearer than anything.
LEMMA OverFalls ==
  ASSUME TInv, NEW q \in Requests, pc[q] \in Active, pc'[q] \notin Active
  PROVE  Falls(q)
<1>1. StepsLeft'[q] = 0
  BY DEF StepsLeft, Active
<1> QED
  BY <1>1, StepIsLeft DEF Falls

\* So is the next statement for the item in hand.
LEMMA ItemFalls ==
  ASSUME TInv, NEW q \in Requests, UNCHANGED <<req, item>>,
         \/ pc[q] = "find" /\ pc'[q] \in {"count", "remove"}
         \/ pc[q] = "count" /\ pc'[q] = "write"
  PROVE  Falls(q)
<1> DEFINE k == 3 * Len(req[q].items) + 2 + 4 * (Len(req[q].items) - item[q])
<1>1. /\ pc[q] = "find" => StepsLeft[q] = k + 3
      /\ pc[q] = "count" => StepsLeft[q] = k + 2
      /\ pc'[q] \in {"count", "remove"} => StepsLeft'[q] = k + 2
      /\ pc'[q] = "write" => StepsLeft'[q] = k + 1
  BY DEF StepsLeft
<1>2. k \in Nat
  <2> DEFINE n == Len(req[q].items)
  <2>1. n \in Nat /\ item[q] \in 1 .. n
    BY StepsCount DEF AtItem
  <2> HIDE DEF n
  <2>2. n - item[q] \in Nat
    BY <2>1
  <2>3. 3 * n + 2 + 4 * (n - item[q]) \in Nat
    BY <2>1, <2>2
  <2> QED
    BY <2>3 DEF n
<1> HIDE DEF k
<1> QED
  BY <1>1, <1>2 DEF Falls

\* So is the next item, or the end.
LEMMA NextItemFalls ==
  ASSUME TInv, NEW q \in Requests, pc[q] \in AtItem, UNCHANGED req, NextItem(q)
  PROVE  Falls(q)
<1> DEFINE n == Len(req[q].items)
           i == item[q]
           k == 3 * n + 2
<1>1. /\ n \in Nat /\ i \in 1 .. n
      /\ \/ pc'[q] = "find" /\ item'[q] = i + 1 /\ i < n
         \/ pc'[q] = "end" /\ item'[q] = i /\ i = n
  BY GoesOnTo
<1>2. \E d \in {1, 2, 3} : StepsLeft[q] = k + 4 * (n - i) + d
  BY DEF StepsLeft, AtItem
<1>3. /\ pc'[q] = "find" => StepsLeft'[q] = k + 4 * (n - item'[q]) + 3
      /\ pc'[q] = "end" => StepsLeft'[q] = k
  BY DEF StepsLeft
<1>4. k \in Nat
  <2> HIDE DEF n
  <2> QED
    BY <1>1
<1> HIDE DEF n, i, k
<1>5. CASE pc'[q] = "find" /\ item'[q] = i + 1 /\ i < n
  <2>1. PICK m \in Nat : n - i = m + 1 /\ n - (i + 1) = m
    <3>1. n - (i + 1) \in Nat /\ n - i = (n - (i + 1)) + 1
      BY <1>1, <1>5
    <3> QED
      BY <3>1
  <2>2. /\ \E d \in {1, 2, 3} : StepsLeft[q] = k + 4 * (m + 1) + d
        /\ StepsLeft'[q] = k + 4 * m + 3
    BY <1>2, <1>3, <1>5, <2>1
  <2> QED
    BY <1>4, <2>2 DEF Falls
<1>6. CASE pc'[q] = "end" /\ item'[q] = i /\ i = n
  <2>1. n - i = 0
    BY <1>1, <1>6
  <2>2. (\E d \in {1, 2, 3} : StepsLeft[q] = k + 4 * 0 + d) /\ StepsLeft'[q] = k
    BY <1>2, <1>3, <1>6, <2>1
  <2> QED
    BY <1>4, <2>2 DEF Falls
<1> QED
  BY <1>1, <1>5, <1>6

LEMMA FailFalls ==
  ASSUME TInv, NEW q \in Requests, pc[q] \in AtItem, UNCHANGED req, ItemFails(q)
  PROVE  Falls(q)
<1>1. CASE NextItem(q)
  BY <1>1, NextItemFalls
<1>2. CASE pc'[q] = "err"
  BY <1>2, OverFalls DEF AtItem, Active
<1> QED
  BY <1>1, <1>2, GoesOnTo

LEMMA LookupFalls ==
  ASSUME TInv, NEW q \in Requests, Lookup(q)
  PROVE  Falls(q)
<1> USE DEF AtItem
<1>1. ASSUME NEW row, Updates(q), Modify(q, row), UNCHANGED req
      PROVE  Falls(q)
  <2>1. CASE Conflicts(q, row)
    BY <1>1, <2>1, FailFalls DEF Modify, Updates
  <2>2. CASE ~ Conflicts(q, row)
    <3>1. pc'[q] = "count" /\ UNCHANGED item
      BY <1>1, <2>2 DEF Modify, TInv, TypeOK
    <3> QED
      BY <1>1, <3>1, ItemFalls DEF Updates
  <2> QED
    BY <2>1, <2>2
<1>2. CASE FindMissing(q)
  BY <1>2, FailFalls DEF FindMissing
<1>3. CASE FindToDelete(q)
  <2>1. pc[q] = "find" /\ pc'[q] = "remove" /\ UNCHANGED <<req, item>>
    BY <1>3 DEF FindToDelete, TInv, TypeOK
  <2> QED
    BY <2>1, ItemFalls
<1> QED
  BY <1>1, <1>2, <1>3 DEF Lookup, FindCached, FindRow

LEMMA StatementFalls ==
  ASSUME TInv, NEW q \in Requests, Statement(q)
  PROVE  Falls(q)
<1> USE DEF AtItem
<1>1. CASE Count(q)
  <2>1. pc[q] = "count" /\ UNCHANGED req
    BY <1>1 DEF Count
  <2>2. CASE ItemFails(q)
    BY <2>1, <2>2, FailFalls
  <2>3. CASE pc' = [pc EXCEPT ![q] = "write"] /\ UNCHANGED item
    <3>1. pc'[q] = "write"
      BY <2>3 DEF TInv, TypeOK
    <3> QED
      BY <2>1, <2>3, <3>1, ItemFalls
  <2> QED
    BY <1>1, <2>2, <2>3 DEF Count
<1>2. CASE Write(q) \/ Remove(q)
  BY <1>2, NextItemFalls DEF Write, Remove
<1>3. CASE WriteConflict(q) \/ DeadlockVictim(q)
  BY <1>3, FailFalls DEF WriteConflict, DeadlockVictim, InCycle
<1> QED
  BY <1>1, <1>2, <1>3 DEF Statement

\* A commit leaves one callback for each saved item, of which there are not
\* more than items.
LEMMA EndFalls ==
  ASSUME TInv, NEW q \in Requests, ProgressAt(q), End(q)
  PROVE  Falls(q)
<1>1. pc[q] = "end"
  BY DEF End, Commit, Rollback, CommitUnanswered, AnswerBatchDelete
<1>2. CASE Commit(q)
  <2> DEFINE n == Len(req[q].items)
             g == Len(good[q])
  <2>1. pc'[q] = "after" /\ todo'[q] = good[q]
    BY <1>2 DEF Commit, TInv, TypeOK
  <2>2. StepsLeft[q] = 3 * n + 2 /\ StepsLeft'[q] = 3 * g + 1
    BY <1>1, <2>1 DEF StepsLeft
  <2>3. n \in Nat /\ g \in Nat /\ g <= n
    <3>1. good[q] \in Seq(Saved)
      BY DEF TInv, TypeOK
    <3> QED
      BY <1>1, <3>1, StepsCount, LenProperties DEF ProgressAt
  <2> HIDE DEF n, g
  <2> QED
    BY <2>2, <2>3 DEF Falls
<1>3. CASE Rollback(q) \/ CommitUnanswered(q) \/ AnswerBatchDelete(q)
  <2>1. pc'[q] \in {"err", "unknown", "ok"}
    BY <1>3 DEF Rollback, CommitUnanswered, AnswerBatchDelete, TInv, TypeOK
  <2> QED
    BY <1>1, <2>1, OverFalls DEF Active
<1> QED
  BY <1>2, <1>3 DEF End

LEMMA AfterFalls ==
  ASSUME TInv, NEW q \in Requests, After(q)
  PROVE  Falls(q)
<1> DEFINE l == Len(todo[q])
           m == Len(todo'[q])
<1>1. pc[q] \in {"after", "titles", "retitle"}
  BY DEF After, Announce, Callback, ReadTitle, Retitle, AnswerOk
<1>2. /\ pc[q] = "after" => StepsLeft[q] = 3 * l + 1
      /\ pc[q] = "titles" => StepsLeft[q] = 3 * l
      /\ pc[q] = "retitle" => StepsLeft[q] = 3 * l - 1
      /\ pc'[q] = "after" => StepsLeft'[q] = 3 * m + 1
      /\ pc'[q] = "titles" => StepsLeft'[q] = 3 * m
      /\ pc'[q] = "retitle" => StepsLeft'[q] = 3 * m - 1
  BY DEF StepsLeft
<1>3. l \in Nat
  BY StepsCount
<1>4. todo'[q] = Tail(todo[q]) /\ todo[q] # << >> => l >= 1 /\ m = l - 1
  <2>1. todo[q] \in Seq(Saved)
    BY DEF TInv, TypeOK
  <2> QED
    BY <1>3, <2>1, HeadTailProperties, EmptySeq
<1>5. todo[q] # << >> => l >= 1
  <2>1. todo[q] \in Seq(Saved)
    BY DEF TInv, TypeOK
  <2> QED
    BY <1>3, <2>1, EmptySeq
<1>6. todo'[q] = todo[q] => m = l
  OBVIOUS
<1>7. \/ pc[q] = "after" /\ pc'[q] = "titles" /\ todo'[q] = todo[q]
      \/ /\ pc[q] \in {"after", "retitle"} /\ pc'[q] = "after"
         /\ todo'[q] = Tail(todo[q]) /\ todo[q] # << >>
      \/ /\ pc[q] \in {"after", "titles"} /\ pc'[q] = "retitle"
         /\ todo'[q] = todo[q] /\ todo[q] # << >>
      \/ pc'[q] = "ok"
  BY DEF After, Announce, Callback, ReadTitle, Retitle, AnswerOk, afterVars,
    TInv, TypeOK, InRange
<1> HIDE DEF l, m
<1>8. CASE pc'[q] = "ok"
  BY <1>1, <1>8, OverFalls DEF Active
<1> QED
  BY <1>2, <1>3, <1>4, <1>5, <1>6, <1>7, <1>8 DEF Falls

\* A step of a request, and a crash, brings its end nearer; the steps of the
\* others leave it where it is.
LEMMA NextFalls ==
  ASSUME TInv, PInv, [Next]_vars, NEW p \in Requests, pc[p] \in Active
  PROVE  /\ StepsLeft'[p] \in 0 .. StepsLeft[p]
         /\ Step(p) => StepsLeft'[p] < StepsLeft[p]
<1>1. StepsLeft[p] \in Nat \ {0}
  BY StepIsLeft
<1>2. ASSUME Step(p)
      PROVE  Falls(p)
  BY <1>2, LookupFalls, StatementFalls, EndFalls, AfterFalls DEF PInv, Step
<1>3. ASSUME NEW q \in Requests \ {p}, Begin(q) \/ Step(q)
      PROVE  StepsLeft'[p] = StepsLeft[p]
  <2>1. SameAt(p)
    BY <1>3, StepsApart
  <2> QED
    BY <2>1 DEF SameAt, StepsLeft
<1>4. ASSUME Crash
      PROVE  Falls(p)
  <2>1. pc'[p] \notin Active
    BY <1>4 DEF Crash, Active
  <2> QED
    BY <2>1, OverFalls
<1>5. ASSUME UNCHANGED <<pc, reqVars, txVars, afterVars>>
      PROVE  StepsLeft'[p] = StepsLeft[p]
  BY <1>5 DEF reqVars, afterVars, StepsLeft
<1>6. Falls(p) \/ StepsLeft'[p] = StepsLeft[p]
  BY <1>2, <1>3, <1>4, <1>5 DEF Next, Begin, CacheExpires, Active, vars
<1>7. \A m, n : n \in Nat \ {0} /\ (m \in 0 .. (n - 1) \/ m = n) => m \in 0 .. n
  OBVIOUS
<1>8. \A m, n : n \in Nat \ {0} /\ m \in 0 .. (n - 1) => m < n
  OBVIOUS
<1> QED
  BY <1>1, <1>2, <1>6, <1>7, <1>8 DEF Falls

\* Every step of an open request brings its answer nearer, and nothing puts it
\* off: with RecordsNeverStuck, requests that find a connection are answered.
THEOREM RecordsStepsRunOut == Spec => StepsRunOut
<1> DEFINE Nearer == \A q \in Requests :
                       pc[q] \in Active =>
                         /\ StepsLeft'[q] \in 0 .. StepsLeft[q]
                         /\ Step(q) => StepsLeft'[q] < StepsLeft[q]
<1>1. TInv /\ PInv /\ [Next]_vars => [Nearer]_vars
  BY NextFalls
<1> HIDE DEF Nearer
<1>2. Spec => [][Nearer]_vars
  BY InitType, NextType, InitProgress, NextProgress, <1>1, PTL DEF Spec
<1> QED
  BY <1>2 DEF StepsRunOut, Nearer

-----------------------------------------------------------------------------
(* The rows while the requests are those that save entities *)

\* Nobody deletes rows.
KeepsRows == Kinds \subseteq {"create", "update", "batchUpdate"}

\* No change affects a computed field.
NoRecalculation == Bumps \subseteq {1}

\* Batch items name their fields by ids.
NamesByIds == FieldKeys \subseteq {"id"}

SavesOnly == KeepsRows /\ NoRecalculation /\ NamesByIds

\* The change that q makes to the data of a row.
Mark(q) == IF req[q].key = "id" THEN {q} ELSE {}

\* Where a transaction is open.
Open == {"find", "count", "write", "end"}

AskedAt(q) ==
  /\ pc[q] # "remove"
  /\ pc[q] = "idle" => good[q] = << >>
  /\ pc[q] # "idle" =>
       /\ req[q].kind \in {"create", "update", "batchUpdate"}
       /\ req[q].kind = "batchUpdate" \/ NoRecalculation => req[q].bump = 1
       /\ NamesByIds => req[q].key = "id"
       /\ req[q].kind # "batchUpdate" => Len(req[q].items) = 1
       /\ req[q].kind = "create" => req[q].key = "id"

\* A row that follows another one, or a new one: the version is the next, and
\* the change of q is made unless a recalculation has let a stale copy pass.
Follows(q, new, row) ==
  IF row = Absent
    THEN req[q].kind = "create" /\ new.version = req[q].bump /\ new.applied = {q}
    ELSE /\ new.version = row.version + 1
         /\ req[q].bump = 1 => /\ req[q].kind # "create"
                               /\ new.applied = row.applied \union Mark(q)

\* A row written but not committed follows the committed one; a request with
\* a single item has written nothing until it is done with the item.
WrittenAt(q) ==
  \A r \in Recs :
    written[q][r] # Absent =>
      /\ pc[q] \in Open
      /\ req[q].kind = "batchUpdate" \/ (pc[q] = "end" /\ r = Current(q))
      /\ Follows(q, written[q][r], rows[r])

\* The row a request has read is not newer than the committed one, and the
\* same as the committed one when it has its version.
ReadsPast(q) ==
  LET row == rows[Current(q)]
  IN  /\ row # Absent
      /\ read[q].version <= row.version
      /\ read[q].version = row.version => read[q].applied = row.applied
      /\ mem[q].version = read[q].version + req[q].bump
      /\ mem[q].applied = read[q].applied \union Mark(q)

InHandAt(q) ==
  pc[q] \in {"count", "write"} =>
    IF req[q].kind = "create"
      THEN mem[q].version = req[q].bump /\ mem[q].applied = {q}
      ELSE /\ read[q] # Blank => ReadsPast(q)
           /\ pc[q] = "write" => ~ insert[q] /\ read[q] # Blank

\* What a transaction has saved it has written, unless it will roll back.
SavedAt(q) ==
  pc[q] \in Open /\ ~ aborted[q] =>
    \A k \in DOMAIN good[q] :
      /\ written[q][good[q][k].rec] # Absent
      /\ written[q][good[q][k].rec].version = good[q][k].version

\* What a request has saved stays in the rows, answered or not.
KeptAt(q) ==
  pc[q] \in Past \union {"unknown"} =>
    \A k \in DOMAIN good[q] :
      /\ rows[good[q][k].rec] # Absent
      /\ NoRecalculation => Mark(q) \subseteq rows[good[q][k].rec].applied

InvAt(q) ==
  AskedAt(q) /\ WrittenAt(q) /\ InHandAt(q) /\ SavedAt(q) /\ KeptAt(q)

Versioned == \A r \in Recs : rows[r] # Absent => rows[r].version >= 1

\* A row is written by one open transaction at a time.
Exclusive ==
  \A p, q \in Requests : \A r \in Recs :
    written[p][r] # Absent /\ written[q][r] # Absent => p = q

LInv ==
  /\ TInv
  /\ Versioned
  /\ Exclusive
  /\ \A q \in Requests : InvAt(q)

-----------------------------------------------------------------------------
\* Rows stay, each change has a version of its own, and without recalculations
\* they only gain changes.
RowsGrow ==
  \A r \in Recs :
    rows[r] # Absent =>
      /\ rows'[r] # Absent
      /\ rows[r].version <= rows'[r].version
      /\ NoRecalculation => rows[r].applied \subseteq rows'[r].applied
      /\ rows[r].version = rows'[r].version => rows[r].applied = rows'[r].applied

\* Nobody else commits a row that p has written.
RowsLocked(p) ==
  \A r \in Recs :
    written[p][r] # Absent =>
      /\ rows[r] = Absent <=> rows'[r] = Absent
      /\ rows[r] # Absent => /\ rows[r].version = rows'[r].version
                             /\ rows[r].applied = rows'[r].applied

\* What a request has saved are records.
LEMMA GoodType ==
  ASSUME TInv, NEW q \in Requests, NEW k \in DOMAIN good[q]
  PROVE  good[q][k].rec \in Recs
<1>1. good[q] \in Seq(Saved)
  BY DEF TInv, TypeOK
<1>2. DOMAIN good[q] = 1 .. Len(good[q])
  BY <1>1, LenProperties
<1>3. good[q][k] \in Saved
  BY <1>1, <1>2, ElementOfSeq
<1> QED
  BY <1>3 DEF Saved

LEMMA OthersKeep ==
  ASSUME LInv, TInv', NEW p \in Requests, SameAt(p), RowsGrow, RowsLocked(p)
  PROVE  InvAt(p)'
<1>1. InvAt(p)
  BY DEF LInv
<1>2. AskedAt(p)'
  BY <1>1 DEF InvAt, AskedAt, SameAt
<1>3. WrittenAt(p)'
  <2>1. Current(p)' = Current(p)
    BY DEF Current, SameAt
  <2> SUFFICES ASSUME NEW r \in Recs, written'[p][r] # Absent
               PROVE  /\ pc'[p] \in Open
                      /\ req'[p].kind = "batchUpdate"
                           \/ (pc'[p] = "end" /\ r = Current(p)')
                      /\ Follows(p, written[p][r], rows[r])'
    BY DEF WrittenAt
  <2> QED
    BY <1>1, <2>1 DEF InvAt, WrittenAt, Follows, SameAt, RowsLocked, Mark
<1>4. InHandAt(p)'
  <2>1. Current(p)' = Current(p)
    BY DEF Current, SameAt
  <2>2. ASSUME pc[p] \in {"count", "write"}, ReadsPast(p)
        PROVE  ReadsPast(p)'
    <3>1. Current(p) \in Recs
      BY <2>2, CurrentType DEF AtItem, LInv
    <3>2. rows[Current(p)] \in Row /\ rows'[Current(p)] \in Row /\ read[p] \in Row
      BY <2>2, <3>1 DEF LInv, TInv, TypeOK, ReadsPast, RowsGrow
    <3> QED
      BY <2>1, <2>2, <3>1, <3>2 DEF ReadsPast, SameAt, RowsGrow, Row, Mark
  <2> QED
    BY <1>1, <2>2 DEF InvAt, InHandAt, SameAt
<1>5. SavedAt(p)'
  BY <1>1 DEF InvAt, SavedAt, SameAt
<1>6. KeptAt(p)'
  <2>1. \A k \in DOMAIN good[p] : good[p][k].rec \in Recs
    BY GoodType DEF LInv
  <2> QED
    BY <1>1, <2>1 DEF InvAt, KeptAt, SameAt, RowsGrow, Mark
<1> QED
  BY <1>2, <1>3, <1>4, <1>5, <1>6 DEF InvAt

\* A step of q that leaves the committed rows alone.
LEMMA OwnStep ==
  ASSUME LInv, TInv', NEW q \in Requests, rows' = rows,
         \A p \in Requests \ {q} : SameAt(p), Exclusive',
         AskedAt(q)', WrittenAt(q)', InHandAt(q)', SavedAt(q)', KeptAt(q)'
  PROVE  LInv'
<1>1. RowsGrow /\ \A p \in Requests : RowsLocked(p)
  BY DEF RowsGrow, RowsLocked, LInv, TInv, TypeOK, Row
<1>2. \A p \in Requests \ {q} : InvAt(p)'
  BY <1>1, OthersKeep
<1>3. InvAt(q)'
  BY DEF InvAt
<1>4. Versioned'
  BY DEF LInv, Versioned
<1> QED
  BY <1>2, <1>3, <1>4 DEF LInv

\* A step of q that writes nothing either.
LEMMA QuietStep ==
  ASSUME LInv, TInv', NEW q \in Requests, rows' = rows, written' = written,
         \A p \in Requests \ {q} : SameAt(p),
         AskedAt(q)', WrittenAt(q)', InHandAt(q)', SavedAt(q)', KeptAt(q)'
  PROVE  LInv'
<1>1. Exclusive'
  BY DEF LInv, Exclusive
<1> QED
  BY <1>1, OwnStep

-----------------------------------------------------------------------------
\* The database starts with the rows at version 1, and nobody in between.
LEMMA InitLocks == Init => LInv
<1> SUFFICES ASSUME Init
             PROVE  LInv
  OBVIOUS
<1>1. Versioned
  BY DEF Init, Versioned
<1>2. Exclusive
  BY DEF Init, Exclusive, NoRows
<1>3. ASSUME NEW q \in Requests
      PROVE  InvAt(q)
  BY <1>3 DEF Init, InvAt, AskedAt, WrittenAt, InHandAt, SavedAt, KeptAt, NoRows, Open, Past
<1> QED
  BY <1>1, <1>2, <1>3, InitType DEF LInv

\* While nobody deletes rows, a client asks for a change of a record, of several
\* in a batch only.
LEMMA AsksToSave ==
  ASSUME KeepsRows, TInv, NEW q \in Requests, NEW k \in Kinds, NEW a \in Asks(q, k)
  PROVE  /\ a.kind = k
         /\ k = "batchUpdate" \/ NoRecalculation => a.bump = 1
         /\ NamesByIds => a.key = "id"
         /\ k \in {"create", "update", "batchUpdate"}
         /\ k # "batchUpdate" => Len(a.items) = 1
         /\ k = "create" => a.key = "id"
<1>1. k \in {"create", "update", "batchUpdate"}
  BY DEF KeepsRows
<1>2. CASE k = "create"
  <2>1. PICK r \in Recs, b \in Bumps :
          a = [kind |-> k, items |-> <<r>>, expected |-> 0, bump |-> b, key |-> "id"]
    BY <1>2, RecordAssumption DEF Asks
  <2>2. NoRecalculation => b = 1
    BY <2>1 DEF NoRecalculation
  <2>3. Len(<<r>>) = 1
    OBVIOUS
  <2> QED
    BY <1>1, <1>2, <2>1, <2>2, <2>3
<1>3. CASE k # "create"
  <2>1. /\ a.kind = k
        /\ a.bump \in IF k = "update" THEN Bumps ELSE {1}
        /\ a.key \in FieldKeys \union {"id"}
    BY <1>3 DEF Asks
  <2>2. CASE k = "update"
    <3> DEFINE known == {r \in Recs : r \in Fresh => rows[r] # Absent}
    <3>1. a.items \in [{1} -> known]
      BY <1>3, <2>2 DEF Asks, Batches
    <3>2. {1} = 1 .. 1
      OBVIOUS
    <3>3. a.items \in [1 .. 1 -> Recs]
      BY <3>1, <3>2
    <3>4. Len(a.items) = 1
      BY <3>3, SeqDef, LenProperties
    <3> QED
      BY <1>1, <1>3, <2>1, <2>2, <3>4 DEF NoRecalculation, NamesByIds
  <2> QED
    BY <1>1, <1>3, <2>1, <2>2 DEF NoRecalculation, NamesByIds
<1> QED
  BY <1>2, <1>3

LEMMA BeginKeeps ==
  ASSUME KeepsRows, LInv, TInv', NEW q \in Requests, Begin(q)
  PROVE  LInv'
<1>0. TInv /\ InvAt(q)
  BY DEF LInv
<1>1. PICK k \in Kinds : \E a \in Asks(q, k) :
        /\ req' = [req EXCEPT ![q] = a]
        /\ mem' = [mem EXCEPT ![q] =
                     IF k = "create" THEN [version |-> a.bump, applied |-> {q}, title |-> {}]
                                     ELSE @]
        /\ pc' = [pc EXCEPT ![q] =
                    IF k = "create" THEN "count"
                    ELSE IF k = "delete" /\ Cached THEN "err" ELSE "find"]
  BY DEF Begin
<1>2. PICK a \in Asks(q, k) :
        /\ req' = [req EXCEPT ![q] = a]
        /\ mem' = [mem EXCEPT ![q] =
                     IF k = "create" THEN [version |-> a.bump, applied |-> {q}, title |-> {}]
                                     ELSE @]
        /\ pc' = [pc EXCEPT ![q] =
                    IF k = "create" THEN "count"
                    ELSE IF k = "delete" /\ Cached THEN "err" ELSE "find"]
  BY <1>1
<1>3. /\ a.kind = k
      /\ k = "batchUpdate" \/ NoRecalculation => a.bump = 1
      /\ NamesByIds => a.key = "id"
      /\ k = "create" => a.key = "id"
      /\ k \in {"create", "update", "batchUpdate"}
      /\ k # "batchUpdate" => Len(a.items) = 1
  BY <1>0, AsksToSave
<1>4. /\ req'[q] = a
      /\ pc'[q] = IF k = "create" THEN "count" ELSE "find"
      /\ k = "create" => mem'[q] = [version |-> a.bump, applied |-> {q}, title |-> {}]
  BY <1>0, <1>2, <1>3 DEF TInv, TypeOK
<1>5. \A p \in Requests \ {q} : SameAt(p)
  BY StepsApart DEF LInv
<1>6. rows' = rows /\ written' = written /\ good' = good /\ pc[q] = "idle"
  BY DEF Begin, txVars
<1>7. AskedAt(q)'
  BY <1>3, <1>4 DEF AskedAt
<1>8. WrittenAt(q)'
  BY <1>0, <1>6 DEF InvAt, WrittenAt, Open
<1>9. InHandAt(q)'
  BY <1>3, <1>4 DEF InHandAt
<1>10. SavedAt(q)' /\ KeptAt(q)'
  BY <1>0, <1>4, <1>6 DEF InvAt, AskedAt, SavedAt, KeptAt, Past
<1> QED
  BY <1>5, <1>6, <1>7, <1>8, <1>9, <1>10, QuietStep

\* A failed item ends a single request, which has written nothing, or leaves a
\* batch with what it has saved so far.
LEMMA FailKeeps ==
  ASSUME LInv, TInv', NEW q \in Requests, pc[q] \in {"find", "count", "write"},
         ItemFails(q), UNCHANGED <<rows, written, req, good>>,
         aborted[q] => aborted'[q], \A p \in Requests \ {q} : SameAt(p)
  PROVE  LInv'
<1>1. TInv /\ InvAt(q)
  BY DEF LInv
<1>2. /\ pc'[q] \in {"find", "end", "err"}
      /\ pc'[q] = "err" => req[q].kind # "batchUpdate"
  BY <1>1 DEF ItemFails, NextItem, Batches, TInv, TypeOK
<1>3. AskedAt(q)'
  BY <1>1, <1>2 DEF InvAt, AskedAt
<1>4. WrittenAt(q)'
  BY <1>1, <1>2 DEF InvAt, WrittenAt, Follows, Open, Mark
<1>5. InHandAt(q)'
  BY <1>2 DEF InHandAt
<1>6. SavedAt(q)'
  BY <1>1, <1>2 DEF InvAt, SavedAt, Open
<1>7. KeptAt(q)'
  BY <1>2 DEF KeptAt, Past
<1> QED
  BY <1>3, <1>4, <1>5, <1>6, <1>7, QuietStep

\* The row read is the committed one, or blank.
LEMMA ModifyKeeps ==
  ASSUME LInv, TInv', NEW q \in Requests, NEW row \in Row, Updates(q), Modify(q, row),
         row = Blank \/ (row = rows[Current(q)] /\ row # Absent),
         UNCHANGED <<rows, req, insert, txVars>>, \A p \in Requests \ {q} : SameAt(p)
  PROVE  LInv'
<1>1. TInv /\ InvAt(q)
  BY DEF LInv
<1>2. pc[q] = "find" /\ req[q].kind # "create"
  BY DEF Updates
<1>3. CASE Conflicts(q, row)
  BY <1>2, <1>3, FailKeeps DEF Modify, txVars
<1>4. CASE ~ Conflicts(q, row)
  <2>1. /\ read' = [read EXCEPT ![q] = row]
        /\ mem' = [mem EXCEPT ![q] = Changed(q, row)]
        /\ pc' = [pc EXCEPT ![q] = "count"]
        /\ UNCHANGED item
    BY <1>4 DEF Modify
  <2>2. read'[q] = row /\ mem'[q] = Changed(q, row) /\ pc'[q] = "count"
    BY <1>1, <2>1 DEF TInv, TypeOK
  <2>3. /\ mem'[q].version = row.version + req[q].bump
        /\ mem'[q].applied = row.applied \union Mark(q)
    BY <2>2 DEF Changed, Mark
  <2>4. Current(q)' = Current(q)
    BY <2>1 DEF Current
  <2>5. InHandAt(q)'
    <3>1. row # Blank => row = rows[Current(q)] /\ row # Absent
      OBVIOUS
    <3>2. row.version \in Nat
      BY DEF Row
    <3> QED
      BY <1>2, <2>2, <2>3, <2>4, <3>1, <3>2 DEF InHandAt, ReadsPast, Mark
  <2>6. AskedAt(q)'
    BY <1>1, <1>2, <2>2 DEF InvAt, AskedAt, txVars
  <2>7. WrittenAt(q)'
    BY <1>1, <1>2, <2>2 DEF InvAt, WrittenAt, Follows, Open, txVars, Mark
  <2>8. SavedAt(q)' /\ KeptAt(q)'
    BY <1>1, <1>2, <2>2 DEF InvAt, SavedAt, KeptAt, Open, Past, txVars
  <2> QED
    BY <2>5, <2>6, <2>7, <2>8, QuietStep DEF txVars
<1> QED
  BY <1>3, <1>4

LEMMA LookupKeeps ==
  ASSUME LInv, TInv', NEW q \in Requests, Lookup(q)
  PROVE  LInv'
<1>1. TInv /\ InvAt(q) /\ \A p \in Requests \ {q} : SameAt(p)
  BY StepsApart DEF LInv, Step
<1>2. CASE FindCached(q)
  <2>1. Blank \in Row
    BY DEF Blank, Row
  <2> QED
    BY <1>1, <1>2, <2>1, ModifyKeeps DEF FindCached
<1>3. CASE FindRow(q)
  <2>1. Current(q) \in Recs
    BY <1>1, <1>3, CurrentType DEF FindRow, Updates, AtItem
  <2>2. rows[Current(q)] \in Row
    BY <1>1, <1>3, <2>1 DEF FindRow, TInv, TypeOK
  <2> QED
    BY <1>1, <1>3, <2>2, ModifyKeeps DEF FindRow
<1>4. CASE FindMissing(q)
  BY <1>1, <1>4, FailKeeps DEF FindMissing, txVars
<1>5. CASE FindToDelete(q)
  BY <1>1, <1>5 DEF FindToDelete, InvAt, AskedAt
<1> QED
  BY <1>2, <1>3, <1>4, <1>5 DEF Lookup

LEMMA CountKeeps ==
  ASSUME LInv, TInv', NEW q \in Requests, Count(q)
  PROVE  LInv'
<1>1. TInv /\ InvAt(q) /\ pc[q] = "count" /\ \A p \in Requests \ {q} : SameAt(p)
  BY StepsApart DEF LInv, Count, Step, Statement
<1>2. CASE aborted[q] \/ (req[q].kind # "create" /\ read[q] = Blank)
  BY <1>1, <1>2, FailKeeps DEF Count, txVars
<1>3. CASE ~ (aborted[q] \/ (req[q].kind # "create" /\ read[q] = Blank))
  <2>1. /\ insert' = [insert EXCEPT ![q] = Sees(q, Current(q)) = Absent]
        /\ pc' = [pc EXCEPT ![q] = "write"]
        /\ UNCHANGED <<item, rows, req, read, mem, written, aborted, good>>
    BY <1>3 DEF Count, txVars
  <2>2. Current(q)' = Current(q) /\ pc'[q] = "write"
    BY <1>1, <2>1 DEF Current, TInv, TypeOK
  <2>3. InHandAt(q)'
    <3>1. CASE req[q].kind = "create"
      BY <1>1, <2>1, <3>1 DEF InvAt, InHandAt
    <3>2. CASE req[q].kind # "create"
      <4>1. ReadsPast(q) /\ read[q] # Blank
        BY <1>1, <1>3, <3>2 DEF InvAt, InHandAt
      <4>2. ReadsPast(q)'
        BY <2>1, <2>2, <4>1 DEF ReadsPast, Mark
      <4>3. Sees(q, Current(q)) # Absent
        BY <4>1 DEF Sees, ReadsPast
      <4>4. ~ insert'[q]
        <5> DEFINE new == Sees(q, Current(q)) = Absent
        <5>1. insert' = [insert EXCEPT ![q] = new]
          BY <2>1
        <5>2. ~ new
          BY <4>3
        <5> HIDE DEF new
        <5> QED
          BY <1>1, <5>1, <5>2 DEF TInv, TypeOK
      <4> QED
        BY <2>1, <2>2, <3>2, <4>1, <4>2, <4>4 DEF InHandAt
    <3> QED
      BY <3>1, <3>2
  <2>4. AskedAt(q)'
    BY <1>1, <2>1, <2>2 DEF InvAt, AskedAt
  <2>5. WrittenAt(q)'
    BY <1>1, <2>1, <2>2 DEF InvAt, WrittenAt, Follows, Open, Mark
  <2>6. SavedAt(q)' /\ KeptAt(q)'
    BY <1>1, <2>1, <2>2 DEF InvAt, SavedAt, KeptAt, Open, Past
  <2> QED
    BY <1>1, <2>1, <2>3, <2>4, <2>5, <2>6, QuietStep
<1> QED
  BY <1>2, <1>3

LEMMA WriteConflictKeeps ==
  ASSUME LInv, TInv', NEW q \in Requests, WriteConflict(q)
  PROVE  LInv'
<1>1. TInv /\ pc[q] = "write"
  BY DEF LInv, WriteConflict
<1>2. \A p \in Requests \ {q} : SameAt(p)
  BY StepsApart DEF LInv, Step, Statement
<1>3. aborted[q] => aborted'[q]
  BY <1>1 DEF WriteConflict, TInv, TypeOK
<1> QED
  BY <1>1, <1>2, <1>3, FailKeeps DEF WriteConflict

\* What Save may write follows the committed row: the WHERE clause compares the
\* version the entity was read with, and a second write of the same
\* transaction finds the version moved on.
LEMMA WritesNext ==
  ASSUME LInv, NEW q \in Requests, pc[q] = "write", Matches(q, Sees(q, Current(q)))
  PROVE  /\ written[q][Current(q)] = Absent
         /\ Follows(q, mem[q], rows[Current(q)])
<1> DEFINE r == Current(q)
<1>1. TInv /\ InvAt(q) /\ Versioned
  BY DEF LInv
<1>2. r \in Recs /\ mem[q] \in Row /\ read[q] \in Row
  BY <1>1, CurrentType DEF AtItem, TInv, TypeOK
<1>3. rows[r] # Absent => rows[r] \in Row /\ rows[r].version \in Nat /\ rows[r].version >= 1
  BY <1>1, <1>2 DEF TInv, TypeOK, Row, Versioned
<1>4. written[q][r] # Absent =>
        /\ written[q][r] \in Row
        /\ written[q][r].version \in Nat
        /\ req[q].kind = "batchUpdate"
        /\ Follows(q, written[q][r], rows[r])
  BY <1>1, <1>2 DEF InvAt, WrittenAt, TInv, TypeOK, Row
<1>5. req[q].bump \in {1, 2} /\ (req[q].kind = "batchUpdate" => req[q].bump = 1)
  BY <1>1 DEF InvAt, AskedAt, TInv, TypeOK, Request
<1>6. CASE req[q].kind = "create"
  <2>1. mem[q].version = req[q].bump /\ mem[q].applied = {q}
    BY <1>1, <1>6 DEF InvAt, InHandAt
  <2>2. written[q][r] = Absent
    BY <1>4, <1>6
  <2>3. CASE insert[q]
    BY <1>6, <2>1, <2>2, <2>3 DEF Matches, Sees, Follows
  <2>4. CASE ~ insert[q]
    <3>1. rows[r] # Absent /\ rows[r].version = mem[q].version - 1
      BY <2>2, <2>4 DEF Matches, Sees
    <3>2. req[q].bump = 2 /\ mem[q].version = rows[r].version + 1
      BY <1>3, <1>5, <2>1, <3>1
    <3> QED
      BY <2>2, <3>1, <3>2 DEF Follows
  <2> QED
    BY <2>3, <2>4
<1>7. CASE req[q].kind # "create"
  <2>1. ~ insert[q] /\ ReadsPast(q)
    BY <1>1, <1>7 DEF InvAt, InHandAt
  <2>2. /\ rows[r] # Absent
        /\ read[q].version <= rows[r].version
        /\ read[q].version = rows[r].version => read[q].applied = rows[r].applied
        /\ mem[q].version = read[q].version + req[q].bump
        /\ mem[q].applied = read[q].applied \union Mark(q)
    BY <2>1 DEF ReadsPast
  <2>3. read[q].version \in Nat
    BY <1>2 DEF Row
  <2>4. written[q][r] # Absent =>
          written[q][r].version = rows[r].version + 1 /\ req[q].bump = 1
    BY <1>4, <1>5, <2>2 DEF Follows
  <2>5. Sees(q, r) # Absent /\ Sees(q, r).version = mem[q].version - 1
    BY <2>1 DEF Matches
  <2>6. written[q][r] = Absent
    BY <1>3, <1>4, <2>2, <2>3, <2>4, <2>5 DEF Sees
  <2>7. rows[r].version = mem[q].version - 1
    BY <2>5, <2>6 DEF Sees
  <2>8. mem[q].version = rows[r].version + 1
    BY <1>3, <1>5, <2>2, <2>3, <2>7
  <2>9. req[q].bump = 1 => mem[q].applied = rows[r].applied \union Mark(q)
    BY <1>3, <2>2, <2>3, <2>8
  <2> QED
    BY <1>7, <2>2, <2>6, <2>8, <2>9 DEF Follows
<1> QED
  BY <1>6, <1>7

LEMMA WriteKeeps ==
  ASSUME LInv, TInv', NEW q \in Requests, Write(q)
  PROVE  LInv'
<1> DEFINE r == Current(q)
<1>1. TInv /\ InvAt(q) /\ pc[q] = "write"
  BY DEF LInv, Write
<1>2. r \in Recs /\ mem[q] \in Row /\ mem[q] # Absent
  <2>1. r \in Recs /\ mem[q] \in Row
    BY <1>1, CurrentType DEF AtItem, TInv, TypeOK
  <2> QED
    BY <2>1, AbsentAssumption
<1>3. /\ written' = [written EXCEPT ![q] = [written[q] EXCEPT ![r] = mem[q]]]
      /\ good' = [good EXCEPT ![q] = Append(good[q], SavedRecord(q))]
      /\ UNCHANGED <<rows, cache, req, read, mem, insert, aborted, afterVars>>
  BY DEF Write
<1>4. /\ written'[q] = [written[q] EXCEPT ![r] = mem[q]]
      /\ written'[q][r] = mem[q]
      /\ \A o \in Recs \ {r} : written'[q][o] = written[q][o]
  BY <1>1, <1>2, <1>3 DEF TInv, TypeOK
<1>5. \A p \in Requests \ {q} : SameAt(p)
  BY StepsApart DEF LInv, Step, Statement
<1>6. /\ pc'[q] \in {"find", "end"}
      /\ req[q].kind # "batchUpdate" => pc'[q] = "end" /\ Current(q)' = r
  <2>1. item[q] \in 1 .. Len(req[q].items)
    BY <1>1 DEF TInv, InRange, AtItem
  <2>2. ASSUME req[q].kind # "batchUpdate"
        PROVE  ~ (item[q] < Len(req[q].items))
    <3>1. Len(req[q].items) = 1
      BY <1>1, <2>2 DEF InvAt, AskedAt
    <3>2. item[q] = 1
      BY <2>1, <3>1
    <3> QED
      BY <3>1, <3>2
  <2>3. IF item[q] < Len(req[q].items)
          THEN pc' = [pc EXCEPT ![q] = "find"]
          ELSE pc' = [pc EXCEPT ![q] = "end"] /\ item' = item
    BY DEF Write, NextItem
  <2> QED
    BY <1>1, <1>3, <2>2, <2>3 DEF Current, TInv, TypeOK
<1>7. Exclusive'
  <2>1. \A p \in Requests \ {q} : written[p][r] = Absent
    BY DEF Write, LockedByOther
  <2>2. \A p \in Requests \ {q} : written'[p] = written[p]
    BY <1>5 DEF SameAt
  <2>3. ASSUME NEW p \in Requests, NEW o \in Recs, p # q,
               written'[p][o] # Absent, written'[q][o] # Absent
        PROVE  FALSE
    BY <1>4, <2>1, <2>2, <2>3 DEF LInv, Exclusive
  <2>4. ASSUME NEW p \in Requests \ {q}, NEW s \in Requests \ {q}, NEW o \in Recs,
               written'[p][o] # Absent, written'[s][o] # Absent
        PROVE  p = s
    BY <2>2, <2>4 DEF LInv, Exclusive
  <2> QED
    BY <2>3, <2>4 DEF Exclusive
<1>8. WrittenAt(q)'
  <2> SUFFICES ASSUME NEW o \in Recs, written'[q][o] # Absent
               PROVE  /\ pc'[q] \in Open
                      /\ req'[q].kind = "batchUpdate"
                           \/ (pc'[q] = "end" /\ o = Current(q)')
                      /\ Follows(q, written[q][o], rows[o])'
    BY DEF WrittenAt
  <2>1. CASE o = r
    <3>1. Follows(q, mem[q], rows[r])
      BY <1>1, WritesNext DEF Write
    <3>2. Follows(q, written[q][o], rows[o])'
      BY <1>3, <1>4, <2>1, <3>1 DEF Follows, Mark
    <3> QED
      BY <1>3, <1>6, <2>1, <3>2 DEF Open
  <2>2. CASE o # r
    <3>1. written[q][o] # Absent
      BY <1>4, <2>2
    <3>2. req[q].kind = "batchUpdate" /\ Follows(q, written[q][o], rows[o])
      BY <1>1, <3>1 DEF InvAt, WrittenAt
    <3>3. Follows(q, written[q][o], rows[o])'
      BY <1>3, <1>4, <2>2, <3>2 DEF Follows, Mark
    <3> QED
      BY <1>3, <1>6, <3>2, <3>3 DEF Open
  <2> QED
    BY <2>1, <2>2
<1>9. AskedAt(q)'
  BY <1>1, <1>3, <1>6 DEF InvAt, AskedAt
<1>10. InHandAt(q)' /\ KeptAt(q)'
  BY <1>6 DEF InHandAt, KeptAt, Past
<1>11. SavedAt(q)'
  <2> SUFFICES ASSUME ~ aborted[q], NEW k \in DOMAIN good'[q]
               PROVE  /\ written'[q][good'[q][k].rec] # Absent
                      /\ written'[q][good'[q][k].rec].version = good'[q][k].version
    BY <1>3 DEF SavedAt
  <2>1. good[q] \in Seq(Saved)
    BY <1>1 DEF TInv, TypeOK
  <2>2. good'[q] = Append(good[q], SavedRecord(q))
    BY <1>1, <1>3 DEF TInv, TypeOK
  <2>3. CASE k \in DOMAIN good[q]
    <3>1. good'[q][k] = good[q][k] /\ good[q][k].rec \in Recs
      BY <1>1, <2>1, <2>2, <2>3, AppendProperties, LenProperties, GoodType
    <3>2. /\ written[q][good[q][k].rec] # Absent
          /\ written[q][good[q][k].rec].version = good[q][k].version
      BY <1>1, <2>3 DEF InvAt, SavedAt, Open
    <3>3. written[q][r] = Absent
      BY <1>1, WritesNext DEF Write
    <3> QED
      BY <1>4, <3>1, <3>2, <3>3
  <2>4. CASE k \notin DOMAIN good[q]
    <3>1. k = Len(good[q]) + 1
      BY <2>1, <2>2, <2>4, AppendProperties, LenProperties
    <3>2. good'[q][k] = SavedRecord(q)
      BY <2>1, <2>2, <3>1, AppendProperties
    <3> QED
      BY <1>2, <1>4, <3>2 DEF SavedRecord
  <2> QED
    BY <2>3, <2>4
<1> QED
  BY <1>3, <1>5, <1>7, <1>8, <1>9, <1>10, <1>11, OwnStep

\* The victim of a deadlock has lost what it wrote and cannot commit.
LEMMA DeadlockKeeps ==
  ASSUME LInv, TInv', NEW q \in Requests, DeadlockVictim(q)
  PROVE  LInv'
<1>1. TInv /\ InvAt(q) /\ pc[q] = "write"
  BY DEF LInv, DeadlockVictim, InCycle
<1>2. /\ written'[q] = NoRows
      /\ aborted'[q]
      /\ \A p \in Requests \ {q} : written'[p] = written[p]
  BY <1>1 DEF DeadlockVictim, TInv, TypeOK
<1>3. \A p \in Requests \ {q} : SameAt(p)
  BY StepsApart DEF LInv, Step, Statement
<1>4. pc'[q] \in {"find", "end", "err"}
  BY <1>1 DEF DeadlockVictim, ItemFails, NextItem, TInv, TypeOK
<1>5. Exclusive'
  <2>1. \A r \in Recs : written'[q][r] = Absent
    BY <1>2 DEF NoRows
  <2> QED
    BY <1>2, <2>1 DEF LInv, Exclusive
<1>6. AskedAt(q)'
  BY <1>1, <1>4 DEF InvAt, AskedAt, DeadlockVictim
<1>7. WrittenAt(q)'
  BY <1>2 DEF WrittenAt, NoRows
<1>8. InHandAt(q)' /\ SavedAt(q)' /\ KeptAt(q)'
  BY <1>2, <1>4 DEF InHandAt, SavedAt, KeptAt, Past
<1> QED
  BY <1>3, <1>5, <1>6, <1>7, <1>8, OwnStep DEF DeadlockVictim

LEMMA StatementKeeps ==
  ASSUME LInv, TInv', NEW q \in Requests, Statement(q)
  PROVE  LInv'
<1>1. CASE Remove(q)
  BY <1>1 DEF Remove, LInv, InvAt, AskedAt
<1> QED
  BY <1>1, CountKeeps, WriteKeeps, WriteConflictKeeps, DeadlockKeeps DEF Statement

-----------------------------------------------------------------------------
\* A commit replaces rows by those that follow them.
LEMMA CommitGrows ==
  ASSUME LInv, NEW q \in Requests, rows' = Committed(q)
  PROVE  RowsGrow
<1>1. TInv /\ InvAt(q)
  BY DEF LInv
<1> SUFFICES ASSUME NEW r \in Recs, rows[r] # Absent
             PROVE  /\ rows'[r] # Absent
                    /\ rows[r].version <= rows'[r].version
                    /\ NoRecalculation => rows[r].applied \subseteq rows'[r].applied
                    /\ rows[r].version = rows'[r].version =>
                         rows[r].applied = rows'[r].applied
  BY DEF RowsGrow
<1>2. rows[r].version \in Nat
  BY <1>1 DEF TInv, TypeOK, Row
<1>3. written[q][r] # Absent =>
        /\ written[q][r].version = rows[r].version + 1
        /\ NoRecalculation => rows[r].applied \subseteq written[q][r].applied
  BY <1>1 DEF InvAt, AskedAt, WrittenAt, Follows, Open
<1>4. rows'[r] = IF written[q][r] # Absent THEN written[q][r] ELSE rows[r]
  BY DEF Committed
<1> QED
  BY <1>2, <1>3, <1>4

\* The database commits what q has written.
LEMMA CommittedKeeps ==
  ASSUME LInv, TInv', NEW q \in Requests, pc[q] = "end", ~ aborted[q],
         rows' = Committed(q), written' = [written EXCEPT ![q] = NoRows],
         NEW to \in {"after", "unknown"}, pc' = [pc EXCEPT ![q] = to],
         UNCHANGED <<reqVars, aborted, good>>, \A p \in Requests \ {q} : SameAt(p)
  PROVE  LInv'
<1>1. TInv /\ InvAt(q) /\ Versioned
  BY DEF LInv
<1>2. \A r \in Recs : rows'[r] = IF written[q][r] # Absent THEN written[q][r] ELSE rows[r]
  BY DEF Committed
<1>3. /\ written'[q] = NoRows
      /\ pc'[q] = to
      /\ \A p \in Requests \ {q} : written'[p] = written[p] /\ pc'[p] = pc[p]
  BY <1>1 DEF TInv, TypeOK
<1>4. RowsGrow
  BY CommitGrows
<1>5. \A p \in Requests \ {q} : RowsLocked(p)
  BY <1>2 DEF LInv, Exclusive, RowsLocked
<1>6. \A p \in Requests \ {q} : InvAt(p)'
  BY <1>4, <1>5, OthersKeep
<1>7. Versioned'
  <2> SUFFICES ASSUME NEW r \in Recs, rows'[r] # Absent
               PROVE  rows'[r].version >= 1
    BY DEF Versioned
  <2>1. rows[r] # Absent => rows[r].version \in Nat /\ rows[r].version >= 1
    BY <1>1 DEF TInv, TypeOK, Row, Versioned
  <2>2. CASE written[q][r] = Absent
    BY <1>2, <2>1, <2>2
  <2>3. CASE written[q][r] # Absent
    <3>1. Follows(q, written[q][r], rows[r])
      BY <1>1, <2>3 DEF InvAt, WrittenAt
    <3>2. req[q].bump \in {1, 2}
      BY <1>1 DEF TInv, TypeOK, Request
    <3>3. written[q][r].version >= 1
      BY <2>1, <3>1, <3>2 DEF Follows
    <3> QED
      BY <1>2, <2>3, <3>3
  <2> QED
    BY <2>2, <2>3
<1>8. Exclusive'
  <2>1. \A r \in Recs : written'[q][r] = Absent
    BY <1>3 DEF NoRows
  <2> QED
    BY <1>3, <2>1 DEF LInv, Exclusive
<1>9. AskedAt(q)'
  BY <1>1, <1>3 DEF InvAt, AskedAt, reqVars
<1>10. WrittenAt(q)'
  BY <1>3 DEF WrittenAt, NoRows
<1>11. InHandAt(q)' /\ SavedAt(q)'
  BY <1>3 DEF InHandAt, SavedAt, Open
<1>12. KeptAt(q)'
  <2> SUFFICES ASSUME NEW k \in DOMAIN good[q]
               PROVE  /\ rows'[good[q][k].rec] # Absent
                      /\ NoRecalculation => Mark(q) \subseteq rows'[good[q][k].rec].applied
    BY DEF KeptAt, Mark, reqVars
  <2> DEFINE r == good[q][k].rec
  <2>1. r \in Recs
    BY <1>1, GoodType
  <2>2. written[q][r] # Absent
    BY <1>1 DEF InvAt, SavedAt, Open
  <2>3. NoRecalculation => Mark(q) \subseteq written[q][r].applied
    BY <1>1, <2>1, <2>2 DEF InvAt, AskedAt, WrittenAt, Follows, Mark
  <2> QED
    BY <1>2, <2>1, <2>2, <2>3
<1>13. InvAt(q)'
  BY <1>9, <1>10, <1>11, <1>12 DEF InvAt
<1> QED
  BY <1>6, <1>7, <1>8, <1>13 DEF LInv

LEMMA EndKeeps ==
  ASSUME LInv, TInv', NEW q \in Requests, End(q)
  PROVE  LInv'
<1>1. TInv /\ InvAt(q) /\ \A p \in Requests \ {q} : SameAt(p)
  BY StepsApart DEF LInv, Step
<1>2. CASE Commit(q)
  BY <1>1, <1>2, CommittedKeeps DEF Commit
<1>3. CASE CommitUnanswered(q)
  BY <1>1, <1>3, CommittedKeeps DEF CommitUnanswered
<1>4. CASE Rollback(q)
  <2>1. /\ written'[q] = NoRows
        /\ pc'[q] = "err" /\ pc[q] = "end"
        /\ \A p \in Requests \ {q} : written'[p] = written[p] /\ pc'[p] = pc[p]
    BY <1>1, <1>4 DEF Rollback, TInv, TypeOK
  <2>2. \A p \in Requests \ {q} : SameAt(p)
    BY <1>1
  <2>3. Exclusive'
    <3>1. \A r \in Recs : written'[q][r] = Absent
      BY <2>1 DEF NoRows
    <3> QED
      BY <2>1, <3>1 DEF LInv, Exclusive
  <2>4. AskedAt(q)'
    BY <1>1, <1>4, <2>1 DEF Rollback, InvAt, AskedAt, reqVars
  <2>5. WrittenAt(q)'
    BY <2>1 DEF WrittenAt, NoRows
  <2>6. InHandAt(q)' /\ SavedAt(q)' /\ KeptAt(q)'
    BY <2>1 DEF InHandAt, SavedAt, KeptAt, Open, Past
  <2> QED
    BY <1>4, <2>2, <2>3, <2>4, <2>5, <2>6, OwnStep DEF Rollback
<1>5. CASE AnswerBatchDelete(q)
  BY <1>1, <1>5 DEF AnswerBatchDelete, InvAt, AskedAt
<1> QED
  BY <1>2, <1>3, <1>4, <1>5 DEF End

\* The rows but for their titles.
SameRows ==
  \A r \in Recs :
    /\ rows'[r] = Absent <=> rows[r] = Absent
    /\ rows[r] # Absent => /\ rows'[r].version = rows[r].version
                           /\ rows'[r].applied = rows[r].applied

\* After the commit a request only changes titles.
LEMMA TitlesOnly ==
  ASSUME TInv, NEW q \in Requests, After(q)
  PROVE  SameRows
<1>1. CASE rows' = rows
  BY <1>1 DEF SameRows
<1>2. CASE Retitle(q)
  <2> SUFFICES ASSUME NEW r \in Recs, rows[r] # Absent,
                      rows'[r] = [rows[r] EXCEPT !.title = title[q]]
               PROVE  /\ rows'[r] # Absent
                      /\ rows'[r].version = rows[r].version
                      /\ rows'[r].applied = rows[r].applied
    BY <1>2 DEF Retitle, SameRows
  <2>1. rows[r] \in Row /\ title[q] \in SUBSET Requests
    BY DEF TInv, TypeOK
  <2>2. ASSUME NEW row \in Row, NEW shown \in SUBSET Requests
        PROVE  /\ [row EXCEPT !.title = shown] \in Row
               /\ [row EXCEPT !.title = shown].version = row.version
               /\ [row EXCEPT !.title = shown].applied = row.applied
    BY DEF Row
  <2> QED
    BY <2>1, <2>2, AbsentAssumption
<1> QED
  BY <1>1, <1>2 DEF After, Announce, ReadTitle, AnswerOk

LEMMA SameRowsGrow ==
  ASSUME TInv, SameRows
  PROVE  RowsGrow /\ \A p \in Requests : RowsLocked(p)
<1>1. \A r \in Recs : rows[r] # Absent => rows[r].version \in Nat
  BY DEF TInv, TypeOK, Row
<1>2. \A n \in Nat : n <= n
  OBVIOUS
<1>3. RowsGrow
  BY <1>1, <1>2 DEF SameRows, RowsGrow
<1>4. \A p \in Requests : RowsLocked(p)
  BY DEF SameRows, RowsLocked
<1> QED
  BY <1>3, <1>4

LEMMA AfterKeeps ==
  ASSUME LInv, TInv', NEW q \in Requests, After(q)
  PROVE  LInv'
<1>1. TInv /\ InvAt(q)
  BY DEF LInv
<1>2. /\ pc[q] \in {"after", "titles", "retitle"}
      /\ pc'[q] \in Past
      /\ UNCHANGED <<written, req, good>>
  <2>1. CASE Announce(q)
    BY <1>1, <2>1 DEF Announce, Callback, Past, TInv, TypeOK, reqVars, txVars
  <2>2. CASE ReadTitle(q)
    BY <1>1, <2>2 DEF ReadTitle, Callback, Past, TInv, TypeOK, reqVars, txVars
  <2>3. CASE Retitle(q)
    BY <1>1, <2>3 DEF Retitle, Past, TInv, TypeOK, reqVars, txVars
  <2>4. CASE AnswerOk(q)
    BY <1>1, <2>4 DEF AnswerOk, Past, TInv, TypeOK, reqVars, txVars
  <2> QED
    BY <2>1, <2>2, <2>3, <2>4 DEF After
<1>3. SameRows
  BY <1>1, TitlesOnly
<1>4. RowsGrow /\ \A p \in Requests : RowsLocked(p)
  BY <1>1, <1>3, SameRowsGrow
<1>5. \A p \in Requests \ {q} : InvAt(p)'
  BY <1>4, StepsApart, OthersKeep DEF Step, LInv
<1>6. AskedAt(q)'
  BY <1>1, <1>2 DEF InvAt, AskedAt, Past
<1>7. WrittenAt(q)' /\ InHandAt(q)' /\ SavedAt(q)'
  BY <1>1, <1>2 DEF InvAt, WrittenAt, InHandAt, SavedAt, Open, Past
<1>8. KeptAt(q)'
  BY <1>1, <1>2, <1>3, GoodType DEF InvAt, KeptAt, SameRows, Past, Mark
<1>9. Versioned' /\ Exclusive'
  BY <1>2, <1>3 DEF LInv, Versioned, Exclusive, SameRows
<1> QED
  BY <1>5, <1>6, <1>7, <1>8, <1>9 DEF LInv, InvAt

LEMMA CrashKeeps ==
  ASSUME LInv, TInv', Crash
  PROVE  LInv'
<1>1. Versioned' /\ Exclusive'
  BY DEF Crash, LInv, Versioned, Exclusive, NoRows
<1>2. ASSUME NEW q \in Requests
      PROVE  InvAt(q)'
  <2>1. TInv /\ InvAt(q)
    BY DEF LInv
  <2>2. /\ pc'[q] = IF pc[q] \in Active THEN "crashed" ELSE pc[q]
        /\ written'[q] = NoRows
        /\ UNCHANGED <<rows, reqVars, aborted, good>>
    BY DEF Crash
  <2>3. pc'[q] \in {"idle", "ok", "err", "unknown", "crashed"}
    BY <2>1, <2>2 DEF TInv, TypeOK
  <2>4. AskedAt(q)'
    BY <2>1, <2>2 DEF InvAt, AskedAt, Active, reqVars
  <2>5. WrittenAt(q)'
    BY <2>2 DEF WrittenAt, NoRows
  <2>6. InHandAt(q)' /\ SavedAt(q)'
    BY <2>3 DEF InHandAt, SavedAt, Open
  <2>7. KeptAt(q)'
    BY <2>1, <2>2 DEF InvAt, KeptAt, Active, Past, Mark, reqVars
  <2> QED
    BY <2>4, <2>5, <2>6, <2>7 DEF InvAt
<1> QED
  BY <1>1, <1>2 DEF LInv

\* A step that changes nothing but the cache.
LEMMA StutterKeeps ==
  ASSUME LInv, TInv', UNCHANGED <<rows, pc, reqVars, txVars, afterVars>>
  PROVE  LInv'
<1>1. \A p \in Requests : SameAt(p)
  BY DEF SameAt, reqVars, txVars, afterVars
<1>2. RowsGrow /\ \A p \in Requests : RowsLocked(p)
  BY SameRowsGrow DEF SameRows, LInv
<1>3. \A p \in Requests : InvAt(p)'
  BY <1>1, <1>2, OthersKeep
<1> QED
  BY <1>3 DEF LInv, Versioned, Exclusive, txVars

LEMMA NextLocks == KeepsRows /\ LInv /\ [Next]_vars => LInv'
<1> SUFFICES ASSUME KeepsRows, LInv, [Next]_vars
             PROVE  LInv'
  OBVIOUS
<1>1. TInv'
  BY NextType DEF LInv
<1>2. ASSUME NEW q \in Requests, Begin(q)
      PROVE  LInv'
  BY <1>1, <1>2, BeginKeeps
<1>3. ASSUME NEW q \in Requests, Step(q)
      PROVE  LInv'
  BY <1>1, <1>3, LookupKeeps, StatementKeeps, EndKeeps, AfterKeeps DEF Step
<1>4. ASSUME NEW r \in Recs, CacheExpires(r)
      PROVE  LInv'
  BY <1>1, <1>4, StutterKeeps DEF CacheExpires
<1>5. CASE Crash
  BY <1>1, <1>5, CrashKeeps
<1>6. CASE UNCHANGED vars
  BY <1>1, <1>6, StutterKeeps DEF vars
<1> QED
  BY <1>2, <1>3, <1>4, <1>5, <1>6 DEF Next

\* Save's WHERE __version = ? is enough: while requests create and update
\* records, no change committed by one of them is ever overwritten by a copy of
\* the row read before, though rows are read outside of the transaction, from
\* a cache or not, and batches lock and abort each other.
THEOREM RecordsNoLostUpdate ==
  ASSUME SavesOnly
  PROVE  Spec => []NoLostUpdate
<1>1. KeepsRows /\ NoRecalculation /\ NamesByIds
  BY DEF SavesOnly
<1>2. LInv => NoLostUpdate
  BY <1>1 DEF LInv, InvAt, AskedAt, KeptAt, Mark, NoLostUpdate, Past
<1> QED
  BY InitLocks, NextLocks, <1>1, <1>2, PTL DEF Spec
=============================================================================
