----------------------- MODULE FieldCalculationProofs -----------------------
(***************************************************************************)
(* Theorems about FieldCalculation, for any fields, calculations and       *)
(* editors: the searches find a cycle exactly if there is one, whatever    *)
(* order they take, and end; a single editor saves no cycle with an edit   *)
(* that was checked; and a calculation computes what the definitions it    *)
(* has read call for, though calculations cache graphs.                    *)
(***************************************************************************)
EXTENDS FieldCalculation, FiniteSetTheorems, SequenceTheorems, NaturalsInduction,
        WellFoundedInduction, TLAPS

\* A non-empty set of natural numbers has a least element.
LEMMA LeastNatural ==
  ASSUME NEW T \in SUBSET Nat, T # {}
  PROVE  \E n \in T : \A m \in T : n <= m
<1>1. PICK n \in T : \A m \in T : ~ (<<m, n>> \in OpToRel(<, Nat))
  BY NatLessThanWellFounded, WFMin
<1>2. \A m \in T : ~ (m < n)
  BY <1>1 DEF OpToRel
<1> QED
  BY <1>2

-----------------------------------------------------------------------------
(* What a search tells about the graph. *)

\* A path along the edges that ends at a predecessor of one of its nodes
\* holds a cycle.
LEMMA CycleAlongEdges ==
  ASSUME NEW g, NEW s \in Seq(Fields), NEW k \in 1 .. Len(s),
         \A i \in 1 .. Len(s) - 1 : <<s[i], s[i + 1]>> \in g,
         <<s[Len(s)], s[k]>> \in g
  PROVE  Cyclic(g)
<1> DEFINE S == {s[i] : i \in k .. Len(s)}
<1>1. S \in SUBSET Fields /\ S # {}
  OBVIOUS
<1>2. ASSUME NEW x \in S PROVE \E y \in S : <<x, y>> \in g
  <2>1. PICK i \in k .. Len(s) : x = s[i]
    OBVIOUS
  <2>2. CASE i = Len(s)
    <3>1. s[k] \in S
      OBVIOUS
    <3> QED
      BY <2>1, <2>2, <3>1
  <2>3. CASE i < Len(s)
    <3>1. i \in 1 .. Len(s) - 1 /\ i + 1 \in k .. Len(s)
      BY <2>3
    <3>2. s[i + 1] \in S
      BY <3>1
    <3> QED
      BY <2>1, <3>1, <3>2
  <2>4. i = Len(s) \/ i < Len(s)
    BY <2>1
  <2> QED
    BY <2>2, <2>3, <2>4
<1> QED
  BY <1>1, <1>2 DEF Cyclic

\* So does a path against the edges that ends at a successor of one.
LEMMA CycleAgainstEdges ==
  ASSUME NEW g, NEW s \in Seq(Fields), NEW k \in 1 .. Len(s),
         \A i \in 1 .. Len(s) - 1 : <<s[i + 1], s[i]>> \in g,
         <<s[k], s[Len(s)]>> \in g
  PROVE  Cyclic(g)
<1> DEFINE S == {s[i] : i \in k .. Len(s)}
<1>1. S \in SUBSET Fields /\ S # {}
  OBVIOUS
<1>2. ASSUME NEW x \in S PROVE \E y \in S : <<x, y>> \in g
  <2>1. PICK i \in k .. Len(s) : x = s[i]
    OBVIOUS
  <2>2. CASE i = k
    <3>1. s[Len(s)] \in S
      OBVIOUS
    <3> QED
      BY <2>1, <2>2, <3>1
  <2>3. CASE i > k
    <3>1. /\ i - 1 \in 1 .. Len(s) - 1
          /\ i - 1 \in k .. Len(s)
          /\ (i - 1) + 1 = i
      BY <2>3
    <3>2. <<s[i], s[i - 1]>> \in g /\ s[i - 1] \in S
      BY <3>1
    <3> QED
      BY <2>1, <3>2
  <2>4. i = k \/ i > k
    BY <2>1
  <2> QED
    BY <2>2, <2>3, <2>4
<1> QED
  BY <1>1, <1>2 DEF Cyclic

\* If every node with edges is sorted after its successors there is no cycle.
LEMMA SortedAfterSuccessors ==
  ASSUME NEW g, NEW s \in Seq(Fields),
         \A i \in 1 .. Len(s) : \A x \in Fields :
           <<s[i], x>> \in g => \E j \in 1 .. i - 1 : s[j] = x,
         \A x, y \in Fields : <<x, y>> \in g => \E i \in 1 .. Len(s) : s[i] = x
  PROVE  ~ Cyclic(g)
<1> SUFFICES ASSUME NEW S \in SUBSET Fields, S # {},
                    \A x \in S : \E y \in S : <<x, y>> \in g
             PROVE  FALSE
  BY DEF Cyclic
<1> DEFINE T == {i \in 1 .. Len(s) : s[i] \in S}
<1>1. T \in SUBSET Nat /\ T # {}
  <2>1. PICK x \in S : x \in Fields
    OBVIOUS
  <2>2. PICK i \in 1 .. Len(s) : s[i] = x
    BY <2>1
  <2> QED
    BY <2>1, <2>2
<1>2. PICK n \in T : \A m \in T : n <= m
  <2> HIDE DEF T
  <2> QED
    BY <1>1, LeastNatural
<1>3. PICK y \in S : <<s[n], y>> \in g
  OBVIOUS
<1>4. PICK j \in 1 .. n - 1 : s[j] = y
  BY <1>3
<1>5. j \in T
  BY <1>4
<1> QED
  BY <1>2, <1>4, <1>5

\* If every node with edges is sorted after its predecessors there is none.
LEMMA SortedAfterPredecessors ==
  ASSUME NEW g, NEW s \in Seq(Fields),
         \A i \in 1 .. Len(s) : \A x \in Fields :
           <<x, s[i]>> \in g => \E j \in 1 .. i - 1 : s[j] = x,
         \A x, y \in Fields : <<x, y>> \in g => \E i \in 1 .. Len(s) : s[i] = x
  PROVE  ~ Cyclic(g)
<1> SUFFICES ASSUME NEW S \in SUBSET Fields, S # {},
                    \A x \in S : \E y \in S : <<x, y>> \in g
             PROVE  FALSE
  BY DEF Cyclic
<1> DEFINE Among(x, n) == \E i \in 1 .. n : s[i] = x
           T == {n \in 0 .. Len(s) : \A x \in S : Among(x, n)}
<1>1. T \in SUBSET Nat /\ T # {}
  <2>1. \A x \in S : Among(x, Len(s))
    OBVIOUS
  <2>2. Len(s) \in 0 .. Len(s)
    OBVIOUS
  <2> QED
    BY <2>1, <2>2
<1>2. PICK n \in T : \A m \in T : n <= m
  <2> HIDE DEF T
  <2> QED
    BY <1>1, LeastNatural
<1>3. n \in 1 .. Len(s)
  BY <1>2
<1>4. n - 1 \notin T
  <2> HIDE DEF T
  <2> QED
    BY <1>2, <1>3
<1>5. PICK x \in S : ~ Among(x, n - 1)
  BY <1>3, <1>4
<1>6. PICK y \in S : <<x, y>> \in g
  OBVIOUS
<1>7. PICK i \in 1 .. n : s[i] = y
  BY <1>2
<1>8. PICK j \in 1 .. i - 1 : s[j] = x
  <2>1. i \in 1 .. Len(s) /\ x \in Fields /\ <<x, s[i]>> \in g
    BY <1>3, <1>6, <1>7
  <2> HIDE DEF T, Among
  <2> QED
    BY <2>1
<1> QED
  BY <1>3, <1>5, <1>7, <1>8

-----------------------------------------------------------------------------
(* Types *)

\* An editor at work has a request.
JobOK ==
  \A e \in Editors : pc[e] \in {"list", "check", "save", "unchecked"} => job[e] \in Request

TInv == TypeOK /\ JobOK

LEMMA GraphIsRelation ==
  ASSUME NEW d
  PROVE  /\ GraphOf(d) \in SUBSET (Fields \X Fields)
         /\ \A f, new : GraphWith(d, f, new) \in SUBSET (Fields \X Fields)
BY DEF GraphOf, GraphWith

LEMMA GoneIsDefinition == Gone \in Definition
BY DEF Gone, Definition

LEMMA NothingIsRead == NothingRead \in [Fields -> Definition]
BY GoneIsDefinition DEF NothingRead

LEMMA VersionIsTime == ASSUME NEW d, NEW t \in Nat PROVE VersionOf(d, t) \in Nat
BY DEF VersionOf

\* Without names of their own, edits bring definitions.
LEMMA ExpressionsRefer == \A S \in Expressions : S \subseteq Fields \union Names
BY FieldAssumption DEF Expressions

LEMMA AskedIsRequest ==
  ASSUME NEW f \in Fields, NEW d \in Definition
  PROVE  Asked(f, d) \in Request
BY DEF Asked, Request

LEMMA ChangeType ==
  ASSUME TypeOK, NEW d \in [Fields -> Definition], Change(d)
  PROVE  def' \in [Fields -> Definition] /\ now' \in Nat
BY DEF TypeOK, Change

\* What is saved has the types of the table.
LEMMA SaveFieldType ==
  ASSUME TypeOK, NEW f \in Fields, NEW d \in Definition, SaveField(f, d)
  PROVE  def' \in [Fields -> Definition] /\ now' \in Nat
<1>1. [def EXCEPT ![f] = d] \in [Fields -> Definition] /\ def \in [Fields -> Definition]
  BY DEF TypeOK
<1> QED
  BY <1>1, ChangeType DEF SaveField

LEMMA FinishedType ==
  ASSUME TypeOK, NEW p \in Procs, Finished(p)
  PROVE  /\ pc' \in [Procs -> {"idle", "map", "lookup", "store", "check", "sort", "compute",
                               "answer", "list", "save", "unchecked", "ok", "err"}]
         /\ job' \in [Procs -> Request \union Work \union {None}]
         /\ graph' \in [Procs -> SUBSET (Fields \X Fields)]
         /\ stack' \in [Procs -> Seq(Fields)]
         /\ sorted' \in [Procs -> Seq(Fields)]
         /\ pc'[p] \in {"ok", "idle"}
         /\ \A q \in Procs \ {p} : pc'[q] = pc[q] /\ job'[q] = job[q]
BY DEF TypeOK, Finished

LEMMA InitTypes == Init => TInv
<1> SUFFICES ASSUME Init PROVE TInv
  OBVIOUS
<1>1. def \in [Fields -> Definition]
  BY TablesAssumption DEF Init
<1>2. edits \in 0 .. MaxEdits
  BY FieldAssumption DEF Init
<1> QED
  BY <1>1, <1>2, NothingIsRead DEF Init, TInv, TypeOK, JobOK, Procs

LEMMA SearchTypes ==
  ASSUME TInv, NEW p \in Procs, Search(p)
  PROVE  TInv'
<1> USE DEF TInv
<1>1. ASSUME NEW n \in Fields, Visit(p, n) PROVE TInv'
  <2>1. stack' \in [Procs -> Seq(Fields)]
    BY <1>1 DEF Visit, TypeOK
  <2> QED
    BY <1>1, <2>1 DEF Visit, TypeOK, JobOK, tableVars, calcVars, jobVars
<1>2. CASE StartSearch(p)
  <2>1. Starts(p) \subseteq Fields
    <3>1. \A e \in graph[p] : e[1] \in Fields /\ e[2] \in Fields
      BY DEF TypeOK
    <3>2. Nodes(p) \subseteq Fields
      BY <3>1 DEF Nodes, Sources
    <3> QED
      BY <3>2 DEF Starts, Nodes
  <2> QED
    BY <1>1, <1>2, <2>1 DEF StartSearch
<1>3. CASE Descend(p)
  <2>1. Ahead(p) \subseteq Fields
    BY DEF Ahead, Neighbours
  <2> QED
    BY <1>1, <1>3, <2>1 DEF Descend
<1>4. CASE CycleFound(p)
  BY <1>4 DEF CycleFound, TypeOK, JobOK, Procs, tableVars, calcVars, jobVars, searchVars
<1>5. CASE Leave(p)
  <2>1. stack[p] \in Seq(Fields) /\ Len(stack[p]) \in Nat \ {0}
    BY <1>5 DEF Leave, TypeOK
  <2>2. Top(p) \in Fields
    BY <2>1 DEF Top
  <2>3. SubSeq(stack[p], 1, Len(stack[p]) - 1) \in Seq(Fields)
    BY <2>1, SubSeqProperties
  <2>4. Append(sorted[p], Top(p)) \in Seq(Fields)
    BY <2>2 DEF TypeOK
  <2>5. stack' \in [Procs -> Seq(Fields)] /\ sorted' \in [Procs -> Seq(Fields)]
    BY <1>5, <2>3, <2>4 DEF Leave, TypeOK
  <2> QED
    BY <1>5, <2>5 DEF Leave, TypeOK, JobOK, tableVars, calcVars, jobVars
<1> QED
  BY <1>2, <1>3, <1>4, <1>5 DEF Search

LEMMA UseGraphType ==
  ASSUME TypeOK, NEW c \in Calcs, NEW g \in SUBSET (Fields \X Fields), UseGraph(c, g)
  PROVE  /\ pc' \in [Procs -> {"idle", "map", "lookup", "store", "check", "sort", "compute",
                               "answer", "list", "save", "unchecked", "ok", "err"}]
         /\ graph' \in [Procs -> SUBSET (Fields \X Fields)]
         /\ pc'[c] \in {"check", "sort", "answer"}
         /\ \A q \in Procs \ {c} : pc'[q] = pc[q]
BY DEF TypeOK, UseGraph, Procs

LEMMA CalculateTypes ==
  ASSUME TInv, NEW c \in Calcs, Calculate(c)
  PROVE  TInv'
<1> USE DEF TInv
<1>a. c \in Procs /\ \A e \in Editors : e \in Procs /\ e # c
  BY FieldAssumption DEF Procs
<1>1. CASE ReadFields(c)
  <2>1. /\ known' \in [Calcs -> [Fields -> Definition]]
        /\ job' \in [Procs -> Request \union Work \union {None}]
        /\ \A e \in Editors : pc'[e] = pc[e] /\ job'[e] = job[e]
    BY <1>1, <1>a DEF ReadFields, TypeOK
  <2> QED
    BY <1>1, <1>a, <2>1 DEF ReadFields, TypeOK, JobOK, tableVars, searchVars
<1>11. CASE MapFields(c)
  <2>1. now' \in Nat
    BY <1>11 DEF MapFields, TypeOK
  <2>2. version' \in [Calcs -> Nat]
    BY <1>11, <2>1, VersionIsTime DEF MapFields, TypeOK
  <2>3. \A e \in Editors : pc'[e] = pc[e] /\ job'[e] = job[e]
    BY <1>11, <1>a DEF MapFields, TypeOK
  <2> QED
    BY <1>11, <1>a, <2>1, <2>2, <2>3 DEF MapFields, TypeOK, JobOK, calcVars, searchVars
<1>2. CASE CacheHit(c)
  <2>1. cache.graph \in SUBSET (Fields \X Fields)
    BY <1>2 DEF CacheHit, Hit, TypeOK
  <2> QED
    BY <1>2, <1>a, <2>1, UseGraphType DEF CacheHit, TypeOK, JobOK, tableVars, calcVars, searchVars
<1>3. CASE CacheMiss(c)
  BY <1>3, <1>a DEF CacheMiss, TypeOK, JobOK, tableVars, calcVars, jobVars, searchVars
<1>4. CASE CacheStore(c)
  <2>1. cache' \in [version : Nat, graph : SUBSET (Fields \X Fields)]
    BY <1>4, <1>a, GraphIsRelation DEF CacheStore, TypeOK
  <2> QED
    BY <1>4, <1>a, <2>1, GraphIsRelation, UseGraphType
    DEF CacheStore, TypeOK, JobOK, tableVars, searchVars
<1>5. CASE Checked(c)
  <2>1. << >> \in Seq(Fields)
    OBVIOUS
  <2> QED
    BY <1>5, <1>a, <2>1 DEF Checked, TypeOK, JobOK, tableVars, calcVars, jobVars
<1>6. CASE Ordered(c)
  BY <1>6, <1>a DEF Ordered, TypeOK, JobOK, tableVars, calcVars, jobVars, searchVars
<1>7. ASSUME NEW f \in Fields, NextField(c, f)
      PROVE  done' \in [Calcs -> Seq(Fields)]
  <2>1. Append(done[c], f) \in Seq(Fields)
    BY DEF TypeOK
  <2> QED
    BY <1>7, <2>1 DEF NextField, TypeOK
<1>8. CASE Compute(c)
  BY <1>7, <1>8 DEF Compute, TypeOK, JobOK, tableVars, jobVars, searchVars
<1>9. CASE ComputeFails(c)
  <2>1. PICK f \in Fields :
          /\ NextField(c, f)
          /\ errorFields' = [errorFields EXCEPT ![c] = @ \union {f}]
          /\ SaveField(f, known[c][f])
    BY <1>9 DEF ComputeFails
  <2>2. known[c][f] \in Definition
    BY DEF TypeOK
  <2>3. def' \in [Fields -> Definition] /\ now' \in Nat
    BY <2>1, <2>2, SaveFieldType
  <2>4. errorFields' \in [Calcs -> SUBSET Fields] /\ done' \in [Calcs -> Seq(Fields)]
    BY <1>7, <2>1 DEF TypeOK
  <2> QED
    BY <1>9, <2>1, <2>2, <2>3, <2>4 DEF ComputeFails, TypeOK, JobOK, jobVars, searchVars
<1>10. CASE AnswerCalc(c)
  <2>1. /\ known' \in [Calcs -> [Fields -> Definition]]
        /\ done' \in [Calcs -> Seq(Fields)]
        /\ version' \in [Calcs -> Nat]
    BY <1>10, NothingIsRead DEF AnswerCalc, TypeOK
  <2>2. Finished(c) /\ UNCHANGED <<tableVars, cache, errorFields, edits>>
    BY <1>10 DEF AnswerCalc
  <2> QED
    BY <1>a, <2>1, <2>2, FinishedType DEF TypeOK, JobOK, tableVars
<1> QED
  BY <1>1, <1>2, <1>3, <1>4, <1>5, <1>6, <1>8, <1>9, <1>10, <1>11 DEF Calculate

LEMMA SubmitTypes ==
  ASSUME TypeOK, NEW e \in Editors, NEW r \in Request,
         NEW where \in {"list", "unchecked"}, Submit(e, r, where)
  PROVE  /\ edits' \in 0 .. MaxEdits
         /\ job' \in [Procs -> Request \union Work \union {None}]
         /\ pc' \in [Procs -> {"idle", "map", "lookup", "store", "check", "sort", "compute",
                               "answer", "list", "save", "unchecked", "ok", "err"}]
         /\ job'[e] = r
         /\ pc'[e] = where
         /\ \A q \in Procs \ {e} : pc'[q] = pc[q] /\ job'[q] = job[q]
<1>1. edits' \in 0 .. MaxEdits
  BY FieldAssumption DEF Submit, Free, TypeOK
<1> QED
  BY <1>1 DEF Submit, TypeOK, Procs

LEMMA AskTypes ==
  ASSUME TInv, NEW e \in Editors, Ask(e)
  PROVE  TInv'
<1> USE DEF TInv
<1>a. PICK f \in Fields :
        CreateField(e, f) \/ UpdateField(e, f) \/ HandleBlank(e, f) \/ DeleteField(e, f)
  BY DEF Ask
<1>b. e \in Procs /\ \A q \in Editors : q \in Procs
  BY DEF Procs
<1>c. ASSUME NEW r \in Request, NEW where \in {"list", "unchecked"}, Submit(e, r, where),
             UNCHANGED <<tableVars, calcVars, version, graph, searchVars>>
      PROVE  TInv'
  <2>1. JobOK'
    BY <1>b, <1>c, SubmitTypes DEF JobOK
  <2>2. TypeOK'
    BY <1>c, SubmitTypes DEF TypeOK, tableVars, calcVars, searchVars
  <2> QED
    BY <2>1, <2>2
<1>d. ASSUME NEW n \in Names, NEW S \in SUBSET (Fields \union Names), NEW k \in {"plain", "formula"}
      PROVE  Asked(f, [kind |-> k, name |-> n, refs |-> S]) \in Request
  BY AskedIsRequest DEF Definition
<1>1. CASE CreateField(e, f)
  <2>1. PICK n \in Names :
          IF f \in Plain
            THEN Submit(e, Asked(f, [kind |-> "plain", name |-> n, refs |-> {}]), "unchecked")
            ELSE \E S \in Expressions :
                   Submit(e, Asked(f, [kind |-> "formula", name |-> n, refs |-> S]), "list")
    BY <1>1 DEF CreateField
  <2>2. UNCHANGED <<tableVars, calcVars, version, graph, searchVars>>
    BY <1>1 DEF CreateField
  <2>3. CASE f \in Plain
    BY <1>c, <1>d, <2>1, <2>2, <2>3
  <2>4. CASE f \notin Plain
    BY <1>c, <1>d, <2>1, <2>2, <2>4, ExpressionsRefer
  <2> QED
    BY <2>3, <2>4
<1>2. CASE UpdateField(e, f)
  <2>1. PICK n \in Names :
          \/ \E S \in Expressions \union {def[f].refs} :
               Submit(e, Asked(f, [kind |-> "formula", name |-> n, refs |-> S]), "list")
          \/ Submit(e, Asked(f, [def[f] EXCEPT !.name = n]), "unchecked")
    BY <1>2 DEF UpdateField
  <2>2. UNCHANGED <<tableVars, calcVars, version, graph, searchVars>>
    BY <1>2 DEF UpdateField
  <2>3. def[f] \in Definition /\ def[f].refs \subseteq Fields \union Names
    BY DEF TypeOK, Definition
  <2>4. CASE \E S \in Expressions \union {def[f].refs} :
               Submit(e, Asked(f, [kind |-> "formula", name |-> n, refs |-> S]), "list")
    <3>1. PICK S \in Expressions \union {def[f].refs} :
            Submit(e, Asked(f, [kind |-> "formula", name |-> n, refs |-> S]), "list")
      BY <2>4
    <3>2. S \subseteq Fields \union Names
      BY <2>3, ExpressionsRefer
    <3> QED
      BY <1>c, <1>d, <2>2, <3>1, <3>2
  <2>5. CASE Submit(e, Asked(f, [def[f] EXCEPT !.name = n]), "unchecked")
    <3>1. [def[f] EXCEPT !.name = n] \in Definition
      BY <2>3 DEF Definition
    <3> QED
      BY <1>c, <2>2, <2>5, <3>1, AskedIsRequest
  <2> QED
    BY <2>1, <2>4, <2>5
<1>3. CASE HandleBlank(e, f)
  BY <1>3, FieldAssumption
  DEF HandleBlank, Free, TypeOK, JobOK, tableVars, calcVars, jobVars, searchVars
<1>4. CASE DeleteField(e, f)
  <2>1. [def EXCEPT ![f] = Gone] \in [Fields -> Definition] /\ edits' \in 0 .. MaxEdits
    BY <1>4, GoneIsDefinition, FieldAssumption DEF DeleteField, Free, TypeOK
  <2>2. def' \in [Fields -> Definition] /\ now' \in Nat
    BY <1>4, <2>1, ChangeType DEF DeleteField
  <2> QED
    BY <1>4, <2>1, <2>2 DEF DeleteField, TypeOK, JobOK, calcVars, jobVars, searchVars
<1> QED
  BY <1>a, <1>1, <1>2, <1>3, <1>4

LEMMA EditTypes ==
  ASSUME TInv, NEW e \in Editors, Edit(e)
  PROVE  TInv'
<1> USE DEF TInv
<1>b. e \in Procs /\ \A q \in Editors : q \in Procs
  BY DEF Procs
<1>1. CASE ListFields(e)
  <2>1. graph' \in [Procs -> SUBSET (Fields \X Fields)]
    BY <1>1, GraphIsRelation DEF ListFields, TypeOK
  <2> QED
    BY <1>1, <1>b, <2>1 DEF ListFields, TypeOK, JobOK, tableVars, calcVars, searchVars
<1>2. CASE SkipCheck(e) \/ Accept(e)
  BY <1>2, <1>b DEF SkipCheck, Accept, TypeOK, JobOK, tableVars, calcVars, jobVars, searchVars
<1>3. CASE SaveEdit(e)
  <2>1. /\ job[e] \in Request
        /\ SaveField(job[e].field, job[e].def)
        /\ Finished(e)
        /\ UNCHANGED <<calcVars, edits, version>>
    BY <1>3 DEF SaveEdit, JobOK
  <2>2. job[e].field \in Fields /\ job[e].def \in Definition
    BY <2>1 DEF Request
  <2>3. def' \in [Fields -> Definition] /\ now' \in Nat
    BY <2>1, <2>2, SaveFieldType
  <2> QED
    BY <1>b, <2>1, <2>3, FinishedType DEF TypeOK, JobOK, calcVars
<1>4. CASE Refuse(e)
  <2>1. Finished(e) /\ UNCHANGED <<tableVars, calcVars, edits, version>>
    BY <1>4 DEF Refuse
  <2> QED
    BY <1>b, <2>1, FinishedType DEF TypeOK, JobOK, tableVars, calcVars
<1> QED
  BY <1>1, <1>2, <1>3, <1>4 DEF Edit

LEMMA NextTypes == TInv /\ [Next]_vars => TInv'
<1> SUFFICES ASSUME TInv, [Next]_vars PROVE TInv'
  OBVIOUS
<1>1. ASSUME NEW c \in Calcs, Calculate(c) \/ Search(c) PROVE TInv'
  BY <1>1, CalculateTypes, SearchTypes DEF Procs
<1>2. ASSUME NEW e \in Editors, Ask(e) \/ Edit(e) \/ Search(e) PROVE TInv'
  BY <1>2, AskTypes, EditTypes, SearchTypes DEF Procs
<1>3. CASE UNCHANGED vars
  BY <1>3 DEF TInv, TypeOK, JobOK, vars, tableVars, calcVars, jobVars, searchVars
<1> QED
  BY <1>1, <1>2, <1>3 DEF Next

\* The variables keep their types; no editor works without a request.
THEOREM FieldsTypeOK == Spec => []TypeOK
<1>1. Spec => []TInv
  BY InitTypes, NextTypes, PTL DEF Spec
<1> QED
  BY <1>1, PTL DEF TInv

-----------------------------------------------------------------------------
(* The searches *)

\* The stack is a path in the direction of the search.
PathOK(p) ==
  \A i \in 1 .. Len(stack[p]) - 1 : stack[p][i + 1] \in Neighbours(p, stack[p][i])

\* A node is sorted after all nodes the search had to visit from it.
ClosedOK(p) ==
  \A i \in 1 .. Len(sorted[p]) : \A x \in Neighbours(p, sorted[p][i]) :
    \E j \in 1 .. i - 1 : sorted[p][j] = x

\* A process that is not searching yet starts with nothing.
CleanOK(p) ==
  /\ pc[p] \in {"idle", "map", "lookup", "store", "list"} => stack[p] = << >> /\ sorted[p] = << >>
  /\ pc[p] \in {"idle", "map"} => graph[p] = {}

ExactOK(p) ==
  /\ pc[p] = "err" => Cyclic(graph[p])
  /\ pc[p] \in {"save", "compute"} => ~ Cyclic(graph[p])

SearchOK(p) ==
  /\ Searching(p) => PathOK(p) /\ ClosedOK(p)
  /\ CleanOK(p)
  /\ ExactOK(p)

SearchInv == TInv /\ \A p \in Procs : SearchOK(p)

LEMMA EmptyIsAcyclic == ~ Cyclic({})
BY DEF Cyclic

\* Nothing on the stack, nothing sorted: a search can start.
LEMMA EmptySearch ==
  ASSUME NEW p \in Procs, stack[p] = << >>, sorted[p] = << >>
  PROVE  PathOK(p) /\ ClosedOK(p)
BY DEF PathOK, ClosedOK

\* What holds of a process is not disturbed by the steps of others.
LEMMA OthersSearchOK ==
  ASSUME NEW p \in Procs, SearchOK(p),
         pc'[p] = pc[p], graph'[p] = graph[p], stack'[p] = stack[p], sorted'[p] = sorted[p]
  PROVE  SearchOK(p)'
<1>1. \A x : Neighbours(p, x)' = Neighbours(p, x)
  BY DEF Neighbours
<1>2. PathOK(p) => PathOK(p)'
  BY <1>1 DEF PathOK
<1>3. ClosedOK(p) => ClosedOK(p)'
  <2> SUFFICES ASSUME ClosedOK(p), NEW i \in 1 .. Len(sorted'[p]),
                      NEW x \in Neighbours(p, sorted[p][i])'
               PROVE  \E j \in 1 .. i - 1 : sorted'[p][j] = x
    BY DEF ClosedOK
  <2>1. i \in 1 .. Len(sorted[p]) /\ x \in Neighbours(p, sorted[p][i])
    BY <1>1
  <2> QED
    BY <2>1 DEF ClosedOK
<1>4. Searching(p)' = Searching(p) /\ (CleanOK(p) => CleanOK(p)')
  BY DEF Searching, CleanOK
<1>5. ExactOK(p) => ExactOK(p)'
  BY Zenon DEF ExactOK, Cyclic
<1> QED
  BY <1>2, <1>3, <1>4, <1>5 DEF SearchOK

LEMMA InitSearch == Init => SearchInv
<1> SUFFICES ASSUME Init, NEW p \in Procs PROVE SearchOK(p)
  BY InitTypes DEF SearchInv
<1>1. /\ pc[p] = "idle" /\ graph[p] = {}
      /\ stack[p] = << >> /\ sorted[p] = << >>
  BY DEF Init
<1> QED
  BY <1>1 DEF SearchOK, Searching, CleanOK, ExactOK

\* A neighbour that is on the stack closes a cycle.
LEMMA FoundIsCycle ==
  ASSUME TypeOK, NEW p \in Procs, PathOK(p), CycleFound(p)
  PROVE  Cyclic(graph[p])
<1> DEFINE s == stack[p]
<1>1. s \in Seq(Fields) /\ Len(s) \in Nat \ {0}
  BY DEF TypeOK, CycleFound
<1>2. PICK k \in 1 .. Len(s) : s[k] \in Neighbours(p, s[Len(s)])
  BY <1>1 DEF CycleFound, Ahead, Top, Range
<1>3. CASE pc[p] = "sort"
  <2>1. \A i \in 1 .. Len(s) - 1 : <<s[i + 1], s[i]>> \in graph[p]
    BY <1>3 DEF PathOK, Neighbours
  <2>2. <<s[k], s[Len(s)]>> \in graph[p]
    BY <1>2, <1>3 DEF Neighbours
  <2> HIDE DEF s
  <2> QED
    BY <1>1, <1>2, <2>1, <2>2, CycleAgainstEdges
<1>4. CASE pc[p] # "sort"
  <2>1. \A i \in 1 .. Len(s) - 1 : <<s[i], s[i + 1]>> \in graph[p]
    BY <1>4 DEF PathOK, Neighbours
  <2>2. <<s[Len(s)], s[k]>> \in graph[p]
    BY <1>2, <1>4 DEF Neighbours
  <2> HIDE DEF s
  <2> QED
    BY <1>1, <1>2, <2>1, <2>2, CycleAlongEdges
<1> QED
  BY <1>3, <1>4

\* A search that has nowhere left to start has seen that there is no cycle.
LEMMA EndIsAcyclic ==
  ASSUME TypeOK, NEW p \in Procs, ClosedOK(p), SearchEnds(p)
  PROVE  ~ Cyclic(graph[p])
<1> DEFINE s == sorted[p]
           g == graph[p]
<1>1. s \in Seq(Fields)
  BY DEF TypeOK
<1>2. \A x \in Visited(p) : \E i \in 1 .. Len(s) : s[i] = x
  BY <1>1 DEF Visited, Range
<1>3. \A x, y \in Fields : <<x, y>> \in g => x \in Sources(p)
  BY DEF Sources
<1>4. CASE pc[p] = "check"
  <2>1. Sources(p) \subseteq Visited(p)
    BY <1>4 DEF SearchEnds, Starts
  <2>2. \A x, y \in Fields : <<x, y>> \in g => \E i \in 1 .. Len(s) : s[i] = x
    BY <1>2, <1>3, <2>1
  <2>3. \A i \in 1 .. Len(s) : \A x \in Fields :
          <<s[i], x>> \in g => \E j \in 1 .. i - 1 : s[j] = x
    BY <1>4 DEF ClosedOK, Neighbours
  <2> HIDE DEF s, g
  <2>4. ~ Cyclic(g)
    BY <1>1, <2>2, <2>3, SortedAfterSuccessors
  <2> QED
    BY <2>4 DEF g
<1>5. CASE pc[p] = "sort"
  <2>1. Nodes(p) \subseteq Visited(p)
    BY <1>5 DEF SearchEnds, Starts
  <2>2. \A x, y \in Fields : <<x, y>> \in g => \E i \in 1 .. Len(s) : s[i] = x
    BY <1>2, <1>3, <2>1 DEF Nodes
  <2>3. \A i \in 1 .. Len(s) : \A x \in Fields :
          <<x, s[i]>> \in g => \E j \in 1 .. i - 1 : s[j] = x
    BY <1>5 DEF ClosedOK, Neighbours
  <2> HIDE DEF s, g
  <2>4. ~ Cyclic(g)
    BY <1>1, <2>2, <2>3, SortedAfterPredecessors
  <2> QED
    BY <2>4 DEF g
<1> QED
  BY <1>4, <1>5 DEF SearchEnds, Searching

\* Entering a neighbour prolongs the path, leaving a node closes it.
LEMMA SearchKeepsSearch ==
  ASSUME SearchInv, NEW p \in Procs, Search(p)
  PROVE  \A q \in Procs : SearchOK(q)'
<1>1. TypeOK /\ SearchOK(p) /\ Searching(p)
  BY DEF SearchInv, TInv, Search, StartSearch, Descend, CycleFound, Leave
<1>2. PathOK(p) /\ ClosedOK(p)
  BY <1>1 DEF SearchOK
<1>3. /\ stack[p] \in Seq(Fields) /\ sorted[p] \in Seq(Fields)
      /\ Len(stack[p]) \in Nat /\ Len(sorted[p]) \in Nat
  BY <1>1 DEF TypeOK
<1>4. \A q \in Procs \ {p} : SearchOK(q)'
  <2>1. \A q \in Procs \ {p} :
          /\ pc'[q] = pc[q] /\ graph'[q] = graph[q]
          /\ stack'[q] = stack[q] /\ sorted'[q] = sorted[q]
    BY <1>1 DEF Search, StartSearch, Descend, CycleFound, Leave, Visit, TypeOK,
       jobVars, searchVars
  <2> QED
    BY <2>1, OthersSearchOK DEF SearchInv
<1> SUFFICES SearchOK(p)'
  BY <1>4
<1>5. ASSUME NEW n, Visit(p, n),
             stack[p] # << >> => n \in Neighbours(p, Top(p))
      PROVE  SearchOK(p)'
  <2>1. /\ stack'[p] = Append(stack[p], n)
        /\ sorted'[p] = sorted[p] /\ pc'[p] = pc[p] /\ graph'[p] = graph[p]
    BY <1>1, <1>5 DEF Visit, TypeOK, jobVars
  <2>2. \A x : Neighbours(p, x)' = Neighbours(p, x)
    BY <2>1 DEF Neighbours
  <2>3. PathOK(p)'
    <3> SUFFICES ASSUME NEW i \in 1 .. Len(stack'[p]) - 1
                 PROVE  stack'[p][i + 1] \in Neighbours(p, stack'[p][i])
      BY <2>2 DEF PathOK
    <3>1. /\ Len(stack'[p]) = Len(stack[p]) + 1
          /\ i \in 1 .. Len(stack[p])
          /\ stack'[p][i] = stack[p][i]
      BY <1>3, <2>1
    <3>2. CASE i = Len(stack[p])
      <4>1. stack'[p][i + 1] = n /\ stack[p] # << >>
        BY <1>3, <2>1, <3>1, <3>2
      <4> QED
        BY <1>5, <3>1, <3>2, <4>1 DEF Top
    <3>3. CASE i # Len(stack[p])
      <4>1. i \in 1 .. Len(stack[p]) - 1 /\ stack'[p][i + 1] = stack[p][i + 1]
        BY <1>3, <2>1, <3>1, <3>3
      <4> QED
        BY <1>2, <3>1, <4>1 DEF PathOK
    <3> QED
      BY <3>2, <3>3
  <2>4. ClosedOK(p)'
    <3> SUFFICES ASSUME NEW i \in 1 .. Len(sorted'[p]),
                        NEW x \in Neighbours(p, sorted[p][i])'
                 PROVE  \E j \in 1 .. i - 1 : sorted'[p][j] = x
      BY DEF ClosedOK
    <3>1. i \in 1 .. Len(sorted[p]) /\ x \in Neighbours(p, sorted[p][i])
      BY <2>1, <2>2
    <3> QED
      BY <1>2, <2>1, <3>1 DEF ClosedOK
  <2> QED
    BY <1>1, <2>1, <2>3, <2>4 DEF SearchOK, Searching, CleanOK, ExactOK
<1>6. CASE StartSearch(p)
  BY <1>5, <1>6 DEF StartSearch
<1>7. CASE Descend(p)
  BY <1>5, <1>7 DEF Descend, Ahead
<1>8. CASE CycleFound(p)
  <2>1. pc'[p] = "err" /\ graph'[p] = graph[p]
    BY <1>1, <1>8 DEF CycleFound, TypeOK, jobVars
  <2>2. Cyclic(graph[p])
    BY <1>1, <1>2, <1>8, FoundIsCycle
  <2> QED
    BY <2>1, <2>2 DEF SearchOK, Searching, CleanOK, ExactOK
<1>9. CASE Leave(p)
  <2>1. /\ stack'[p] = SubSeq(stack[p], 1, Len(stack[p]) - 1)
        /\ sorted'[p] = Append(sorted[p], Top(p))
        /\ pc'[p] = pc[p] /\ graph'[p] = graph[p]
    BY <1>1, <1>9 DEF Leave, TypeOK, jobVars
  <2>2. \A x : Neighbours(p, x)' = Neighbours(p, x)
    BY <2>1 DEF Neighbours
  <2>3. PathOK(p)'
    <3>1. /\ Len(stack'[p]) = Len(stack[p]) - 1
          /\ \A i \in 1 .. Len(stack[p]) - 1 : stack'[p][i] = stack[p][i]
      BY <1>3, <1>9, <2>1, SubSeqProperties DEF Leave
    <3> QED
      BY <1>2, <1>3, <2>2, <3>1 DEF PathOK
  <2>4. ClosedOK(p)'
    <3> SUFFICES ASSUME NEW i \in 1 .. Len(sorted'[p]),
                        NEW x \in Neighbours(p, sorted'[p][i])
                 PROVE  \E j \in 1 .. i - 1 : sorted'[p][j] = x
      BY <2>2 DEF ClosedOK
    <3>1. /\ Len(sorted'[p]) = Len(sorted[p]) + 1
          /\ sorted'[p][Len(sorted[p]) + 1] = Top(p)
          /\ \A j \in 1 .. Len(sorted[p]) : sorted'[p][j] = sorted[p][j]
      BY <1>3, <2>1
    <3>2. CASE i = Len(sorted[p]) + 1
      <4>1. x \in Visited(p)
        BY <1>9, <3>1, <3>2 DEF Leave, Ahead
      <4>2. PICK j \in 1 .. Len(sorted[p]) : sorted[p][j] = x
        BY <1>3, <4>1 DEF Visited, Range
      <4> QED
        BY <1>3, <3>1, <3>2, <4>2
    <3>3. CASE i # Len(sorted[p]) + 1
      <4>1. i \in 1 .. Len(sorted[p])
        BY <1>3, <3>1, <3>3
      <4>2. PICK j \in 1 .. i - 1 : sorted[p][j] = x
        BY <1>2, <3>1, <4>1 DEF ClosedOK
      <4> QED
        BY <1>3, <3>1, <4>1, <4>2
    <3> QED
      BY <3>2, <3>3
  <2> QED
    BY <1>1, <2>1, <2>3, <2>4 DEF SearchOK, Searching, CleanOK, ExactOK
<1> QED
  BY <1>6, <1>7, <1>8, <1>9 DEF Search

\* A process with nothing visited has nothing to be wrong about.
LEMMA UnsearchedOK ==
  ASSUME NEW p \in Procs, stack'[p] = << >>, sorted'[p] = << >>, pc'[p] # "err",
         pc'[p] \in {"idle", "map"} => graph'[p] = {},
         pc'[p] \in {"save", "compute"} => ~ Cyclic(graph'[p])
  PROVE  SearchOK(p)'
<1>1. PathOK(p)' /\ ClosedOK(p)'
  BY DEF PathOK, ClosedOK
<1>2. CleanOK(p)'
  BY DEF CleanOK
<1>3. ExactOK(p)'
  BY Zenon DEF ExactOK, Cyclic
<1> QED
  BY <1>1, <1>2, <1>3 DEF SearchOK

LEMMA FinishedOK ==
  ASSUME TypeOK, NEW p \in Procs, Finished(p)
  PROVE  SearchOK(p)'
<1>1. /\ stack'[p] = << >> /\ sorted'[p] = << >> /\ graph'[p] = {}
      /\ pc'[p] \in {"ok", "idle"}
  BY DEF Finished, TypeOK
<1> QED
  BY <1>1, UnsearchedOK

LEMMA CalculateKeepsSearch ==
  ASSUME SearchInv, NEW c \in Calcs, Calculate(c)
  PROVE  \A q \in Procs : SearchOK(q)'
<1>1. TypeOK /\ c \in Procs /\ SearchOK(c)
  BY DEF SearchInv, TInv, Procs
<1>2. \A q \in Procs \ {c} : SearchOK(q)'
  <2>1. \A q \in Procs \ {c} :
          /\ pc'[q] = pc[q] /\ graph'[q] = graph[q]
          /\ stack'[q] = stack[q] /\ sorted'[q] = sorted[q]
    BY <1>1 DEF Calculate, ReadFields, MapFields, CacheHit, CacheMiss, CacheStore, UseGraph, Checked,
       Ordered, Compute, ComputeFails, AnswerCalc, Finished, TypeOK, jobVars, searchVars
  <2> QED
    BY <2>1, OthersSearchOK DEF SearchInv
<1> SUFFICES SearchOK(c)'
  BY <1>2
<1>3. CASE ReadFields(c) \/ MapFields(c)
  <2>1. /\ pc[c] \in {"idle", "map"} /\ pc'[c] \in {"map", "answer", "lookup"}
        /\ UNCHANGED <<graph, stack, sorted>>
    BY <1>1, <1>3 DEF ReadFields, MapFields, TypeOK, searchVars
  <2> QED
    BY <1>1, <2>1, UnsearchedOK DEF SearchOK, CleanOK
<1>4. CASE CacheHit(c) \/ CacheStore(c)
  <2>1. /\ pc[c] \in {"lookup", "store"} /\ pc'[c] \in {"check", "sort", "answer"}
        /\ UNCHANGED <<stack, sorted>>
    BY <1>1, <1>4 DEF CacheHit, CacheStore, UseGraph, TypeOK, searchVars
  <2> QED
    BY <1>1, <2>1, UnsearchedOK DEF SearchOK, CleanOK
<1>5. CASE CacheMiss(c)
  <2>1. pc[c] = "lookup" /\ pc'[c] = "store" /\ UNCHANGED <<stack, sorted>>
    BY <1>1, <1>5 DEF CacheMiss, TypeOK, searchVars
  <2> QED
    BY <1>1, <2>1, UnsearchedOK DEF SearchOK, CleanOK
<1>6. CASE Checked(c)
  <2>1. pc'[c] = "sort" /\ stack'[c] = << >> /\ sorted'[c] = << >>
    BY <1>1, <1>6 DEF Checked, SearchEnds, TypeOK
  <2> QED
    BY <1>1, <2>1, UnsearchedOK
<1>7. CASE Ordered(c)
  <2>1. /\ pc[c] = "sort" /\ pc'[c] = "compute" /\ UNCHANGED <<graph, stack, sorted>>
        /\ SearchEnds(c)
    BY <1>1, <1>7 DEF Ordered, TypeOK, jobVars, searchVars
  <2>2. ~ Cyclic(graph[c])
    BY <1>1, <2>1, EndIsAcyclic DEF SearchOK, Searching
  <2>3. ~ Cyclic(graph[c])'
    BY <2>1, <2>2, Zenon DEF Cyclic
  <2> QED
    BY <2>1, <2>3 DEF SearchOK, Searching, CleanOK, ExactOK
<1>8. CASE Compute(c) \/ ComputeFails(c)
  <2>1. UNCHANGED <<pc, graph, stack, sorted>>
    BY <1>8 DEF Compute, ComputeFails, jobVars, searchVars
  <2> QED
    BY <1>1, <2>1, OthersSearchOK
<1>9. CASE AnswerCalc(c)
  BY <1>1, <1>9, FinishedOK DEF AnswerCalc
<1> QED
  BY <1>3, <1>4, <1>5, <1>6, <1>7, <1>8, <1>9 DEF Calculate

LEMMA AskKeepsSearch ==
  ASSUME SearchInv, NEW e \in Editors, Ask(e)
  PROVE  \A q \in Procs : SearchOK(q)'
<1>1. TypeOK /\ e \in Procs /\ SearchOK(e)
  BY DEF SearchInv, TInv, Procs
<1>2. PICK f \in Fields :
        CreateField(e, f) \/ UpdateField(e, f) \/ HandleBlank(e, f) \/ DeleteField(e, f)
  BY DEF Ask
<1>3. UNCHANGED <<graph, stack, sorted>>
  BY <1>2 DEF CreateField, UpdateField, HandleBlank, DeleteField, jobVars, searchVars
<1>4. /\ \A q \in Procs \ {e} : pc'[q] = pc[q]
      /\ pc[e] = "idle" /\ pc'[e] \in {"idle", "list", "unchecked"}
  BY <1>1, <1>2 DEF CreateField, UpdateField, HandleBlank, DeleteField, Submit, Free, TypeOK
<1>5. \A q \in Procs \ {e} : SearchOK(q)'
  BY <1>3, <1>4, OthersSearchOK DEF SearchInv
<1>6. SearchOK(e)'
  BY <1>1, <1>3, <1>4, UnsearchedOK, EmptyIsAcyclic DEF SearchOK, CleanOK
<1> QED
  BY <1>5, <1>6

LEMMA EditKeepsSearch ==
  ASSUME SearchInv, NEW e \in Editors, Edit(e)
  PROVE  \A q \in Procs : SearchOK(q)'
<1>1. TypeOK /\ e \in Procs /\ SearchOK(e)
  BY DEF SearchInv, TInv, Procs
<1>2. \A q \in Procs \ {e} : SearchOK(q)'
  <2>1. \A q \in Procs \ {e} :
          /\ pc'[q] = pc[q] /\ graph'[q] = graph[q]
          /\ stack'[q] = stack[q] /\ sorted'[q] = sorted[q]
    BY <1>1 DEF Edit, ListFields, SkipCheck, Accept, SaveEdit, Refuse, Finished, TypeOK,
       jobVars, searchVars
  <2> QED
    BY <2>1, OthersSearchOK DEF SearchInv
<1> SUFFICES SearchOK(e)'
  BY <1>2
<1>3. CASE ListFields(e) \/ SkipCheck(e)
  <2>1. /\ pc[e] = "list" /\ pc'[e] \in {"check", "unchecked"}
        /\ UNCHANGED <<stack, sorted>>
    BY <1>1, <1>3 DEF ListFields, SkipCheck, TypeOK, searchVars
  <2> QED
    BY <1>1, <2>1, UnsearchedOK DEF SearchOK, CleanOK
<1>4. CASE Accept(e)
  <2>1. /\ pc[e] = "check" /\ pc'[e] = "save" /\ UNCHANGED <<graph, stack, sorted>>
        /\ SearchEnds(e)
    BY <1>1, <1>4 DEF Accept, TypeOK, jobVars, searchVars
  <2>2. ~ Cyclic(graph[e])
    BY <1>1, <2>1, EndIsAcyclic DEF SearchOK, Searching
  <2>3. ~ Cyclic(graph[e])'
    BY <2>1, <2>2, Zenon DEF Cyclic
  <2> QED
    BY <2>1, <2>3 DEF SearchOK, Searching, CleanOK, ExactOK
<1>5. CASE SaveEdit(e) \/ Refuse(e)
  BY <1>1, <1>5, FinishedOK DEF SaveEdit, Refuse
<1> QED
  BY <1>3, <1>4, <1>5 DEF Edit

LEMMA NextSearch == SearchInv /\ [Next]_vars => SearchInv'
<1> SUFFICES ASSUME SearchInv, [Next]_vars PROVE \A q \in Procs : SearchOK(q)'
  BY NextTypes DEF SearchInv
<1>1. ASSUME NEW c \in Calcs, Calculate(c) \/ Search(c)
      PROVE  \A q \in Procs : SearchOK(q)'
  BY <1>1, CalculateKeepsSearch, SearchKeepsSearch DEF Procs
<1>2. ASSUME NEW e \in Editors, Ask(e) \/ Edit(e) \/ Search(e)
      PROVE  \A q \in Procs : SearchOK(q)'
  BY <1>2, AskKeepsSearch, EditKeepsSearch, SearchKeepsSearch DEF Procs
<1>3. CASE UNCHANGED vars
  BY <1>3, OthersSearchOK DEF SearchInv, vars, jobVars, searchVars
<1> QED
  BY <1>1, <1>2, <1>3 DEF Next

\* An edit or a calculation is refused only for a cycle, and goes on only
\* without one, whatever order the maps are ranged over.
THEOREM FieldsSearchIsExact == Spec => []SearchIsExact
<1>1. Spec => []SearchInv
  BY InitSearch, NextSearch, PTL DEF Spec
<1>2. SearchInv => SearchIsExact
  BY DEF SearchInv, SearchOK, ExactOK, SearchIsExact
<1> QED
  BY <1>1, <1>2, PTL

-----------------------------------------------------------------------------
(* One editor *)

SoleEditor == \A d, e \in Editors : d = e

NamesDiffer ==
  \A f, g \in Fields :
    Present(def, f) /\ Present(def, g) /\ def[f].name = def[g].name => f = g

\* What the editor is about to save keeps the names apart, and what it has
\* checked has its dependencies in the graph it checks.
PendingOK(e) ==
  LET f == job[e].field
      new == job[e].def
  IN  /\ pc[e] \in {"list", "check", "save", "unchecked"}
           => def[f].kind # "gone" /\ Named(def, new.name) \subseteq {f}
      /\ pc[e] \in {"check", "save"}
           => GraphOf([def EXCEPT ![f] = new]) \subseteq graph[e]

EditInv == NoErrors => NamesDiffer /\ \A e \in Editors : PendingOK(e)

\* Taking edges away closes no circle.
LEMMA FewerEdges ==
  ASSUME NEW g, NEW h, g \subseteq h, ~ Cyclic(h)
  PROVE  ~ Cyclic(g)
BY Zenon DEF Cyclic

\* A name that no other field has is resolved in the list to the field that
\* will have it: the list has all edges of the table to come.
LEMMA ListedEdges ==
  ASSUME TypeOK, NamesDiffer, NEW f \in Fields, NEW new \in Definition,
         Named(def, new.name) \subseteq {f}
  PROVE  GraphOf([def EXCEPT ![f] = new]) \subseteq GraphWith(def, f, new)
<1> DEFINE d == [def EXCEPT ![f] = new]
           Means(refs, x) ==
             \/ Refer(refs, def, x)
             \/ x = f /\ (f \in refs \/ (new.name \in refs /\ Named(def, new.name) = {}))
<1>1. d[f] = new /\ \A g \in Fields \ {f} : d[g] = def[g]
  BY DEF TypeOK
<1>2. Order \in [Fields -> Nat]
  BY FieldAssumption
<1> HIDE DEF d
<1>3. ASSUME NEW refs, NEW x \in Fields, Refer(refs, d, x)
      PROVE  Means(refs, x)
  <2>1. PICK r \in refs :
          \/ r = x /\ Present(d, x)
          \/ x \in Named(d, r) /\ \A h \in Named(d, r) : Order[x] <= Order[h]
    BY <1>3 DEF Refer
  <2>2. CASE r = x
    <3>1. CASE x = f
      BY <2>1, <2>2, <3>1
    <3>2. CASE x # f
      <4>1. Present(d, x)
        BY <2>1, <2>2 DEF Named
      <4>2. Present(def, x)
        BY <1>1, <3>2, <4>1 DEF Present
      <4>3. Refer(refs, def, x)
        BY <2>1, <2>2, <4>2 DEF Refer
      <4> QED
        BY <4>3
    <3> QED
      BY <3>1, <3>2
  <2>3. CASE x \in Named(d, r)
    <3>1. Present(d, x) /\ d[x].name = r
      BY <2>3 DEF Named
    <3>2. CASE x = f
      <4>1. new.name = r
        BY <1>1, <3>1, <3>2
      <4>2. CASE Named(def, r) = {}
        BY <2>1, <3>2, <4>1, <4>2
      <4>3. CASE Named(def, r) # {}
        <5>1. Named(def, r) = {f}
          BY <4>1, <4>3
        <5>2. Refer(refs, def, f)
          BY <1>2, <2>1, <5>1 DEF Refer
        <5> QED
          BY <3>2, <5>2
      <4> QED
        BY <4>2, <4>3
    <3>3. CASE x # f
      <4>1. Present(def, x) /\ def[x].name = r
        BY <1>1, <3>1, <3>3 DEF Present
      <4>2. Named(def, r) = {x}
        BY <4>1 DEF Named, NamesDiffer
      <4>3. Refer(refs, def, x)
        BY <1>2, <2>1, <4>2 DEF Refer
      <4> QED
        BY <4>3
    <3> QED
      BY <3>2, <3>3
  <2> QED
    BY <2>1, <2>2, <2>3
<1>4. ASSUME NEW x \in Fields, NEW y \in Fields, Virtual(d, y), Refer(d[y].refs, d, x)
      PROVE  \/ Virtual(def, y) /\ Means(def[y].refs, x)
             \/ y = f /\ Means(new.refs, x)
  <2>1. CASE y = f
    BY <1>1, <1>3, <1>4, <2>1
  <2>2. CASE y # f
    BY <1>1, <1>3, <1>4, <2>2 DEF Virtual
  <2> QED
    BY <2>1, <2>2
<1>5. GraphWith(def, f, new) =
        {e \in Fields \X Fields : \/ Virtual(def, e[2]) /\ Means(def[e[2]].refs, e[1])
                                  \/ e[2] = f /\ Means(new.refs, e[1])}
  BY DEF GraphWith
<1>6. \A e \in GraphOf(d) : /\ e \in Fields \X Fields /\ e[1] \in Fields /\ e[2] \in Fields
                            /\ Virtual(d, e[2]) /\ Refer(d[e[2]].refs, d, e[1])
  BY DEF GraphOf
<1>7. GraphOf(d) \subseteq GraphWith(def, f, new)
  <2> HIDE DEF Means
  <2> QED
    BY <1>4, <1>5, <1>6
<1> QED
  BY <1>7 DEF d

LEMMA InitEdit == Init => EditInv
<1> SUFFICES ASSUME Init PROVE EditInv
  OBVIOUS
<1>1. \A e \in Editors : pc[e] = "idle"
  BY DEF Init, Procs
<1>2. \A f \in Fields : Present(def, f) => Named(def, def[f].name) = {f}
  <2>1. \A f \in Fields :
          \/ def[f] = [kind |-> "new", name |-> None, refs |-> {}]
          \/ Named(def, def[f].name) = {f}
    BY TablesAssumption, Zenon DEF Init
  <2> QED
    BY <2>1 DEF Present
<1>3. NamesDiffer
  BY <1>2 DEF NamesDiffer, Named
<1> QED
  BY <1>1, <1>3 DEF EditInv, PendingOK

\* A step that changes neither the table nor the errors nor the editor's work.
LEMMA EditUndisturbed ==
  ASSUME EditInv, UNCHANGED <<def, errorFields>>,
         \A e \in Editors : NamesDiffer /\ PendingOK(e) => PendingOK(e)'
  PROVE  EditInv'
<1>1. NamesDiffer' = NamesDiffer
  BY DEF NamesDiffer, Present
<1>2. NoErrors' = NoErrors
  BY DEF NoErrors
<1> QED
  BY <1>1, <1>2 DEF EditInv

LEMMA PendingUndisturbed ==
  ASSUME NEW e \in Editors, PendingOK(e), def' = def, graph'[e] = graph[e],
         job'[e] = job[e],
         pc'[e] = pc[e] \/ pc'[e] = "err" \/ (pc[e] = "list" /\ pc'[e] = "unchecked")
           \/ (pc[e] = "check" /\ pc'[e] = "save")
  PROVE  PendingOK(e)'
BY DEF PendingOK, GraphOf, Virtual, Refer, Named, Present

LEMMA SearchKeepsEdits ==
  ASSUME SearchInv, EditInv, NEW p \in Procs, Search(p)
  PROVE  EditInv'
<1>1. TypeOK /\ Editors \subseteq Procs
  BY DEF SearchInv, TInv, Procs
<1>2. /\ UNCHANGED <<def, errorFields, job, graph>>
      /\ \A q \in Procs : pc'[q] = pc[q] \/ pc'[q] = "err"
  BY <1>1 DEF Search, StartSearch, Descend, CycleFound, Leave, Visit, TypeOK,
     tableVars, calcVars, jobVars
<1> QED
  BY <1>1, <1>2, EditUndisturbed, PendingUndisturbed

LEMMA CalculateKeepsEdits ==
  ASSUME SearchInv, EditInv, NEW c \in Calcs, Calculate(c)
  PROVE  EditInv'
<1>1. TypeOK /\ c \in Procs /\ \A e \in Editors : e \in Procs \ {c}
  BY FieldAssumption DEF SearchInv, TInv, Procs
<1>2. CASE ComputeFails(c)
  <2>1. PICK f \in Fields : errorFields' = [errorFields EXCEPT ![c] = @ \union {f}]
    BY <1>2 DEF ComputeFails
  <2>2. errorFields'[c] # {}
    BY <1>1, <2>1 DEF TypeOK
  <2> QED
    BY <2>2 DEF EditInv, NoErrors
<1>3. CASE ~ ComputeFails(c)
  <2>1. UNCHANGED <<def, errorFields>>
    BY <1>3 DEF Calculate, ReadFields, MapFields, CacheHit, CacheMiss, CacheStore, Checked,
       Ordered, Compute, AnswerCalc, tableVars, calcVars
  <2>2. \A e \in Editors : pc'[e] = pc[e] /\ job'[e] = job[e] /\ graph'[e] = graph[e]
    BY <1>1, <1>3 DEF Calculate, ReadFields, MapFields, CacheHit, CacheMiss, CacheStore,
       UseGraph, Checked, Ordered, Compute, AnswerCalc, Finished, TypeOK, jobVars
  <2> QED
    BY <2>1, <2>2, EditUndisturbed, PendingUndisturbed
<1> QED
  BY <1>2, <1>3

LEMMA AskKeepsEdits ==
  ASSUME SoleEditor, SearchInv, EditInv, NEW e \in Editors, Ask(e)
  PROVE  EditInv'
<1>1. TypeOK /\ e \in Procs /\ \A q \in Editors : q = e
  BY DEF SoleEditor, SearchInv, TInv, Procs
<1>2. PICK f \in Fields :
        CreateField(e, f) \/ UpdateField(e, f) \/ HandleBlank(e, f) \/ DeleteField(e, f)
  BY DEF Ask
<1>3. ASSUME NEW new, NEW where \in {"list", "unchecked"}, Submit(e, Asked(f, new), where),
             UNCHANGED <<def, errorFields>>,
             def[f].kind # "gone", Named(def, new.name) \subseteq {f}
      PROVE  EditInv'
  <2>1. pc'[e] = where /\ job'[e] = Asked(f, new)
    BY <1>1, <1>3 DEF Submit, TypeOK
  <2>2. Named(def', new.name) \subseteq {f}
    BY <1>3 DEF Named
  <2>3. PendingOK(e)'
    BY <1>3, <2>1, <2>2 DEF PendingOK, Asked
  <2> QED
    BY <1>1, <1>3, <2>3, EditUndisturbed
<1>4. CASE CreateField(e, f)
  <2>1. /\ def[f].kind # "gone" /\ UNCHANGED <<def, errorFields>>
    BY <1>4 DEF CreateField, tableVars, calcVars
  <2>2. PICK n \in Names :
          /\ FreeName(f, n)
          /\ IF f \in Plain
               THEN Submit(e, Asked(f, [kind |-> "plain", name |-> n, refs |-> {}]), "unchecked")
               ELSE \E S \in Expressions :
                      Submit(e, Asked(f, [kind |-> "formula", name |-> n, refs |-> S]), "list")
    BY <1>4 DEF CreateField
  <2> QED
    BY <1>3, <2>1, <2>2 DEF FreeName
<1>5. CASE UpdateField(e, f)
  <2>1. def[f].kind # "gone" /\ UNCHANGED <<def, errorFields>> /\ def[f] \in Definition
    BY <1>1, <1>5 DEF UpdateField, Present, tableVars, calcVars, TypeOK
  <2>2. PICK n \in Names :
          /\ FreeName(f, n)
          /\ \/ \E S \in Expressions \union {def[f].refs} :
                  Submit(e, Asked(f, [kind |-> "formula", name |-> n, refs |-> S]), "list")
             \/ Submit(e, Asked(f, [def[f] EXCEPT !.name = n]), "unchecked")
    BY <1>5 DEF UpdateField
  <2>3. [def[f] EXCEPT !.name = n].name = n
    BY <2>1 DEF Definition
  <2>4. CASE \E S \in Expressions \union {def[f].refs} :
               Submit(e, Asked(f, [kind |-> "formula", name |-> n, refs |-> S]), "list")
    BY <1>3, <2>1, <2>2, <2>4 DEF FreeName
  <2>5. CASE Submit(e, Asked(f, [def[f] EXCEPT !.name = n]), "unchecked")
    BY <1>3, <2>1, <2>2, <2>3, <2>5 DEF FreeName
  <2> QED
    BY <2>2, <2>4, <2>5
<1>6. CASE HandleBlank(e, f)
  BY <1>6, EditUndisturbed, PendingUndisturbed DEF HandleBlank, tableVars, calcVars, jobVars
<1>7. CASE DeleteField(e, f)
  <2>1. /\ pc'[e] = "idle"
        /\ def' = [def EXCEPT ![f] = Gone]
        /\ errorFields' = errorFields
    BY <1>7 DEF DeleteField, Change, Free, calcVars
  <2>2. NamesDiffer => NamesDiffer'
    BY <1>1, <2>1 DEF NamesDiffer, Present, Gone, TypeOK
  <2>3. PendingOK(e)'
    BY <2>1 DEF PendingOK
  <2> QED
    BY <1>1, <2>1, <2>2, <2>3 DEF EditInv, NoErrors
<1> QED
  BY <1>2, <1>4, <1>5, <1>6, <1>7

\* The table after the editor has saved.
LEMMA SavedTable ==
  ASSUME SearchInv, EditInv, NoErrors, NEW e \in Editors, SaveEdit(e)
  PROVE  /\ job[e].field \in Fields /\ job[e].def \in Definition
         /\ NamesDiffer /\ PendingOK(e)
         /\ def' = [def EXCEPT ![job[e].field] = job[e].def]
<1>1. pc[e] \in {"save", "unchecked"} /\ SaveField(job[e].field, job[e].def)
  BY DEF SaveEdit
<1>2. job[e] \in Request
  BY <1>1 DEF SearchInv, TInv, JobOK
<1>3. PendingOK(e) /\ NamesDiffer
  BY DEF EditInv
<1>4. def[job[e].field].kind # "gone"
  BY <1>1, <1>3 DEF PendingOK
<1> QED
  BY <1>1, <1>2, <1>3, <1>4 DEF SaveField, Change, Request

LEMMA EditKeepsEdits ==
  ASSUME SoleEditor, SearchInv, EditInv, NEW e \in Editors, Edit(e)
  PROVE  EditInv'
<1>1. TypeOK /\ JobOK /\ e \in Procs /\ \A q \in Editors : q = e
  BY DEF SoleEditor, SearchInv, TInv, Procs
<1>2. CASE ListFields(e)
  <2> DEFINE f == job[e].field
             new == job[e].def
  <2>1. /\ UNCHANGED <<def, errorFields, job>>
        /\ pc[e] = "list" /\ pc'[e] = "check"
        /\ graph'[e] = GraphWith(def, f, new)
    BY <1>1, <1>2 DEF ListFields, TypeOK, tableVars, calcVars
  <2>2. f \in Fields /\ new \in Definition
    BY <1>1, <2>1 DEF JobOK, Request
  <2>3. ASSUME NamesDiffer, PendingOK(e) PROVE PendingOK(e)'
    <3>1. def[f].kind # "gone" /\ Named(def, new.name) \subseteq {f}
      BY <2>1, <2>3 DEF PendingOK
    <3>2. GraphOf([def EXCEPT ![f] = new]) \subseteq graph'[e]
      BY <1>1, <2>1, <2>2, <2>3, <3>1, ListedEdges
    <3> QED
      BY <2>1, <3>1, <3>2 DEF PendingOK, GraphOf, Virtual, Refer, Named, Present
  <2> QED
    BY <1>1, <2>1, <2>3, EditUndisturbed
<1>3. CASE SkipCheck(e) \/ Accept(e)
  <2>1. /\ UNCHANGED <<def, errorFields, job, graph>>
        /\ \/ pc[e] = "list" /\ pc'[e] = "unchecked"
           \/ pc[e] = "check" /\ pc'[e] = "save"
    BY <1>1, <1>3 DEF SkipCheck, Accept, TypeOK, tableVars, calcVars, jobVars
  <2> QED
    BY <1>1, <2>1, EditUndisturbed, PendingUndisturbed
<1>4. CASE SaveEdit(e)
  <2> DEFINE f == job[e].field
             new == job[e].def
  <2>1. pc'[e] = "idle" /\ errorFields' = errorFields
    BY <1>1, <1>4, FieldAssumption DEF SaveEdit, Finished, TypeOK, calcVars
  <2>2. PendingOK(e)'
    BY <2>1 DEF PendingOK
  <2>3. ASSUME NoErrors PROVE NamesDiffer'
    <3>1. /\ f \in Fields /\ new \in Definition /\ NamesDiffer /\ PendingOK(e)
          /\ def' = [def EXCEPT ![f] = new]
      BY <1>4, <2>3, SavedTable
    <3>2. Named(def, new.name) \subseteq {f}
      BY <1>4, <3>1 DEF PendingOK, SaveEdit
    <3>3. def'[f] = new /\ \A g \in Fields \ {f} : def'[g] = def[g]
      BY <1>1, <3>1 DEF TypeOK
    <3>4. ASSUME NEW g \in Fields, NEW h \in Fields, Present(def', g), Present(def', h),
                 def'[g].name = def'[h].name, g # h
          PROVE  FALSE
      <4>1. CASE g = f
        BY <3>2, <3>3, <3>4, <4>1 DEF Named, Present
      <4>2. CASE h = f
        BY <3>2, <3>3, <3>4, <4>2 DEF Named, Present
      <4>3. CASE g # f /\ h # f
        BY <3>1, <3>3, <3>4, <4>3 DEF NamesDiffer, Present
      <4> QED
        BY <4>1, <4>2, <4>3
    <3> QED
      BY <3>4 DEF NamesDiffer, Present
  <2> QED
    BY <1>1, <2>1, <2>2, <2>3 DEF EditInv, NoErrors
<1>5. CASE Refuse(e)
  <2>1. pc'[e] = "idle" /\ UNCHANGED <<def, errorFields>>
    BY <1>1, <1>5, FieldAssumption DEF Refuse, Finished, TypeOK, tableVars, calcVars
  <2>2. PendingOK(e)'
    BY <2>1 DEF PendingOK
  <2> QED
    BY <1>1, <2>1, <2>2, EditUndisturbed
<1> QED
  BY <1>2, <1>3, <1>4, <1>5 DEF Edit

LEMMA NextEdit == SoleEditor /\ SearchInv /\ EditInv /\ [Next]_vars => EditInv'
<1> SUFFICES ASSUME SoleEditor, SearchInv, EditInv, [Next]_vars PROVE EditInv'
  OBVIOUS
<1>1. ASSUME NEW c \in Calcs, Calculate(c) \/ Search(c) PROVE EditInv'
  BY <1>1, CalculateKeepsEdits, SearchKeepsEdits DEF Procs
<1>2. ASSUME NEW e \in Editors, Ask(e) \/ Edit(e) \/ Search(e) PROVE EditInv'
  BY <1>2, AskKeepsEdits, EditKeepsEdits, SearchKeepsEdits DEF Procs
<1>3. CASE UNCHANGED vars
  BY <1>3, EditUndisturbed, PendingUndisturbed DEF vars, tableVars, calcVars, jobVars
<1> QED
  BY <1>1, <1>2, <1>3 DEF Next

\* Only a save ends what an editor has checked.
LEMMA OnlySaved ==
  ASSUME TypeOK, [Next]_vars, NEW e \in Editors, pc[e] = "save", pc'[e] # "save"
  PROVE  SaveEdit(e)
<1>1. e \in Procs /\ e \notin Calcs
  BY FieldAssumption DEF Procs
<1>2. ASSUME NEW p \in Procs, Search(p) PROVE FALSE
  BY <1>1, <1>2 DEF Search, StartSearch, Descend, CycleFound, Leave, Visit, Searching, TypeOK
<1>3. ASSUME NEW c \in Calcs, Calculate(c) PROVE FALSE
  BY <1>1, <1>3 DEF Calculate, ReadFields, MapFields, CacheHit, CacheMiss, CacheStore,
     UseGraph, Checked, Ordered, Compute, ComputeFails, AnswerCalc, Finished, TypeOK
<1>4. ASSUME NEW d \in Editors, Ask(d) PROVE FALSE
  BY <1>1, <1>4 DEF Ask, CreateField, UpdateField, HandleBlank, DeleteField, Submit, Free,
     TypeOK
<1>5. ASSUME NEW d \in Editors, Edit(d) PROVE SaveEdit(e)
  BY <1>1, <1>5 DEF Edit, ListFields, SkipCheck, Accept, SaveEdit, Refuse, Finished, TypeOK
<1>6. CASE UNCHANGED vars
  BY <1>6 DEF vars
<1> QED
  BY <1>2, <1>3, <1>4, <1>5, <1>6 DEF Next, Procs

\* What one editor has checked is saved without a cycle, whatever was saved
\* unchecked before, as long as no calculation fails.
THEOREM FieldsCheckedEditsSaveNoCycle ==
  ASSUME SoleEditor
  PROVE  Spec => CheckedEditsSaveNoCycle
<1>1. Spec => [](SearchInv /\ EditInv)
  <2>1. Init => SearchInv /\ EditInv
    BY InitSearch, InitEdit
  <2>2. SearchInv /\ EditInv /\ [Next]_vars => (SearchInv /\ EditInv)'
    BY NextSearch, NextEdit
  <2> QED
    BY <2>1, <2>2, PTL DEF Spec
<1> DEFINE SavesNoCycle(e) ==
             NoErrors /\ pc[e] = "save" /\ pc'[e] # "save" => ~ Cyclic(GraphOf(def'))
<1>2. ASSUME SearchInv, EditInv, [Next]_vars
      PROVE  [\A e \in Editors : SavesNoCycle(e)]_vars
  <2> SUFFICES ASSUME NEW e \in Editors, NoErrors, pc[e] = "save", pc'[e] # "save"
               PROVE  ~ Cyclic(GraphOf(def'))
    OBVIOUS
  <2>1. SaveEdit(e) /\ e \in Procs
    BY <1>2, OnlySaved DEF SearchInv, TInv, Procs
  <2>2. PendingOK(e) /\ def' = [def EXCEPT ![job[e].field] = job[e].def]
    BY <1>2, <2>1, SavedTable
  <2>3. GraphOf(def') \subseteq graph[e]
    BY <2>2 DEF PendingOK
  <2>4. ~ Cyclic(graph[e])
    BY <1>2, <2>1 DEF SearchInv, SearchOK, ExactOK
  <2> QED
    BY <2>3, <2>4, FewerEdges
<1> QED
  BY <1>1, <1>2, PTL DEF Spec, CheckedEditsSaveNoCycle

-----------------------------------------------------------------------------
(* What calculations read *)

Reads(c) == pc[c] = "map"
AtWork(c) == pc[c] \in {"lookup", "store"}
Uses(c) == pc[c] \in {"check", "sort", "compute", "answer"}

\* What is about to be mapped is what the table holds.
RowsOK == \A c \in Calcs : Reads(c) => known[c] = def

\* What has been mapped in this second is what the table holds, and what has
\* been mapped in one second has the same graph.
ReadersOK ==
  \A c \in Calcs : AtWork(c) =>
    /\ version[c] <= now /\ (version[c] = now => known[c] = def)
    /\ \A b \in Calcs : AtWork(b) /\ version[b] = version[c]
         => GraphOf(known[b]) = GraphOf(known[c])

CacheOK ==
  cache # None =>
    /\ cache.version <= now /\ (cache.version = now => cache.graph = GraphOf(def))
    /\ \A c \in Calcs : AtWork(c) /\ version[c] = cache.version
         => cache.graph = GraphOf(known[c])

GraphsOK == \A c \in Calcs : Uses(c) => graph[c] = GraphOf(known[c])

ReadInv == RowsOK /\ ReadersOK /\ CacheOK /\ GraphsOK

\* A calculation begins with fields that are there.
AimsOK ==
  \A c \in Calcs : Reads(c) \/ AtWork(c) \/ Uses(c) =>
    job[c] \in Work /\ \A f \in job[c].changed : Present(known[c], f)

\* Steps that change neither the table nor the cache, and at most end things.
LEMMA QuietReads ==
  ASSUME ReadInv, UNCHANGED <<def, now, cache>>,
         \A c \in Calcs :
           /\ Reads(c)' => Reads(c) /\ known'[c] = known[c]
           /\ AtWork(c)' => AtWork(c) /\ known'[c] = known[c] /\ version'[c] = version[c]
           /\ Uses(c)' => Uses(c) /\ known'[c] = known[c] /\ graph'[c] = graph[c]
  PROVE  ReadInv'
<1>1. RowsOK'
  BY DEF ReadInv, RowsOK
<1>2. ReadersOK'
  <2> SUFFICES ASSUME NEW c \in Calcs, AtWork(c)'
               PROVE  /\ version'[c] <= now /\ (version'[c] = now => known'[c] = def)
                      /\ \A b \in Calcs : AtWork(b)' /\ version'[b] = version'[c]
                           => GraphOf(known'[b]) = GraphOf(known'[c])
    BY DEF ReadersOK
  <2> QED
    BY DEF ReadInv, ReadersOK
<1>3. CacheOK'
  <2> SUFFICES ASSUME cache # None
               PROVE  /\ cache.version <= now
                      /\ cache.version = now => cache.graph = GraphOf(def)
                      /\ \A c \in Calcs : AtWork(c)' /\ version'[c] = cache.version
                           => cache.graph = GraphOf(known'[c])
    BY DEF CacheOK
  <2> QED
    BY DEF ReadInv, CacheOK
<1>4. GraphsOK'
  <2> SUFFICES ASSUME NEW c \in Calcs, Uses(c)' PROVE graph'[c] = GraphOf(known'[c])
    BY DEF GraphsOK
  <2> QED
    BY DEF ReadInv, GraphsOK
<1> QED
  BY <1>1, <1>2, <1>3, <1>4 DEF ReadInv

\* A change of the table falls into a second in which nothing has been mapped.
LEMMA ChangeReads ==
  ASSUME EditsApart, TInv, ReadInv, NEW d, Change(d), UNCHANGED <<cache, known, version>>,
         \A c \in Calcs : pc'[c] = pc[c] /\ graph'[c] = graph[c]
  PROVE  ReadInv'
<1>1. now \in Nat /\ now' = now + 1 /\ \A c \in Calcs : ~ Reads(c)'
  BY DEF TInv, TypeOK, Change, Reads
<1>2. \A c \in Calcs : /\ AtWork(c)' = AtWork(c) /\ Uses(c)' = Uses(c)
                       /\ version[c] \in Nat
  BY DEF AtWork, Uses, TInv, TypeOK
<1>3. cache # None => cache.version \in Nat
  BY DEF TInv, TypeOK
<1>4. RowsOK'
  BY <1>1 DEF RowsOK
<1>5. ReadersOK'
  <2> SUFFICES ASSUME NEW c \in Calcs, AtWork(c)
               PROVE  /\ version[c] <= now + 1 /\ (version[c] = now + 1 => known[c] = def')
                      /\ \A b \in Calcs : AtWork(b) /\ version[b] = version[c]
                           => GraphOf(known[b]) = GraphOf(known[c])
    BY <1>1, <1>2 DEF ReadersOK
  <2>1. version[c] <= now
    BY DEF ReadInv, ReadersOK
  <2> QED
    BY <1>1, <1>2, <2>1 DEF ReadInv, ReadersOK
<1>6. CacheOK'
  <2> SUFFICES ASSUME cache # None
               PROVE  /\ cache.version <= now + 1
                      /\ cache.version = now + 1 => cache.graph = GraphOf(def')
                      /\ \A c \in Calcs : AtWork(c) /\ version[c] = cache.version
                           => cache.graph = GraphOf(known[c])
    BY <1>1, <1>2 DEF CacheOK
  <2>1. cache.version <= now
    BY DEF ReadInv, CacheOK
  <2> QED
    BY <1>1, <1>3, <2>1 DEF ReadInv, CacheOK
<1>7. GraphsOK'
  <2> SUFFICES ASSUME NEW c \in Calcs, Uses(c) PROVE graph'[c] = GraphOf(known[c])
    BY <1>2 DEF GraphsOK
  <2> QED
    BY DEF ReadInv, GraphsOK
<1> QED
  BY <1>4, <1>5, <1>6, <1>7 DEF ReadInv

\* The version is the second in which the fields are mapped.
LEMMA MapFieldsReads ==
  ASSUME TInv, AimsOK, ReadInv, NEW c \in Calcs, CleanOK(c), MapFields(c)
  PROVE  ReadInv'
<1>1. /\ now \in Nat /\ c \in Procs /\ now' \in {now, now + 1}
      /\ pc[c] = "map" /\ pc'[c] \in {"answer", "lookup"}
      /\ UNCHANGED <<def, cache, known, job, graph>>
  BY DEF MapFields, TInv, TypeOK, Procs, calcVars
<1>2. \A b \in Calcs : version[b] \in Nat /\ (b # c => version'[b] = version[b] /\ pc'[b] = pc[b])
  BY <1>1 DEF MapFields, TInv, TypeOK
<1>3. known[c] = def /\ graph[c] = {}
  BY <1>1 DEF ReadInv, RowsOK, Reads, CleanOK
<1>4. \A b \in Calcs : b # c =>
        /\ Reads(b)' = Reads(b) /\ AtWork(b)' = AtWork(b) /\ Uses(b)' = Uses(b)
  BY <1>2 DEF Reads, AtWork, Uses
<1>5. CASE pc'[c] = "lookup"
  <2>1. \E f \in Fields : Present(known[c], f)
    <3>1. job[c] \in Work /\ \A f \in job[c].changed : Present(known[c], f)
      BY <1>1 DEF AimsOK, Reads
    <3>2. CASE job[c].op = "record"
      <4>1. \E f \in Fields : Virtual(known[c], f)
        BY <1>1, <1>5, <3>2 DEF MapFields, TInv, TypeOK
      <4> QED
        BY <4>1 DEF Virtual, Present
    <3>3. CASE job[c].op = "affected"
      <4>1. job[c].changed \in (SUBSET Fields) \ {{}}
        BY <3>1, <3>3, FieldAssumption DEF Work
      <4> QED
        BY <3>1, <4>1
    <3> QED
      BY <3>1, <3>2, <3>3 DEF Work
  <2>2. version'[c] = now'
    BY <1>1, <2>1 DEF MapFields, VersionOf, TInv, TypeOK
  <2>3. AtWork(c)' /\ ~ Reads(c)' /\ ~ Uses(c)'
    BY <1>5 DEF AtWork, Reads, Uses
  <2>4. ASSUME NEW b \in Calcs, b # c, AtWork(b)
        PROVE  version'[b] <= now /\ (version'[b] = now' => now' = now /\ known[b] = def)
    BY <1>1, <1>2, <2>4 DEF ReadInv, ReadersOK
  <2>5. RowsOK'
    BY <1>1, <1>4, <2>3 DEF ReadInv, RowsOK
  <2>6. ReadersOK'
    <3> SUFFICES ASSUME NEW a \in Calcs, AtWork(a)'
                 PROVE  /\ version'[a] <= now' /\ (version'[a] = now' => known[a] = def)
                        /\ \A b \in Calcs : AtWork(b)' /\ version'[b] = version'[a]
                             => GraphOf(known[b]) = GraphOf(known[a])
      BY <1>1 DEF ReadersOK
    <3>1. CASE a = c
      BY <1>1, <1>3, <1>4, <2>2, <2>4, <3>1
    <3>2. CASE a # c
      <4>1. AtWork(a) /\ version'[a] = version[a]
        BY <1>2, <1>4, <3>2
      <4>2. version'[a] <= now' /\ (version'[a] = now' => known[a] = def)
        BY <1>1, <1>2, <2>4, <3>2, <4>1
      <4>3. ASSUME NEW b \in Calcs, AtWork(b)', version'[b] = version'[a]
            PROVE  GraphOf(known[b]) = GraphOf(known[a])
        <5>1. CASE b = c
          BY <1>3, <2>2, <4>2, <4>3, <5>1
        <5>2. CASE b # c
          BY <1>2, <1>4, <4>1, <4>3, <5>2 DEF ReadInv, ReadersOK
        <5> QED
          BY <5>1, <5>2
      <4> QED
        BY <4>2, <4>3
    <3> QED
      BY <3>1, <3>2
  <2>7. CacheOK'
    <3> SUFFICES ASSUME cache # None
                 PROVE  /\ cache.version <= now'
                        /\ cache.version = now' => cache.graph = GraphOf(def)
                        /\ \A b \in Calcs : AtWork(b)' /\ version'[b] = cache.version
                             => cache.graph = GraphOf(known[b])
      BY <1>1 DEF CacheOK
    <3>1. cache.version \in Nat
      BY DEF TInv, TypeOK
    <3>2. cache.version <= now /\ (cache.version = now => cache.graph = GraphOf(def))
      BY DEF ReadInv, CacheOK
    <3>3. cache.version <= now' /\ (cache.version = now' => cache.graph = GraphOf(def))
      BY <1>1, <3>1, <3>2
    <3>4. ASSUME NEW b \in Calcs, AtWork(b)', version'[b] = cache.version
          PROVE  cache.graph = GraphOf(known[b])
      <4>1. CASE b = c
        BY <1>3, <2>2, <3>3, <3>4, <4>1
      <4>2. CASE b # c
        BY <1>2, <1>4, <3>4, <4>2 DEF ReadInv, CacheOK
      <4> QED
        BY <4>1, <4>2
    <3> QED
      BY <3>3, <3>4
  <2>8. GraphsOK'
    <3> SUFFICES ASSUME NEW b \in Calcs, Uses(b)' PROVE graph[b] = GraphOf(known[b])
      BY <1>1 DEF GraphsOK
    <3> QED
      BY <1>4, <2>3 DEF ReadInv, GraphsOK
  <2> QED
    BY <2>5, <2>6, <2>7, <2>8 DEF ReadInv
<1>6. CASE pc'[c] = "answer"
  <2>1. Uses(c)' /\ ~ Reads(c)' /\ ~ AtWork(c)'
    BY <1>6 DEF AtWork, Reads, Uses
  <2>2. \A f \in Fields : ~ Virtual(known[c], f)
    BY <1>1, <1>6 DEF MapFields, TInv, TypeOK
  <2>3. graph[c] = GraphOf(known[c])
    BY <1>3, <2>2 DEF GraphOf
  <2>4. RowsOK'
    BY <1>1, <1>4, <2>1 DEF ReadInv, RowsOK
  <2>5. ReadersOK'
    <3> SUFFICES ASSUME NEW a \in Calcs, AtWork(a)'
                 PROVE  /\ version'[a] <= now' /\ (version'[a] = now' => known[a] = def)
                        /\ \A b \in Calcs : AtWork(b)' /\ version'[b] = version'[a]
                             => GraphOf(known[b]) = GraphOf(known[a])
      BY <1>1 DEF ReadersOK
    <3>1. a # c /\ AtWork(a) /\ version'[a] = version[a]
      BY <1>2, <1>4, <2>1
    <3>2. version[a] <= now /\ (version[a] = now => known[a] = def)
      BY <3>1 DEF ReadInv, ReadersOK
    <3>3. version'[a] <= now' /\ (version'[a] = now' => known[a] = def)
      BY <1>1, <1>2, <3>1, <3>2
    <3>4. \A b \in Calcs : AtWork(b)' => b # c /\ AtWork(b) /\ version'[b] = version[b]
      BY <1>2, <1>4, <2>1
    <3> QED
      BY <3>1, <3>3, <3>4 DEF ReadInv, ReadersOK
  <2>6. CacheOK'
    <3> SUFFICES ASSUME cache # None
                 PROVE  /\ cache.version <= now'
                        /\ cache.version = now' => cache.graph = GraphOf(def)
                        /\ \A b \in Calcs : AtWork(b)' /\ version'[b] = cache.version
                             => cache.graph = GraphOf(known[b])
      BY <1>1 DEF CacheOK
    <3>1. cache.version \in Nat
      BY DEF TInv, TypeOK
    <3>2. cache.version <= now /\ (cache.version = now => cache.graph = GraphOf(def))
      BY DEF ReadInv, CacheOK
    <3>3. \A b \in Calcs : AtWork(b)' => AtWork(b) /\ version'[b] = version[b]
      BY <1>2, <1>4, <2>1
    <3> QED
      BY <1>1, <3>1, <3>2, <3>3 DEF ReadInv, CacheOK
  <2>7. GraphsOK'
    <3> SUFFICES ASSUME NEW b \in Calcs, Uses(b)' PROVE graph[b] = GraphOf(known[b])
      BY <1>1 DEF GraphsOK
    <3> QED
      BY <1>4, <2>3 DEF ReadInv, GraphsOK
  <2> QED
    BY <2>4, <2>5, <2>6, <2>7 DEF ReadInv
<1> QED
  BY <1>1, <1>5, <1>6

LEMMA CalculateReads ==
  ASSUME EditsApart, SearchInv, AimsOK, ReadInv, NEW c \in Calcs, Calculate(c)
  PROVE  ReadInv'
<1>1. TInv /\ TypeOK /\ c \in Procs /\ CleanOK(c)
  BY DEF SearchInv, TInv, SearchOK, Procs
<1>a. \A b \in Calcs : b # c =>
        /\ pc'[b] = pc[b] /\ graph'[b] = graph[b] /\ known'[b] = known[b] /\ version'[b] = version[b]
  BY <1>1 DEF Calculate, ReadFields, MapFields, CacheHit, CacheMiss, CacheStore, UseGraph,
     Checked, Ordered, Compute, ComputeFails, AnswerCalc, Finished, TypeOK, Procs,
     calcVars, jobVars
<1>b. \A b \in Calcs : b # c =>
        /\ Reads(b)' = Reads(b) /\ AtWork(b)' = AtWork(b) /\ Uses(b)' = Uses(b)
  BY <1>a DEF Reads, AtWork, Uses
<1>2. CASE ReadFields(c)
  <2>1. /\ UNCHANGED <<def, now, cache, graph, version>>
        /\ known'[c] = def /\ pc'[c] = "map"
    BY <1>1, <1>2 DEF ReadFields, TypeOK, tableVars
  <2>2. Reads(c)' /\ ~ AtWork(c)' /\ ~ Uses(c)'
    BY <2>1 DEF Reads, AtWork, Uses
  <2>3. RowsOK'
    BY <1>a, <1>b, <2>1 DEF ReadInv, RowsOK
  <2>4. ReadersOK'
    <3> SUFFICES ASSUME NEW a \in Calcs, AtWork(a)'
                 PROVE  /\ version[a] <= now /\ (version[a] = now => known'[a] = def)
                        /\ \A b \in Calcs : AtWork(b)' /\ version[b] = version[a]
                             => GraphOf(known'[b]) = GraphOf(known'[a])
      BY <2>1 DEF ReadersOK
    <3>1. \A b \in Calcs : AtWork(b)' => AtWork(b) /\ known'[b] = known[b]
      BY <1>a, <1>b, <2>2
    <3> QED
      BY <3>1 DEF ReadInv, ReadersOK
  <2>5. CacheOK'
    <3> SUFFICES ASSUME cache # None
                 PROVE  /\ cache.version <= now
                        /\ cache.version = now => cache.graph = GraphOf(def)
                        /\ \A b \in Calcs : AtWork(b)' /\ version[b] = cache.version
                             => cache.graph = GraphOf(known'[b])
      BY <2>1 DEF CacheOK
    <3>1. \A b \in Calcs : AtWork(b)' => AtWork(b) /\ known'[b] = known[b]
      BY <1>a, <1>b, <2>2
    <3> QED
      BY <3>1 DEF ReadInv, CacheOK
  <2>6. GraphsOK'
    <3> SUFFICES ASSUME NEW b \in Calcs, Uses(b)' PROVE graph[b] = GraphOf(known'[b])
      BY <2>1 DEF GraphsOK
    <3> QED
      BY <1>a, <1>b, <2>2 DEF ReadInv, GraphsOK
  <2> QED
    BY <2>3, <2>4, <2>5, <2>6 DEF ReadInv
<1>3. CASE MapFields(c)
  BY <1>1, <1>3, MapFieldsReads
<1>4. CASE CacheHit(c) \/ CacheStore(c)
  <2>1. /\ UNCHANGED <<def, now, known, version>>
        /\ AtWork(c) /\ Uses(c)' /\ ~ AtWork(c)' /\ ~ Reads(c)'
    BY <1>1, <1>4 DEF CacheHit, CacheStore, UseGraph, TypeOK, AtWork, Uses, Reads,
       tableVars, calcVars
  <2>2. graph'[c] = GraphOf(known[c])
    <3>1. CASE CacheHit(c)
      <4>1. cache # None /\ cache.version = version[c] /\ graph'[c] = cache.graph
        BY <1>1, <3>1 DEF CacheHit, Hit, UseGraph, TypeOK
      <4> QED
        BY <2>1, <4>1 DEF ReadInv, CacheOK
    <3>2. CASE CacheStore(c)
      BY <1>1, <3>2 DEF CacheStore, UseGraph, TypeOK
    <3> QED
      BY <1>4, <3>1, <3>2
  <2>3. RowsOK'
    BY <1>b, <2>1 DEF ReadInv, RowsOK
  <2>4. ReadersOK'
    <3> SUFFICES ASSUME NEW a \in Calcs, AtWork(a)'
                 PROVE  /\ version[a] <= now /\ (version[a] = now => known[a] = def)
                        /\ \A b \in Calcs : AtWork(b)' /\ version[b] = version[a]
                             => GraphOf(known[b]) = GraphOf(known[a])
      BY <2>1 DEF ReadersOK
    <3> QED
      BY <1>b, <2>1 DEF ReadInv, ReadersOK
  <2>5. CacheOK'
    <3>1. CASE CacheHit(c)
      <4>1. cache' = cache
        BY <3>1 DEF CacheHit, calcVars
      <4> SUFFICES ASSUME cache # None
                   PROVE  /\ cache.version <= now
                          /\ cache.version = now => cache.graph = GraphOf(def)
                          /\ \A b \in Calcs : AtWork(b)' /\ version[b] = cache.version
                               => cache.graph = GraphOf(known[b])
        BY <2>1, <4>1 DEF CacheOK
      <4> QED
        BY <1>b, <2>1 DEF ReadInv, CacheOK
    <3>2. CASE CacheStore(c)
      <4>1. cache'.version = version[c] /\ cache'.graph = GraphOf(known[c])
        BY <3>2 DEF CacheStore
      <4>2. /\ version[c] <= now /\ (version[c] = now => known[c] = def)
            /\ \A b \in Calcs : AtWork(b) /\ version[b] = version[c]
                 => GraphOf(known[b]) = GraphOf(known[c])
        BY <2>1 DEF ReadInv, ReadersOK
      <4>3. /\ cache'.version <= now
            /\ cache'.version = now => cache'.graph = GraphOf(def)
            /\ \A b \in Calcs : AtWork(b)' /\ version[b] = cache'.version
                 => cache'.graph = GraphOf(known[b])
        BY <1>b, <2>1, <4>1, <4>2
      <4> QED
        BY <2>1, <4>3 DEF CacheOK
    <3> QED
      BY <1>4, <3>1, <3>2
  <2>6. GraphsOK'
    <3> SUFFICES ASSUME NEW b \in Calcs, Uses(b)' PROVE graph'[b] = GraphOf(known[b])
      BY <2>1 DEF GraphsOK
    <3> QED
      BY <1>a, <1>b, <2>2 DEF ReadInv, GraphsOK
  <2> QED
    BY <2>3, <2>4, <2>5, <2>6 DEF ReadInv
<1>5. CASE CacheMiss(c) \/ Checked(c) \/ Ordered(c) \/ Compute(c) \/ AnswerCalc(c)
  <2>1. UNCHANGED <<def, now, cache>>
    BY <1>5 DEF CacheMiss, Checked, Ordered, Compute, AnswerCalc, tableVars, calcVars
  <2>2. /\ ~ Reads(c)'
        /\ AtWork(c)' => AtWork(c) /\ known'[c] = known[c] /\ version'[c] = version[c]
        /\ Uses(c)' => Uses(c) /\ known'[c] = known[c] /\ graph'[c] = graph[c]
    BY <1>1, <1>5 DEF CacheMiss, Checked, Ordered, Compute, NextField, AnswerCalc, Finished,
       TypeOK, Reads, AtWork, Uses, calcVars, jobVars
  <2> QED
    BY <1>a, <1>b, <2>1, <2>2, QuietReads
<1>6. CASE ComputeFails(c)
  <2>1. PICK f \in Fields : SaveField(f, known[c][f])
    BY <1>6 DEF ComputeFails
  <2>2. UNCHANGED <<cache, known, version, pc, graph>>
    BY <1>6 DEF ComputeFails, jobVars
  <2> QED
    BY <1>1, <2>1, <2>2, ChangeReads DEF SaveField
<1> QED
  BY <1>2, <1>3, <1>4, <1>5, <1>6 DEF Calculate

\* A step of an editor leaves every calculation as it is.
LEMMA EditorElsewhere ==
  ASSUME TypeOK, NEW e \in Editors, Ask(e) \/ Edit(e)
  PROVE  /\ UNCHANGED <<cache, known, version>>
         /\ \A c \in Calcs : pc'[c] = pc[c] /\ job'[c] = job[c] /\ graph'[c] = graph[c]
<1>1. Calcs \subseteq Procs /\ Calcs \intersect Editors = {}
  BY FieldAssumption DEF Procs
<1>2. ASSUME NEW f \in Fields, CreateField(e, f) \/ UpdateField(e, f)
      PROVE  /\ UNCHANGED <<cache, known, version, graph>>
             /\ \A c \in Calcs : pc'[c] = pc[c] /\ job'[c] = job[c]
  <2>1. UNCHANGED <<cache, known, version, graph>>
    BY <1>2 DEF CreateField, UpdateField, calcVars
  <2>2. \E r, where : Submit(e, r, where)
    BY <1>2 DEF CreateField, UpdateField
  <2> QED
    BY <1>1, <2>1, <2>2 DEF Submit, TypeOK
<1>3. ASSUME NEW f \in Fields, HandleBlank(e, f) \/ DeleteField(e, f)
      PROVE  UNCHANGED <<cache, known, version, pc, job, graph>>
  BY <1>3 DEF HandleBlank, DeleteField, calcVars, jobVars
<1>4. CASE ListFields(e)
  BY <1>1, <1>4 DEF ListFields, calcVars, TypeOK
<1>5. CASE SkipCheck(e) \/ Accept(e)
  BY <1>1, <1>5 DEF SkipCheck, Accept, calcVars, jobVars, TypeOK
<1>6. CASE SaveEdit(e) \/ Refuse(e)
  BY <1>1, <1>6 DEF SaveEdit, Refuse, Finished, calcVars, TypeOK
<1> QED
  BY <1>2, <1>3, <1>4, <1>5, <1>6 DEF Ask, Edit

LEMMA NextReads ==
  ASSUME EditsApart, SearchInv, AimsOK, ReadInv, [Next]_vars
  PROVE  ReadInv'
<1>1. /\ TInv /\ TypeOK /\ Calcs \subseteq Procs /\ Editors \subseteq Procs
      /\ Calcs \intersect Editors = {}
  BY FieldAssumption DEF SearchInv, TInv, Procs
<1>2. ASSUME NEW p \in Procs, Search(p) PROVE ReadInv'
  <2>1. /\ UNCHANGED <<def, now, cache, known, version, graph>>
        /\ \A c \in Calcs : pc'[c] = pc[c] \/ pc'[c] = "err"
    BY <1>1, <1>2 DEF TypeOK, Search, StartSearch, Descend, CycleFound, Leave, Visit,
       tableVars, calcVars, jobVars
  <2> QED
    BY <2>1, QuietReads DEF Reads, AtWork, Uses
<1>3. ASSUME NEW c \in Calcs, Calculate(c) PROVE ReadInv'
  BY <1>3, CalculateReads
<1>4. ASSUME NEW e \in Editors, Ask(e) \/ Edit(e) PROVE ReadInv'
  <2>1. UNCHANGED <<cache, known, version>> /\ \A c \in Calcs : pc'[c] = pc[c] /\ graph'[c] = graph[c]
    BY <1>1, <1>4, EditorElsewhere
  <2>2. CASE SaveEdit(e) \/ \E f \in Fields : DeleteField(e, f)
    <3>1. \E d : Change(d)
      BY <2>2 DEF SaveEdit, SaveField, DeleteField
    <3> QED
      BY <1>1, <2>1, <3>1, ChangeReads
  <2>3. CASE ~ SaveEdit(e) /\ ~ \E f \in Fields : DeleteField(e, f)
    <3>1. UNCHANGED <<def, now>>
      BY <1>4, <2>3 DEF Ask, Edit, CreateField, UpdateField, HandleBlank, ListFields,
         SkipCheck, Accept, Refuse, tableVars
    <3> QED
      BY <2>1, <3>1, QuietReads DEF Reads, AtWork, Uses
  <2> QED
    BY <2>2, <2>3
<1>5. CASE UNCHANGED vars
  BY <1>5, QuietReads DEF vars, tableVars, calcVars, jobVars, Reads, AtWork, Uses
<1> QED
  BY <1>2, <1>3, <1>4, <1>5 DEF Next, Procs

LEMMA InitReads == Init => ReadInv /\ AimsOK
<1> SUFFICES ASSUME Init PROVE ReadInv /\ AimsOK
  OBVIOUS
<1>1. cache = None /\ \A c \in Calcs : ~ Reads(c) /\ ~ AtWork(c) /\ ~ Uses(c)
  BY DEF Init, Procs, Reads, AtWork, Uses
<1> QED
  BY <1>1 DEF ReadInv, RowsOK, ReadersOK, CacheOK, GraphsOK, AimsOK

LEMMA NextAims ==
  ASSUME TInv, AimsOK, [Next]_vars
  PROVE  AimsOK'
<1> DEFINE Busy(c) == Reads(c) \/ AtWork(c) \/ Uses(c)
<1>1. TypeOK /\ Calcs \subseteq Procs /\ Editors \subseteq Procs /\ Calcs \intersect Editors = {}
  BY FieldAssumption DEF TInv, Procs
<1>2. ASSUME NEW c \in Calcs, Busy(c)' => Busy(c) /\ job'[c] = job[c] /\ known'[c] = known[c]
      PROVE  Busy(c)' => job'[c] \in Work /\ \A f \in job'[c].changed : Present(known'[c], f)
  BY <1>2 DEF AimsOK
<1> SUFFICES ASSUME NEW c \in Calcs, Busy(c)'
             PROVE  job'[c] \in Work /\ \A f \in job'[c].changed : Present(known'[c], f)
  BY DEF AimsOK, Present
<1>3. ASSUME NEW p \in Procs, Search(p)
      PROVE  Busy(c) /\ job'[c] = job[c] /\ known'[c] = known[c]
  <2>1. UNCHANGED <<known, job>> /\ \A q \in Procs : pc'[q] = pc[q] \/ pc'[q] = "err"
    BY <1>1, <1>3 DEF TypeOK, Search, StartSearch, Descend, CycleFound, Leave, Visit,
       calcVars, jobVars
  <2> QED
    BY <1>1, <2>1 DEF Reads, AtWork, Uses
<1>4. ASSUME NEW b \in Calcs, b # c, Calculate(b)
      PROVE  Busy(c) /\ job'[c] = job[c] /\ known'[c] = known[c]
  <2>1. pc'[c] = pc[c] /\ job'[c] = job[c] /\ known'[c] = known[c]
    BY <1>1, <1>4 DEF Calculate, ReadFields, MapFields, CacheHit, CacheMiss, CacheStore,
       UseGraph, Checked, Ordered, Compute, ComputeFails, AnswerCalc, Finished, TypeOK,
       calcVars, jobVars
  <2> QED
    BY <2>1 DEF Reads, AtWork, Uses
<1>5. CASE ReadFields(c)
  <2>1. PICK w \in Work : (\A f \in w.changed : Present(def, f)) /\ job'[c] = w
    BY <1>1, <1>5 DEF ReadFields, TypeOK
  <2>2. known'[c] = def
    BY <1>1, <1>5 DEF ReadFields, TypeOK
  <2> QED
    BY <1>1, <1>5, <2>1, <2>2 DEF TypeOK, ReadFields
<1>6. ASSUME Calculate(c), ~ ReadFields(c)
      PROVE  Busy(c) /\ job'[c] = job[c] /\ known'[c] = known[c]
  <2>1. CASE AnswerCalc(c)
    <3>1. pc'[c] = "ok"
      BY <1>1, <2>1 DEF AnswerCalc, Finished, TypeOK
    <3> QED
      BY <3>1 DEF Reads, AtWork, Uses
  <2>2. CASE ~ AnswerCalc(c)
    BY <1>6, <2>2 DEF Calculate, MapFields, CacheHit, CacheMiss, CacheStore, Checked,
       Ordered, Compute, ComputeFails, NextField, Reads, AtWork, Uses, calcVars, jobVars
  <2> QED
    BY <2>1, <2>2
<1>7. ASSUME NEW e \in Editors, Ask(e) \/ Edit(e)
      PROVE  Busy(c) /\ job'[c] = job[c] /\ known'[c] = known[c]
  <2>1. known' = known /\ pc'[c] = pc[c] /\ job'[c] = job[c]
    BY <1>1, <1>7, EditorElsewhere
  <2> QED
    BY <2>1 DEF Reads, AtWork, Uses
<1>8. CASE UNCHANGED vars
  BY <1>2, <1>8 DEF vars, calcVars, jobVars, Reads, AtWork, Uses
<1> QED
  BY <1>2, <1>3, <1>4, <1>5, <1>6, <1>7, <1>8 DEF Next, Procs

-----------------------------------------------------------------------------
(* What calculations compute *)

\* Every field that others follow, or that follows others, is sorted, after those
\* it refers to.
SortedAll(s, g) ==
  /\ \A i \in 1 .. Len(s) : \A x \in Fields : <<x, s[i]>> \in g => \E j \in 1 .. i - 1 : s[j] = x
  /\ \A x, y \in Fields : <<x, y>> \in g => \E i \in 1 .. Len(s) : s[i] = y

\* Some of the fields wanted, each once and after those it refers to.
DoneInOrder(s, wanted, g) ==
  /\ \A i \in 1 .. Len(s) : s[i] \in wanted
  /\ \A i, j \in 1 .. Len(s) : s[i] = s[j] => i = j
  /\ \A i \in 1 .. Len(s) : \A x \in wanted :
       <<x, s[i]>> \in g => \E j \in 1 .. i - 1 : s[j] = x

DoneOK(c) ==
  /\ pc[c] # "compute" => done[c] = << >>
  /\ pc[c] = "answer" => Wanted(c, known[c], graph[c]) = {}
  /\ pc[c] = "compute" =>
       /\ SortedAll(sorted[c], graph[c])
       /\ DoneInOrder(done[c], Wanted(c, known[c], graph[c]), graph[c])

\* As many fields as there are positions.
LEMMA DistinctCount ==
  ASSUME NEW s \in Seq(Fields), \A i, j \in 1 .. Len(s) : s[i] = s[j] => i = j
  PROVE  Len(s) = Cardinality(Range(s))
<1>1. s \in Bijection(1 .. Len(s), Range(s))
  <2>1. s \in [1 .. Len(s) -> Range(s)] /\ DOMAIN s = 1 .. Len(s)
    BY DEF Range
  <2>2. \A t \in Range(s) : \E i \in 1 .. Len(s) : s[i] = t
    BY <2>1 DEF Range
  <2> QED
    BY <2>1, <2>2 DEF Bijection, Injection, Surjection, IsInjective
<1>2. ExistsBijection(1 .. Len(s), Range(s))
  BY <1>1 DEF ExistsBijection
<1> QED
  BY <1>2, FS_CountingElements

\* What is computed next is wanted, has not been computed, and comes after the
\* fields it refers to.
LEMMA NextInOrder ==
  ASSUME TypeOK, NEW c \in Calcs, NEW f \in Fields, NextField(c, f), DoneOK(c)
  PROVE  DoneInOrder(done'[c], Wanted(c, known[c], graph[c]), graph[c])
<1>1. PICK s \in Seq(Fields) : s = done[c]
  BY DEF TypeOK
<1>2. PICK r \in Seq(Fields) : r = sorted[c]
  BY DEF TypeOK, Procs
<1>3. PICK g \in SUBSET (Fields \X Fields) : g = graph[c]
  BY DEF TypeOK, Procs
<1>4. PICK W : W = Wanted(c, known[c], graph[c])
  OBVIOUS
<1>5. PICK q : q = Append(s, f)
  OBVIOUS
<1>6. done'[c] = q
  BY <1>1, <1>5 DEF NextField, TypeOK
<1>7. DoneInOrder(s, W, g) /\ SortedAll(r, g)
  BY <1>1, <1>2, <1>3, <1>4 DEF DoneOK, NextField
<1>8. /\ Len(s) \in Nat /\ Len(q) = Len(s) + 1 /\ q[Len(s) + 1] = f
      /\ \A i \in 1 .. Len(s) : q[i] = s[i]
      /\ Range(s) = {s[i] : i \in 1 .. Len(s)} /\ DOMAIN r = 1 .. Len(r)
  BY <1>1, <1>2, <1>5 DEF Range
<1>9. f \in W /\ \A i \in 1 .. Len(s) : s[i] # f
  BY <1>1, <1>4, <1>8 DEF NextField, Left
<1>10. ASSUME NEW x \in W, <<x, f>> \in g
       PROVE  \E j \in 1 .. Len(s) : s[j] = x
  <2> SUFFICES ASSUME x \notin Range(s) PROVE FALSE
    BY <1>8
  <2>1. x \in Left(c) /\ x \in Fields
    BY <1>1, <1>3, <1>4, <1>10 DEF Left
  <2> DEFINE T == {i \in 1 .. Len(r) : r[i] = f}
  <2>2. T \in SUBSET Nat /\ T # {}
    BY <1>2, <1>7, <1>10, <2>1 DEF SortedAll
  <2>3. PICK n \in T : \A m \in T : n <= m
    <3> HIDE DEF T
    <3> QED
      BY <2>2, LeastNatural
  <2>4. PICK j \in 1 .. n - 1 : r[j] = x
    BY <1>7, <1>10, <2>1, <2>3 DEF SortedAll
  <2>5. j \in 1 .. Len(r) /\ n \in 1 .. Len(r) /\ \A m \in 1 .. Len(r) : r[m] = f => j < m
    BY <2>3, <2>4
  <2>6. Precedes(c, x, f)
    BY <1>2, <1>8, <2>4, <2>5 DEF Precedes
  <2> QED
    BY <2>1, <2>6 DEF NextField
<1>11. \A i \in 1 .. Len(q) : i \in 1 .. Len(s) \/ i = Len(s) + 1
  BY <1>8
<1>12. \A i \in 1 .. Len(q) : q[i] \in W
  BY <1>7, <1>8, <1>9, <1>11 DEF DoneInOrder
<1>13. \A i, j \in 1 .. Len(q) : q[i] = q[j] => i = j
  BY <1>7, <1>8, <1>9, <1>11 DEF DoneInOrder
<1>14. ASSUME NEW i \in 1 .. Len(q), NEW x \in W, <<x, q[i]>> \in g
       PROVE  \E j \in 1 .. i - 1 : q[j] = x
  <2>1. CASE i = Len(s) + 1
    BY <1>8, <1>10, <1>14, <2>1
  <2>2. CASE i \in 1 .. Len(s)
    <3>1. PICK j \in 1 .. i - 1 : s[j] = x
      BY <1>7, <1>8, <1>14, <2>2 DEF DoneInOrder
    <3> QED
      BY <1>8, <2>2, <3>1
  <2> QED
    BY <1>11, <2>1, <2>2
<1> QED
  BY <1>3, <1>4, <1>6, <1>12, <1>13, <1>14 DEF DoneInOrder

\* Nothing changes for a calculation, or it has computed nothing.
LEMMA DoneStays ==
  ASSUME NEW c \in Calcs, DoneOK(c),
         pc'[c] = pc[c], done'[c] = done[c], job'[c] = job[c], known'[c] = known[c],
         graph'[c] = graph[c], sorted'[c] = sorted[c]
  PROVE  DoneOK(c)'
<1>1. Wanted(c, known[c], graph[c])' = Wanted(c, known[c], graph[c])
  BY DEF Wanted
<1> QED
  BY <1>1 DEF DoneOK

LEMMA NothingDone ==
  ASSUME NEW c \in Calcs, done'[c] = << >>, pc'[c] \notin {"answer", "compute"}
  PROVE  DoneOK(c)'
BY DEF DoneOK

LEMMA NextDone ==
  ASSUME SearchInv, \A c \in Calcs : DoneOK(c), [Next]_vars
  PROVE  (\A c \in Calcs : DoneOK(c))'
<1>1. TypeOK /\ Calcs \subseteq Procs /\ Editors \subseteq Procs /\ Calcs \intersect Editors = {}
  BY FieldAssumption DEF SearchInv, TInv, Procs
<1>2. ASSUME NEW p \in Procs, Search(p), NEW c \in Calcs
      PROVE  DoneOK(c)'
  <2>1. UNCHANGED <<done, job, known, graph>>
    BY <1>2 DEF Search, StartSearch, Descend, CycleFound, Leave, Visit, calcVars, jobVars
  <2>2. CASE c # p
    <3>1. pc'[c] = pc[c] /\ sorted'[c] = sorted[c]
      BY <1>1, <1>2, <2>2 DEF Search, StartSearch, Descend, CycleFound, Leave, Visit, TypeOK,
         searchVars
    <3> QED
      BY <2>1, <3>1, DoneStays
  <2>3. CASE c = p
    <3>1. pc[c] \in {"check", "sort"} /\ pc'[c] \in {pc[c], "err"}
      BY <1>1, <1>2, <2>3 DEF Search, StartSearch, Descend, CycleFound, Leave, Visit, TypeOK,
         Searching
    <3> QED
      BY <2>1, <3>1, NothingDone DEF DoneOK
  <2> QED
    BY <2>2, <2>3
<1>3. ASSUME NEW e \in Editors, Ask(e) \/ Edit(e), NEW c \in Calcs
      PROVE  DoneOK(c)'
  <2>1. known' = known /\ pc'[c] = pc[c] /\ job'[c] = job[c] /\ graph'[c] = graph[c]
    BY <1>1, <1>3, EditorElsewhere
  <2>2. done' = done /\ sorted'[c] = sorted[c]
    <3>1. CASE Ask(e)
      BY <3>1 DEF Ask, CreateField, UpdateField, HandleBlank, DeleteField, calcVars, searchVars
    <3>2. CASE Edit(e)
      BY <1>1, <3>2 DEF Edit, ListFields, SkipCheck, Accept, SaveEdit, Refuse, Finished, TypeOK,
         calcVars, searchVars
    <3> QED
      BY <1>3, <3>1, <3>2
  <2> QED
    BY <2>1, <2>2, DoneStays
<1>4. ASSUME NEW b \in Calcs, Calculate(b), NEW c \in Calcs, c # b
      PROVE  DoneOK(c)'
  <2>1. /\ pc'[c] = pc[c] /\ job'[c] = job[c] /\ graph'[c] = graph[c] /\ sorted'[c] = sorted[c]
        /\ known'[c] = known[c] /\ done'[c] = done[c]
    BY <1>1, <1>4 DEF Calculate, ReadFields, MapFields, CacheHit, CacheMiss, CacheStore, UseGraph,
       Checked, Ordered, Compute, ComputeFails, NextField, AnswerCalc, Finished, TypeOK, calcVars, jobVars,
       searchVars
  <2> QED
    BY <2>1, DoneStays
<1>5. ASSUME NEW c \in Calcs, Calculate(c)
      PROVE  DoneOK(c)'
  <2>1. CASE ReadFields(c) \/ CacheMiss(c) \/ Checked(c)
    <3>1. done'[c] = done[c] /\ pc[c] # "compute" /\ pc'[c] \in {"map", "store", "sort"}
      BY <1>1, <2>1 DEF ReadFields, CacheMiss, Checked, TypeOK, calcVars
    <3> QED
      BY <3>1, NothingDone DEF DoneOK
  <2>6. CASE MapFields(c)
    <3>1. /\ UNCHANGED <<done, job, known>> /\ pc[c] = "map"
          /\ pc'[c] = IF job[c].op = "record" /\ ~ \E f \in Fields : Virtual(known[c], f)
                        THEN "answer" ELSE "lookup"
      BY <1>1, <2>6 DEF MapFields, TypeOK, calcVars
    <3>2. pc'[c] = "answer" => Wanted(c, known[c], graph[c])' = {}
      BY <3>1 DEF Wanted
    <3> QED
      BY <3>1, <3>2 DEF DoneOK
  <2>2. CASE CacheHit(c) \/ CacheStore(c)
    <3>1. PICK g \in SUBSET (Fields \X Fields) : UseGraph(c, g) /\ UNCHANGED <<done, job, known>>
      <4>1. CASE CacheHit(c)
        BY <1>1, <4>1 DEF CacheHit, Hit, TypeOK, calcVars
      <4>2. CASE CacheStore(c)
        BY <4>2, GraphIsRelation DEF CacheStore
      <4> QED
        BY <2>2, <4>1, <4>2
    <3>2. graph'[c] = g /\ done'[c] = << >>
      BY <1>1, <2>2, <3>1 DEF UseGraph, TypeOK, DoneOK, CacheHit, CacheStore
    <3>3. pc'[c] = (IF job[c].op = "record" THEN "check"
                    ELSE IF Affected(g, known[c], job[c].changed) = {} THEN "answer"
                    ELSE "sort")
      BY <1>1, <3>1 DEF UseGraph, TypeOK
    <3>4. pc'[c] = "answer" => Wanted(c, known[c], graph[c])' = {}
      BY <3>1, <3>2, <3>3 DEF Wanted
    <3> QED
      BY <3>2, <3>3, <3>4 DEF DoneOK
  <2>3. CASE Ordered(c)
    <3>1. /\ pc[c] = "sort" /\ SearchEnds(c)
          /\ pc'[c] = "compute" /\ UNCHANGED <<done, job, known, graph, sorted>>
      BY <1>1, <2>3 DEF Ordered, TypeOK, calcVars, jobVars, searchVars
    <3>2. ClosedOK(c)
      BY <1>1, <3>1 DEF SearchInv, SearchOK, Searching
    <3>3. sorted[c] \in Seq(Fields) /\ DOMAIN sorted[c] = 1 .. Len(sorted[c])
      BY <1>1 DEF TypeOK
    <3>4. Nodes(c) \subseteq Visited(c)
      BY <3>1 DEF SearchEnds, Starts
    <3>5. SortedAll(sorted[c], graph[c])
      <4>1. \A i \in 1 .. Len(sorted[c]) : \A x \in Fields :
              <<x, sorted[c][i]>> \in graph[c] => \E j \in 1 .. i - 1 : sorted[c][j] = x
        BY <3>1, <3>2 DEF ClosedOK, Neighbours
      <4>2. ASSUME NEW x \in Fields, NEW y \in Fields, <<x, y>> \in graph[c]
            PROVE  \E i \in 1 .. Len(sorted[c]) : sorted[c][i] = y
        <5>1. y \in Nodes(c)
          BY <4>2 DEF Nodes
        <5> QED
          BY <3>3, <3>4, <5>1 DEF Visited, Range
      <4> QED
        BY <4>1, <4>2 DEF SortedAll
    <3>6. done[c] = << >>
      BY <3>1 DEF DoneOK
    <3>7. DoneInOrder(<< >>, Wanted(c, known[c], graph[c])', graph[c])
      BY DEF DoneInOrder
    <3> QED
      BY <3>1, <3>5, <3>6, <3>7 DEF DoneOK
  <2>4. CASE Compute(c) \/ ComputeFails(c)
    <3>1. PICK f \in Fields : NextField(c, f) /\ UNCHANGED <<pc, job, known, graph, sorted>>
      BY <2>4 DEF Compute, ComputeFails, jobVars, searchVars
    <3>2. pc'[c] = "compute" /\ SortedAll(sorted[c], graph[c])
      BY <3>1 DEF NextField, DoneOK
    <3>3. DoneInOrder(done'[c], Wanted(c, known[c], graph[c]), graph[c])
      BY <1>1, <3>1, NextInOrder
    <3>4. Wanted(c, known[c], graph[c])' = Wanted(c, known[c], graph[c])
      BY <3>1 DEF Wanted
    <3> QED
      BY <3>1, <3>2, <3>3, <3>4 DEF DoneOK
  <2>5. CASE AnswerCalc(c)
    <3>1. done'[c] = << >> /\ pc'[c] = "ok"
      BY <1>1, <2>5 DEF AnswerCalc, Finished, TypeOK
    <3> QED
      BY <3>1, NothingDone
  <2> QED
    BY <1>5, <2>1, <2>2, <2>3, <2>4, <2>5, <2>6 DEF Calculate
<1>6. CASE UNCHANGED vars
  BY <1>6, DoneStays DEF vars, calcVars, jobVars, searchVars
<1> SUFFICES ASSUME NEW c \in Calcs PROVE DoneOK(c)'
  OBVIOUS
<1> QED
  BY <1>1, <1>2, <1>3, <1>4, <1>5, <1>6 DEF Next

LEMMA InitDone == Init => \A c \in Calcs : DoneOK(c)
<1> SUFFICES ASSUME Init, NEW c \in Calcs PROVE DoneOK(c)
  OBVIOUS
<1>1. pc[c] = "idle" /\ done[c] = << >>
  BY DEF Init, Procs
<1> QED
  BY <1>1 DEF DoneOK

\* What a calculation computes are the fields that the definitions it has read
\* call for, each once and after those it refers to, whoever has filled the cache
\* it takes its graph from, whatever is edited, renamed or deleted meanwhile, and
\* also when calculations fail: as long as no edit falls between the reading of
\* the fields and the end of the second in which they are mapped.
THEOREM FieldsRecalculatesAsDefined ==
  ASSUME EditsApart
  PROVE  Spec => []RecalculatesAsDefined
<1> DEFINE CInv == SearchInv /\ AimsOK /\ ReadInv /\ \A c \in Calcs : DoneOK(c)
<1>1. Init => CInv
  BY InitSearch, InitReads, InitDone
<1>2. CInv /\ [Next]_vars => CInv'
  <2> SUFFICES ASSUME CInv, [Next]_vars PROVE CInv'
    OBVIOUS
  <2>1. TInv
    BY DEF SearchInv
  <2>2. SearchInv'
    BY NextSearch
  <2>3. AimsOK'
    BY <2>1, NextAims
  <2>4. ReadInv'
    BY NextReads
  <2>5. (\A c \in Calcs : DoneOK(c))'
    BY NextDone
  <2> QED
    BY <2>2, <2>3, <2>4, <2>5
<1>3. CInv => RecalculatesAsDefined
  <2> SUFFICES ASSUME CInv, NEW c \in Calcs, pc[c] \in {"compute", "answer"}
               PROVE  LET g == GraphOf(known[c])
                          wanted == Wanted(c, known[c], g)
                      IN  /\ \A i \in DOMAIN done[c] : \A x \in wanted :
                               <<x, done[c][i]>> \in g => \E j \in 1 .. i - 1 : done[c][j] = x
                          /\ Range(done[c]) \subseteq wanted
                          /\ Len(done[c]) = Cardinality(Range(done[c]))
                          /\ Ready(c) => wanted \subseteq Range(done[c])
    BY DEF RecalculatesAsDefined
  <2> DEFINE g == GraphOf(known[c])
             wanted == Wanted(c, known[c], g)
  <2>1. TInv /\ GraphsOK /\ Uses(c) /\ DoneOK(c)
    BY DEF SearchInv, ReadInv, Uses
  <2>2. PICK s \in Seq(Fields) : s = done[c]
    BY <2>1 DEF TInv, TypeOK
  <2>3. DOMAIN s = 1 .. Len(s) /\ Range(s) = {s[i] : i \in 1 .. Len(s)}
    BY <2>2 DEF Range
  <2>4. graph[c] = g
    BY <2>1 DEF GraphsOK
  <2> HIDE DEF g, wanted
  <2>5. DoneInOrder(s, wanted, g)
    <3>1. CASE pc[c] = "compute"
      BY <2>1, <2>2, <2>4, <3>1 DEF DoneOK, wanted
    <3>2. CASE pc[c] = "answer"
      <4>1. s = << >>
        BY <2>1, <2>2, <3>2 DEF DoneOK
      <4> QED
        BY <4>1 DEF DoneInOrder
    <3> QED
      BY <3>1, <3>2
  <2>6. Ready(c) => wanted \subseteq Range(s)
    BY <2>1, <2>2, <2>4 DEF Ready, Left, DoneOK, wanted
  <2>7. Len(s) = Cardinality(Range(s))
    BY <2>5, DistinctCount DEF DoneInOrder
  <2>8. /\ \A i \in DOMAIN s : \A x \in wanted :
             <<x, s[i]>> \in g => \E j \in 1 .. i - 1 : s[j] = x
        /\ Range(s) \subseteq wanted
    BY <2>3, <2>5 DEF DoneInOrder
  <2> QED
    BY <2>2, <2>6, <2>7, <2>8 DEF g, wanted
<1> QED
  BY <1>1, <1>2, <1>3, PTL DEF Spec

-----------------------------------------------------------------------------
(* The steps run out *)

\* A search enters each field at most once, and leaves it at most once.
ToVisit(p) ==
  Cardinality(Fields \ (Visited(p) \union Range(stack[p])))
    + Cardinality(Fields \ Visited(p))

\* The steps left of a request, at most.
StepsLeft(p) ==
  LET n == Cardinality(Fields)
  IN  CASE pc[p] = "map" -> 5 * n + 6
        [] pc[p] = "lookup" -> 5 * n + 5
        [] pc[p] \in {"store", "list"} -> 5 * n + 4
        [] pc[p] = "check" -> 3 * n + 3 + ToVisit(p)
        [] pc[p] = "sort" -> n + 2 + ToVisit(p)
        [] pc[p] = "compute" /\ p \in Calcs -> 1 + Cardinality(Fields \ Range(done[p]))
        [] pc[p] \in {"answer", "save", "unchecked", "err"} -> 1
        [] OTHER -> 0

\* Where a request stands.
Place(p) == <<pc[p], stack[p], sorted[p], IF p \in Calcs THEN done[p] ELSE << >> >>

Nearer(p) == StepsLeft(p)' \in 0 .. StepsLeft(p) - 1

OwnStep(p) ==
  \/ p \in Calcs /\ Calculate(p)
  \/ p \in Editors /\ Edit(p)
  \/ Search(p)

\* No search goes on for ever, cycle or not and whatever the order of the maps:
\* a request that has begun moves only towards its end, and each of its steps
\* brings it nearer.
StepsRunOut ==
  [][\A p \in Procs : pc[p] # "idle" =>
       /\ OwnStep(p) => Nearer(p)
       /\ UNCHANGED Place(p) \/ Nearer(p)]_vars

\* A search has entered each node of the stack once, and left none of them.
OnceOK(p) ==
  /\ \A i, j \in 1 .. Len(stack[p]) : stack[p][i] = stack[p][j] => i = j
  /\ \A i \in 1 .. Len(stack[p]) : stack[p][i] \notin Visited(p)

OnceInv == TInv /\ \A p \in Procs : OnceOK(p)

LEMMA SequenceRange ==
  ASSUME NEW s \in Seq(Fields)
  PROVE  /\ Len(s) \in Nat
         /\ Range(s) = {s[i] : i \in 1 .. Len(s)}
         /\ Range(s) \subseteq Fields
         /\ \A n \in Fields : /\ Append(s, n) \in Seq(Fields)
                              /\ Len(Append(s, n)) = Len(s) + 1
                              /\ Append(s, n)[Len(s) + 1] = n
                              /\ \A i \in 1 .. Len(s) : Append(s, n)[i] = s[i]
                              /\ Range(Append(s, n)) = Range(s) \union {n}
<1>1. Len(s) \in Nat /\ DOMAIN s = 1 .. Len(s)
  OBVIOUS
<1>2. Range(s) = {s[i] : i \in 1 .. Len(s)} /\ Range(s) \subseteq Fields
  BY <1>1 DEF Range
<1>3. ASSUME NEW n \in Fields
      PROVE  /\ Append(s, n) \in Seq(Fields)
             /\ Len(Append(s, n)) = Len(s) + 1
             /\ Append(s, n)[Len(s) + 1] = n
             /\ \A i \in 1 .. Len(s) : Append(s, n)[i] = s[i]
  BY <1>1
<1>4. ASSUME NEW n \in Fields
      PROVE  Range(Append(s, n)) = Range(s) \union {n}
  <2> DEFINE t == Append(s, n)
  <2>1. DOMAIN t = 1 .. Len(s) + 1
    BY <1>1, <1>3
  <2>2. Range(t) = {t[i] : i \in 1 .. Len(s) + 1}
    BY <2>1 DEF Range
  <2>3. 1 .. Len(s) + 1 = (1 .. Len(s)) \union {Len(s) + 1}
    BY <1>1
  <2> HIDE DEF t
  <2>4. t[Len(s) + 1] = n /\ \A i \in 1 .. Len(s) : t[i] = s[i]
    BY <1>3 DEF t
  <2>5. Range(t) = Range(s) \union {n}
    BY <1>2, <2>2, <2>3, <2>4
  <2> QED
    BY <2>5 DEF t
<1> QED
  BY <1>1, <1>2, <1>3, <1>4

\* What a search takes off the stack.
LEMMA SequenceFront ==
  ASSUME NEW s \in Seq(Fields), s # << >>
  PROVE  LET t == SubSeq(s, 1, Len(s) - 1)
         IN  /\ t \in Seq(Fields)
             /\ Len(s) \in Nat \ {0}
             /\ Len(t) = Len(s) - 1
             /\ \A i \in 1 .. Len(t) : t[i] = s[i]
             /\ Range(s) = Range(t) \union {s[Len(s)]}
<1> DEFINE t == SubSeq(s, 1, Len(s) - 1)
<1>1. /\ t \in Seq(Fields)
      /\ Len(s) \in Nat \ {0}
      /\ Len(t) = Len(s) - 1
      /\ \A i \in 1 .. Len(t) : t[i] = s[i]
  <2>1. Len(s) \in Nat \ {0} /\ \A i \in 1 .. Len(s) : s[i] \in Fields
    OBVIOUS
  <2> HIDE DEF t
  <2>2. /\ t \in Seq(Fields)
        /\ Len(t) = IF 1 <= Len(s) - 1 THEN Len(s) - 1 - 1 + 1 ELSE 0
        /\ \A i \in 1 .. Len(s) - 1 - 1 + 1 : t[i] = s[1 + i - 1]
    <3>1. 1 \in Int /\ Len(s) - 1 \in Int /\ \A i \in 1 .. Len(s) - 1 : s[i] \in Fields
      BY <2>1
    <3> QED
      BY <3>1, SubSeqProperties DEF t
  <2>3. Len(t) = Len(s) - 1
    <3> DEFINE m == Len(s)
               k == Len(t)
    <3>1. m \in Nat \ {0}
      BY <2>1
    <3>2. k = IF 1 <= m - 1 THEN m - 1 - 1 + 1 ELSE 0
      BY <2>2
    <3> HIDE DEF m, k
    <3>3. k = m - 1
      BY <3>1, <3>2
    <3> QED
      BY <3>3 DEF m, k
  <2>4. \A i \in 1 .. Len(s) - 1 : t[i] = s[i]
    BY <2>1, <2>2
  <2> QED
    BY <2>1, <2>2, <2>3, <2>4
<1>2. 1 .. Len(s) = (1 .. Len(t)) \union {Len(s)}
  BY <1>1
<1> HIDE DEF t
<1>3. Range(s) = {s[i] : i \in 1 .. Len(s)} /\ Range(t) = {t[i] : i \in 1 .. Len(t)}
  BY <1>1, SequenceRange
<1>4. Range(s) = Range(t) \union {s[Len(s)]}
  BY <1>1, <1>2, <1>3
<1> QED
  BY <1>1, <1>4 DEF t

LEMMA OthersOnceOK ==
  ASSUME NEW p \in Procs, OnceOK(p), stack'[p] = stack[p], sorted'[p] = sorted[p]
  PROVE  OnceOK(p)'
BY DEF OnceOK, Visited

LEMMA EmptyOnceOK ==
  ASSUME NEW p \in Procs, stack'[p] = << >>
  PROVE  OnceOK(p)'
BY DEF OnceOK

LEMMA VisitKeepsOnce ==
  ASSUME TInv, NEW p \in Procs, OnceOK(p), NEW n \in Fields, Visit(p, n),
         n \notin Visited(p), n \notin Range(stack[p])
  PROVE  OnceOK(p)'
<1> DEFINE s == stack[p]
           t == Append(s, n)
<1>1. s \in Seq(Fields) /\ stack'[p] = t /\ Visited(p)' = Visited(p)
  BY DEF Visit, TInv, TypeOK, Visited
<1>2. /\ Len(s) \in Nat /\ Len(t) = Len(s) + 1
      /\ t[Len(s) + 1] = n
      /\ \A i \in 1 .. Len(s) : t[i] = s[i]
      /\ Range(s) = {s[i] : i \in 1 .. Len(s)}
  BY <1>1, SequenceRange
<1>3. \A i \in 1 .. Len(s) : s[i] # n
  BY <1>2
<1> HIDE DEF t
<1>4. \A i, j \in 1 .. Len(t) : t[i] = t[j] => i = j
  BY <1>2, <1>3 DEF OnceOK
<1>5. \A i \in 1 .. Len(t) : t[i] \notin Visited(p)
  BY <1>2 DEF OnceOK
<1> QED
  BY <1>1, <1>4, <1>5 DEF OnceOK

\* Where a search may go is a field it has not left.
LEMMA SearchVisits ==
  ASSUME TInv, NEW p \in Procs, StartSearch(p) \/ Descend(p)
  PROVE  \E n \in Fields : Visit(p, n) /\ n \notin Visited(p) /\ n \notin Range(stack[p])
<1>1. graph[p] \in SUBSET (Fields \X Fields) /\ stack[p] \in Seq(Fields)
  BY DEF TInv, TypeOK
<1>2. CASE StartSearch(p)
  <2>1. PICK n \in Starts(p) : Visit(p, n)
    BY <1>2 DEF StartSearch
  <2>2. stack[p] = << >>
    BY <1>2 DEF StartSearch
  <2>3. n \in Nodes(p) /\ n \notin Visited(p)
    BY <2>1 DEF Starts, Nodes
  <2>4. n \in Fields
    BY <1>1, <2>3 DEF Nodes, Sources
  <2>5. n \notin Range(stack[p])
    BY <2>2 DEF Range
  <2> QED
    BY <2>1, <2>3, <2>4, <2>5
<1>3. CASE Descend(p)
  BY <1>3 DEF Descend, Ahead, Neighbours
<1> QED
  BY <1>2, <1>3

LEMMA LeaveKeepsOnce ==
  ASSUME TInv, NEW p \in Procs, OnceOK(p), Leave(p)
  PROVE  OnceOK(p)'
<1> DEFINE s == stack[p]
           t == SubSeq(s, 1, Len(s) - 1)
<1>1. /\ s \in Seq(Fields) /\ s # << >> /\ sorted[p] \in Seq(Fields)
      /\ stack'[p] = t /\ sorted'[p] = Append(sorted[p], Top(p))
  BY DEF Leave, TInv, TypeOK
<1>2. /\ Len(s) \in Nat \ {0} /\ Len(t) = Len(s) - 1
      /\ \A i \in 1 .. Len(t) : t[i] = s[i]
  BY <1>1, SequenceFront
<1>3. Top(p) \in Fields /\ Top(p) = s[Len(s)]
  BY <1>1, <1>2 DEF Top
<1>4. Visited(p)' = Visited(p) \union {Top(p)}
  BY <1>1, <1>3, SequenceRange DEF Visited
<1> HIDE DEF t
<1>5. \A i, j \in 1 .. Len(t) : t[i] = t[j] => i = j
  BY <1>2 DEF OnceOK
<1>6. \A i \in 1 .. Len(t) : t[i] \notin Visited(p)'
  BY <1>2, <1>3, <1>4 DEF OnceOK
<1> QED
  BY <1>1, <1>5, <1>6 DEF OnceOK

LEMMA SearchKeepsOnce ==
  ASSUME TInv, NEW p \in Procs, OnceOK(p), Search(p)
  PROVE  OnceOK(p)'
<1>1. CASE StartSearch(p) \/ Descend(p)
  BY <1>1, SearchVisits, VisitKeepsOnce
<1>2. CASE CycleFound(p)
  BY <1>2, OthersOnceOK DEF CycleFound, searchVars
<1>3. CASE Leave(p)
  BY <1>3, LeaveKeepsOnce
<1> QED
  BY <1>1, <1>2, <1>3 DEF Search

\* The steps of a process leave the searches of the others alone.
LEMMA OnlyOwnSearch ==
  ASSUME TInv, NEW p \in Procs,
         \/ p \in Calcs /\ Calculate(p)
         \/ p \in Editors /\ (Ask(p) \/ Edit(p))
         \/ Search(p)
  PROVE  /\ \A q \in Procs \ {p} :
              pc'[q] = pc[q] /\ stack'[q] = stack[q] /\ sorted'[q] = sorted[q]
         /\ \A c \in Calcs \ {p} : done'[c] = done[c]
<1>1. TypeOK
  BY DEF TInv
<1>2. CASE p \in Calcs /\ Calculate(p)
  BY <1>1, <1>2 DEF Calculate, ReadFields, MapFields, CacheHit, CacheMiss, CacheStore, UseGraph,
     Checked, Ordered, Compute, ComputeFails, NextField, AnswerCalc, Finished, TypeOK, calcVars,
     jobVars, searchVars
<1>3. CASE p \in Editors /\ Ask(p)
  <2>1. UNCHANGED <<stack, sorted, done>>
    BY <1>3 DEF Ask, CreateField, UpdateField, HandleBlank, DeleteField, calcVars, searchVars
  <2>2. \A q \in Procs \ {p} : pc'[q] = pc[q]
    BY <1>1, <1>3 DEF Ask, CreateField, UpdateField, HandleBlank, DeleteField, Submit, TypeOK
  <2> QED
    BY <2>1, <2>2
<1>4. CASE p \in Editors /\ Edit(p)
  BY <1>1, <1>4 DEF Edit, ListFields, SkipCheck, Accept, SaveEdit, Refuse, Finished, TypeOK, calcVars,
     searchVars
<1>5. CASE Search(p)
  BY <1>1, <1>5 DEF Search, StartSearch, Descend, CycleFound, Leave, Visit, TypeOK, calcVars,
     jobVars, searchVars
<1> QED
  BY <1>2, <1>3, <1>4, <1>5

\* Outside of a search the stack stays, or is emptied.
LEMMA WorkKeepsOnce ==
  ASSUME TInv, NEW p \in Procs, OnceOK(p),
         \/ p \in Calcs /\ Calculate(p)
         \/ p \in Editors /\ (Ask(p) \/ Edit(p))
  PROVE  OnceOK(p)'
<1>1. TypeOK
  BY DEF TInv
<1>2. \/ stack'[p] = << >>
      \/ stack'[p] = stack[p] /\ sorted'[p] = sorted[p]
  <2>1. CASE p \in Calcs /\ Calculate(p)
    BY <1>1, <2>1 DEF Calculate, ReadFields, MapFields, CacheHit, CacheMiss, CacheStore, UseGraph,
       Checked, SearchEnds, Ordered, Compute, ComputeFails, AnswerCalc, Finished, TypeOK,
       jobVars, searchVars
  <2>2. CASE p \in Editors /\ Ask(p)
    BY <2>2 DEF Ask, CreateField, UpdateField, HandleBlank, DeleteField, searchVars
  <2>3. CASE p \in Editors /\ Edit(p)
    BY <1>1, <2>3 DEF Edit, ListFields, SkipCheck, Accept, SaveEdit, Refuse, Finished, TypeOK,
       searchVars
  <2> QED
    BY <2>1, <2>2, <2>3
<1> QED
  BY <1>2, OthersOnceOK, EmptyOnceOK

LEMMA NextOnce == OnceInv /\ [Next]_vars => OnceInv'
<1> SUFFICES ASSUME OnceInv, [Next]_vars PROVE \A q \in Procs : OnceOK(q)'
  BY NextTypes DEF OnceInv
<1>1. ASSUME NEW p \in Procs,
             \/ p \in Calcs /\ Calculate(p)
             \/ p \in Editors /\ (Ask(p) \/ Edit(p))
             \/ Search(p)
      PROVE  \A q \in Procs : OnceOK(q)'
  <2>1. OnceOK(p)'
    BY <1>1, SearchKeepsOnce, WorkKeepsOnce DEF OnceInv
  <2>2. ASSUME NEW q \in Procs \ {p} PROVE OnceOK(q)'
    BY <1>1, <2>2, OnlyOwnSearch, OthersOnceOK DEF OnceInv
  <2> QED
    BY <2>1, <2>2
<1>2. CASE UNCHANGED vars
  BY <1>2, OthersOnceOK DEF OnceInv, vars, searchVars
<1> QED
  BY <1>1, <1>2 DEF Next, Procs

\* How many fields are left: none the less for one that is taken.
LEMMA FieldsLeft ==
  ASSUME NEW A
  PROVE  /\ Cardinality(Fields) \in Nat
         /\ Cardinality(Fields \ A) \in Nat
         /\ Cardinality(Fields \ A) \in 0 .. Cardinality(Fields)
         /\ \A f \in Fields \ A :
              Cardinality(Fields \ (A \union {f})) = Cardinality(Fields \ A) - 1
<1>1. IsFiniteSet(Fields)
  BY FieldAssumption, FS_Union DEF Fields
<1>2. Fields \ A \in SUBSET Fields
  OBVIOUS
<1>3. IsFiniteSet(Fields \ A) /\ Cardinality(Fields \ A) <= Cardinality(Fields)
  BY <1>1, <1>2, FS_Subset
<1>4. Cardinality(Fields) \in Nat /\ Cardinality(Fields \ A) \in Nat
  BY <1>1, <1>3, FS_CardinalityType
<1>5. ASSUME NEW f \in Fields \ A
      PROVE  Cardinality(Fields \ (A \union {f})) = Cardinality(Fields \ A) - 1
  <2>1. Fields \ (A \union {f}) = (Fields \ A) \ {f}
    OBVIOUS
  <2> QED
    BY <1>3, <2>1, FS_RemoveElement
<1>6. Cardinality(Fields \ A) \in 0 .. Cardinality(Fields)
  BY <1>3, <1>4
<1> QED
  BY <1>4, <1>5, <1>6

LEMMA ToVisitIsBounded ==
  ASSUME NEW p \in Procs
  PROVE  /\ Cardinality(Fields) \in Nat
         /\ ToVisit(p) \in 0 .. 2 * Cardinality(Fields)
         /\ ToVisit(p)' \in 0 .. 2 * Cardinality(Fields)
<1>1. /\ Cardinality(Fields) \in Nat
      /\ Cardinality(Fields \ (Visited(p) \union Range(stack[p]))) \in 0 .. Cardinality(Fields)
      /\ Cardinality(Fields \ Visited(p)) \in 0 .. Cardinality(Fields)
      /\ Cardinality(Fields \ (Visited(p)' \union Range(stack'[p]))) \in 0 .. Cardinality(Fields)
      /\ Cardinality(Fields \ Visited(p)') \in 0 .. Cardinality(Fields)
  BY FieldsLeft
<1> QED
  BY <1>1 DEF ToVisit

\* Entering a field and leaving it each take something off.
LEMMA ToVisitFalls ==
  ASSUME OnceInv, NEW p \in Procs, StartSearch(p) \/ Descend(p) \/ Leave(p)
  PROVE  ToVisit(p)' = ToVisit(p) - 1
<1> DEFINE s == stack[p]
           V == Visited(p)
           R == V \union Range(s)
<1>1. /\ TypeOK /\ TInv /\ OnceOK(p)
      /\ s \in Seq(Fields) /\ sorted[p] \in Seq(Fields)
  BY DEF OnceInv, TInv, TypeOK
<1>2. Cardinality(Fields \ V) \in Nat /\ Cardinality(Fields \ R) \in Nat
  BY FieldsLeft
<1>3. /\ ToVisit(p) = Cardinality(Fields \ R) + Cardinality(Fields \ V)
      /\ ToVisit(p)' = Cardinality(Fields \ (Visited(p)' \union Range(stack'[p])))
                         + Cardinality(Fields \ Visited(p)')
  BY DEF ToVisit
<1> HIDE DEF V, R
<1>4. CASE StartSearch(p) \/ Descend(p)
  <2>1. PICK n \in Fields : Visit(p, n) /\ n \notin V /\ n \notin Range(s)
    BY <1>1, <1>4, SearchVisits DEF V
  <2>2. stack'[p] = Append(s, n) /\ Visited(p)' = V
    BY <1>1, <2>1 DEF Visit, TypeOK, Visited, V
  <2>3. Range(stack'[p]) = Range(s) \union {n}
    BY <1>1, <2>2, SequenceRange
  <2>4. V \union Range(stack'[p]) = R \union {n}
    BY <2>3 DEF R
  <2>5. Cardinality(Fields \ (R \union {n})) = Cardinality(Fields \ R) - 1
    <3>1. n \in Fields \ R
      BY <2>1 DEF R
    <3> QED
      BY <3>1, FieldsLeft
  <2> QED
    <3>1. ToVisit(p)' = Cardinality(Fields \ (R \union {n})) + Cardinality(Fields \ V)
      BY <1>3, <2>2, <2>4, Zenon
    <3> QED
      BY <1>2, <1>3, <2>5, <3>1
<1>5. CASE Leave(p)
  <2> DEFINE t == SubSeq(s, 1, Len(s) - 1)
  <2>1. s # << >> /\ stack'[p] = t /\ sorted'[p] = Append(sorted[p], Top(p))
    BY <1>1, <1>5 DEF Leave, TypeOK
  <2>2. Len(s) \in Nat \ {0} /\ Range(s) = Range(t) \union {Top(p)}
    BY <1>1, <2>1, SequenceFront DEF Top
  <2>3. Top(p) \in Fields /\ Top(p) \notin V
    BY <1>1, <2>2 DEF Top, OnceOK, V
  <2>4. Visited(p)' = V \union {Top(p)}
    BY <1>1, <2>1, <2>3, SequenceRange DEF Visited, V
  <2>5. Visited(p)' \union Range(stack'[p]) = R
    BY <2>1, <2>2, <2>4 DEF R
  <2>6. Cardinality(Fields \ (V \union {Top(p)})) = Cardinality(Fields \ V) - 1
    BY <2>3, FieldsLeft
  <2> QED
    <3>1. ToVisit(p)' = Cardinality(Fields \ R) + Cardinality(Fields \ (V \union {Top(p)}))
      BY <1>3, <2>4, <2>5, Zenon
    <3> QED
      BY <1>2, <1>3, <2>6, <3>1
<1> QED
  BY <1>4, <1>5

\* What is left at each place.
LEMMA LeftAt ==
  ASSUME NEW p \in Procs
  PROVE  LET n == Cardinality(Fields)
         IN  /\ pc[p] = "map" => StepsLeft(p) = 5 * n + 6
             /\ pc[p] = "lookup" => StepsLeft(p) = 5 * n + 5
             /\ pc[p] \in {"store", "list"} => StepsLeft(p) = 5 * n + 4
             /\ pc[p] = "check" => StepsLeft(p) = 3 * n + 3 + ToVisit(p)
             /\ pc[p] = "sort" => StepsLeft(p) = n + 2 + ToVisit(p)
             /\ pc[p] = "compute" /\ p \in Calcs =>
                  StepsLeft(p) = 1 + Cardinality(Fields \ Range(done[p]))
             /\ pc[p] \in {"answer", "save", "unchecked", "err"} => StepsLeft(p) = 1
             /\ pc[p] \in {"ok", "idle"} => StepsLeft(p) = 0
BY DEF StepsLeft

LEMMA LeftAfter ==
  ASSUME NEW p \in Procs
  PROVE  LET n == Cardinality(Fields)
         IN  /\ pc'[p] = "map" => StepsLeft(p)' = 5 * n + 6
             /\ pc'[p] = "lookup" => StepsLeft(p)' = 5 * n + 5
             /\ pc'[p] \in {"store", "list"} => StepsLeft(p)' = 5 * n + 4
             /\ pc'[p] = "check" => StepsLeft(p)' = 3 * n + 3 + ToVisit(p)'
             /\ pc'[p] = "sort" => StepsLeft(p)' = n + 2 + ToVisit(p)'
             /\ pc'[p] = "compute" /\ p \in Calcs =>
                  StepsLeft(p)' = 1 + Cardinality(Fields \ Range(done'[p]))
             /\ pc'[p] \in {"answer", "save", "unchecked", "err"} => StepsLeft(p)' = 1
             /\ pc'[p] \in {"ok", "idle"} => StepsLeft(p)' = 0
BY DEF StepsLeft

LEMMA SearchNearer ==
  ASSUME OnceInv, NEW p \in Procs, Search(p)
  PROVE  Nearer(p)
<1>1. TypeOK /\ pc[p] \in {"check", "sort"}
  BY DEF OnceInv, TInv, Search, StartSearch, Descend, CycleFound, Leave, Searching
<1>2. /\ Cardinality(Fields) \in Nat
      /\ ToVisit(p) \in 0 .. 2 * Cardinality(Fields)
      /\ ToVisit(p)' \in 0 .. 2 * Cardinality(Fields)
  BY ToVisitIsBounded
<1>3. CASE StartSearch(p) \/ Descend(p) \/ Leave(p)
  <2>1. pc'[p] = pc[p]
    BY <1>3 DEF StartSearch, Descend, Leave, Visit
  <2>2. ToVisit(p)' = ToVisit(p) - 1
    BY <1>3, ToVisitFalls
  <2>3. /\ pc[p] = "check" => StepsLeft(p) = 3 * Cardinality(Fields) + 3 + ToVisit(p)
        /\ pc[p] = "sort" => StepsLeft(p) = Cardinality(Fields) + 2 + ToVisit(p)
        /\ pc'[p] = "check" => StepsLeft(p)' = 3 * Cardinality(Fields) + 3 + ToVisit(p)'
        /\ pc'[p] = "sort" => StepsLeft(p)' = Cardinality(Fields) + 2 + ToVisit(p)'
    BY LeftAt, LeftAfter
  <2> QED
    BY <1>1, <1>2, <2>1, <2>2, <2>3 DEF Nearer
<1>4. CASE CycleFound(p)
  <2>1. pc'[p] = "err"
    BY <1>1, <1>4 DEF CycleFound, TypeOK
  <2>2. /\ pc[p] = "check" => StepsLeft(p) = 3 * Cardinality(Fields) + 3 + ToVisit(p)
        /\ pc[p] = "sort" => StepsLeft(p) = Cardinality(Fields) + 2 + ToVisit(p)
        /\ StepsLeft(p)' = 1
    BY <2>1, LeftAt, LeftAfter
  <2> QED
    BY <1>1, <1>2, <2>2 DEF Nearer
<1> QED
  BY <1>3, <1>4 DEF Search

LEMMA CalculateNearer ==
  ASSUME OnceInv, NEW c \in Calcs, Calculate(c), pc[c] # "idle"
  PROVE  Nearer(c)
<1> DEFINE n == Cardinality(Fields)
<1>1. TypeOK /\ c \in Procs
  BY DEF OnceInv, TInv, Procs
<1>2. n \in Nat /\ ToVisit(c) \in 0 .. 2 * n /\ ToVisit(c)' \in 0 .. 2 * n
  BY <1>1, ToVisitIsBounded
<1> HIDE DEF n
<1>3. CASE CacheHit(c) \/ CacheStore(c)
  <2>1. pc[c] \in {"lookup", "store"} /\ pc'[c] \in {"check", "sort", "answer"}
    BY <1>1, <1>3 DEF CacheHit, CacheStore, UseGraph, TypeOK
  <2>2. StepsLeft(c) \in {5 * n + 4, 5 * n + 5}
    BY <1>1, <2>1, LeftAt DEF n
  <2>3. StepsLeft(c)' \in {3 * n + 3 + ToVisit(c)', n + 2 + ToVisit(c)', 1}
    BY <1>1, <2>1, LeftAfter DEF n
  <2> QED
    BY <1>2, <2>2, <2>3 DEF Nearer
<1>9. CASE MapFields(c)
  <2>1. pc[c] = "map" /\ pc'[c] \in {"lookup", "answer"}
    BY <1>1, <1>9 DEF MapFields, TypeOK
  <2>2. StepsLeft(c) = 5 * n + 6 /\ StepsLeft(c)' \in {5 * n + 5, 1}
    BY <1>1, <2>1, LeftAt, LeftAfter DEF n
  <2> QED
    BY <1>2, <2>2 DEF Nearer
<1>4. CASE CacheMiss(c)
  <2>1. pc[c] = "lookup" /\ pc'[c] = "store"
    BY <1>1, <1>4 DEF CacheMiss, TypeOK
  <2>2. StepsLeft(c) = 5 * n + 5 /\ StepsLeft(c)' = 5 * n + 4
    BY <1>1, <2>1, LeftAt, LeftAfter DEF n
  <2> QED
    BY <1>2, <2>2 DEF Nearer
<1>5. CASE Checked(c)
  <2>1. pc[c] = "check" /\ pc'[c] = "sort"
    BY <1>1, <1>5 DEF Checked, TypeOK
  <2>2. StepsLeft(c) = 3 * n + 3 + ToVisit(c) /\ StepsLeft(c)' = n + 2 + ToVisit(c)'
    BY <1>1, <2>1, LeftAt, LeftAfter DEF n
  <2> QED
    BY <1>2, <2>2 DEF Nearer
<1>6. CASE Ordered(c)
  <2>1. pc[c] = "sort" /\ pc'[c] = "compute"
    BY <1>1, <1>6 DEF Ordered, TypeOK
  <2>2. /\ StepsLeft(c) = n + 2 + ToVisit(c)
        /\ StepsLeft(c)' = 1 + Cardinality(Fields \ Range(done'[c]))
    BY <1>1, <2>1, LeftAt, LeftAfter DEF n
  <2>3. Cardinality(Fields \ Range(done'[c])) \in 0 .. n
    BY FieldsLeft DEF n
  <2> QED
    BY <1>2, <2>2, <2>3 DEF Nearer
<1>7. CASE Compute(c) \/ ComputeFails(c)
  <2>1. PICK f \in Fields : NextField(c, f)
    BY <1>7 DEF Compute, ComputeFails
  <2>2. /\ pc[c] = "compute" /\ pc'[c] = "compute"
        /\ done[c] \in Seq(Fields) /\ done'[c] = Append(done[c], f)
        /\ f \notin Range(done[c])
    BY <1>1, <1>7, <2>1 DEF Compute, ComputeFails, NextField, Left, TypeOK
  <2>3. Range(done'[c]) = Range(done[c]) \union {f}
    BY <2>2, SequenceRange
  <2>4. /\ StepsLeft(c) = 1 + Cardinality(Fields \ Range(done[c]))
        /\ StepsLeft(c)' = 1 + Cardinality(Fields \ Range(done'[c]))
    BY <1>1, <2>2, LeftAt, LeftAfter
  <2>5. /\ Cardinality(Fields \ Range(done[c])) \in Nat
        /\ Cardinality(Fields \ Range(done'[c])) \in Nat
        /\ Cardinality(Fields \ Range(done'[c])) = Cardinality(Fields \ Range(done[c])) - 1
    BY <2>2, <2>3, FieldsLeft
  <2> QED
    BY <2>4, <2>5 DEF Nearer
<1>8. CASE AnswerCalc(c)
  <2>1. pc[c] \in {"answer", "compute", "err"} /\ pc'[c] = "ok"
    BY <1>1, <1>8 DEF AnswerCalc, Ready, Finished, TypeOK
  <2>2. /\ StepsLeft(c) \in {1, 1 + Cardinality(Fields \ Range(done[c]))}
        /\ StepsLeft(c)' = 0
    BY <1>1, <2>1, LeftAt, LeftAfter
  <2>3. Cardinality(Fields \ Range(done[c])) \in Nat
    BY FieldsLeft
  <2> QED
    BY <2>2, <2>3 DEF Nearer
<1> QED
  BY <1>3, <1>4, <1>5, <1>6, <1>7, <1>8, <1>9 DEF Calculate, ReadFields

LEMMA EditNearer ==
  ASSUME OnceInv, NEW e \in Editors, Edit(e)
  PROVE  Nearer(e)
<1> DEFINE n == Cardinality(Fields)
<1>1. TypeOK /\ e \in Procs /\ e \notin Calcs
  BY FieldAssumption DEF OnceInv, TInv, Procs
<1>2. n \in Nat /\ ToVisit(e) \in 0 .. 2 * n /\ ToVisit(e)' \in 0 .. 2 * n
  BY <1>1, ToVisitIsBounded
<1> HIDE DEF n
<1>3. CASE ListFields(e)
  <2>1. pc[e] = "list" /\ pc'[e] = "check"
    BY <1>1, <1>3 DEF ListFields, TypeOK
  <2>2. StepsLeft(e) = 5 * n + 4 /\ StepsLeft(e)' = 3 * n + 3 + ToVisit(e)'
    BY <1>1, <2>1, LeftAt, LeftAfter DEF n
  <2> QED
    BY <1>2, <2>2 DEF Nearer
<1>4. CASE Accept(e)
  <2>1. pc[e] = "check" /\ pc'[e] = "save"
    BY <1>1, <1>4 DEF Accept, TypeOK
  <2>2. StepsLeft(e) = 3 * n + 3 + ToVisit(e) /\ StepsLeft(e)' = 1
    BY <1>1, <2>1, LeftAt, LeftAfter DEF n
  <2> QED
    BY <1>2, <2>2 DEF Nearer
<1>5. CASE SaveEdit(e) \/ Refuse(e)
  <2>1. pc[e] \in {"save", "unchecked", "err"} /\ pc'[e] = "idle"
    BY <1>1, <1>5 DEF SaveEdit, Refuse, Finished, TypeOK
  <2>2. StepsLeft(e) = 1 /\ StepsLeft(e)' = 0
    BY <1>1, <2>1, LeftAt, LeftAfter
  <2> QED
    BY <2>2 DEF Nearer
<1>6. CASE SkipCheck(e)
  <2>1. pc[e] = "list" /\ pc'[e] = "unchecked"
    BY <1>1, <1>6 DEF SkipCheck, TypeOK
  <2>2. StepsLeft(e) = 5 * n + 4 /\ StepsLeft(e)' = 1
    BY <1>1, <2>1, LeftAt, LeftAfter DEF n
  <2> QED
    BY <1>2, <2>2 DEF Nearer
<1> QED
  BY <1>3, <1>4, <1>5, <1>6 DEF Edit

\* Each search ends, on any graph and in any order, and with it the request: no
\* step of a calculation or an edit is for nothing.
THEOREM FieldsStepsRunOut == Spec => StepsRunOut
<1> DEFINE Step == \A p \in Procs : pc[p] # "idle" =>
                     /\ OwnStep(p) => Nearer(p)
                     /\ UNCHANGED Place(p) \/ Nearer(p)
<1>1. Init => OnceInv
  <2>1. Init => \A p \in Procs : OnceOK(p)
    BY DEF Init, OnceOK
  <2> QED
    BY <2>1, InitTypes DEF OnceInv
<1>2. ASSUME OnceInv, NEW p \in Procs, pc[p] # "idle", OwnStep(p)
      PROVE  Nearer(p)
  BY <1>2, SearchNearer, CalculateNearer, EditNearer DEF OwnStep
<1>3. OnceInv /\ [Next]_vars => Step
  <2> SUFFICES ASSUME OnceInv, [Next]_vars, NEW q \in Procs, pc[q] # "idle"
               PROVE  UNCHANGED Place(q) \/ Nearer(q)
    BY <1>2
  <2>1. ASSUME NEW p \in Procs,
               \/ p \in Calcs /\ Calculate(p)
               \/ p \in Editors /\ (Ask(p) \/ Edit(p))
               \/ Search(p)
        PROVE  UNCHANGED Place(q) \/ Nearer(q)
    <3>1. CASE q = p
      <4>1. ~ (p \in Editors /\ Ask(p))
        BY <3>1 DEF Ask, CreateField, UpdateField, HandleBlank, DeleteField, Submit, Free
      <4> QED
        BY <2>1, <3>1, <4>1, SearchNearer, CalculateNearer, EditNearer
    <3>2. CASE q # p
      BY <2>1, <3>2, OnlyOwnSearch DEF OnceInv, Place
    <3> QED
      BY <3>1, <3>2
  <2>2. CASE UNCHANGED vars
    BY <2>2 DEF vars, calcVars, searchVars, Place
  <2> QED
    BY <2>1, <2>2 DEF Next, Procs
<1>4. Spec => []OnceInv
  BY <1>1, NextOnce, PTL DEF Spec
<1> QED
  BY <1>3, <1>4, PTL DEF Spec, StepsRunOut
=============================================================================
