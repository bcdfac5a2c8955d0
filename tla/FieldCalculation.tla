-------------------------- MODULE FieldCalculation --------------------------
(***************************************************************************)
(* Computed fields: the definitions the field service saves               *)
(* (internal/application/field_service.go, field/field_dependency_service  *)
(* .go), the dependency graph and its cache, the depth-first searches of   *)
(* domain/calculation/dependency, and the recalculation of a record        *)
(* (internal/application/calculation_service.go).                          *)
(*                                                                         *)
(* A computed field is a formula with what it refers to, ids or names of   *)
(* fields, which are resolved whenever a graph is built; what it evaluates *)
(* to is left out.  Calculations and edits run concurrently: the field     *)
(* table is read and written outside of any lock, and the graph cache is   *)
(* guarded only while it is read or replaced.  The searches range over Go  *)
(* maps: their order is any.                                               *)
(***************************************************************************)
EXTENDS Naturals, Sequences, FiniteSets, FiniteSetsExt, Functions

CONSTANTS
  Calcs,        \* calculations of a record
  Editors,      \* clients that edit fields, one request after the other
  Plain,        \* stored fields of the table
  Formulas,     \* fields that are computed, or will be once created
  Order,        \* field_order of each field, once it is created
  Names,        \* names of fields
  Mentions,     \* ids and names that the formula of an edit may refer to
  Tables,       \* field tables to start from
  Changes,      \* sets of fields a request changes the values of
  MaxRefs,      \* bound: the references in the formula of an edit
  MaxEdits,     \* bound: the requests of all editors together
  EditsApart,   \* no edit between the reading of the fields and the end of
                \* the second in which they are mapped
  None          \* no cache entry, no request, no name

Fields == Plain \union Formulas

ASSUME FieldAssumption ==
  /\ IsFiniteSet(Plain) /\ IsFiniteSet(Formulas)
  /\ Plain \intersect Formulas = {}
  /\ Calcs \intersect Editors = {}
  /\ Fields \intersect Names = {} /\ None \notin Names
  /\ Order \in [Fields -> Nat]
  /\ Mentions \subseteq Fields \union Names
  /\ {MaxRefs, MaxEdits} \subseteq Nat
  /\ Changes \subseteq (SUBSET Fields) \ {{}}
  /\ EditsApart \in BOOLEAN

Procs == Calcs \union Editors

Definition ==
  [kind : {"new", "plain", "formula", "gone"}, name : Names \union {None},
   refs : SUBSET (Fields \union Names)]

Present(d, f) == d[f].kind \in {"plain", "formula"}
Virtual(d, f) == d[f].kind = "formula"

Named(d, n) == {f \in Fields : Present(d, f) /\ d[f].name = n}

\* findFieldByNameOrID: one of the references means field f, by its id or as
\* the first field of that name.
Refer(refs, d, f) ==
  \E r \in refs :
    \/ r = f /\ Present(d, f)
    \/ f \in Named(d, r) /\ \A h \in Named(d, r) : Order[f] <= Order[h]

\* buildDependencyGraph: an edge from each field a formula refers to.
GraphOf(d) ==
  {e \in Fields \X Fields : Virtual(d, e[2]) /\ Refer(d[e[2]].refs, d, e[1])}

\* The same, of the list of the fields with an edited one behind them: what
\* is saved of it is still in the list.
GraphWith(d, f, new) ==
  LET Means(refs, x) ==
        \/ Refer(refs, d, x)
        \/ x = f /\ (f \in refs \/ (new.name \in refs /\ Named(d, new.name) = {}))
  IN  {e \in Fields \X Fields :
         \/ Virtual(d, e[2]) /\ Means(d[e[2]].refs, e[1])
         \/ e[2] = f /\ Means(new.refs, e[1])}

\* Seeded fault: a loaded field has the zero time, which is before the epoch.
ZeroTime(d, t) == 0 - 1

\* Seeded fault: the version is the number of fields.
VersionIsCount(d, t) == Cardinality({f \in Fields : Present(d, f)})

\* calculateFieldVersion: the latest UpdatedAt, in seconds.  ToFieldEntity
\* sets it to the time at which it maps the row that was read.
VersionOf(d, t) == IF \E f \in Fields : Present(d, f) THEN t ELSE 0

\* Some fields depend on one another in a circle.
Cyclic(g) ==
  \E S \in SUBSET Fields : S # {} /\ \A x \in S : \E y \in S : <<x, y>> \in g

\* propagateDependencies: the computed fields that depend, in one step or in
\* several, on a field of changed.
Affected(g, d, changed) ==
  LET closed == {A \in SUBSET Fields : \A e \in g :
                   e[1] \in changed \union A /\ Virtual(d, e[2]) => e[2] \in A}
  IN  {f \in Fields : \A A \in closed : f \in A}

Request == [field : Fields, def : Definition]

Work ==
  [op : {"record"}, changed : {{}}] \union [op : {"affected"}, changed : Changes]

Gone == [kind |-> "gone", name |-> None, refs |-> {}]
NothingRead == [f \in Fields |-> Gone]

VARIABLES
  def,       \* field table: the definition of each field
  now,       \* the clock, in seconds
  cache,     \* depGraphCache of the table
  pc,        \* where a calculation or an editor is
  job,       \* its request
  edits,     \* requests the editors have made (bounded by MaxEdits)
  version,   \* calculation: version of the fields it has read
  graph,     \* the dependency graph it works with
  stack,     \* depth-first search: the nodes being visited
  sorted,    \* depth-first search: the visited nodes, in order
  known,     \* calculation: the definitions it has read
  done,      \* calculation: the fields computed, in order
  errorFields \* calculation: those that could not be computed

tableVars == <<def, now>>
searchVars == <<stack, sorted>>
calcVars == <<cache, known, done, errorFields>>
jobVars == <<job, version, graph>>
vars == <<tableVars, calcVars, pc, edits, jobVars, searchVars>>

TypeOK ==
  /\ def \in [Fields -> Definition]
  /\ now \in Nat
  /\ cache = None \/ cache \in [version : Nat, graph : SUBSET (Fields \X Fields)]
  /\ pc \in [Procs -> {"idle", "map", "lookup", "store", "check", "sort", "compute",
                       "answer", "list", "save", "unchecked", "ok", "err"}]
  /\ job \in [Procs -> Request \union Work \union {None}]
  /\ edits \in 0 .. MaxEdits
  /\ known \in [Calcs -> [Fields -> Definition]]
  /\ version \in [Calcs -> Nat]
  /\ graph \in [Procs -> SUBSET (Fields \X Fields)]
  /\ stack \in [Procs -> Seq(Fields)]
  /\ sorted \in [Procs -> Seq(Fields)]
  /\ done \in [Calcs -> Seq(Fields)]
  /\ errorFields \in [Calcs -> SUBSET Fields]

\* ExistsByName keeps the names of the fields apart.
ASSUME TablesAssumption ==
  \A d \in Tables :
    /\ d \in [Fields -> Definition]
    /\ \A f \in Fields :
         \/ d[f] = [kind |-> "new", name |-> None, refs |-> {}]
         \/ /\ d[f].kind = IF f \in Formulas THEN "formula" ELSE "plain"
            /\ Named(d, d[f].name) = {f}

Init ==
  /\ def \in Tables
  /\ now = 0
  /\ cache = None
  /\ pc = [p \in Procs |-> "idle"]
  /\ job = [p \in Procs |-> None]
  /\ edits = 0
  /\ known = [c \in Calcs |-> NothingRead]
  /\ version = [c \in Calcs |-> 0]
  /\ graph = [p \in Procs |-> {}]
  /\ stack = [p \in Procs |-> << >>]
  /\ sorted = [p \in Procs |-> << >>]
  /\ done = [c \in Calcs |-> << >>]
  /\ errorFields = [c \in Calcs |-> {}]

-----------------------------------------------------------------------------
(* Depth-first search: DetectCyclePath and HasCycle follow the edges,       *)
(* GetTopoOrders goes against them.  A node is visiting while it is on the  *)
(* stack and visited once it is sorted.                                     *)

Searching(p) == pc[p] \in {"check", "sort"}

\* Seeded fault: a node counts as visited once the search has entered it.
VisitedOnEntry(p) == Range(sorted[p]) \union Range(stack[p])

Visited(p) == Range(sorted[p])

Neighbours(p, n) ==
  IF pc[p] = "sort" THEN {x \in Fields : <<x, n>> \in graph[p]}
                    ELSE {x \in Fields : <<n, x>> \in graph[p]}

Top(p) == stack[p][Len(stack[p])]

\* Where the search has still to go from the node it is at.
Ahead(p) == Neighbours(p, Top(p)) \ Visited(p)

Sources(p) == {e[1] : e \in graph[p]}
Nodes(p) == Sources(p) \union {e[2] : e \in graph[p]}

\* The nodes the outer loop may start at: those with edges; for the order
\* those without outgoing edges first, then the others.
Starts(p) ==
  LET leaves == Nodes(p) \ Sources(p)
  IN  IF pc[p] = "check" THEN Sources(p) \ Visited(p)
      ELSE IF leaves \subseteq Visited(p) THEN Nodes(p) \ Visited(p)
      ELSE leaves \ Visited(p)

Visit(p, n) ==
  /\ stack' = [stack EXCEPT ![p] = Append(@, n)]
  /\ UNCHANGED <<tableVars, calcVars, pc, edits, jobVars, sorted>>

StartSearch(p) ==
  /\ Searching(p)
  /\ stack[p] = << >>
  /\ \E n \in Starts(p) : Visit(p, n)

Descend(p) ==
  /\ Searching(p)
  /\ stack[p] # << >>
  /\ \E n \in Ahead(p) \ Range(stack[p]) : Visit(p, n)

\* A neighbour is still being visited: the edit is refused, the calculation
\* fails.
CycleFound(p) ==
  /\ Searching(p)
  /\ stack[p] # << >>
  /\ Ahead(p) \intersect Range(stack[p]) # {}
  /\ pc' = [pc EXCEPT ![p] = "err"]
  /\ UNCHANGED <<tableVars, calcVars, edits, jobVars, searchVars>>

Leave(p) ==
  /\ Searching(p)
  /\ stack[p] # << >>
  /\ Ahead(p) = {}
  /\ sorted' = [sorted EXCEPT ![p] = Append(@, Top(p))]
  /\ stack' = [stack EXCEPT ![p] = SubSeq(@, 1, Len(@) - 1)]
  /\ UNCHANGED <<tableVars, calcVars, pc, edits, jobVars>>

\* Nothing left to visit, and no cycle.
SearchEnds(p) ==
  /\ Searching(p)
  /\ stack[p] = << >>
  /\ Starts(p) = {}

Search(p) == StartSearch(p) \/ Descend(p) \/ CycleFound(p) \/ Leave(p)

\* A request is answered; what it worked with is gone.
Finished(p) ==
  /\ pc' = [pc EXCEPT ![p] = IF p \in Calcs THEN "ok" ELSE "idle"]
  /\ job' = [job EXCEPT ![p] = None]
  /\ graph' = [graph EXCEPT ![p] = {}]
  /\ stack' = [stack EXCEPT ![p] = << >>]
  /\ sorted' = [sorted EXCEPT ![p] = << >>]

-----------------------------------------------------------------------------
(* A calculation *)

\* FindByTableID, in the transaction of the request: no cache.
ReadFields(c) ==
  /\ pc[c] = "idle"
  /\ \E w \in Work :
       /\ \A f \in w.changed : Present(def, f)
       /\ job' = [job EXCEPT ![c] = w]
  /\ pc' = [pc EXCEPT ![c] = "map"]
  /\ known' = [known EXCEPT ![c] = def]
  /\ UNCHANGED <<tableVars, cache, done, errorFields, edits, version, graph, searchVars>>

\* The rows become fields.  A record without computed fields needs no graph.
MapFields(c) ==
  /\ pc[c] = "map"
  /\ now' \in {now, now + 1}
  /\ version' = [version EXCEPT ![c] = VersionOf(known[c], now')]
  /\ pc' = [pc EXCEPT ![c] =
              IF job[c].op = "record" /\ ~ \E f \in Fields : Virtual(known[c], f)
                THEN "answer" ELSE "lookup"]
  /\ UNCHANGED <<def, calcVars, edits, job, graph, searchVars>>

\* With the graph: HasCycle, or propagateDependencies.
UseGraph(c, g) ==
  /\ graph' = [graph EXCEPT ![c] = g]
  /\ pc' = [pc EXCEPT ![c] =
              IF job[c].op = "record" THEN "check"
              ELSE IF Affected(g, known[c], job[c].changed) = {} THEN "answer"
              ELSE "sort"]

Hit(c) == cache # None /\ cache.version = version[c]

CacheHit(c) ==
  /\ pc[c] = "lookup"
  /\ Hit(c)
  /\ UseGraph(c, cache.graph)
  /\ UNCHANGED <<tableVars, calcVars, edits, job, version, searchVars>>

CacheMiss(c) ==
  /\ pc[c] = "lookup"
  /\ ~ Hit(c)
  /\ pc' = [pc EXCEPT ![c] = "store"]
  /\ UNCHANGED <<tableVars, calcVars, edits, jobVars, searchVars>>

CacheStore(c) ==
  /\ pc[c] = "store"
  /\ cache' = [version |-> version[c], graph |-> GraphOf(known[c])]
  /\ UseGraph(c, GraphOf(known[c]))
  /\ UNCHANGED <<tableVars, known, done, errorFields, edits, job, version, searchVars>>

\* HasCycle is false: GetTopoOrders starts.
Checked(c) ==
  /\ pc[c] = "check"
  /\ SearchEnds(c)
  /\ pc' = [pc EXCEPT ![c] = "sort"]
  /\ sorted' = [sorted EXCEPT ![c] = << >>]
  /\ UNCHANGED <<tableVars, calcVars, edits, jobVars, stack>>

Ordered(c) ==
  /\ pc[c] = "sort"
  /\ SearchEnds(c)
  /\ pc' = [pc EXCEPT ![c] = "compute"]
  /\ UNCHANGED <<tableVars, calcVars, edits, jobVars, searchVars>>

\* The fields a calculation computes, given the graph it works with: for a
\* record all computed fields, sorted or not.
Wanted(c, d, g) ==
  IF job[c].op = "record"
    THEN {f \in Fields : Virtual(d, f)}
    ELSE Affected(g, d, job[c].changed)

Left(c) == Wanted(c, known[c], graph[c]) \ Range(done[c])

\* f comes before g in the order: fields that are not sorted come last.
Precedes(c, f, g) ==
  \E i \in DOMAIN sorted[c] :
    sorted[c][i] = f /\ \A j \in DOMAIN sorted[c] : sorted[c][j] = g => i < j

NextField(c, f) ==
  /\ pc[c] = "compute"
  /\ f \in Left(c)
  /\ \A g \in Left(c) : ~ Precedes(c, g, f)
  /\ done' = [done EXCEPT ![c] = Append(@, f)]

Compute(c) ==
  /\ \E f \in Fields : NextField(c, f)
  /\ UNCHANGED <<tableVars, cache, known, errorFields, pc, edits, jobVars, searchVars>>

\* The table becomes d, after everything that has been mapped in this second
\* and with nobody about to map what he has read, or at any time.
Change(d) ==
  /\ def' = d
  /\ IF EditsApart THEN now' = now + 1 /\ \A c \in Calcs : pc[c] # "map"
                   ELSE now' \in {now, now + 1}

\* FieldRepository.Save writes all columns of the row, unless it is deleted.
SaveField(f, new) ==
  Change(IF def[f].kind = "gone" THEN def ELSE [def EXCEPT ![f] = new])

\* A field of the record cannot be computed: MarkAsError, and the field that
\* was read is saved.
ComputeFails(c) ==
  /\ job[c] # None
  /\ job[c].op = "record"
  /\ \E f \in Fields :
       /\ NextField(c, f)
       /\ errorFields' = [errorFields EXCEPT ![c] = @ \union {f}]
       /\ SaveField(f, known[c][f])
  /\ UNCHANGED <<cache, known, pc, edits, jobVars, searchVars>>

\* Nothing is left to compute.
Ready(c) == pc[c] = "answer" \/ (pc[c] = "compute" /\ Left(c) = {})

\* The calculation returns, or ends with a cycle: what it worked with is gone.
AnswerCalc(c) ==
  /\ Ready(c) \/ pc[c] = "err"
  /\ Finished(c)
  /\ version' = [version EXCEPT ![c] = 0]
  /\ known' = [known EXCEPT ![c] = NothingRead]
  /\ done' = [done EXCEPT ![c] = << >>]
  /\ UNCHANGED <<tableVars, cache, errorFields, edits>>

-----------------------------------------------------------------------------
(* An editor *)

Free(e) == pc[e] = "idle" /\ edits < MaxEdits

Submit(e, r, where) ==
  /\ Free(e)
  /\ edits' = edits + 1
  /\ job' = [job EXCEPT ![e] = r]
  /\ pc' = [pc EXCEPT ![e] = where]

\* ExistsByName: no other field has the name.
FreeName(f, n) == Named(def, n) \subseteq {f}

\* The references of a formula that an edit brings.
Expressions == {S \in SUBSET Mentions : Cardinality(S) <= MaxRefs}

Asked(f, new) == [field |-> f, def |-> new]

\* Of a new field only a formula is checked.
CreateField(e, f) ==
  /\ def[f].kind = "new"
  /\ \A o \in Editors : job[o] # None => job[o].field # f
  /\ \E n \in {m \in Names : FreeName(f, m)} :
       IF f \in Plain
         THEN Submit(e, Asked(f, [kind |-> "plain", name |-> n, refs |-> {}]), "unchecked")
         ELSE \E S \in Expressions :
                Submit(e, Asked(f, [kind |-> "formula", name |-> n, refs |-> S]), "list")
  /\ UNCHANGED <<tableVars, calcVars, version, graph, searchVars>>

\* UpdateField: a new name or the old one; with Options, which may bring a
\* new expression, the change of a formula is checked, else it is not.
UpdateField(e, f) ==
  /\ Present(def, f)
  /\ \E n \in {m \in Names : FreeName(f, m)} :
       \/ /\ Virtual(def, f)
          /\ \E S \in Expressions \union {def[f].refs} :
               Submit(e, Asked(f, [kind |-> "formula", name |-> n, refs |-> S]), "list")
       \/ Submit(e, Asked(f, [def[f] EXCEPT !.name = n]), "unchecked")
  /\ UNCHANGED <<tableVars, calcVars, version, graph, searchVars>>

\* Somebody has looked at the field: FindByID answers from the cache, with a
\* blank field that has no type and no table.  What is saved is not this
\* table's; a request to delete it finds no table.
HandleBlank(e, f) ==
  /\ Free(e)
  /\ Present(def, f)
  /\ edits' = edits + 1
  /\ UNCHANGED <<tableVars, calcVars, pc, jobVars, searchVars>>

\* Seeded fault: the edited field is not added to the list.
ListSavedFields(e) ==
  /\ pc[e] = "list"
  /\ graph' = [graph EXCEPT ![e] = GraphOf(def)]
  /\ pc' = [pc EXCEPT ![e] = "check"]
  /\ UNCHANGED <<tableVars, calcVars, edits, job, version, searchVars>>

\* CheckCircularDependency: FindByTableID discards the blank list of the
\* cache and reads the table; the edited field is added to the list.
ListFields(e) ==
  /\ pc[e] = "list"
  /\ graph' = [graph EXCEPT ![e] = GraphWith(def, job[e].field, job[e].def)]
  /\ pc' = [pc EXCEPT ![e] = "check"]
  /\ UNCHANGED <<tableVars, calcVars, edits, job, version, searchVars>>

\* The list cannot be read: the edit is not checked.
SkipCheck(e) ==
  /\ pc[e] = "list"
  /\ pc' = [pc EXCEPT ![e] = "unchecked"]
  /\ UNCHANGED <<tableVars, calcVars, edits, jobVars, searchVars>>

\* No cycle.
Accept(e) ==
  /\ pc[e] = "check"
  /\ SearchEnds(e)
  /\ pc' = [pc EXCEPT ![e] = "save"]
  /\ UNCHANGED <<tableVars, calcVars, edits, jobVars, searchVars>>

SaveEdit(e) ==
  /\ pc[e] \in {"save", "unchecked"}
  /\ SaveField(job[e].field, job[e].def)
  /\ Finished(e)
  /\ UNCHANGED <<calcVars, edits, version>>

Refuse(e) ==
  /\ pc[e] = "err"
  /\ Finished(e)
  /\ UNCHANGED <<tableVars, calcVars, edits, version>>

DeleteField(e, f) ==
  /\ Free(e)
  /\ Present(def, f)
  /\ Change([def EXCEPT ![f] = Gone])
  /\ edits' = edits + 1
  /\ UNCHANGED <<calcVars, pc, jobVars, searchVars>>

-----------------------------------------------------------------------------
Calculate(c) ==
  \/ ReadFields(c) \/ MapFields(c) \/ CacheHit(c) \/ CacheMiss(c) \/ CacheStore(c)
  \/ Checked(c) \/ Ordered(c) \/ Compute(c) \/ ComputeFails(c) \/ AnswerCalc(c)

Ask(e) ==
  \E f \in Fields :
    CreateField(e, f) \/ UpdateField(e, f) \/ HandleBlank(e, f) \/ DeleteField(e, f)

Edit(e) ==
  ListFields(e) \/ SkipCheck(e) \/ Accept(e) \/ SaveEdit(e) \/ Refuse(e)

Next ==
  \/ \E c \in Calcs : Calculate(c) \/ Search(c)
  \/ \E e \in Editors : Ask(e) \/ Edit(e) \/ Search(e)

Spec == Init /\ [][Next]_vars

-----------------------------------------------------------------------------
(* Properties *)

NoErrors == \A c \in Calcs : errorFields[c] = {}

\* An edit that passed the cycle check is saved without a cycle, though names
\* are resolved anew by every reader and unchecked edits may have closed
\* cycles before: with one editor, and as long as no calculation fails.
CheckedEditsSaveNoCycle ==
  [][\A e \in Editors :
       NoErrors /\ pc[e] = "save" /\ pc'[e] # "save" => ~ Cyclic(GraphOf(def'))]_vars

\* The searches, whatever the order of the maps they range over, find a cycle
\* exactly if there is one: an edit or a calculation is refused for nothing
\* else, and goes on only without one.
SearchIsExact ==
  \A p \in Procs :
    /\ pc[p] = "err" => Cyclic(graph[p])
    /\ pc[p] \in {"save", "compute"} => ~ Cyclic(graph[p])

\* A calculation computes the fields that the definitions it has read call
\* for, each once and after the fields it refers to, though the graph it
\* follows may be one that another calculation has cached.
RecalculatesAsDefined ==
  \A c \in Calcs :
    pc[c] \in {"compute", "answer"} =>
      LET g == GraphOf(known[c])
          wanted == Wanted(c, known[c], g)
      IN  /\ \A i \in DOMAIN done[c] : \A x \in wanted :
               <<x, done[c][i]>> \in g => \E j \in 1 .. i - 1 : done[c][j] = x
          /\ Range(done[c]) \subseteq wanted
          /\ Len(done[c]) = Cardinality(Range(done[c]))
          /\ Ready(c) => wanted \subseteq Range(done[c])
=============================================================================
