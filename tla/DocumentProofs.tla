--------------------------- MODULE DocumentProofs ---------------------------
(***************************************************************************)
(* DocumentCompilation for any requests, documents, limits and clock: what *)
(* is admitted stays within the limits, and an artifact is whole.          *)
(* DocumentSession for any blocks, pages and bounds: what is rendered, its *)
(* URLs, the states of widgets and what a page leaves behind.              *)
(***************************************************************************)
EXTENDS DocumentCompilation, DocumentSession, FiniteSetTheorems, FunctionTheorems, TLAPS

\* The compilations of one source have equally many pages: the manifest of one
\* is the answer of all.
PagesAreDetermined ==
  \A s \in Documents : \A o, p \in Outputs[s] : Len(o) = Len(p)

Output == {<<>>} \cup UNION {Outputs[s] : s \in Documents}
Compiling == {"read", "run", "find", "insert"}
Label == {"new", "handle", "answer", "failing", "answered", "failed", "refused"} \cup Compiling
RequestState ==
  [pc : Label, step : Nat, output : Output, pages : Seq(Request)]
Bucket == [tokens : Nat, updated : Nat, seen : Nat]

StateInv ==
  /\ now \in 0..MaxTime /\ spent \in Nat
  /\ request \in [Request -> RequestState]
  /\ child \in [Request -> {"none", "running", "killed"}]
  /\ \A key \in DOMAIN row : key \in Documents \X Nat /\ row[key].asset \in Request

\* Tokens and times of the buckets of a map.
Buckets(buckets, capacity) ==
  \A k \in DOMAIN buckets :
    /\ buckets[k] \in Bucket
    /\ buckets[k].tokens <= capacity /\ buckets[k].updated <= now /\ buckets[k].seen <= now

\* The counters are those of the requests that hold a place, and a program
\* belongs to a compilation.
CountInv ==
  /\ active = Cardinality(Holding)
  /\ compiles = Cardinality({r \in Holding : Class[r] = "compile"})
  /\ compiles <= MaximumConcurrentCompiles
  /\ \A r \in Request : child[r] # "none" => At(r, "run")
  /\ \A r \in Request : request[r].pc \in Compiling => Class[r] = "compile"

\* What was spent and what is left came in until the bucket was last filled.
BudgetInv ==
  /\ DOMAIN networks \subseteq {Network}
  /\ Network \notin DOMAIN networks => spent = 0
  /\ \A k \in DOMAIN networks :
       spent + networks[k].tokens <= NetworkCapacity + NetworkRate * networks[k].updated

\* Pages are the assets of the first pages of a source.
AreOf(pages, s) ==
  \A i \in DOMAIN pages : <<s, i>> \in DOMAIN row /\ row[<<s, i>>].asset = pages[i]

WholeManifest(s) ==
  LET pages == row[<<s, Manifest>>].bytes IN
  /\ pages \in Seq(Request) /\ AreOf(pages, s)
  /\ \E output \in Outputs[s] : Len(output) = Len(pages)

ManifestInv == \A s \in Documents : <<s, Manifest>> \in DOMAIN row => WholeManifest(s)

\* How far the compilation of a request has come.
Progress(r) ==
  /\ At(r, "new") \/ At(r, "handle") => request[r] = [Fresh EXCEPT !.pc = request[r].pc]
  /\ At(r, "read") => Key(r, Manifest) \in DOMAIN row
  /\ At(r, "run") => /\ request[r].pages = <<>>
                     /\ request[r].step >= 2 => request[r].output \in Outputs[Source[r]]
  /\ At(r, "find") \/ At(r, "insert") =>
       /\ request[r].output \in Outputs[Source[r]]
       /\ request[r].step \in 1..(Len(request[r].output) + 1)
       /\ Len(request[r].pages) = request[r].step - 1
       /\ AreOf(request[r].pages, Source[r])
  /\ (At(r, "answer") \/ At(r, "answered")) /\ Class[r] = "compile" =>
       /\ Key(r, Manifest) \in DOMAIN row
       /\ PagesAreDetermined => request[r].pages = row[Key(r, Manifest)].bytes

ProgressInv == \A r \in Request : Progress(r)

CompilationInv ==
  /\ StateInv /\ Buckets(clients, Capacity) /\ Buckets(networks, NetworkCapacity)
  /\ CountInv /\ BudgetInv /\ ManifestInv /\ ProgressInv

-----------------------------------------------------------------------------
LEMMA Numbers ==
  /\ Capacity \in Nat /\ Rate \in Nat /\ NetworkCapacity \in Nat /\ NetworkRate \in Nat
  /\ MaxTime \in Nat /\ MaximumConcurrent \in Nat /\ MaximumConcurrentCompiles \in Nat
  /\ MaximumBuckets \in Nat
  BY BudgetsAreNumbers

LEMMA HoldingFields ==
  /\ Holding \subseteq Request /\ IsFiniteSet(Holding)
  /\ IsFiniteSet({r \in Holding : Class[r] = "compile"})
  /\ Cardinality(Holding) \in Nat /\ Cardinality({r \in Holding : Class[r] = "compile"}) \in Nat
<1>1. Holding \subseteq Request /\ {r \in Holding : Class[r] = "compile"} \subseteq Request
  BY DEF Holding
<1>2. QED
  BY <1>1, RequestsAreFinite, FS_Subset, FS_CardinalityType

LEMMA FreshFields ==
  /\ <<>> \in Output /\ <<>> \in Seq(Request) /\ Len(<<>>) = 0
  /\ Fresh.pc = "new" /\ Fresh.step = 0 /\ Fresh.output = <<>> /\ Fresh.pages = <<>>
  /\ Fresh \in RequestState
  BY DEF Fresh, Output, RequestState, Label

LEMMA OutputFields ==
  ASSUME NEW output \in Output
  PROVE  Len(output) \in Nat
  BY OutputsAreSequences DEF Output

LEMMA SourceFields ==
  ASSUME NEW r \in Request, Class[r] = "compile"
  PROVE  /\ Source[r] \in Documents /\ Outputs[Source[r]] \subseteq Output
         /\ \A n \in Nat : Key(r, n) \in Documents \X Nat
         /\ Key(r, Manifest) = <<Source[r], 0>> /\ Key(r, Manifest) \in Documents \X Nat
<1>1. Source[r] \in Documents
  BY DEF Documents
<1>2. QED
  BY <1>1 DEF Output, Key, Manifest

\* A request that is somewhere else, all others where they were.
LEMMA MoveFields ==
  ASSUME StateInv, NEW r \in Request, NEW to \in RequestState,
         request' = [request EXCEPT ![r] = to]
  PROVE  /\ request' \in [Request -> RequestState] /\ request'[r] = to
         /\ \A q \in Request \ {r} : request'[q] = request[q]
  BY DEF StateInv

LEMMA GotoFields ==
  ASSUME StateInv, NEW r \in Request, NEW label \in Label, Goto(r, label)
  PROVE  /\ request' \in [Request -> RequestState]
         /\ \A q \in Request \ {r} : request'[q] = request[q]
         /\ request'[r].pc = label /\ request'[r].step = request[r].step
         /\ request'[r].output = request[r].output /\ request'[r].pages = request[r].pages
<1> DEFINE to == [request[r] EXCEPT !.pc = label]
<1>1. request[r] \in RequestState /\ request' = [request EXCEPT ![r] = to]
  BY DEF Goto, StateInv
<1>2. /\ to \in RequestState /\ to.pc = label /\ to.step = request[r].step
      /\ to.output = request[r].output /\ to.pages = request[r].pages
  BY <1>1 DEF RequestState
<1>3. QED
  BY <1>1, <1>2, MoveFields

LEMMA FailsFields ==
  ASSUME StateInv, NEW r \in Request, Fails(r)
  PROVE  /\ [Fresh EXCEPT !.pc = "failing"] \in RequestState
         /\ request' = [request EXCEPT ![r] = [Fresh EXCEPT !.pc = "failing"]]
         /\ request'[r].pc = "failing" /\ request'[r] \in RequestState
         /\ request' \in [Request -> RequestState]
         /\ \A q \in Request \ {r} : request'[q] = request[q]
<1>1. [Fresh EXCEPT !.pc = "failing"] \in RequestState /\ [Fresh EXCEPT !.pc = "failing"].pc = "failing"
  BY FreshFields DEF RequestState, Label, Fresh
<1>2. QED
  BY <1>1, MoveFields DEF Fails, StateInv

-----------------------------------------------------------------------------
\* What is found in a row stays there.
Grows == \A key \in DOMAIN row : key \in DOMAIN row' /\ row'[key] = row[key]

LEMMA PagesStay ==
  ASSUME NEW pages, NEW s, AreOf(pages, s), Grows
  PROVE  AreOf(pages, s)'
  BY DEF AreOf, Grows

LEMMA ProgressStays ==
  ASSUME NEW r \in Request, Progress(r), request'[r] = request[r], Grows
  PROVE  Progress(r)'
<1> PICK state : state = request[r]
  OBVIOUS
<1>1. Key(r, Manifest)' = Key(r, Manifest)
  BY DEF Key, Manifest
<1>2. AreOf(state.pages, Source[r]) => AreOf(state.pages, Source[r])'
  BY PagesStay
<1>3. AreOf(request[r].pages, Source[r]) => AreOf(request[r].pages, Source[r])'
  BY <1>2 DEF AreOf
<1>4. QED
  BY <1>1, <1>3 DEF Progress, At, Grows, Fresh

\* A step of the handler of a request that keeps its place.
LEMMA HandlerStep ==
  ASSUME CompilationInv, UNCHANGED kept, NEW r \in Request, r \in Holding,
         request' \in [Request -> RequestState],
         \A q \in Request \ {r} : request'[q] = request[q],
         request'[r].pc \in {"handle", "answer", "failing"} \cup Compiling,
         request'[r].pc \in Compiling => Class[r] = "compile",
         child' \in [Request -> {"none", "running", "killed"}],
         \A q \in Request \ {r} : child'[q] = child[q],
         child'[r] # "none" => request'[r].pc = "run",
         Grows, \A key \in DOMAIN row' : key \in Documents \X Nat /\ row'[key].asset \in Request,
         ManifestInv', Progress(r)'
  PROVE  CompilationInv'
<1> USE DEF CompilationInv, kept, admission
<1>1. StateInv'
  BY DEF StateInv
<1>2. Holding' = Holding
  BY DEF Holding, Compiling
<1>3. CountInv'
  <2>1. active' = Cardinality(Holding)' /\ compiles' = Cardinality({q \in Holding : Class[q] = "compile"})'
    BY <1>2 DEF CountInv
  <2>2. \A q \in Request : (child'[q] # "none" => At(q, "run")')
                           /\ (request'[q].pc \in Compiling => Class[q] = "compile")
    BY DEF CountInv, At
  <2>3. QED
    BY <2>1, <2>2 DEF CountInv
<1>4. BudgetInv' /\ Buckets(clients, Capacity)' /\ Buckets(networks, NetworkCapacity)'
  BY DEF BudgetInv, Buckets
<1>5. ProgressInv'
  BY ProgressStays DEF ProgressInv
<1>6. QED
  BY <1>1, <1>3, <1>4, <1>5

\* The same, when the rows are as they were.
LEMMA RowlessStep ==
  ASSUME CompilationInv, UNCHANGED <<kept, row>>, NEW r \in Request, r \in Holding,
         request' \in [Request -> RequestState],
         \A q \in Request \ {r} : request'[q] = request[q],
         request'[r].pc \in {"handle", "answer", "failing"} \cup Compiling,
         request'[r].pc \in Compiling => Class[r] = "compile",
         child' \in [Request -> {"none", "running", "killed"}],
         \A q \in Request \ {r} : child'[q] = child[q],
         child'[r] # "none" => request'[r].pc = "run",
         Progress(r)'
  PROVE  CompilationInv'
<1>1. Grows
  BY DEF Grows
<1>2. ManifestInv'
  BY DEF CompilationInv, ManifestInv, WholeManifest, AreOf, Manifest
<1>3. \A key \in DOMAIN row' : key \in Documents \X Nat /\ row'[key].asset \in Request
  BY DEF CompilationInv, StateInv
<1>4. QED
  BY <1>1, <1>2, <1>3, HandlerStep

LEMMA FailsStep ==
  ASSUME CompilationInv, UNCHANGED <<kept, row>>, NEW r \in Request, r \in Holding, Fails(r),
         child' \in [Request -> {"none", "running", "killed"}],
         \A q \in Request \ {r} : child'[q] = child[q], child'[r] = "none"
  PROVE  CompilationInv'
<1>1. StateInv
  BY DEF CompilationInv
<1>2. request'[r].pc = "failing"
  BY <1>1, FailsFields
<1>3. Progress(r)'
  BY <1>2 DEF Progress, At
<1>4. QED
  BY <1>1, <1>2, <1>3, FailsFields, RowlessStep DEF Compiling

LEMMA InitCompilation == Init => CompilationInv
<1> SUFFICES ASSUME Init
             PROVE  CompilationInv
  OBVIOUS
<1>1. /\ \A r \in Request : request[r] = Fresh /\ child[r] = "none"
      /\ row = <<>> /\ clients = <<>> /\ networks = <<>>
      /\ DOMAIN row = {} /\ DOMAIN clients = {} /\ DOMAIN networks = {}
      /\ now = 0 /\ active = 0 /\ compiles = 0 /\ spent = 0
      /\ request = [r \in Request |-> Fresh] /\ child = [r \in Request |-> "none"]
  BY DEF Init
<1>2. Holding = {} /\ {r \in Holding : Class[r] = "compile"} = {}
  BY <1>1, FreshFields DEF Holding
<1>3. StateInv
  BY <1>1, Numbers, FreshFields DEF StateInv
<1>4. CountInv
  BY <1>1, <1>2, Numbers, FS_EmptySet, FreshFields DEF CountInv, Compiling
<1>5. BudgetInv /\ ManifestInv /\ Buckets(clients, Capacity) /\ Buckets(networks, NetworkCapacity)
  BY <1>1 DEF BudgetInv, ManifestInv, Buckets
<1>6. ProgressInv
  <2> SUFFICES ASSUME NEW r \in Request
               PROVE  Progress(r)
    BY DEF ProgressInv
  <2>1. request[r] = Fresh /\ request[r].pc = "new"
    BY <1>1, FreshFields
  <2>2. request[r] = [Fresh EXCEPT !.pc = request[r].pc]
    BY <2>1 DEF Fresh
  <2>3. QED
    BY <2>1, <2>2 DEF Progress, At
<1>7. QED
  BY <1>3, <1>4, <1>5, <1>6 DEF CompilationInv

-----------------------------------------------------------------------------
LEMMA TickStep ==
  ASSUME CompilationInv, Tick
  PROVE  CompilationInv'
<1> USE DEF CompilationInv
<1>1. /\ now < MaxTime /\ now' = now + 1 /\ now \in Nat /\ now' \in 0..MaxTime
      /\ UNCHANGED <<clients, networks, active, compiles, spent, request, child, row>>
  BY Numbers DEF Tick, admission, StateInv
<1>2. StateInv' /\ CountInv' /\ BudgetInv' /\ ManifestInv'
  BY <1>1 DEF StateInv, CountInv, BudgetInv, ManifestInv, Holding, At, WholeManifest, AreOf
<1>3. Buckets(clients, Capacity)' /\ Buckets(networks, NetworkCapacity)'
  BY <1>1 DEF Buckets, Bucket
<1>4. ProgressInv'
  BY <1>1, ProgressStays DEF ProgressInv, Grows
<1>5. QED
  BY <1>2, <1>3, <1>4

LEMMA RefuseStep ==
  ASSUME CompilationInv, NEW r \in Request, RefuseAtCapacity(r)
  PROVE  CompilationInv'
<1> USE DEF CompilationInv
<1>1. /\ StateInv /\ request[r].pc = "new" /\ Goto(r, "refused")
      /\ UNCHANGED <<now, clients, networks, active, compiles, spent, child, row>>
  BY DEF RefuseAtCapacity, admission, At
<1>2. /\ request' \in [Request -> RequestState] /\ request'[r].pc = "refused"
      /\ \A q \in Request \ {r} : request'[q] = request[q]
  BY <1>1, GotoFields DEF Label
<1>3. Holding' = Holding
  BY <1>1, <1>2 DEF Holding
<1>4. StateInv' /\ BudgetInv' /\ ManifestInv' /\ Buckets(clients, Capacity)' /\ Buckets(networks, NetworkCapacity)'
  BY <1>1, <1>2 DEF StateInv, BudgetInv, ManifestInv, WholeManifest, AreOf, Buckets
<1>5. CountInv'
  BY <1>1, <1>2, <1>3 DEF CountInv, At, Compiling
<1>6. ProgressInv'
  <2>1. Progress(r)'
    BY <1>2 DEF Progress, At
  <2>2. QED
    BY <1>1, <1>2, <2>1, ProgressStays DEF ProgressInv, Grows
<1>7. QED
  BY <1>4, <1>5, <1>6

LEMMA ReleaseStep ==
  ASSUME CompilationInv, NEW r \in Request, Release(r)
  PROVE  CompilationInv'
<1> USE DEF CompilationInv
<1> PICK label \in {"answered", "failed"} :
       /\ Goto(r, label)
       /\ label = "answered" => request[r].pc = "answer"
  BY DEF Release, At
<1>1. /\ StateInv /\ request[r].pc \in {"answer", "failing"}
      /\ active' = active - 1
      /\ compiles' = IF Class[r] = "compile" THEN compiles - 1 ELSE compiles
      /\ UNCHANGED <<now, clients, networks, spent, child, row>>
  BY DEF Release, At
<1>2. /\ request' \in [Request -> RequestState] /\ request'[r].pc = label
      /\ request'[r].pages = request[r].pages
      /\ \A q \in Request \ {r} : request'[q] = request[q]
  BY <1>1, GotoFields DEF Label
<1>3. r \in Holding /\ Holding' = Holding \ {r}
  BY <1>1, <1>2 DEF Holding
<1>4. StateInv' /\ BudgetInv' /\ ManifestInv' /\ Buckets(clients, Capacity)' /\ Buckets(networks, NetworkCapacity)'
  BY <1>1, <1>2 DEF StateInv, BudgetInv, ManifestInv, WholeManifest, AreOf, Buckets
<1>5. CountInv'
  <2>1. active' = Cardinality(Holding')
    BY <1>1, <1>3, HoldingFields, FS_RemoveElement DEF CountInv
  <2>2. compiles' = Cardinality({q \in Holding' : Class[q] = "compile"})
    <3> DEFINE mine == {q \in Holding : Class[q] = "compile"}
    <3>1. compiles = Cardinality(mine) /\ IsFiniteSet(mine)
      BY HoldingFields DEF CountInv
    <3>2. CASE Class[r] = "compile"
      <4>1. {q \in Holding' : Class[q] = "compile"} = mine \ {r} /\ r \in mine
        BY <1>3, <3>2
      <4>2. Cardinality(mine \ {r}) = Cardinality(mine) - 1
        BY <3>1, <4>1, FS_RemoveElement
      <4>3. QED
        BY <1>1, <3>1, <3>2, <4>1, <4>2
    <3>3. CASE Class[r] # "compile"
      <4>1. {q \in Holding' : Class[q] = "compile"} = mine
        BY <1>3, <3>3
      <4>2. QED
        BY <1>1, <3>1, <3>3, <4>1
    <3>4. QED
      BY <3>2, <3>3
  <2>3. compiles \in Nat /\ compiles <= MaximumConcurrentCompiles
    BY HoldingFields DEF CountInv
  <2>4. compiles' <= MaximumConcurrentCompiles
    BY <1>1, <2>3, Numbers
  <2>5. \A q \in Request : (child'[q] # "none" => request'[q].pc = "run")
                           /\ (request'[q].pc \in Compiling => Class[q] = "compile")
    BY <1>1, <1>2 DEF CountInv, Compiling, At
  <2>6. QED
    BY <2>1, <2>2, <2>4, <2>5 DEF CountInv, At
<1>6. ProgressInv'
  <2>1. Progress(r)'
    BY <1>1, <1>2 DEF Progress, ProgressInv, At, Key, Manifest
  <2>2. QED
    BY <1>1, <1>2, <2>1, ProgressStays DEF ProgressInv, Grows
<1>7. QED
  BY <1>4, <1>5, <1>6

-----------------------------------------------------------------------------
LEMMA OtherStep ==
  ASSUME CompilationInv, NEW r \in Request, HandleOther(r)
  PROVE  CompilationInv'
<1>1. /\ StateInv /\ request[r].pc = "handle" /\ Class[r] # "compile" /\ r \in Holding
      /\ UNCHANGED <<kept, child, row>>
      /\ \A q \in Request : child'[q] = child[q]
      /\ child' \in [Request -> {"none", "running", "killed"}] /\ child'[r] = "none"
  BY DEF HandleOther, At, Holding, CompilationInv, CountInv, StateInv
<1>2. CASE Fails(r)
  BY <1>1, <1>2, FailsStep
<1>3. CASE Goto(r, "answer")
  <2>1. /\ request' \in [Request -> RequestState] /\ request'[r].pc = "answer"
        /\ \A q \in Request \ {r} : request'[q] = request[q]
    BY <1>1, <1>3, GotoFields DEF Label
  <2>2. Progress(r)'
    BY <1>1, <2>1 DEF Progress, At
  <2>3. QED
    BY <1>1, <2>1, <2>2, RowlessStep DEF Compiling
<1>4. QED
  BY <1>2, <1>3 DEF HandleOther

LEMMA LookUpStep ==
  ASSUME CompilationInv, NEW r \in Request, LookUp(r)
  PROVE  CompilationInv'
<1>1. /\ StateInv /\ request[r].pc = "handle" /\ Class[r] = "compile" /\ r \in Holding
      /\ UNCHANGED <<kept, child, row>>
      /\ \A q \in Request : child'[q] = child[q]
      /\ child' \in [Request -> {"none", "running", "killed"}] /\ child'[r] = "none"
  BY DEF LookUp, At, Holding, CompilationInv, CountInv, StateInv
<1>2. request[r].pages = <<>> /\ request[r].step = 0
  <2>1. request[r] = [Fresh EXCEPT !.pc = request[r].pc]
    BY <1>1 DEF CompilationInv, ProgressInv, Progress, At
  <2>2. QED
    BY <2>1 DEF Fresh
<1>3. CASE Fails(r)
  BY <1>1, <1>3, FailsStep
<1>4. ASSUME NEW label \in {"read", "run"}, Goto(r, label),
             label = "read" => Key(r, Manifest) \in DOMAIN row
      PROVE  CompilationInv'
  <2>1. /\ request' \in [Request -> RequestState] /\ request'[r].pc = label
        /\ request'[r].pages = <<>> /\ request'[r].step = 0
        /\ \A q \in Request \ {r} : request'[q] = request[q]
    BY <1>1, <1>2, <1>4, GotoFields DEF Label, Compiling
  <2>2. Progress(r)'
    BY <1>1, <1>4, <2>1 DEF Progress, At, Key, Manifest
  <2>3. QED
    BY <1>1, <2>1, <2>2, RowlessStep DEF Compiling
<1>5. QED
  BY <1>3, <1>4 DEF LookUp, ReadyDerived

LEMMA ReadManifestStep ==
  ASSUME CompilationInv, NEW r \in Request, ReadManifest(r)
  PROVE  CompilationInv'
<1>1. /\ StateInv /\ request[r].pc = "read" /\ Class[r] = "compile" /\ r \in Holding
      /\ UNCHANGED <<kept, child, row>>
      /\ \A q \in Request : child'[q] = child[q]
      /\ child' \in [Request -> {"none", "running", "killed"}] /\ child'[r] = "none"
  BY DEF ReadManifest, At, Holding, CompilationInv, CountInv, StateInv, Compiling
<1>2. CASE Fails(r)
  BY <1>1, <1>2, FailsStep
<1>3. CASE request' = [request EXCEPT ![r].pc = "answer", ![r].pages = row[Key(r, Manifest)].bytes]
  <2> DEFINE pages == row[Key(r, Manifest)].bytes
             to == [request[r] EXCEPT !.pc = "answer", !.pages = pages]
  <2>1. request' = [request EXCEPT ![r] = to] /\ request[r] \in RequestState
    BY <1>1, <1>3 DEF StateInv
  <2>2. Key(r, Manifest) \in DOMAIN row /\ pages \in Seq(Request)
    <3>1. Key(r, Manifest) \in DOMAIN row
      BY <1>1 DEF CompilationInv, ProgressInv, Progress, At
    <3>2. QED
      BY <1>1, <3>1, SourceFields DEF CompilationInv, ManifestInv, WholeManifest, Key
  <2>3. to \in RequestState /\ to.pc = "answer" /\ to.pages = pages
    BY <2>1, <2>2 DEF RequestState, Label
  <2>4. /\ request' \in [Request -> RequestState] /\ request'[r].pc = "answer"
        /\ request'[r].pages = pages /\ \A q \in Request \ {r} : request'[q] = request[q]
    BY <1>1, <2>1, <2>3, MoveFields
  <2>5. Progress(r)'
    BY <1>1, <2>2, <2>4 DEF Progress, At, Key, Manifest
  <2>6. QED
    BY <1>1, <2>4, <2>5, RowlessStep DEF Compiling
<1>4. QED
  BY <1>2, <1>3 DEF ReadManifest

LEMMA SpawnKillStep ==
  ASSUME CompilationInv, NEW r \in Request, Spawn(r) \/ Kill(r)
  PROVE  CompilationInv'
<1>1. /\ StateInv /\ request[r].pc = "run" /\ Class[r] = "compile" /\ r \in Holding
      /\ UNCHANGED <<kept, row>>
  BY DEF Spawn, Kill, At, Holding, CompilationInv, CountInv, StateInv, Compiling
<1>2. CASE Fails(r) /\ UNCHANGED child /\ child[r] = "none"
  BY <1>1, <1>2, FailsStep DEF StateInv
<1>3. ASSUME NEW state \in {"running", "killed"}, child' = [child EXCEPT ![r] = state],
             UNCHANGED request
      PROVE  CompilationInv'
  <2>1. Progress(r)'
    BY <1>1, <1>3, ProgressStays DEF CompilationInv, ProgressInv, Grows
  <2>2. QED
    BY <1>1, <1>3, <2>1, RowlessStep DEF StateInv, Compiling
<1>4. QED
  BY <1>2, <1>3 DEF Spawn, Kill

LEMMA CloseStep ==
  ASSUME CompilationInv, NEW r \in Request, Close(r)
  PROVE  CompilationInv'
<1>1. /\ StateInv /\ request[r].pc = "run" /\ Class[r] = "compile" /\ r \in Holding
      /\ UNCHANGED <<kept, row>>
      /\ child' \in [Request -> {"none", "running", "killed"}] /\ child'[r] = "none"
      /\ \A q \in Request \ {r} : child'[q] = child[q]
  BY DEF Close, At, Holding, CompilationInv, CountInv, StateInv, Compiling
<1>2. CASE Fails(r)
  BY <1>1, <1>2, FailsStep
<1> DEFINE step == request[r].step
           last(output) == step + 1 = Len(output) + 2
           to(output) == [request[r] EXCEPT !.output = output,
                                            !.pc = IF last(output) THEN "find" ELSE "run",
                                            !.step = IF last(output) THEN 1 ELSE step + 1]
<1>3. ASSUME NEW output \in IF step = 1 THEN Outputs[Source[r]] ELSE {request[r].output},
             request' = [request EXCEPT ![r] = to(output)]
      PROVE  CompilationInv'
  <2>1. request[r] \in RequestState /\ step \in Nat
    BY <1>1 DEF StateInv, RequestState
  <2>2. /\ request[r].pages = <<>> /\ (step >= 1 => output \in Outputs[Source[r]])
        /\ output \in Output /\ Len(output) \in Nat
    <3>1. request[r].pages = <<>> /\ (step >= 2 => request[r].output \in Outputs[Source[r]])
      BY <1>1 DEF CompilationInv, ProgressInv, Progress, At
    <3>2. request[r].output \in Output /\ Outputs[Source[r]] \subseteq Output
      BY <1>1, <2>1, SourceFields DEF RequestState
    <3>3. output \in Output
      BY <1>3, <3>2
    <3>4. Len(output) \in Nat
      BY <3>3, OutputFields
    <3>5. step >= 1 => output \in Outputs[Source[r]]
      BY <1>3, <2>1, <3>1
    <3>6. QED
      BY <3>1, <3>3, <3>4, <3>5
  <2>3. /\ to(output) \in RequestState /\ to(output).pages = <<>> /\ to(output).output = output
        /\ last(output) => to(output).pc = "find" /\ to(output).step = 1
        /\ ~last(output) => to(output).pc = "run" /\ to(output).step = step + 1
    <3>1. CASE last(output)
      <4>1. to(output) = [request[r] EXCEPT !.output = output, !.pc = "find", !.step = 1]
        BY <3>1
      <4>2. QED
        BY <2>1, <2>2, <3>1, <4>1 DEF RequestState, Label, Compiling
    <3>2. CASE ~last(output)
      <4>1. to(output) = [request[r] EXCEPT !.output = output, !.pc = "run", !.step = step + 1]
        BY <3>2
      <4>2. step + 1 \in Nat
        BY <2>1
      <4>3. QED
        BY <1>1, <2>1, <2>2, <3>2, <4>1, <4>2 DEF RequestState, Label, Compiling
    <3>3. QED
      BY <3>1, <3>2
  <2>4. /\ request' \in [Request -> RequestState] /\ request'[r] = to(output)
        /\ \A q \in Request \ {r} : request'[q] = request[q]
    BY <1>1, <1>3, <2>3, MoveFields
  <2>5. Progress(r)'
    <3>1. CASE last(output)
      <4>1. output \in Outputs[Source[r]]
        BY <2>1, <2>2, <3>1
      <4>2. 1 \in 1..(Len(output) + 1) /\ Len(<<>>) = 1 - 1 /\ DOMAIN <<>> = {}
        BY <2>2
      <4>3. QED
        BY <2>3, <2>4, <3>1, <4>1, <4>2 DEF Progress, At, AreOf
    <3>2. CASE ~last(output)
      <4>1. step + 1 >= 2 => output \in Outputs[Source[r]]
        BY <2>1, <2>2
      <4>2. QED
        BY <2>3, <2>4, <3>2, <4>1 DEF Progress, At
    <3>3. QED
      BY <3>1, <3>2
  <2>6. QED
    BY <1>1, <2>3, <2>4, <2>5, RowlessStep DEF Compiling
<1>4. CASE child[r] = "running" /\ ~Fails(r)
  <2>1. PICK output \in IF step = 1 THEN Outputs[Source[r]] ELSE {request[r].output} :
          request' = [request EXCEPT ![r] = to(output)]
    BY <1>4 DEF Close
  <2>2. QED
    BY <1>3, <2>1
<1>5. QED
  BY <1>2, <1>4 DEF Close

-----------------------------------------------------------------------------
LEMMA AppendFields ==
  ASSUME NEW S, NEW seq \in Seq(S), NEW e \in S
  PROVE  /\ Append(seq, e) \in Seq(S) /\ Len(Append(seq, e)) = Len(seq) + 1
         /\ DOMAIN Append(seq, e) = 1..(Len(seq) + 1) /\ Append(seq, e)[Len(seq) + 1] = e
         /\ \A i \in 1..Len(seq) : Append(seq, e)[i] = seq[i] /\ i \in DOMAIN seq
  OBVIOUS

LEMMA SeqEqual ==
  ASSUME NEW S, NEW s \in Seq(S), NEW t \in Seq(S), Len(s) = Len(t),
         \A i \in 1..Len(t) : s[i] = t[i]
  PROVE  s = t
<1>1. /\ s = [i \in 1..Len(s) |-> s[i]] /\ t = [i \in 1..Len(t) |-> t[i]]
  OBVIOUS
<1>2. QED
  BY <1>1

-----------------------------------------------------------------------------
\* A compilation that is about to publish: its pages so far, and the next key.
LEMMA PublishingFields ==
  ASSUME CompilationInv, NEW r \in Request, At(r, "find") \/ At(r, "insert")
  PROVE  /\ StateInv /\ r \in Holding /\ Class[r] = "compile" /\ child[r] = "none"
         /\ request[r] \in RequestState /\ request[r].pages \in Seq(Request)
         /\ request[r].output \in Outputs[Source[r]] /\ Len(request[r].output) \in Nat
         /\ request[r].step \in 1..(Len(request[r].output) + 1)
         /\ Len(request[r].pages) = request[r].step - 1
         /\ AreOf(request[r].pages, Source[r])
         /\ PageNumber(r) \in Nat
         /\ PageNumber(r) # Manifest => PageNumber(r) = request[r].step /\ PageNumber(r) # 0
         /\ PageNumber(r) = Manifest => request[r].step = Len(request[r].output) + 1
<1>1. Progress(r) /\ StateInv /\ CountInv
  BY DEF CompilationInv, ProgressInv
<1>2. /\ r \in Holding /\ Class[r] = "compile" /\ child[r] = "none"
      /\ request[r] \in RequestState /\ request[r].pages \in Seq(Request)
  BY <1>1 DEF StateInv, CountInv, Compiling, Holding, At, RequestState
<1>3. /\ request[r].output \in Outputs[Source[r]]
      /\ request[r].step \in 1..(Len(request[r].output) + 1)
      /\ Len(request[r].pages) = request[r].step - 1
      /\ AreOf(request[r].pages, Source[r])
  BY <1>1 DEF Progress
<1>4. Len(request[r].output) \in Nat
  BY <1>2, <1>3, SourceFields, OutputFields
<1>5. /\ PageNumber(r) \in Nat
      /\ PageNumber(r) # Manifest => PageNumber(r) = request[r].step /\ PageNumber(r) # 0
      /\ PageNumber(r) = Manifest => request[r].step = Len(request[r].output) + 1
  BY <1>3, <1>4 DEF PageNumber, Manifest
<1>6. QED
  BY <1>1, <1>2, <1>3, <1>4, <1>5

\* The manifest that is there names the pages this compilation has.
LEMMA OneManifest ==
  ASSUME PagesAreDetermined, CompilationInv, NEW r \in Request, At(r, "find") \/ At(r, "insert"),
         PageNumber(r) = Manifest, Key(r, Manifest) \in DOMAIN row
  PROVE  row[Key(r, Manifest)].bytes = request[r].pages
<1> DEFINE there == row[Key(r, Manifest)].bytes
           mine == request[r].pages
<1>1. /\ mine \in Seq(Request) /\ AreOf(mine, Source[r]) /\ Source[r] \in Documents
      /\ request[r].output \in Outputs[Source[r]] /\ Len(request[r].output) \in Nat
      /\ Len(mine) = Len(request[r].output)
  <2>1. /\ Class[r] = "compile" /\ Len(mine) = request[r].step - 1
        /\ request[r].step = Len(request[r].output) + 1 /\ Len(request[r].output) \in Nat
    BY PublishingFields
  <2>2. Len(mine) = Len(request[r].output)
    BY <2>1
  <2>3. Source[r] \in Documents
    BY <2>1, SourceFields
  <2>4. QED
    BY <2>2, <2>3, PublishingFields
<1>2. /\ there \in Seq(Request) /\ AreOf(there, Source[r])
      /\ \E output \in Outputs[Source[r]] : Len(output) = Len(there)
  BY <1>1 DEF CompilationInv, ManifestInv, WholeManifest, Key
<1>3. Len(there) = Len(mine)
  BY <1>1, <1>2 DEF PagesAreDetermined
<1>4. DOMAIN there = 1..Len(there) /\ DOMAIN mine = 1..Len(mine)
  BY <1>1, <1>2
<1>5. \A i \in 1..Len(mine) : there[i] = mine[i]
  BY <1>1, <1>2, <1>3, <1>4 DEF AreOf
<1>6. QED
  BY <1>1, <1>2, <1>3, <1>4, <1>5, SeqEqual

LEMMA PublishedFields ==
  ASSUME CompilationInv, NEW r \in Request, At(r, "find") \/ At(r, "insert"),
         NEW asset \in Request, Published(r, asset), Grows,
         Key(r, PageNumber(r)) \in DOMAIN row', row'[Key(r, PageNumber(r))].asset = asset,
         PageNumber(r) = Manifest /\ PagesAreDetermined =>
           row'[Key(r, Manifest)].bytes = request[r].pages
  PROVE  /\ request' \in [Request -> RequestState]
         /\ \A q \in Request \ {r} : request'[q] = request[q]
         /\ request'[r].pc \in {"find", "answer"} /\ Progress(r)'
<1> DEFINE pages == request[r].pages
           answer == [Fresh EXCEPT !.pc = "answer", !.pages = pages]
           next == [request[r] EXCEPT !.pc = "find", !.step = request[r].step + 1,
                                      !.pages = Append(pages, asset)]
<1>1. /\ StateInv /\ request[r] \in RequestState /\ pages \in Seq(Request) /\ request[r].step \in Nat
      /\ Len(pages) = request[r].step - 1 /\ AreOf(pages, Source[r]) /\ Class[r] = "compile"
  BY PublishingFields DEF RequestState
<1>2. CASE PageNumber(r) = Manifest
  <2>1. request' = [request EXCEPT ![r] = answer]
    BY <1>2 DEF Published
  <2>2. answer \in RequestState /\ answer.pc = "answer" /\ answer.pages = pages
    BY <1>1, FreshFields DEF RequestState, Label, Fresh
  <2>3. /\ request' \in [Request -> RequestState] /\ request'[r] = answer
        /\ \A q \in Request \ {r} : request'[q] = request[q]
    BY <1>1, <2>1, <2>2, MoveFields
  <2>4. Progress(r)'
    BY <1>2, <2>2, <2>3 DEF Progress, At, Key, Manifest
  <2>5. QED
    BY <2>2, <2>3, <2>4
<1>3. CASE PageNumber(r) # Manifest
  <2>1. request' = [request EXCEPT ![r] = next]
    BY <1>3 DEF Published
  <2>2. /\ Append(pages, asset) \in Seq(Request) /\ Len(Append(pages, asset)) = request[r].step
        /\ DOMAIN Append(pages, asset) = 1..request[r].step
        /\ Append(pages, asset)[request[r].step] = asset
        /\ \A i \in 1..(request[r].step - 1) : Append(pages, asset)[i] = pages[i] /\ i \in DOMAIN pages
    BY <1>1, AppendFields
  <2>3. request[r].step + 1 \in Nat
    BY <1>1
  <2>4. /\ next \in RequestState /\ next.pc = "find" /\ next.step = request[r].step + 1
        /\ next.pages = Append(pages, asset) /\ next.output = request[r].output
    BY <1>1, <2>2, <2>3 DEF RequestState, Label, Compiling
  <2>5. /\ request' \in [Request -> RequestState] /\ request'[r] = next
        /\ \A q \in Request \ {r} : request'[q] = request[q]
    BY <1>1, <2>1, <2>4, MoveFields
  <2>6. /\ request[r].output \in Outputs[Source[r]] /\ Len(request[r].output) \in Nat
        /\ request[r].step \in 1..Len(request[r].output)
        /\ PageNumber(r) = request[r].step
    BY <1>3, PublishingFields DEF PageNumber
  <2>7. \A i \in DOMAIN next.pages : <<Source[r], i>> \in DOMAIN row' /\ row'[<<Source[r], i>>].asset = next.pages[i]
    <3> SUFFICES ASSUME NEW i \in 1..request[r].step
                 PROVE  <<Source[r], i>> \in DOMAIN row' /\ row'[<<Source[r], i>>].asset = Append(pages, asset)[i]
      BY <2>2, <2>4
    <3>1. CASE i = request[r].step
      BY <2>2, <2>6, <3>1 DEF Key
    <3>2. CASE i # request[r].step
      <4>1. i \in 1..(request[r].step - 1)
        BY <1>1, <3>2
      <4>2. QED
        BY <1>1, <2>2, <4>1 DEF AreOf, Grows
    <3>3. QED
      BY <3>1, <3>2
  <2>8. /\ next.step \in 1..(Len(next.output) + 1) /\ Len(next.pages) = next.step - 1
        /\ next.output \in Outputs[Source[r]]
    BY <2>2, <2>4, <2>6
  <2>9. Progress(r)'
    BY <2>4, <2>5, <2>7, <2>8 DEF Progress, At, AreOf
  <2>10. QED
    BY <2>4, <2>5, <2>9
<1>4. QED
  BY <1>2, <1>3

LEMMA FindStep ==
  ASSUME CompilationInv, NEW r \in Request, FindDerived(r)
  PROVE  CompilationInv'
<1> DEFINE key == Key(r, PageNumber(r))
<1>1. /\ StateInv /\ r \in Holding /\ Class[r] = "compile" /\ request[r].pc = "find"
      /\ UNCHANGED <<kept, row>> /\ Grows
      /\ child' \in [Request -> {"none", "running", "killed"}] /\ child'[r] = "none"
      /\ \A q \in Request : child'[q] = child[q]
  BY PublishingFields DEF FindDerived, At, StateInv, Grows
<1>2. CASE key \in DOMAIN row /\ Published(r, row[key].asset)
  <2>1. row[key].asset \in Request
    BY <1>1, <1>2 DEF StateInv
  <2>2. PageNumber(r) = Manifest /\ PagesAreDetermined =>
          row'[Key(r, Manifest)].bytes = request[r].pages
    BY <1>1, <1>2, OneManifest DEF FindDerived
  <2>3. /\ request' \in [Request -> RequestState]
        /\ \A q \in Request \ {r} : request'[q] = request[q]
        /\ request'[r].pc \in {"find", "answer"} /\ Progress(r)'
    BY <1>1, <1>2, <2>1, <2>2, PublishedFields DEF FindDerived
  <2>4. QED
    BY <1>1, <2>3, RowlessStep DEF Compiling
<1>3. CASE Goto(r, "insert")
  <2>1. /\ request' \in [Request -> RequestState] /\ request'[r].pc = "insert"
        /\ request'[r].step = request[r].step /\ request'[r].output = request[r].output
        /\ request'[r].pages = request[r].pages
        /\ \A q \in Request \ {r} : request'[q] = request[q]
    BY <1>1, <1>3, GotoFields DEF Label, Compiling
  <2>2. AreOf(request[r].pages, Source[r])'
    <3>1. AreOf(request[r].pages, Source[r])
      BY <1>1, PublishingFields DEF FindDerived
    <3>2. QED
      BY <1>1, <2>1, <3>1 DEF AreOf
  <2>3. Progress(r)'
    BY <1>1, <2>1, <2>2, PublishingFields DEF Progress, At, FindDerived, AreOf
  <2>4. QED
    BY <1>1, <2>1, <2>3, RowlessStep DEF Compiling
<1>4. QED
  BY <1>2, <1>3 DEF FindDerived, ReadyDerived

LEMMA InsertStep ==
  ASSUME CompilationInv, NEW r \in Request, InsertDerived(r)
  PROVE  CompilationInv'
<1> DEFINE key == Key(r, PageNumber(r))
<1>1. /\ StateInv /\ r \in Holding /\ Class[r] = "compile" /\ request[r].pc = "insert"
      /\ At(r, "insert") /\ UNCHANGED kept
      /\ child' \in [Request -> {"none", "running", "killed"}] /\ child'[r] = "none"
      /\ \A q \in Request : child'[q] = child[q]
  BY PublishingFields DEF InsertDerived, At, StateInv
<1>2. CASE Fails(r) /\ UNCHANGED row
  BY <1>1, <1>2, FailsStep
<1>3. PageNumber(r) = Manifest => BytesOf(r) = request[r].pages
  BY DEF BytesOf
<1>4. CASE /\ key \in DOMAIN row /\ row[key].bytes = BytesOf(r)
           /\ Published(r, row[key].asset) /\ UNCHANGED row
  <2>1. row[key].asset \in Request /\ Grows
    BY <1>1, <1>4 DEF StateInv, Grows
  <2>2. /\ request' \in [Request -> RequestState]
        /\ \A q \in Request \ {r} : request'[q] = request[q]
        /\ request'[r].pc \in {"find", "answer"} /\ Progress(r)'
    BY <1>1, <1>3, <1>4, <2>1, PublishedFields
  <2>3. QED
    BY <1>1, <1>4, <2>2, RowlessStep DEF Compiling
<1>5. CASE /\ key \notin DOMAIN row /\ Published(r, r)
           /\ row' = [k \in DOMAIN row \cup {key} |->
                        IF k = key THEN [asset |-> r, bytes |-> BytesOf(r)] ELSE row[k]]
  <2>1. /\ DOMAIN row' = DOMAIN row \cup {key} /\ Grows
        /\ row'[key].asset = r /\ row'[key].bytes = BytesOf(r)
    BY <1>5 DEF Grows
  <2>2. key \in Documents \X Nat
    BY <1>1, PublishingFields, SourceFields
  <2>3. \A k \in DOMAIN row' : k \in Documents \X Nat /\ row'[k].asset \in Request
    BY <1>1, <2>1, <2>2 DEF StateInv, Grows
  <2>4. /\ request' \in [Request -> RequestState]
        /\ \A q \in Request \ {r} : request'[q] = request[q]
        /\ request'[r].pc \in {"find", "answer"} /\ Progress(r)'
    BY <1>1, <1>3, <1>5, <2>1, PublishedFields
  <2>5. ManifestInv'
    <3> SUFFICES ASSUME NEW s \in Documents, <<s, Manifest>> \in DOMAIN row'
                 PROVE  WholeManifest(s)'
      BY DEF ManifestInv, Manifest
    <3>1. CASE <<s, Manifest>> \in DOMAIN row
      <4> PICK pages : pages = row[<<s, Manifest>>].bytes
        OBVIOUS
      <4>1. /\ row'[<<s, Manifest>>].bytes = pages /\ pages \in Seq(Request) /\ AreOf(pages, s)
            /\ \E output \in Outputs[s] : Len(output) = Len(pages)
        BY <2>1, <3>1 DEF CompilationInv, ManifestInv, WholeManifest, Grows
      <4>2. AreOf(pages, s)'
        BY <2>1, <4>1, PagesStay
      <4>3. QED
        BY <4>1, <4>2 DEF WholeManifest, AreOf, Manifest
    <3>2. CASE <<s, Manifest>> \notin DOMAIN row
      <4>1. <<s, Manifest>> = key
        BY <2>1, <3>2
      <4>2. s = Source[r] /\ PageNumber(r) = Manifest
        BY <4>1 DEF Key
      <4> PICK pages : pages = request[r].pages
        OBVIOUS
      <4>3. /\ pages \in Seq(Request) /\ AreOf(pages, s) /\ request[r].output \in Outputs[s]
            /\ Len(pages) = request[r].step - 1 /\ request[r].step = Len(request[r].output) + 1
            /\ Len(request[r].output) \in Nat
        BY <1>1, <4>2, PublishingFields
      <4>4. Len(request[r].output) = Len(pages)
        BY <4>3
      <4>5. AreOf(pages, s)' /\ row'[<<s, Manifest>>].bytes = pages
        BY <1>3, <2>1, <4>1, <4>2, <4>3, PagesStay
      <4>6. QED
        BY <4>3, <4>4, <4>5 DEF WholeManifest, AreOf, Manifest
    <3>3. QED
      BY <3>1, <3>2
  <2>6. QED
    BY <1>1, <2>1, <2>3, <2>4, <2>5, HandlerStep DEF Compiling
<1>6. QED
  BY <1>2, <1>4, <1>5 DEF InsertDerived

-----------------------------------------------------------------------------
(***************************************************************************)
(* Buckets.                                                                *)
(***************************************************************************)

\* #bucket: the map has a bucket for the key, and no new one besides.
LEMMA WithBucketFields ==
  ASSUME now \in Nat, NEW buckets, NEW k, NEW capacity \in Nat, Buckets(buckets, capacity),
         NEW mine \in WithBucket(buckets, k, capacity)
  PROVE  /\ k \in DOMAIN mine /\ DOMAIN mine \subseteq DOMAIN buckets \cup {k}
         /\ Buckets(mine, capacity)
         /\ k \in DOMAIN buckets => mine = buckets
         /\ k \notin DOMAIN buckets => mine[k] = [tokens |-> capacity, updated |-> now, seen |-> now]
<1>1. CASE k \in DOMAIN buckets
  BY <1>1 DEF WithBucket
<1>2. CASE k \notin DOMAIN buckets
  <2> DEFINE full == [tokens |-> capacity, updated |-> now, seen |-> now]
  <2>1. PICK rest \in SUBSET DOMAIN buckets :
          mine = [key \in rest \cup {k} |-> IF key \in rest THEN buckets[key] ELSE full]
    BY <1>2, Zenon DEF WithBucket
  <2>2. /\ DOMAIN mine = rest \cup {k} /\ mine[k] = full
        /\ \A key \in rest : mine[key] = buckets[key]
    BY <1>2, <2>1
  <2>3. /\ full \in Bucket /\ full.tokens = capacity /\ full.updated = now /\ full.seen = now
    BY DEF Bucket
  <2>4. Buckets(mine, capacity)
    BY <2>1, <2>2, <2>3 DEF Buckets
  <2>5. QED
    BY <1>2, <2>1, <2>2, <2>4
<1>3. QED
  BY <1>1, <1>2

LEMMA Distributes ==
  ASSUME NEW a \in Nat, NEW b \in Nat, NEW rate \in Nat, b <= a
  PROVE  (a - b) * rate = rate * a - rate * b /\ (a - b) * rate \in Nat
         /\ rate * a \in Nat /\ rate * b \in Nat
  OBVIOUS

\* #refill: what a bucket has at most gained is what came in meanwhile.
LEMMA RefilledFields ==
  ASSUME now \in Nat, NEW bucket \in Bucket, bucket.updated <= now,
         NEW capacity \in Nat, NEW rate \in Nat
  PROVE  /\ Refilled(bucket, capacity, rate) \in Bucket
         /\ Refilled(bucket, capacity, rate).tokens <= capacity
         /\ Refilled(bucket, capacity, rate).updated = now
         /\ Refilled(bucket, capacity, rate).seen = now
         /\ Refilled(bucket, capacity, rate).tokens + rate * bucket.updated
              <= bucket.tokens + rate * now
<1> DEFINE gain == (now - bucket.updated) * rate
           full == bucket.tokens + gain
           tokens == IF full < capacity THEN full ELSE capacity
<1>1. bucket.tokens \in Nat /\ bucket.updated \in Nat
  BY DEF Bucket
<1>2. gain = rate * now - rate * bucket.updated /\ gain \in Nat
      /\ rate * now \in Nat /\ rate * bucket.updated \in Nat
  BY <1>1, Distributes
<1> HIDE DEF gain
<1>3. full \in Nat /\ tokens \in Nat /\ tokens <= capacity /\ tokens <= full
  BY <1>1, <1>2
<1>4. Refilled(bucket, capacity, rate) = [tokens |-> tokens, updated |-> now, seen |-> now]
  BY DEF Refilled, gain
<1> HIDE DEF tokens
<1>5. tokens + rate * bucket.updated <= bucket.tokens + rate * now
  BY <1>1, <1>2, <1>3
<1>6. QED
  BY <1>3, <1>4, <1>5 DEF Bucket

LEMMA ChargedFields ==
  ASSUME NEW bucket \in Bucket, NEW cost \in Nat, bucket.tokens >= cost
  PROVE  /\ [bucket EXCEPT !.tokens = @ - cost] \in Bucket
         /\ [bucket EXCEPT !.tokens = @ - cost].tokens = bucket.tokens - cost
         /\ [bucket EXCEPT !.tokens = @ - cost].updated = bucket.updated
         /\ [bucket EXCEPT !.tokens = @ - cost].seen = bucket.seen
  BY DEF Bucket

\* What acquire does to one map of buckets: one is looked up, refilled, and paid
\* from or not.
LEMMA PaidFields ==
  ASSUME now \in Nat, NEW buckets, NEW k, NEW capacity \in Nat, NEW rate \in Nat, NEW cost \in Nat,
         Buckets(buckets, capacity), NEW mine \in WithBucket(buckets, k, capacity), NEW paid,
         \/ paid = Refilled(mine[k], capacity, rate)
         \/ /\ Refilled(mine[k], capacity, rate).tokens >= cost
            /\ paid = [Refilled(mine[k], capacity, rate) EXCEPT !.tokens = @ - cost]
  PROVE  /\ Buckets([mine EXCEPT ![k] = paid], capacity)
         /\ k \in DOMAIN mine /\ DOMAIN mine \subseteq DOMAIN buckets \cup {k}
         /\ [mine EXCEPT ![k] = paid][k] = paid /\ DOMAIN [mine EXCEPT ![k] = paid] = DOMAIN mine
         /\ paid \in Bucket /\ paid.updated = now
<1> DEFINE full == Refilled(mine[k], capacity, rate)
<1>1. k \in DOMAIN mine /\ DOMAIN mine \subseteq DOMAIN buckets \cup {k} /\ Buckets(mine, capacity)
  BY WithBucketFields
<1>2. mine[k] \in Bucket /\ mine[k].updated <= now
  BY <1>1 DEF Buckets
<1>3. /\ full \in Bucket /\ full.tokens <= capacity /\ full.updated = now /\ full.seen = now
      /\ full.tokens \in Nat
  <2>1. full \in Bucket /\ full.tokens <= capacity /\ full.updated = now /\ full.seen = now
    BY <1>2, RefilledFields
  <2>2. QED
    BY <2>1 DEF Bucket
<1> HIDE DEF full
<1>4. /\ paid \in Bucket /\ paid.tokens <= capacity /\ paid.updated = now /\ paid.seen = now
  <2>1. CASE paid = full
    BY <1>3, <2>1
  <2>2. CASE full.tokens >= cost /\ paid = [full EXCEPT !.tokens = @ - cost]
    <3>1. paid \in Bucket /\ paid.tokens = full.tokens - cost /\ paid.updated = now /\ paid.seen = now
      BY <1>3, <2>2, ChargedFields
    <3>2. QED
      BY <1>3, <3>1
  <2>3. QED
    BY <2>1, <2>2 DEF full
<1>5. Buckets([mine EXCEPT ![k] = paid], capacity)
  BY <1>1, <1>4 DEF Buckets
<1>6. QED
  BY <1>1, <1>4, <1>5

\* Whatever a request does to the network bucket, what was spent and what is left
\* came in.
LEMMA NetworkFields ==
  ASSUME now \in Nat, spent \in Nat, Buckets(networks, NetworkCapacity), BudgetInv,
         NEW theirs \in WithBucket(networks, Network, NetworkCapacity)
  PROVE  spent + Refilled(theirs[Network], NetworkCapacity, NetworkRate).tokens
           <= NetworkCapacity + NetworkRate * now
<1> DEFINE old == theirs[Network]
           full == Refilled(old, NetworkCapacity, NetworkRate)
<1>1. /\ Network \in DOMAIN theirs /\ Buckets(theirs, NetworkCapacity)
      /\ Network \in DOMAIN networks => theirs = networks
      /\ Network \notin DOMAIN networks => old = [tokens |-> NetworkCapacity, updated |-> now, seen |-> now]
  BY Numbers, WithBucketFields
<1>2. old \in Bucket /\ old.updated <= now /\ old.updated \in Nat /\ old.tokens \in Nat
  BY <1>1 DEF Buckets, Bucket
<1>3. /\ full.tokens + NetworkRate * old.updated <= old.tokens + NetworkRate * now
      /\ full.tokens <= NetworkCapacity /\ full.tokens \in Nat
  <2>1. /\ full \in Bucket /\ full.tokens <= NetworkCapacity
        /\ full.tokens + NetworkRate * old.updated <= old.tokens + NetworkRate * now
    BY <1>2, Numbers, RefilledFields
  <2>2. QED
    BY <2>1 DEF Bucket
<1>4. NetworkRate * old.updated \in Nat /\ NetworkRate * now \in Nat
  BY <1>2, Numbers, Distributes
<1> HIDE DEF full
<1>5. CASE Network \in DOMAIN networks
  <2>1. spent + old.tokens <= NetworkCapacity + NetworkRate * old.updated
    BY <1>1, <1>5 DEF BudgetInv
  <2>2. QED
    BY <1>2, <1>3, <1>4, <2>1, Numbers DEF full
<1>6. CASE Network \notin DOMAIN networks
  <2>1. spent = 0
    BY <1>6 DEF BudgetInv
  <2>2. spent + full.tokens <= NetworkCapacity + NetworkRate * now
    BY <1>3, <1>4, <2>1, Numbers
  <2>3. QED
    BY <2>2 DEF full
<1>7. QED
  BY <1>5, <1>6

\* Both pay or neither does.
LEMMA AcquireFields ==
  ASSUME CompilationInv, NEW r \in Request, Acquire(r)
  PROVE  /\ request[r].pc = "new" /\ UNCHANGED <<now, child, row>>
         /\ Buckets(clients, Capacity)' /\ Buckets(networks, NetworkCapacity)' /\ BudgetInv'
         /\ \/ /\ Goto(r, "handle") /\ active' = active + 1 /\ spent' \in Nat
               /\ Class[r] = "compile" => /\ compiles < MaximumConcurrentCompiles
                                          /\ compiles' = compiles + 1
               /\ Class[r] # "compile" => compiles' = compiles
            \/ Goto(r, "refused") /\ UNCHANGED <<active, compiles, spent>>
<1> DEFINE cost == Cost[Class[r]]
           mineFull(mine) == Refilled(mine[Client[r]], Capacity, Rate)
           theirsFull(theirs) == Refilled(theirs[Network], NetworkCapacity, NetworkRate)
           pays(mine, theirs) == mineFull(mine).tokens >= cost /\ theirsFull(theirs).tokens >= cost
<1>1. /\ now \in Nat /\ spent \in Nat /\ cost \in Nat /\ NetworkRate * now \in Nat
      /\ Buckets(clients, Capacity) /\ Buckets(networks, NetworkCapacity) /\ BudgetInv
  <2>1. now \in Nat
    BY Numbers DEF CompilationInv, StateInv
  <2>2. QED
    BY <2>1, Numbers, Distributes, CostsAreNumbers DEF CompilationInv, StateInv
<1> PICK mine \in WithBucket(clients, Client[r], Capacity),
         theirs \in WithBucket(networks, Network, NetworkCapacity) :
       IF pays(mine, theirs)
       THEN /\ clients' = [mine EXCEPT ![Client[r]] = [mineFull(mine) EXCEPT !.tokens = @ - cost]]
            /\ networks' = [theirs EXCEPT ![Network] = [theirsFull(theirs) EXCEPT !.tokens = @ - cost]]
            /\ active' = active + 1 /\ spent' = spent + cost
            /\ compiles' = IF Class[r] = "compile" THEN compiles + 1 ELSE compiles
            /\ Goto(r, "handle")
       ELSE /\ clients' = [mine EXCEPT ![Client[r]] = mineFull(mine)]
            /\ networks' = [theirs EXCEPT ![Network] = theirsFull(theirs)]
            /\ Goto(r, "refused") /\ UNCHANGED <<active, compiles, spent>>
  BY DEF Acquire
<1>2. /\ request[r].pc = "new" /\ UNCHANGED <<now, child, row>>
      /\ Class[r] = "compile" => compiles < MaximumConcurrentCompiles
  BY DEF Acquire, At
<1> DEFINE b == theirsFull(theirs)
<1>3. b \in Bucket /\ b.tokens \in Nat /\ b.updated = now /\ spent + b.tokens <= NetworkCapacity + NetworkRate * now
  <2>1. theirs[Network] \in Bucket /\ theirs[Network].updated <= now
    <3>1. Network \in DOMAIN theirs /\ Buckets(theirs, NetworkCapacity)
      BY <1>1, Numbers, WithBucketFields
    <3>2. QED
      BY <3>1 DEF Buckets
  <2>2. b \in Bucket /\ b.updated = now
    BY <1>1, <2>1, Numbers, RefilledFields
  <2>3. QED
    BY <1>1, <2>2, NetworkFields DEF Bucket
<1>4. ASSUME NEW a, NEW p, clients' = [mine EXCEPT ![Client[r]] = a],
             networks' = [theirs EXCEPT ![Network] = p],
             \/ a = mineFull(mine) /\ p = b /\ spent' = spent
             \/ /\ mineFull(mine).tokens >= cost /\ b.tokens >= cost
                /\ a = [mineFull(mine) EXCEPT !.tokens = @ - cost]
                /\ p = [b EXCEPT !.tokens = @ - cost]
                /\ spent' = spent + cost
      PROVE  /\ Buckets(clients, Capacity)' /\ Buckets(networks, NetworkCapacity)' /\ BudgetInv'
             /\ spent' \in Nat
  <2>1. Buckets([mine EXCEPT ![Client[r]] = a], Capacity)
    <3> PICK me : me = Client[r]
      OBVIOUS
    <3>1. \/ a = Refilled(mine[me], Capacity, Rate)
          \/ /\ Refilled(mine[me], Capacity, Rate).tokens >= cost
             /\ a = [Refilled(mine[me], Capacity, Rate) EXCEPT !.tokens = @ - cost]
      BY <1>4
    <3>2. mine \in WithBucket(clients, me, Capacity)
      OBVIOUS
    <3> HIDE DEF cost
    <3>3. /\ now \in Nat /\ cost \in Nat /\ Capacity \in Nat /\ Rate \in Nat
          /\ Buckets(clients, Capacity)
      BY <1>1, Numbers
    <3>4. Buckets([mine EXCEPT ![me] = a], Capacity)
      BY <3>1, <3>2, <3>3, PaidFields
    <3>5. QED
      BY <3>4
  <2>2. /\ Buckets([theirs EXCEPT ![Network] = p], NetworkCapacity)
        /\ DOMAIN theirs \subseteq DOMAIN networks \cup {Network} /\ Network \in DOMAIN theirs
        /\ [theirs EXCEPT ![Network] = p][Network] = p
        /\ DOMAIN [theirs EXCEPT ![Network] = p] = DOMAIN theirs
        /\ p.updated = now
    <3>1. \/ p = Refilled(theirs[Network], NetworkCapacity, NetworkRate)
          \/ /\ Refilled(theirs[Network], NetworkCapacity, NetworkRate).tokens >= cost
             /\ p = [Refilled(theirs[Network], NetworkCapacity, NetworkRate) EXCEPT !.tokens = @ - cost]
      BY <1>4
    <3>2. theirs \in WithBucket(networks, Network, NetworkCapacity)
      OBVIOUS
    <3> HIDE DEF cost
    <3>3. /\ now \in Nat /\ cost \in Nat /\ NetworkCapacity \in Nat /\ NetworkRate \in Nat
          /\ Buckets(networks, NetworkCapacity)
      BY <1>1, Numbers
    <3>4. QED
      BY <3>1, <3>2, <3>3, PaidFields
  <2>3. Buckets(clients, Capacity)' /\ Buckets(networks, NetworkCapacity)'
    BY <1>2, <1>4, <2>1, <2>2 DEF Buckets
  <2>4. spent' + p.tokens <= NetworkCapacity + NetworkRate * now /\ spent' \in Nat
    <3>1. CASE p = b /\ spent' = spent
      BY <1>1, <1>3, <3>1
    <3>2. CASE b.tokens >= cost /\ p = [b EXCEPT !.tokens = @ - cost] /\ spent' = spent + cost
      <4>1. p.tokens = b.tokens - cost
        BY <1>1, <1>3, <3>2, ChargedFields
      <4>2. spent' + p.tokens = spent + b.tokens
        BY <1>1, <1>3, <3>2, <4>1
      <4>3. QED
        BY <1>1, <1>3, <3>2, <4>2
    <3>3. QED
      BY <1>4, <3>1, <3>2
  <2>5. DOMAIN networks' = {Network} /\ networks'[Network] = p
    BY <1>1, <1>4, <2>2 DEF BudgetInv
  <2>6. BudgetInv'
    BY <1>2, <2>2, <2>4, <2>5 DEF BudgetInv
  <2>7. QED
    BY <2>3, <2>4, <2>6
<1>5. CASE pays(mine, theirs)
  BY <1>2, <1>4, <1>5
<1>6. CASE ~pays(mine, theirs)
  BY <1>2, <1>4, <1>6
<1>7. QED
  BY <1>5, <1>6

LEMMA AcquireStep ==
  ASSUME CompilationInv, NEW r \in Request, Acquire(r)
  PROVE  CompilationInv'
<1>1. StateInv /\ CountInv /\ ManifestInv /\ ProgressInv
  BY DEF CompilationInv
<1>2. /\ request[r].pc = "new" /\ UNCHANGED <<now, child, row>>
      /\ Buckets(clients, Capacity)' /\ Buckets(networks, NetworkCapacity)' /\ BudgetInv'
  BY AcquireFields
<1>3. child[r] = "none" /\ r \notin Holding
  BY <1>1, <1>2 DEF CountInv, At, StateInv, Holding
<1>4. ManifestInv' /\ Grows
  BY <1>1, <1>2 DEF ManifestInv, WholeManifest, AreOf, Grows
<1>5. ASSUME NEW label \in {"handle", "refused"}, Goto(r, label)
      PROVE  /\ request' \in [Request -> RequestState] /\ request'[r].pc = label
             /\ \A q \in Request \ {r} : request'[q] = request[q]
             /\ ProgressInv'
  <2>1. /\ request' \in [Request -> RequestState] /\ request'[r].pc = label
        /\ \A q \in Request \ {r} : request'[q] = request[q]
    BY <1>1, <1>5, GotoFields DEF Label
  <2>2. Progress(r)'
    <3>1. request[r] = [Fresh EXCEPT !.pc = request[r].pc]
      BY <1>1, <1>2 DEF ProgressInv, Progress, At
    <3>2. request'[r] = [Fresh EXCEPT !.pc = label]
      BY <1>1, <1>5, <3>1 DEF Goto, StateInv, Fresh
    <3>3. QED
      BY <2>1, <3>2 DEF Progress, At, Fresh
  <2>3. QED
    BY <1>1, <1>4, <2>1, <2>2, ProgressStays DEF ProgressInv
<1>6. CASE /\ Goto(r, "handle") /\ active' = active + 1 /\ spent' \in Nat
           /\ (Class[r] = "compile" => /\ compiles < MaximumConcurrentCompiles
                                       /\ compiles' = compiles + 1)
           /\ (Class[r] # "compile" => compiles' = compiles)
  <2>1. /\ request' \in [Request -> RequestState] /\ request'[r].pc = "handle"
        /\ \A q \in Request \ {r} : request'[q] = request[q]
        /\ ProgressInv'
    BY <1>5, <1>6
  <2>2. Holding' = Holding \cup {r}
    BY <1>2, <2>1 DEF Holding
  <2>3. active' = Cardinality(Holding')
    BY <1>1, <1>3, <1>6, <2>2, HoldingFields, FS_AddElement DEF CountInv
  <2>4. /\ compiles' = Cardinality({q \in Holding' : Class[q] = "compile"})
        /\ compiles' <= MaximumConcurrentCompiles
    <3> DEFINE mine == {q \in Holding : Class[q] = "compile"}
    <3>1. compiles = Cardinality(mine) /\ IsFiniteSet(mine) /\ compiles \in Nat
          /\ compiles <= MaximumConcurrentCompiles
      BY <1>1, HoldingFields DEF CountInv
    <3>2. CASE Class[r] = "compile"
      <4>1. {q \in Holding' : Class[q] = "compile"} = mine \cup {r} /\ r \notin mine
        BY <1>3, <2>2, <3>2
      <4>2. Cardinality(mine \cup {r}) = Cardinality(mine) + 1
        BY <3>1, <4>1, FS_AddElement
      <4>3. compiles' = compiles + 1 /\ compiles < MaximumConcurrentCompiles
        BY <1>6, <3>2
      <4>4. compiles' <= MaximumConcurrentCompiles
        BY <3>1, <4>3, Numbers
      <4>5. QED
        BY <3>1, <4>1, <4>2, <4>3, <4>4
    <3>3. CASE Class[r] # "compile"
      <4>1. {q \in Holding' : Class[q] = "compile"} = mine
        BY <2>2, <3>3
      <4>2. QED
        BY <1>6, <3>1, <3>3, <4>1
    <3>4. QED
      BY <3>2, <3>3
  <2>5. \A q \in Request : (child'[q] # "none" => request'[q].pc = "run")
                           /\ (request'[q].pc \in Compiling => Class[q] = "compile")
    BY <1>1, <1>2, <1>3, <2>1 DEF CountInv, Compiling, At
  <2>6. CountInv'
    BY <2>3, <2>4, <2>5 DEF CountInv, At
  <2>7. StateInv'
    BY <1>1, <1>2, <1>6, <2>1 DEF StateInv
  <2>8. QED
    BY <1>2, <1>4, <2>1, <2>6, <2>7 DEF CompilationInv
<1>7. CASE Goto(r, "refused") /\ UNCHANGED <<active, compiles, spent>>
  <2>1. /\ request' \in [Request -> RequestState] /\ request'[r].pc = "refused"
        /\ \A q \in Request \ {r} : request'[q] = request[q]
        /\ ProgressInv'
    BY <1>5, <1>7
  <2>2. Holding' = Holding
    BY <1>2, <2>1 DEF Holding
  <2>3. CountInv' /\ StateInv'
    BY <1>1, <1>2, <1>3, <1>7, <2>1, <2>2 DEF CountInv, Compiling, At, StateInv
  <2>4. QED
    BY <1>2, <1>4, <2>1, <2>3 DEF CompilationInv
<1>8. QED
  BY <1>6, <1>7, AcquireFields

LEMMA CompilationStep ==
  ASSUME CompilationInv, [Next]_vars
  PROVE  CompilationInv'
<1>1. CASE UNCHANGED vars
  <2>1. UNCHANGED <<now, clients, networks, active, compiles, spent, request, child, row>>
    BY <1>1 DEF vars, admission
  <2>2. StateInv' /\ CountInv' /\ BudgetInv' /\ ManifestInv'
        /\ Buckets(clients, Capacity)' /\ Buckets(networks, NetworkCapacity)'
    BY <2>1 DEF CompilationInv, StateInv, CountInv, BudgetInv, ManifestInv, WholeManifest, Holding, At,
                AreOf, Buckets
  <2>3. ProgressInv'
    BY <2>1, ProgressStays DEF CompilationInv, ProgressInv, Grows
  <2>4. QED
    BY <2>2, <2>3 DEF CompilationInv
<1>2. CASE Tick
  BY <1>2, TickStep
<1>3. ASSUME NEW r \in Request, RefuseAtCapacity(r) \/ Acquire(r) \/ Close(r)
      PROVE  CompilationInv'
  BY <1>3, RefuseStep, AcquireStep, CloseStep
<1>4. ASSUME NEW r \in Request, Handle(r)
      PROVE  CompilationInv'
  BY <1>4, OtherStep, LookUpStep, ReadManifestStep, SpawnKillStep, FindStep, InsertStep, ReleaseStep
     DEF Handle
<1>5. QED
  BY <1>1, <1>2, <1>3, <1>4 DEF Next

LEMMA CompilationAlways == Spec => []CompilationInv
  BY InitCompilation, CompilationStep, PTL DEF Spec

-----------------------------------------------------------------------------
\* The types of what admission and the compiler keep.
THEOREM TypesAlways == Spec => []TypeOK
<1>1. CompilationInv => TypeOK
  <2> SUFFICES ASSUME CompilationInv
               PROVE  TypeOK
    OBVIOUS
  <2>1. /\ now \in 0..MaxTime /\ spent \in Nat /\ child \in [Request -> {"none", "running", "killed"}]
        /\ DOMAIN row \subseteq Documents \X Nat /\ active \in Nat /\ compiles \in Nat
    BY HoldingFields DEF CompilationInv, StateInv, CountInv
  <2>2. \A r \in Request : request[r].pc \in Label /\ request[r].step \in Nat
    BY DEF CompilationInv, StateInv, RequestState
  <2>3. \A buckets \in {clients, networks} : \A k \in DOMAIN buckets :
          /\ buckets[k].tokens \in 0..(Capacity + NetworkCapacity)
          /\ {buckets[k].updated, buckets[k].seen} \subseteq 0..now
    <3>1. ASSUME NEW buckets, NEW capacity \in {Capacity, NetworkCapacity}, Buckets(buckets, capacity),
                 NEW k \in DOMAIN buckets
          PROVE  /\ buckets[k].tokens \in 0..(Capacity + NetworkCapacity)
                 /\ {buckets[k].updated, buckets[k].seen} \subseteq 0..now
      <4>1. /\ buckets[k] \in Bucket /\ buckets[k].tokens <= capacity
            /\ buckets[k].updated <= now /\ buckets[k].seen <= now
        BY <3>1 DEF Buckets
      <4>2. QED
        BY <2>1, <3>1, <4>1, Numbers DEF Bucket
    <3>2. QED
      BY <3>1 DEF CompilationInv
  <2>4. QED
    BY <2>1, <2>2, <2>3 DEF TypeOK, Label, Compiling
<1>2. QED
  BY <1>1, CompilationAlways, PTL

\* No more programs run than the limit allows, the counters are those of the
\* requests under way, and a network spends no more than its bucket and what
\* was refilled (RequestAdmission, runBoundedProcess), whatever requests,
\* sessions and evictions there are.
THEOREM AdmissionAlwaysBounded == Spec => []AdmissionIsBounded
<1>1. CompilationInv => AdmissionIsBounded
  <2> SUFFICES ASSUME CompilationInv
               PROVE  AdmissionIsBounded
    OBVIOUS
  <2>1. CompilersAreBounded
    <3> DEFINE programs == {r \in Request : child[r] # "none"}
               mine == {r \in Holding : Class[r] = "compile"}
    <3>1. \A r \in programs : r \in Holding /\ Class[r] = "compile"
      BY DEF CompilationInv, CountInv, At, Holding, Compiling
    <3>2. programs \subseteq mine /\ IsFiniteSet(mine)
      BY <3>1, HoldingFields
    <3>3. Cardinality(programs) <= Cardinality(mine) /\ Cardinality(programs) \in Nat
      BY <3>2, FS_Subset, FS_CardinalityType
    <3>4. Cardinality(mine) = compiles /\ compiles <= MaximumConcurrentCompiles /\ Cardinality(mine) \in Nat
      BY HoldingFields DEF CompilationInv, CountInv
    <3>5. Cardinality(programs) <= MaximumConcurrentCompiles
      BY <3>3, <3>4, Numbers
    <3>6. QED
      BY <3>1, <3>5 DEF CompilersAreBounded, CompilationInv, CountInv
  <2>2. WithinBudget
    <3>1. spent \in Nat /\ now \in Nat /\ NetworkRate * now \in Nat
      <4>1. spent \in Nat /\ now \in Nat
        BY Numbers DEF CompilationInv, StateInv
      <4>2. QED
        BY <4>1, Numbers, Distributes
    <3>2. CASE Network \in DOMAIN networks
      <4> DEFINE b == networks[Network]
      <4>1. /\ b.tokens \in Nat /\ b.updated \in Nat /\ b.updated <= now
            /\ spent + b.tokens <= NetworkCapacity + NetworkRate * b.updated
        BY <3>2 DEF CompilationInv, Buckets, Bucket, BudgetInv
      <4> HIDE DEF b
      <4>2. /\ NetworkRate * b.updated \in Nat
            /\ (now - b.updated) * NetworkRate = NetworkRate * now - NetworkRate * b.updated
            /\ (now - b.updated) * NetworkRate \in Nat
        BY <3>1, <4>1, Numbers, Distributes
      <4>3. spent <= NetworkCapacity + NetworkRate * now
        BY <3>1, <4>1, <4>2, Numbers
      <4>4. QED
        BY <4>3 DEF WithinBudget
    <3>3. CASE Network \notin DOMAIN networks
      <4>1. spent = 0
        BY <3>3 DEF CompilationInv, BudgetInv
      <4>2. QED
        BY <3>1, <4>1, Numbers DEF WithinBudget
    <3>4. QED
      BY <3>2, <3>3
  <2>3. QED
    BY <2>1, <2>2 DEF AdmissionIsBounded
<1>2. QED
  BY <1>1, CompilationAlways, PTL

\* A manifest is there only with every page it names, and whatever compilations
\* of a source overlap, all answers name its pages (LatexCompiler.compile,
\* publishDerived).
THEOREM ArtifactAlwaysWhole == PagesAreDetermined /\ Spec => []ArtifactIsWhole
<1>1. PagesAreDetermined /\ CompilationInv => ArtifactIsWhole
  <2> SUFFICES ASSUME PagesAreDetermined, CompilationInv,
                      NEW s \in Documents, <<s, Manifest>> \in DOMAIN row
               PROVE  LET pages == row[<<s, Manifest>>].bytes IN
                      /\ \A i \in DOMAIN pages : <<s, i>> \in DOMAIN row /\ row[<<s, i>>].asset = pages[i]
                      /\ \A r \in Request : At(r, "answered") /\ Class[r] = "compile" /\ Source[r] = s =>
                           request[r].pages = pages
    BY DEF ArtifactIsWhole
  <2>1. AreOf(row[<<s, Manifest>>].bytes, s)
    BY DEF CompilationInv, ManifestInv, WholeManifest
  <2>2. \A r \in Request : At(r, "answered") /\ Class[r] = "compile" /\ Source[r] = s =>
          request[r].pages = row[<<s, Manifest>>].bytes
    BY DEF CompilationInv, ProgressInv, Progress, Key
  <2>3. QED
    BY <2>1, <2>2 DEF AreOf
<1>2. PagesAreDetermined => []PagesAreDetermined
  OBVIOUS
<1>3. QED
  BY <1>1, <1>2, CompilationAlways, PTL

-----------------------------------------------------------------------------
(***************************************************************************)
(* The session: what its parts are while it is used.                       *)
(***************************************************************************)

\* What waits for the renderer and the editor.
CallBack ==
  [do : {"show", "clear"}]
    \cup [do : {"edit"}, id : Nat, surface : Surface, block : Block \cup {None}]

Opening ==
  [id : Nat, surface : Surface, block : Block \cup {None}, opened : Revision \cup {None}]

\* A session or a save of a block holds the revision it was opened with.
Opened(s) == s.block # None => s.opened \in Revision

CallTypes == calls \in Seq(CallBack)

FetchTypes ==
  \A f \in fetches :
    f.block \in Block /\ f.render \in Nat /\ (f.part # Compile => f.part \in Parts[f.block])

Names(asked) == asked # None /\ asked.opened # None => asked.block \in Block

OpeningTypes ==
  openings \in Seq(Opening \cup {None}) /\ \A i \in DOMAIN openings : Names(openings[i])

EditorTypes == session \in Opening \cup {None} /\ (session # None => Opened(session))

SaveTypes ==
  /\ saves \subseteq [from : Nat, surface : Surface, block : Block \cup {None},
                      opened : Revision \cup {None}, n : 0..MaxEdits, upload : BOOLEAN]
  /\ \A s \in saves : Opened(s)

WriteTypes == writes \subseteq [frame : Nat, block : Block, n : 0..MaxEdits]

StoreTypes ==
  storing \subseteq [by : {"session", "frame"}, from : Nat, n : 0..MaxEdits, block : Block,
                    base : Revision \cup {None}, put : Revision]

SessionTypes ==
  /\ SessionTypeOK /\ CallTypes /\ FetchTypes /\ OpeningTypes /\ EditorTypes
  /\ SaveTypes /\ WriteTypes /\ StoreTypes

\* Each rendering has a number of its own.
Numbered ==
  /\ \A b \in Block : render[b] # None => render[b].id \in 1..renders
  /\ \A b, c \in Block :
       render[b] # None /\ render[c] # None /\ render[b].id = render[c].id => b = c

\* Nothing is rendered or asked of the renderer before it is needed.
Idle ==
  /\ readout = "none" => viewing = None /\ calls = <<>>
  /\ readout = "failed" => calls = <<>>
  /\ readout # "ready" => urls = {} /\ \A b \in Block : render[b] = None

\* The page shows what is wanted, in its version.
Current ==
  \A b \in Block :
    /\ render[b] # None <=> Wanted(b)
    /\ render[b] # None => render[b].revision.version = doc[b].version

\* Behind a callback that clears an open page comes one that shows it; while
\* the page is not current, one of them is to come.
Refreshing ==
  ~gone =>
    /\ viewing # None =>
         \A i \in DOMAIN calls : calls[i].do = "clear" =>
           \E j \in DOMAIN calls : j > i /\ calls[j].do = "show"
    /\ readout # "failed" => Current \/ \E i \in DOMAIN calls : calls[i].do # "edit"

\* A page that is left clears the renderer with its last callback, unless
\* nothing is rendered.
PageLeft ==
  /\ gone /\ calls = <<>> => urls = {} /\ \A b \in Block : render[b] = None
  /\ gone /\ readout # "failed" /\ calls # <<>> => calls[Len(calls)].do = "clear"

\* It destroys the editor behind all it has opened.
EditorLeft ==
  /\ tool # "ready" => session = None
  /\ gone /\ session # None => \E i \in DOMAIN openings : openings[i] = None

State == [frame : Nat, n : 0..MaxEdits]

\* A state is older than what its frame has sent and is still to be stored:
\* the messages in its chain and those that are dispatched.
Older(st, n, chain, dispatched) ==
  /\ st.n <= n
  /\ \A w \in chain : w.frame = st.frame => st.n < w.n
  /\ \A d \in dispatched : d.by = "frame" /\ d.from = st.frame => st.n < d.n

\* A frame stores one message at a time, the oldest of its chain.
Chained ==
  /\ \A w \in writes : w.frame > 0 /\ w.n <= edits
  /\ \A v, w \in writes : v.n = w.n => v = w
  /\ \A d \in storing : d.by = "frame" =>
       /\ d.from > 0 /\ d.n <= edits /\ d.put.state = [frame |-> d.from, n |-> d.n]
       /\ \A w \in writes : w.frame = d.from => d.n < w.n
       /\ \A e \in storing : e.by = "frame" /\ e.from = d.from => e = d

\* The states that may still be stored or shown: the document's, a rendering's,
\* the one an opening, the editor or a save took with its block, and a draft's.
InDoc(st) == \E b \in Block : doc[b] # None /\ doc[b].state = st
InRendering(st) == \E b \in Block : render[b] # None /\ render[b].revision.state = st
Took(s, st) == s # None /\ s.opened # None /\ s.opened.state = st
InOpening(st) == \E i \in DOMAIN openings : Took(openings[i], st)
InEditor(st) == Took(session, st)
InSave(st) == \E s \in saves : s.opened # None /\ s.opened.state = st
InDraft(st) == \E d \in storing : d.by = "session" /\ d.put.state = st

IsHeld(st) ==
  InDoc(st) \/ InRendering(st) \/ InOpening(st) \/ InEditor(st) \/ InSave(st) \/ InDraft(st)

\* Every state that is held is older.
Held == \A st \in State : IsHeld(st) => Older(st, edits, writes, storing)

SessionInv ==
  /\ SessionTypes /\ Numbered /\ UrlsFollowBlocks
  /\ Idle /\ Refreshing /\ PageLeft /\ EditorLeft
  /\ Chained /\ Held

-----------------------------------------------------------------------------
LEMMA SeqFacts ==
  ASSUME NEW S, NEW q \in Seq(S)
  PROVE  /\ Len(q) \in Nat /\ DOMAIN q = 1..Len(q)
         /\ \A i \in DOMAIN q : q[i] \in S
         /\ \A x \in S : /\ Append(q, x) \in Seq(S) /\ Append(q, x) # <<>>
                         /\ Len(Append(q, x)) = Len(q) + 1
                         /\ DOMAIN Append(q, x) = 1..(Len(q) + 1)
                         /\ \A i \in DOMAIN q : Append(q, x)[i] = q[i]
                         /\ Append(q, x)[Len(q) + 1] = x
         /\ q # <<>> => /\ Head(q) = q[1] /\ Head(q) \in S /\ Tail(q) \in Seq(S)
                        /\ Len(q) > 0 /\ Len(Tail(q)) = Len(q) - 1
                        /\ DOMAIN Tail(q) = 1..(Len(q) - 1)
                        /\ \A i \in DOMAIN Tail(q) : i + 1 \in DOMAIN q /\ Tail(q)[i] = q[i + 1]
         /\ q = <<>> <=> Len(q) = 0
<1>1. Len(q) \in Nat /\ DOMAIN q = 1..Len(q) /\ \A i \in DOMAIN q : q[i] \in S
  OBVIOUS
<1>2. ASSUME NEW x \in S
      PROVE  /\ Append(q, x) \in Seq(S) /\ Append(q, x) # <<>>
             /\ Len(Append(q, x)) = Len(q) + 1
             /\ DOMAIN Append(q, x) = 1..(Len(q) + 1)
             /\ \A i \in DOMAIN q : Append(q, x)[i] = q[i]
             /\ Append(q, x)[Len(q) + 1] = x
  OBVIOUS
<1>3. q # <<>> => /\ Head(q) = q[1] /\ Head(q) \in S /\ Tail(q) \in Seq(S)
                  /\ Len(q) > 0 /\ Len(Tail(q)) = Len(q) - 1
                  /\ DOMAIN Tail(q) = 1..(Len(q) - 1)
                  /\ \A i \in DOMAIN Tail(q) : i + 1 \in DOMAIN q /\ Tail(q)[i] = q[i + 1]
  OBVIOUS
<1>4. q = <<>> <=> Len(q) = 0
  OBVIOUS
<1>5. QED
  BY <1>1, <1>2, <1>3, <1>4

LEMMA NonEmpty == ASSUME NEW S, NEW q \in Seq(S), q # <<>> PROVE Len(q) \in Nat /\ Len(q) > 0
  OBVIOUS

\* What refreshDocument asks of the renderer.
LEMMA RefreshAsks ==
  ASSUME Refresh
  PROVE  \/ (gone \/ (viewing' = None /\ readout = "none")) /\ calls' = calls /\ readout' = readout
         \/ /\ ~gone /\ readout = "failed" /\ calls' = calls /\ readout' = readout
         \/ /\ ~gone /\ readout # "failed"
            /\ readout' = IF readout = "none" THEN "loading" ELSE readout
            /\ viewing' = None => readout # "none" /\ calls' = Append(calls, [do |-> "clear"])
            /\ viewing' # None => calls' = Append(calls, [do |-> "show"])
  BY DEF Refresh, OpenDocuments, Then, Call

LEMMA RefreshTypes ==
  ASSUME SessionTypes, Refresh
  PROVE  CallTypes' /\ readout' \in Promises
<1>1. [do |-> "clear"] \in CallBack /\ [do |-> "show"] \in CallBack
  BY DEF CallBack
<1>2. calls \in Seq(CallBack) /\ readout \in Promises
  BY DEF SessionTypes, SessionTypeOK, CallTypes
<1>3. calls' = calls \/ calls' = Append(calls, [do |-> "clear"]) \/ calls' = Append(calls, [do |-> "show"])
  BY RefreshAsks, Zenon
<1>4. CallTypes'
  <2>1. Append(calls, [do |-> "clear"]) \in Seq(CallBack) /\ Append(calls, [do |-> "show"]) \in Seq(CallBack)
    BY <1>1, <1>2, SeqFacts
  <2>2. calls' \in Seq(CallBack)
    BY <1>2, <1>3, <2>1, Zenon
  <2>3. QED
    BY <2>2 DEF CallTypes
<1>5. readout' \in Promises
  BY <1>2, RefreshAsks DEF Promises
<1>6. QED
  BY <1>4, <1>5

LEMMA EditDocumentTypes ==
  ASSUME SessionTypes, NEW asked \in Opening, EditDocument(asked), Names(asked)
  PROVE  OpeningTypes' /\ tool' \in Promises
<1>1. openings \in Seq(Opening \cup {None}) /\ \A i \in DOMAIN openings : Names(openings[i])
  BY DEF SessionTypes, OpeningTypes
<1>2. tool' \in Promises /\ (openings' = openings \/ openings' = Append(openings, asked))
  BY DEF SessionTypes, SessionTypeOK, EditDocument, Then, Promises
<1>3. CASE openings' = openings
  BY <1>1, <1>2, <1>3 DEF OpeningTypes
<1>4. CASE openings' = Append(openings, asked)
  <2>1. asked \in Opening \cup {None}
    OBVIOUS
  <2>2. /\ Append(openings, asked) \in Seq(Opening \cup {None})
        /\ DOMAIN Append(openings, asked) = 1..(Len(openings) + 1)
        /\ DOMAIN openings = 1..Len(openings) /\ Len(openings) \in Nat
        /\ \A i \in DOMAIN openings : Append(openings, asked)[i] = openings[i]
        /\ Append(openings, asked)[Len(openings) + 1] = asked
    BY <1>1, <2>1, SeqFacts
  <2>3. ASSUME NEW i \in DOMAIN openings' PROVE Names(openings'[i])
    <3>1. CASE i \in DOMAIN openings
      <4>1. openings'[i] = openings[i]
        BY <1>4, <2>2, <3>1
      <4>2. QED
        BY <1>1, <3>1, <4>1
    <3>2. CASE i = Len(openings) + 1
      <4>1. openings'[i] = asked
        BY <1>4, <2>2, <3>2
      <4>2. QED
        BY <4>1
    <3>3. QED
      BY <1>4, <2>2, <3>1, <3>2
  <2>4. QED
    BY <1>2, <1>4, <2>2, <2>3 DEF OpeningTypes
<1>5. QED
  BY <1>2, <1>3, <1>4

LEMMA DestroyAsked ==
  ASSUME SessionTypes, openings' = openings \/ openings' = Append(openings, None)
  PROVE  OpeningTypes'
<1>1. openings \in Seq(Opening \cup {None}) /\ \A i \in DOMAIN openings : Names(openings[i])
  BY DEF SessionTypes, OpeningTypes
<1>2. None \in Opening \cup {None}
  OBVIOUS
<1>3. /\ Append(openings, None) \in Seq(Opening \cup {None})
      /\ DOMAIN Append(openings, None) = 1..(Len(openings) + 1)
      /\ DOMAIN openings = 1..Len(openings) /\ Len(openings) \in Nat
      /\ \A i \in DOMAIN openings : Append(openings, None)[i] = openings[i]
      /\ Append(openings, None)[Len(openings) + 1] = None
  BY <1>1, <1>2, SeqFacts
<1>4. Names(None)
  BY DEF Names
<1>5. ASSUME NEW i \in 1..(Len(openings) + 1) PROVE Names(Append(openings, None)[i])
  <2>1. CASE i \in DOMAIN openings
    <3>1. Append(openings, None)[i] = openings[i]
      BY <1>3, <2>1
    <3>2. QED
      BY <1>1, <2>1, <3>1
  <2>2. CASE i = Len(openings) + 1
    <3>1. Append(openings, None)[i] = None
      BY <1>3, <2>2
    <3>2. QED
      BY <1>4, <3>1
  <2>3. QED
    BY <1>3, <2>1, <2>2
<1>6. QED
  BY <1>1, <1>3, <1>5 DEF OpeningTypes

\* What an action leaves alone keeps its type.
LEMMA Kept ==
  ASSUME SessionTypes
  PROVE  /\ UNCHANGED calls => CallTypes'
         /\ UNCHANGED fetches => FetchTypes'
         /\ UNCHANGED openings => OpeningTypes'
         /\ UNCHANGED session => EditorTypes'
         /\ UNCHANGED saves => SaveTypes'
         /\ UNCHANGED writes => WriteTypes'
         /\ UNCHANGED storing => StoreTypes'
<1>1. UNCHANGED calls => CallTypes'
  BY DEF SessionTypes, CallTypes
<1>2. UNCHANGED fetches => FetchTypes'
  BY DEF SessionTypes, FetchTypes
<1>3. UNCHANGED openings => OpeningTypes'
  BY DEF SessionTypes, OpeningTypes
<1>4. UNCHANGED session => EditorTypes'
  BY DEF SessionTypes, EditorTypes
<1>5. UNCHANGED saves => SaveTypes'
  BY DEF SessionTypes, SaveTypes
<1>6. UNCHANGED writes => WriteTypes'
  BY DEF SessionTypes, WriteTypes
<1>7. UNCHANGED storing => StoreTypes'
  BY DEF SessionTypes, StoreTypes
<1>8. QED
  BY <1>1, <1>2, <1>3, <1>4, <1>5, <1>6, <1>7

-----------------------------------------------------------------------------
(***************************************************************************)
(* Every action keeps the types.                                           *)
(***************************************************************************)

LEMMA InitTypes == SessionInit => SessionTypes
<1> SUFFICES ASSUME SessionInit PROVE SessionTypes
  OBVIOUS
<1>1. [version |-> 1, source |-> 0, state |-> Blank] \in Revision
  BY SessionBoundAssumption DEF Revision, Blank
<1>2. SessionTypeOK
  <2>1. doc \in [Block -> Revision \cup {None}]
    BY <1>1 DEF SessionInit
  <2>2. render \in [Block -> Rendering \cup {None}]
    BY DEF SessionInit
  <2>3. gone \in BOOLEAN /\ saving \in BOOLEAN
    BY Zenon DEF SessionInit
  <2>4. /\ viewing \in Surface \cup {None} /\ shown \in Surface \cup {None}
        /\ readout \in Promises /\ tool \in Promises /\ renders \in Nat
        /\ urls \subseteq Nat \X UNION {Parts[b] : b \in Block}
    BY DEF SessionInit, Promises
  <2>5. edits \in 0..MaxEdits /\ views \in 0..MaxViews /\ opens \in 0..MaxOpens
    BY SessionBoundAssumption DEF SessionInit
  <2>6. QED
    BY <2>1, <2>2, <2>3, <2>4, <2>5 DEF SessionTypeOK
<1>3. /\ CallTypes /\ FetchTypes /\ OpeningTypes /\ EditorTypes
      /\ SaveTypes /\ WriteTypes /\ StoreTypes
  BY DEF SessionInit, CallTypes, FetchTypes, OpeningTypes, EditorTypes, SaveTypes, WriteTypes, StoreTypes
<1>4. QED
  BY <1>2, <1>3 DEF SessionTypes

LEMMA ViewTypes ==
  ASSUME SessionTypes, NEW s \in Surface \cup {None}, View(s)
  PROVE  SessionTypes'
<1>1. CallTypes' /\ readout' \in Promises
  BY RefreshTypes DEF View
<1>2. viewing' = s /\ views' = views + 1 /\ views < MaxViews
      /\ UNCHANGED <<doc, gone, shown, render, renders, fetches, urls, tool, openings, session, saving, opens,
                     saves, writes, storing, edits>>
  BY DEF View, rendering, editor
<1>3. SessionTypeOK'
  BY <1>1, <1>2, SessionBoundAssumption DEF SessionTypes, SessionTypeOK
<1>4. QED
  BY <1>1, <1>2, <1>3, Kept DEF SessionTypes

LEMMA LoadTypes ==
  ASSUME SessionTypes, NEW ok \in BOOLEAN, LoadRenderer(ok) \/ LoadEditor(ok)
  PROVE  SessionTypes'
<1>1. CASE LoadRenderer(ok)
  <2>1. /\ readout' \in Promises /\ (calls' = calls \/ calls' = <<>>)
        /\ UNCHANGED <<doc, viewing, views, gone, shown, render, renders, fetches, urls,
                       tool, openings, session, saving, opens, saves, writes, storing, edits>>
    BY <1>1 DEF LoadRenderer, Promises, page, rendering, editor
  <2>2. SessionTypeOK'
    BY <2>1 DEF SessionTypes, SessionTypeOK
  <2>3. CallTypes'
    <3>1. CASE calls' = calls
      BY <3>1, Kept
    <3>2. CASE calls' = <<>>
      BY <3>2 DEF CallTypes
    <3>3. QED
      BY <2>1, <3>1, <3>2
  <2>4. QED
    BY <2>1, <2>2, <2>3, Kept DEF SessionTypes
<1>2. CASE LoadEditor(ok)
  <2>1. /\ tool' \in Promises /\ (openings' = openings \/ openings' = <<>>)
        /\ UNCHANGED <<doc, viewing, views, gone, readout, calls, shown, render, renders, fetches, urls,
                       session, saving, opens, saves, writes, storing, edits>>
    BY <1>2 DEF LoadEditor, Promises, page, rendering
  <2>2. SessionTypeOK'
    BY <2>1 DEF SessionTypes, SessionTypeOK
  <2>3. OpeningTypes'
    <3>1. CASE openings' = openings
      BY <3>1, Kept
    <3>2. CASE openings' = <<>>
      BY <3>2 DEF OpeningTypes
    <3>3. QED
      BY <2>1, <3>1, <3>2
  <2>4. QED
    BY <2>1, <2>2, <2>3, Kept DEF SessionTypes
<1>3. QED
  BY <1>1, <1>2

LEMMA DoubleTapTypes ==
  ASSUME SessionTypes, NEW b \in Block \cup {None}, DoubleTap(b)
  PROVE  SessionTypes'
<1> PICK c : c = [do |-> "edit", id |-> opens', surface |-> viewing, block |-> b]
  OBVIOUS
<1>1. /\ opens < MaxOpens /\ opens' = opens + 1 /\ viewing # None /\ OpenDocuments(c)
      /\ UNCHANGED <<doc, viewing, views, gone, shown, render, renders, fetches, urls,
                     tool, openings, session, saving, saves, writes, storing, edits>>
  BY DEF DoubleTap, page, rendering
<1>2. opens' \in 0..MaxOpens /\ viewing \in Surface
  BY <1>1, SessionBoundAssumption DEF SessionTypes, SessionTypeOK
<1>3. c \in CallBack
  BY <1>2 DEF CallBack
<1>4. CallTypes' /\ readout' \in Promises
  <2>1. calls \in Seq(CallBack) /\ readout \in Promises
    BY DEF SessionTypes, SessionTypeOK, CallTypes
  <2>2. readout' \in Promises /\ (calls' = calls \/ calls' = Append(calls, c))
    BY <1>1, <2>1 DEF OpenDocuments, Then, Promises
  <2>3. QED
    BY <1>3, <2>1, <2>2, SeqFacts DEF CallTypes
<1>5. SessionTypeOK'
  BY <1>1, <1>2, <1>4 DEF SessionTypes, SessionTypeOK
<1>6. QED
  BY <1>1, <1>4, <1>5, Kept DEF SessionTypes

-----------------------------------------------------------------------------
(***************************************************************************)
(* The renderer.                                                           *)
(***************************************************************************)

Old == {b \in Block : Outdated(b)}

New == {b \in Block : Wanted(b) /\ (render[b] = None \/ b \in Old)}

Order(T) == CHOOSE f \in [T -> 1..Cardinality(T)] : IsInjective(f)

\* The blocks that are rendered anew can be numbered.
LEMMA Orders ==
  ASSUME NEW T \in SUBSET Block
  PROVE  /\ Cardinality(T) \in Nat /\ Order(T) \in [T -> 1..Cardinality(T)]
         /\ \A b, c \in T : Order(T)[b] = Order(T)[c] => b = c
<1>1. IsFiniteSet(T) /\ Cardinality(T) \in Nat
  BY BlockAssumption, FS_Subset, FS_CardinalityType
<1>2. ExistsBijection(T, 1..Cardinality(T))
  BY <1>1, FS_CardinalityType, Fun_ExistsBijSymmetric
<1>3. \E f \in [T -> 1..Cardinality(T)] : IsInjective(f)
  BY <1>2 DEF ExistsBijection, Bijection, Injection
<1>4. Order(T) \in [T -> 1..Cardinality(T)] /\ IsInjective(Order(T))
  BY <1>3 DEF Order
<1>5. QED
  BY <1>1, <1>4 DEF IsInjective

\* What show does: the numbers are new, each block has its own.
LEMMA ShowIs ==
  ASSUME SessionTypes, Show
  PROVE  \E number :
           /\ Cardinality(New) \in Nat /\ number \in [New -> 1..Cardinality(New)]
           /\ \A b, c \in New : number[b] = number[c] => b = c
           /\ shown' = viewing
           /\ render' = [b \in Block |->
                IF b \in New
                  THEN [id |-> renders + number[b], revision |-> doc[b], status |-> "pending"]
                  ELSE IF b \in Old THEN None ELSE render[b]]
           /\ urls' = Without(Old)
           /\ renders' = renders + Cardinality(New)
           /\ fetches' = fetches \cup UNION {Requests(b, renders + number[b]) : b \in New}
<1>1. New \in SUBSET Block
  BY DEF New
<1>2. Cardinality(New) \in Nat /\ Order(New) \in [New -> 1..Cardinality(New)]
      /\ \A b, c \in New : Order(New)[b] = Order(New)[c] => b = c
  BY <1>1, Orders, Zenon
<1>3. /\ shown' = viewing
      /\ render' = [b \in Block |->
           IF b \in New
             THEN [id |-> renders + Order(New)[b], revision |-> doc[b], status |-> "pending"]
             ELSE IF b \in Old THEN None ELSE render[b]]
      /\ urls' = Without(Old)
      /\ renders' = renders + Cardinality(New)
      /\ fetches' = fetches \cup UNION {Requests(b, renders + Order(New)[b]) : b \in New}
  BY Zenon DEF Show, Order, New, Old
<1>4. QED
  BY <1>2, <1>3

LEMMA ShowTypes ==
  ASSUME SessionTypes, Show
  PROVE  /\ shown' \in Surface \cup {None} /\ render' \in [Block -> Rendering \cup {None}]
         /\ renders' \in Nat /\ urls' \subseteq urls /\ FetchTypes'
<1> PICK number :
      /\ Cardinality(New) \in Nat /\ number \in [New -> 1..Cardinality(New)]
      /\ shown' = viewing
      /\ render' = [b \in Block |->
           IF b \in New
             THEN [id |-> renders + number[b], revision |-> doc[b], status |-> "pending"]
             ELSE IF b \in Old THEN None ELSE render[b]]
      /\ urls' = Without(Old)
      /\ renders' = renders + Cardinality(New)
      /\ fetches' = fetches \cup UNION {Requests(b, renders + number[b]) : b \in New}
  BY ShowIs
<1>1. renders \in Nat /\ render \in [Block -> Rendering \cup {None}] /\ doc \in [Block -> Revision \cup {None}]
      /\ viewing \in Surface \cup {None}
  BY DEF SessionTypes, SessionTypeOK
<1>2. \A b \in New : b \in Block /\ doc[b] \in Revision /\ renders + number[b] \in Nat
  BY <1>1 DEF New, Wanted
<1>3. \A b \in Block : render'[b] \in Rendering \cup {None}
  <2>1. \A b \in New : [id |-> renders + number[b], revision |-> doc[b], status |-> "pending"] \in Rendering
    BY <1>2 DEF Rendering
  <2>2. QED
    BY <1>1, <2>1
<1>4. render' \in [Block -> Rendering \cup {None}]
  BY <1>3
<1>5. FetchTypes'
  <2> SUFFICES ASSUME NEW f \in fetches'
               PROVE  f.block \in Block /\ f.render \in Nat /\ (f.part # Compile => f.part \in Parts[f.block])
    BY DEF FetchTypes
  <2>1. CASE f \in fetches
    BY <2>1 DEF SessionTypes, FetchTypes
  <2>2. CASE f \notin fetches
    <3>1. PICK b \in New : f \in Requests(b, renders + number[b])
      BY <2>2
    <3>2. b \in Block /\ renders + number[b] \in Nat
      BY <1>2, <3>1
    <3>3. QED
      BY <3>1, <3>2 DEF Requests, CompileSource, FetchParts
  <2>3. QED
    BY <2>1, <2>2
<1>6. urls' \subseteq urls
  BY DEF Without
<1>7. QED
  BY <1>1, <1>4, <1>5, <1>6

LEMMA RunCallTypes ==
  ASSUME SessionTypes, RunCall
  PROVE  SessionTypes'
<1> PICK call : call = Head(calls)
  OBVIOUS
<1>1. calls \in Seq(CallBack) /\ calls # <<>>
  BY DEF SessionTypes, CallTypes, RunCall
<1>2. call \in CallBack /\ calls' \in Seq(CallBack)
  BY <1>1, SeqFacts DEF RunCall
<1>3. CallTypes'
  BY <1>2 DEF CallTypes
<1>4. UNCHANGED <<doc, viewing, views, gone, readout, saves, writes, storing, edits>>
  BY DEF RunCall, page
<1>5. CASE call.do = "edit"
  <2>1. EditAt(call) /\ UNCHANGED <<opens, shown, render, renders, fetches, urls>>
    BY <1>5 DEF RunCall, rendering
  <2>2. OpeningTypes' /\ tool' \in Promises /\ UNCHANGED <<session, saving>>
    <3>1. CASE shown # None /\ viewing = call.surface
      <4> PICK asked : asked = [id |-> call.id, surface |-> shown, block |-> call.block,
             opened |-> IF call.block = None \/ render[call.block] = None THEN None
                        ELSE render[call.block].revision]
        OBVIOUS
      <4>1. EditDocument(asked)
        BY <2>1, <3>1 DEF EditAt
      <4>2. call.id \in Nat /\ call.block \in Block \cup {None} /\ shown \in Surface
        BY <1>2, <1>5, <3>1 DEF CallBack, SessionTypes, SessionTypeOK
      <4>3. asked.opened \in Revision \cup {None} /\ (call.block = None => asked.opened = None)
        BY <4>2 DEF SessionTypes, SessionTypeOK, Rendering
      <4>4. asked \in Opening
        BY <4>2, <4>3 DEF Opening
      <4>5. Names(asked)
        BY <4>2, <4>3 DEF Names
      <4>6. UNCHANGED <<session, saving>>
        BY <4>1 DEF EditDocument
      <4>7. QED
        BY <4>1, <4>4, <4>5, <4>6, EditDocumentTypes
    <3>2. CASE ~(shown # None /\ viewing = call.surface)
      <4>1. UNCHANGED <<tool, openings, session, saving>>
        BY <2>1, <3>2 DEF EditAt
      <4>2. QED
        BY <4>1, Kept DEF SessionTypes, SessionTypeOK
    <3>3. QED
      BY <3>1, <3>2
  <2>3. SessionTypeOK'
    BY <1>4, <2>1, <2>2 DEF SessionTypes, SessionTypeOK
  <2>4. QED
    BY <1>3, <1>4, <2>1, <2>2, <2>3, Kept DEF SessionTypes
<1>6. CASE call.do # "edit" /\ (Show \/ Clear) /\ UNCHANGED editor
  <2>1. UNCHANGED <<tool, openings, session, saving, opens>>
    BY <1>6 DEF editor
  <2>2. /\ shown' \in Surface \cup {None} /\ render' \in [Block -> Rendering \cup {None}]
        /\ renders' \in Nat /\ urls' \subseteq urls /\ FetchTypes'
    <3>1. CASE Show
      BY <3>1, ShowTypes
    <3>2. CASE Clear
      <4>1. UNCHANGED <<renders, fetches>> /\ shown' = None /\ urls' \subseteq urls
        BY <3>2 DEF Clear, Without
      <4>2. render' \in [Block -> Rendering \cup {None}]
        BY <3>2 DEF Clear
      <4>3. QED
        BY <4>1, <4>2, Kept DEF SessionTypes, SessionTypeOK
    <3>3. QED
      BY <1>6, <3>1, <3>2
  <2>3. SessionTypeOK'
    BY <1>4, <2>1, <2>2 DEF SessionTypes, SessionTypeOK
  <2>4. QED
    BY <1>3, <1>4, <2>1, <2>2, <2>3, Kept DEF SessionTypes
<1>7. QED
  BY <1>5, <1>6 DEF RunCall

LEMMA AnswerTypes ==
  ASSUME SessionTypes, NEW f \in fetches, Compiled(f) \/ Fetched(f) \/ FetchFails(f)
  PROVE  SessionTypes'
<1>1. f.block \in Block /\ f.render \in Nat /\ (f.part # Compile => f.part \in Parts[f.block])
  BY DEF SessionTypes, FetchTypes
<1>2. UNCHANGED <<doc, viewing, views, gone, readout, calls, shown, renders, tool, openings, session, saving,
                  opens, saves, writes, storing, edits>>
  BY DEF Compiled, Fetched, FetchFails, page, editor
<1>3. render \in [Block -> Rendering \cup {None}]
  BY DEF SessionTypes, SessionTypeOK
<1>4. FetchTypes'
  <2>1. CASE Compiled(f)
    <3> SUFFICES ASSUME NEW g \in fetches'
                 PROVE  g.block \in Block /\ g.render \in Nat /\ (g.part # Compile => g.part \in Parts[g.block])
      BY DEF FetchTypes
    <3>1. g \in fetches \/ g \in FetchParts(f.block, f.render)
      BY <2>1 DEF Compiled
    <3>2. CASE g \in fetches
      BY <3>2 DEF SessionTypes, FetchTypes
    <3>3. CASE g \in FetchParts(f.block, f.render)
      BY <1>1, <3>3 DEF FetchParts
    <3>4. QED
      BY <3>1, <3>2, <3>3
  <2>2. CASE Fetched(f) \/ FetchFails(f)
    <3>1. fetches' \subseteq fetches
      BY <2>2 DEF Fetched, FetchFails
    <3>2. QED
      BY <3>1 DEF SessionTypes, FetchTypes
  <2>3. QED
    BY <2>1, <2>2
<1>5. render' \in [Block -> Rendering \cup {None}]
  <2>1. ASSUME NEW status \in {"whole", "error"}, Mark(f, status), render[f.block] # None
        PROVE  render' \in [Block -> Rendering \cup {None}]
    <3>1. render[f.block] \in Rendering
      BY <1>1, <1>3, <2>1
    <3>2. [render[f.block] EXCEPT !.status = status] \in Rendering
      BY <2>1, <3>1 DEF Rendering
    <3>3. render' = [render EXCEPT ![f.block] = [render[f.block] EXCEPT !.status = status]]
      BY <1>1, <1>3, <2>1 DEF Mark
    <3>4. QED
      BY <1>1, <1>3, <3>2, <3>3
  <2>2. UNCHANGED render \/ (render[f.block] # None /\ \E status \in {"whole", "error"} : Mark(f, status))
    BY DEF Compiled, Fetched, FetchFails, Aborted
  <2>3. QED
    BY <1>3, <2>1, <2>2
<1>6. urls' \subseteq Nat \X UNION {Parts[b] : b \in Block}
  <2>1. urls' \subseteq urls \cup {<<f.render, f.part>>} /\ (f.part = Compile => urls' = urls)
    BY DEF Compiled, Fetched, FetchFails, Received
  <2>2. urls \subseteq Nat \X UNION {Parts[b] : b \in Block}
    BY DEF SessionTypes, SessionTypeOK
  <2>3. f.part # Compile => f.part \in UNION {Parts[b] : b \in Block}
    BY <1>1
  <2>4. QED
    BY <1>1, <2>1, <2>2, <2>3
<1>7. SessionTypeOK'
  BY <1>2, <1>5, <1>6 DEF SessionTypes, SessionTypeOK
<1>8. QED
  BY <1>2, <1>4, <1>7, Kept DEF SessionTypes

LEMMA FrameReadyTypes ==
  ASSUME SessionTypes, NEW b \in Block, FrameReady(b)
  PROVE  SessionTypes'
<1>1. UNCHANGED <<doc, viewing, views, gone, readout, calls, shown, renders, fetches, urls, tool, openings,
                  session, saving, opens, saves, writes, storing, edits>>
  BY DEF FrameReady, page, editor
<1>2. render \in [Block -> Rendering \cup {None}]
  BY DEF SessionTypes, SessionTypeOK
<1>3. render' = [render EXCEPT ![b] = [render[b] EXCEPT !.status = "whole"]] /\ render[b] # None
  BY <1>2 DEF FrameReady, Mark
<1>4. [render[b] EXCEPT !.status = "whole"] \in Rendering
  BY <1>2, <1>3 DEF Rendering
<1>5. render' \in [Block -> Rendering \cup {None}]
  BY <1>2, <1>3, <1>4
<1>6. SessionTypeOK'
  BY <1>1, <1>5 DEF SessionTypes, SessionTypeOK
<1>7. QED
  BY <1>1, <1>6, Kept DEF SessionTypes

-----------------------------------------------------------------------------
(***************************************************************************)
(* The editor, the widgets and the runtime.                                *)
(***************************************************************************)

LEMMA RunOpeningTypes ==
  ASSUME SessionTypes, RunOpening
  PROVE  SessionTypes'
<1> PICK asked : asked = Head(openings)
  OBVIOUS
<1>1. /\ openings \in Seq(Opening \cup {None}) /\ openings # <<>>
      /\ \A i \in DOMAIN openings : Names(openings[i])
  BY DEF SessionTypes, OpeningTypes, RunOpening
<1>2. /\ asked \in Opening \cup {None} /\ Tail(openings) \in Seq(Opening \cup {None})
      /\ asked = openings[1] /\ 1 \in DOMAIN openings
      /\ \A i \in DOMAIN Tail(openings) : i + 1 \in DOMAIN openings /\ Tail(openings)[i] = openings[i + 1]
  <2>1. /\ DOMAIN openings = 1..Len(openings) /\ Len(openings) > 0 /\ Len(openings) \in Nat
    BY <1>1, SeqFacts
  <2>2. QED
    BY <1>1, <2>1, SeqFacts
<1>3. Names(asked)
  BY <1>1, <1>2
<1>4. OpeningTypes'
  <2>1. openings' = Tail(openings)
    BY DEF RunOpening
  <2>2. \A i \in DOMAIN Tail(openings) : Names(Tail(openings)[i])
    BY <1>1, <1>2, Zenon
  <2>3. QED
    BY <1>2, <2>1, <2>2 DEF OpeningTypes
<1>5. UNCHANGED <<doc, viewing, views, gone, readout, calls, shown, render, renders, fetches, urls, tool, opens,
                  saves, writes, storing, edits>>
  BY DEF RunOpening, page, rendering
<1>6. EditorTypes' /\ saving' \in BOOLEAN
  <2>1. CASE Opens(asked)
    <3>1. asked # None /\ asked \in Opening
      BY <1>2, <2>1 DEF Opens
    <3>2. /\ session' = [id |-> asked.id, surface |-> asked.surface,
                         block |-> IF asked.opened = None THEN None ELSE asked.block,
                         opened |-> asked.opened]
          /\ saving' = FALSE
      BY <2>1 DEF RunOpening
    <3>3. asked.opened # None => asked.block \in Block
      BY <1>3, <3>1 DEF Names
    <3>4. session' \in Opening
      BY <3>1, <3>2, <3>3 DEF Opening
    <3>5. session'.block # None => session'.opened \in Revision
      BY <3>1, <3>2 DEF Opening
    <3>6. QED
      BY <3>2, <3>4, <3>5 DEF EditorTypes, Opened
  <2>2. CASE ~Opens(asked) /\ asked = None
    BY <2>2 DEF RunOpening, CloseEditor, EditorTypes
  <2>3. CASE ~Opens(asked) /\ asked # None
    <3>1. UNCHANGED <<session, saving>>
      BY <2>3 DEF RunOpening
    <3>2. QED
      BY <3>1, Kept DEF SessionTypes, SessionTypeOK
  <2>4. QED
    BY <2>1, <2>2, <2>3
<1>7. SessionTypeOK'
  BY <1>5, <1>6 DEF SessionTypes, SessionTypeOK
<1>8. QED
  BY <1>4, <1>5, <1>6, <1>7, Kept DEF SessionTypes

LEMMA ClosedTypes == CloseEditor => EditorTypes' /\ saving' \in BOOLEAN
  BY DEF CloseEditor, EditorTypes

LEMMA CancelTypes ==
  ASSUME SessionTypes, Cancel
  PROVE  SessionTypes'
<1>1. UNCHANGED <<doc, viewing, views, gone, readout, calls, shown, render, renders, fetches, urls,
                  tool, openings, opens, saves, writes, storing, edits>>
  BY DEF Cancel, page, rendering
<1>2. EditorTypes' /\ saving' \in BOOLEAN
  BY ClosedTypes DEF Cancel
<1>3. SessionTypeOK'
  BY <1>1, <1>2 DEF SessionTypes, SessionTypeOK
<1>4. QED
  BY <1>1, <1>2, <1>3, Kept DEF SessionTypes

LEMMA FreshTypes == ASSUME SessionTypes, FreshEdit PROVE edits' \in 0..MaxEdits /\ edits' = edits + 1
  BY SessionBoundAssumption DEF SessionTypes, SessionTypeOK, FreshEdit

LEMMA SaveStarts ==
  ASSUME SessionTypes, NEW upload \in BOOLEAN, Save(upload)
  PROVE  SessionTypes'
<1> PICK s : s = [from |-> session.id, surface |-> session.surface,
                  block |-> session.block, opened |-> session.opened, n |-> edits', upload |-> upload]
  OBVIOUS
<1>1. /\ UNCHANGED <<doc, viewing, views, gone, readout, calls, shown, render, renders, fetches, urls,
                     tool, openings, session, opens, writes, storing>>
      /\ saving' = TRUE /\ saves' = saves \cup {s} /\ session # None
  BY DEF Save, page, rendering
<1>2. edits' \in 0..MaxEdits
  BY FreshTypes DEF Save
<1>3. session \in Opening /\ Opened(session)
  BY <1>1 DEF SessionTypes, EditorTypes
<1>4. s \in [from : Nat, surface : Surface, block : Block \cup {None},
             opened : Revision \cup {None}, n : 0..MaxEdits, upload : BOOLEAN]
  BY <1>2, <1>3 DEF Opening
<1>5. Opened(s)
  BY <1>3 DEF Opened
<1>6. SaveTypes'
  BY <1>1, <1>4, <1>5 DEF SessionTypes, SaveTypes
<1>7. SessionTypeOK'
  BY <1>1, <1>2 DEF SessionTypes, SessionTypeOK
<1>8. QED
  BY <1>1, <1>6, <1>7, Kept DEF SessionTypes

LEMMA ElementTypes ==
  ASSUME SessionTypes, NEW s \in saves
  PROVE  Element(s) \in Revision /\ s.from \in Nat /\ s.n \in 0..MaxEdits
<1>1. s \in [from : Nat, surface : Surface, block : Block \cup {None},
             opened : Revision \cup {None}, n : 0..MaxEdits, upload : BOOLEAN]
      /\ Opened(s)
  BY DEF SessionTypes, SaveTypes
<1>2. Blank \in [frame : Nat, n : 0..MaxEdits]
  BY SessionBoundAssumption DEF Blank
<1>3. CASE s.block = None
  BY <1>1, <1>2, <1>3 DEF Element, Revision
<1>4. CASE s.block # None
  <2>1. s.opened \in Revision
    BY <1>1, <1>4 DEF Opened
  <2>2. s.opened.version + 1 \in Nat \ {0} /\ s.opened.state \in [frame : Nat, n : 0..MaxEdits]
    BY <2>1 DEF Revision
  <2>3. QED
    BY <1>1, <1>4, <2>2 DEF Element, Revision
<1>5. QED
  BY <1>1, <1>3, <1>4

\* What dispatch stages for a save.
LEMMA DispatchIs ==
  ASSUME SessionTypes, NEW s \in saves, Dispatch(s)
  PROVE  /\ saves' = saves \ {s}
         /\ UNCHANGED <<doc, viewing, views, gone, readout, calls, shown, render, renders, fetches, urls,
                        tool, openings, session, opens, writes, edits>>
         /\ \/ /\ UNCHANGED saving
               /\ \E d : /\ storing' = storing \cup {d}
                         /\ d.by = "session" /\ d.put = Element(s)
                         /\ d \in [by : {"session", "frame"}, from : Nat, n : 0..MaxEdits, block : Block,
                                   base : Revision \cup {None}, put : Revision]
            \/ saving' = FALSE /\ UNCHANGED storing
<1>1. /\ saves' = saves \ {s}
      /\ UNCHANGED <<doc, viewing, views, gone, readout, calls, shown, render, renders, fetches, urls,
                     tool, openings, session, opens, writes, edits>>
  BY DEF Dispatch, Uploaded, SaveFails, editor, page, rendering
<1>2. Element(s) \in Revision /\ s.from \in Nat /\ s.n \in 0..MaxEdits
  BY ElementTypes
<1>3. doc \in [Block -> Revision \cup {None}] /\ s.block \in Block \cup {None}
  BY DEF SessionTypes, SessionTypeOK, SaveTypes
<1>4. ASSUME NEW b \in Block, NEW r \in Revision \cup {None}
      PROVE  LET d == [by |-> "session", from |-> s.from, n |-> s.n, block |-> b, base |-> r, put |-> Element(s)]
             IN  /\ d.by = "session" /\ d.put = Element(s)
                 /\ d \in [by : {"session", "frame"}, from : Nat, n : 0..MaxEdits, block : Block,
                           base : Revision \cup {None}, put : Revision]
  BY <1>2
<1>5. CASE s.block # None /\ Unchanged(s)
           /\ storing' = storing \cup {[by |-> "session", from |-> s.from, n |-> s.n,
                block |-> s.block, base |-> doc[s.block], put |-> Element(s)]}
           /\ UNCHANGED editor
  <2>1. s.block \in Block /\ doc[s.block] \in Revision \cup {None}
    BY <1>3, <1>5
  <2>2. UNCHANGED saving
    BY <1>5 DEF editor
  <2>3. QED
    BY <1>1, <1>4, <1>5, <2>1, <2>2
<1>6. CASE s.block = None /\ UNCHANGED editor
           /\ \E b \in Block : storing' = storing \cup {[by |-> "session", from |-> s.from, n |-> s.n,
                block |-> b, base |-> None, put |-> Element(s)]}
  <2>1. UNCHANGED saving
    BY <1>6 DEF editor
  <2>2. QED
    BY <1>1, <1>4, <1>6, <2>1
<1>7. CASE SaveFails /\ UNCHANGED storing
  BY <1>1, <1>7 DEF SaveFails
<1>8. QED
  BY <1>5, <1>6, <1>7, Zenon DEF Dispatch

LEMMA SaveEnds ==
  ASSUME SessionTypes, NEW s \in saves, Dispatch(s) \/ ElementFails(s)
  PROVE  SessionTypes'
<1>1. CASE Dispatch(s)
  <2>1. UNCHANGED <<doc, viewing, views, gone, readout, calls, shown, render, renders, fetches, urls,
                    tool, openings, session, opens, writes, edits>> /\ saves' \subseteq saves
    BY <1>1, DispatchIs
  <2>2. StoreTypes' /\ saving' \in BOOLEAN
    BY <1>1, DispatchIs DEF SessionTypes, SessionTypeOK, StoreTypes
  <2>3. SessionTypeOK'
    BY <2>1, <2>2 DEF SessionTypes, SessionTypeOK
  <2>4. SaveTypes'
    BY <2>1 DEF SessionTypes, SaveTypes
  <2>5. QED
    BY <2>1, <2>2, <2>3, <2>4, Kept DEF SessionTypes
<1>2. CASE ElementFails(s)
  <2>1. UNCHANGED <<doc, viewing, views, gone, readout, calls, shown, render, renders, fetches, urls,
                    tool, openings, session, opens, writes, storing, edits>>
        /\ saves' \subseteq saves /\ saving' = FALSE
    BY <1>2 DEF ElementFails, Uploaded, SaveFails, page, rendering
  <2>2. SessionTypeOK'
    BY <2>1 DEF SessionTypes, SessionTypeOK
  <2>3. SaveTypes'
    BY <2>1 DEF SessionTypes, SaveTypes
  <2>4. QED
    BY <2>1, <2>2, <2>3, Kept DEF SessionTypes
<1>3. QED
  BY <1>1, <1>2

LEMMA EditMessageTypes ==
  ASSUME SessionTypes, NEW b \in Block, EditMessage(b)
  PROVE  SessionTypes'
<1> PICK asked : asked = [id |-> opens', surface |-> Page[b], block |-> b, opened |-> render[b].revision]
  OBVIOUS
<1>1. /\ UNCHANGED <<doc, viewing, views, gone, readout, calls, shown, render, renders, fetches, urls,
                     session, saving, saves, writes, storing, edits>>
      /\ EditDocument(asked) /\ opens < MaxOpens /\ opens' = opens + 1 /\ render[b] # None
  BY DEF EditMessage, EditDocument, Runs, page, rendering
<1>2. opens' \in 0..MaxOpens
  BY <1>1, SessionBoundAssumption DEF SessionTypes, SessionTypeOK
<1>3. Page[b] \in Surface
  BY PageAssumption
<1>4. render[b].revision \in Revision
  BY <1>1 DEF SessionTypes, SessionTypeOK, Rendering
<1>5. asked \in Opening
  BY <1>2, <1>3, <1>4 DEF Opening
<1>6. Names(asked)
  BY DEF Names
<1>7. OpeningTypes' /\ tool' \in Promises
  BY <1>1, <1>5, <1>6, EditDocumentTypes
<1>8. SessionTypeOK'
  BY <1>1, <1>2, <1>7 DEF SessionTypes, SessionTypeOK
<1>9. QED
  BY <1>1, <1>7, <1>8, Kept DEF SessionTypes

LEMMA StateMessageTypes ==
  ASSUME SessionTypes, NEW b \in Block, StateMessage(b)
  PROVE  SessionTypes'
<1> PICK w : w = [frame |-> render[b].id, block |-> b, n |-> edits']
  OBVIOUS
<1>1. /\ UNCHANGED <<doc, viewing, views, gone, readout, calls, shown, render, renders, fetches, urls,
                     tool, openings, session, saving, opens, saves, storing>>
      /\ writes' = writes \cup {w} /\ render[b] # None
  BY DEF StateMessage, Runs, page, rendering, editor
<1>2. edits' \in 0..MaxEdits
  BY FreshTypes DEF StateMessage
<1>3. render[b].id \in Nat
  BY <1>1 DEF SessionTypes, SessionTypeOK, Rendering
<1>4. w \in [frame : Nat, block : Block, n : 0..MaxEdits]
  BY <1>2, <1>3
<1>5. WriteTypes'
  BY <1>1, <1>4 DEF SessionTypes, WriteTypes
<1>6. SessionTypeOK'
  BY <1>1, <1>2 DEF SessionTypes, SessionTypeOK
<1>7. QED
  BY <1>1, <1>5, <1>6, Kept DEF SessionTypes

\* What a message stages when its turn has come.
Staged(w) ==
  [by |-> "frame", from |-> w.frame, n |-> w.n, block |-> w.block, base |-> doc[w.block],
   put |-> [version |-> doc[w.block].version + 1, source |-> doc[w.block].source,
            state |-> [frame |-> w.frame, n |-> w.n]]]

LEMMA WriteStateIs ==
  ASSUME SessionTypes, NEW w \in writes, WriteState(w)
  PROVE  /\ Turn(w) /\ writes' = writes \ {w}
         /\ UNCHANGED <<doc, viewing, views, gone, readout, calls, shown, render, renders, fetches, urls,
                        tool, openings, session, saving, opens, saves, edits>>
         /\ doc[w.block] = None => storing' = storing
         /\ doc[w.block] # None => /\ storing' = storing \cup {Staged(w)}
                                   /\ Staged(w) \in [by : {"session", "frame"}, from : Nat, n : 0..MaxEdits,
                                        block : Block, base : Revision \cup {None}, put : Revision]
<1>1. /\ Turn(w) /\ writes' = writes \ {w}
      /\ UNCHANGED <<doc, viewing, views, gone, readout, calls, shown, render, renders, fetches, urls,
                     tool, openings, session, saving, opens, saves, edits>>
  BY DEF WriteState, page, rendering, editor
<1>2. w \in [frame : Nat, block : Block, n : 0..MaxEdits] /\ doc[w.block] \in Revision \cup {None}
  BY DEF SessionTypes, SessionTypeOK, WriteTypes
<1>3. doc[w.block] = None => storing' = storing
  BY DEF WriteState
<1>4. CASE doc[w.block] # None
  <2> PICK r \in Revision : r = doc[w.block]
    BY <1>2, <1>4
  <2>2. [version |-> r.version + 1, source |-> r.source, state |-> [frame |-> w.frame, n |-> w.n]] \in Revision
    <3>1. r.version + 1 \in Nat \ {0} /\ r.source \in 0..MaxEdits
      BY DEF Revision
    <3>2. [frame |-> w.frame, n |-> w.n] \in [frame : Nat, n : 0..MaxEdits]
      BY <1>2
    <3>3. QED
      BY <3>1, <3>2 DEF Revision
  <2>4. storing' = storing \cup {Staged(w)}
    BY <1>4, Zenon DEF Staged, WriteState
  <2>5. Staged(w) \in [by : {"session", "frame"}, from : Nat, n : 0..MaxEdits,
                       block : Block, base : Revision \cup {None}, put : Revision]
    BY <1>2, <2>2 DEF Staged
  <2>6. QED
    BY <1>1, <1>4, <2>4, <2>5
<1>5. QED
  BY <1>1, <1>3, <1>4

LEMMA WriteStateTypes ==
  ASSUME SessionTypes, NEW w \in writes, WriteState(w)
  PROVE  SessionTypes'
<1>1. /\ UNCHANGED <<doc, viewing, views, gone, readout, calls, shown, render, renders, fetches, urls,
                     tool, openings, session, saving, opens, saves, edits>> /\ writes' \subseteq writes
  BY WriteStateIs
<1>2. StoreTypes'
  <2>1. CASE doc[w.block] = None
    BY <2>1, WriteStateIs, Kept
  <2>2. CASE doc[w.block] # None
    BY <2>2, WriteStateIs DEF SessionTypes, StoreTypes
  <2>3. QED
    BY <2>1, <2>2
<1>3. WriteTypes'
  BY <1>1 DEF SessionTypes, WriteTypes
<1>4. SessionTypeOK'
  BY <1>1 DEF SessionTypes, SessionTypeOK
<1>5. QED
  BY <1>1, <1>2, <1>3, <1>4, Kept DEF SessionTypes

\* What an update of the document does to it.
LEMMA StoredIs ==
  ASSUME SessionTypes, NEW d \in storing, Stored(d)
  PROVE  /\ storing' = storing \ {d} /\ Refresh
         /\ d \in [by : {"session", "frame"}, from : Nat, n : 0..MaxEdits, block : Block,
                   base : Revision \cup {None}, put : Revision]
         /\ \E r \in Revision : /\ r = d.put \/ (doc[d.block] # None /\ r = doc[d.block])
                                /\ doc' = [doc EXCEPT ![d.block] = r]
         /\ UNCHANGED <<viewing, views, gone, shown, render, renders, fetches, urls,
                        tool, openings, opens, saves, writes, edits>>
         /\ CloseEditor \/ UNCHANGED <<session, saving>>
<1>1. d \in [by : {"session", "frame"}, from : Nat, n : 0..MaxEdits, block : Block,
             base : Revision \cup {None}, put : Revision]
  BY DEF SessionTypes, StoreTypes
<1>2. doc[d.block] \in Revision \cup {None}
  BY <1>1 DEF SessionTypes, SessionTypeOK
<1>3. \E r \in Revision : /\ r = d.put \/ (doc[d.block] # None /\ r = doc[d.block])
                          /\ doc' = [doc EXCEPT ![d.block] = r]
  <2>1. PICK r \in Merged(d) : doc' = [doc EXCEPT ![d.block] = r]
    BY DEF Stored
  <2>2. r = d.put \/ (doc[d.block] # None /\ r = doc[d.block])
    BY <2>1 DEF Merged
  <2>3. r \in Revision
    BY <1>1, <1>2, <2>2
  <2>4. QED
    BY <2>1, <2>2, <2>3
<1>4. /\ storing' = storing \ {d} /\ Refresh
      /\ UNCHANGED <<viewing, views, gone, shown, render, renders, fetches, urls,
                     tool, openings, opens, saves, writes, edits>>
      /\ CloseEditor \/ UNCHANGED <<session, saving>>
  BY DEF Stored, page, rendering, editor
<1>5. QED
  BY <1>1, <1>3, <1>4

LEMMA StoreEnds ==
  ASSUME SessionTypes, NEW d \in storing, Stored(d) \/ StoreFails(d)
  PROVE  SessionTypes'
<1>1. CASE Stored(d)
  <2>1. /\ storing' \subseteq storing
        /\ UNCHANGED <<viewing, views, gone, shown, render, renders, fetches, urls,
                       tool, openings, opens, saves, writes, edits>>
    BY <1>1, StoredIs
  <2>2. CallTypes' /\ readout' \in Promises
    BY <1>1, StoredIs, RefreshTypes
  <2>3. EditorTypes' /\ saving' \in BOOLEAN
    <3>1. CASE CloseEditor
      BY <3>1, ClosedTypes
    <3>2. CASE UNCHANGED <<session, saving>>
      BY <3>2, Kept DEF SessionTypes, SessionTypeOK
    <3>3. QED
      BY <1>1, <3>1, <3>2, StoredIs
  <2>4. doc' \in [Block -> Revision \cup {None}]
    BY <1>1, StoredIs DEF SessionTypes, SessionTypeOK
  <2>5. StoreTypes'
    BY <2>1 DEF SessionTypes, StoreTypes
  <2>6. SessionTypeOK'
    BY <2>1, <2>2, <2>3, <2>4 DEF SessionTypes, SessionTypeOK
  <2>7. QED
    BY <2>1, <2>2, <2>3, <2>5, <2>6, Kept DEF SessionTypes
<1>2. CASE StoreFails(d)
  <2>1. /\ storing' \subseteq storing
        /\ UNCHANGED <<doc, viewing, views, gone, readout, calls, shown, render, renders, fetches, urls,
                       tool, openings, session, opens, saves, writes, edits>>
        /\ saving' = FALSE \/ UNCHANGED saving
    BY <1>2 DEF StoreFails, SaveFails, page, rendering, editor
  <2>2. saving' \in BOOLEAN
    BY <2>1 DEF SessionTypes, SessionTypeOK
  <2>3. StoreTypes'
    BY <2>1 DEF SessionTypes, StoreTypes
  <2>4. SessionTypeOK'
    BY <2>1, <2>2 DEF SessionTypes, SessionTypeOK
  <2>5. QED
    BY <2>1, <2>3, <2>4, Kept DEF SessionTypes
<1>3. QED
  BY <1>1, <1>2

LEMMA RemoteIs ==
  ASSUME SessionTypes, NEW b \in Block, RemotePut(b) \/ RemoteDelete(b)
  PROVE  /\ FreshEdit /\ Refresh
         /\ \E r \in Revision \cup {None} :
              /\ doc' = [doc EXCEPT ![b] = r]
              /\ r # None => r.state = [frame |-> 0, n |-> edits']
         /\ UNCHANGED <<viewing, views, gone, shown, render, renders, fetches, urls,
                        tool, openings, session, saving, opens, saves, writes, storing>>
<1>1. /\ FreshEdit /\ Refresh /\ doc[b] # None
      /\ UNCHANGED <<viewing, views, gone, shown, render, renders, fetches, urls,
                     tool, openings, session, saving, opens, saves, writes, storing>>
  BY DEF RemotePut, RemoteDelete, page, rendering, editor
<1>2. edits' \in 0..MaxEdits
  BY <1>1, FreshTypes
<1>3. CASE RemotePut(b)
  <2>1. PICK v \in {doc[b].version, doc[b].version + 1} \ {1} :
          doc' = [doc EXCEPT ![b] = [version |-> v, source |-> edits', state |-> [frame |-> 0, n |-> edits']]]
    BY <1>3 DEF RemotePut
  <2>2. v \in Nat \ {0}
    BY <1>1, <2>1 DEF SessionTypes, SessionTypeOK, Revision
  <2>3. [frame |-> 0, n |-> edits'] \in [frame : Nat, n : 0..MaxEdits]
    BY <1>2
  <2>4. [version |-> v, source |-> edits', state |-> [frame |-> 0, n |-> edits']] \in Revision
    BY <1>2, <2>2, <2>3 DEF Revision
  <2> PICK r : r = [version |-> v, source |-> edits', state |-> [frame |-> 0, n |-> edits']]
    OBVIOUS
  <2>5. r \in Revision /\ doc' = [doc EXCEPT ![b] = r] /\ r.state = [frame |-> 0, n |-> edits']
    BY <2>1, <2>4
  <2>6. QED
    BY <1>1, <2>5
<1>4. CASE RemoteDelete(b)
  BY <1>1, <1>4 DEF RemoteDelete
<1>5. QED
  BY <1>3, <1>4

LEMMA RemoteTypes ==
  ASSUME SessionTypes, NEW b \in Block, RemotePut(b) \/ RemoteDelete(b)
  PROVE  SessionTypes'
<1>1. UNCHANGED <<viewing, views, gone, shown, render, renders, fetches, urls,
                  tool, openings, session, saving, opens, saves, writes, storing>>
  BY RemoteIs
<1>2. CallTypes' /\ readout' \in Promises
  BY RemoteIs, RefreshTypes
<1>3. edits' \in 0..MaxEdits
  BY RemoteIs, FreshTypes
<1>4. doc' \in [Block -> Revision \cup {None}]
  BY RemoteIs DEF SessionTypes, SessionTypeOK
<1>5. SessionTypeOK'
  BY <1>1, <1>2, <1>3, <1>4 DEF SessionTypes, SessionTypeOK
<1>6. QED
  BY <1>1, <1>2, <1>5, Kept DEF SessionTypes

LEMMA DestroyTypes ==
  ASSUME SessionTypes, Destroy
  PROVE  SessionTypes'
<1>1. /\ UNCHANGED <<doc, viewing, views, readout, shown, render, renders, fetches, urls,
                     tool, session, saving, opens, saves, writes, storing, edits>>
      /\ gone' = TRUE
  BY DEF Destroy, rendering
<1>2. CallTypes'
  <2>1. calls' = calls \/ calls' = Append(calls, [do |-> "clear"])
    BY DEF Destroy, Then, Call
  <2>2. [do |-> "clear"] \in CallBack
    BY DEF CallBack
  <2>3. QED
    BY <2>1, <2>2, SeqFacts DEF SessionTypes, CallTypes
<1>3. OpeningTypes'
  <2>1. openings' = openings \/ openings' = Append(openings, None)
    BY DEF Destroy, Then
  <2>2. QED
    BY <2>1, DestroyAsked
<1>4. SessionTypeOK'
  BY <1>1 DEF SessionTypes, SessionTypeOK
<1>5. QED
  BY <1>1, <1>2, <1>3, <1>4, Kept DEF SessionTypes

LEMMA StutterTypes == SessionTypes /\ UNCHANGED sessionVars => SessionTypes'
<1> SUFFICES ASSUME SessionTypes, UNCHANGED sessionVars PROVE SessionTypes'
  OBVIOUS
<1>1. UNCHANGED <<doc, viewing, views, gone, readout, calls, shown, render, renders, fetches, urls,
                  tool, openings, session, saving, opens, saves, writes, storing, edits>>
  BY DEF sessionVars, page, rendering, editor
<1>2. SessionTypeOK'
  BY <1>1 DEF SessionTypes, SessionTypeOK
<1>3. QED
  BY <1>1, <1>2, Kept DEF SessionTypes

LEMMA TypesInductive == SessionTypes /\ [SessionNext]_sessionVars => SessionTypes'
<1> SUFFICES ASSUME SessionTypes, [SessionNext]_sessionVars PROVE SessionTypes'
  OBVIOUS
<1>1. CASE UNCHANGED sessionVars
  BY <1>1, StutterTypes
<1>2. CASE SessionNext
  BY <1>2, ViewTypes, LoadTypes, DoubleTapTypes, RunCallTypes, RunOpeningTypes, AnswerTypes, CancelTypes,
     SaveStarts, SaveEnds, FrameReadyTypes, EditMessageTypes, StateMessageTypes, WriteStateTypes, StoreEnds,
     RemoteTypes, DestroyTypes, Zenon DEF SessionNext
<1>3. QED
  BY <1>1, <1>2

-----------------------------------------------------------------------------
(***************************************************************************)
(* An object URL lives as long as its rendering: each rendering has a      *)
(* number of its own, which its URLs carry.                                *)
(***************************************************************************)

RenderInv == Numbered /\ UrlsFollowBlocks

\* Who renders: the callbacks of the page, the answers and the frames.
LEMMA OnlyRenders ==
  ASSUME SessionNext
  PROVE  \/ RunCall
         \/ \E f \in fetches : Fetched(f)
         \/ \E f \in fetches : FetchFails(f)
         \/ \E b \in Block : FrameReady(b)
         \/ UNCHANGED <<shown, render, renders, urls>>
  BY Zenon DEF SessionNext, View, LoadRenderer, LoadEditor, DoubleTap, RunOpening, Compiled, Cancel, Save,
     Dispatch, ElementFails, EditMessage, StateMessage, WriteState, Stored, StoreFails, RemotePut, RemoteDelete,
     Destroy, rendering

LEMMA KeptRendering ==
  ASSUME RenderInv, UNCHANGED <<render, renders, urls>>
  PROVE  RenderInv'
  BY DEF RenderInv, Numbered, UrlsFollowBlocks

\* A page that is shown has lost what is outdated, and numbered what is new.
LEMMA ShowNumbers ==
  ASSUME SessionTypes, RenderInv, Show
  PROVE  RenderInv'
<1> PICK number :
      /\ Cardinality(New) \in Nat /\ number \in [New -> 1..Cardinality(New)]
      /\ \A b, c \in New : number[b] = number[c] => b = c
      /\ render' = [b \in Block |->
           IF b \in New
             THEN [id |-> renders + number[b], revision |-> doc[b], status |-> "pending"]
             ELSE IF b \in Old THEN None ELSE render[b]]
      /\ urls' = Without(Old)
      /\ renders' = renders + Cardinality(New)
  BY ShowIs
<1>1. renders \in Nat /\ render \in [Block -> Rendering \cup {None}]
  BY DEF SessionTypes, SessionTypeOK
<1>2. \A b \in New : /\ b \in Block /\ doc[b] \in Revision
                     /\ renders + number[b] \in (renders + 1)..(renders + Cardinality(New))
  <2>1. \A b \in New : b \in Block /\ doc[b] \in Revision
    BY DEF New, Wanted, SessionTypes, SessionTypeOK
  <2>2. \A b \in New : number[b] \in 1..Cardinality(New)
    OBVIOUS
  <2>3. QED
    BY <1>1, <2>1, <2>2
<1>3. \A b \in New : [id |-> renders + number[b], revision |-> doc[b], status |-> "pending"] # None
  <2>1. \A b \in New : [id |-> renders + number[b], revision |-> doc[b], status |-> "pending"] \in Rendering
    BY <1>1, <1>2 DEF Rendering
  <2>2. QED
    BY <2>1, NoneAssumption
<1>4. \A b \in Block : b \in New => /\ render'[b] # None /\ render'[b].status = "pending"
                                    /\ render'[b].id = renders + number[b]
  BY <1>3
<1>5. \A b \in Block : b \notin New /\ render'[b] # None => render'[b] = render[b] /\ render[b] # None /\ b \notin Old
  OBVIOUS
<1>6. \A b \in Block : render[b] # None /\ b \notin Old => b \notin New /\ render'[b] = render[b]
  BY DEF New
<1>7. \A b \in Block : render[b] # None => render[b].id \in 1..renders
  BY DEF RenderInv, Numbered
<1>8. \A b, c \in Block : render[b] # None /\ render[c] # None /\ render[b].id = render[c].id => b = c
  BY DEF RenderInv, Numbered
<1>9. Numbered'
  <2>1. ASSUME NEW b \in Block, render'[b] # None PROVE render'[b].id \in 1..renders'
    <3>1. CASE b \in New
      BY <1>1, <1>2, <1>4, <3>1
    <3>2. CASE b \notin New
      BY <1>1, <1>5, <1>7, <2>1, <3>2
    <3>3. QED
      BY <3>1, <3>2
  <2>2. ASSUME NEW b \in Block, NEW c \in Block, render'[b] # None, render'[c] # None, render'[b].id = render'[c].id
        PROVE  b = c
    <3>1. CASE b \in New /\ c \in New
      <4>1. renders + number[b] = renders + number[c]
        BY <1>4, <2>2, <3>1
      <4>2. number[b] \in Nat /\ number[c] \in Nat
        BY <3>1
      <4>3. number[b] = number[c]
        BY <1>1, <4>1, <4>2
      <4>4. QED
        BY <3>1, <4>3
    <3>2. CASE b \notin New /\ c \notin New
      BY <1>5, <1>8, <2>2, <3>2
    <3>3. CASE b \in New /\ c \notin New
      <4>1. render'[b].id = renders + number[b] /\ renders + number[b] > renders
        BY <1>1, <1>2, <1>4, <3>3
      <4>2. render'[c].id \in 1..renders
        BY <1>5, <1>7, <2>2, <3>3
      <4>3. QED
        BY <1>1, <2>2, <4>1, <4>2
    <3>4. CASE b \notin New /\ c \in New
      <4>1. render'[c].id = renders + number[c] /\ renders + number[c] > renders
        BY <1>1, <1>2, <1>4, <3>4
      <4>2. render'[b].id \in 1..renders
        BY <1>5, <1>7, <2>2, <3>4
      <4>3. QED
        BY <1>1, <2>2, <4>1, <4>2
    <3>5. QED
      BY <3>1, <3>2, <3>3, <3>4
  <2>3. QED
    BY <2>1, <2>2 DEF Numbered
<1>10. UrlsFollowBlocks'
  <2>1. ASSUME NEW u \in urls' PROVE \E b \in Block : render'[b] # None /\ render'[b].id = u[1]
    <3>1. u \in urls /\ \A b \in Old : u[1] # render[b].id
      BY <2>1 DEF Without
    <3>2. PICK b \in Block : render[b] # None /\ render[b].id = u[1]
      BY <3>1 DEF RenderInv, UrlsFollowBlocks
    <3>3. b \notin Old
      BY <3>1, <3>2
    <3>4. QED
      BY <1>6, <3>2, <3>3
  <2>2. ASSUME NEW b \in Block, render'[b] # None, render'[b].status = "whole", NEW k \in Parts[b]
        PROVE  <<render'[b].id, k>> \in urls'
    <3>1. b \notin New
      BY <1>4, <2>2
    <3>2. render'[b] = render[b] /\ render[b] # None /\ b \notin Old
      BY <1>5, <2>2, <3>1
    <3>3. <<render[b].id, k>> \in urls
      BY <2>2, <3>2 DEF RenderInv, UrlsFollowBlocks
    <3>4. \A c \in Old : render[b].id # render[c].id
      BY <1>8, <3>2 DEF Old, Outdated
    <3>5. <<render[b].id, k>>[1] = render[b].id
      OBVIOUS
    <3>6. <<render[b].id, k>> \in Without(Old)
      BY <3>3, <3>4, <3>5, Zenon DEF Without
    <3>7. QED
      BY <3>2, <3>6
  <2>3. QED
    BY <2>1, <2>2 DEF UrlsFollowBlocks
<1>11. QED
  BY <1>9, <1>10 DEF RenderInv

LEMMA ClearNumbers ==
  ASSUME SessionTypes, RenderInv, Clear
  PROVE  RenderInv' /\ urls' = {} /\ \A b \in Block : render'[b] = None
<1>1. \A b \in Block : render'[b] = None
  BY DEF Clear
<1>2. urls' = {}
  <2>1. SUFFICES ASSUME NEW u \in urls' PROVE FALSE
    OBVIOUS
  <2>2. u \in urls /\ \A b \in Block : render[b] # None => u[1] # render[b].id
    BY <2>1 DEF Clear, Without
  <2>3. PICK b \in Block : render[b] # None /\ render[b].id = u[1]
    BY <2>2 DEF RenderInv, UrlsFollowBlocks
  <2>4. QED
    BY <2>2, <2>3
<1>3. QED
  BY <1>1, <1>2 DEF RenderInv, Numbered, UrlsFollowBlocks

\* A mark is put on a rendering that goes on.
LEMMA MarkKeeps ==
  ASSUME SessionTypes, NEW f, f.block \in Block, NEW status \in {"whole", "error"},
         render[f.block] # None, Mark(f, status)
  PROVE  /\ \A b \in Block : render'[b] # None <=> render[b] # None
         /\ \A b \in Block : render[b] # None =>
              render'[b].id = render[b].id /\ render'[b].revision = render[b].revision
         /\ \A b \in Block : b # f.block => render'[b] = render[b]
         /\ render'[f.block].status = status
<1> PICK c \in Block : c = f.block
  OBVIOUS
<1>1. render \in [Block -> Rendering \cup {None}] /\ render[c] \in Rendering
  BY DEF SessionTypes, SessionTypeOK
<1>2. render' = [render EXCEPT ![c] = [render[c] EXCEPT !.status = status]]
  BY <1>1 DEF Mark
<1>3. [render[c] EXCEPT !.status = status] = [id |-> render[c].id, revision |-> render[c].revision, status |-> status]
  BY <1>1 DEF Rendering
<1>4. [render[c] EXCEPT !.status = status] # None
  <2>1. [render[c] EXCEPT !.status = status] \in Rendering
    BY <1>1 DEF Rendering
  <2>2. QED
    BY <2>1, NoneAssumption
<1>5. render'[c] = [id |-> render[c].id, revision |-> render[c].revision, status |-> status]
      /\ render'[c] # None /\ render[c] # None
  BY <1>1, <1>2, <1>3, <1>4
<1>6. \A b \in Block : b # c => render'[b] = render[b]
  BY <1>1, <1>2
<1>7. render'[c].id = render[c].id /\ render'[c].revision = render[c].revision /\ render'[c].status = status
  BY <1>5
<1>8. QED
  BY <1>5, <1>6, <1>7

\* Numbers and what is rendered stay; URLs that came belong to a rendering, and
\* what became whole has all of its own.
LEMMA MarkedFollows ==
  ASSUME RenderInv, renders' = renders, urls \subseteq urls',
         \A b \in Block : render'[b] # None <=> render[b] # None,
         \A b \in Block : render[b] # None => render'[b].id = render[b].id,
         \A u \in urls' \ urls : \E b \in Block : render[b] # None /\ render[b].id = u[1],
         \A b \in Block : render[b] # None /\ render'[b].status = "whole" =>
           render[b].status = "whole" \/ \A k \in Parts[b] : <<render[b].id, k>> \in urls'
  PROVE  RenderInv'
<1>1. Numbered'
  BY DEF RenderInv, Numbered
<1>2. ASSUME NEW u \in urls' PROVE \E b \in Block : render'[b] # None /\ render'[b].id = u[1]
  BY DEF RenderInv, UrlsFollowBlocks
<1>3. ASSUME NEW b \in Block, render'[b] # None, render'[b].status = "whole", NEW k \in Parts[b]
      PROVE  <<render'[b].id, k>> \in urls'
  <2>1. render[b] # None /\ render'[b].id = render[b].id
    BY <1>3
  <2>2. CASE render[b].status = "whole"
    <3>1. <<render[b].id, k>> \in urls
      BY <1>3, <2>1, <2>2 DEF RenderInv, UrlsFollowBlocks
    <3>2. QED
      BY <2>1, <3>1
  <2>3. CASE render[b].status # "whole"
    <3>1. <<render[b].id, k>> \in urls'
      BY <1>3, <2>1, <2>3
    <3>2. QED
      BY <2>1, <3>1
  <2>4. QED
    BY <2>2, <2>3
<1>4. QED
  BY <1>1, <1>2, <1>3 DEF RenderInv, UrlsFollowBlocks

LEMMA FetchedFollows ==
  ASSUME SessionTypes, RenderInv, NEW f \in fetches, Fetched(f)
  PROVE  RenderInv'
<1>1. f.block \in Block
  BY DEF SessionTypes, FetchTypes
<1>2. renders' = renders /\ urls' = Received(f)
  BY DEF Fetched
<1>3. urls \subseteq urls'
  BY <1>2 DEF Received
<1>4. ASSUME NEW u \in urls' \ urls PROVE \E b \in Block : render[b] # None /\ render[b].id = u[1]
  <2>1. ~Aborted(f) /\ u = <<f.render, f.part>>
    BY <1>2 DEF Received
  <2>2. render[f.block] # None /\ render[f.block].id = f.render /\ u[1] = f.render
    BY <2>1 DEF Aborted
  <2>3. QED
    BY <1>1, <2>2
<1>5. CASE UNCHANGED render
  BY <1>2, <1>3, <1>4, <1>5, MarkedFollows
<1>6. CASE /\ render[f.block] # None /\ render[f.block].id = f.render
           /\ \A k \in Parts[f.block] : <<f.render, k>> \in urls'
           /\ Mark(f, "whole")
  <2>1. /\ \A b \in Block : render'[b] # None <=> render[b] # None
        /\ \A b \in Block : render[b] # None => render'[b].id = render[b].id
        /\ \A b \in Block : b # f.block => render'[b] = render[b]
    BY <1>1, <1>6, MarkKeeps
  <2>2. \A b \in Block : render[b] # None /\ render'[b].status = "whole" =>
           render[b].status = "whole" \/ \A k \in Parts[b] : <<render[b].id, k>> \in urls'
    BY <1>6, <2>1
  <2>3. QED
    BY <1>2, <1>3, <1>4, <2>1, <2>2, MarkedFollows
<1>7. QED
  BY <1>5, <1>6 DEF Fetched

LEMMA FetchFailsFollows ==
  ASSUME SessionTypes, RenderInv, NEW f \in fetches, FetchFails(f)
  PROVE  RenderInv'
<1>1. f.block \in Block
  BY DEF SessionTypes, FetchTypes
<1>2. renders' = renders /\ urls' = urls
  BY DEF FetchFails
<1>3. CASE UNCHANGED render
  BY <1>2, <1>3, KeptRendering
<1>4. CASE render[f.block] # None /\ Mark(f, "error")
  <2>1. /\ \A b \in Block : render'[b] # None <=> render[b] # None
        /\ \A b \in Block : render[b] # None => render'[b].id = render[b].id
        /\ \A b \in Block : b # f.block => render'[b] = render[b]
        /\ render'[f.block].status = "error"
    BY <1>1, <1>4, MarkKeeps
  <2>2. QED
    BY <1>2, <2>1, MarkedFollows
<1>5. QED
  BY <1>3, <1>4 DEF FetchFails, Aborted

LEMMA FrameReadyFollows ==
  ASSUME SessionTypes, RenderInv, NEW b \in Block, FrameReady(b)
  PROVE  RenderInv'
<1> PICK f : f = [block |-> b]
  OBVIOUS
<1>1. f.block = b /\ render[f.block] # None /\ Mark(f, "whole") /\ renders' = renders /\ urls' = urls
  BY DEF FrameReady
<1>2. Parts[b] = {}
  BY KindAssumption DEF FrameReady
<1>3. /\ \A c \in Block : render'[c] # None <=> render[c] # None
      /\ \A c \in Block : render[c] # None => render'[c].id = render[c].id
      /\ \A c \in Block : c # b => render'[c] = render[c]
  BY <1>1, MarkKeeps
<1>4. QED
  BY <1>1, <1>2, <1>3, MarkedFollows

LEMMA RunCallIs ==
  ASSUME RunCall
  PROVE  \/ Head(calls).do = "edit" /\ EditAt(Head(calls)) /\ UNCHANGED <<shown, render, renders, urls, opens>>
         \/ Head(calls).do = "show" /\ viewing # None /\ Show
              /\ UNCHANGED <<tool, openings, session, saving, opens>>
         \/ Head(calls).do # "edit" /\ (Head(calls).do # "show" \/ viewing = None) /\ Clear
              /\ UNCHANGED <<tool, openings, session, saving, opens>>
<1> PICK call : call = Head(calls)
  OBVIOUS
<1>1. CASE call.do = "edit"
  BY <1>1 DEF RunCall, rendering
<1>2. CASE call.do # "edit" /\ call.do = "show" /\ viewing # None
  BY <1>2 DEF RunCall, editor
<1>3. CASE call.do # "edit" /\ (call.do # "show" \/ viewing = None)
  BY <1>3 DEF RunCall, editor
<1>4. QED
  BY <1>1, <1>2, <1>3

LEMMA RenderInductive == SessionTypes /\ RenderInv /\ [SessionNext]_sessionVars => RenderInv'
<1> SUFFICES ASSUME SessionTypes, RenderInv, [SessionNext]_sessionVars PROVE RenderInv'
  OBVIOUS
<1>1. CASE UNCHANGED <<render, renders, urls>>
  BY <1>1, KeptRendering
<1>2. CASE RunCall
  BY <1>1, <1>2, RunCallIs, ShowNumbers, ClearNumbers
<1>3. CASE \E f \in fetches : Fetched(f) \/ FetchFails(f)
  BY <1>3, FetchedFollows, FetchFailsFollows
<1>4. CASE \E b \in Block : FrameReady(b)
  BY <1>4, FrameReadyFollows
<1>5. CASE UNCHANGED sessionVars
  BY <1>1, <1>5 DEF sessionVars, rendering
<1>6. QED
  BY <1>1, <1>2, <1>3, <1>4, <1>5, OnlyRenders

-----------------------------------------------------------------------------
(***************************************************************************)
(* The page becomes current: as long as it is not, a callback is to come   *)
(* that shows or clears it.                                                *)
(***************************************************************************)

PageInv == Idle /\ Refreshing

\* Callbacks that are asked for behind others.
LEMMA AppendFollows ==
  ASSUME NEW c \in CallBack, calls \in Seq(CallBack), calls' = Append(calls, c)
  PROVE  /\ DOMAIN calls' = 1..(Len(calls) + 1) /\ DOMAIN calls = 1..Len(calls) /\ Len(calls) \in Nat
         /\ \A i \in DOMAIN calls : i \in DOMAIN calls' /\ calls'[i] = calls[i]
         /\ Len(calls) + 1 \in DOMAIN calls' /\ calls'[Len(calls) + 1] = c
         /\ \A i \in DOMAIN calls' : i \in DOMAIN calls \/ i = Len(calls) + 1
<1>1. /\ DOMAIN Append(calls, c) = 1..(Len(calls) + 1) /\ DOMAIN calls = 1..Len(calls) /\ Len(calls) \in Nat
      /\ \A i \in DOMAIN calls : Append(calls, c)[i] = calls[i]
      /\ Append(calls, c)[Len(calls) + 1] = c
  BY SeqFacts
<1>2. QED
  BY <1>1

LEMMA TailFollows ==
  ASSUME calls \in Seq(CallBack), calls # <<>>, calls' = Tail(calls)
  PROVE  /\ Head(calls) = calls[1] /\ 1 \in DOMAIN calls
         /\ DOMAIN calls' = 1..(Len(calls) - 1) /\ DOMAIN calls = 1..Len(calls) /\ Len(calls) \in Nat
         /\ \A i \in DOMAIN calls' : i + 1 \in DOMAIN calls /\ calls'[i] = calls[i + 1]
         /\ \A i \in DOMAIN calls : i # 1 => i - 1 \in DOMAIN calls' /\ calls'[i - 1] = calls[i]
<1>1. /\ Head(calls) = calls[1] /\ Len(calls) > 0 /\ Len(calls) \in Nat /\ DOMAIN calls = 1..Len(calls)
      /\ DOMAIN Tail(calls) = 1..(Len(calls) - 1)
      /\ \A i \in DOMAIN Tail(calls) : i + 1 \in DOMAIN calls /\ Tail(calls)[i] = calls[i + 1]
  BY SeqFacts
<1>2. DOMAIN calls' = 1..(Len(calls) - 1)
      /\ \A i \in DOMAIN calls' : i + 1 \in DOMAIN calls /\ calls'[i] = calls[i + 1]
  BY <1>1
<1>3. ASSUME NEW i \in DOMAIN calls, i # 1
      PROVE  i - 1 \in DOMAIN calls' /\ calls'[i - 1] = calls[i]
  <2>1. i - 1 \in DOMAIN calls' /\ (i - 1) + 1 = i
    BY <1>1, <1>2, <1>3
  <2>2. calls'[i - 1] = calls[(i - 1) + 1]
    BY <1>2, <2>1, Zenon
  <2>3. QED
    BY <2>1, <2>2
<1>4. QED
  BY <1>1, <1>2, <1>3

LEMMA Unwanted == ASSUME NEW b \in Block, viewing = None PROVE ~Wanted(b)
  BY PageAssumption DEF Wanted

LEMMA PageInit == SessionInit => PageInv
<1> SUFFICES ASSUME SessionInit PROVE PageInv
  OBVIOUS
<1>1. \A b \in Block : render[b] = None
  BY DEF SessionInit
<1>2. Current
  BY <1>1, Unwanted DEF Current, SessionInit
<1>3. QED
  BY <1>1, <1>2 DEF SessionInit, PageInv, Idle, Refreshing

\* refreshDocument, wherever it is called.
LEMMA RefreshKeepsPage ==
  ASSUME SessionTypes, PageInv, Refresh, UNCHANGED <<gone, render, urls>>, gone => UNCHANGED viewing
  PROVE  PageInv'
<1>1. calls \in Seq(CallBack) /\ [do |-> "clear"] \in CallBack /\ [do |-> "show"] \in CallBack
  BY DEF SessionTypes, CallTypes, CallBack
<1>2. CASE gone
  <2>1. calls' = calls /\ readout' = readout /\ viewing' = viewing
    BY <1>2, RefreshAsks
  <2>2. QED
    BY <1>2, <2>1 DEF PageInv, Idle, Refreshing
<1>3. CASE ~gone /\ viewing' = None /\ readout = "none"
  <2>1. calls' = calls /\ readout' = readout
    BY <1>3 DEF Refresh
  <2>2. \A b \in Block : render'[b] = None /\ ~Wanted(b)'
    BY <1>3, PageAssumption DEF PageInv, Idle, Wanted
  <2>3. Current'
    BY <2>2 DEF Current
  <2>4. QED
    BY <1>3, <2>1, <2>3 DEF PageInv, Idle, Refreshing
<1>4. CASE ~gone /\ readout = "failed"
  <2>1. calls' = calls /\ readout' = readout
    BY <1>4, RefreshAsks
  <2>2. calls' = <<>>
    BY <1>4, <2>1 DEF PageInv, Idle
  <2>3. QED
    BY <1>4, <2>1, <2>2 DEF PageInv, Idle, Refreshing
<1>5. CASE ~gone /\ readout # "failed" /\ ~(viewing' = None /\ readout = "none")
  <2>1. /\ readout' = IF readout = "none" THEN "loading" ELSE readout
        /\ viewing' = None => calls' = Append(calls, [do |-> "clear"])
        /\ viewing' # None => calls' = Append(calls, [do |-> "show"])
    BY <1>5, RefreshAsks
  <2>2. Idle'
    BY <1>5, <2>1 DEF PageInv, Idle
  <2>3. CASE viewing' = None
    <3>1. calls' = Append(calls, [do |-> "clear"])
      BY <2>1, <2>3
    <3>2. \E i \in DOMAIN calls' : calls'[i].do # "edit"
      BY <1>1, <3>1, AppendFollows
    <3>3. QED
      BY <2>2, <2>3, <3>2 DEF PageInv, Refreshing
  <2>4. CASE viewing' # None
    <3>1. calls' = Append(calls, [do |-> "show"])
      BY <2>1, <2>4
    <3>2. Len(calls) + 1 \in DOMAIN calls' /\ calls'[Len(calls) + 1].do = "show"
      BY <1>1, <3>1, AppendFollows
    <3>3. \A i \in DOMAIN calls' : calls'[i].do = "clear" => Len(calls) + 1 > i
      BY <1>1, <3>1, AppendFollows
    <3>4. QED
      BY <2>2, <3>2, <3>3 DEF PageInv, Refreshing
  <2>5. QED
    BY <2>3, <2>4
<1>6. QED
  BY <1>2, <1>3, <1>4, <1>5

\* The callbacks behind the first keep their order.
LEMMA TailRefreshes ==
  ASSUME calls \in Seq(CallBack), calls # <<>>, calls' = Tail(calls),
         \A i \in DOMAIN calls : calls[i].do = "clear" => \E j \in DOMAIN calls : j > i /\ calls[j].do = "show"
  PROVE  \A i \in DOMAIN calls' : calls'[i].do = "clear" =>
           \E j \in DOMAIN calls' : j > i /\ calls'[j].do = "show"
<1> SUFFICES ASSUME NEW i \in DOMAIN calls', calls'[i].do = "clear"
             PROVE  \E j \in DOMAIN calls' : j > i /\ calls'[j].do = "show"
  OBVIOUS
<1>1. i + 1 \in DOMAIN calls /\ calls[i + 1].do = "clear" /\ i \in Nat /\ DOMAIN calls = 1..Len(calls)
  BY TailFollows
<1>2. PICK j \in DOMAIN calls : j > i + 1 /\ calls[j].do = "show"
  BY <1>1
<1>3. j # 1 /\ j - 1 > i
  BY <1>1, <1>2
<1>4. j - 1 \in DOMAIN calls' /\ calls'[j - 1] = calls[j]
  BY <1>3, TailFollows
<1>5. QED
  BY <1>2, <1>3, <1>4

LEMMA ShowIsCurrent ==
  ASSUME SessionTypes, Show, UNCHANGED <<doc, viewing>>
  PROVE  Current'
<1> PICK number :
      render' = [b \in Block |->
        IF b \in New
          THEN [id |-> renders + number[b], revision |-> doc[b], status |-> "pending"]
          ELSE IF b \in Old THEN None ELSE render[b]]
      /\ number \in [New -> 1..Cardinality(New)] /\ Cardinality(New) \in Nat
  BY ShowIs
<1>1. ASSUME NEW b \in Block
      PROVE  /\ render'[b] # None <=> Wanted(b)
             /\ render'[b] # None => render'[b].revision.version = doc[b].version
  <2>1. CASE b \in New
    <3>1. doc[b] \in Revision /\ Wanted(b) /\ renders + number[b] \in Nat
      BY <2>1 DEF New, Wanted, SessionTypes, SessionTypeOK
    <3>2. [id |-> renders + number[b], revision |-> doc[b], status |-> "pending"] \in Rendering
      BY <3>1 DEF Rendering
    <3>3. render'[b] = [id |-> renders + number[b], revision |-> doc[b], status |-> "pending"]
      BY <2>1
    <3>4. render'[b] # None
      BY <3>2, <3>3, NoneAssumption
    <3>5. QED
      BY <3>1, <3>3, <3>4
  <2>2. CASE b \notin New /\ b \in Old
    <3>1. render'[b] = None
      BY <2>2
    <3>2. ~Wanted(b)
      BY <2>2 DEF New, Old, Outdated
    <3>3. QED
      BY <3>1, <3>2
  <2>3. CASE b \notin New /\ b \notin Old
    <3>1. render'[b] = render[b]
      BY <2>3
    <3>2. QED
      BY <2>3, <3>1 DEF New, Old, Outdated, Wanted
  <2>4. QED
    BY <2>1, <2>2, <2>3
<1>2. QED
  BY <1>1 DEF Current, Wanted

LEMMA RunCallKeepsPage ==
  ASSUME SessionTypes, RenderInv, PageInv, RunCall
  PROVE  PageInv'
<1>1. /\ readout = "ready" /\ calls # <<>> /\ calls' = Tail(calls)
      /\ UNCHANGED <<doc, viewing, gone, readout>>
  BY DEF RunCall, page
<1>2. calls \in Seq(CallBack)
  BY DEF SessionTypes, CallTypes
<1>3. Idle'
  BY <1>1 DEF Idle
<1>4. ASSUME ~gone, viewing # None
      PROVE  \A i \in DOMAIN calls' : calls'[i].do = "clear" =>
               \E j \in DOMAIN calls' : j > i /\ calls'[j].do = "show"
  BY <1>1, <1>2, <1>4, TailRefreshes DEF PageInv, Refreshing
<1>5. ASSUME ~gone PROVE Current' \/ \E i \in DOMAIN calls' : calls'[i].do # "edit"
  <2>1. CASE Head(calls).do = "edit" /\ UNCHANGED render
    <3>1. CASE Current
      BY <1>1, <2>1, <3>1 DEF Current, Wanted
    <3>2. CASE \E i \in DOMAIN calls : calls[i].do # "edit"
      <4>1. PICK i \in DOMAIN calls : calls[i].do # "edit"
        BY <3>2
      <4>2. i # 1
        BY <1>1, <1>2, <2>1, <4>1, TailFollows
      <4>3. i - 1 \in DOMAIN calls' /\ calls'[i - 1] = calls[i]
        BY <1>1, <1>2, <4>2, TailFollows
      <4>4. QED
        BY <4>1, <4>3
    <3>3. QED
      BY <1>1, <1>5, <3>1, <3>2 DEF PageInv, Refreshing
  <2>2. CASE Show
    BY <1>1, <2>2, ShowIsCurrent
  <2>3. CASE Head(calls).do # "edit" /\ (Head(calls).do # "show" \/ viewing = None) /\ Clear
    <3>1. \A b \in Block : render'[b] = None
      BY <2>3 DEF Clear
    <3>2. CASE viewing = None
      BY <1>1, <3>1, <3>2, Unwanted DEF Current, Wanted
    <3>3. CASE viewing # None
      <4>1. Head(calls) = calls[1] /\ 1 \in DOMAIN calls /\ DOMAIN calls = 1..Len(calls)
        BY <1>1, <1>2, TailFollows
      <4>2. calls[1].do = "clear"
        <5>1. calls[1] \in CallBack
          BY <1>2, <4>1, SeqFacts
        <5>2. QED
          BY <2>3, <3>3, <4>1, <5>1 DEF CallBack
      <4>3. PICK j \in DOMAIN calls : j > 1 /\ calls[j].do = "show"
        BY <1>5, <3>3, <4>1, <4>2 DEF PageInv, Refreshing
      <4>4. j - 1 \in DOMAIN calls' /\ calls'[j - 1] = calls[j]
        BY <1>1, <1>2, <4>3, TailFollows
      <4>5. QED
        BY <4>3, <4>4
    <3>4. QED
      BY <3>2, <3>3
  <2>4. QED
    BY <2>1, <2>2, <2>3, RunCallIs
<1>6. QED
  BY <1>1, <1>3, <1>4, <1>5 DEF PageInv, Refreshing

LEMMA LoadKeepsPage ==
  ASSUME PageInv, NEW ok \in BOOLEAN, LoadRenderer(ok)
  PROVE  PageInv'
<1>1. /\ readout = "loading" /\ readout' = IF ok THEN "ready" ELSE "failed"
      /\ calls' = IF ok THEN calls ELSE <<>>
      /\ UNCHANGED <<doc, viewing, gone, render, urls>>
  BY DEF LoadRenderer, page, rendering
<1>2. Idle'
  BY <1>1 DEF PageInv, Idle
<1>3. CASE ok
  <2>1. calls' = calls /\ readout' = "ready"
    BY <1>1, <1>3
  <2>2. Current' <=> Current
    BY <1>1 DEF Current, Wanted
  <2>3. QED
    BY <1>1, <1>2, <2>1, <2>2 DEF PageInv, Refreshing
<1>4. CASE ~ok
  <2>1. calls' = <<>> /\ readout' = "failed"
    BY <1>1, <1>4
  <2>2. QED
    BY <1>2, <2>1 DEF PageInv, Refreshing
<1>5. QED
  BY <1>3, <1>4

LEMMA DoubleTapKeepsPage ==
  ASSUME SessionTypes, PageInv, NEW b \in Block \cup {None}, DoubleTap(b)
  PROVE  PageInv'
<1> PICK c : c = [do |-> "edit", id |-> opens', surface |-> viewing, block |-> b]
  OBVIOUS
<1>1. /\ opens < MaxOpens /\ opens' = opens + 1 /\ viewing # None /\ OpenDocuments(c)
      /\ UNCHANGED <<doc, viewing, gone, render, urls>>
  BY DEF DoubleTap, page, rendering
<1>2. opens' \in 0..MaxOpens /\ viewing \in Surface /\ calls \in Seq(CallBack)
  BY <1>1, SessionBoundAssumption DEF SessionTypes, SessionTypeOK, CallTypes
<1>3. c \in CallBack /\ c.do = "edit"
  BY <1>2 DEF CallBack
<1>4. readout # "none" /\ readout' = readout
  BY <1>1 DEF PageInv, Idle, OpenDocuments
<1>5. Current' <=> Current
  BY <1>1 DEF Current, Wanted
<1>6. CASE readout = "failed"
  <2>1. calls' = calls
    BY <1>1, <1>6 DEF OpenDocuments, Then
  <2>2. QED
    BY <1>1, <1>4, <1>5, <2>1 DEF PageInv, Idle, Refreshing
<1>7. CASE readout # "failed"
  <2>1. calls' = Append(calls, c)
    BY <1>1, <1>7 DEF OpenDocuments, Then
  <2>2. /\ DOMAIN calls' = 1..(Len(calls) + 1)
        /\ \A i \in DOMAIN calls : i \in DOMAIN calls' /\ calls'[i] = calls[i]
        /\ calls'[Len(calls) + 1] = c
        /\ \A i \in DOMAIN calls' : i \in DOMAIN calls \/ i = Len(calls) + 1
    BY <1>2, <1>3, <2>1, AppendFollows
  <2>3. ASSUME ~gone, NEW i \in DOMAIN calls', calls'[i].do = "clear"
        PROVE  \E j \in DOMAIN calls' : j > i /\ calls'[j].do = "show"
    <3>1. i \in DOMAIN calls /\ calls[i].do = "clear"
      BY <1>3, <2>2, <2>3
    <3>2. PICK j \in DOMAIN calls : j > i /\ calls[j].do = "show"
      BY <1>1, <2>3, <3>1 DEF PageInv, Refreshing
    <3>3. QED
      BY <2>2, <3>2
  <2>4. ASSUME ~gone PROVE Current' \/ \E i \in DOMAIN calls' : calls'[i].do # "edit"
    <3>1. Current \/ \E i \in DOMAIN calls : calls[i].do # "edit"
      BY <1>7, <2>4 DEF PageInv, Refreshing
    <3>2. QED
      BY <1>5, <2>2, <3>1
  <2>5. Idle'
    BY <1>1, <1>4, <1>7 DEF PageInv, Idle
  <2>6. QED
    BY <1>1, <2>3, <2>4, <2>5 DEF PageInv, Refreshing
<1>8. QED
  BY <1>6, <1>7

\* An answer changes no revision that is rendered.
LEMMA AnswerKeepsPage ==
  ASSUME SessionTypes, PageInv, UNCHANGED <<doc, viewing, gone, readout, calls>>,
         \A b \in Block : render'[b] # None <=> render[b] # None,
         \A b \in Block : render[b] # None => render'[b].revision = render[b].revision,
         readout # "ready" => urls' = urls
  PROVE  PageInv'
<1>1. Idle'
  BY DEF PageInv, Idle
<1>2. Current => Current'
  BY DEF Current, Wanted
<1>3. QED
  BY <1>1, <1>2 DEF PageInv, Refreshing

LEMMA FetchedKeepsPage ==
  ASSUME SessionTypes, PageInv, NEW f \in fetches, Fetched(f) \/ FetchFails(f)
  PROVE  PageInv'
<1>1. f.block \in Block
  BY DEF SessionTypes, FetchTypes
<1>2. UNCHANGED <<doc, viewing, gone, readout, calls>>
  BY DEF Fetched, FetchFails, page
<1>3. readout # "ready" => urls' = urls
  BY <1>1 DEF Fetched, FetchFails, Received, Aborted, PageInv, Idle
<1>4. CASE UNCHANGED render
  BY <1>2, <1>3, <1>4, AnswerKeepsPage
<1>5. CASE \E status \in {"whole", "error"} : render[f.block] # None /\ Mark(f, status)
  BY <1>1, <1>2, <1>3, <1>5, MarkKeeps, AnswerKeepsPage
<1>6. QED
  BY <1>4, <1>5 DEF Fetched, FetchFails, Aborted

LEMMA FrameReadyKeepsPage ==
  ASSUME SessionTypes, PageInv, NEW b \in Block, FrameReady(b)
  PROVE  PageInv'
<1> PICK f : f = [block |-> b]
  OBVIOUS
<1>1. f.block \in Block /\ render[f.block] # None /\ Mark(f, "whole")
      /\ UNCHANGED <<doc, viewing, gone, readout, calls, urls>>
  BY DEF FrameReady, page
<1>2. QED
  BY <1>1, MarkKeeps, AnswerKeepsPage

LEMMA DestroyKeepsPage == ASSUME PageInv, Destroy PROVE PageInv'
<1>1. /\ gone' = TRUE
      /\ UNCHANGED <<doc, viewing, readout, render, urls>>
      /\ readout = "none" \/ readout = "failed" => calls' = calls
  BY DEF Destroy, rendering, Then
<1>2. QED
  BY <1>1 DEF PageInv, Idle, Refreshing

\* What changes the page or what it waits for.
LEMMA OnlyPages ==
  ASSUME SessionNext
  PROVE  \/ /\ Refresh /\ UNCHANGED <<gone, render, urls>> /\ (gone => UNCHANGED viewing)
         \/ \E ok \in BOOLEAN : LoadRenderer(ok)
         \/ \E b \in Block \cup {None} : DoubleTap(b)
         \/ RunCall
         \/ \E f \in fetches : Fetched(f) \/ FetchFails(f)
         \/ \E b \in Block : FrameReady(b)
         \/ Destroy
         \/ UNCHANGED <<doc, viewing, gone, readout, calls, render, urls>>
<1>1. CASE \E s \in Surface \cup {None} : View(s)
  BY <1>1, Zenon DEF View, Event, rendering
<1>2. CASE \E d \in storing : Stored(d)
  BY <1>2, Zenon DEF Stored, page, rendering
<1>3. CASE \E b \in Block : RemotePut(b) \/ RemoteDelete(b)
  BY <1>3, Zenon DEF RemotePut, RemoteDelete, page, rendering
<1>4. CASE \/ \E ok \in BOOLEAN : LoadEditor(ok)
           \/ RunOpening
           \/ \E f \in fetches : Compiled(f)
           \/ Cancel
           \/ \E upload \in BOOLEAN : Save(upload)
           \/ \E s \in saves : Dispatch(s)
           \/ \E s \in saves : ElementFails(s)
           \/ \E b \in Block : EditMessage(b)
           \/ \E b \in Block : StateMessage(b)
           \/ \E w \in writes : WriteState(w)
           \/ \E d \in storing : StoreFails(d)
  BY <1>4, Zenon DEF LoadEditor, RunOpening, Compiled, Cancel, Save, Dispatch, ElementFails, EditMessage,
     StateMessage, WriteState, StoreFails, page, rendering
<1>5. QED
  BY <1>1, <1>2, <1>3, <1>4, Zenon DEF SessionNext

LEMMA PageInductive ==
  SessionTypes /\ RenderInv /\ PageInv /\ [SessionNext]_sessionVars => PageInv'
<1> SUFFICES ASSUME SessionTypes, RenderInv, PageInv, [SessionNext]_sessionVars PROVE PageInv'
  OBVIOUS
<1>1. CASE UNCHANGED <<doc, viewing, gone, readout, calls, render, urls>>
  BY <1>1 DEF PageInv, Idle, Refreshing, Current, Wanted
<1>2. CASE UNCHANGED sessionVars
  BY <1>1, <1>2 DEF sessionVars, page, rendering
<1>3. CASE Refresh /\ UNCHANGED <<gone, render, urls>> /\ (gone => UNCHANGED viewing)
  BY <1>3, RefreshKeepsPage
<1>4. CASE \E ok \in BOOLEAN : LoadRenderer(ok)
  BY <1>4, LoadKeepsPage
<1>5. CASE \E b \in Block \cup {None} : DoubleTap(b)
  BY <1>5, DoubleTapKeepsPage
<1>6. CASE RunCall \/ Destroy
  BY <1>6, RunCallKeepsPage, DestroyKeepsPage
<1>7. CASE \E f \in fetches : Fetched(f) \/ FetchFails(f)
  BY <1>7, FetchedKeepsPage
<1>8. CASE \E b \in Block : FrameReady(b)
  BY <1>8, FrameReadyKeepsPage
<1>9. CASE SessionNext
  <2>1. \/ Refresh /\ UNCHANGED <<gone, render, urls>> /\ (gone => UNCHANGED viewing)
        \/ \E ok \in BOOLEAN : LoadRenderer(ok)
        \/ \E b \in Block \cup {None} : DoubleTap(b)
        \/ RunCall \/ Destroy
        \/ \E f \in fetches : Fetched(f) \/ FetchFails(f)
        \/ \E b \in Block : FrameReady(b)
        \/ UNCHANGED <<doc, viewing, gone, readout, calls, render, urls>>
    BY <1>9, OnlyPages, Zenon
  <2>2. QED
    BY <1>1, <1>3, <1>4, <1>5, <1>6, <1>7, <1>8, <2>1, Zenon
<1>10. QED
  BY <1>2, <1>9

LEMMA PageShown == PageInv => PageIsCurrent
<1> SUFFICES ASSUME PageInv, readout = "ready", calls = <<>>, ~gone
             PROVE  Current
  BY DEF PageIsCurrent, Current
<1>1. ~\E i \in DOMAIN calls : calls[i].do # "edit"
  OBVIOUS
<1>2. QED
  BY <1>1 DEF PageInv, Refreshing

-----------------------------------------------------------------------------
(***************************************************************************)
(* A page that is left keeps nothing.                                      *)
(***************************************************************************)

LEMMA RunCallLeaves ==
  ASSUME SessionTypes, RenderInv, PageLeft, RunCall
  PROVE  PageLeft'
<1>1. /\ readout = "ready" /\ calls # <<>> /\ calls' = Tail(calls) /\ UNCHANGED <<gone, readout>>
  BY DEF RunCall, page
<1>2. calls \in Seq(CallBack)
  BY DEF SessionTypes, CallTypes
<1>3. CASE gone
  <2>1. calls[Len(calls)].do = "clear" /\ Len(calls) \in Nat /\ Len(calls) > 0
    BY <1>1, <1>2, <1>3, SeqFacts DEF PageLeft
  <2>2. CASE Len(calls) = 1
    <3>1. Head(calls).do = "clear"
      BY <1>1, <1>2, <2>1, <2>2, SeqFacts
    <3>2. Clear
      BY <3>1, RunCallIs
    <3>3. urls' = {} /\ \A b \in Block : render'[b] = None
      BY <3>2, ClearNumbers
    <3>4. calls' = <<>>
      <4>1. Tail(calls) \in Seq(CallBack) /\ Len(Tail(calls)) = 0
        BY <1>1, <1>2, <2>2, SeqFacts
      <4>2. Tail(calls) = <<>>
        BY <4>1, SeqFacts
      <4>3. QED
        BY <1>1, <4>2
    <3>5. QED
      BY <3>3, <3>4 DEF PageLeft
  <2>3. CASE Len(calls) > 1
    <3>1. calls' \in Seq(CallBack) /\ Len(calls') = Len(calls) - 1
      BY <1>1, <1>2, SeqFacts
    <3>2. calls' # <<>>
      BY <2>1, <2>3, <3>1
    <3>3. calls'[Len(calls')] = calls[Len(calls)]
      <4>1. Len(calls) \in DOMAIN calls /\ Len(calls) # 1
        BY <1>2, <2>1, <2>3
      <4>2. calls'[Len(calls) - 1] = calls[Len(calls)]
        BY <1>1, <1>2, <4>1, TailFollows
      <4>3. QED
        BY <3>1, <4>2
    <3>4. calls'[Len(calls')].do = "clear"
      BY <2>1, <3>3, Zenon
    <3>5. QED
      BY <3>2, <3>4 DEF PageLeft
  <2>4. Len(calls) = 1 \/ Len(calls) > 1
    <3>1. Len(calls) \in Nat /\ Len(calls) > 0
      BY <1>1, <1>2, NonEmpty
    <3>2. QED
      BY <3>1
  <2>5. QED
    BY <2>2, <2>3, <2>4, Zenon
<1>4. CASE ~gone
  BY <1>1, <1>4 DEF PageLeft
<1>5. QED
  BY <1>3, <1>4

LEMMA DestroyLeaves ==
  ASSUME SessionTypes, PageInv, Destroy
  PROVE  PageLeft'
<1>1. /\ UNCHANGED <<readout, render, urls>>
      /\ calls' = IF readout = "none" THEN calls ELSE Then(readout, calls, Call("clear"))
  BY DEF Destroy, rendering
<1>2. calls \in Seq(CallBack) /\ [do |-> "clear"] \in CallBack
  BY DEF SessionTypes, CallTypes, CallBack
<1>3. CASE readout = "none" \/ readout = "failed"
  <2>1. calls' = <<>> /\ urls = {} /\ \A b \in Block : render[b] = None
    BY <1>1, <1>3 DEF PageInv, Idle, Then
  <2>2. QED
    BY <1>1, <2>1 DEF PageLeft
<1>4. CASE readout # "none" /\ readout # "failed"
  <2>1. calls' = Append(calls, [do |-> "clear"])
    BY <1>1, <1>4 DEF Then, Call
  <2>2. calls' # <<>> /\ Len(calls') = Len(calls) + 1 /\ calls'[Len(calls) + 1] = [do |-> "clear"]
    BY <1>2, <2>1, SeqFacts
  <2>3. calls'[Len(calls')].do = "clear"
    BY <2>2
  <2>4. QED
    BY <2>2, <2>3 DEF PageLeft
<1>5. QED
  BY <1>3, <1>4

LEMMA PageLeftInductive ==
  SessionTypes /\ RenderInv /\ PageInv /\ PageLeft /\ [SessionNext]_sessionVars => PageLeft'
<1> SUFFICES ASSUME SessionTypes, RenderInv, PageInv, PageLeft, [SessionNext]_sessionVars PROVE PageLeft'
  OBVIOUS
<1>1. CASE UNCHANGED <<gone, readout, calls, render, urls>>
  BY <1>1 DEF PageLeft
<1>2. CASE UNCHANGED sessionVars
  BY <1>1, <1>2 DEF sessionVars, page, rendering
<1>3. CASE Refresh /\ UNCHANGED <<gone, render, urls>>
  <2>1. CASE gone
    BY <1>1, <1>3, <2>1, RefreshAsks
  <2>2. CASE ~gone
    BY <1>3, <2>2 DEF PageLeft
  <2>3. QED
    BY <2>1, <2>2
<1>4. CASE \E ok \in BOOLEAN : LoadRenderer(ok)
  <2>1. /\ readout = "loading" /\ UNCHANGED <<gone, render, urls>>
        /\ calls' = calls \/ calls' = <<>>
    BY <1>4 DEF LoadRenderer, page, rendering
  <2>2. urls = {} /\ \A b \in Block : render[b] = None
    BY <2>1 DEF PageInv, Idle
  <2>3. gone /\ calls # <<>> => calls[Len(calls)].do = "clear"
    BY <2>1 DEF PageLeft
  <2>4. QED
    BY <2>1, <2>2, <2>3 DEF PageLeft
<1>5. CASE \E b \in Block \cup {None} : DoubleTap(b)
  <2>1. ~gone /\ gone' = gone
    BY <1>5 DEF DoubleTap, Event, page
  <2>2. QED
    BY <2>1 DEF PageLeft
<1>6. CASE RunCall
  BY <1>6, RunCallLeaves
<1>7. CASE Destroy
  BY <1>7, DestroyLeaves
<1>8. CASE \E f \in fetches : Fetched(f) \/ FetchFails(f)
  <2>1. PICK f \in fetches : Fetched(f) \/ FetchFails(f)
    BY <1>8
  <2>2. UNCHANGED <<gone, readout, calls>> /\ f.block \in Block
    BY <2>1 DEF Fetched, FetchFails, page, SessionTypes, FetchTypes
  <2>3. CASE render[f.block] = None
    BY <1>1, <2>1, <2>2, <2>3 DEF Fetched, FetchFails, Received, Aborted
  <2>4. CASE render[f.block] # None
    BY <2>2, <2>4 DEF PageLeft
  <2>5. QED
    BY <2>3, <2>4
<1>9. CASE \E b \in Block : FrameReady(b)
  <2>1. PICK b \in Block : FrameReady(b)
    BY <1>9
  <2>2. UNCHANGED <<gone, readout, calls>> /\ render[b] # None
    BY <2>1 DEF FrameReady, page
  <2>3. QED
    BY <2>2 DEF PageLeft
<1>10. CASE SessionNext
  <2>1. \/ Refresh /\ UNCHANGED <<gone, render, urls>>
        \/ \E ok \in BOOLEAN : LoadRenderer(ok)
        \/ \E b \in Block \cup {None} : DoubleTap(b)
        \/ RunCall \/ Destroy
        \/ \E f \in fetches : Fetched(f) \/ FetchFails(f)
        \/ \E b \in Block : FrameReady(b)
        \/ UNCHANGED <<gone, readout, calls, render, urls>>
    BY <1>10, OnlyPages
  <2>2. QED
    BY <1>1, <1>3, <1>4, <1>5, <1>6, <1>7, <1>8, <1>9, <2>1, Zenon
<1>11. QED
  BY <1>2, <1>10

\* Whatever is asked of the editor leaves what was asked before.
LEMMA AppendKeeps ==
  ASSUME NEW S, NEW q \in Seq(S), NEW x
  PROVE  \A i \in DOMAIN q : i \in DOMAIN Append(q, x) /\ Append(q, x)[i] = q[i]
  OBVIOUS

LEMMA AskedKeeps ==
  ASSUME SessionTypes, EditorLeft, NEW asked, EditDocument(asked), UNCHANGED gone
  PROVE  EditorLeft'
<1>1. openings \in Seq(Opening \cup {None})
  BY DEF SessionTypes, OpeningTypes
<1>2. /\ openings' = openings \/ openings' = Append(openings, asked)
      /\ UNCHANGED session /\ (tool' = tool \/ tool = "none")
  BY DEF EditDocument, Then
<1>3. \A i \in DOMAIN openings : i \in DOMAIN openings' /\ openings'[i] = openings[i]
  <2>1. \A i \in DOMAIN openings :
          i \in DOMAIN Append(openings, asked) /\ Append(openings, asked)[i] = openings[i]
    BY <1>1, AppendKeeps
  <2>2. QED
    BY <1>2, <2>1
<1>4. tool' # "ready" => session' = None
  BY <1>2 DEF EditorLeft
<1>5. QED
  BY <1>2, <1>3, <1>4 DEF EditorLeft

LEMMA RunOpeningLeaves ==
  ASSUME SessionTypes, EditorLeft, RunOpening
  PROVE  EditorLeft'
<1>1. /\ tool = "ready" /\ openings # <<>> /\ openings' = Tail(openings) /\ UNCHANGED <<tool, gone>>
  BY DEF RunOpening, page
<1>2. CASE ~gone
  BY <1>1, <1>2 DEF EditorLeft
<1>3. CASE gone /\ Head(openings) = None
  <2>1. session' = None
    BY <1>3 DEF RunOpening, Opens, CloseEditor
  <2>2. QED
    BY <2>1 DEF EditorLeft
<1>4. CASE gone /\ Head(openings) # None
  <2>1. session' = session
    BY <1>4 DEF RunOpening, Opens
  <2>2. ASSUME session # None PROVE \E i \in DOMAIN openings' : openings'[i] = None
    <3>1. openings \in Seq(Opening \cup {None})
      BY DEF SessionTypes, OpeningTypes
    <3>2. PICK i \in DOMAIN openings : openings[i] = None
      BY <1>4, <2>2 DEF EditorLeft
    <3>3. /\ Head(openings) = openings[1] /\ DOMAIN openings = 1..Len(openings) /\ Len(openings) \in Nat
          /\ DOMAIN Tail(openings) = 1..(Len(openings) - 1)
          /\ \A j \in DOMAIN Tail(openings) : Tail(openings)[j] = openings[j + 1]
      BY <1>1, <3>1, SeqFacts
    <3>4. i # 1
      BY <1>4, <3>2, <3>3
    <3>5. i - 1 \in DOMAIN Tail(openings) /\ (i - 1) + 1 = i
      BY <3>2, <3>3, <3>4
    <3>6. Tail(openings)[i - 1] = openings[(i - 1) + 1]
      BY <3>3, <3>5, Zenon
    <3>7. QED
      BY <1>1, <3>2, <3>5, <3>6
  <2>3. QED
    BY <1>1, <2>1, <2>2 DEF EditorLeft
<1>5. QED
  BY <1>2, <1>3, <1>4

LEMMA EditorDestroyed ==
  ASSUME SessionTypes, EditorLeft, Destroy
  PROVE  EditorLeft'
<1>1. /\ UNCHANGED <<tool, session>>
      /\ openings' = IF tool = "none" THEN openings ELSE Then(tool, openings, None)
  BY DEF Destroy
<1>2. CASE tool # "ready"
  BY <1>1, <1>2 DEF EditorLeft
<1>3. CASE tool = "ready"
  <2>1. openings' = Append(openings, None)
    BY <1>1, <1>3 DEF Then
  <2>2. openings \in Seq(Opening \cup {None}) /\ None \in Opening \cup {None}
    BY DEF SessionTypes, OpeningTypes
  <2>3. Len(openings) + 1 \in DOMAIN openings' /\ openings'[Len(openings) + 1] = None
    BY <2>1, <2>2, SeqFacts
  <2>4. QED
    BY <1>1, <1>3, <2>3 DEF EditorLeft
<1>4. QED
  BY <1>2, <1>3

LEMMA RunCallLeavesEditor ==
  ASSUME SessionTypes, EditorLeft, RunCall
  PROVE  EditorLeft'
<1>1. gone' = gone
  BY DEF RunCall, page
<1>2. CASE UNCHANGED <<tool, openings, session>>
  BY <1>1, <1>2 DEF EditorLeft
<1>3. CASE \E asked : EditDocument(asked)
  BY <1>1, <1>3, AskedKeeps
<1>4. ASSUME EditAt(Head(calls)), ~UNCHANGED <<tool, openings, session>>
      PROVE  \E asked : EditDocument(asked)
  BY <1>4 DEF EditAt
<1>5. QED
  BY <1>2, <1>3, <1>4, RunCallIs

LEMMA OnlyEdits ==
  ASSUME SessionNext
  PROVE  \/ \E ok \in BOOLEAN : LoadEditor(ok)
         \/ RunCall
         \/ RunOpening
         \/ \E b \in Block : EditMessage(b)
         \/ Destroy
         \/ CloseEditor /\ UNCHANGED <<gone, tool, openings>>
         \/ UNCHANGED <<gone, tool, openings, session>>
<1>1. CASE \E d \in storing : Stored(d)
  BY <1>1, Zenon DEF Stored, page, editor
<1>2. CASE \E d \in storing : StoreFails(d)
  BY <1>2, Zenon DEF StoreFails, SaveFails, page, editor
<1>3. CASE \E s \in saves : Dispatch(s)
  BY <1>3, Zenon DEF Dispatch, SaveFails, page, editor
<1>4. CASE \E s \in saves : ElementFails(s)
  BY <1>4, Zenon DEF ElementFails, SaveFails, page, editor
<1>5. CASE \/ \E s \in Surface \cup {None} : View(s)
           \/ \E ok \in BOOLEAN : LoadRenderer(ok)
           \/ \E b \in Block \cup {None} : DoubleTap(b)
           \/ \E f \in fetches : Compiled(f)
           \/ \E f \in fetches : Fetched(f)
           \/ \E f \in fetches : FetchFails(f)
           \/ Cancel
           \/ \E upload \in BOOLEAN : Save(upload)
           \/ \E b \in Block : FrameReady(b)
           \/ \E b \in Block : StateMessage(b)
           \/ \E w \in writes : WriteState(w)
           \/ \E b \in Block : RemotePut(b)
           \/ \E b \in Block : RemoteDelete(b)
  BY <1>5, Zenon DEF View, LoadRenderer, DoubleTap, Compiled, Fetched, FetchFails, Cancel, Save, FrameReady,
     StateMessage, WriteState, RemotePut, RemoteDelete, page, editor
<1>6. QED
  BY <1>1, <1>2, <1>3, <1>4, <1>5, Zenon DEF SessionNext

LEMMA EditorLeftInductive ==
  SessionTypes /\ EditorLeft /\ [SessionNext]_sessionVars => EditorLeft'
<1> SUFFICES ASSUME SessionTypes, EditorLeft, [SessionNext]_sessionVars PROVE EditorLeft'
  OBVIOUS
<1>1. CASE UNCHANGED <<gone, tool, openings, session>>
  BY <1>1 DEF EditorLeft
<1>2. CASE UNCHANGED sessionVars
  BY <1>1, <1>2 DEF sessionVars, page, editor
<1>3. CASE \E ok \in BOOLEAN : LoadEditor(ok)
  <2>1. tool = "loading" /\ UNCHANGED session
    BY <1>3 DEF LoadEditor
  <2>2. QED
    BY <2>1 DEF EditorLeft
<1>4. CASE RunCall \/ RunOpening \/ Destroy
  BY <1>4, RunCallLeavesEditor, RunOpeningLeaves, EditorDestroyed
<1>5. CASE \E b \in Block : EditMessage(b)
  <2>1. gone' = gone /\ \E asked : EditDocument(asked)
    BY <1>5 DEF EditMessage, page
  <2>2. QED
    BY <2>1, AskedKeeps
<1>6. CASE CloseEditor /\ UNCHANGED <<gone, tool, openings>>
  BY <1>6 DEF CloseEditor, EditorLeft
<1>7. CASE SessionNext
  <2>1. \/ \E ok \in BOOLEAN : LoadEditor(ok)
        \/ RunCall \/ RunOpening \/ Destroy
        \/ \E b \in Block : EditMessage(b)
        \/ CloseEditor /\ UNCHANGED <<gone, tool, openings>>
        \/ UNCHANGED <<gone, tool, openings, session>>
    BY <1>7, OnlyEdits, Zenon
  <2>2. QED
    BY <1>1, <1>3, <1>4, <1>5, <1>6, <2>1, Zenon
<1>8. QED
  BY <1>2, <1>7

LEMMA NothingLeft == PageLeft /\ EditorLeft => LeavesNothing
<1> SUFFICES ASSUME PageLeft, EditorLeft, gone, calls = <<>>, openings = <<>>
             PROVE  (\A b \in Block : render[b] = None) /\ urls = {} /\ session = None
  BY DEF LeavesNothing
<1>1. ~\E i \in DOMAIN openings : openings[i] = None
  OBVIOUS
<1>2. QED
  BY <1>1 DEF PageLeft, EditorLeft

-----------------------------------------------------------------------------
(***************************************************************************)
(* The states of a frame are stored in the order of its messages: whatever *)
(* holds one holds an older one.                                           *)
(***************************************************************************)

\* What is older stays older in this step.
Ages ==
  \A st \in State : Older(st, edits, writes, storing) => Older(st, edits', writes', storing')

\* A message arrives, is dispatched in its turn, or neither.
LEMMA OnlyChains ==
  ASSUME SessionTypes, SessionNext
  PROVE  \/ \E b \in Block : StateMessage(b)
         \/ \E w \in writes : WriteState(w)
         \/ /\ writes' = writes /\ (edits' = edits \/ edits' = edits + 1)
            /\ \A d \in storing' : d \in storing \/ d.by = "session"
<1>1. CASE \E s \in saves : Dispatch(s)
  <2>1. PICK s \in saves : Dispatch(s)
    BY <1>1
  <2>2. writes' = writes /\ edits' = edits
    BY <2>1 DEF Dispatch
  <2>3. storing' = storing \/ \E d : storing' = storing \cup {d} /\ d.by = "session"
    BY <2>1, DispatchIs, Zenon
  <2>4. QED
    BY <2>2, <2>3
<1>2. CASE \E d \in storing : Stored(d) \/ StoreFails(d)
  <2>1. writes' = writes /\ edits' = edits /\ storing' \subseteq storing
    BY <1>2 DEF Stored, StoreFails
  <2>2. QED
    BY <2>1
<1>3. CASE (\E upload \in BOOLEAN : Save(upload)) \/ (\E b \in Block : RemotePut(b) \/ RemoteDelete(b))
  <2>1. writes' = writes /\ edits' = edits + 1 /\ storing' = storing
    BY <1>3 DEF Save, RemotePut, RemoteDelete, FreshEdit
  <2>2. QED
    BY <2>1
<1>4. CASE UNCHANGED <<writes, storing, edits>>
  BY <1>4
<1>5. ASSUME \/ \E s \in Surface \cup {None} : View(s)
             \/ \E ok \in BOOLEAN : LoadRenderer(ok)
             \/ \E ok \in BOOLEAN : LoadEditor(ok)
             \/ \E b \in Block \cup {None} : DoubleTap(b)
             \/ RunCall
             \/ RunOpening
             \/ \E f \in fetches : Compiled(f)
             \/ \E f \in fetches : Fetched(f)
             \/ \E f \in fetches : FetchFails(f)
             \/ Cancel
             \/ \E s \in saves : ElementFails(s)
             \/ \E b \in Block : FrameReady(b)
             \/ \E b \in Block : EditMessage(b)
             \/ Destroy
      PROVE  UNCHANGED <<writes, storing, edits>>
  BY <1>5, Zenon DEF View, LoadRenderer, LoadEditor, DoubleTap, RunCall, RunOpening, Compiled, Fetched, FetchFails,
     Cancel, ElementFails, FrameReady, EditMessage, Destroy
<1>6. QED
  BY <1>1, <1>2, <1>3, <1>4, <1>5, Zenon DEF SessionNext

LEMMA MessageChained ==
  ASSUME SessionTypes, RenderInv, Chained, NEW b \in Block, StateMessage(b)
  PROVE  Chained' /\ Ages
<1> PICK w : w = [frame |-> render[b].id, block |-> b, n |-> edits']
  OBVIOUS
<1>1. writes' = writes \cup {w} /\ storing' = storing /\ edits' = edits + 1 /\ edits \in Nat /\ render[b] # None
  BY DEF StateMessage, FreshEdit, Runs, SessionTypes, SessionTypeOK
<1>2. render[b].id \in 1..renders /\ renders \in Nat
  BY <1>1 DEF RenderInv, Numbered, SessionTypes, SessionTypeOK
<1>3. w.frame > 0 /\ w.n = edits + 1
  BY <1>1, <1>2
<1>4. \A v \in writes : v.frame > 0 /\ v.n <= edits /\ v.n \in Nat
  BY DEF Chained, SessionTypes, WriteTypes
<1>5. \A d \in storing : d.n \in Nat /\ d.from \in Nat
  BY DEF SessionTypes, StoreTypes
<1>6. Chained'
  <2>1. \A v \in writes' : v.frame > 0 /\ v.n <= edits'
    BY <1>1, <1>3, <1>4
  <2>2. \A u, v \in writes' : u.n = v.n => u = v
    BY <1>1, <1>3, <1>4 DEF Chained
  <2>3. ASSUME NEW d \in storing', d.by = "frame"
        PROVE  /\ d.from > 0 /\ d.n <= edits' /\ d.put.state = [frame |-> d.from, n |-> d.n]
               /\ \A v \in writes' : v.frame = d.from => d.n < v.n
               /\ \A e \in storing' : e.by = "frame" /\ e.from = d.from => e = d
    <3>1. /\ d \in storing /\ d.from > 0 /\ d.n <= edits /\ d.put.state = [frame |-> d.from, n |-> d.n]
          /\ \A v \in writes : v.frame = d.from => d.n < v.n
          /\ \A e \in storing : e.by = "frame" /\ e.from = d.from => e = d
      BY <1>1, <2>3 DEF Chained
    <3>2. d.n <= edits' /\ d.n < w.n
      BY <1>1, <1>3, <1>5, <3>1
    <3>3. QED
      BY <1>1, <3>1, <3>2
  <2>4. QED
    BY <2>1, <2>2, <2>3 DEF Chained
<1>7. Ages
  <2> SUFFICES ASSUME NEW st \in State, Older(st, edits, writes, storing)
               PROVE  Older(st, edits', writes', storing')
    BY DEF Ages
  <2>1. st.n \in Nat /\ st.n <= edits
    BY DEF State, Older
  <2>2. st.n <= edits' /\ st.n < w.n
    BY <1>1, <1>3, <2>1
  <2>3. QED
    BY <1>1, <2>2 DEF Older
<1>8. QED
  BY <1>6, <1>7

LEMMA TurnChained ==
  ASSUME SessionTypes, Chained, NEW w \in writes, WriteState(w)
  PROVE  Chained' /\ Ages
<1>1. /\ Turn(w) /\ writes' = writes \ {w} /\ edits' = edits
      /\ storing' = storing \/ storing' = storing \cup {Staged(w)}
  BY WriteStateIs
<1> PICK d : d = Staged(w)
  OBVIOUS
<1>2. d.by = "frame" /\ d.from = w.frame /\ d.n = w.n /\ d.put.state = [frame |-> w.frame, n |-> w.n]
  BY DEF Staged
<1>3. \A v \in writes : v.n \in Nat
  BY DEF SessionTypes, WriteTypes
<1>4. /\ w.frame > 0 /\ w.n <= edits
      /\ \A v \in writes : v # w /\ v.frame = w.frame => w.n < v.n
      /\ \A e \in storing : e.by = "frame" => e.from # w.frame
  BY <1>1, <1>3 DEF Chained, Turn
<1>5. Chained'
  <2>1. \A v \in writes' : v.frame > 0 /\ v.n <= edits'
    BY <1>1 DEF Chained
  <2>2. \A u, v \in writes' : u.n = v.n => u = v
    BY <1>1 DEF Chained
  <2>3. ASSUME NEW c \in storing', c.by = "frame"
        PROVE  /\ c.from > 0 /\ c.n <= edits' /\ c.put.state = [frame |-> c.from, n |-> c.n]
               /\ \A v \in writes' : v.frame = c.from => c.n < v.n
               /\ \A e \in storing' : e.by = "frame" /\ e.from = c.from => e = c
    <3>1. CASE c \in storing
      <4>1. /\ c.from > 0 /\ c.n <= edits /\ c.put.state = [frame |-> c.from, n |-> c.n]
            /\ \A v \in writes : v.frame = c.from => c.n < v.n
            /\ \A e \in storing : e.by = "frame" /\ e.from = c.from => e = c
        BY <2>3, <3>1 DEF Chained
      <4>2. c.from # w.frame
        BY <1>4, <2>3, <3>1
      <4>3. QED
        BY <1>1, <1>2, <4>1, <4>2
    <3>2. CASE c = d
      BY <1>1, <1>2, <1>4, <3>2
    <3>3. QED
      BY <1>1, <3>1, <3>2
  <2>4. QED
    BY <2>1, <2>2, <2>3 DEF Chained
<1>6. Ages
  <2> SUFFICES ASSUME NEW st \in State, Older(st, edits, writes, storing)
               PROVE  Older(st, edits', writes', storing')
    BY DEF Ages
  <2>1. w.frame = st.frame => st.n < w.n
    BY DEF Older
  <2>2. QED
    BY <1>1, <1>2, <2>1 DEF Older
<1>7. QED
  BY <1>5, <1>6

LEMMA RestChained ==
  ASSUME SessionTypes, Chained, writes' = writes, edits' = edits \/ edits' = edits + 1,
         \A d \in storing' : d \in storing \/ d.by = "session"
  PROVE  Chained' /\ Ages
<1>1. edits \in Nat /\ (\A w \in writes : w.n \in Nat) /\ \A d \in storing : d.n \in Nat
  BY DEF SessionTypes, SessionTypeOK, WriteTypes, StoreTypes
<1>2. \A x \in Nat : x <= edits => x <= edits'
  BY <1>1
<1>3. Chained'
  <2>1. \A v \in writes' : v.frame > 0 /\ v.n <= edits'
    BY <1>1, <1>2 DEF Chained
  <2>2. \A u, v \in writes' : u.n = v.n => u = v
    BY DEF Chained
  <2>3. ASSUME NEW c \in storing', c.by = "frame"
        PROVE  /\ c.from > 0 /\ c.n <= edits' /\ c.put.state = [frame |-> c.from, n |-> c.n]
               /\ \A v \in writes' : v.frame = c.from => c.n < v.n
               /\ \A e \in storing' : e.by = "frame" /\ e.from = c.from => e = c
    <3>1. c \in storing /\ \A e \in storing' : e.by = "frame" => e \in storing
      BY <2>3
    <3>2. /\ c.from > 0 /\ c.n <= edits /\ c.put.state = [frame |-> c.from, n |-> c.n]
          /\ \A v \in writes : v.frame = c.from => c.n < v.n
          /\ \A e \in storing : e.by = "frame" /\ e.from = c.from => e = c
      BY <2>3, <3>1 DEF Chained
    <3>3. QED
      BY <1>1, <1>2, <3>1, <3>2
  <2>4. QED
    BY <2>1, <2>2, <2>3 DEF Chained
<1>4. Ages
  <2> SUFFICES ASSUME NEW st \in State, Older(st, edits, writes, storing)
               PROVE  Older(st, edits', writes', storing')
    BY DEF Ages
  <2>1. st.n \in Nat /\ st.n <= edits
    BY DEF State, Older
  <2>2. QED
    BY <1>2, <2>1 DEF Older
<1>5. QED
  BY <1>3, <1>4

LEMMA ChainedInductive ==
  ASSUME SessionTypes, RenderInv, Chained, SessionNext
  PROVE  Chained' /\ Ages
<1>1. CASE \E b \in Block : StateMessage(b)
  BY <1>1, MessageChained
<1>2. CASE \E w \in writes : WriteState(w)
  BY <1>2, TurnChained
<1>3. CASE /\ writes' = writes /\ (edits' = edits \/ edits' = edits + 1)
           /\ \A d \in storing' : d \in storing \/ d.by = "session"
  BY <1>3, RestChained
<1>4. QED
  BY <1>1, <1>2, <1>3, OnlyChains

\* A step hands a state on only if it was held, or is older anyway.
HandedOn ==
  \A st \in State : IsHeld(st)' => IsHeld(st) \/ Older(st, edits', writes', storing')

LEMMA SameHeld ==
  ASSUME NEW st \in State
  PROVE  /\ UNCHANGED doc /\ InDoc(st)' => InDoc(st)
         /\ UNCHANGED render /\ InRendering(st)' => InRendering(st)
         /\ UNCHANGED openings /\ InOpening(st)' => InOpening(st)
         /\ UNCHANGED session /\ InEditor(st)' => InEditor(st)
         /\ UNCHANGED saves /\ InSave(st)' => InSave(st)
         /\ UNCHANGED storing /\ InDraft(st)' => InDraft(st)
<1>1. UNCHANGED doc /\ InDoc(st)' => InDoc(st)
  BY DEF InDoc
<1>2. UNCHANGED render /\ InRendering(st)' => InRendering(st)
  BY DEF InRendering
<1>3. UNCHANGED openings /\ InOpening(st)' => InOpening(st)
  BY DEF InOpening
<1>4. UNCHANGED session /\ InEditor(st)' => InEditor(st)
  BY DEF InEditor, Took
<1>5. UNCHANGED saves /\ InSave(st)' => InSave(st)
  BY DEF InSave
<1>6. UNCHANGED storing /\ InDraft(st)' => InDraft(st)
  BY DEF InDraft
<1>7. QED
  BY <1>1, <1>2, <1>3, <1>4, <1>5, <1>6, Zenon

\* A state that no frame sent is older than every message.
LEMMA FramelessOlder ==
  ASSUME Chained', NEW st \in State, st.frame = 0, st.n <= edits'
  PROVE  Older(st, edits', writes', storing')
<1>1. (\A w \in writes' : w.frame > 0) /\ \A d \in storing' : d.by = "frame" => d.from > 0
  BY DEF Chained
<1>2. ASSUME NEW x, x > 0 PROVE x # st.frame
  BY <1>2
<1>3. QED
  BY <1>1, <1>2 DEF Older

LEMMA AppendSplits ==
  ASSUME NEW S, NEW q \in Seq(S), NEW x
  PROVE  \A i \in DOMAIN Append(q, x) : (i \in DOMAIN q /\ Append(q, x)[i] = q[i]) \/ Append(q, x)[i] = x
  OBVIOUS

\* What is asked of the editor holds what it was asked with.
LEMMA AskedHeld ==
  ASSUME SessionTypes, NEW asked, openings' = openings \/ openings' = Append(openings, asked),
         NEW st \in State, InOpening(st)'
  PROVE  InOpening(st) \/ Took(asked, st)
<1>1. openings \in Seq(Opening \cup {None})
  BY DEF SessionTypes, OpeningTypes
<1>2. \A i \in DOMAIN openings' : (i \in DOMAIN openings /\ openings'[i] = openings[i]) \/ openings'[i] = asked
  <2>1. \A i \in DOMAIN Append(openings, asked) :
          (i \in DOMAIN openings /\ Append(openings, asked)[i] = openings[i]) \/ Append(openings, asked)[i] = asked
    BY <1>1, AppendSplits
  <2>2. QED
    BY <2>1
<1>3. PICK i \in DOMAIN openings' : Took(openings'[i], st)
  BY DEF InOpening
<1>4. QED
  BY <1>2, <1>3 DEF InOpening

\* The renderer takes what the document holds.
LEMMA ShowHeld ==
  ASSUME SessionTypes, Show, NEW st \in State, InRendering(st)'
  PROVE  InRendering(st) \/ InDoc(st)
<1> PICK number :
      render' = [b \in Block |->
        IF b \in New
          THEN [id |-> renders + number[b], revision |-> doc[b], status |-> "pending"]
          ELSE IF b \in Old THEN None ELSE render[b]]
  BY ShowIs
<1>1. PICK b \in Block : render'[b] # None /\ render'[b].revision.state = st
  BY DEF InRendering
<1>2. CASE b \in New
  <2>1. render'[b].revision = doc[b] /\ doc[b] # None
    BY <1>2 DEF New, Wanted
  <2>2. QED
    BY <1>1, <2>1 DEF InDoc
<1>3. CASE b \notin New
  <2>1. render'[b] = render[b]
    BY <1>1, <1>3
  <2>2. QED
    BY <1>1, <2>1 DEF InRendering
<1>4. QED
  BY <1>2, <1>3

LEMMA RunCallHands == ASSUME SessionTypes, RunCall PROVE HandedOn
<1> SUFFICES ASSUME NEW st \in State, IsHeld(st)'
             PROVE  IsHeld(st)
  BY DEF HandedOn
<1> PICK call : call = Head(calls)
  OBVIOUS
<1>1. UNCHANGED <<doc, saves, storing>>
  BY DEF RunCall
<1>2. CASE call.do = "edit" /\ EditAt(call) /\ UNCHANGED render
  <2>1. CASE UNCHANGED <<openings, session>>
    BY <1>1, <1>2, <2>1, SameHeld, Zenon DEF IsHeld
  <2>2. CASE ~UNCHANGED <<openings, session>>
    <3> PICK asked : asked = [id |-> call.id, surface |-> shown, block |-> call.block,
           opened |-> IF call.block = None \/ render[call.block] = None THEN None
                      ELSE render[call.block].revision]
      OBVIOUS
    <3>1. EditDocument(asked)
      BY <1>2, <2>2 DEF EditAt
    <3>2. UNCHANGED session /\ (openings' = openings \/ openings' = Append(openings, asked))
      BY <3>1 DEF EditDocument, Then
    <3>3. call.block \in Block \cup {None}
      <4>1. calls \in Seq(CallBack) /\ calls # <<>>
        BY DEF RunCall, SessionTypes, CallTypes
      <4>2. call \in CallBack
        BY <4>1, SeqFacts
      <4>3. QED
        BY <1>2, <4>2 DEF CallBack
    <3>4. Took(asked, st) => InRendering(st)
      BY <3>3 DEF Took, InRendering
    <3>5. InOpening(st)' => InOpening(st) \/ InRendering(st)
      BY <3>2, <3>4, AskedHeld
    <3>6. QED
      BY <1>1, <1>2, <3>2, <3>5, SameHeld, Zenon DEF IsHeld
  <2>3. QED
    BY <2>1, <2>2
<1>3. CASE Show /\ UNCHANGED <<openings, session>>
  <2>1. InRendering(st)' => InRendering(st) \/ InDoc(st)
    BY <1>3, ShowHeld
  <2>2. QED
    BY <1>1, <1>3, <2>1, SameHeld, Zenon DEF IsHeld
<1>4. CASE Clear /\ UNCHANGED <<openings, session>>
  <2>1. ~InRendering(st)'
    BY <1>4 DEF Clear, InRendering
  <2>2. QED
    BY <1>1, <1>4, <2>1, SameHeld, Zenon DEF IsHeld
<1>5. QED
  BY <1>2, <1>3, <1>4, RunCallIs

LEMMA RunOpeningHands == ASSUME SessionTypes, RunOpening PROVE HandedOn
<1> SUFFICES ASSUME NEW st \in State, IsHeld(st)'
             PROVE  IsHeld(st)
  BY DEF HandedOn
<1>1. UNCHANGED <<doc, render, saves, storing>> /\ openings' = Tail(openings) /\ openings # <<>>
  BY DEF RunOpening, rendering
<1>2. openings \in Seq(Opening \cup {None})
  BY DEF SessionTypes, OpeningTypes
<1>3. /\ Head(openings) = openings[1] /\ 1 \in DOMAIN openings
      /\ \A i \in DOMAIN openings' : i + 1 \in DOMAIN openings /\ openings'[i] = openings[i + 1]
  <2>1. /\ Head(openings) = openings[1] /\ Len(openings) > 0 /\ Len(openings) \in Nat
        /\ DOMAIN openings = 1..Len(openings)
        /\ \A i \in DOMAIN Tail(openings) : i + 1 \in DOMAIN openings /\ Tail(openings)[i] = openings[i + 1]
    BY <1>1, <1>2, SeqFacts
  <2>2. QED
    BY <1>1, <2>1
<1>4. InOpening(st)' => InOpening(st)
  BY <1>3 DEF InOpening
<1>5. InEditor(st)' => InEditor(st) \/ InOpening(st)
  <2>1. CASE session' = session \/ session' = None
    BY <2>1 DEF InEditor, Took
  <2>2. CASE session' # session /\ session' # None
    <3>1. session'.opened = Head(openings).opened /\ Head(openings) # None
      BY <2>2 DEF RunOpening, Opens, CloseEditor
    <3>2. InEditor(st)' => Took(openings[1], st)
      BY <1>3, <3>1 DEF InEditor, Took
    <3>3. QED
      BY <1>3, <3>2 DEF InOpening
  <2>3. QED
    BY <2>1, <2>2
<1>6. QED
  BY <1>1, <1>4, <1>5, SameHeld, Zenon DEF IsHeld

LEMMA MarkHands ==
  ASSUME SessionTypes, UNCHANGED <<doc, openings, session, saves, storing>>,
         NEW f, f.block \in Block, NEW status \in {"whole", "error"},
         render' = render \/ (render[f.block] # None /\ Mark(f, status))
  PROVE  HandedOn
<1> SUFFICES ASSUME NEW st \in State, IsHeld(st)'
             PROVE  IsHeld(st)
  BY DEF HandedOn
<1>1. CASE render' = render
  BY <1>1, SameHeld, Zenon DEF IsHeld
<1>2. CASE render[f.block] # None /\ Mark(f, status)
  <2>1. /\ \A b \in Block : render'[b] # None <=> render[b] # None
        /\ \A b \in Block : render[b] # None => render'[b].revision = render[b].revision
    BY <1>2, MarkKeeps
  <2>2. InRendering(st)' => InRendering(st)
    BY <2>1 DEF InRendering
  <2>3. QED
    BY <2>2, SameHeld, Zenon DEF IsHeld
<1>3. QED
  BY <1>1, <1>2

LEMMA AnswerHands ==
  ASSUME SessionTypes, NEW f \in fetches, Fetched(f) \/ FetchFails(f)
  PROVE  HandedOn
<1>1. f.block \in Block
  BY DEF SessionTypes, FetchTypes
<1>2. UNCHANGED <<doc, openings, session, saves, storing>>
  BY DEF Fetched, FetchFails, editor
<1>3. CASE render' = render
  BY <1>1, <1>2, <1>3, MarkHands
<1>4. CASE render' # render
  <2>1. render[f.block] # None /\ (Mark(f, "whole") \/ Mark(f, "error"))
    BY <1>4 DEF Fetched, FetchFails, Aborted
  <2>2. QED
    BY <1>1, <1>2, <2>1, MarkHands
<1>5. QED
  BY <1>3, <1>4

LEMMA FrameReadyHands ==
  ASSUME SessionTypes, NEW b \in Block, FrameReady(b)
  PROVE  HandedOn
<1> PICK f : f = [block |-> b]
  OBVIOUS
<1>1. UNCHANGED <<doc, openings, session, saves, storing>> /\ render[b] # None /\ Mark(f, "whole") /\ f.block = b
  BY DEF FrameReady, editor
<1>2. QED
  BY <1>1, MarkHands

LEMMA EditMessageHands ==
  ASSUME SessionTypes, NEW b \in Block, EditMessage(b)
  PROVE  HandedOn
<1> SUFFICES ASSUME NEW st \in State, IsHeld(st)'
             PROVE  IsHeld(st)
  BY DEF HandedOn
<1> PICK asked : asked = [id |-> opens', surface |-> Page[b], block |-> b, opened |-> render[b].revision]
  OBVIOUS
<1>1. UNCHANGED <<doc, render, session, saves, storing>> /\ EditDocument(asked) /\ render[b] # None
  BY DEF EditMessage, EditDocument, Runs, rendering
<1>2. openings' = openings \/ openings' = Append(openings, asked)
  BY <1>1 DEF EditDocument, Then
<1>3. Took(asked, st) => InRendering(st)
  BY <1>1 DEF Took, InRendering
<1>4. InOpening(st)' => InOpening(st) \/ InRendering(st)
  BY <1>2, <1>3, AskedHeld
<1>5. QED
  BY <1>1, <1>4, SameHeld, Zenon DEF IsHeld

LEMMA DestroyHands == ASSUME SessionTypes, Destroy PROVE HandedOn
<1> SUFFICES ASSUME NEW st \in State, IsHeld(st)'
             PROVE  IsHeld(st)
  BY DEF HandedOn
<1>1. UNCHANGED <<doc, render, session, saves, storing>>
      /\ (openings' = openings \/ openings' = Append(openings, None))
  BY DEF Destroy, rendering, Then
<1>2. ~Took(None, st)
  BY DEF Took
<1>3. InOpening(st)' => InOpening(st)
  BY <1>1, <1>2, AskedHeld
<1>4. QED
  BY <1>1, <1>3, SameHeld, Zenon DEF IsHeld

LEMMA SaveHands ==
  ASSUME NEW upload \in BOOLEAN, Save(upload)
  PROVE  HandedOn
<1> SUFFICES ASSUME NEW st \in State, IsHeld(st)'
             PROVE  IsHeld(st)
  BY DEF HandedOn
<1> PICK s : s = [from |-> session.id, surface |-> session.surface,
                  block |-> session.block, opened |-> session.opened, n |-> edits', upload |-> upload]
  OBVIOUS
<1>1. UNCHANGED <<doc, render, openings, session, storing>> /\ saves' = saves \cup {s} /\ session # None
  BY DEF Save, rendering
<1>2. InSave(st)' => InSave(st) \/ InEditor(st)
  BY <1>1 DEF InSave, InEditor, Took
<1>3. QED
  BY <1>1, <1>2, SameHeld, Zenon DEF IsHeld

LEMMA DispatchHands ==
  ASSUME SessionTypes, Chained', NEW s \in saves, Dispatch(s)
  PROVE  HandedOn
<1> SUFFICES ASSUME NEW st \in State, IsHeld(st)'
             PROVE  IsHeld(st) \/ Older(st, edits', writes', storing')
  BY DEF HandedOn
<1>1. UNCHANGED <<doc, render, openings, session, edits>> /\ saves' = saves \ {s}
  BY DispatchIs, Zenon
<1>2. InSave(st)' => InSave(st)
  BY <1>1 DEF InSave
<1>3. \/ \E d : storing' = storing \cup {d} /\ d.put = Element(s)
      \/ storing' = storing
  BY DispatchIs, Zenon
<1>4. Element(s).state = st => st = Blank \/ InSave(st)
  <2>1. Opened(s)
    BY DEF SessionTypes, SaveTypes
  <2>2. CASE s.block = None
    BY <2>2 DEF Element
  <2>3. CASE s.block # None
    <3>1. s.opened \in Revision /\ s.opened # None
      BY <2>1, <2>3, NoneAssumption DEF Opened
    <3>2. Element(s).state = s.opened.state
      BY <2>3 DEF Element
    <3>3. QED
      BY <3>1, <3>2 DEF InSave
  <2>4. QED
    BY <2>2, <2>3
<1>5. InDraft(st)' => InDraft(st) \/ Element(s).state = st
  BY <1>3 DEF InDraft
<1>6. st = Blank => Older(st, edits', writes', storing')
  <2>1. edits' \in Nat
    BY <1>1 DEF SessionTypes, SessionTypeOK
  <2>2. QED
    BY <2>1, FramelessOlder DEF Blank
<1>7. QED
  BY <1>1, <1>2, <1>4, <1>5, <1>6, SameHeld, Zenon DEF IsHeld

LEMMA WriteStateHands ==
  ASSUME SessionTypes, NEW w \in writes, WriteState(w)
  PROVE  HandedOn
<1> SUFFICES ASSUME NEW st \in State, IsHeld(st)'
             PROVE  IsHeld(st)
  BY DEF HandedOn
<1>1. UNCHANGED <<doc, render, openings, session, saves>>
  BY WriteStateIs
<1>2. storing' = storing \/ storing' = storing \cup {Staged(w)}
  BY WriteStateIs
<1>3. InDraft(st)' => InDraft(st)
  BY <1>2 DEF InDraft, Staged
<1>4. QED
  BY <1>1, <1>3, SameHeld, Zenon DEF IsHeld

\* The document takes the state of a draft, or the message its frame has
\* dispatched, which it has no other of.
LEMMA StoredHands ==
  ASSUME SessionTypes, Chained, NEW d \in storing, Stored(d)
  PROVE  HandedOn
<1> SUFFICES ASSUME NEW st \in State, IsHeld(st)'
             PROVE  IsHeld(st) \/ Older(st, edits', writes', storing')
  BY DEF HandedOn
<1>1. /\ storing' = storing \ {d} /\ UNCHANGED <<render, openings, saves, writes, edits>>
      /\ session' = None \/ session' = session
      /\ d.by \in {"session", "frame"} /\ d.block \in Block
  BY StoredIs DEF CloseEditor
<1>2. InDraft(st)' => InDraft(st)
  BY <1>1 DEF InDraft
<1>3. InEditor(st)' => InEditor(st)
  BY <1>1 DEF InEditor, Took
<1>4. InDoc(st)' => InDoc(st) \/ d.put.state = st
  <2>1. PICK r \in Revision : /\ r = d.put \/ (doc[d.block] # None /\ r = doc[d.block])
                              /\ doc' = [doc EXCEPT ![d.block] = r]
    BY StoredIs
  <2>2. doc \in [Block -> Revision \cup {None}]
    BY DEF SessionTypes, SessionTypeOK
  <2>3. ASSUME NEW b \in Block, doc'[b] # None, doc'[b].state = st
        PROVE  InDoc(st) \/ d.put.state = st
    BY <1>1, <2>1, <2>2, <2>3 DEF InDoc
  <2>4. QED
    BY <2>3 DEF InDoc
<1>5. d.put.state = st => InDraft(st) \/ Older(st, edits', writes', storing')
  <2>1. CASE d.by = "session"
    BY <2>1 DEF InDraft
  <2>2. CASE d.by = "frame"
    <3>1. /\ d.n <= edits /\ d.put.state = [frame |-> d.from, n |-> d.n]
          /\ \A v \in writes : v.frame = d.from => d.n < v.n
          /\ \A e \in storing : e.by = "frame" /\ e.from = d.from => e = d
      BY <2>2 DEF Chained
    <3>2. ASSUME d.put.state = st
          PROVE  Older(st, edits', writes', storing')
      <4>1. st.frame = d.from /\ st.n = d.n
        BY <3>1, <3>2
      <4>2. QED
        BY <1>1, <3>1, <4>1 DEF Older
    <3>3. QED
      BY <3>2
  <2>3. QED
    BY <1>1, <2>1, <2>2
<1>6. QED
  BY <1>1, <1>2, <1>3, <1>4, <1>5, SameHeld, Zenon DEF IsHeld

LEMMA RemoteHands ==
  ASSUME SessionTypes, Chained', NEW b \in Block, RemotePut(b) \/ RemoteDelete(b)
  PROVE  HandedOn
<1> SUFFICES ASSUME NEW st \in State, IsHeld(st)'
             PROVE  IsHeld(st) \/ Older(st, edits', writes', storing')
  BY DEF HandedOn
<1>1. UNCHANGED <<render, openings, session, saves, storing>> /\ edits' \in Nat
  BY RemoteIs, FreshTypes
<1>2. InDoc(st)' => InDoc(st) \/ st = [frame |-> 0, n |-> edits']
  <2>1. PICK r \in Revision \cup {None} :
          doc' = [doc EXCEPT ![b] = r] /\ (r # None => r.state = [frame |-> 0, n |-> edits'])
    BY RemoteIs
  <2>2. doc \in [Block -> Revision \cup {None}]
    BY DEF SessionTypes, SessionTypeOK
  <2>3. ASSUME NEW c \in Block, doc'[c] # None, doc'[c].state = st
        PROVE  InDoc(st) \/ st = [frame |-> 0, n |-> edits']
    BY <2>1, <2>2, <2>3 DEF InDoc
  <2>4. QED
    BY <2>3 DEF InDoc
<1>3. st = [frame |-> 0, n |-> edits'] => Older(st, edits', writes', storing')
  BY <1>1, FramelessOlder
<1>4. QED
  BY <1>1, <1>2, <1>3, SameHeld, Zenon DEF IsHeld

\* Every other step lets go of what is held, or leaves it.
LEMMA FewerHands ==
  ASSUME UNCHANGED <<doc, render>>, saves' \subseteq saves, storing' \subseteq storing,
         openings' = openings \/ openings' = <<>>, session' = session \/ session' = None
  PROVE  HandedOn
<1> SUFFICES ASSUME NEW st \in State, IsHeld(st)'
             PROVE  IsHeld(st)
  BY DEF HandedOn
<1>1. InSave(st)' => InSave(st)
  BY DEF InSave
<1>2. InDraft(st)' => InDraft(st)
  BY DEF InDraft
<1>3. InOpening(st)' => InOpening(st)
  <2>1. CASE openings' = openings
    BY <2>1, SameHeld
  <2>2. CASE openings' = <<>>
    BY <2>2 DEF InOpening
  <2>3. QED
    BY <2>1, <2>2
<1>4. InEditor(st)' => InEditor(st)
  BY DEF InEditor, Took
<1>5. QED
  BY <1>1, <1>2, <1>3, <1>4, SameHeld, Zenon DEF IsHeld

LEMMA OnlyHands ==
  ASSUME SessionNext
  PROVE  \/ RunCall
         \/ RunOpening
         \/ \E f \in fetches : Fetched(f) \/ FetchFails(f)
         \/ \E upload \in BOOLEAN : Save(upload)
         \/ \E s \in saves : Dispatch(s)
         \/ \E b \in Block : FrameReady(b)
         \/ \E b \in Block : EditMessage(b)
         \/ \E w \in writes : WriteState(w)
         \/ \E d \in storing : Stored(d)
         \/ \E b \in Block : RemotePut(b) \/ RemoteDelete(b)
         \/ Destroy
         \/ /\ UNCHANGED <<doc, render>> /\ saves' \subseteq saves /\ storing' \subseteq storing
            /\ openings' = openings \/ openings' = <<>>
            /\ session' = session \/ session' = None
<1>1. CASE \E d \in storing : StoreFails(d)
  <2>1. UNCHANGED <<doc, render, saves, openings, session>> /\ storing' \subseteq storing
    BY <1>1 DEF StoreFails, SaveFails, rendering, editor
  <2>2. QED
    BY <2>1
<1>2. CASE \E s \in saves : ElementFails(s)
  <2>1. UNCHANGED <<doc, render, storing, openings, session>> /\ saves' \subseteq saves
    BY <1>2 DEF ElementFails, SaveFails, Uploaded, rendering
  <2>2. QED
    BY <2>1
<1>3. CASE (\E ok \in BOOLEAN : LoadEditor(ok)) \/ Cancel
  <2>1. /\ UNCHANGED <<doc, render, storing, saves>>
        /\ openings' = openings \/ openings' = <<>>
        /\ session' = session \/ session' = None
    BY <1>3 DEF LoadEditor, Cancel, CloseEditor, rendering
  <2>2. QED
    BY <2>1
<1>4. CASE \/ \E s \in Surface \cup {None} : View(s)
           \/ \E ok \in BOOLEAN : LoadRenderer(ok)
           \/ \E b \in Block \cup {None} : DoubleTap(b)
           \/ \E f \in fetches : Compiled(f)
           \/ \E b \in Block : StateMessage(b)
  <2>1. UNCHANGED <<doc, render, storing, saves, openings, session>>
    BY <1>4, Zenon DEF View, LoadRenderer, DoubleTap, Compiled, StateMessage, rendering, editor
  <2>2. QED
    BY <2>1
<1>5. CASE (\E b \in Block : RemotePut(b)) \/ (\E b \in Block : RemoteDelete(b))
  BY <1>5
<1>6. CASE (\E f \in fetches : Fetched(f)) \/ (\E f \in fetches : FetchFails(f))
  BY <1>6
<1>7. QED
  BY <1>1, <1>2, <1>3, <1>4, <1>5, <1>6, Zenon DEF SessionNext

LEMMA HandsOn ==
  ASSUME SessionTypes, Chained, Chained', SessionNext
  PROVE  HandedOn
<1>1. CASE RunCall \/ RunOpening \/ Destroy
  BY <1>1, RunCallHands, RunOpeningHands, DestroyHands
<1>2. CASE \E f \in fetches : Fetched(f) \/ FetchFails(f)
  BY <1>2, AnswerHands
<1>3. CASE \E upload \in BOOLEAN : Save(upload)
  BY <1>3, SaveHands
<1>4. CASE \E s \in saves : Dispatch(s)
  BY <1>4, DispatchHands
<1>5. CASE \E b \in Block : FrameReady(b)
  BY <1>5, FrameReadyHands
<1>6. CASE \E b \in Block : EditMessage(b)
  BY <1>6, EditMessageHands
<1>7. CASE \E w \in writes : WriteState(w)
  BY <1>7, WriteStateHands
<1>8. CASE \E d \in storing : Stored(d)
  BY <1>8, StoredHands
<1>9. CASE \E b \in Block : RemotePut(b) \/ RemoteDelete(b)
  BY <1>9, RemoteHands
<1>10. CASE /\ UNCHANGED <<doc, render>> /\ saves' \subseteq saves /\ storing' \subseteq storing
            /\ openings' = openings \/ openings' = <<>>
            /\ session' = session \/ session' = None
  BY <1>10, FewerHands
<1>11. QED
  BY <1>1, <1>2, <1>3, <1>4, <1>5, <1>6, <1>7, <1>8, <1>9, <1>10, OnlyHands, Zenon

LEMMA OrderInductive ==
  SessionTypes /\ RenderInv /\ Chained /\ Held /\ [SessionNext]_sessionVars => Chained' /\ Held'
<1> SUFFICES ASSUME SessionTypes, RenderInv, Chained, Held, [SessionNext]_sessionVars
             PROVE  Chained' /\ Held'
  OBVIOUS
<1>1. CASE SessionNext
  <2>1. Chained' /\ Ages
    BY <1>1, ChainedInductive
  <2>2. HandedOn
    BY <1>1, <2>1, HandsOn
  <2>3. ASSUME NEW st \in State, IsHeld(st)'
        PROVE  Older(st, edits', writes', storing')
    BY <2>1, <2>2, <2>3 DEF Held, Ages, HandedOn
  <2>4. Held'
    BY <2>3 DEF Held
  <2>5. QED
    BY <2>1, <2>4
<1>2. CASE UNCHANGED sessionVars
  <2>1. UNCHANGED <<doc, render, openings, session, saves, writes, storing, edits>>
    BY <1>2 DEF sessionVars, rendering, editor
  <2>2. Chained'
    BY <2>1 DEF Chained
  <2>3. ASSUME NEW st \in State, IsHeld(st)'
        PROVE  Older(st, edits', writes', storing')
    <3>1. IsHeld(st)
      BY <2>1, <2>3, SameHeld, Zenon DEF IsHeld
    <3>2. QED
      BY <2>1, <3>1 DEF Held
  <2>4. Held'
    BY <2>3 DEF Held
  <2>5. QED
    BY <2>2, <2>4
<1>3. QED
  BY <1>1, <1>2

LEMMA OrderHeld == SessionTypes /\ Held => StatesInOrder
<1> SUFFICES ASSUME SessionTypes, Held, NEW d \in storing, d.by = "frame", doc[d.block] # None,
                    doc[d.block].state.frame = d.from
             PROVE  doc[d.block].state.n < d.n
  BY DEF StatesInOrder
<1>1. d.block \in Block
  BY DEF SessionTypes, StoreTypes
<1>2. doc[d.block].state \in State
  BY <1>1 DEF SessionTypes, SessionTypeOK, Revision, State
<1>3. Older(doc[d.block].state, edits, writes, storing)
  BY <1>1, <1>2 DEF Held, IsHeld, InDoc
<1>4. QED
  BY <1>3 DEF Older

-----------------------------------------------------------------------------
(***************************************************************************)
(* The session.                                                            *)
(***************************************************************************)

LEMMA SessionStarts == SessionInit => SessionInv
<1> SUFFICES ASSUME SessionInit PROVE SessionInv
  OBVIOUS
<1>1. SessionTypes
  BY InitTypes
<1>2. PageInv
  BY PageInit
<1>3. Numbered /\ UrlsFollowBlocks
  BY DEF SessionInit, Numbered, UrlsFollowBlocks
<1>4. PageLeft /\ EditorLeft
  BY DEF SessionInit, PageLeft, EditorLeft
<1>5. Chained
  BY DEF SessionInit, Chained
<1>6. Held
  <2> SUFFICES ASSUME NEW st \in State, IsHeld(st)
               PROVE  Older(st, edits, writes, storing)
    BY DEF Held
  <2>1. InDoc(st)
    BY DEF SessionInit, IsHeld, InDoc, InRendering, InOpening, InEditor, InSave, InDraft, Took
  <2>2. st = Blank
    BY <2>1 DEF SessionInit, InDoc
  <2>3. QED
    BY <2>2 DEF SessionInit, Older, Blank
<1>7. QED
  BY <1>1, <1>2, <1>3, <1>4, <1>5, <1>6 DEF SessionInv, PageInv

LEMMA SessionInductive == SessionInv /\ [SessionNext]_sessionVars => SessionInv'
<1> SUFFICES ASSUME SessionInv, [SessionNext]_sessionVars PROVE SessionInv'
  OBVIOUS
<1>1. SessionTypes /\ RenderInv /\ PageInv /\ PageLeft /\ EditorLeft /\ Chained /\ Held
  BY DEF SessionInv, RenderInv, PageInv
<1>2. SessionTypes'
  BY <1>1, TypesInductive
<1>3. RenderInv'
  BY <1>1, RenderInductive
<1>4. PageInv'
  BY <1>1, PageInductive
<1>5. PageLeft' /\ EditorLeft'
  BY <1>1, PageLeftInductive, EditorLeftInductive
<1>6. Chained' /\ Held'
  BY <1>1, OrderInductive
<1>7. QED
  BY <1>2, <1>3, <1>4, <1>5, <1>6 DEF SessionInv, RenderInv, PageInv

LEMMA SessionAlways == SessionSpec => []SessionInv
  BY SessionStarts, SessionInductive, PTL DEF SessionSpec

\* What the session keeps has the types the code gives it, the revision an
\* editor was opened with among them.
THEOREM SessionTypesAlways == SessionSpec => []SessionTypeOK
<1>1. SessionInv => SessionTypeOK
  BY DEF SessionInv, SessionTypes
<1>2. QED
  BY <1>1, SessionAlways, PTL

\* No rendering that is shown has lost an object URL and no URL outlives its
\* rendering, in whatever order requests are answered and blocks destroyed.
THEOREM UrlsAlwaysFollow == SessionSpec => []UrlsFollowBlocks
<1>1. SessionInv => UrlsFollowBlocks
  BY DEF SessionInv
<1>2. QED
  BY <1>1, SessionAlways, PTL

\* However late the renderer is loaded and whatever happens to the page and its
\* blocks meanwhile: with no callback pending, the open page is shown.
THEOREM PageAlwaysCurrent == SessionSpec => []PageIsCurrent
<1>1. SessionInv => PageIsCurrent
  BY PageShown DEF SessionInv, PageInv
<1>2. QED
  BY <1>1, SessionAlways, PTL

\* The states of a widget are committed in message order, whatever sessions,
\* other devices and failed writes do to its block in between.
THEOREM StatesAlwaysInOrder == SessionSpec => []StatesInOrder
<1>1. SessionInv => StatesInOrder
  BY OrderHeld DEF SessionInv
<1>2. QED
  BY <1>1, SessionAlways, PTL

\* Nothing comes up on a page that was left.
THEOREM NothingIsLeft == SessionSpec => []LeavesNothing
<1>1. SessionInv => LeavesNothing
  BY NothingLeft DEF SessionInv
<1>2. QED
  BY <1>1, SessionAlways, PTL
=============================================================================
