------------------------- MODULE DocumentCompilation -------------------------
(***************************************************************************)
(* The compilation of LaTeX documents from the HTTP request to the answer: *)
(* RequestAdmission (apps/server/src), which main.ts acquires before it    *)
(* routes and releases in `finally', LatexCompiler, the three programs of  *)
(* TectonicProcessCompiler under runBoundedProcess, and the derived assets *)
(* of one workspace.                                                       *)
(*                                                                         *)
(* An artifact key is its source: the compiler version does not change.    *)
(***************************************************************************)
EXTENDS Naturals, FiniteSets, Sequences, Functions

CONSTANTS
  Request,             \* HTTP requests, each made once
  Class,               \* Class[r]: "compile" or "ordinary", see requestClass
  Client,              \* Client[r]: the bucket of its session
  Network,             \* the network all requests come from
  Source,              \* Source[r]: the document of a compile request
  Outputs,             \* Outputs[s]: what the compiler may make of a source
  Cost,                \* Cost[class], in tokens
  Capacity, Rate,      \* of a client bucket: tokens, tokens per tick
  NetworkCapacity, NetworkRate,
  MaximumConcurrent, MaximumConcurrentCompiles, MaximumBuckets,
  MaxTime              \* bounds the clock

ASSUME BudgetsAreNumbers ==
  {Capacity, Rate, NetworkCapacity, NetworkRate, MaxTime, MaximumConcurrent,
   MaximumConcurrentCompiles, MaximumBuckets} \subseteq Nat
ASSUME RequestsAreFinite == IsFiniteSet(Request)
ASSUME CostsAreNumbers == \A r \in Request : Cost[Class[r]] \in Nat

VARIABLES
  now,            \* the clock
  clients,        \* #buckets
  networks,       \* #networkBuckets
  active,         \* #active
  compiles,       \* #activeCompiles
  request,        \* request[r]: where the handler of r is
  child,          \* child[r]: the process r has spawned
  row,            \* derived assets by derivation key
  spent           \* tokens taken by admitted requests

admission == <<clients, networks, active, compiles, spent>>
vars == <<now, admission, request, child, row>>

Documents == {Source[r] : r \in {q \in Request : Class[q] = "compile"}}
ASSUME OutputsAreSequences == \A s \in Documents : \A pages \in Outputs[s] : Len(pages) \in Nat
Manifest == 0                       \* the page number of the manifest key
Fresh == [pc |-> "new", step |-> 0, output |-> <<>>, pages |-> <<>>]

TypeOK ==
  /\ now \in 0..MaxTime
  /\ active \in Nat /\ compiles \in Nat /\ spent \in Nat
  /\ \A buckets \in {clients, networks} : \A k \in DOMAIN buckets :
       /\ buckets[k].tokens \in 0..(Capacity + NetworkCapacity)
       /\ {buckets[k].updated, buckets[k].seen} \subseteq 0..now
  /\ \A r \in Request :
       /\ request[r].pc \in {"new", "handle", "read", "run", "find", "insert", "answer",
                             "failing", "answered", "failed", "refused"}
       /\ request[r].step \in Nat
  /\ child \in [Request -> {"none", "running", "killed"}]
  /\ DOMAIN row \subseteq Documents \X Nat

Init ==
  /\ now = 0
  /\ clients = <<>> /\ networks = <<>> /\ active = 0 /\ compiles = 0 /\ spent = 0
  /\ request = [r \in Request |-> Fresh]
  /\ child = [r \in Request |-> "none"]
  /\ row = <<>>

-----------------------------------------------------------------------------
At(r, label) == request[r].pc = label
Goto(r, label) == request' = [request EXCEPT ![r].pc = label]

\* The map with a bucket for k: at the maximum the one not seen for longest
\* goes, and a new bucket is full.
WithBucket(buckets, k, capacity) ==
  LET Kept == IF Cardinality(DOMAIN buckets) < MaximumBuckets THEN {DOMAIN buckets}
              ELSE {DOMAIN buckets \ {old} : old \in {o \in DOMAIN buckets :
                      \A other \in DOMAIN buckets : buckets[o].seen <= buckets[other].seen}} IN
  IF k \in DOMAIN buckets THEN {buckets}
  ELSE {[key \in kept \cup {k} |-> IF key \in kept THEN buckets[key]
                                   ELSE [tokens |-> capacity, updated |-> now, seen |-> now]]
        : kept \in Kept}

Refilled(bucket, capacity, rate) ==
  LET full == bucket.tokens + (now - bucket.updated) * rate IN
  [tokens |-> IF full < capacity THEN full ELSE capacity, updated |-> now, seen |-> now]

Tick == now < MaxTime /\ now' = now + 1 /\ UNCHANGED <<admission, request, child, row>>

\* acquire throws before it looks at the buckets.
RefuseAtCapacity(r) ==
  /\ At(r, "new")
  /\ \/ active >= MaximumConcurrent
     \/ Class[r] = "compile" /\ compiles >= MaximumConcurrentCompiles
  /\ Goto(r, "refused")
  /\ UNCHANGED <<now, admission, child, row>>

\* acquire: both buckets are refilled; both pay, or the request is refused.
Acquire(r) ==
  /\ At(r, "new")
  /\ active < MaximumConcurrent
  /\ Class[r] = "compile" => compiles < MaximumConcurrentCompiles
  /\ \E mine \in WithBucket(clients, Client[r], Capacity),
        theirs \in WithBucket(networks, Network, NetworkCapacity) :
       LET cost == Cost[Class[r]]
           a == Refilled(mine[Client[r]], Capacity, Rate)
           b == Refilled(theirs[Network], NetworkCapacity, NetworkRate)
           pays == a.tokens >= cost /\ b.tokens >= cost
           Charged(bucket) == IF pays THEN [bucket EXCEPT !.tokens = @ - cost] ELSE bucket IN
       /\ clients' = [mine EXCEPT ![Client[r]] = Charged(a)]
       /\ networks' = [theirs EXCEPT ![Network] = Charged(b)]
       /\ IF pays
            THEN /\ active' = active + 1 /\ spent' = spent + cost
                 /\ compiles' = IF Class[r] = "compile" THEN compiles + 1 ELSE compiles
                 /\ Goto(r, "handle")
            ELSE Goto(r, "refused") /\ UNCHANGED <<active, compiles, spent>>
  /\ UNCHANGED <<now, child, row>>

\* The `finally' of the request, after its answer or its error was sent.
Release(r) ==
  /\ At(r, "answer") \/ At(r, "failing")
  /\ active' = active - 1
  /\ compiles' = IF Class[r] = "compile" THEN compiles - 1 ELSE compiles
  /\ Goto(r, IF At(r, "answer") THEN "answered" ELSE "failed")
  /\ UNCHANGED <<now, clients, networks, spent, child, row>>

-----------------------------------------------------------------------------
kept == <<now, admission>>
Key(r, page) == <<Source[r], page>>
\* findReadyDerived: every derived row is ready.
ReadyDerived(key) == key \in DOMAIN row
Fails(r) == request' = [request EXCEPT ![r] = [Fresh EXCEPT !.pc = "failing"]]

\* Any other route answers or fails.
HandleOther(r) ==
  /\ At(r, "handle") /\ Class[r] # "compile"
  /\ Goto(r, "answer") \/ Fails(r)
  /\ UNCHANGED <<kept, child, row>>

\* The request is authorised and parsed; a ready manifest is looked up.
LookUp(r) ==
  /\ At(r, "handle") /\ Class[r] = "compile"
  /\ \/ Fails(r)
     \/ Goto(r, IF ReadyDerived(Key(r, Manifest)) THEN "read" ELSE "run")
  /\ UNCHANGED <<kept, child, row>>

\* The manifest is read and every page it names is ready, or the call fails;
\* a manifest that cannot be parsed is compiled again.
ReadManifest(r) ==
  /\ At(r, "read")
  /\ \/ Fails(r)
     \/ request' = [request EXCEPT ![r].pc = "answer", ![r].pages = row[Key(r, Manifest)].bytes]
  /\ UNCHANGED <<kept, child, row>>

\* runBoundedProcess: one program after the other, tectonic, pdfinfo and
\* pdftocairo for each page.
Spawn(r) ==
  /\ At(r, "run") /\ child[r] = "none"
  /\ \/ child' = [child EXCEPT ![r] = "running"] /\ UNCHANGED request
     \/ Fails(r) /\ UNCHANGED child
  /\ UNCHANGED <<kept, row>>

\* Mutant: crossing a limit rejects at once, before the program has closed.
KillAndReject(r) ==
  /\ child[r] = "running" /\ At(r, "run")
  /\ child' = [child EXCEPT ![r] = "killed"]
  /\ Fails(r)
  /\ UNCHANGED <<kept, row>>

\* Mutant: no timer.
KillNever(r) == FALSE

\* The time or the output of the program crosses its limit.
Kill(r) ==
  /\ child[r] = "running"
  /\ child' = [child EXCEPT ![r] = "killed"]
  /\ UNCHANGED <<kept, request, row>>

\* `close': a program that crossed a limit has failed whatever its code.  The
\* sizes of what it wrote are checked next.
Close(r) ==
  /\ child[r] # "none"
  /\ child' = [child EXCEPT ![r] = "none"]
  /\ \/ Fails(r)
     \/ /\ child[r] = "running"
        /\ \E output \in IF request[r].step = 1 THEN Outputs[Source[r]] ELSE {request[r].output} :
             LET step == request[r].step + 1
                 last == step = Len(output) + 2 IN
             request' = [request EXCEPT ![r] =
               [@ EXCEPT !.output = output, !.pc = IF last THEN "find" ELSE "run",
                         !.step = IF last THEN 1 ELSE step]]
  /\ UNCHANGED <<kept, row>>

-----------------------------------------------------------------------------
\* publishDerived for page `step', then for the manifest, whose bytes name
\* the assets of the pages.
PageNumber(r) == IF request[r].step > Len(request[r].output) THEN Manifest ELSE request[r].step
BytesOf(r) ==
  IF PageNumber(r) = Manifest THEN request[r].pages ELSE request[r].output[request[r].step]

Published(r, asset) ==
  request' = [request EXCEPT ![r] =
    IF PageNumber(r) = Manifest THEN [Fresh EXCEPT !.pc = "answer", !.pages = request[r].pages]
    ELSE [request[r] EXCEPT !.pc = "find", !.step = request[r].step + 1,
                            !.pages = Append(request[r].pages, asset)]]

\* publishDerived: an asset of that key is taken as it is.
FindDerived(r) ==
  /\ At(r, "find")
  /\ LET key == Key(r, PageNumber(r)) IN
       IF ReadyDerived(key) THEN Published(r, row[key].asset) ELSE Goto(r, "insert")
  /\ UNCHANGED <<kept, child, row>>

\* Mutant: the caller keeps its own asset when the row is already there.
InsertAndKeepOwn(r) ==
  /\ At(r, "insert")
  /\ LET key == Key(r, PageNumber(r)) IN
       /\ row' = IF key \in DOMAIN row THEN row
                 ELSE [k \in DOMAIN row \cup {key} |->
                         IF k = key THEN [asset |-> r, bytes |-> BytesOf(r)] ELSE row[k]]
       /\ Published(r, r)
  /\ UNCHANGED <<kept, child>>

\* The object is put under its hash and the row inserted, ON CONFLICT of the
\* derivation key DO NOTHING.  The object key is UNIQUE too: equal bytes under
\* another key are an error, and so is a row of other bytes.
InsertDerived(r) ==
  /\ At(r, "insert")
  /\ LET key == Key(r, PageNumber(r))
         taken == \E k \in DOMAIN row : row[k].bytes = BytesOf(r) IN
       \/ Fails(r) /\ UNCHANGED row
       \/ /\ key \in DOMAIN row /\ row[key].bytes = BytesOf(r)
          /\ Published(r, row[key].asset)
          /\ UNCHANGED row
       \/ /\ key \notin DOMAIN row /\ ~taken
          /\ row' = [k \in DOMAIN row \cup {key} |->
                       IF k = key THEN [asset |-> r, bytes |-> BytesOf(r)] ELSE row[k]]
          /\ Published(r, r)
  /\ UNCHANGED <<kept, child>>

Handle(r) ==
  \/ HandleOther(r) \/ LookUp(r) \/ ReadManifest(r) \/ Spawn(r)
  \/ Kill(r) \/ FindDerived(r) \/ InsertDerived(r) \/ Release(r)

Next == Tick \/ \E r \in Request : RefuseAtCapacity(r) \/ Acquire(r) \/ Handle(r) \/ Close(r)

Spec == Init /\ [][Next]_vars

\* Handlers go on, a timer fires and a killed program closes; one that runs
\* need never end by itself.
FairSpec ==
  Spec /\ \A r \in Request : WF_vars(Handle(r) \/ (child[r] = "killed" /\ Close(r)))

-----------------------------------------------------------------------------
(***************************************************************************)
(* No more compilers run than the limit says, and the counters that admit  *)
(* requests are those of the requests under way: a lease is released once, *)
(* after the program of its request is gone (request-admission.ts lines 60 *)
(* to 89, main.ts `finally', bounded-process.ts `close').                  *)
(***************************************************************************)
Holding == {r \in Request : request[r].pc \notin {"new", "answered", "failed", "refused"}}

CompilersAreBounded ==
  /\ Cardinality({r \in Request : child[r] # "none"}) <= MaximumConcurrentCompiles
  /\ \A r \in Request : child[r] # "none" => r \in Holding
  /\ active = Cardinality(Holding)

(***************************************************************************)
(* Over any stretch of time a network is admitted for no more than the     *)
(* capacity of its bucket and what has been refilled since, however many   *)
(* sessions it uses and whichever client buckets were evicted (#bucket and *)
(* #refill).                                                               *)
(***************************************************************************)
WithinBudget == spent <= NetworkCapacity + NetworkRate * now

\* Both together: what the requests under way and the admitted ones may use.
AdmissionIsBounded == CompilersAreBounded /\ WithinBudget

(***************************************************************************)
(* "The same artifact key can reuse a verified existing result": a         *)
(* manifest is there only with every page it names, and all answers for    *)
(* one source name the same assets, also when compilations overlap         *)
(* (latex-compiler.ts lines 60 to 96; publishDerived).                     *)
(***************************************************************************)
ArtifactIsWhole ==
  \A s \in Documents : <<s, Manifest>> \in DOMAIN row =>
    LET pages == row[<<s, Manifest>>].bytes IN
    /\ \A i \in DOMAIN pages : <<s, i>> \in DOMAIN row /\ row[<<s, i>>].asset = pages[i]
    /\ \A r \in Request : At(r, "answered") /\ Class[r] = "compile" /\ Source[r] = s =>
         request[r].pages = pages

(***************************************************************************)
(* Every request ends and gives its place back, also when its program      *)
(* hangs: the timer of runBoundedProcess kills it.                         *)
(***************************************************************************)
EveryRequestEnds == \A r \in Request : At(r, "handle") ~> r \notin Holding

\* A source that can be compiled is compiled in the end.  Not so: a page equal
\* to a page of another source can never be stored.
SourcesCompile ==
  \A r \in Request : At(r, "insert") =>
    LET key == Key(r, PageNumber(r)) IN
    key \notin DOMAIN row => \A k \in DOMAIN row : row[k].bytes # BytesOf(r)
=============================================================================
