------------------------ MODULE SessionAuthorityProofs ------------------------
(***************************************************************************)
(* The membership of a workspace for any number of devices, links and      *)
(* calls, and that the devices make no steps but those of SessionAuthority.*)
(***************************************************************************)
EXTENDS LinkedDevice, TLAPS

\* The statements under the advisory lock, of a bootstrap and of a deletion,
\* and those of a join that has the row of its capability.
Bootstrapping == {"lock", "tombstone", "existing", "insert", "commit"}
Joining == {"consume", "member", "joinCommit"}
Guarded == {"tombstone", "existing", "insert", "commit", "eraseRow", "cascade"}
Holding == {"member", "joinCommit"}

\* A call under way has a session of its own and knows what it is for.
Typed ==
  /\ TypeOK
  /\ \A c \in Call :
       /\ call[c].pc # "idle" => call[c].session \in 1..made
       /\ call[c].pc \in Bootstrapping => call[c].for \in Bootstrap
       /\ call[c].pc \in Joining => call[c].for \in Capability

Exclusion ==
  /\ \A c \in Call : call[c].pc \in Guarded => advisory = c
  /\ \A c, d \in Call :
       call[c].pc \in Holding /\ call[d].pc \in Holding /\ call[c].for = call[d].for => c = d

\* What the calls have looked up stays true until they use it.
Foresight ==
  \A c \in Call :
    /\ call[c].pc \in {"existing", "insert", "commit"} => ~tombstone
    /\ call[c].pc = "commit" => ~live
    /\ call[c].pc \in Holding => capability[call[c].for] = "open"

\* A workspace that is not there has nothing.
Emptiness ==
  /\ tombstone => ~live
  /\ ~live => members = {} /\ claims = {} /\ \A k \in Capability : capability[k] = "none"
  /\ sessions = {m.session : m \in members}

\* The owner came by a bootstrap, everybody else by a capability that is spent.
Titles ==
  /\ \A m \in members :
       /\ m.role = "owner" => m.by \in Bootstrap
       /\ m.role = "linked" => m.by \in Capability /\ capability[m.by] = "consumed"
  /\ \A m, n \in members : m.by = n.by => m = n
  /\ \A m, n \in members : m.role = "owner" /\ n.role = "owner" => m = n

Inv == Typed /\ Exclusion /\ Foresight /\ Emptiness /\ Titles

-----------------------------------------------------------------------------
LEMMA Initially == Init => Inv
<1> SUFFICES ASSUME Init PROVE Inv
  OBVIOUS
<1>1. \A c \in Call : call[c] = [pc |-> "idle", for |-> "none", session |-> 0]
  BY DEF Init, Idle
<1>2. TypeOK
  <2>1. made = 0 /\ made \in 0..MaxCalls /\ 0 \in 0..made
    BY BoundAssumption DEF Init
  <2>2. call \in [Call -> [pc : {"idle"}, for : {"none"}, session : 0..made]]
    BY <2>1 DEF Init, Idle
  <2>3. QED
    BY <2>1, <2>2 DEF Init, TypeOK
<1>3. Typed /\ Exclusion /\ Foresight
  BY <1>1, <1>2 DEF Typed, Exclusion, Foresight, Bootstrapping, Joining, Guarded, Holding
<1>4. Emptiness /\ Titles
  BY DEF Init, Emptiness, Titles
<1>5. QED
  BY <1>3, <1>4 DEF Inv

\* A call that begins draws a session that nobody has.
LEMMA BeginKeeps ==
  ASSUME Inv, NEW c \in Call,
         \/ \E b \in Bootstrap : BeginBootstrap(c, b)
         \/ \E k \in Capability : BeginJoin(c, k)
         \/ BeginErase(c)
  PROVE  Inv'
<1>1. PICK label \in {"lock", "consume", "eraseLock"}, x \in Bootstrap \cup Capability \cup {"none"} :
        /\ Begin(c, label, x)
        /\ label = "lock" => x \in Bootstrap
        /\ label = "consume" => x \in Capability
  BY DEF BeginBootstrap, BeginJoin, BeginErase
<1>2. /\ call' = [call EXCEPT ![c] = [pc |-> label, for |-> x, session |-> made + 1]]
      /\ made' = made + 1 /\ made + 1 \in 1..MaxCalls /\ made \in Nat
      /\ UNCHANGED <<tables, advisory, answers>>
  BY <1>1, BoundAssumption DEF Begin, Inv, Typed, TypeOK
<1>3. /\ call'[c] = [pc |-> label, for |-> x, session |-> made + 1]
      /\ \A d \in Call \ {c} : call'[d] = call[d]
  BY <1>2 DEF Inv, Typed, TypeOK
<1>4. Typed'
  <2>1. TypeOK'
    BY <1>2 DEF Inv, Typed, TypeOK, tables
  <2>2. QED
    BY <2>1, <1>1, <1>2, <1>3 DEF Inv, Typed, TypeOK, Bootstrapping, Joining
<1>5. Exclusion' /\ Foresight' /\ Emptiness' /\ Titles'
  BY <1>2, <1>3 DEF Inv, Exclusion, Foresight, Emptiness, Titles, Guarded, Holding, tables
<1>6. QED
  BY <1>4, <1>5 DEF Inv

\* What the end of a transaction leaves of the calls and of the lock.
LEMMA Ended ==
  ASSUME Inv, NEW c \in Call, End(c)
  PROVE  /\ call' \in [Call -> [pc : {"idle"} \cup Bootstrapping \cup Joining
                                       \cup {"eraseLock", "eraseRow", "cascade"},
                                for : Bootstrap \cup Capability \cup {"none"},
                                session : 0..made]]
         /\ advisory' \in Call \cup {"none"}
         /\ call'[c].pc = "idle"
         /\ \A d \in Call \ {c} : call'[d] = call[d]
         /\ Exclusion'
<1>1. /\ made \in Nat /\ 0 \in 0..made
      /\ Idle \in [pc : {"idle"}, for : {"none"}, session : 0..made]
      /\ Idle.pc = "idle"
  BY BoundAssumption DEF Inv, Typed, TypeOK, Idle
<1>2. call' = [call EXCEPT ![c] = Idle]
  BY DEF End
<1>3. /\ call'[c].pc = "idle"
      /\ \A d \in Call \ {c} : call'[d] = call[d]
  BY <1>1, <1>2 DEF Inv, Typed, TypeOK
<1>4. call' \in [Call -> [pc : {"idle"} \cup Bootstrapping \cup Joining
                                 \cup {"eraseLock", "eraseRow", "cascade"},
                          for : Bootstrap \cup Capability \cup {"none"}, session : 0..made]]
  BY <1>1, <1>2 DEF Inv, Typed, TypeOK, Bootstrapping, Joining
<1>5. advisory' \in Call \cup {"none"}
  BY DEF End, Unlock, Inv, Typed, TypeOK
<1>6. Exclusion'
  BY <1>3 DEF End, Unlock, Inv, Exclusion, Guarded, Holding
<1>7. QED
  BY <1>3, <1>4, <1>5, <1>6

\* A transaction that ends without a change keeps the invariant, whatever it
\* has answered.
LEMMA EndKeeps ==
  ASSUME Inv, NEW c \in Call, End(c), UNCHANGED <<tables, made>>,
         answers' \subseteq [bootstrap : Bootstrap, session : 0..made]
  PROVE  Inv'
<1>1. /\ call' \in [Call -> [pc : {"idle"} \cup Bootstrapping \cup Joining
                                    \cup {"eraseLock", "eraseRow", "cascade"},
                             for : Bootstrap \cup Capability \cup {"none"},
                             session : 0..made]]
      /\ advisory' \in Call \cup {"none"}
      /\ call'[c].pc = "idle"
      /\ \A d \in Call \ {c} : call'[d] = call[d]
      /\ Exclusion'
  BY Ended
<1>2. TypeOK'
  BY <1>1 DEF Inv, Typed, TypeOK, tables, Bootstrapping, Joining
<1>3. Typed'
  BY <1>1, <1>2 DEF Inv, Typed, tables, Bootstrapping, Joining
<1>4. Foresight' /\ Emptiness' /\ Titles'
  BY <1>1 DEF Inv, Foresight, Emptiness, Titles, tables, Holding
<1>5. QED
  BY <1>1, <1>3, <1>4 DEF Inv

\* A transaction that goes on keeps the invariant, if what its next statement
\* relies on holds.
LEMMA GotoKeeps ==
  ASSUME Inv, NEW c \in Call,
         NEW label \in Bootstrapping \cup Joining \cup {"eraseRow", "cascade"},
         Goto(c, label), UNCHANGED <<tables, made, answers>>,
         advisory' \in Call \cup {"none"},
         call[c].pc # "idle",
         label \in Bootstrapping => call[c].for \in Bootstrap,
         label \in Joining => call[c].for \in Capability,
         label \in Guarded => advisory' = c,
         \A d \in Call \ {c} : call[d].pc \in Guarded => advisory' = advisory,
         label \in Holding =>
           /\ capability[call[c].for] = "open"
           /\ \A d \in Call \ {c} : call[d].pc \in Holding => call[d].for # call[c].for,
         label \in {"existing", "insert", "commit"} => ~tombstone,
         label = "commit" => ~live
  PROVE  Inv'
<1>1. /\ call'[c] = [call[c] EXCEPT !.pc = label]
      /\ \A d \in Call \ {c} : call'[d] = call[d]
      /\ call' = [call EXCEPT ![c] = [call[c] EXCEPT !.pc = label]]
  BY DEF Goto, Inv, Typed, TypeOK
<1>2. /\ call'[c].pc = label /\ call'[c].for = call[c].for
      /\ call'[c].session = call[c].session
  BY <1>1 DEF Inv, Typed, TypeOK
<1>3. TypeOK'
  BY <1>1 DEF Inv, Typed, TypeOK, tables, Bootstrapping, Joining
<1>4. Typed'
  BY <1>1, <1>2, <1>3 DEF Inv, Typed, tables, Bootstrapping, Joining
<1>5. Exclusion'
  <2>1. ASSUME NEW d \in Call, call'[d].pc \in Guarded
        PROVE  advisory' = d
    <3>1. CASE d = c
      BY <1>2, <2>1, <3>1
    <3>2. CASE d # c
      BY <1>1, <2>1, <3>2 DEF Inv, Exclusion
    <3>3. QED
      BY <3>1, <3>2
  <2>2. ASSUME NEW d \in Call, NEW e \in Call, call'[d].pc \in Holding, call'[e].pc \in Holding,
               call'[d].for = call'[e].for
        PROVE  d = e
    BY <1>1, <1>2, <2>2 DEF Inv, Exclusion
  <2>3. QED
    BY <2>1, <2>2 DEF Exclusion
<1>6. Foresight'
  BY <1>1, <1>2 DEF Inv, Foresight, tables, Holding
<1>7. Emptiness' /\ Titles'
  BY DEF Inv, Emptiness, Titles, tables
<1>8. QED
  BY <1>4, <1>5, <1>6, <1>7 DEF Inv

-----------------------------------------------------------------------------
\* The statements that change no row.
LEMMA LookKeeps ==
  ASSUME Inv, NEW c \in Call,
         \/ AdvisoryLock(c) \/ CheckTombstone(c) \/ FindExisting(c) \/ InsertWorkspace(c)
         \/ Consume(c) \/ InsertMember(c) \/ EraseLock(c) \/ EraseRow(c)
         \/ BreakDeadlock(c) \/ Abort(c)
  PROVE  Inv'
<1> USE DEF At
<1>1. answers \subseteq [bootstrap : Bootstrap, session : 0..made]
  BY DEF Inv, Typed, TypeOK
<1>2. advisory \in Call \cup {"none"}
  BY DEF Inv, Typed, TypeOK
<1>3. CASE AdvisoryLock(c)
  <2>1. \A d \in Call : call[d].pc \notin Guarded
    BY <1>3, NameAssumption DEF AdvisoryLock, Inv, Exclusion
  <2>2. call[c].for \in Bootstrap
    BY <1>3 DEF AdvisoryLock, Inv, Typed, Bootstrapping
  <2>3. QED
    BY <1>3, <2>1, <2>2, GotoKeeps DEF AdvisoryLock, Bootstrapping, Joining, Guarded, Holding
<1>4. CASE CheckTombstone(c)
  <2>1. CASE tombstone
    BY <1>1, <1>4, <2>1, EndKeeps DEF CheckTombstone
  <2>2. CASE ~tombstone
    <3>1. call[c].for \in Bootstrap /\ advisory = c
      BY <1>4 DEF CheckTombstone, Inv, Typed, Exclusion, Bootstrapping, Guarded
    <3>2. QED
      BY <1>2, <1>4, <2>2, <3>1, GotoKeeps
      DEF CheckTombstone, Bootstrapping, Joining, Guarded, Holding
  <2>3. QED
    BY <2>1, <2>2
<1>5. ASSUME call[c].for \in Bootstrap
      PROVE  /\ Answered(c) => answers' \subseteq [bootstrap : Bootstrap, session : 0..made]
             /\ Refused(c) => answers' \subseteq [bootstrap : Bootstrap, session : 0..made]
  <2>1. made \in Nat /\ claims \subseteq [bootstrap : Bootstrap, session : 1..made]
    BY BoundAssumption DEF Inv, Typed, TypeOK
  <2>2. \A claim \in claims :
          [bootstrap |-> claim.bootstrap, session |-> claim.session]
            \in [bootstrap : Bootstrap, session : 0..made]
    BY <2>1
  <2>3. [bootstrap |-> call[c].for, session |-> 0] \in [bootstrap : Bootstrap, session : 0..made]
    BY <1>5, <2>1
  <2>4. QED
    BY <1>1, <2>2, <2>3 DEF Answered, Refused, Valid
<1>6. CASE FindExisting(c)
  <2>1. call[c].for \in Bootstrap /\ advisory = c /\ ~tombstone
    BY <1>6 DEF FindExisting, Inv, Typed, Exclusion, Foresight, Bootstrapping, Guarded
  <2>2. CASE Valid(call[c].for) # {}
    BY <1>5, <1>6, <2>1, <2>2, EndKeeps DEF FindExisting
  <2>3. CASE Valid(call[c].for) = {}
    BY <1>2, <1>6, <2>1, <2>3, GotoKeeps
    DEF FindExisting, Bootstrapping, Joining, Guarded, Holding
  <2>4. QED
    BY <2>2, <2>3
<1>7. CASE InsertWorkspace(c)
  <2>1. call[c].for \in Bootstrap /\ advisory = c /\ ~tombstone
    BY <1>7 DEF InsertWorkspace, Inv, Typed, Exclusion, Foresight, Bootstrapping, Guarded
  <2>2. CASE live
    BY <1>5, <1>7, <2>1, <2>2, EndKeeps DEF InsertWorkspace
  <2>3. CASE ~live
    BY <1>2, <1>7, <2>1, <2>3, GotoKeeps
    DEF InsertWorkspace, Bootstrapping, Joining, Guarded, Holding
  <2>4. QED
    BY <2>2, <2>3
<1>8. CASE Consume(c)
  <2>1. call[c].for \in Capability
    BY <1>8 DEF Consume, Inv, Typed, Joining
  <2>2. \A d \in Call : call[d].pc \in Holding => call[d].for # call[c].for
    BY <1>8 DEF Consume, HoldsCapability, Holding
  <2>3. CASE capability[call[c].for] = "open" /\ call[c].for \notin lapsed
    BY <1>2, <1>8, <2>1, <2>2, <2>3, GotoKeeps
    DEF Consume, Bootstrapping, Joining, Guarded, Holding
  <2>4. CASE ~(capability[call[c].for] = "open" /\ call[c].for \notin lapsed)
    BY <1>1, <1>8, <2>4, EndKeeps DEF Consume
  <2>5. QED
    BY <2>3, <2>4
<1>9. CASE InsertMember(c)
  <2>1. call[c].for \in Capability /\ capability[call[c].for] = "open"
    BY <1>9 DEF InsertMember, Inv, Typed, Foresight, Joining, Holding
  <2>2. \A d \in Call \ {c} : call[d].pc \in Holding => call[d].for # call[c].for
    BY <1>9 DEF InsertMember, Inv, Exclusion, Holding
  <2>3. CASE live
    BY <1>2, <1>9, <2>1, <2>2, <2>3, GotoKeeps
    DEF InsertMember, Bootstrapping, Joining, Guarded, Holding
  <2>4. CASE ~live
    BY <1>1, <1>9, <2>4, EndKeeps DEF InsertMember
  <2>5. QED
    BY <2>3, <2>4
<1>10. CASE EraseLock(c)
  <2>1. \A d \in Call : call[d].pc \notin Guarded
    BY <1>10, NameAssumption DEF EraseLock, Inv, Exclusion
  <2>2. CASE \E m \in members : m.role = "owner"
    BY <1>10, <2>1, <2>2, GotoKeeps DEF EraseLock, Bootstrapping, Joining, Guarded, Holding
  <2>3. CASE ~\E m \in members : m.role = "owner"
    BY <1>1, <1>10, <2>3, EndKeeps DEF EraseLock
  <2>4. QED
    BY <2>2, <2>3
<1>11. CASE EraseRow(c)
  <2>1. advisory = c
    BY <1>11 DEF EraseRow, Inv, Exclusion, Guarded
  <2>2. QED
    BY <1>2, <1>11, <2>1, GotoKeeps DEF EraseRow, Bootstrapping, Joining, Guarded, Holding
<1>12. CASE BreakDeadlock(c) \/ Abort(c)
  BY <1>1, <1>12, EndKeeps DEF BreakDeadlock, Abort
<1>13. QED
  BY <1>3, <1>4, <1>6, <1>7, <1>8, <1>9, <1>10, <1>11, <1>12

-----------------------------------------------------------------------------
\* The owner's COMMIT finds the workspace empty: the lock has kept deletions
\* and other bootstraps away since the look for the tombstone.
LEMMA CommitBootstrapKeeps ==
  ASSUME Inv, NEW c \in Call, CommitBootstrap(c)
  PROVE  Inv'
<1> DEFINE new == [session |-> call[c].session, role |-> "owner", by |-> call[c].for]
           claim == [bootstrap |-> call[c].for, session |-> call[c].session]
<1>1. /\ call[c].for \in Bootstrap /\ call[c].session \in 1..made /\ made \in Nat
      /\ advisory = c /\ ~live /\ ~tombstone
      /\ call[c].pc = "commit"
  BY BoundAssumption
  DEF CommitBootstrap, At, Inv, Typed, TypeOK, Exclusion, Foresight, Bootstrapping, Guarded
<1>2. /\ members = {} /\ claims = {} /\ sessions = {}
      /\ \A k \in Capability : capability[k] = "none"
  BY <1>1 DEF Inv, Emptiness
<1>3. /\ members' = {new} /\ claims' = {claim} /\ sessions' = {call[c].session}
      /\ live' = TRUE /\ answers' = answers \cup {claim}
      /\ UNCHANGED <<tombstone, capability, lapsed, made>>
  BY <1>2 DEF CommitBootstrap
<1>4. /\ call' \in [Call -> [pc : {"idle"} \cup Bootstrapping \cup Joining
                                    \cup {"eraseLock", "eraseRow", "cascade"},
                             for : Bootstrap \cup Capability \cup {"none"},
                             session : 0..made]]
      /\ advisory' \in Call \cup {"none"}
      /\ call'[c].pc = "idle"
      /\ \A d \in Call \ {c} : call'[d] = call[d]
      /\ Exclusion'
  BY Ended DEF CommitBootstrap
<1>5. TypeOK'
  <2>1. /\ members' \subseteq [session : 1..made', role : {"owner", "linked"},
                               by : Bootstrap \cup Capability]
        /\ claims' \subseteq [bootstrap : Bootstrap, session : 1..made']
        /\ sessions' \subseteq 1..made'
        /\ answers' \subseteq [bootstrap : Bootstrap, session : 0..made']
    BY <1>1, <1>3 DEF Inv, Typed, TypeOK
  <2>2. QED
    BY <2>1, <1>3, <1>4 DEF Inv, Typed, TypeOK, Bootstrapping, Joining
<1>6. Typed'
  BY <1>3, <1>4, <1>5 DEF Inv, Typed, Bootstrapping, Joining
<1>7. Foresight'
  <2>1. \A d \in Call \ {c} : call[d].pc \notin Guarded
    BY <1>1 DEF Inv, Exclusion
  <2>2. QED
    BY <2>1, <1>1, <1>3, <1>4 DEF Inv, Foresight, Guarded, Holding
<1>8. Emptiness' /\ Titles'
  BY <1>1, <1>3 DEF Emptiness, Titles
<1>9. QED
  BY <1>4, <1>6, <1>7, <1>8 DEF Inv

\* A join commits the only member of its capability.
LEMMA JoinCommitKeeps ==
  ASSUME Inv, NEW c \in Call, JoinCommit(c)
  PROVE  Inv'
<1> DEFINE k == call[c].for
           new == [session |-> call[c].session, role |-> "linked", by |-> k]
<1>1. /\ k \in Capability /\ capability[k] = "open" /\ call[c].pc = "joinCommit"
      /\ call[c].session \in 1..made /\ made \in Nat
  BY BoundAssumption DEF JoinCommit, At, Inv, Typed, TypeOK, Foresight, Joining, Holding
<1>2. live
  BY <1>1 DEF Inv, Emptiness
<1>3. /\ members' = members \cup {new} /\ sessions' = sessions \cup {call[c].session}
      /\ capability' = [capability EXCEPT ![k] = "consumed"]
      /\ UNCHANGED <<live, tombstone, claims, lapsed, made, answers>>
  BY DEF JoinCommit
<1>4. /\ call' \in [Call -> [pc : {"idle"} \cup Bootstrapping \cup Joining
                                    \cup {"eraseLock", "eraseRow", "cascade"},
                             for : Bootstrap \cup Capability \cup {"none"},
                             session : 0..made]]
      /\ advisory' \in Call \cup {"none"}
      /\ call'[c].pc = "idle"
      /\ \A d \in Call \ {c} : call'[d] = call[d]
      /\ Exclusion'
  BY Ended DEF JoinCommit
<1>5. /\ capability' \in [Capability -> {"none", "open", "consumed"}]
      /\ capability'[k] = "consumed"
      /\ \A j \in Capability \ {k} : capability'[j] = capability[j]
  BY <1>1, <1>3 DEF Inv, Typed, TypeOK
<1>6. TypeOK'
  <2>1. /\ new \in [session : 1..made, role : {"owner", "linked"}, by : Bootstrap \cup Capability]
        /\ call[c].session \in 1..made
    BY <1>1
  <2>2. /\ members' \subseteq [session : 1..made', role : {"owner", "linked"},
                               by : Bootstrap \cup Capability]
        /\ sessions' \subseteq 1..made'
    BY <2>1, <1>3 DEF Inv, Typed, TypeOK
  <2>3. QED
    BY <2>2, <1>3, <1>4, <1>5 DEF Inv, Typed, TypeOK, Bootstrapping, Joining
<1>7. Typed'
  BY <1>3, <1>4, <1>6 DEF Inv, Typed, Bootstrapping, Joining
<1>8. Foresight'
  <2>1. \A d \in Call \ {c} : call[d].pc \in Holding => call[d].for # k /\ call[d].for \in Capability
    BY <1>1 DEF Inv, Exclusion, Typed, Holding, Joining
  <2>2. QED
    BY <2>1, <1>3, <1>4, <1>5 DEF Inv, Foresight, Holding
<1>9. Emptiness'
  <2>1. {m.session : m \in members \cup {new}} = {m.session : m \in members} \cup {new.session}
    OBVIOUS
  <2>2. sessions' = {m.session : m \in members'}
    BY <2>1, <1>3 DEF Inv, Emptiness
  <2>3. QED
    BY <2>2, <1>2, <1>3 DEF Inv, Emptiness
<1>10. Titles'
  <2>1. \A m \in members : m.by # k
    BY <1>1, NameAssumption DEF Inv, Titles, Typed, TypeOK
  <2>2. /\ \A m \in members' : m.role = "owner" => m.by \in Bootstrap
        /\ \A m \in members' : m.role = "linked" => m.by \in Capability /\ capability'[m.by] = "consumed"
    BY <2>1, <1>1, <1>3, <1>5 DEF Inv, Titles
  <2>3. \A m, n \in members' : m.by = n.by => m = n
    BY <2>1, <1>3 DEF Inv, Titles
  <2>4. \A m, n \in members' : m.role = "owner" /\ n.role = "owner" => m = n
    BY <1>3 DEF Inv, Titles
  <2>5. QED
    BY <2>2, <2>3, <2>4 DEF Titles
<1>11. QED
  BY <1>4, <1>7, <1>8, <1>9, <1>10 DEF Inv

\* A deletion leaves nothing, and no join is past its capability.
LEMMA CascadeKeeps ==
  ASSUME Inv, NEW c \in Call, Cascade(c)
  PROVE  Inv'
<1>1. /\ advisory = c /\ call[c].pc = "cascade"
      /\ \A d \in Call : call[d].pc \notin Holding
  BY DEF Cascade, At, HoldsCapability, Inv, Typed, Exclusion, Guarded, Holding, Joining
<1>2. /\ members' = {} /\ claims' = {} /\ live' = FALSE /\ tombstone' = TRUE
      /\ capability' = [k \in Capability |-> "none"]
      /\ sessions' = sessions \ {m.session : m \in members}
      /\ UNCHANGED <<lapsed, made, answers>>
  BY DEF Cascade
<1>3. sessions' = {}
  BY <1>2 DEF Inv, Emptiness
<1>4. /\ call' \in [Call -> [pc : {"idle"} \cup Bootstrapping \cup Joining
                                    \cup {"eraseLock", "eraseRow", "cascade"},
                             for : Bootstrap \cup Capability \cup {"none"},
                             session : 0..made]]
      /\ advisory' \in Call \cup {"none"}
      /\ call'[c].pc = "idle"
      /\ \A d \in Call \ {c} : call'[d] = call[d]
      /\ Exclusion'
  BY Ended DEF Cascade
<1>5. TypeOK'
  BY <1>2, <1>3, <1>4 DEF Inv, Typed, TypeOK, Bootstrapping, Joining
<1>6. Typed'
  BY <1>2, <1>4, <1>5 DEF Inv, Typed, Bootstrapping, Joining
<1>7. Foresight'
  <2>1. \A d \in Call \ {c} : call[d].pc \notin Guarded
    BY <1>1 DEF Inv, Exclusion
  <2>2. QED
    BY <2>1, <1>1, <1>4 DEF Foresight, Guarded, Holding
<1>8. Emptiness' /\ Titles'
  BY <1>2, <1>3 DEF Emptiness, Titles
<1>9. QED
  BY <1>4, <1>6, <1>7, <1>8 DEF Inv

\* A new capability is nobody's title yet.
LEMMA CreateCapabilityKeeps ==
  ASSUME Inv, NEW k \in Capability, CreateCapability(k)
  PROVE  Inv'
<1>1. /\ live /\ capability[k] = "none"
      /\ capability' = [capability EXCEPT ![k] = "open"]
      /\ UNCHANGED <<live, tombstone, sessions, members, claims, lapsed, advisory, call, made, answers>>
  BY DEF CreateCapability, InsertCapability
<1>2. /\ capability' \in [Capability -> {"none", "open", "consumed"}]
      /\ capability'[k] = "open"
      /\ \A j \in Capability \ {k} : capability'[j] = capability[j]
  BY <1>1 DEF Inv, Typed, TypeOK
<1>3. Typed' /\ Exclusion'
  BY <1>1, <1>2 DEF Inv, Typed, TypeOK, Exclusion
<1>4. Foresight'
  BY <1>1, <1>2 DEF Inv, Foresight, Typed, Holding, Joining
<1>5. Emptiness' /\ Titles'
  BY <1>1, <1>2 DEF Inv, Emptiness, Titles
<1>6. QED
  BY <1>3, <1>4, <1>5 DEF Inv

LEMMA LapseKeeps ==
  ASSUME Inv, NEW x \in Bootstrap \cup Capability, Lapse(x)
  PROVE  Inv'
<1>1. Typed'
  BY DEF Lapse, Inv, Typed, TypeOK
<1>2. Exclusion' /\ Foresight' /\ Emptiness' /\ Titles'
  BY DEF Lapse, Inv, Exclusion, Foresight, Emptiness, Titles
<1>3. QED
  BY <1>1, <1>2 DEF Inv

LEMMA Inductive == Inv /\ [Next]_vars => Inv'
<1> SUFFICES ASSUME Inv, [Next]_vars PROVE Inv'
  OBVIOUS
<1>1. ASSUME NEW c \in Call,
             \/ \E b \in Bootstrap : BeginBootstrap(c, b)
             \/ \E k \in Capability : BeginJoin(c, k)
             \/ BeginErase(c)
      PROVE  Inv'
  BY <1>1, BeginKeeps
<1>2. ASSUME NEW c \in Call, Step(c) \/ Abort(c)
      PROVE  Inv'
  BY <1>2, LookKeeps, CommitBootstrapKeeps, JoinCommitKeeps, CascadeKeeps DEF Step
<1>3. ASSUME NEW k \in Capability, CreateCapability(k)
      PROVE  Inv'
  BY <1>3, CreateCapabilityKeeps
<1>4. ASSUME NEW x \in Bootstrap \cup Capability, Lapse(x)
      PROVE  Inv'
  BY <1>4, LapseKeeps
<1>5. CASE UNCHANGED vars
  BY <1>5 DEF vars, tables, Inv, Typed, TypeOK, Exclusion, Foresight, Emptiness, Titles
<1>6. QED
  BY <1>1, <1>2, <1>3, <1>4, <1>5 DEF Next

-----------------------------------------------------------------------------
\* What bootstraps were answered is the one claim, as long as there is one.
Remembered ==
  /\ \A x \in answers : ~tombstone => x \in claims
  /\ \A x, y \in claims : x = y
  /\ \A m \in members : m.role = "owner" => [bootstrap |-> m.by, session |-> m.session] \in claims
  /\ RetryAgrees

\* A second look adds no answer but the claim itself: who is refused has no
\* valid claim, and who has made the workspace has one while it is valid.
LEMMA AnswersAgree ==
  ASSUME Inv, Remembered, NEW c \in Call, FindExisting(c) \/ InsertWorkspace(c)
  PROVE  Remembered'
<1>1. UNCHANGED <<tombstone, claims, members>> /\ ~tombstone /\ call[c].for \in Bootstrap
  BY DEF FindExisting, InsertWorkspace, At, tables, Inv, Typed, Foresight, Bootstrapping
<1>2. answers \subseteq claims
  BY <1>1 DEF Remembered
<1>3. claims \subseteq [bootstrap : Bootstrap, session : 1..made]
  BY DEF Inv, Typed, TypeOK
<1>4. ASSUME Answered(c)
      PROVE  answers' \subseteq claims
  BY <1>2, <1>3, <1>4 DEF Answered, Valid
<1>5. ASSUME Refused(c), Valid(call[c].for) = {}
      PROVE  answers' \subseteq claims
  <2>1. ~\E m \in members : m.by = call[c].for /\ m.by \notin lapsed
    <3>1. ASSUME NEW m \in members, m.by = call[c].for, m.by \notin lapsed
          PROVE  FALSE
      <4>1. m.role = "owner"
        BY <1>1, <3>1, NameAssumption DEF Inv, Titles, Typed, TypeOK
      <4>2. [bootstrap |-> m.by, session |-> m.session] \in Valid(call[c].for)
        BY <3>1, <4>1 DEF Remembered, Valid
      <4>3. QED
        BY <1>5, <4>2
    <3>2. QED
      BY <3>1
  <2>2. QED
    BY <1>2, <1>5, <2>1 DEF Refused
<1>6. answers' \subseteq claims
  BY <1>2, <1>4, <1>5 DEF FindExisting, InsertWorkspace
<1>7. QED
  BY <1>1, <1>6 DEF Remembered, RetryAgrees

LEMMA RememberedStep == Inv /\ Remembered /\ [Next]_vars => Remembered'
<1> SUFFICES ASSUME Inv, Remembered, [Next]_vars PROVE Remembered'
  OBVIOUS
<1>1. CASE UNCHANGED <<tombstone, claims, members, answers>>
  BY <1>1 DEF Remembered, RetryAgrees
<1>2. ASSUME NEW c \in Call, CommitBootstrap(c)
      PROVE  Remembered'
  <2>1. ~tombstone /\ members = {} /\ claims = {}
    BY <1>2 DEF CommitBootstrap, At, Inv, Foresight, Emptiness
  <2>2. answers = {}
    BY <2>1 DEF Remembered
  <2>3. QED
    BY <1>2, <2>1, <2>2 DEF CommitBootstrap, Remembered, RetryAgrees
<1>3. ASSUME NEW c \in Call, JoinCommit(c)
      PROVE  Remembered'
  BY <1>3 DEF JoinCommit, Remembered, RetryAgrees
<1>4. ASSUME NEW c \in Call, Cascade(c)
      PROVE  Remembered'
  BY <1>4 DEF Cascade, Remembered, RetryAgrees
<1>5. ASSUME NEW c \in Call, Step(c) \/ Abort(c)
      PROVE  Remembered'
  <2>1. CASE FindExisting(c) \/ InsertWorkspace(c)
    BY <2>1, AnswersAgree
  <2>2. CASE \/ AdvisoryLock(c) \/ CheckTombstone(c) \/ Consume(c) \/ InsertMember(c)
             \/ EraseLock(c) \/ EraseRow(c) \/ BreakDeadlock(c) \/ Abort(c)
    BY <1>1, <2>2
    DEF AdvisoryLock, CheckTombstone, Consume, InsertMember, EraseLock, EraseRow, BreakDeadlock,
        Abort, tables
  <2>3. QED
    BY <1>2, <1>3, <1>4, <1>5, <2>1, <2>2 DEF Step
<1>6. ASSUME NEW c \in Call,
             \/ \E b \in Bootstrap : BeginBootstrap(c, b)
             \/ \E k \in Capability : BeginJoin(c, k)
             \/ BeginErase(c)
      PROVE  Remembered'
  BY <1>1, <1>6 DEF BeginBootstrap, BeginJoin, BeginErase, Begin, tables
<1>7. CASE (\E k \in Capability : CreateCapability(k)) \/ \E x \in Bootstrap \cup Capability : Lapse(x)
  BY <1>1, <1>7 DEF CreateCapability, InsertCapability, Lapse
<1>8. CASE UNCHANGED vars
  BY <1>1, <1>8 DEF vars, tables
<1>9. QED
  BY <1>5, <1>6, <1>7, <1>8 DEF Next

\* What the invariant says of the properties.
LEMMA Consequences ==
  Inv /\ Remembered => TypeOK /\ MembersAreRightful /\ DeletionIsFinal /\ RetryAgrees
<1> SUFFICES ASSUME Inv, Remembered
             PROVE  TypeOK /\ MembersAreRightful /\ DeletionIsFinal /\ RetryAgrees
  OBVIOUS
<1>1. MembersAreRightful
  BY DEF Inv, Titles, MembersAreRightful
<1>2. DeletionIsFinal
  BY DEF Inv, Emptiness, DeletionIsFinal
<1>3. QED
  BY <1>1, <1>2 DEF Inv, Typed, Remembered

\* The invariants of the authority alone: its types, its members, its deletion
\* and its answers.
THEOREM AuthorityCorrect ==
  Spec => [](TypeOK /\ MembersAreRightful /\ DeletionIsFinal /\ RetryAgrees)
<1>1. Init => Inv /\ Remembered
  BY Initially DEF Init, Remembered, RetryAgrees
<1>2. Inv /\ Remembered /\ [Next]_vars => Inv' /\ Remembered'
  BY Inductive, RememberedStep
<1>3. QED
  BY <1>1, <1>2, Consequences, PTL DEF Spec

-----------------------------------------------------------------------------
\* A step of the devices is a step of the authority or leaves it alone.
LEMMA DeviceStep == [DeviceNext]_allvars => [Next]_vars
<1> SUFFICES ASSUME [DeviceNext]_allvars PROVE [Next]_vars
  OBVIOUS
<1>1. ASSUME NEW c \in Call, NEW d \in Bootstrap,
             \/ Synchronize(c, d) \/ DeleteWorkspace(c, d)
             \/ \E k \in Capability : OpenLink(c, d, k)
      PROVE  Next
  BY <1>1 DEF Synchronize, DeleteWorkspace, RequestDeletion, OpenLink, Next
<1>2. ASSUME NEW d \in Bootstrap,
             \/ Adopt(d) \/ CloseLink(d)
             \/ CommitLocal(d) \/ CommitRemote(d) \/ SynchronizeElsewhere(d)
      PROVE  UNCHANGED vars
  BY <1>2 DEF Adopt, CloseLink, CommitLocal, CommitRemote, SynchronizeElsewhere
<1>3. ASSUME NEW d \in Bootstrap, NEW k \in Capability, Invite(d, k)
      PROVE  Next
  BY <1>3 DEF Invite, Next
<1>4. ASSUME NEW c \in Call, Statement(c) \/ Failed(c)
      PROVE  Next
  BY <1>4
  DEF Statement, BootstrapAnswered, JoinAnswered, JoinRefused, DeletionAnswered, Broken, Failed,
      Step, Next
<1>5. ASSUME NEW x \in Bootstrap \cup Capability, Lapse(x)
      PROVE  Next
  BY <1>5 DEF Next
<1>6. CASE UNCHANGED allvars
  BY <1>6 DEF allvars
<1>7. QED
  BY <1>1, <1>2, <1>3, <1>4, <1>5, <1>6 DEF DeviceNext

\* The devices implement the authority: whatever their pages, tabs, cookies and
\* lost answers do, the server sees only calls it would see from strangers.
THEOREM DevicesImplementAuthority == DeviceSpec => Spec
<1>1. DeviceInit => Init
  BY DEF DeviceInit
<1>2. QED
  BY <1>1, DeviceStep, PTL DEF DeviceSpec, Spec

\* Every member of a workspace is its one owner or came by a capability of its
\* own, for any number of devices, capabilities and calls.
THEOREM Membership == DeviceSpec => []MembersAreRightful
BY AuthorityCorrect, DevicesImplementAuthority, PTL

\* A deletion is final for bootstraps, joins and answers under way.
THEOREM Finality == DeviceSpec => []DeletionIsFinal
BY AuthorityCorrect, DevicesImplementAuthority, PTL

\* All answers to one bootstrap name one session, whichever are lost.
THEOREM RetriesAgree == DeviceSpec => []RetryAgrees
BY AuthorityCorrect, DevicesImplementAuthority, PTL

\* A device changes its workspace by the adoption of a link or by the answer to
\* a deletion, and each is safe.
LEMMA HomeStep ==
  ASSUME home \in [Bootstrap -> {"this", "other"}], [DeviceNext]_allvars
  PROVE  /\ home' \in [Bootstrap -> {"this", "other"}]
         /\ \A d \in Bootstrap :
              /\ home[d] = "other" /\ home'[d] = "this" => d \notin work
              /\ home[d] = "this" /\ home'[d] = "other" => tombstone'
<1>1. CASE UNCHANGED home
  BY <1>1
<1>2. ASSUME NEW d \in Bootstrap, Adopt(d), ~UNCHANGED home
      PROVE  home' = [home EXCEPT ![d] = "this"] /\ d \notin work
  BY <1>2 DEF Adopt, Blank
<1>3. ASSUME NEW c \in Call, DeletionAnswered(c), ~UNCHANGED home
      PROVE  home' = [home EXCEPT ![sender[c]] = "other"] /\ tombstone'
  BY <1>3 DEF DeletionAnswered, ClearStores, Cascade
<1>4. CASE ~UNCHANGED home
  <2>1. \/ \E d \in Bootstrap : Adopt(d)
        \/ \E c \in Call : DeletionAnswered(c)
    <3>1. ASSUME NEW c \in Call, NEW d \in Bootstrap,
                 \/ Synchronize(c, d) \/ DeleteWorkspace(c, d)
                 \/ \E k \in Capability : OpenLink(c, d, k)
          PROVE  UNCHANGED home
      BY <3>1
      DEF Synchronize, DeleteWorkspace, RequestDeletion, OpenLink, browser
    <3>2. ASSUME NEW c \in Call, Statement(c) \/ Failed(c), ~DeletionAnswered(c)
          PROVE  UNCHANGED home
      BY <3>2
      DEF Statement, BootstrapAnswered, JoinAnswered, JoinRefused, Broken, Failed, browser, device
    <3>3. ASSUME NEW d \in Bootstrap, NEW k \in Capability, Invite(d, k)
          PROVE  UNCHANGED home
      BY <3>3 DEF Invite, browser, device
    <3>4. ASSUME NEW d \in Bootstrap,
                 CloseLink(d) \/ CommitLocal(d) \/ CommitRemote(d) \/ SynchronizeElsewhere(d)
          PROVE  UNCHANGED home
      BY <3>4 DEF CloseLink, CommitLocal, CommitRemote, SynchronizeElsewhere
    <3>5. QED
      BY <1>4, <3>1, <3>2, <3>3, <3>4 DEF DeviceNext, allvars, browser, device
  <2>2. QED
    BY <1>2, <1>3, <1>4, <2>1
<1>5. QED
  BY <1>1, <1>4

\* No device leaves work or a living workspace behind, for any number of
\* devices and tabs.
THEOREM NothingIsAbandoned == DeviceSpec => NothingAbandoned
<1> DEFINE Homes == home \in [Bootstrap -> {"this", "other"}]
           Moves == \A d \in Bootstrap :
             /\ home[d] = "other" /\ home'[d] = "this" => d \notin work
             /\ home[d] = "this" /\ home'[d] = "other" => tombstone'
<1>1. DeviceInit => Homes
  BY DEF DeviceInit
<1>2. Homes /\ [DeviceNext]_allvars => Homes' /\ [Moves]_allvars
  BY HomeStep
<1>3. DeviceSpec => [][Moves]_allvars
  <2> HIDE DEF Homes, Moves
  <2>1. QED
    BY <1>1, <1>2, PTL DEF DeviceSpec
<1>4. QED
  BY <1>3 DEF NothingAbandoned

=============================================================================
