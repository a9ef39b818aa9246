--------------------------- MODULE SessionAuthority ---------------------------
(***************************************************************************)
(* SessionAuthority and PostgresSessionStore (domains/identity/src) for    *)
(* one workspace identifier: bootstraps of several devices and their       *)
(* retries, join capabilities, and the deletion of the workspace.          *)
(*                                                                         *)
(* Transactions are READ COMMITTED.  Three locks of PostgreSQL order them: *)
(* the advisory lock of the workspace, the row of a capability, and the    *)
(* row of the workspace, which a foreign key shares and a DELETE owns.     *)
(***************************************************************************)
EXTENDS Naturals, FiniteSets

CONSTANTS
  Bootstrap,      \* bootstrapIds of the devices that want this workspaceId
  Capability,     \* join capabilities the owner may create
  Call,           \* calls that may be under way together
  MaxCalls        \* bounds the calls made

ASSUME NameAssumption ==
  /\ Bootstrap \cap Capability = {}
  /\ "none" \notin Call \cup Bootstrap \cup Capability
ASSUME BoundAssumption == MaxCalls \in Nat

VARIABLES
  live,           \* the row in `workspaces' exists
  tombstone,      \* the row in `deleted_workspaces' exists
  sessions,       \* device_sessions
  members,        \* workspace_members; `by' is the bootstrap or capability
  claims,         \* bootstrap_claims
  capability,     \* capability[k]: the row in join_capabilities
  lapsed,         \* what has expired: claims and capabilities
  advisory,       \* the call that holds the advisory lock
  call,           \* call[c]: the statement a call executes next
  made,           \* how many calls have drawn a session identifier
  answers         \* what bootstraps were answered while their claim was valid

tables == <<live, tombstone, sessions, members, claims, capability, lapsed>>
vars == <<tables, advisory, call, made, answers>>

Idle == [pc |-> "idle", for |-> "none", session |-> 0]

TypeOK ==
  /\ live \in BOOLEAN /\ tombstone \in BOOLEAN
  /\ sessions \subseteq 1..made
  /\ members \subseteq [session : 1..made, role : {"owner", "linked"},
                        by : Bootstrap \cup Capability]
  /\ claims \subseteq [bootstrap : Bootstrap, session : 1..made]
  /\ capability \in [Capability -> {"none", "open", "consumed"}]
  /\ lapsed \subseteq Bootstrap \cup Capability
  /\ advisory \in Call \cup {"none"}
  /\ call \in [Call -> [pc : {"idle", "lock", "tombstone", "existing", "insert", "commit",
                              "consume", "member", "joinCommit",
                              "eraseLock", "eraseRow", "cascade"},
                        for : Bootstrap \cup Capability \cup {"none"}, session : 0..made]]
  /\ made \in 0..MaxCalls
  /\ answers \subseteq [bootstrap : Bootstrap, session : 0..made]

Init ==
  /\ live = FALSE /\ tombstone = FALSE
  /\ sessions = {} /\ members = {} /\ claims = {}
  /\ capability = [k \in Capability |-> "none"] /\ lapsed = {}
  /\ advisory = "none"
  /\ call = [c \in Call |-> Idle]
  /\ made = 0 /\ answers = {}

-----------------------------------------------------------------------------
At(c, label) == call[c].pc = label
Goto(c, label) == call' = [call EXCEPT ![c].pc = label]
Unlock(c) == advisory' = IF advisory = c THEN "none" ELSE advisory

\* The transaction ends: COMMIT or ROLLBACK, and its locks are free.
End(c) == call' = [call EXCEPT ![c] = Idle] /\ Unlock(c)

\* The row locks, by the statements that hold them.
HoldsCapability(k) == \E c \in Call : call[c].for = k /\ call[c].pc \in {"member", "joinCommit"}
SharesWorkspace == \E c \in Call : call[c].pc = "joinCommit"
OwnsWorkspace == \E c \in Call : call[c].pc = "cascade"

Valid(b) == {claim \in claims : claim.bootstrap = b /\ b \notin lapsed}

\* A call draws the identifier of the session it may make.
Begin(c, label, x) ==
  /\ At(c, "idle") /\ made < MaxCalls
  /\ made' = made + 1
  /\ call' = [call EXCEPT ![c] = [pc |-> label, for |-> x, session |-> made']]
  /\ UNCHANGED <<tables, advisory, answers>>

BeginBootstrap(c, b) == Begin(c, "lock", b)

\* What the advisory lock prevents: a deletion between the look for the
\* tombstone and the INSERT.
AdvisoryUnlocked(c) ==
  /\ At(c, "lock")
  /\ Goto(c, "tombstone")
  /\ UNCHANGED <<tables, advisory, made, answers>>

AdvisoryLock(c) ==
  /\ At(c, "lock") /\ advisory = "none"
  /\ advisory' = c
  /\ Goto(c, "tombstone")
  /\ UNCHANGED <<tables, made, answers>>

CheckTombstone(c) ==
  /\ At(c, "tombstone")
  /\ IF tombstone THEN End(c) ELSE Goto(c, "existing") /\ UNCHANGED advisory
  /\ UNCHANGED <<tables, made, answers>>

\* A retry is answered with the session of its valid claim.
Answered(c) ==
  answers' = answers \cup {[bootstrap |-> claim.bootstrap, session |-> claim.session] :
                             claim \in Valid(call[c].for)}

FindExisting(c) ==
  /\ At(c, "existing")
  /\ IF Valid(call[c].for) # {}
     THEN Answered(c) /\ End(c)
     ELSE Goto(c, "insert") /\ UNCHANGED <<advisory, answers>>
  /\ UNCHANGED <<tables, made>>

\* 409.  Its device remembers it if it comes while the claim should be valid.
Refused(c) ==
  answers' = IF \E m \in members : m.by = call[c].for /\ m.by \notin lapsed
             THEN answers \cup {[bootstrap |-> call[c].for, session |-> 0]} ELSE answers

\* INSERT INTO workspaces ON CONFLICT DO NOTHING; an identifier that is taken
\* is answered by a second look for the claim, or refused.
InsertWorkspace(c) ==
  /\ At(c, "insert")
  /\ ~\E d \in Call : At(d, "commit")      \* the unique index waits
  /\ \/ ~live /\ Goto(c, "commit") /\ UNCHANGED <<advisory, answers>>
     \/ live /\ End(c) /\ IF Valid(call[c].for) # {} THEN Answered(c) ELSE Refused(c)
  /\ UNCHANGED <<tables, made>>

\* What storing the claim prevents: a retry that is taken for a stranger.
CommitUnclaimed(c) ==
  /\ At(c, "commit")
  /\ live' = TRUE
  /\ sessions' = sessions \cup {call[c].session}
  /\ members' = members \cup {[session |-> call[c].session, role |-> "owner", by |-> call[c].for]}
  /\ answers' = answers \cup {[bootstrap |-> call[c].for, session |-> call[c].session]}
  /\ End(c)
  /\ UNCHANGED <<tombstone, claims, capability, lapsed, made>>

CommitBootstrap(c) ==
  /\ At(c, "commit")
  /\ live' = TRUE
  /\ sessions' = sessions \cup {call[c].session}
  /\ members' = members \cup {[session |-> call[c].session, role |-> "owner", by |-> call[c].for]}
  /\ claims' = claims \cup {[bootstrap |-> call[c].for, session |-> call[c].session]}
  /\ answers' = answers \cup {[bootstrap |-> call[c].for, session |-> call[c].session]}
  /\ End(c)
  /\ UNCHANGED <<tombstone, capability, lapsed, made>>

\* Ten minutes for a claim, what the owner chose for a capability.
Lapse(x) ==
  /\ x \notin lapsed
  /\ (\E claim \in claims : claim.bootstrap = x) \/ (x \in Capability /\ capability[x] = "open")
  /\ lapsed' = lapsed \cup {x}
  /\ UNCHANGED <<live, tombstone, sessions, members, claims, capability, advisory, call, made, answers>>

-----------------------------------------------------------------------------
\* The INSERT of a capability; its foreign key waits for a deletion.
InsertCapability(k) ==
  /\ live /\ ~OwnsWorkspace
  /\ capability' = [capability EXCEPT ![k] = "open"]

\* createJoinCapability by the owner.
CreateCapability(k) ==
  /\ capability[k] = "none"
  /\ \E m \in members : m.role = "owner"
  /\ InsertCapability(k)
  /\ UNCHANGED <<live, tombstone, sessions, members, claims, lapsed, advisory, call, made, answers>>

BeginJoin(c, k) == Begin(c, "consume", k)

\* What the row lock of the UPDATE prevents: two devices find it unconsumed.
ConsumeUnlocked(c) ==
  /\ At(c, "consume")
  /\ IF capability[call[c].for] = "open" /\ call[c].for \notin lapsed
     THEN Goto(c, "member") /\ UNCHANGED advisory
     ELSE End(c)
  /\ UNCHANGED <<tables, made, answers>>

\* UPDATE ... WHERE consumed_at IS NULL waits for the transaction that holds
\* the row, or a deletion that has it, and looks again.
Consume(c) ==
  /\ At(c, "consume")
  /\ ~HoldsCapability(call[c].for) /\ ~OwnsWorkspace
  /\ IF capability[call[c].for] = "open" /\ call[c].for \notin lapsed
     THEN Goto(c, "member") /\ UNCHANGED advisory
     ELSE End(c)
  /\ UNCHANGED <<tables, made, answers>>

\* INSERT INTO workspace_members: the foreign key shares the workspace row.
InsertMember(c) ==
  /\ At(c, "member") /\ ~OwnsWorkspace
  /\ IF live THEN Goto(c, "joinCommit") /\ UNCHANGED advisory ELSE End(c)
  /\ UNCHANGED <<tables, made, answers>>

JoinCommit(c) ==
  /\ At(c, "joinCommit")
  /\ capability' = [capability EXCEPT ![call[c].for] = "consumed"]
  /\ sessions' = sessions \cup {call[c].session}
  /\ members' = members \cup {[session |-> call[c].session, role |-> "linked", by |-> call[c].for]}
  /\ End(c)
  /\ UNCHANGED <<live, tombstone, claims, lapsed, made, answers>>

-----------------------------------------------------------------------------
\* The route has authorized the owner; others may delete meanwhile.
BeginErase(c) == (\E m \in members : m.role = "owner") /\ Begin(c, "eraseLock", "none")

\* delete_workspace_active_data: the lock, and the owner is looked for again.
EraseLock(c) ==
  /\ At(c, "eraseLock") /\ advisory = "none"
  /\ IF \E m \in members : m.role = "owner"
     THEN advisory' = c /\ Goto(c, "eraseRow")
     ELSE End(c)
  /\ UNCHANGED <<tables, made, answers>>

\* DELETE FROM workspaces waits for those who share the row.
EraseRow(c) ==
  /\ At(c, "eraseRow") /\ ~SharesWorkspace
  /\ Goto(c, "cascade")
  /\ UNCHANGED <<tables, advisory, made, answers>>

\* The cascade waits for the capabilities in use, then everything goes; the
\* tombstone is committed with it.
Cascade(c) ==
  /\ At(c, "cascade") /\ \A k \in Capability : ~HoldsCapability(k)
  /\ live' = FALSE /\ tombstone' = TRUE
  /\ members' = {} /\ claims' = {}
  /\ capability' = [k \in Capability |-> "none"]
  /\ sessions' = sessions \ {m.session : m \in members}
  /\ End(c)
  /\ UNCHANGED <<lapsed, made, answers>>

\* A deletion waits for a capability whose holder waits for the workspace:
\* PostgreSQL aborts one of the two.
Deadlocked(c) ==
  \/ At(c, "cascade") /\ \E d \in Call : At(d, "member")
  \/ At(c, "member") /\ OwnsWorkspace

BreakDeadlock(c) ==
  /\ Deadlocked(c)
  /\ End(c)
  /\ UNCHANGED <<tables, made, answers>>

\* What the ROLLBACK prevents: the connection goes back with its locks.
AbortKeeping(c) ==
  /\ ~At(c, "idle")
  /\ call' = [call EXCEPT ![c] = Idle]
  /\ UNCHANGED <<tables, advisory, made, answers>>

\* A statement fails, or the process stops: ROLLBACK.
Abort(c) ==
  /\ ~At(c, "idle")
  /\ End(c)
  /\ UNCHANGED <<tables, made, answers>>

Step(c) ==
  \/ AdvisoryLock(c) \/ CheckTombstone(c) \/ FindExisting(c) \/ InsertWorkspace(c)
  \/ CommitBootstrap(c) \/ Consume(c) \/ InsertMember(c) \/ JoinCommit(c)
  \/ EraseLock(c) \/ EraseRow(c) \/ Cascade(c) \/ BreakDeadlock(c)

Next ==
  \/ \E c \in Call :
       \/ \E b \in Bootstrap : BeginBootstrap(c, b)
       \/ \E k \in Capability : BeginJoin(c, k)
       \/ BeginErase(c) \/ Step(c) \/ Abort(c)
  \/ \E k \in Capability : CreateCapability(k)
  \/ \E x \in Bootstrap \cup Capability : Lapse(x)

Spec == Init /\ [][Next]_vars

-----------------------------------------------------------------------------
\* Every member has a title of its own: a workspace has one owner at most,
\* whoever claims its identifier when, and a capability makes one member,
\* however many devices present it.
MembersAreRightful ==
  \A m, n \in members : m # n =>
    m.by # n.by /\ ~(m.role = "owner" /\ n.role = "owner")

\* A deletion is final and complete: nothing of the workspace is left or comes
\* back, whichever bootstraps and joins were under way.
DeletionIsFinal ==
  tombstone =>
    /\ ~live /\ sessions = {} /\ members = {} /\ claims = {}
    /\ \A k \in Capability : capability[k] = "none"

\* Every answer to one bootstrapId names one session: a device that lost the
\* first answer gets the same session from its retry, and is not refused as a
\* stranger while its claim is valid.
RetryAgrees ==
  \A x, y \in answers : x.bootstrap = y.bootstrap => x = y

\* No call waits for ever, though deletions and joins lock in opposite orders.
EveryCallSettles == \A c \in Call : ~At(c, "idle") ~> At(c, "idle")
=============================================================================
