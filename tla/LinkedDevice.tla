----------------------------- MODULE LinkedDevice -----------------------------
(***************************************************************************)
(* The devices of a workspace and its SessionAuthority: how a page finds   *)
(* its workspace in IndexedDB, bootstraps or resumes its session, adopts   *)
(* the workspace of a link, and deletes it (composeWebRuntime, SyncClient, *)
(* LocalWorkspaceStore and the routes of identity-http-routes.ts).         *)
(*                                                                         *)
(* The module adds the browsers to SessionAuthority: every call there is   *)
(* the request of a device, and its answer arrives or is lost.  The tabs   *)
(* of a device share one cookie and one IndexedDB.                         *)
(***************************************************************************)
EXTENDS SessionAuthority

CONSTANTS
  Owner,          \* the device that made the workspace
  Lingering       \* devices with a second tab, opened before the link

ASSUME OwnerAssumption == Owner \in Bootstrap /\ Lingering \subseteq Bootstrap

VARIABLES
  home,           \* the workspace of the identity in `meta': this one, or another
  work,           \* devices with records of another workspace
  mixed,          \* devices that store a surface of another workspace as ours
  cookie,         \* the session named by the cookie: 0 is one of elsewhere
  linking,        \* the call the page of a link waits for, or what came of it
  sender          \* the device that made a call

browser == <<home, work, mixed, cookie, linking>>
device == <<browser, sender>>

DeviceTypeOK ==
  /\ TypeOK
  /\ home \in [Bootstrap -> {"this", "other"}]
  /\ work \subseteq Bootstrap /\ mixed \subseteq Bootstrap
  /\ cookie \in [Bootstrap -> 0..MaxCalls]
  /\ linking \in [Bootstrap -> Call \cup {"no", "joined"}]
  /\ sender \in [Call -> Bootstrap]

DeviceInit ==
  /\ Init
  /\ home = [d \in Bootstrap |-> IF d = Owner THEN "this" ELSE "other"]
  /\ work = {} /\ mixed = {}
  /\ cookie = [d \in Bootstrap |-> 0]
  /\ linking = [d \in Bootstrap |-> "no"]
  /\ sender = [c \in Call |-> Owner]

-----------------------------------------------------------------------------
\* findSession: the member a cookie stands for.
SessionOf(d) == {m \in members : m.session = cookie[d]}

\* authorize for the owner.
Authorized(d) == \E m \in SessionOf(d) : m.role = "owner"

\* resume: only the cookie of a member is good for this workspace.
Resumes(d) == SessionOf(d) # {}

\* The request of d; a page asks once at a time, a page that is gone may have
\* left a request behind.
Sends(c, d) == sender' = [sender EXCEPT ![c] = d]
Receives(d, session) == cookie' = [cookie EXCEPT ![d] = session]

\* The bootstrap route: a cookie of a member resumes and changes nothing, any
\* other is as good as none.
Synchronize(c, d) ==
  /\ home[d] = "this" /\ ~Resumes(d)
  /\ BeginBootstrap(c, d)
  /\ Sends(c, d)
  /\ UNCHANGED browser

\* What a bootstrap answers with: the session of the claim, or the new one.
Granted(c) ==
  IF At(c, "commit") THEN {call[c].session}
  ELSE {claim.session : claim \in Valid(call[c].for)}

\* The last statement of a bootstrap.  Its answer sets the cookie, or is lost.
BootstrapAnswered(c) ==
  /\ FindExisting(c) \/ InsertWorkspace(c) \/ CommitBootstrap(c)
  /\ \/ call'[c].pc = "idle" /\ \E s \in Granted(c) : Receives(sender[c], s)
     \/ UNCHANGED cookie
  /\ UNCHANGED <<home, work, mixed, linking, sender>>

-----------------------------------------------------------------------------
\* The owner asks for a link; the page authorizes itself by its cookie.
Invite(d, k) ==
  /\ Authorized(d)
  /\ CreateCapability(k)
  /\ UNCHANGED device

\* loadWorkspace finds no surface, queued operation or receipt.
Blank(d) == home[d] = "other" /\ d \notin work

\* A page is opened on a link.
OpenLink(c, d, k) ==
  /\ Blank(d) /\ linking[d] = "no"
  /\ capability[k] # "none"
  /\ BeginJoin(c, k)
  /\ Sends(c, d)
  /\ linking' = [linking EXCEPT ![d] = c]
  /\ UNCHANGED <<home, work, mixed, cookie>>

\* The page of a call has failed, if it is still there.
PageFails(c) ==
  linking' = [d \in Bootstrap |-> IF linking[d] = c THEN "no" ELSE linking[d]]

\* The join is committed, and its answer arrives; or it is lost, and the page
\* has failed if it is still there.
JoinAnswered(c) ==
  /\ JoinCommit(c)
  /\ LET d == sender[c] IN
       \/ /\ linking[d] = c
          /\ linking' = [linking EXCEPT ![d] = "joined"]
          /\ Receives(d, call[c].session)
       \/ PageFails(c) /\ UNCHANGED cookie
  /\ UNCHANGED <<home, work, mixed, sender>>

\* The capability is gone or the statement fails: the page has failed.
JoinRefused(c) ==
  /\ Consume(c) \/ InsertMember(c)
  /\ IF call'[c].pc = "idle" THEN PageFails(c) ELSE UNCHANGED linking
  /\ UNCHANGED <<home, work, mixed, cookie, sender>>

\* What the second look at the stores prevents: work of another tab is left
\* behind.
AdoptBlindly(d) ==
  /\ linking[d] = "joined"
  /\ linking' = [linking EXCEPT ![d] = "no"]
  /\ home' = [home EXCEPT ![d] = "this"]
  /\ UNCHANGED <<vars, work, mixed, cookie, sender>>

\* adoptLinkedWorkspace: one transaction looks at the stores again and writes
\* the identity.
Adopt(d) ==
  /\ linking[d] = "joined"
  /\ linking' = [linking EXCEPT ![d] = "no"]
  /\ home' = IF Blank(d) THEN [home EXCEPT ![d] = "this"] ELSE home
  /\ UNCHANGED <<vars, work, mixed, cookie, sender>>

\* The page of a link is closed or reloaded: its request goes on, and the
\* capability may be spent.
CloseLink(d) ==
  /\ linking[d] # "no"
  /\ linking' = [linking EXCEPT ![d] = "no"]
  /\ UNCHANGED <<vars, home, work, mixed, cookie, sender>>

\* A tab that was opened before the link stores an edit of its own workspace.
CommitLocal(d) ==
  /\ d \in Lingering /\ d \notin work
  /\ work' = work \cup {d}
  /\ UNCHANGED <<vars, home, mixed, cookie, linking, sender>>

\* It stores a surface of its own workspace that another device has changed,
\* under the identity that `meta' has by now.
CommitRemote(d) ==
  /\ d \in Lingering
  /\ IF home[d] = "this" THEN mixed' = mixed \cup {d} /\ UNCHANGED work
     ELSE work' = work \cup {d} /\ UNCHANGED mixed
  /\ UNCHANGED <<vars, home, cookie, linking, sender>>

\* The same tab bootstraps its own workspace: no cookie but its own resumes it.
SynchronizeElsewhere(d) ==
  /\ d \in Lingering /\ cookie[d] # 0
  /\ Receives(d, 0)
  /\ UNCHANGED <<vars, home, work, mixed, linking, sender>>

-----------------------------------------------------------------------------
\* The DELETE request; its route authorizes the owner.
RequestDeletion(c, d) ==
  /\ Authorized(d)
  /\ BeginErase(c)
  /\ Sends(c, d)

\* What asking the server first prevents: the local copy goes, and the server
\* may refuse.
DeleteLocalFirst(c, d) ==
  /\ home[d] = "this" /\ RequestDeletion(c, d)
  /\ home' = [home EXCEPT ![d] = "other"]
  /\ UNCHANGED <<work, mixed, cookie, linking>>

\* deleteWorkspace of the page.
DeleteWorkspace(c, d) ==
  /\ home[d] = "this"
  /\ RequestDeletion(c, d)
  /\ UNCHANGED browser

\* deleteWorkspace of the store: the identity and all its records.
ClearStores(d) ==
  /\ home' = [home EXCEPT ![d] = "other"]
  /\ work' = work \ {d} /\ mixed' = mixed \ {d}

\* The workspace is deleted.  The answer clears the cookie, and the page clears
\* the stores and opens a new workspace; or it is lost and the page keeps its.
DeletionAnswered(c) ==
  /\ Cascade(c)
  /\ LET d == sender[c] IN
       \/ Receives(d, 0) /\ ClearStores(d)
       \/ UNCHANGED <<home, work, mixed, cookie>>
  /\ UNCHANGED <<linking, sender>>

\* A statement fails, the deadlock detector chooses this call, or the process
\* stops: the page that waits for a link has failed.
Failed(c) ==
  /\ Abort(c)
  /\ PageFails(c)
  /\ UNCHANGED <<home, work, mixed, cookie, sender>>

Broken(c) ==
  /\ BreakDeadlock(c)
  /\ PageFails(c)
  /\ UNCHANGED <<home, work, mixed, cookie, sender>>

Statement(c) ==
  \/ (AdvisoryLock(c) \/ CheckTombstone(c) \/ EraseLock(c) \/ EraseRow(c)) /\ UNCHANGED device
  \/ BootstrapAnswered(c) \/ JoinAnswered(c) \/ JoinRefused(c) \/ DeletionAnswered(c) \/ Broken(c)

DeviceNext ==
  \/ \E c \in Call, d \in Bootstrap :
       \/ Synchronize(c, d) \/ DeleteWorkspace(c, d)
       \/ \E k \in Capability : OpenLink(c, d, k)
  \/ \E d \in Bootstrap :
       \/ Adopt(d) \/ CloseLink(d)
       \/ CommitLocal(d) \/ CommitRemote(d) \/ SynchronizeElsewhere(d)
       \/ \E k \in Capability : Invite(d, k)
  \/ \E c \in Call : Statement(c) \/ Failed(c)
  \/ \E x \in Bootstrap \cup Capability : Lapse(x) /\ UNCHANGED device

allvars == <<vars, device>>

DeviceSpec ==
  /\ DeviceInit /\ [][DeviceNext]_allvars
  /\ \A c \in Call : WF_allvars(Statement(c))

-----------------------------------------------------------------------------

\* "A device with local work cannot silently adopt another workspace": a device
\* changes its workspace only when nothing is abandoned by it: no work that
\* another tab has stored while the link was being opened, and no workspace
\* that the server has not deleted, whichever answers were lost.
NothingAbandoned ==
  [][\A d \in Bootstrap :
       /\ home[d] = "other" /\ home'[d] = "this" => d \notin work
       /\ home[d] = "this" /\ home'[d] = "other" => tombstone']_allvars

\* The access of a linked device ends with the workspace only: its page keeps
\* the session of the link.
AccessLasts ==
  [][\A d \in Bootstrap :
       home[d] = "this" /\ Resumes(d) /\ live' => Resumes(d)']_allvars

\* "A blank linked device retains no reference to its unused bootstrap workspace
\* ID": no work is stored for a workspace the page does not open.
WorkIsReachable == \A d \in work : home[d] = "other"

\* What a page reconstructs at its start is its own workspace.
SurfacesAreOurs == mixed = {}
=============================================================================
