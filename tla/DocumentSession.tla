--------------------------- MODULE DocumentSession ---------------------------
(***************************************************************************)
(* The rich blocks of an open document: DocumentRenderer, WidgetHost and   *)
(* BlockEditor (domains/document/src), loaded and driven by the callbacks  *)
(* of compose-web-runtime.ts.                                              *)
(*                                                                         *)
(* A block is a revision: its version, a number that stands for its        *)
(* source, and the message its widget state came with.  Edits, messages    *)
(* and puts of other devices draw numbers from one counter.  Kinds differ  *)
(* in what a rendering awaits: the pages of a `latex' document, which are  *)
(* compiled and then fetched, the image of an `asset', or nothing          *)
(* (`widget').  Layout, Markdown and error texts are left out.             *)
(***************************************************************************)
EXTENDS Naturals, Sequences, FiniteSets, Functions

CONSTANTS
  Block, Surface,
  Page,       \* the surface a block is on
  Kind,       \* "latex", "asset" or "widget"
  Parts,      \* the blobs a rendering of a block needs
  Loaded,     \* the blocks that are in the store
  None,       \* undefined
  MaxEdits, MaxViews, MaxOpens   \* bound contents, page changes and sessions

ASSUME KindAssumption ==
  /\ Kind \in [Block -> {"latex", "asset", "widget"}] /\ Loaded \subseteq Block
  /\ \A b \in Block : Kind[b] = "widget" <=> Parts[b] = {}
ASSUME PageAssumption == Page \in [Block -> Surface] /\ None \notin Block \cup Surface
ASSUME BlockAssumption == IsFiniteSet(Block)
ASSUME SessionBoundAssumption == {MaxEdits, MaxViews, MaxOpens} \subseteq Nat

VARIABLES
  doc,        \* the live SceneDocuments: the revision of each block, or None
  viewing,    \* the surface of renderer.documentViewport(), or None
  readout,    \* the promise documentReadout
  calls,      \* its callbacks that have not run
  shown,      \* the surface of #snapshot in the renderer, or None
  render,     \* #blocks: what is rendered for each block, or None
  renders,    \* renderings made so far
  fetches,    \* requests of renderings that have not been answered
  urls,       \* object URLs that were created and not revoked
  tool,       \* the promise documentEditor
  openings,   \* its callbacks that have not run
  session,    \* #request of the editor, or None
  saving,     \* #saving
  opens,      \* sessions asked for so far
  saves,      \* saves in `await this.#element'
  writes,     \* states a widget sent and its chain has not taken up
  storing,    \* dispatches in `await commitLocal'
  edits, views,
  gone        \* documentsDestroyed

page == <<viewing, views, gone>>
rendering == <<shown, render, renders, fetches, urls>>
editor == <<tool, openings, session, saving, opens>>
sessionVars == <<doc, page, readout, calls, rendering, editor, saves, writes, storing, edits>>

Revision == [version : Nat \ {0}, source : 0..MaxEdits, state : [frame : Nat, n : 0..MaxEdits]]

Rendering == [id : Nat, revision : Revision, status : {"pending", "whole", "error"}]

ASSUME NoneAssumption == None \notin Revision \cup Rendering

Promises == {"none", "loading", "ready", "failed"}

SessionTypeOK ==
  /\ doc \in [Block -> Revision \cup {None}]
  /\ viewing \in Surface \cup {None} /\ shown \in Surface \cup {None}
  /\ readout \in Promises /\ tool \in Promises
  /\ render \in [Block -> Rendering \cup {None}]
  /\ renders \in Nat /\ urls \subseteq Nat \X UNION {Parts[b] : b \in Block}
  /\ saving \in BOOLEAN /\ gone \in BOOLEAN
  /\ edits \in 0..MaxEdits /\ views \in 0..MaxViews /\ opens \in 0..MaxOpens

Blank == [frame |-> 0, n |-> 0]

\* SessionInit: the blocks that were loaded; no item is open.
SessionInit ==
  /\ doc = [b \in Block |->
       IF b \in Loaded THEN [version |-> 1, source |-> 0, state |-> Blank] ELSE None]
  /\ viewing = None /\ views = 0 /\ gone = FALSE
  /\ readout = "none" /\ calls = <<>>
  /\ shown = None /\ render = [b \in Block |-> None] /\ renders = 0 /\ fetches = {} /\ urls = {}
  /\ tool = "none" /\ openings = <<>>
  /\ session = None /\ saving = FALSE /\ opens = 0
  /\ saves = {} /\ writes = {} /\ storing = {} /\ edits = 0

\* An event is a task of its own: the callbacks of promises that are already
\* fulfilled run before it, and the rest of a save that uploads nothing.
Event ==
  /\ ~gone
  /\ \A s \in saves : s.upload
  /\ readout = "ready" => calls = <<>>
  /\ tool = "ready" => openings = <<>>

FreshEdit == edits < MaxEdits /\ edits' = edits + 1

-----------------------------------------------------------------------------
(* Opening and refreshing.                                                 *)

Then(promise, queue, callback) ==
  IF promise = "failed" THEN queue ELSE Append(queue, callback)

\* openDocuments().then(callback).
OpenDocuments(callback) ==
  /\ readout' = IF readout = "none" THEN "loading" ELSE readout
  /\ calls' = Then(readout, calls, callback)

Call(kind) == [do |-> kind]

\* refreshDocument, called where the viewport or a document has changed, as
\* long as the page observes them.
Refresh ==
  IF gone \/ (viewing' = None /\ readout = "none") THEN UNCHANGED <<readout, calls>>
  ELSE IF viewing' = None THEN calls' = Then(readout, calls, Call("clear")) /\ UNCHANGED readout
  ELSE OpenDocuments(Call("show"))

\* editDocument.
EditDocument(request) ==
  /\ tool' = IF tool = "none" THEN "loading" ELSE tool
  /\ openings' = Then(tool, openings, request)
  /\ UNCHANGED <<session, saving>>

\* The item is opened or closed, or another of its pages.
View(s) ==
  /\ Event /\ s # viewing /\ views < MaxViews
  /\ viewing' = s /\ views' = views + 1 /\ Refresh
  /\ UNCHANGED <<doc, gone, rendering, editor, saves, writes, storing, edits>>

LoadRenderer(ok) ==
  /\ readout = "loading"
  /\ readout' = IF ok THEN "ready" ELSE "failed"
  /\ calls' = IF ok THEN calls ELSE <<>>
  /\ UNCHANGED <<doc, page, rendering, editor, saves, writes, storing, edits>>

LoadEditor(ok) ==
  /\ tool = "loading"
  /\ tool' = IF ok THEN "ready" ELSE "failed"
  /\ openings' = IF ok THEN openings ELSE <<>>
  /\ UNCHANGED <<doc, page, readout, calls, rendering, session, saving, opens,
                 saves, writes, storing, edits>>

\* A double tap on a block, or beside all of them; the open editor covers them.
DoubleTap(b) ==
  /\ Event /\ viewing # None /\ session = None
  /\ opens < MaxOpens /\ opens' = opens + 1
  /\ OpenDocuments([do |-> "edit", id |-> opens', surface |-> viewing, block |-> b])
  /\ UNCHANGED <<doc, page, rendering, tool, openings, session, saving,
                 saves, writes, storing, edits>>

-----------------------------------------------------------------------------
(* The renderer.                                                           *)

Compile == 0   \* stands for the compilation among the parts

\* AssetClient.blob of the parts of a rendering, all at once.
FetchParts(b, id) == {[render |-> id, block |-> b, part |-> k] : k \in Parts[b]}

\* LatexCompilationClient.compile: one request.
CompileSource(b, id) == {[render |-> id, block |-> b, part |-> Compile]}

Requests(b, id) == IF Kind[b] = "latex" THEN CompileSource(b, id) ELSE FetchParts(b, id)

\* Mutant: an element that is still there keeps its rendering.
Vanished(b) == render[b] # None /\ (doc[b] = None \/ Page[b] # viewing)

\* show destroys what is gone or has another version.
Outdated(b) ==
  /\ render[b] # None
  /\ doc[b] = None \/ Page[b] # viewing \/ doc[b].version # render[b].revision.version

Wanted(b) == doc[b] # None /\ Page[b] = viewing

\* destroy of some renderings: the signal is aborted and the URLs are revoked.
Without(destroyed) == {u \in urls : \A b \in destroyed : u[1] # render[b].id}

Clear ==
  /\ shown' = None
  /\ render' = [b \in Block |-> None]
  /\ urls' = Without({b \in Block : render[b] # None})
  /\ UNCHANGED <<renders, fetches>>

\* The new renderings are numbered in some order.
Show ==
  LET old == {b \in Block : Outdated(b)}
      new == {b \in Block : Wanted(b) /\ (render[b] = None \/ b \in old)}
      number == CHOOSE f \in [new -> 1..Cardinality(new)] : IsInjective(f)
      Id(b) == renders + number[b]
  IN /\ shown' = viewing
     /\ render' = [b \in Block |->
          IF b \in new
            THEN [id |-> Id(b), revision |-> doc[b],
                  status |-> "pending"]
            ELSE IF b \in old THEN None ELSE render[b]]
     /\ urls' = Without(old)
     /\ renders' = renders + Cardinality(new)
     /\ fetches' = fetches \cup UNION {Requests(b, Id(b)) : b \in new}

\* editAt: the block under the point as it is rendered, or a new one.
EditAt(call) ==
  IF shown # None /\ viewing = call.surface
    THEN EditDocument([id |-> call.id, surface |-> shown, block |-> call.block,
           opened |-> IF call.block = None \/ render[call.block] = None THEN None
                      ELSE render[call.block].revision])
    ELSE UNCHANGED <<tool, openings, session, saving>>

\* The next callback of documentReadout.
RunCall ==
  /\ readout = "ready" /\ calls # <<>>
  /\ calls' = Tail(calls)
  /\ LET call == Head(calls)
     IN CASE call.do = "edit" -> EditAt(call) /\ UNCHANGED <<opens, rendering>>
          [] call.do = "show" /\ viewing # None -> Show /\ UNCHANGED editor
          [] OTHER -> Clear /\ UNCHANGED editor
  /\ UNCHANGED <<doc, page, readout, saves, writes, storing, edits>>

\* signal.aborted.
Aborted(f) == render[f.block] = None \/ render[f.block].id # f.render

Mark(f, status) == render' = [render EXCEPT ![f.block].status = status]

\* The compilation is answered; its pages are fetched under the same signal.
Compiled(f) ==
  /\ f \in fetches /\ f.part = Compile
  /\ fetches' = (fetches \ {f}) \cup IF Aborted(f) THEN {} ELSE FetchParts(f.block, f.render)
  /\ UNCHANGED <<doc, page, readout, calls, shown, render, renders, urls, editor, saves, writes, storing, edits>>

\* Mutant: a blob gets its URL though the rendering was destroyed.
ReceivedLate(f) == urls \cup {<<f.render, f.part>>}

Received(f) == IF Aborted(f) THEN urls ELSE urls \cup {<<f.render, f.part>>}

\* A blob is answered: it gets an object URL.  The images are shown when the
\* last one is there, unless another request has failed.
Fetched(f) ==
  /\ f \in fetches /\ f.part # Compile
  /\ fetches' = fetches \ {f}
  /\ urls' = Received(f)
  /\ IF /\ render[f.block] # None
        /\ render[f.block].id = f.render
        /\ render[f.block].status = "pending"
        /\ \A k \in Parts[f.block] : <<f.render, k>> \in urls'
       THEN Mark(f, "whole")
       ELSE UNCHANGED render
  /\ UNCHANGED <<doc, page, readout, calls, shown, renders, editor, saves, writes, storing, edits>>

FetchFails(f) ==
  /\ f \in fetches
  /\ fetches' = fetches \ {f}
  /\ IF Aborted(f) THEN UNCHANGED render ELSE Mark(f, "error")
  /\ UNCHANGED <<doc, page, readout, calls, shown, renders, urls, editor, saves, writes, storing, edits>>

-----------------------------------------------------------------------------
(* The editor.                                                             *)

CloseEditor == session' = None /\ saving' = FALSE

\* Mutant: the editor opens whatever has become of the page.
OpensAlways(request) == request # None

\* `if (!documentsDestroyed) editor.open(request)'; None stands for destroy.
Opens(request) == request # None /\ ~gone

RunOpening ==
  /\ tool = "ready" /\ openings # <<>>
  /\ openings' = Tail(openings)
  /\ LET request == Head(openings)
     IN IF Opens(request)
          THEN /\ session' = [id |-> request.id, surface |-> request.surface,
                              block |-> IF request.opened = None THEN None ELSE request.block,
                              opened |-> request.opened]
               /\ saving' = FALSE
          ELSE IF request = None THEN CloseEditor ELSE UNCHANGED <<session, saving>>
  /\ UNCHANGED <<doc, page, readout, calls, rendering, tool, opens, saves, writes, storing, edits>>

Cancel ==
  /\ Event /\ session # None /\ CloseEditor
  /\ UNCHANGED <<doc, page, readout, calls, rendering, tool, openings, opens,
                 saves, writes, storing, edits>>

\* expectedVersion, and the same comparison before the upload.
Unchanged(s) ==
  s.block # None => doc[s.block] # None /\ doc[s.block].version = s.opened.version

\* save, until it awaits the element, which is uploaded first when it is an
\* image with a new file.  A conflict changes nothing.
Save(upload) ==
  /\ upload /\ session # None /\ session.block # None => Kind[session.block] = "asset"
  /\ Event /\ session # None /\ ~saving /\ Unchanged(session) /\ FreshEdit
  /\ saving' = TRUE
  /\ saves' = saves \cup {[from |-> session.id, surface |-> session.surface,
                           block |-> session.block, opened |-> session.opened, n |-> edits', upload |-> upload]}
  /\ UNCHANGED <<doc, page, readout, calls, rendering, tool, openings, session, opens, writes, storing>>

SaveFails ==
  /\ saving' = FALSE
  /\ UNCHANGED <<tool, openings, session, opens>>

\* The element of a save: the draft, and from the block that was opened the
\* state.  transact numbers it.
Element(s) ==
  IF s.block = None THEN [version |-> 1, source |-> s.n, state |-> Blank]
  ELSE [version |-> s.opened.version + 1, source |-> s.n, state |-> s.opened.state]

\* The await of the element ends.  AssetClient.upload reserves, puts and
\* finalizes the file of an image, without a signal; other drafts need nothing.
Uploaded(s) == s \in saves /\ saves' = saves \ {s}

\* The element is there: dispatch stages it, or finds a conflict.
Dispatch(s) ==
  /\ Uploaded(s)
  /\ \/ /\ s.block # None /\ Unchanged(s)
        /\ storing' = storing \cup {[by |-> "session", from |-> s.from, n |-> s.n,
             block |-> s.block, base |-> doc[s.block], put |-> Element(s)]}
        /\ UNCHANGED editor
     \/ /\ s.block = None
        /\ \E b \in Block :   \* a new identifier
             /\ doc[b] = None /\ Page[b] = s.surface /\ s.upload = (Kind[b] = "asset")
             /\ \A d \in storing : d.block # b
             /\ storing' = storing \cup {[by |-> "session", from |-> s.from, n |-> s.n,
                  block |-> b, base |-> None, put |-> Element(s)]}
        /\ UNCHANGED editor
     \/ /\ ~Unchanged(s) /\ SaveFails /\ UNCHANGED storing
  /\ UNCHANGED <<doc, page, readout, calls, rendering, writes, edits>>

\* The upload failed, or the draft is not valid.
ElementFails(s) ==
  /\ Uploaded(s) /\ SaveFails
  /\ UNCHANGED <<doc, page, readout, calls, rendering, writes, storing, edits>>

-----------------------------------------------------------------------------
(* Widgets.                                                                *)

\* A frame has loaded and is initialized, once, with the rendered revision.
FrameReady(b) ==
  /\ render[b] # None /\ Kind[b] = "widget" /\ render[b].status = "pending"
  /\ Mark([block |-> b], "whole")
  /\ UNCHANGED <<doc, page, readout, calls, shown, renders, fetches, urls, editor,
                 saves, writes, storing, edits>>

Runs(b) == render[b] # None /\ Kind[b] = "widget" /\ render[b].status = "whole"

\* foldthink.edit() or a double click in a frame.
EditMessage(b) ==
  /\ Event /\ Runs(b)
  /\ opens < MaxOpens /\ opens' = opens + 1
  /\ EditDocument([id |-> opens', surface |-> Page[b], block |-> b, opened |-> render[b].revision])
  /\ UNCHANGED <<doc, page, readout, calls, rendering, saves, writes, storing, edits>>

\* foldthink.setState in the frame of a rendering.
StateMessage(b) ==
  /\ Event /\ Runs(b) /\ FreshEdit
  /\ writes' = writes \cup {[frame |-> render[b].id, block |-> b, n |-> edits']}
  /\ UNCHANGED <<doc, page, readout, calls, rendering, editor, saves, storing>>

\* Mutant: a message is dispatched when it arrives.
AnyTurn(w) == w \in writes

\* stateWrites: the message before this one has been dispatched and answered.
Turn(w) ==
  /\ \A v \in writes : v.frame = w.frame => w.n <= v.n
  /\ \A d \in storing : d.by = "frame" => d.from # w.frame

WriteState(w) ==
  /\ w \in writes /\ Turn(w) /\ writes' = writes \ {w}
  /\ storing' = IF doc[w.block] = None THEN storing
       ELSE storing \cup {[by |-> "frame", from |-> w.frame, n |-> w.n, block |-> w.block,
              base |-> doc[w.block],
              put |-> [version |-> doc[w.block].version + 1, source |-> doc[w.block].source,
                       state |-> [frame |-> w.frame, n |-> w.n]]]}
  /\ UNCHANGED <<doc, page, readout, calls, rendering, editor, saves, edits>>

-----------------------------------------------------------------------------
(* The runtime and the other devices.                                      *)

\* The staged update is merged into the live document.  Yjs picks one of two
\* puts that do not know each other; a delete takes only what it knew.
Merged(d) == IF doc[d.block] \in {d.base, None} THEN {d.put} ELSE {d.put, doc[d.block]}

\* dispatch resolves; a save closes the editor, whatever it shows by then.
Stored(d) ==
  /\ d \in storing /\ storing' = storing \ {d}
  /\ \E r \in Merged(d) : doc' = [doc EXCEPT ![d.block] = r]
  /\ UNCHANGED page /\ Refresh
  /\ IF d.by = "session" THEN CloseEditor /\ UNCHANGED <<tool, openings, opens>> ELSE UNCHANGED editor
  /\ UNCHANGED <<rendering, saves, writes, edits>>

StoreFails(d) ==
  /\ d \in storing /\ storing' = storing \ {d}
  /\ IF d.by = "session" THEN SaveFails ELSE UNCHANGED editor
  /\ UNCHANGED <<doc, page, readout, calls, rendering, saves, writes, edits>>

\* acceptRemoteState or a repair: a put of another device that knew this
\* revision, or one made beside it, which has the same version.
RemotePut(b) ==
  /\ FreshEdit /\ doc[b] # None
  /\ \E v \in {doc[b].version, doc[b].version + 1} \ {1} :
       doc' = [doc EXCEPT ![b] = [version |-> v, source |-> edits', state |-> [frame |-> 0, n |-> edits']]]
  /\ UNCHANGED page /\ Refresh
  /\ UNCHANGED <<rendering, editor, saves, writes, storing>>

RemoteDelete(b) ==
  /\ FreshEdit /\ doc[b] # None
  /\ doc' = [doc EXCEPT ![b] = None]
  /\ UNCHANGED page /\ Refresh
  /\ UNCHANGED <<rendering, editor, saves, writes, storing>>

\* destroy of the runtime: it stops observing, and the two tools are destroyed
\* in turn with what was asked of them before.
Destroy ==
  /\ Event
  /\ gone' = TRUE
  /\ calls' = IF readout = "none" THEN calls ELSE Then(readout, calls, Call("clear"))
  /\ openings' = IF tool = "none" THEN openings ELSE Then(tool, openings, None)
  /\ UNCHANGED <<doc, viewing, views, readout, rendering, tool, session, saving, opens,
                 saves, writes, storing, edits>>

SessionNext ==
  \/ \E s \in Surface \cup {None} : View(s)
  \/ \E ok \in BOOLEAN : LoadRenderer(ok)
  \/ \E ok \in BOOLEAN : LoadEditor(ok)
  \/ \E b \in Block \cup {None} : DoubleTap(b)
  \/ RunCall
  \/ RunOpening
  \/ \E f \in fetches : Compiled(f)
  \/ \E f \in fetches : Fetched(f)
  \/ \E f \in fetches : FetchFails(f)
  \/ Cancel
  \/ \E upload \in BOOLEAN : Save(upload)
  \/ \E s \in saves : Dispatch(s)
  \/ \E s \in saves : ElementFails(s)
  \/ \E b \in Block : FrameReady(b)
  \/ \E b \in Block : EditMessage(b)
  \/ \E b \in Block : StateMessage(b)
  \/ \E w \in writes : WriteState(w)
  \/ \E d \in storing : Stored(d)
  \/ \E d \in storing : StoreFails(d)
  \/ \E b \in Block : RemotePut(b)
  \/ \E b \in Block : RemoteDelete(b)
  \/ Destroy

SessionSpec == SessionInit /\ [][SessionNext]_sessionVars

-----------------------------------------------------------------------------
(* Safety.                                                                 *)

\* An object URL lives as long as the rendering it was made for: one that is
\* shown is not revoked, and none outlives its block, whether the block is
\* destroyed before, between or after the answers (document-renderer.ts,
\* renderLatex and renderAsset).
UrlsFollowBlocks ==
  /\ \A u \in urls : \E b \in Block : render[b] # None /\ render[b].id = u[1]
  /\ \A b \in Block : render[b] # None /\ render[b].status = "whole" =>
       \A k \in Parts[b] : <<render[b].id, k>> \in urls

\* When no callback is pending, the page shows the blocks of the open surface,
\* each in the version it has, though the renderer may have been loaded late
\* and the page turned or closed meanwhile (compose-web-runtime.ts,
\* refreshDocument).
PageIsCurrent ==
  readout = "ready" /\ calls = <<>> /\ ~gone =>
    \A b \in Block :
      /\ render[b] # None <=> Wanted(b)
      /\ render[b] # None => render[b].revision.version = doc[b].version

\* "State requests from one widget are committed in message order"
\* (document/CONTRACT.md): while a state is being stored, no later one of its
\* frame is on the page, which it could replace.
StatesInOrder ==
  \A d \in storing : d.by = "frame" /\ doc[d.block] # None =>
    (doc[d.block].state.frame = d.from => doc[d.block].state.n < d.n)

\* A page that is left keeps nothing: no rendering, no URL and no editor comes
\* up after the destruction, though a tool may be loaded, and what was asked
\* of it run, only then (compose-web-runtime.ts, destroy).
LeavesNothing ==
  gone /\ calls = <<>> /\ openings = <<>> =>
    /\ \A b \in Block : render[b] = None
    /\ urls = {} /\ session = None

-----------------------------------------------------------------------------
(* Expectations the code does not meet: each has a configuration whose run *)
(* shows how.                                                              *)

\* The page shows what the document holds.
ShownIsContent ==
  readout = "ready" /\ calls = <<>> /\ ~gone =>
    \A b \in Block : render[b] # None => render[b].revision = doc[b]

\* "Cancel closes the editor without a semantic command".
CancelMeansNothing ==
  [][\A d \in storing' \ storing : d.by = "session" =>
       session # None /\ session.id = d.from]_sessionVars

\* An editor has one save under way.
SaveIsSingle ==
  \A s \in saves :
    \A d \in (saves \ {s}) \cup {d \in storing : d.by = "session"} : d.from # s.from
=============================================================================
