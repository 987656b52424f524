---------------------------- MODULE ArticleEditor ----------------------------
(***************************************************************************)
(* Writing one troubleshooting article: the editor hook of the web client  *)
(* (useArticleEditor.ts), its query cache, and the draft handlers of the   *)
(* service (troubleshootingContent.ts).                                    *)
(*                                                                         *)
(* A document is the set of edits it contains.  The article row holds the  *)
(* text readers see (body) and the unpublished text (draft); None is a     *)
(* null column, and an article that is None has no row.  A browser tab has *)
(* a cache, with the copy of the row it last fetched, and the article's    *)
(* page, with the text on screen (working) and what is typed and not yet   *)
(* sent (pending).  A request to the service is a call in flight: each     *)
(* step is what the code runs between two awaits.                          *)
(***************************************************************************)
EXTENDS Naturals, FiniteSets

CONSTANTS Tabs,       \* browser tabs of the people who edit the article
          Calls,      \* requests that may be in flight at once
          Edits,      \* what can be typed
          None,
          MaxClock,   \* bound on row creations and publications
          Failures    \* may a request, its answer or a fetch fail?

VARIABLES article,  \* the row, or None
          clock,    \* the last time stamp handed out
          cache,    \* what the query cache of each tab holds
          page,     \* the article's page in each tab
          call,     \* the requests in flight
          typed,    \* history: every edit made
          forfeit   \* history: the edits given up (README: ways to lose an edit)

vars == <<article, clock, cache, page, call, typed, forfeit>>

Doc == SUBSET Edits
Copy == [id : 1..MaxClock, body : {None} \union Doc, draft : {None} \union Doc,
         stamp : 1..MaxClock]
Pending == [doc : Doc, seen : 1..MaxClock]

ASSUME EditorAssumption ==
  /\ MaxClock \in Nat
  /\ Failures \in BOOLEAN
  /\ IsFiniteSet(Calls)
  /\ \A d \in Doc : d # None
  /\ \A k \in Copy \union Pending : k # None

\* "discard" is Discard changes, "drop" the dialog that discards an article.
Ops == {"save", "publish", "discard", "drop", "create"}
\* Steps of a draft save; "written": the answer is on its way.
Saving == {"check", "save", "written"}
\* What a press goes on with once the fetch its answer asked for has ended.
Sequels == {"published", "dropped", "removed", "created"}

Idle == [op |-> "none"]
\* fetch: "due" when the page is next shown, "sent", "read" by the service, "done".
Cold == [loaded |-> FALSE, copy |-> None, fetch |-> "due", got |-> None, after |-> {}]
Blank == [on |-> FALSE, working |-> None, pending |-> None, hasDraft |-> FALSE,
          dialog |-> "no", publishing |-> FALSE]

-----------------------------------------------------------------------------
(* Reading the state *)

Text(d) == IF d = None THEN {} ELSE d
Body == IF article = None THEN {} ELSE Text(article.body)
Draft == IF article = None THEN {} ELSE Text(article.draft)
PendingDoc(t) == IF page[t].pending = None THEN {} ELSE page[t].pending.doc

\* The working copy is draft ?? published.
Resumed(copy) == CASE copy = None -> None
                   [] copy # None /\ copy.draft # None -> copy.draft
                   [] OTHER -> copy.body

\* A page that is given a fresh copy.
Seeded(copy, p) == [p EXCEPT !.working = Resumed(copy),
                             !.hasDraft = copy # None /\ copy.draft # None]

Under(c, ops, at) == call[c].op \in ops /\ call[c].at = at
MayStart(c) == call[c] = Idle
SentFrom(c, t) == call[c] # Idle /\ call[c].tab = t /\ call[c].from = "page"

\* The row the call read is still there.
RowRemains(c) == article # None /\ article.id = call[c].id

\* What a call carries that has yet to be written.
Carried(c) == IF call[c] # Idle /\ call[c].at \in {"check", "save"} THEN call[c].save.doc ELSE {}
Sending == UNION {Carried(c) : c \in Calls}

\* flush is made anew when the copy has another stamp, and the old one is then
\* run at once for what is pending, with the stamp it was typed on.
Due(t) == /\ page[t].pending # None
          /\ cache[t].copy = None \/ cache[t].copy.stamp # page[t].pending.seen

NeverPublished(t) == cache[t].copy = None \/ cache[t].copy.body = None

-----------------------------------------------------------------------------
(* Calls *)

NewCall(op, t, at, save) ==
  [op |-> op, tab |-> t, from |-> "page", at |-> at, id |-> 0, got |-> None,
   save |-> save, shown |-> {}, late |-> {}]

GoTo(c, at) == call' = [call EXCEPT ![c].at = at]
\* A handler is done, and in a tab that was closed nobody hears of it.
Answers(c, answer) ==
  call' = [call EXCEPT ![c] = IF call[c].from = "gone" THEN Idle ELSE answer]
Done(c, at) == Answers(c, [NewCall(call[c].op, call[c].tab, at, None)
                             EXCEPT !.from = call[c].from])
Forfeit(edits) == forfeit' = forfeit \union edits

\* There is a time stamp left for one more publication or creation.
StampsLeft ==
  clock + Cardinality({c \in Calls : call[c].op \in {"publish", "create"}}) < MaxClock

\* invalidateQueries and refetch start a running fetch again, unless there is no
\* copy yet: then the one that runs will do.
Refetched(k, sequels) ==
  IF k.fetch \in {"sent", "read"} /\ ~k.loaded
  THEN [k EXCEPT !.after = @ \union sequels]
  ELSE [k EXCEPT !.after = @ \union sequels, !.fetch = "sent", !.got = None]

\* A query on screen is refetched at once, any other when it is next shown.
Invalidated(t, sequels) ==
  CASE page[t].on -> Refetched(cache[t], sequels)
    [] ~page[t].on /\ cache[t].fetch = "done" -> [cache[t] EXCEPT !.fetch = "due"]
    [] OTHER -> cache[t]

-----------------------------------------------------------------------------
(* The page and its cache *)

Init ==
  /\ article \in {None} \union
       (IF MaxClock = 0 THEN {} ELSE {[id |-> 1, body |-> {}, draft |-> None, stamp |-> 1]})
  /\ clock = (IF article = None THEN 0 ELSE 1)
  /\ cache = [t \in Tabs |-> Cold]
  /\ page = [t \in Tabs |-> Blank]
  /\ call = [c \in Calls |-> Idle]
  /\ typed = {} /\ forfeit = {}

\* What is cached is shown at once, and fetched again if it was invalidated.
Visit(t) ==
  /\ ~page[t].on
  /\ page' = [page EXCEPT ![t] = Seeded(cache[t].copy, [Blank EXCEPT !.on = TRUE])]
  /\ cache' = [cache EXCEPT ![t].fetch = IF @ = "due" THEN "sent" ELSE @]
  /\ UNCHANGED <<article, clock, call, typed, forfeit>>

CacheExpires(t) ==
  /\ ~page[t].on /\ cache[t].fetch \in {"due", "done"}
  /\ cache' = [cache EXCEPT ![t] = Cold]
  /\ UNCHANGED <<article, clock, page, call, typed, forfeit>>

\* Another change to the library ends in this tab, or the network comes back.
Elsewhere(t) ==
  /\ cache' = [cache EXCEPT ![t] = Invalidated(t, {})]
  /\ UNCHANGED <<article, clock, page, call, typed, forfeit>>

\* getEditableArticle.
ReadCopy(t) ==
  /\ cache[t].fetch = "sent"
  /\ cache' = [cache EXCEPT ![t].fetch = "read", ![t].got = article]
  /\ UNCHANGED <<article, clock, page, call, typed, forfeit>>

\* The fetch is over, and whoever awaited it goes on; startEditing asks again.
Fetched(k, fetch) ==
  [k EXCEPT !.fetch = IF "created" \in k.after THEN "sent" ELSE fetch,
            !.got = None, !.after = {}]
Resume(p, sequels) ==
  [p EXCEPT !.publishing = IF "published" \in sequels THEN FALSE ELSE @,
            !.dialog = IF sequels \intersect {"published", "dropped"} = {} THEN @ ELSE "no",
            !.working = IF "removed" \in sequels THEN None ELSE @,
            !.hasDraft = IF "removed" \in sequels THEN FALSE ELSE @]

\* A copy equal to the one there is keeps its identity and seeds nothing; one that
\* is equal in what is modelled may still differ elsewhere.
Arrive(t) ==
  /\ cache[t].fetch = "read"
  /\ LET copy == cache[t].got
         p == Resume(page[t], cache[t].after)
     IN /\ cache' = [cache EXCEPT ![t] =
                       [Fetched(@, "done") EXCEPT !.loaded = TRUE, !.copy = copy]]
        /\ \E fresh \in BOOLEAN :
             /\ copy # cache[t].copy => fresh
             /\ page' = [page EXCEPT ![t] = IF page[t].on /\ fresh THEN Seeded(copy, p) ELSE p]
  /\ UNCHANGED <<article, clock, call, typed, forfeit>>

FetchFails(t) ==
  /\ cache[t].fetch \in {"sent", "read"} /\ Failures
  /\ cache' = [cache EXCEPT ![t] = Fetched(@, "due")]
  /\ page' = [page EXCEPT ![t] = Resume(@, cache[t].after)]
  /\ UNCHANGED <<article, clock, call, typed, forfeit>>

-----------------------------------------------------------------------------
(* What a person does *)

\* Mutant: an edit made while another one waits is not put with it.
TypeKeepingFirst(t, e) ==
  /\ page[t].working # None /\ page[t].dialog = "no" /\ e \notin typed /\ ~Due(t)
  /\ typed' = typed \union {e}
  /\ LET next == page[t].working \union {e}
         p == [doc |-> next, seen |-> cache[t].copy.stamp]
     IN page' = [page EXCEPT ![t].working = next, ![t].pending = IF @ = None THEN p ELSE @]
  /\ UNCHANGED <<article, clock, cache, call, forfeit>>

\* update.  What is pending is replaced by the text on screen, which is no longer
\* built on it when a fresh copy was seeded in between.
Type(t, e) ==
  /\ page[t].working # None /\ page[t].dialog = "no" /\ e \notin typed /\ ~Due(t)
  /\ typed' = typed \union {e}
  /\ LET next == page[t].working \union {e} IN
       /\ page' = [page EXCEPT ![t].working = next,
                               ![t].pending = [doc |-> next, seen |-> cache[t].copy.stamp]]
       /\ Forfeit(PendingDoc(t) \ (next \union Body \union Draft))
  /\ UNCHANGED <<article, clock, cache, call>>

\* The pause in typing is over, or flush was made anew.
Autosave(t, c) ==
  /\ page[t].pending # None /\ MayStart(c)
  /\ call' = [call EXCEPT ![c] = NewCall("save", t, "check", page[t].pending)]
  /\ page' = [page EXCEPT ![t].pending = None]
  /\ UNCHANGED <<article, clock, cache, typed, forfeit>>

\* The page is unmounted.  What it sent goes on, and the cache stays.
Unmount(t, calls) ==
  /\ page[t].on
  /\ page' = [page EXCEPT ![t] = Blank]
  /\ cache' = [cache EXCEPT ![t].after = @ \intersect {"created"}]
  /\ call' = [c \in Calls |-> IF calls[c] # Idle /\ calls[c].tab = t /\ calls[c].from = "page"
                              THEN [calls[c] EXCEPT !.from = "app"] ELSE calls[c]]
  /\ UNCHANGED <<article, clock, typed, forfeit>>

\* Mutant: leaving the page does not flush.
LeaveUnflushed(t, c) == page[t].pending # None /\ Unmount(t, call)

Leave(t) == page[t].pending = None /\ Unmount(t, call)
LeaveFlushing(t, c) ==
  /\ page[t].pending # None /\ MayStart(c)
  /\ Unmount(t, [call EXCEPT ![c] = NewCall("save", t, "check", page[t].pending)])

\* What is left of a request whose client is gone: the service goes on with it,
\* but a publish that was still flushing is never sent.
Abandoned(r) ==
  CASE r.at \in {"written", "answer", "removed"} -> Idle
    [] r.at \in {"check", "save"} -> [r EXCEPT !.from = "gone", !.op = "save",
                                             !.shown = {}, !.late = {}]
    [] OTHER -> [r EXCEPT !.from = "gone"]

\* The browser tab is closed or reloaded: no clean-up runs.
CloseTab(t) ==
  /\ page' = [page EXCEPT ![t] = Blank]
  /\ cache' = [cache EXCEPT ![t] = Cold]
  /\ call' = [c \in Calls |-> IF call[c] # Idle /\ call[c].tab = t THEN Abandoned(call[c])
                                                                 ELSE call[c]]
  /\ Forfeit(PendingDoc(t) \ (Body \union Draft))
  /\ UNCHANGED <<article, clock, typed>>

OpenDialog(t, dialog) ==
  /\ page[t].working # None /\ page[t].dialog = "no" /\ ~Due(t)
  /\ \/ dialog = "publish" /\ (NeverPublished(t) \/ page[t].hasDraft) /\ ~page[t].publishing
     \/ dialog = "discard" /\ NeverPublished(t)
  /\ page' = [page EXCEPT ![t].dialog = dialog]
  /\ UNCHANGED <<article, clock, cache, call, typed, forfeit>>

\* Cancel, the cross and Escape, whatever is in flight.
CancelDialog(t) ==
  /\ page[t].dialog # "no"
  /\ page' = [page EXCEPT ![t].dialog = "no"]
  /\ UNCHANGED <<article, clock, cache, call, typed, forfeit>>

\* Mutant: publishing does not wait for what is pending.
PressPublishUnflushed(t, c) ==
  /\ page[t].dialog = "publish" /\ ~page[t].publishing /\ ~Due(t) /\ MayStart(c) /\ StampsLeft
  /\ call' = [call EXCEPT ![c] = [NewCall("publish", t, "read", None)
                 EXCEPT !.shown = Text(page[t].working), !.late = Sending]]
  /\ page' = [page EXCEPT ![t].publishing = TRUE]
  /\ UNCHANGED <<article, clock, cache, typed, forfeit>>

\* publish.  What is pending is flushed and awaited, and only then is the page
\* publishing: until then OK can be pressed again.
PressPublish(t, c) ==
  /\ page[t].dialog = "publish" /\ ~page[t].publishing /\ ~Due(t) /\ MayStart(c) /\ StampsLeft
  /\ LET p == page[t].pending
         sent == NewCall("publish", t, IF p = None THEN "read" ELSE "check", p)
     IN /\ call' = [call EXCEPT ![c] = [sent EXCEPT !.shown = Text(page[t].working),
                                                    !.late = Sending]]
        /\ page' = [page EXCEPT ![t].pending = None, ![t].publishing = (p = None)]
  /\ UNCHANGED <<article, clock, cache, typed, forfeit>>

\* discard: from the bar for an article that is published, from the dialog for
\* one that never was.
PressDiscard(t, c, op) ==
  /\ \/ /\ op = "discard" /\ page[t].working # None /\ page[t].dialog = "no"
        /\ ~NeverPublished(t) /\ page[t].hasDraft /\ ~page[t].publishing
     \/ op = "drop" /\ page[t].dialog = "discard"
  /\ ~Due(t) /\ MayStart(c)
  /\ call' = [call EXCEPT ![c] = NewCall(op, t, "inspect", None)]
  /\ page' = [page EXCEPT ![t].pending = None]
  /\ Forfeit(PendingDoc(t) \ (Body \union Draft))
  /\ UNCHANGED <<article, clock, cache, typed>>

\* startEditing, where nothing is written yet.
PressCreate(t, c) ==
  /\ page[t].on /\ page[t].dialog = "no" /\ ~Due(t) /\ MayStart(c) /\ StampsLeft
  /\ cache[t].copy = None /\ cache[t].fetch \in {"due", "done"}
  /\ \A d \in Calls : ~(SentFrom(d, t) /\ call[d].op = "create")
  /\ call' = [call EXCEPT ![c] = NewCall("create", t, "look", None)]
  /\ UNCHANGED <<article, clock, cache, page, typed, forfeit>>

-----------------------------------------------------------------------------
(* saveDraft *)

\* Mutant: any save is taken, whatever was published since the tab was opened.
SameAsOpenedAnyTime(c) == article # None

SameAsOpened(c) == article # None /\ article.stamp = call[c].save.seen

CheckSave(c) ==
  /\ Under(c, {"save", "publish"}, "check") /\ SameAsOpened(c)
  /\ call' = [call EXCEPT ![c].at = "save", ![c].id = article.id]
  /\ UNCHANGED <<article, clock, cache, page, typed, forfeit>>

\* What is overwritten: the draft there is, and what was published since the check.
WriteDraft(c) ==
  /\ Under(c, {"save", "publish"}, "save") /\ RowRemains(c)
  /\ Forfeit((Draft \union (IF SameAsOpened(c) THEN {} ELSE Body))
               \ call[c].save.doc)
  /\ article' = [article EXCEPT !.draft = call[c].save.doc]
  /\ Answers(c, [call[c] EXCEPT !.at = "written", !.id = 0])
  /\ UNCHANGED <<clock, cache, page, typed>>

\* flush is over, and swallows its errors: a publish that awaited it goes on.
Flushed(c, ok) ==
  LET shows == call[c].from = "page"
      publishes == call[c].op = "publish"
      t == call[c].tab
  IN /\ call' = [call EXCEPT ![c] =
                   IF publishes THEN [@ EXCEPT !.at = "read", !.save = None] ELSE Idle]
     /\ page' = [page EXCEPT ![t].hasDraft = IF ok /\ shows THEN TRUE ELSE @,
                             ![t].publishing = IF publishes /\ shows THEN TRUE ELSE @]

\* Mutant: the answer to a save is shown although the page was left.
SavedWherever(c) ==
  /\ Under(c, {"save", "publish"}, "written")
  /\ call' = [call EXCEPT ![c] =
       IF call[c].op = "publish" THEN [@ EXCEPT !.at = "read", !.save = None] ELSE Idle]
  /\ page' = [page EXCEPT ![call[c].tab].hasDraft = TRUE]
  /\ UNCHANGED <<article, clock, cache, typed, forfeit>>

Saved(c) ==
  /\ Under(c, {"save", "publish"}, "written")
  /\ Flushed(c, TRUE)
  /\ UNCHANGED <<article, clock, cache, typed, forfeit>>

\* Refused (no row, or published since it was opened), invalid, or no answer.
SaveFails(c) ==
  /\ \/ Under(c, {"save", "publish"}, "check") /\ (~SameAsOpened(c) \/ Failures)
     \/ Under(c, {"save", "publish"}, "save") /\ (~RowRemains(c) \/ Failures)
     \/ Under(c, {"save", "publish"}, "written") /\ Failures
  /\ Flushed(c, FALSE)
  /\ Forfeit(call[c].save.doc \ (Body \union Draft))
  /\ UNCHANGED <<article, clock, cache, typed>>

-----------------------------------------------------------------------------
(* publishDraft *)

ReadDraft(c) ==
  /\ Under(c, {"publish"}, "read") /\ article # None /\ article.draft # None
  /\ call' = [call EXCEPT ![c].at = "publish", ![c].id = article.id, ![c].got = article]
  /\ UNCHANGED <<article, clock, cache, page, typed, forfeit>>

WritePublished(c) ==
  /\ Under(c, {"publish"}, "publish") /\ RowRemains(c)
  /\ clock' = clock + 1
  /\ article' = [article EXCEPT !.body = call[c].got.draft, !.draft = None, !.stamp = clock']
  /\ Forfeit(IF article = call[c].got THEN {} ELSE (Body \union Draft) \ call[c].got.draft)
  /\ Done(c, "answer")
  /\ UNCHANGED <<cache, page, typed>>

-----------------------------------------------------------------------------
(* discardDraft, createArticleDraft *)

ReadForDiscard(c) ==
  /\ Under(c, {"discard", "drop"}, "inspect") /\ article # None
  /\ call' = [call EXCEPT ![c].at = IF article.body = None THEN "remove" ELSE "clear",
                          ![c].id = article.id]
  /\ UNCHANGED <<article, clock, cache, page, typed, forfeit>>

ClearDraft(c) ==
  /\ Under(c, {"discard", "drop"}, "clear") /\ RowRemains(c)
  /\ article' = [article EXCEPT !.draft = None]
  /\ Forfeit(Draft \ Body)
  /\ Done(c, "answer")
  /\ UNCHANGED <<clock, cache, page, typed>>

RemoveArticle(c) ==
  /\ Under(c, {"discard", "drop"}, "remove") /\ RowRemains(c)
  /\ article' = None
  /\ Forfeit(Body \union Draft)
  /\ Done(c, "removed")
  /\ UNCHANGED <<clock, cache, page, typed>>

LookForArticle(c) ==
  /\ Under(c, {"create"}, "look") /\ article = None
  /\ GoTo(c, "create")
  /\ UNCHANGED <<article, clock, cache, page, typed, forfeit>>

CreateDraft(c) ==
  /\ Under(c, {"create"}, "create") /\ article = None
  /\ clock' = clock + 1
  /\ article' = [id |-> clock', body |-> None, draft |-> {}, stamp |-> clock']
  /\ Done(c, "answer")
  /\ UNCHANGED <<cache, page, typed, forfeit>>

-----------------------------------------------------------------------------
(* Answers *)

SequelsOf(c) ==
  CASE call[c].op = "create" -> {"created"}
    [] call[c].op # "create" /\ call[c].from # "page" -> {}
    [] OTHER -> (CASE call[c].op = "publish" -> {"published"}
                   [] call[c].op = "drop" -> {"dropped"}
                   [] OTHER -> {})
                  \union (IF call[c].at = "removed" THEN {"removed"} ELSE {})

\* adminFetch invalidates the cache of a tab that is still there, and the press
\* awaits that; startEditing then reloads, on screen or not.
Answered(c) ==
  /\ call[c] # Idle /\ call[c].at \in {"answer", "removed"}
  /\ LET t == call[c].tab IN
       cache' = [cache EXCEPT ![t] =
         CASE call[c].from = "gone" -> @
           [] call[c].from # "gone" /\ call[c].op = "create" /\ ~page[t].on -> Refetched(@, {})
           [] OTHER -> Invalidated(t, SequelsOf(c))]
  /\ call' = [call EXCEPT ![c] = Idle]
  /\ UNCHANGED <<article, clock, page, typed, forfeit>>

\* The gate, a 404 or 409, a row that went away between the read and the write, or
\* no answer.
Refused(c) ==
  /\ \/ Under(c, {"publish"}, "read")
     \/ Under(c, {"discard", "drop"}, "inspect") /\ (article = None \/ Failures)
     \/ \E at \in {"publish", "clear", "remove"} :
          Under(c, {"publish", "discard", "drop"}, at) /\ (~RowRemains(c) \/ Failures)
     \/ \E at \in {"look", "create"} : Under(c, {"create"}, at) /\ (article # None \/ Failures)
     \/ \E at \in {"answer", "removed"} : Under(c, Ops, at) /\ Failures
  /\ call' = [call EXCEPT ![c] = Idle]
  /\ page' = [page EXCEPT ![call[c].tab].publishing =
                IF call[c].op = "publish" /\ call[c].from = "page" THEN FALSE ELSE @]
  /\ UNCHANGED <<article, clock, cache, typed, forfeit>>

-----------------------------------------------------------------------------
Service(c) ==
  \/ CheckSave(c) \/ WriteDraft(c) \/ Saved(c) \/ SaveFails(c)
  \/ ReadDraft(c) \/ WritePublished(c)
  \/ ReadForDiscard(c) \/ ClearDraft(c) \/ RemoveArticle(c)
  \/ LookForArticle(c) \/ CreateDraft(c)
  \/ Answered(c) \/ Refused(c)

Fetching(t) == ReadCopy(t) \/ Arrive(t) \/ FetchFails(t)

Next ==
  \/ \E t \in Tabs :
       \/ Visit(t) \/ CacheExpires(t) \/ Elsewhere(t) \/ Fetching(t)
       \/ Leave(t) \/ CloseTab(t) \/ CancelDialog(t)
  \/ \E t \in Tabs, dialog \in {"publish", "discard"} : OpenDialog(t, dialog)
  \/ \E t \in Tabs, e \in Edits : Type(t, e)
  \/ \E t \in Tabs, c \in Calls :
       \/ Autosave(t, c) \/ LeaveFlushing(t, c) \/ PressPublish(t, c) \/ PressCreate(t, c)
       \/ \E op \in {"discard", "drop"} : PressDiscard(t, c, op)
  \/ \E c \in Calls : Service(c)

Spec == Init /\ [][Next]_vars

-----------------------------------------------------------------------------
(* Properties *)

\* Types of the row, the tabs and the requests (the columns of
\* TroubleshootingArticle, the query cache and the state of the hook); a page that
\* is not shown has no state.
TypeOK ==
  /\ article \in {None} \union Copy
  /\ clock \in 0..MaxClock
  /\ cache \in [Tabs -> [loaded : BOOLEAN, copy : {None} \union Copy,
                         fetch : {"due", "sent", "read", "done"}, got : {None} \union Copy,
                         after : SUBSET Sequels]]
  /\ page \in [Tabs -> [on : BOOLEAN, working : {None} \union Doc,
                        pending : {None} \union Pending, hasDraft : BOOLEAN,
                        dialog : {"no", "publish", "discard"}, publishing : BOOLEAN]]
  /\ \A t \in Tabs : ~page[t].on => page[t] = Blank
  /\ call \in [Calls -> {Idle} \union
       [op : Ops, tab : Tabs, from : {"page", "app", "gone"},
        at : Saving \union {"read", "publish", "inspect", "clear", "remove", "look",
                            "create", "answer", "removed"},
        id : 0..MaxClock, got : {None} \union Copy, save : {None} \union Pending,
        shown : Doc, late : Doc]]
  /\ typed \subseteq Edits /\ forfeit \subseteq Edits

Waiting == UNION {PendingDoc(t) : t \in Tabs}

\* A draft is never built on a text older than the published one, so that
\* publishing it cannot take back what another tab published; what is published
\* between the check of a save and its write excepted (expectedPublishedAt in
\* saveDraft, and publishDraft clearing the draft).
DraftBuildsOnPublished ==
  article # None /\ article.draft # None => Body \subseteq Draft \union forfeit

\* Whatever was typed and not given up is in the row, on its way there or waiting
\* to be sent; that it is still on some screen does not count (the autosave, the
\* flush before publishing, on leaving and when the copy gets another stamp).
NothingTypedIsLost ==
  typed \subseteq forfeit \union Body \union Draft \union Sending \union Waiting

\* What Publish makes live is what was on the screen when it was pressed, the
\* newest edit included, unless that was given up since; but not what an autosave
\* carries that was sent before the press and is not written yet (publish in
\* useArticleEditor.ts).
PublishCarriesNewest ==
  [][\A c \in Calls : WritePublished(c) =>
       call[c].shown \subseteq article'.body \union forfeit' \union (call[c].late \intersect Sending)]_vars

\* What a comment says of publish: what is in the debounce has landed first, and
\* the newest edit is not dropped.
DebounceLandsFirst ==
  [][\A c \in Calls : WritePublished(c) => call[c].shown \subseteq article'.body]_vars
=============================================================================
