------------------------- MODULE ArticleEditor_proofs ------------------------
(* Proofs about ArticleEditor: for any number of tabs, requests in flight and
   edits, whatever fails and however requests, fetches and people cross, no edit
   is lost that was not given up, a publication carries what was on the screen,
   and no draft takes back what was published.                                *)
EXTENDS ArticleEditor, FiniteSetTheorems, TLAPS

CacheStates == [loaded : BOOLEAN, copy : {None} \cup Copy,
                fetch : {"due", "sent", "read", "done"}, got : {None} \cup Copy,
                after : SUBSET Sequels]
PageStates == [on : BOOLEAN, working : {None} \cup Doc, pending : {None} \cup Pending,
               hasDraft : BOOLEAN, dialog : {"no", "publish", "discard"}, publishing : BOOLEAN]
Steps == Saving \cup {"read", "publish", "inspect", "clear", "remove", "look", "create",
                      "answer", "removed"}
CallRecs == [op : Ops, tab : Tabs, from : {"page", "app", "gone"}, at : Steps,
             id : 0..MaxClock, got : {None} \cup Copy, save : {None} \cup Pending,
             shown : Doc, late : Doc]
CallStates == {Idle} \cup CallRecs

Typed ==
    /\ article \in {None} \cup Copy
    /\ clock \in 0..MaxClock
    /\ cache \in [Tabs -> CacheStates]
    /\ page \in [Tabs -> PageStates]
    /\ \A t \in Tabs : ~page[t].on => page[t] = Blank
    /\ call \in [Calls -> CallStates]
    /\ typed \subseteq Edits /\ forfeit \subseteq Edits

LEMMA TypedIsTypeOK == Typed <=> TypeOK
BY DEF Typed, TypeOK, CacheStates, PageStates, CallRecs, CallStates, Steps

LEMMA Distinct ==
    /\ None \notin Doc /\ None \notin Copy /\ None \notin Pending
    /\ \A r \in CallRecs : r # Idle /\ r.op # "none"
    /\ Idle.op = "none" /\ "none" \notin Ops
BY EditorAssumption DEF CallRecs, Idle, Ops

LEMMA CallTyped ==
    ASSUME Typed, NEW c \in Calls
    PROVE  /\ call[c] # Idle <=> call[c].op \in Ops
           /\ call[c] # Idle => call[c] \in CallRecs
BY Distinct DEF Typed, CallStates, CallRecs

-----------------------------------------------------------------------------
(* One tab, one request: what the updates of a step come down to.            *)

PageTo(t, p) == /\ page' \in [Tabs -> PageStates] /\ page'[t] = p
                /\ \A u \in Tabs : u # t => page'[u] = page[u]
CacheTo(t, k) == /\ cache' \in [Tabs -> CacheStates] /\ cache'[t] = k
                 /\ \A u \in Tabs : u # t => cache'[u] = cache[u]
CallTo(c, r) == /\ call' \in [Calls -> CallStates] /\ call'[c] = r
                /\ \A d \in Calls : d # c => call'[d] = call[d]

LEMMA Updates ==
    ASSUME Typed
    PROVE  /\ \A t \in Tabs : \A p \in PageStates :
                 page' = [page EXCEPT ![t] = p] => PageTo(t, p)
           /\ \A t \in Tabs : \A k \in CacheStates :
                 cache' = [cache EXCEPT ![t] = k] => CacheTo(t, k)
           /\ \A c \in Calls : \A r \in CallStates :
                 call' = [call EXCEPT ![c] = r] => CallTo(c, r)
BY DEF Typed, PageTo, CacheTo, CallTo

LEMMA BlankTyped == Blank \in PageStates /\ Cold \in CacheStates /\ Idle \in CallStates
BY DEF Blank, Cold, PageStates, CacheStates, CallStates

LEMMA SamePage ==
    ASSUME NEW p \in PageStates, NEW q \in PageStates,
           p.on = q.on, p.working = q.working, p.pending = q.pending,
           p.hasDraft = q.hasDraft, p.dialog = q.dialog, p.publishing = q.publishing
    PROVE  p = q
BY DEF PageStates

LEMMA ResumedTyped ==
    ASSUME NEW k \in {None} \cup Copy
    PROVE  /\ Resumed(k) \in {None} \cup Doc
           /\ Resumed(k) # None => k # None
BY DEF Resumed, Copy

LEMMA SeededTyped ==
    ASSUME NEW k \in {None} \cup Copy, NEW p \in PageStates
    PROVE  /\ Seeded(k, p) \in PageStates
           /\ Seeded(k, p).on = p.on /\ Seeded(k, p).pending = p.pending
           /\ Seeded(k, p).working = Resumed(k)
BY ResumedTyped DEF Seeded, PageStates

LEMMA ResumeTyped ==
    ASSUME NEW p \in PageStates, NEW sequels
    PROVE  /\ Resume(p, sequels) \in PageStates
           /\ Resume(p, sequels).on = p.on /\ Resume(p, sequels).pending = p.pending
           /\ Resume(p, sequels).working \in {None, p.working}
           /\ p = Blank => Resume(p, sequels) = Blank
<1> DEFINE shut == sequels \cap {"published", "dropped"} = {}
           n == [p EXCEPT !.publishing = IF "published" \in sequels THEN FALSE ELSE p.publishing,
                          !.dialog = IF shut THEN p.dialog ELSE "no",
                          !.working = IF "removed" \in sequels THEN None ELSE p.working,
                          !.hasDraft = IF "removed" \in sequels THEN FALSE ELSE p.hasDraft]
<1>1. Resume(p, sequels) = n
  BY DEF Resume
<1> HIDE DEF shut
<1>2. n \in PageStates
  BY DEF PageStates
<1>3. n.on = p.on /\ n.pending = p.pending /\ n.working \in {None, p.working}
  BY DEF PageStates
<1>4. ASSUME p = Blank
      PROVE  n = Blank
  <2>1. /\ n.on = FALSE /\ n.working = None /\ n.pending = None
        /\ n.hasDraft = FALSE /\ n.dialog = "no" /\ n.publishing = FALSE
    BY <1>4 DEF Blank
  <2> HIDE DEF n
  <2> QED BY <1>2, <2>1, BlankTyped, SamePage DEF Blank
<1> QED BY <1>1, <1>2, <1>3, <1>4

LEMMA RefetchedTyped ==
    ASSUME NEW k \in CacheStates, NEW sequels \in SUBSET Sequels
    PROVE  /\ Refetched(k, sequels) \in CacheStates
           /\ Refetched(k, sequels).copy = k.copy
           /\ Refetched(k, sequels).got \in {None, k.got}
BY DEF Refetched, CacheStates

LEMMA InvalidatedTyped ==
    ASSUME Typed, NEW t \in Tabs, NEW sequels \in SUBSET Sequels
    PROVE  /\ Invalidated(t, sequels) \in CacheStates
           /\ Invalidated(t, sequels).copy = cache[t].copy
           /\ Invalidated(t, sequels).got \in {None, cache[t].got}
<1>1. cache[t] \in CacheStates /\ page[t].on \in BOOLEAN
  BY DEF Typed, PageStates
<1>2. CASE page[t].on
  BY <1>1, <1>2, RefetchedTyped DEF Invalidated
<1>3. CASE ~page[t].on
  BY <1>1, <1>3 DEF Invalidated, CacheStates
<1> QED BY <1>1, <1>2, <1>3

LEMMA FetchedTyped ==
    ASSUME NEW k \in CacheStates, NEW fetch \in {"due", "done"}
    PROVE  /\ Fetched(k, fetch) \in CacheStates
           /\ Fetched(k, fetch).copy = k.copy /\ Fetched(k, fetch).got = None
           /\ \A copy \in {None} \cup Copy :
                 LET n == [Fetched(k, fetch) EXCEPT !.loaded = TRUE, !.copy = copy] IN
                 n \in CacheStates /\ n.copy = copy /\ n.got = None
BY DEF Fetched, CacheStates

LEMMA NewCallTyped ==
    ASSUME NEW op \in Ops, NEW t \in Tabs, NEW step \in Steps, NEW p \in {None} \cup Pending
    PROVE  /\ NewCall(op, t, step, p) \in CallRecs
           /\ NewCall(op, t, step, p) # Idle
           /\ \A shown, late \in Doc :
                 [NewCall(op, t, step, p) EXCEPT !.shown = shown, !.late = late] \in CallRecs
<1>1. {} \in Doc /\ 0 \in 0..MaxClock
  BY EditorAssumption DEF Doc
<1>2. NewCall(op, t, step, p) \in CallRecs
  BY <1>1 DEF CallRecs, NewCall
<1> QED BY <1>2, Distinct DEF CallRecs, NewCall

LEMMA Moves ==
    ASSUME Typed, NEW c \in Calls, call[c] # Idle
    PROVE  /\ \A at \in Steps : [call[c] EXCEPT !.at = at] \in CallRecs
           /\ \A at \in Steps, id \in 0..MaxClock :
                 [call[c] EXCEPT !.at = at, !.id = id] \in CallRecs
           /\ \A at \in Steps, id \in 0..MaxClock, k \in {None} \cup Copy :
                 [call[c] EXCEPT !.at = at, !.id = id, !.got = k] \in CallRecs
           /\ \A at \in Steps, p \in {None} \cup Pending :
                 [call[c] EXCEPT !.at = at, !.save = p] \in CallRecs
BY CallTyped DEF CallRecs

-----------------------------------------------------------------------------
(* What each step of a tab does to it.                                       *)

Tabbed == /\ page' \in [Tabs -> PageStates] /\ cache' \in [Tabs -> CacheStates]
          /\ \A t \in Tabs : ~page'[t].on => page'[t] = Blank
Elsewise(t) == \A u \in Tabs : u # t => page'[u] = page[u] /\ cache'[u] = cache[u]
SameText(t) == /\ page'[t].on = page[t].on /\ page'[t].working = page[t].working
               /\ page'[t].pending = page[t].pending
CopyKept(t) == cache'[t].copy = cache[t].copy /\ cache'[t].got \in {None, cache[t].got}
Reseeded(t) == page'[t].on /\ page'[t].working = Resumed(cache'[t].copy)

LEMMA TabTyped ==
    ASSUME Typed, NEW t \in Tabs
    PROVE  /\ page[t] \in PageStates /\ cache[t] \in CacheStates
           /\ page[t].working # None \/ page[t].dialog # "no" \/ page[t].pending # None => page[t].on
BY DEF Typed, Blank

LEMMA VisitDoes ==
    ASSUME Typed, NEW t \in Tabs, Visit(t)
    PROVE  /\ Tabbed /\ Elsewise(t) /\ CopyKept(t) /\ Reseeded(t)
           /\ page[t].pending = None /\ page'[t].pending = None
<1> DEFINE p == [Blank EXCEPT !.on = TRUE]
           q == Seeded(cache[t].copy, p)
           k == [cache[t] EXCEPT !.fetch = IF cache[t].fetch = "due" THEN "sent" ELSE cache[t].fetch]
<1>1. p \in PageStates /\ p.on /\ p.pending = None
  BY DEF Blank, PageStates
<1>2. cache[t] \in CacheStates /\ cache[t].copy \in {None} \cup Copy
  BY TabTyped DEF CacheStates
<1>3. k \in CacheStates /\ k.copy = cache[t].copy /\ k.got = cache[t].got
  BY <1>2 DEF CacheStates
<1>4. page' = [page EXCEPT ![t] = q] /\ cache' = [cache EXCEPT ![t] = k]
  BY DEF Visit, Typed
<1> HIDE DEF p, k
<1>5. q \in PageStates /\ q.on /\ q.pending = None /\ q.working = Resumed(cache[t].copy)
  BY <1>1, <1>2, SeededTyped
<1> HIDE DEF q
<1>6. PageTo(t, q) /\ CacheTo(t, k)
  BY <1>3, <1>4, <1>5, Updates
<1>7. page[t].pending = None
  BY DEF Visit, Typed, Blank
<1>8. Tabbed /\ Elsewise(t)
  BY <1>5, <1>6 DEF PageTo, CacheTo, Tabbed, Elsewise, Typed
<1> QED BY <1>3, <1>5, <1>6, <1>7, <1>8 DEF PageTo, CacheTo, CopyKept, Reseeded

LEMMA CacheExpiresDoes ==
    ASSUME Typed, NEW t \in Tabs, CacheExpires(t)
    PROVE  /\ Tabbed /\ Elsewise(t) /\ page' = page
           /\ page[t] = Blank /\ cache'[t] = Cold
<1>1. CacheTo(t, Cold)
  BY Updates, BlankTyped DEF CacheExpires
<1> QED BY <1>1 DEF CacheTo, Tabbed, Elsewise, CacheExpires, Typed

LEMMA ElsewhereDoes ==
    ASSUME Typed, NEW t \in Tabs, Elsewhere(t)
    PROVE  Tabbed /\ Elsewise(t) /\ page' = page /\ CopyKept(t)
<1> DEFINE k == Invalidated(t, {})
<1>1. k \in CacheStates /\ k.copy = cache[t].copy /\ k.got \in {None, cache[t].got}
  BY InvalidatedTyped
<1>2. cache' = [cache EXCEPT ![t] = k]
  BY DEF Elsewhere
<1> HIDE DEF k
<1>3. CacheTo(t, k)
  BY <1>1, <1>2, Updates
<1> QED BY <1>1, <1>3 DEF CacheTo, Tabbed, Elsewise, CopyKept, Elsewhere, Typed

LEMMA ReadCopyDoes ==
    ASSUME Typed, NEW t \in Tabs, ReadCopy(t)
    PROVE  /\ Tabbed /\ Elsewise(t) /\ page' = page
           /\ cache'[t].copy = cache[t].copy /\ cache'[t].got = article
<1> DEFINE k == [cache[t] EXCEPT !.fetch = "read", !.got = article]
<1>1. k \in CacheStates /\ k.copy = cache[t].copy /\ k.got = article
  BY TabTyped DEF CacheStates, Typed
<1>2. cache' = [cache EXCEPT ![t] = k]
  BY DEF ReadCopy, Typed
<1> HIDE DEF k
<1>3. CacheTo(t, k)
  BY <1>1, <1>2, Updates
<1> QED BY <1>1, <1>3 DEF CacheTo, Tabbed, Elsewise, ReadCopy, Typed

LEMMA ArriveDoes ==
    ASSUME Typed, NEW t \in Tabs, Arrive(t)
    PROVE  /\ Tabbed /\ Elsewise(t)
           /\ cache'[t].copy = cache[t].got /\ cache'[t].got = None
           /\ page'[t].on = page[t].on /\ page'[t].pending = page[t].pending
           /\ \/ page'[t] = Blank
              \/ Reseeded(t)
              \/ cache'[t].copy = cache[t].copy /\ page'[t].working \in {None, page[t].working}
<1> DEFINE copy == cache[t].got
           p == Resume(page[t], cache[t].after)
           k == [Fetched(cache[t], "done") EXCEPT !.loaded = TRUE, !.copy = copy]
<1>1. /\ page[t] \in PageStates /\ cache[t] \in CacheStates /\ copy \in {None} \cup Copy
      /\ ~page[t].on => page[t] = Blank
  BY TabTyped DEF CacheStates, Typed
<1>2. /\ p \in PageStates /\ p.on = page[t].on /\ p.pending = page[t].pending
      /\ p.working \in {None, page[t].working} /\ (page[t] = Blank => p = Blank)
  BY <1>1, ResumeTyped
<1>3. k \in CacheStates /\ k.copy = copy /\ k.got = None
  BY <1>1, FetchedTyped
<1>4. cache' = [cache EXCEPT ![t] = k]
  BY DEF Arrive, Typed
<1>5. PICK fresh \in BOOLEAN :
         /\ copy # cache[t].copy => fresh
         /\ page' = [page EXCEPT ![t] = IF page[t].on /\ fresh THEN Seeded(copy, p) ELSE p]
  BY DEF Arrive
<1> HIDE DEF k, p, copy
<1>6. /\ Seeded(copy, p) \in PageStates /\ Seeded(copy, p).on = p.on
      /\ Seeded(copy, p).pending = p.pending /\ Seeded(copy, p).working = Resumed(copy)
  BY <1>1, <1>2, SeededTyped
<1> DEFINE q == IF page[t].on /\ fresh THEN Seeded(copy, p) ELSE p
<1>7. /\ q \in PageStates /\ q.on = page[t].on /\ q.pending = page[t].pending
      /\ ~q.on => q = Blank
      /\ \/ q = Blank
         \/ q.on /\ q.working = Resumed(copy)
         \/ copy = cache[t].copy /\ q.working \in {None, page[t].working}
  BY <1>1, <1>2, <1>5, <1>6
<1> HIDE DEF q
<1>8. PageTo(t, q) /\ CacheTo(t, k)
  BY <1>3, <1>4, <1>5, <1>7, Updates DEF q
<1>9. Tabbed /\ Elsewise(t)
  BY <1>7, <1>8 DEF PageTo, CacheTo, Tabbed, Elsewise, Typed
<1> QED BY <1>3, <1>7, <1>8, <1>9 DEF PageTo, CacheTo, Reseeded, copy

LEMMA FetchFailsDoes ==
    ASSUME Typed, NEW t \in Tabs, FetchFails(t)
    PROVE  /\ Tabbed /\ Elsewise(t) /\ CopyKept(t)
           /\ page'[t].on = page[t].on /\ page'[t].pending = page[t].pending
           /\ page'[t].working \in {None, page[t].working}
<1> DEFINE p == Resume(page[t], cache[t].after)
           k == Fetched(cache[t], "due")
<1>1. /\ page[t] \in PageStates /\ cache[t] \in CacheStates
      /\ ~page[t].on => page[t] = Blank
  BY TabTyped DEF Typed
<1>2. /\ p \in PageStates /\ p.on = page[t].on /\ p.pending = page[t].pending
      /\ p.working \in {None, page[t].working} /\ (page[t] = Blank => p = Blank)
  BY <1>1, ResumeTyped
<1>3. k \in CacheStates /\ k.copy = cache[t].copy /\ k.got = None
  BY <1>1, FetchedTyped
<1>4. cache' = [cache EXCEPT ![t] = k] /\ page' = [page EXCEPT ![t] = p]
  BY DEF FetchFails, Typed
<1> HIDE DEF k, p
<1>5. PageTo(t, p) /\ CacheTo(t, k)
  BY <1>2, <1>3, <1>4, Updates
<1> QED BY <1>1, <1>2, <1>3, <1>5 DEF PageTo, CacheTo, Tabbed, Elsewise, CopyKept, Typed

LEMMA DialogDoes ==
    ASSUME Typed, NEW t \in Tabs, NEW dialog \in {"publish", "discard"},
           OpenDialog(t, dialog) \/ CancelDialog(t)
    PROVE  Tabbed /\ Elsewise(t) /\ SameText(t) /\ cache' = cache
<1>1. PICK d \in {"no", "publish", "discard"} : page' = [page EXCEPT ![t].dialog = d]
  BY DEF OpenDialog, CancelDialog
<1> DEFINE p == [page[t] EXCEPT !.dialog = d]
<1>2. page[t] \in PageStates /\ page[t].on
  BY TabTyped DEF OpenDialog, CancelDialog
<1>3. /\ p \in PageStates /\ p.on = page[t].on /\ p.working = page[t].working
      /\ p.pending = page[t].pending
  BY <1>2 DEF PageStates
<1>4. page' = [page EXCEPT ![t] = p] /\ cache' = cache
  BY <1>1 DEF OpenDialog, CancelDialog, Typed
<1> HIDE DEF p
<1>5. PageTo(t, p)
  BY <1>3, <1>4, Updates
<1> QED BY <1>2, <1>3, <1>4, <1>5 DEF PageTo, Tabbed, Elsewise, SameText, Typed

-----------------------------------------------------------------------------
(* What each step of a person does to the tab and to the requests.           *)

Sends(c, r) == call[c] = Idle /\ CallTo(c, r) /\ r \in CallRecs

LEMMA TypeDoes ==
    ASSUME Typed, NEW t \in Tabs, NEW e \in Edits, Type(t, e), cache[t].copy # None
    PROVE  /\ Tabbed /\ Elsewise(t) /\ cache' = cache
           /\ page'[t].on /\ page'[t].working = page[t].working \cup {e}
           /\ page'[t].working \in Doc
           /\ page'[t].pending = [doc |-> page'[t].working, seen |-> cache[t].copy.stamp]
           /\ page'[t].pending \in Pending
<1> DEFINE next == page[t].working \cup {e}
           w == [doc |-> next, seen |-> cache[t].copy.stamp]
           p == [page[t] EXCEPT !.working = next, !.pending = w]
<1>1. /\ page[t] \in PageStates /\ page[t].on /\ cache[t].copy \in Copy
      /\ page[t].working \in Doc
  BY TabTyped DEF Type, CacheStates, PageStates
<1>2. next \in Doc /\ w \in Pending /\ w.doc = next
  BY <1>1 DEF Doc, Pending, Copy
<1>3. page' = [page EXCEPT ![t] = p] /\ cache' = cache
  BY DEF Type, Typed
<1> HIDE DEF next, w
<1>4. p \in PageStates /\ p.on /\ p.working = next /\ p.pending = w
  BY <1>1, <1>2 DEF PageStates
<1> HIDE DEF p
<1>5. PageTo(t, p)
  BY <1>3, <1>4, Updates
<1>6. Tabbed /\ Elsewise(t)
  BY <1>3, <1>4, <1>5 DEF PageTo, Tabbed, Elsewise, Typed
<1> QED BY <1>2, <1>3, <1>4, <1>5, <1>6 DEF PageTo, next, w

\* A press that takes what is pending off the page, or has nothing to take.
LEMMA Sent ==
    ASSUME Typed, NEW t \in Tabs, page[t].on, NEW flag \in BOOLEAN,
           \/ page' = [page EXCEPT ![t].pending = None]
           \/ page' = [page EXCEPT ![t].pending = None, ![t].publishing = flag],
           cache' = cache
    PROVE  /\ Tabbed /\ Elsewise(t)
           /\ page'[t].on /\ page'[t].working = page[t].working /\ page'[t].pending = None
<1>1. page[t] \in PageStates
  BY TabTyped
<1>2. ASSUME NEW p \in PageStates, p.on, p.working = page[t].working, p.pending = None,
             page' = [page EXCEPT ![t] = p]
      PROVE  /\ Tabbed /\ Elsewise(t)
             /\ page'[t].on /\ page'[t].working = page[t].working /\ page'[t].pending = None
  BY <1>2, Updates DEF PageTo, Tabbed, Elsewise, Typed
<1>3. CASE page' = [page EXCEPT ![t].pending = None]
  <2> DEFINE p == [page[t] EXCEPT !.pending = None]
  <2>1. p \in PageStates /\ p.on /\ p.working = page[t].working /\ p.pending = None
    BY <1>1 DEF PageStates
  <2>2. page' = [page EXCEPT ![t] = p]
    BY <1>3 DEF Typed
  <2> HIDE DEF p
  <2> QED BY <1>2, <2>1, <2>2
<1>4. CASE page' = [page EXCEPT ![t].pending = None, ![t].publishing = flag]
  <2> DEFINE p == [page[t] EXCEPT !.pending = None, !.publishing = flag]
  <2>1. p \in PageStates /\ p.on /\ p.working = page[t].working /\ p.pending = None
    BY <1>1 DEF PageStates
  <2>2. page' = [page EXCEPT ![t] = p]
    BY <1>4 DEF Typed
  <2> HIDE DEF p
  <2> QED BY <1>2, <2>1, <2>2
<1> QED BY <1>3, <1>4

LEMMA AutosaveDoes ==
    ASSUME Typed, NEW t \in Tabs, NEW c \in Calls, Autosave(t, c)
    PROVE  /\ Tabbed /\ Elsewise(t) /\ cache' = cache
           /\ page[t].on /\ page'[t].on /\ page'[t].working = page[t].working
           /\ page'[t].pending = None
           /\ Sends(c, NewCall("save", t, "check", page[t].pending))
<1>1. page[t].on /\ page[t].pending \in Pending /\ page[t].pending # None
  BY TabTyped DEF Autosave, PageStates
<1> DEFINE r == NewCall("save", t, "check", page[t].pending)
<1>2. r \in CallRecs
  BY <1>1, NewCallTyped DEF Ops, Steps, Saving
<1>3. call' = [call EXCEPT ![c] = r] /\ call[c] = Idle
  BY DEF Autosave, MayStart
<1> HIDE DEF r
<1>4. Sends(c, r)
  BY <1>2, <1>3, Updates DEF Sends, CallStates
<1> QED BY <1>1, <1>4, Sent DEF Autosave, r

LEMMA PressPublishDoes ==
    ASSUME Typed, NEW t \in Tabs, NEW c \in Calls, PressPublish(t, c), Sending \in Doc
    PROVE  /\ Tabbed /\ Elsewise(t) /\ cache' = cache
           /\ page[t].on /\ page'[t].on /\ page'[t].working = page[t].working
           /\ page'[t].pending = None
           /\ \E r : /\ Sends(c, r)
                     /\ r.op = "publish" /\ r.tab = t /\ r.from = "page"
                     /\ r.at = IF page[t].pending = None THEN "read" ELSE "check"
                     /\ r.save = page[t].pending
                     /\ r.shown = Text(page[t].working) /\ r.late = Sending
<1>1. page[t].on /\ page[t] \in PageStates
  BY TabTyped DEF PressPublish
<1> DEFINE p == page[t].pending
           n == NewCall("publish", t, IF p = None THEN "read" ELSE "check", p)
           r == [n EXCEPT !.shown = Text(page[t].working), !.late = Sending]
<1>2. p \in {None} \cup Pending /\ Text(page[t].working) \in Doc
  BY <1>1 DEF PageStates, Text, Doc
<1>3. r \in CallRecs
  BY <1>2, NewCallTyped DEF Ops, Steps, Saving
<1>4. /\ r.op = "publish" /\ r.tab = t /\ r.from = "page" /\ r.save = p
      /\ r.at = IF p = None THEN "read" ELSE "check"
      /\ r.shown = Text(page[t].working) /\ r.late = Sending
  BY DEF NewCall
<1>5. call' = [call EXCEPT ![c] = r] /\ call[c] = Idle
  BY DEF PressPublish, MayStart
<1>6. page' = [page EXCEPT ![t].pending = None, ![t].publishing = (p = None)] /\ cache' = cache
  BY DEF PressPublish
<1> HIDE DEF r
<1>7. Sends(c, r)
  BY <1>3, <1>5, Updates DEF Sends, CallStates
<1>8. /\ Tabbed /\ Elsewise(t)
      /\ page'[t].on /\ page'[t].working = page[t].working /\ page'[t].pending = None
  BY <1>1, <1>6, Sent
<1> QED BY <1>1, <1>4, <1>6, <1>7, <1>8

LEMMA PressDiscardDoes ==
    ASSUME Typed, NEW t \in Tabs, NEW c \in Calls, NEW op \in {"discard", "drop"},
           PressDiscard(t, c, op)
    PROVE  /\ Tabbed /\ Elsewise(t) /\ cache' = cache
           /\ page[t].on /\ page'[t].on /\ page'[t].working = page[t].working
           /\ page'[t].pending = None
           /\ Sends(c, NewCall(op, t, "inspect", None))
<1>1. page[t].on
  BY TabTyped DEF PressDiscard
<1> DEFINE r == NewCall(op, t, "inspect", None)
<1>2. r \in CallRecs
  BY NewCallTyped DEF Ops, Steps
<1>3. call' = [call EXCEPT ![c] = r] /\ call[c] = Idle
  BY DEF PressDiscard, MayStart
<1> HIDE DEF r
<1>4. Sends(c, r)
  BY <1>2, <1>3, Updates DEF Sends, CallStates
<1> QED BY <1>1, <1>4, Sent DEF PressDiscard, r

LEMMA PressCreateDoes ==
    ASSUME Typed, NEW t \in Tabs, NEW c \in Calls, PressCreate(t, c)
    PROVE  /\ Tabbed /\ page' = page /\ cache' = cache /\ page[t].on
           /\ Sends(c, NewCall("create", t, "look", None))
<1> DEFINE r == NewCall("create", t, "look", None)
<1>1. r \in CallRecs
  BY NewCallTyped DEF Ops, Steps
<1>2. call' = [call EXCEPT ![c] = r] /\ call[c] = Idle
  BY DEF PressCreate, MayStart
<1> HIDE DEF r
<1>3. Sends(c, r)
  BY <1>1, <1>2, Updates DEF Sends, CallStates
<1>4. Tabbed
  BY DEF Tabbed, PressCreate, Typed
<1> QED BY <1>3, <1>4 DEF PressCreate, r

\* The same request, perhaps after its page is gone.
Same(r, s) == /\ r # Idle /\ s \in CallRecs
              /\ s.op = r.op /\ s.tab = r.tab /\ s.at = r.at /\ s.got = r.got
              /\ s.save = r.save /\ s.shown = r.shown /\ s.late = r.late

LEMMA UnmountDoes ==
    ASSUME Typed, NEW t \in Tabs, NEW calls \in [Calls -> CallStates], Unmount(t, calls)
    PROVE  /\ Tabbed /\ Elsewise(t) /\ CopyKept(t) /\ page[t].on /\ page'[t] = Blank
           /\ call' \in [Calls -> CallStates]
           /\ \A c \in Calls : \/ calls[c] = Idle /\ call'[c] = Idle
                             \/ /\ Same(calls[c], call'[c])
                                /\ call'[c].from = "page" => calls[c].from = "page" /\ calls[c].tab # t
<1> DEFINE k == [cache[t] EXCEPT !.after = cache[t].after \cap {"created"}]
<1>1. cache[t] \in CacheStates
  BY TabTyped
<1>2. k \in CacheStates /\ k.copy = cache[t].copy /\ k.got = cache[t].got
  <2>1. cache[t].after \cap {"created"} \in SUBSET Sequels
    BY <1>1 DEF CacheStates
  <2> QED BY <1>1, <2>1 DEF CacheStates
<1>3. cache' = [cache EXCEPT ![t] = k] /\ page' = [page EXCEPT ![t] = Blank]
  BY DEF Unmount, Typed
<1> HIDE DEF k
<1>4. PageTo(t, Blank) /\ CacheTo(t, k)
  BY <1>2, <1>3, BlankTyped, Updates
<1>5. Tabbed /\ Elsewise(t) /\ CopyKept(t) /\ page[t].on /\ page'[t] = Blank
  BY <1>2, <1>4 DEF PageTo, CacheTo, Tabbed, Elsewise, CopyKept, Typed, Unmount
<1>6. ASSUME NEW c \in Calls
      PROVE  /\ call'[c] \in CallStates
             /\ \/ calls[c] = Idle /\ call'[c] = Idle
                \/ /\ Same(calls[c], call'[c])
                   /\ call'[c].from = "page" => calls[c].from = "page" /\ calls[c].tab # t
  <2>1. call'[c] = IF calls[c] # Idle /\ calls[c].tab = t /\ calls[c].from = "page"
                   THEN [calls[c] EXCEPT !.from = "app"] ELSE calls[c]
    BY DEF Unmount
  <2>2. calls[c] # Idle => calls[c] \in CallRecs
    BY DEF CallStates
  <2>3. CASE calls[c] # Idle /\ calls[c].tab = t /\ calls[c].from = "page"
    <3>1. call'[c] = [calls[c] EXCEPT !.from = "app"]
      BY <2>1, <2>3
    <3>2. call'[c] \in CallRecs /\ call'[c].from = "app"
      BY <2>2, <2>3, <3>1 DEF CallRecs
    <3>3. Same(calls[c], call'[c])
      BY <2>2, <2>3, <3>1, <3>2 DEF CallRecs, Same
    <3> QED BY <3>2, <3>3 DEF CallStates
  <2>4. CASE ~(calls[c] # Idle /\ calls[c].tab = t /\ calls[c].from = "page")
    BY <2>1, <2>2, <2>4 DEF Same, CallStates
  <2> QED BY <2>3, <2>4
<1>7. call' \in [Calls -> CallStates]
  BY <1>6 DEF Unmount
<1> QED BY <1>5, <1>6, <1>7

LEMMA CloseTabDoes ==
    ASSUME Typed, NEW t \in Tabs, CloseTab(t)
    PROVE  /\ Tabbed /\ Elsewise(t) /\ page'[t] = Blank /\ cache'[t] = Cold
           /\ call' \in [Calls -> CallStates]
           /\ \A c \in Calls :
                 \/ /\ call'[c] = Idle
                    /\ call[c] # Idle => call[c].at \in {"written", "answer", "removed"}
                 \/ Same(call[c], call'[c]) /\ call'[c].from = call[c].from /\ call[c].tab # t
                 \/ Same(call[c], call'[c]) /\ call'[c].from = "gone"
                 \/ /\ call'[c] \in CallRecs /\ call[c] # Idle
                    /\ call'[c].op = "save" /\ call'[c].tab = call[c].tab /\ call'[c].from = "gone"
                    /\ call[c].at \in {"check", "save"} /\ call'[c].at = call[c].at
                    /\ call'[c].save = call[c].save /\ call'[c].shown = {}
<1>1. page' = [page EXCEPT ![t] = Blank] /\ cache' = [cache EXCEPT ![t] = Cold]
  BY DEF CloseTab
<1>2. PageTo(t, Blank) /\ CacheTo(t, Cold)
  BY <1>1, BlankTyped, Updates
<1>3. Tabbed /\ Elsewise(t) /\ page'[t] = Blank /\ cache'[t] = Cold
  BY <1>2 DEF PageTo, CacheTo, Tabbed, Elsewise, Typed
<1>4. ASSUME NEW c \in Calls
      PROVE  /\ call'[c] \in CallStates
             /\ \/ /\ call'[c] = Idle
                   /\ call[c] # Idle => call[c].at \in {"written", "answer", "removed"}
                \/ Same(call[c], call'[c]) /\ call'[c].from = call[c].from /\ call[c].tab # t
                \/ Same(call[c], call'[c]) /\ call'[c].from = "gone"
                \/ /\ call'[c] \in CallRecs /\ call[c] # Idle
                   /\ call'[c].op = "save" /\ call'[c].tab = call[c].tab /\ call'[c].from = "gone"
                   /\ call[c].at \in {"check", "save"} /\ call'[c].at = call[c].at
                   /\ call'[c].save = call[c].save /\ call'[c].shown = {}
  <2> DEFINE r == call[c]
  <2>1. call'[c] = IF r # Idle /\ r.tab = t THEN Abandoned(r) ELSE r
    BY DEF CloseTab
  <2>2. r # Idle => r \in CallRecs
    BY CallTyped
  <2>3. r \in CallStates
    BY DEF Typed
  <2> HIDE DEF r
  <2>4. CASE r = Idle
    <3>1. call'[c] = Idle
      BY <2>1, <2>4
    <3> QED BY <2>3, <2>4, <3>1 DEF r
  <2>5. CASE r # Idle /\ r.tab # t
    <3>1. call'[c] = r
      BY <2>1, <2>5
    <3> QED BY <2>2, <2>3, <2>5, <3>1 DEF Same, r
  <2>6. CASE r # Idle /\ r.tab = t /\ r.at \in {"written", "answer", "removed"}
    <3>1. call'[c] = Idle
      BY <2>1, <2>6 DEF Abandoned
    <3> QED BY <2>6, <3>1 DEF CallStates, r
  <2>7. CASE r # Idle /\ r.tab = t /\ r.at \in {"check", "save"}
    <3>1. call'[c] = [r EXCEPT !.from = "gone", !.op = "save", !.shown = {}, !.late = {}]
      BY <2>1, <2>7 DEF Abandoned
    <3>2. {} \in Doc
      BY DEF Doc
    <3>3. /\ call'[c] \in CallRecs /\ call'[c].op = "save" /\ call'[c].tab = r.tab
          /\ call'[c].from = "gone" /\ call'[c].at = r.at /\ call'[c].save = r.save
          /\ call'[c].shown = {}
      BY <2>2, <2>7, <3>1, <3>2 DEF CallRecs, Ops
    <3> QED BY <2>7, <3>3 DEF CallStates, r
  <2>8. CASE r # Idle /\ r.tab = t /\ r.at \notin {"check", "save", "written", "answer", "removed"}
    <3>1. call'[c] = [r EXCEPT !.from = "gone"]
      BY <2>1, <2>8 DEF Abandoned
    <3>2. call'[c] \in CallRecs /\ call'[c].from = "gone" /\ Same(r, call'[c])
      BY <2>2, <2>8, <3>1 DEF CallRecs, Same
    <3> QED BY <3>2 DEF CallStates, r
  <2> QED BY <2>4, <2>5, <2>6, <2>7, <2>8
<1>5. call' \in [Calls -> CallStates]
  BY <1>4 DEF CloseTab
<1> QED BY <1>3, <1>4, <1>5

(***************************************************************************)
(* Flows: where a request of each kind may stand, what it holds there, and  *)
(* that the page it is to answer to is still there.                         *)
(***************************************************************************)
StepsOf ==
    [save |-> Saving,
     publish |-> Saving \cup {"read", "publish", "answer"},
     discard |-> {"inspect", "clear", "remove", "answer", "removed"},
     drop |-> {"inspect", "clear", "remove", "answer", "removed"},
     create |-> {"look", "create", "answer"}]

Holds(r) == /\ r.at \in StepsOf[r.op]
            /\ r.at \in Saving => r.save # None
            /\ r.at \notin Saving => r.save = None
            /\ r.at = "publish" => r.got # None /\ r.got.draft # None
            /\ r.op # "publish" => r.shown = {}
Flow(c) == call[c] # Idle =>
              Holds(call[c]) /\ (call[c].from = "page" => page[call[c].tab].on)

\* How a step of the service leaves its request.
Served(c) ==
    \/ call'[c] = Idle
    \/ /\ call'[c] \in CallRecs /\ Holds(call'[c])
       /\ call'[c].op = call[c].op /\ call'[c].tab = call[c].tab /\ call'[c].from = call[c].from
       /\ call'[c].at \in {"check", "save"} =>
             call[c].at \in {"check", "save"} /\ call'[c].save = call[c].save
       /\ \/ call'[c].shown = call[c].shown /\ call'[c].late = call[c].late
          \/ call'[c].shown = {}

ServedOnly(c) == /\ call[c] # Idle /\ Served(c) /\ call' \in [Calls -> CallStates]
                 /\ \A d \in Calls : d # c => call'[d] = call[d]

LEMMA Handled ==
    ASSUME Typed, NEW c \in Calls, Flow(c), call[c] # Idle,
           NEW r \in CallRecs, call' = [call EXCEPT ![c] = r], Holds(r),
           r.op = call[c].op, r.tab = call[c].tab, r.from = call[c].from,
           r.at \in {"check", "save"} => call[c].at \in {"check", "save"} /\ r.save = call[c].save,
           (r.shown = call[c].shown /\ r.late = call[c].late) \/ r.shown = {}
    PROVE  ServedOnly(c) /\ call'[c] = r
<1>1. CallTo(c, r)
  BY Updates DEF CallStates
<1> QED BY <1>1 DEF ServedOnly, Served, CallTo

LEMMA Ended ==
    ASSUME Typed, NEW c \in Calls, call[c] # Idle, call' = [call EXCEPT ![c] = Idle]
    PROVE  ServedOnly(c) /\ call'[c] = Idle
BY Updates, BlankTyped DEF ServedOnly, Served, CallTo

LEMMA DoneDoes ==
    ASSUME Typed, NEW c \in Calls, Flow(c), call[c] # Idle,
           NEW at \in {"answer", "removed"}, at \in StepsOf[call[c].op], Done(c, at)
    PROVE  ServedOnly(c) /\ (call'[c] # Idle => call'[c].at = at)
<1>1. call[c] \in CallRecs
  BY CallTyped
<1> DEFINE n == NewCall(call[c].op, call[c].tab, at, None)
           r == [n EXCEPT !.from = call[c].from]
<1>2. n \in CallRecs
  BY <1>1, NewCallTyped DEF CallRecs, Steps
<1>3. /\ n.op = call[c].op /\ n.tab = call[c].tab /\ n.at = at /\ n.save = None /\ n.shown = {}
  BY DEF NewCall
<1> HIDE DEF n
<1>4. /\ r \in CallRecs /\ r.op = call[c].op /\ r.tab = call[c].tab /\ r.from = call[c].from
      /\ r.at = at /\ r.save = None /\ r.shown = {}
  BY <1>1, <1>2, <1>3 DEF CallRecs
<1>5. Holds(r)
  BY <1>4 DEF Holds, Saving
<1>6. call' = [call EXCEPT ![c] = IF call[c].from = "gone" THEN Idle ELSE r]
  BY DEF Done, Answers, n
<1> HIDE DEF r
<1> QED BY <1>4, <1>5, <1>6, Handled, Ended

LEMMA Stepped ==
    ASSUME Typed, NEW c \in Calls, Flow(c), call[c] # Idle,
           NEW at \in Steps, NEW id \in 0..MaxClock, NEW k \in {None} \cup Copy,
           at \in StepsOf[call[c].op], at \in Saving <=> call[c].at \in Saving,
           at \in {"check", "save"} => call[c].at \in {"check", "save"},
           at = "publish" => k # None /\ k.draft # None,
           \/ call' = [call EXCEPT ![c].at = at]
           \/ call' = [call EXCEPT ![c].at = at, ![c].id = id] /\ at # "publish"
           \/ call' = [call EXCEPT ![c].at = at, ![c].id = id, ![c].got = k],
           at = "publish" => call' = [call EXCEPT ![c].at = at, ![c].id = id, ![c].got = k]
    PROVE  ServedOnly(c) /\ call'[c] # Idle /\ call'[c].at = at /\ call'[c].save = call[c].save
<1>1. call[c] \in CallRecs /\ call \in [Calls -> CallStates]
  BY CallTyped DEF Typed
<1>2. PICK r \in CallRecs :
         /\ call' = [call EXCEPT ![c] = r] /\ r.at = at /\ (at = "publish" => r.got = k)
         /\ r.op = call[c].op /\ r.tab = call[c].tab /\ r.from = call[c].from
         /\ r.save = call[c].save /\ r.shown = call[c].shown /\ r.late = call[c].late
  <2>1. CASE call' = [call EXCEPT ![c].at = at] /\ at # "publish"
    <3> DEFINE r == [call[c] EXCEPT !.at = at]
    <3>1. r \in CallRecs
      BY Moves
    <3>2. /\ r.at = at
          /\ r.op = call[c].op /\ r.tab = call[c].tab /\ r.from = call[c].from
          /\ r.save = call[c].save /\ r.shown = call[c].shown /\ r.late = call[c].late
      BY <1>1 DEF CallRecs
    <3>3. call' = [call EXCEPT ![c] = r]
      BY <1>1, <2>1
    <3> HIDE DEF r
    <3> QED BY <2>1, <3>1, <3>2, <3>3
  <2>2. CASE call' = [call EXCEPT ![c].at = at, ![c].id = id] /\ at # "publish"
    <3> DEFINE r == [call[c] EXCEPT !.at = at, !.id = id]
    <3>1. r \in CallRecs
      BY Moves
    <3>2. /\ r.at = at
          /\ r.op = call[c].op /\ r.tab = call[c].tab /\ r.from = call[c].from
          /\ r.save = call[c].save /\ r.shown = call[c].shown /\ r.late = call[c].late
      BY <1>1 DEF CallRecs
    <3>3. call' = [call EXCEPT ![c] = r]
      BY <1>1, <2>2
    <3> HIDE DEF r
    <3> QED BY <2>2, <3>1, <3>2, <3>3
  <2>3. CASE call' = [call EXCEPT ![c].at = at, ![c].id = id, ![c].got = k]
    <3> DEFINE r == [call[c] EXCEPT !.at = at, !.id = id, !.got = k]
    <3>1. r \in CallRecs
      BY Moves
    <3>2. /\ r.at = at /\ r.got = k
          /\ r.op = call[c].op /\ r.tab = call[c].tab /\ r.from = call[c].from
          /\ r.save = call[c].save /\ r.shown = call[c].shown /\ r.late = call[c].late
      BY <1>1 DEF CallRecs
    <3>3. call' = [call EXCEPT ![c] = r]
      BY <1>1, <2>3
    <3> HIDE DEF r
    <3> QED BY <3>1, <3>2, <3>3
  <2> QED BY <2>1, <2>2, <2>3
<1>3. Holds(r)
  BY <1>1, <1>2 DEF Holds, Flow
<1>4. ServedOnly(c) /\ call'[c] = r
  BY <1>2, <1>3, Handled
<1> QED BY <1>2, <1>4, Distinct

\* The pages after a step of the service: what they show stays.
Shown == Tabbed /\ \A t \in Tabs : SameText(t) /\ CopyKept(t)

LEMMA Untouched ==
    ASSUME Typed, page' = page, cache' = cache
    PROVE  Shown
BY DEF Shown, Tabbed, SameText, CopyKept, Typed

LEMMA CheckSaveServes ==
    ASSUME Typed, NEW c \in Calls, Flow(c), CheckSave(c)
    PROVE  /\ ServedOnly(c) /\ call'[c] # Idle /\ call'[c].at = "save"
           /\ call'[c].save = call[c].save
<1>1. /\ call[c] # Idle /\ call[c].op \in {"save", "publish"} /\ call[c].at = "check"
      /\ article \in Copy /\ article.id \in 0..MaxClock
  BY EditorAssumption DEF CheckSave, Under, SameAsOpened, Typed, Copy, Idle
<1>2. /\ "save" \in Steps /\ "save" \in StepsOf[call[c].op]
      /\ "save" \in Saving /\ "check" \in Saving
  BY <1>1 DEF Steps, Saving, StepsOf
<1> QED BY <1>1, <1>2, Stepped DEF CheckSave

LEMMA WriteDraftServes ==
    ASSUME Typed, NEW c \in Calls, Flow(c), WriteDraft(c)
    PROVE  /\ ServedOnly(c) /\ call[c].at = "save" /\ call[c].save \in Pending
           /\ call'[c] # Idle => call'[c].at = "written"
<1>1. /\ call[c] # Idle /\ call[c].op \in {"save", "publish"} /\ call[c].at = "save"
      /\ call[c] \in CallRecs /\ 0 \in 0..MaxClock
  BY CallTyped, EditorAssumption DEF WriteDraft, Under, Idle
<1> DEFINE r == [call[c] EXCEPT !.at = "written", !.id = 0]
<1>2. /\ "written" \in Steps /\ "written" \in StepsOf[call[c].op]
      /\ "written" \in Saving /\ "save" \in Saving
  BY <1>1 DEF Steps, Saving, StepsOf
<1>3. /\ r \in CallRecs /\ r.at = "written" /\ r.save = call[c].save
      /\ r.op = call[c].op /\ r.tab = call[c].tab /\ r.from = call[c].from
      /\ r.shown = call[c].shown /\ r.late = call[c].late /\ r.got = call[c].got
  BY <1>1, <1>2, Moves DEF CallRecs
<1>4. Holds(r) /\ call[c].save \in Pending
  BY <1>1, <1>2, <1>3 DEF Holds, Flow, CallRecs
<1>5. call' = [call EXCEPT ![c] = IF call[c].from = "gone" THEN Idle ELSE r]
  BY DEF WriteDraft, Answers
<1> HIDE DEF r
<1> QED BY <1>1, <1>3, <1>4, <1>5, Handled, Ended

LEMMA FlushedServes ==
    ASSUME Typed, NEW c \in Calls, Flow(c), call[c] # Idle, call[c].at \in Saving,
           NEW ok \in BOOLEAN, Flushed(c, ok), cache' = cache
    PROVE  ServedOnly(c) /\ Shown /\ (call'[c] # Idle => call'[c].at = "read")
<1> DEFINE t == call[c].tab
           shows == call[c].from = "page"
           publishes == call[c].op = "publish"
           told == IF ok /\ shows THEN TRUE ELSE page[t].hasDraft
           busy == IF publishes /\ shows THEN TRUE ELSE page[t].publishing
           p == [page[t] EXCEPT !.hasDraft = told, !.publishing = busy]
           r == [call[c] EXCEPT !.at = "read", !.save = None]
<1>1. call[c] \in CallRecs /\ t \in Tabs /\ page[t] \in PageStates
  BY CallTyped, TabTyped DEF CallRecs
<1>2. page' = [page EXCEPT ![t] = p]
  BY <1>1 DEF Flushed, Typed
<1>3. told \in BOOLEAN /\ busy \in BOOLEAN
  BY <1>1 DEF PageStates
<1>4. ~shows => told = page[t].hasDraft /\ busy = page[t].publishing
  OBVIOUS
<1> HIDE DEF told, busy, shows
<1>5. /\ p \in PageStates /\ p.on = page[t].on /\ p.working = page[t].working
      /\ p.pending = page[t].pending /\ p.hasDraft = told /\ p.publishing = busy
      /\ p.dialog = page[t].dialog
  BY <1>1, <1>3 DEF PageStates
<1> HIDE DEF p
<1>6. ~p.on => p = Blank
  <2>1. shows => page[t].on
    BY DEF Flow, shows
  <2>2. CASE ~shows
    BY <1>1, <1>4, <1>5, <2>2, SamePage DEF Typed
  <2> QED BY <1>5, <2>1, <2>2
<1>7. PageTo(t, p)
  BY <1>1, <1>2, <1>5, Updates
<1>8. Shown
  BY <1>5, <1>6, <1>7 DEF PageTo, Shown, Tabbed, SameText, CopyKept, Typed
<1>9. CASE publishes
  <2>1. /\ r \in CallRecs /\ r.at = "read" /\ r.save = None /\ r.op = call[c].op
        /\ r.tab = call[c].tab /\ r.from = call[c].from
        /\ r.shown = call[c].shown /\ r.late = call[c].late
    BY <1>1 DEF CallRecs, Steps
  <2>2. Holds(r)
    BY <1>9, <2>1 DEF Holds, StepsOf, Saving
  <2>3. call' = [call EXCEPT ![c] = r]
    BY <1>9 DEF Flushed, Typed
  <2> HIDE DEF r
  <2> QED BY <1>8, <2>1, <2>2, <2>3, Handled
<1>10. CASE ~publishes
  <2>1. call' = [call EXCEPT ![c] = Idle]
    BY <1>10 DEF Flushed
  <2> QED BY <1>8, <2>1, Ended
<1> QED BY <1>9, <1>10

LEMMA SavedServes ==
    ASSUME Typed, NEW c \in Calls, Flow(c), Saved(c) \/ SaveFails(c)
    PROVE  /\ ServedOnly(c) /\ Shown /\ call[c].save \in Pending
           /\ call'[c] # Idle => call'[c].at = "read"
           /\ Saved(c) => call[c].at = "written"
<1>1. /\ call[c] # Idle /\ call[c].at \in Saving
      /\ \E ok \in BOOLEAN : Flushed(c, ok)
      /\ cache' = cache
      /\ Saved(c) => call[c].at = "written"
  <2>1. CASE Saved(c)
    <3>1. Flushed(c, TRUE) /\ cache' = cache /\ TRUE \in BOOLEAN
      BY <2>1 DEF Saved
    <3>2. call[c] # Idle /\ call[c].at = "written" /\ call[c].at \in Saving
      BY <2>1 DEF Saved, Under, Idle, Saving
    <3> QED BY <3>1, <3>2
  <2>2. CASE SaveFails(c)
    <3>1. Flushed(c, FALSE) /\ cache' = cache
      BY <2>2 DEF SaveFails
    <3>2. \/ Under(c, {"save", "publish"}, "check") \/ Under(c, {"save", "publish"}, "save")
          \/ Under(c, {"save", "publish"}, "written")
      BY <2>2 DEF SaveFails
    <3>3. call[c] # Idle /\ call[c].at \in Saving
      BY <3>2 DEF Under, Idle, Saving
    <3>4. Saved(c) => call[c].at = "written"
      BY DEF Saved, Under
    <3> QED BY <3>1, <3>3, <3>4
  <2> QED BY <2>1, <2>2
<1>2. call[c].save \in Pending
  BY <1>1, CallTyped DEF Flow, Holds, CallRecs
<1> QED BY <1>1, <1>2, FlushedServes

LEMMA PublishServes ==
    ASSUME Typed, NEW c \in Calls, Flow(c), ReadDraft(c) \/ WritePublished(c)
    PROVE  /\ ServedOnly(c) /\ call[c].at \in {"read", "publish"}
           /\ call'[c] # Idle => call'[c].at \in {"publish", "answer"}
           /\ ReadDraft(c) => call'[c].at = "publish"
           /\ WritePublished(c) /\ call'[c] # Idle => call'[c].at = "answer"
<1>1. call[c] # Idle /\ call[c].op = "publish" /\ call[c].at \in {"read", "publish"}
  BY DEF ReadDraft, WritePublished, Under, Idle
<1>2. CASE ReadDraft(c)
  <2>1. /\ article \in Copy /\ article.id \in 0..MaxClock /\ article.draft # None
        /\ "publish" \in Steps /\ "publish" \in StepsOf[call[c].op]
        /\ "publish" \notin Saving /\ call[c].at \notin Saving /\ article # None
    BY <1>1, EditorAssumption, <1>2 DEF ReadDraft, Typed, Copy, Steps, StepsOf, Saving
  <2>2. call' = [call EXCEPT ![c].at = "publish", ![c].id = article.id, ![c].got = article]
    BY <1>2 DEF ReadDraft
  <2>3. ServedOnly(c) /\ call'[c] # Idle /\ call'[c].at = "publish"
    BY <1>1, <2>1, <2>2, Stepped
  <2>4. ~WritePublished(c)
    BY <1>2 DEF ReadDraft, WritePublished, Under
  <2> QED BY <1>1, <2>3, <2>4
<1>3. CASE WritePublished(c)
  <2>1. ~ReadDraft(c) /\ Done(c, "answer") /\ "answer" \in StepsOf[call[c].op]
    BY <1>1, <1>3 DEF ReadDraft, WritePublished, Under, StepsOf
  <2> QED BY <1>1, <2>1, DoneDoes
<1> QED BY <1>2, <1>3

LEMMA OthersServe ==
    ASSUME Typed, NEW c \in Calls, Flow(c),
           \/ ReadForDiscard(c) \/ ClearDraft(c) \/ RemoveArticle(c)
           \/ LookForArticle(c) \/ CreateDraft(c)
    PROVE  /\ ServedOnly(c) /\ call[c].op # "publish" /\ call[c].at \notin Saving
           /\ call[c].at \notin {"answer", "removed"}
           /\ CreateDraft(c) => call[c].op = "create" /\ (call'[c] # Idle => call'[c].at = "answer")
<1>1. /\ call[c] # Idle /\ call[c].op \in {"discard", "drop", "create"}
      /\ call[c].at \in {"inspect", "clear", "remove", "look", "create"}
      /\ call[c].at \notin Saving
  BY DEF ReadForDiscard, ClearDraft, RemoveArticle, LookForArticle, CreateDraft, Under, Idle, Saving
<1>2. CASE ReadForDiscard(c)
  <2>1. PICK at \in {"clear", "remove"} :
           call' = [call EXCEPT ![c].at = at, ![c].id = article.id] /\ article # None
    BY <1>2 DEF ReadForDiscard
  <2>2. article.id \in 0..MaxClock /\ None \in {None} \cup Copy
    BY <2>1, EditorAssumption DEF Typed, Copy
  <2>3. call[c].op \in {"discard", "drop"}
    BY <1>2 DEF ReadForDiscard, Under
  <2>4. at \in Steps /\ at \in StepsOf[call[c].op] /\ at \notin Saving /\ at # "publish"
        /\ at \notin {"check", "save"}
    BY <1>1, <2>3 DEF Steps, StepsOf, Saving
  <2>5. ServedOnly(c)
    BY <1>1, <2>1, <2>2, <2>4, Stepped
  <2>6. ~CreateDraft(c)
    BY <2>3 DEF CreateDraft, Under
  <2> QED BY <1>1, <2>5, <2>6
<1>3. CASE LookForArticle(c)
  <2>1. call' = [call EXCEPT ![c].at = "create"] /\ call[c].op = "create" /\ call[c].at = "look"
    BY <1>3 DEF LookForArticle, GoTo, Under
  <2>2. /\ "create" \in Steps /\ "create" \in StepsOf[call[c].op] /\ "create" \notin Saving
        /\ 0 \in 0..MaxClock /\ None \in {None} \cup Copy
    BY <2>1, EditorAssumption DEF Steps, StepsOf, Saving
  <2>3. ServedOnly(c)
    BY <1>1, <2>1, <2>2, Stepped
  <2>4. ~CreateDraft(c)
    BY <2>1 DEF CreateDraft, Under
  <2> QED BY <1>1, <2>3, <2>4
<1>4. CASE ClearDraft(c) \/ RemoveArticle(c)
  <2>1. PICK at \in {"answer", "removed"} : Done(c, at)
    BY <1>4 DEF ClearDraft, RemoveArticle
  <2>2. call[c].op \in {"discard", "drop"} /\ ~CreateDraft(c)
    BY <1>4 DEF ClearDraft, RemoveArticle, CreateDraft, Under
  <2>3. at \in StepsOf[call[c].op]
    BY <2>2 DEF StepsOf
  <2> QED BY <1>1, <2>1, <2>2, <2>3, DoneDoes
<1>5. CASE CreateDraft(c)
  <2>1. Done(c, "answer") /\ call[c].op = "create" /\ "answer" \in StepsOf[call[c].op]
    BY <1>5 DEF CreateDraft, Under, StepsOf
  <2> QED BY <1>1, <2>1, DoneDoes
<1> QED BY <1>2, <1>3, <1>4, <1>5

LEMMA SequelsTyped == \A c \in Calls : SequelsOf(c) \in SUBSET Sequels
BY DEF SequelsOf, Sequels

LEMMA AnsweredServes ==
    ASSUME Typed, NEW c \in Calls, Answered(c)
    PROVE  /\ ServedOnly(c) /\ Shown /\ call'[c] = Idle
           /\ call[c].at \in {"answer", "removed"}
<1> DEFINE t == call[c].tab
           k == CASE call[c].from = "gone" -> cache[t]
                  [] call[c].from # "gone" /\ call[c].op = "create" /\ ~page[t].on ->
                       Refetched(cache[t], {})
                  [] OTHER -> Invalidated(t, SequelsOf(c))
<1>1. call[c] # Idle /\ call[c].at \in {"answer", "removed"} /\ page' = page
  BY DEF Answered
<1>2. t \in Tabs /\ cache[t] \in CacheStates
  BY <1>1, CallTyped, TabTyped DEF CallRecs
<1>3. k \in CacheStates /\ k.copy = cache[t].copy /\ k.got \in {None, cache[t].got}
  <2>1. /\ Refetched(cache[t], {}) \in CacheStates
        /\ Refetched(cache[t], {}).copy = cache[t].copy
        /\ Refetched(cache[t], {}).got \in {None, cache[t].got}
    BY <1>2, RefetchedTyped
  <2>2. /\ Invalidated(t, SequelsOf(c)) \in CacheStates
        /\ Invalidated(t, SequelsOf(c)).copy = cache[t].copy
        /\ Invalidated(t, SequelsOf(c)).got \in {None, cache[t].got}
    BY <1>2, SequelsTyped, InvalidatedTyped
  <2> HIDE DEF t
  <2>3. k \in {cache[t], Refetched(cache[t], {}), Invalidated(t, SequelsOf(c))}
    OBVIOUS
  <2> QED BY <1>2, <2>1, <2>2, <2>3
<1>4. cache' = [cache EXCEPT ![t] = k]
  BY <1>2 DEF Answered, Typed
<1> HIDE DEF k
<1>5. CacheTo(t, k)
  BY <1>2, <1>3, <1>4, Updates
<1>6. Shown
  BY <1>1, <1>3, <1>5 DEF CacheTo, Shown, Tabbed, SameText, CopyKept, Typed
<1> QED BY <1>1, <1>6, Ended DEF Answered

LEMMA RefusedServes ==
    ASSUME Typed, NEW c \in Calls, Flow(c), Refused(c)
    PROVE  /\ ServedOnly(c) /\ Shown /\ call'[c] = Idle
           /\ call[c].at \notin Saving
<1> DEFINE t == call[c].tab
           ends == call[c].op = "publish" /\ call[c].from = "page"
           busy == IF ends THEN FALSE ELSE page[t].publishing
           p == [page[t] EXCEPT !.publishing = busy]
<1>1. call[c] # Idle /\ call[c].at \notin Saving
  <2>1. PICK ops \in SUBSET Ops, at \in Steps \ Saving : Under(c, ops, at)
    <3>1. CASE Under(c, {"publish"}, "read")
      BY <3>1 DEF Ops, Steps, Saving
    <3>2. CASE Under(c, {"discard", "drop"}, "inspect")
      BY <3>2 DEF Ops, Steps, Saving
    <3>3. CASE \E at \in {"publish", "clear", "remove"} : Under(c, {"publish", "discard", "drop"}, at)
      BY <3>3 DEF Ops, Steps, Saving
    <3>4. CASE \E at \in {"look", "create"} : Under(c, {"create"}, at)
      BY <3>4 DEF Ops, Steps, Saving
    <3>5. CASE \E at \in {"answer", "removed"} : Under(c, Ops, at)
      BY <3>5 DEF Steps, Saving
    <3> QED BY <3>1, <3>2, <3>3, <3>4, <3>5 DEF Refused
  <2> QED BY <2>1, Distinct DEF Under
<1>2. call[c] \in CallRecs /\ t \in Tabs /\ page[t] \in PageStates
  BY <1>1, CallTyped, TabTyped DEF CallRecs
<1>3. page' = [page EXCEPT ![t] = p]
  BY <1>2 DEF Refused, Typed
<1>4. busy \in BOOLEAN /\ (~ends => busy = page[t].publishing) /\ (ends => page[t].on)
  BY <1>1, <1>2 DEF PageStates, Flow
<1> HIDE DEF busy, ends
<1>5. /\ p \in PageStates /\ p.on = page[t].on /\ p.working = page[t].working
      /\ p.pending = page[t].pending /\ p.hasDraft = page[t].hasDraft /\ p.publishing = busy
      /\ p.dialog = page[t].dialog
  BY <1>2, <1>4 DEF PageStates
<1> HIDE DEF p
<1>6. ~p.on => p = Blank
  BY <1>2, <1>4, <1>5, SamePage DEF Typed
<1>7. PageTo(t, p)
  BY <1>2, <1>3, <1>5, Updates
<1>8. Shown
  BY <1>5, <1>6, <1>7 DEF PageTo, Shown, Tabbed, SameText, CopyKept, Typed, Refused
<1> QED BY <1>1, <1>8, Ended DEF Refused

LEMMA ServiceServes ==
    ASSUME Typed, NEW c \in Calls, Flow(c), Service(c)
    PROVE  ServedOnly(c) /\ Shown
<1>1. CASE CheckSave(c) \/ WriteDraft(c) \/ ReadDraft(c) \/ WritePublished(c)
           \/ ReadForDiscard(c) \/ ClearDraft(c) \/ RemoveArticle(c)
           \/ LookForArticle(c) \/ CreateDraft(c)
  <2>1. Shown
    BY <1>1, Untouched DEF CheckSave, WriteDraft, ReadDraft, WritePublished, ReadForDiscard,
       ClearDraft, RemoveArticle, LookForArticle, CreateDraft
  <2> QED BY <1>1, <2>1, CheckSaveServes, WriteDraftServes, PublishServes, OthersServe
<1> QED BY <1>1, SavedServes, AnsweredServes, RefusedServes DEF Service

-----------------------------------------------------------------------------
(***************************************************************************)
(* The first invariant: types; where each request may stand; a text on the  *)
(* screen has a copy under it; and there is a stamp left for every request  *)
(* that is to stamp the row.                                                *)
(***************************************************************************)
Desk(t) == page[t].working # None => cache[t].copy # None
Stamping == {c \in Calls : call[c].op \in {"publish", "create"} /\ call[c].at # "answer"}
Budget == clock + Cardinality(Stamping) <= MaxClock

OrderInv == Typed /\ (\A c \in Calls : Flow(c)) /\ (\A t \in Tabs : Desk(t)) /\ Budget

LEMMA CarriedTyped ==
    ASSUME Typed, \A c \in Calls : Flow(c)
    PROVE  /\ \A c \in Calls : Carried(c) \in Doc
           /\ Sending \in Doc
<1>1. ASSUME NEW c \in Calls
      PROVE  Carried(c) \in Doc
  <2>1. CASE call[c] # Idle /\ call[c].at \in {"check", "save"}
    <3>1. call[c].save \in Pending
      BY <2>1, CallTyped DEF Flow, Holds, Saving, CallRecs
    <3> QED BY <2>1, <3>1 DEF Carried, Pending
  <2>2. CASE ~(call[c] # Idle /\ call[c].at \in {"check", "save"})
    BY <2>2 DEF Carried, Doc
  <2> QED BY <2>1, <2>2
<1> QED BY <1>1 DEF Sending, Doc

LEMMA RowText ==
    ASSUME Typed
    PROVE  /\ Body \in Doc /\ Draft \in Doc
           /\ \A t \in Tabs : PendingDoc(t) \in Doc
<1>1. Body \in Doc /\ Draft \in Doc
  BY DEF Typed, Body, Draft, Text, Copy, Doc
<1>2. ASSUME NEW t \in Tabs
      PROVE  PendingDoc(t) \in Doc
  BY TabTyped DEF PendingDoc, PageStates, Pending, Doc
<1> QED BY <1>1, <1>2

LEMMA StampingCounted ==
    ASSUME Typed
    PROVE  IsFiniteSet(Stamping) /\ Cardinality(Stamping) \in Nat /\ clock \in Nat
<1>1. IsFiniteSet(Stamping)
  BY EditorAssumption, FS_Subset DEF Stamping
<1> QED BY <1>1, FS_CardinalityType, EditorAssumption DEF Typed

LEMMA BudgetStays ==
    ASSUME Typed, Budget, Stamping' \subseteq Stamping, clock' = clock
    PROVE  Budget'
<1>1. IsFiniteSet(Stamping) /\ Cardinality(Stamping) \in Nat /\ clock \in Nat
  BY StampingCounted
<1>2. Cardinality(Stamping') \in Nat /\ Cardinality(Stamping') <= Cardinality(Stamping)
  BY <1>1, FS_Subset, FS_CardinalityType
<1> QED BY <1>1, <1>2, EditorAssumption DEF Budget

LEMMA BudgetStarts ==
    ASSUME Typed, Budget, StampsLeft, NEW c \in Calls, clock' = clock,
           \A d \in Calls : d # c => call'[d] = call[d]
    PROVE  Budget'
<1> DEFINE all == {d \in Calls : call[d].op \in {"publish", "create"}}
<1>1. clock \in Nat
  BY StampingCounted
<1>2. IsFiniteSet(all) /\ Cardinality(all) \in Nat /\ clock + Cardinality(all) < MaxClock
  BY EditorAssumption, FS_Subset, FS_CardinalityType DEF StampsLeft
<1>3. Stamping' \subseteq all \cup {c}
  BY DEF Stamping
<1> HIDE DEF all
<1>4. /\ IsFiniteSet(all \cup {c}) /\ Cardinality(all \cup {c}) \in Nat
      /\ Cardinality(all \cup {c}) <= Cardinality(all) + 1
  <2>1. /\ IsFiniteSet(all \cup {c})
        /\ Cardinality(all \cup {c}) = IF c \in all THEN Cardinality(all) ELSE Cardinality(all) + 1
    BY <1>2, FS_AddElement
  <2> QED BY <1>2, <2>1
<1>5. Cardinality(Stamping') \in Nat /\ Cardinality(Stamping') <= Cardinality(all \cup {c})
  BY <1>3, <1>4, FS_Subset, FS_CardinalityType
<1> QED BY <1>1, <1>2, <1>4, <1>5, EditorAssumption DEF Budget

LEMMA StampIsLeft ==
    ASSUME Typed, Budget, NEW c \in Stamping
    PROVE  clock + 1 \in 1..MaxClock
<1>1. IsFiniteSet(Stamping) /\ Cardinality(Stamping) \in Nat /\ clock \in Nat
  BY StampingCounted
<1>2. Cardinality(Stamping) # 0
  BY <1>1, FS_EmptySet
<1> QED BY <1>1, <1>2, EditorAssumption DEF Budget

LEMMA BudgetSpent ==
    ASSUME Typed, Budget, NEW c \in Stamping, c \notin Stamping', Stamping' \subseteq Stamping,
           clock' = clock + 1
    PROVE  Budget'
<1>1. IsFiniteSet(Stamping) /\ Cardinality(Stamping) \in Nat /\ clock \in Nat
  BY StampingCounted
<1>2. /\ IsFiniteSet(Stamping \ {c})
      /\ Cardinality(Stamping \ {c}) = Cardinality(Stamping) - 1
      /\ Stamping' \subseteq Stamping \ {c}
  BY <1>1, FS_RemoveElement
<1>3. Cardinality(Stamping') \in Nat /\ Cardinality(Stamping') <= Cardinality(Stamping) - 1
  BY <1>2, FS_Subset, FS_CardinalityType
<1> QED BY <1>1, <1>3, EditorAssumption DEF Budget

-----------------------------------------------------------------------------
(* Who writes the row, the clock and the history.                            *)

LEMMA Writers ==
    ASSUME NEW c \in Calls, Service(c)
    PROVE  /\ typed' = typed
           /\ \/ UNCHANGED <<article, clock>>
              \/ WriteDraft(c) \/ WritePublished(c) \/ ClearDraft(c) \/ RemoveArticle(c)
              \/ CreateDraft(c)
           /\ clock' = clock \/ WritePublished(c) \/ CreateDraft(c)
           /\ \/ UNCHANGED forfeit
              \/ WriteDraft(c) \/ SaveFails(c) \/ WritePublished(c) \/ ClearDraft(c)
              \/ RemoveArticle(c)
BY DEF Service, CheckSave, WriteDraft, Saved, SaveFails, ReadDraft, WritePublished,
       ReadForDiscard, ClearDraft, RemoveArticle, LookForArticle, CreateDraft, Answered, Refused

LEMMA PublishedTyped ==
    ASSUME Typed, Budget, NEW c \in Calls, Flow(c), WritePublished(c)
    PROVE  /\ article' \in Copy /\ article' # None /\ clock' = clock + 1 /\ clock' \in 1..MaxClock
           /\ call[c] # Idle /\ call[c].got \in Copy /\ call[c].got.draft \in Doc
           /\ article \in Copy /\ article # None /\ c \in Stamping
           /\ article'.body = call[c].got.draft /\ article'.draft = None
           /\ article'.stamp = clock'
<1>1. /\ call[c] # Idle /\ call[c].op = "publish" /\ call[c].at = "publish"
      /\ article # None /\ clock' = clock + 1
  BY DEF WritePublished, Under, RowRemains, Idle
<1>2. /\ article \in Copy /\ c \in Stamping
      /\ call[c].got \in Copy /\ call[c].got.draft \in Doc
  BY <1>1, CallTyped DEF Flow, Holds, Stamping, CallRecs, Typed, Copy
<1> DEFINE n == clock'
<1>3. n \in 1..MaxClock
  BY <1>1, <1>2, StampIsLeft
<1>4. article' = [article EXCEPT !.body = call[c].got.draft, !.draft = None, !.stamp = n]
  BY DEF WritePublished
<1> HIDE DEF n
<1>5. \A b \in Doc :
         LET a == [article EXCEPT !.body = b, !.draft = None, !.stamp = n] IN
         a \in Copy /\ a.body = b /\ a.draft = None /\ a.stamp = n
  BY <1>2, <1>3 DEF Copy
<1>6. article' # None
  BY <1>2, <1>4, <1>5, Distinct
<1> QED BY <1>1, <1>2, <1>3, <1>4, <1>5, <1>6 DEF n

LEMMA DraftTyped ==
    ASSUME Typed, NEW c \in Calls, Flow(c), WriteDraft(c)
    PROVE  /\ article' \in Copy /\ article' # None
           /\ call[c] # Idle /\ call[c].save \in Pending /\ call[c].at = "save"
           /\ article \in Copy /\ article # None
           /\ article'.body = article.body /\ article'.draft = call[c].save.doc
           /\ article'.stamp = article.stamp
<1>1. article \in Copy /\ article # None
  BY DEF WriteDraft, RowRemains, Typed
<1>2. call[c] # Idle /\ call[c].save \in Pending /\ call[c].at = "save"
  BY WriteDraftServes DEF ServedOnly
<1>3. article' = [article EXCEPT !.draft = call[c].save.doc] /\ call[c].save.doc \in Doc
  BY <1>2 DEF WriteDraft, Pending
<1>4. \A x \in Doc :
         LET a == [article EXCEPT !.draft = x] IN
         a \in Copy /\ a.body = article.body /\ a.draft = x /\ a.stamp = article.stamp
  BY <1>1 DEF Copy
<1> QED BY <1>1, <1>2, <1>3, <1>4, Distinct

LEMMA ClearTyped ==
    ASSUME Typed, NEW c \in Calls, ClearDraft(c)
    PROVE  /\ article' \in Copy /\ article' # None /\ article \in Copy /\ article # None
           /\ article'.body = article.body /\ article'.draft = None
           /\ article'.stamp = article.stamp
<1>1. article \in Copy /\ article # None
  BY DEF ClearDraft, RowRemains, Typed
<1>2. article' = [article EXCEPT !.draft = None]
  BY DEF ClearDraft
<1> QED BY <1>1, <1>2, Distinct DEF Copy

LEMMA RowTyped ==
    ASSUME Typed, Budget, NEW c \in Calls, Flow(c), Service(c)
    PROVE  article' \in {None} \cup Copy /\ clock' \in 0..MaxClock
<1>1. article \in {None} \cup Copy /\ clock \in 0..MaxClock
  BY DEF Typed
<1>2. CASE UNCHANGED <<article, clock>>
  BY <1>1, <1>2
<1>3. CASE WriteDraft(c)
  BY <1>1, <1>3, DraftTyped DEF WriteDraft
<1>4. CASE WritePublished(c)
  BY <1>4, PublishedTyped, EditorAssumption
<1>5. CASE ClearDraft(c)
  BY <1>1, <1>5, ClearTyped DEF ClearDraft
<1>6. CASE RemoveArticle(c)
  BY <1>1, <1>6 DEF RemoveArticle
<1>7. CASE CreateDraft(c)
  <2>1. c \in Stamping /\ clock' = clock + 1
    BY <1>7 DEF CreateDraft, Under, Stamping
  <2>2. clock' \in 1..MaxClock
    BY <2>1, StampIsLeft
  <2> QED BY <1>7, <2>2, EditorAssumption DEF CreateDraft, Copy, Doc
<1> QED BY <1>2, <1>3, <1>4, <1>5, <1>6, <1>7, Writers

LEMMA ForfeitTyped ==
    ASSUME Typed, NEW c \in Calls, Flow(c), Service(c)
    PROVE  forfeit' \subseteq Edits
<1>1. Body \subseteq Edits /\ Draft \subseteq Edits
  BY RowText DEF Doc
<1>2. CASE WriteDraft(c)
  BY <1>1, <1>2 DEF WriteDraft, Forfeit, Typed
<1>3. CASE SaveFails(c)
  BY <1>3, SavedServes DEF SaveFails, Forfeit, Typed, Pending, Doc
<1>4. CASE WritePublished(c)
  BY <1>1, <1>4 DEF WritePublished, Forfeit, Typed
<1>5. CASE ClearDraft(c) \/ RemoveArticle(c)
  BY <1>1, <1>5 DEF ClearDraft, RemoveArticle, Forfeit, Typed
<1> QED BY <1>2, <1>3, <1>4, <1>5, Writers DEF Typed

-----------------------------------------------------------------------------
(* The first invariant, step by step.                                        *)

\* A request that is to stamp goes on to, or has stamped.
LEMMA ServiceStamps ==
    ASSUME Typed, NEW c \in Calls, Flow(c), Service(c)
    PROVE  /\ Stamping' \subseteq Stamping
           /\ WritePublished(c) \/ CreateDraft(c) =>
                 clock' = clock + 1 /\ c \in Stamping /\ c \notin Stamping'
<1>1. ServedOnly(c) /\ Idle.op \notin {"publish", "create"}
  BY ServiceServes DEF Idle
<1>2. ASSUME call[c].at = "answer"
      PROVE  call'[c] = Idle
  <2>1. CASE Answered(c) \/ Refused(c)
    BY <2>1, AnsweredServes, RefusedServes
  <2>2. CASE Saved(c) \/ SaveFails(c)
    BY <1>2, <2>2 DEF Saved, SaveFails, Under
  <2>3. CASE ~(Answered(c) \/ Refused(c) \/ Saved(c) \/ SaveFails(c))
    BY <1>2, <2>3 DEF Service, CheckSave, WriteDraft, ReadDraft, WritePublished, ReadForDiscard,
       ClearDraft, RemoveArticle, LookForArticle, CreateDraft, Under
  <2> QED BY <2>1, <2>2, <2>3
<1>3. Stamping' \subseteq Stamping
  BY <1>1, <1>2 DEF Stamping, ServedOnly, Served
<1>4. ASSUME WritePublished(c) \/ CreateDraft(c)
      PROVE  clock' = clock + 1 /\ c \in Stamping /\ c \notin Stamping'
  <2>1. clock' = clock + 1 /\ c \in Stamping
    BY <1>4 DEF WritePublished, CreateDraft, Under, Stamping
  <2>2. call'[c] # Idle => call'[c].at = "answer"
    BY <1>4, PublishServes, OthersServe
  <2> QED BY <1>1, <2>1, <2>2 DEF Stamping
<1> QED BY <1>3, <1>4

LEMMA OrderOfService ==
    ASSUME OrderInv, NEW c \in Calls, Service(c)
    PROVE  OrderInv'
<1>1. Typed /\ Flow(c) /\ Budget /\ ServedOnly(c) /\ Shown
  BY ServiceServes DEF OrderInv
<1>2. Typed'
  <2>1. typed' = typed /\ forfeit' \subseteq Edits
    BY <1>1, Writers, ForfeitTyped
  <2>2. article' \in {None} \cup Copy /\ clock' \in 0..MaxClock
    BY <1>1, RowTyped
  <2> QED BY <1>1, <2>1, <2>2 DEF Typed, ServedOnly, Shown, Tabbed
<1>3. ASSUME NEW d \in Calls
      PROVE  Flow(d)'
  <2> SUFFICES ASSUME call'[d] # Idle
               PROVE  Holds(call'[d]) /\ (call'[d].from = "page" => page'[call'[d].tab].on)
    BY DEF Flow, Holds
  <2>1. /\ call[d] # Idle /\ Flow(d) /\ Holds(call'[d])
        /\ call'[d].tab = call[d].tab /\ call'[d].from = call[d].from
    <3>1. CASE d = c
      BY <1>1, <3>1 DEF ServedOnly, Served
    <3>2. CASE d # c
      BY <1>1, <3>2 DEF ServedOnly, OrderInv, Flow
    <3> QED BY <3>1, <3>2
  <2>2. call[d].tab \in Tabs
    BY <1>1, <2>1, CallTyped DEF CallRecs
  <2> QED BY <1>1, <2>1, <2>2 DEF Flow, Shown, SameText
<1>4. \A t \in Tabs : Desk(t)'
  BY <1>1 DEF Desk, OrderInv, Shown, SameText, CopyKept
<1>5. Budget'
  <2>1. CASE clock' = clock
    BY <1>1, <2>1, ServiceStamps, BudgetStays
  <2>2. CASE WritePublished(c) \/ CreateDraft(c)
    BY <1>1, <2>2, ServiceStamps, BudgetSpent
  <2> QED BY <2>1, <2>2, Writers
<1> QED BY <1>2, <1>3, <1>4, <1>5 DEF OrderInv

\* What a person or the browser does leaves the row and the clock.
Beside == /\ UNCHANGED <<article, clock>> /\ Tabbed
          /\ typed' \subseteq Edits /\ forfeit' \subseteq Edits
          /\ \A t \in Tabs : Desk(t)'

LEMMA OrderOfTab ==
    ASSUME OrderInv, Beside, call' = call, \A t \in Tabs : page[t].on => page'[t].on
    PROVE  OrderInv'
<1>1. Typed'
  BY DEF OrderInv, Beside, Typed, Tabbed
<1>2. ASSUME NEW c \in Calls
      PROVE  Flow(c)'
  <2>1. call[c] # Idle => call[c].tab \in Tabs
    BY CallTyped DEF OrderInv, CallRecs
  <2> QED BY <2>1 DEF OrderInv, Flow, Holds
<1>3. Budget'
  BY DEF OrderInv, Beside, Budget, Stamping
<1> QED BY <1>1, <1>2, <1>3 DEF OrderInv, Beside

LEMMA OrderOfPress ==
    ASSUME OrderInv, Beside, NEW c \in Calls, NEW r, Sends(c, r), Holds(r), r.from = "page",
           \A t \in Tabs : page[t].on => page'[t].on, page'[r.tab].on,
           r.op \in {"publish", "create"} => StampsLeft
    PROVE  OrderInv'
<1>1. Typed'
  BY DEF OrderInv, Beside, Typed, Tabbed, Sends, CallTo
<1>2. ASSUME NEW d \in Calls
      PROVE  Flow(d)'
  <2>1. CASE d = c
    BY <2>1 DEF Sends, CallTo, Flow, Holds
  <2>2. CASE d # c
    <3>1. call'[d] = call[d] /\ Flow(d) /\ (call[d] # Idle => call[d].tab \in Tabs)
      BY <2>2, CallTyped DEF OrderInv, CallRecs, Sends, CallTo
    <3> QED BY <3>1 DEF Flow, Holds
  <2> QED BY <2>1, <2>2
<1>3. Budget'
  <2>1. Typed /\ Budget /\ clock' = clock /\ \A d \in Calls : d # c => call'[d] = call[d]
    BY DEF OrderInv, Beside, Sends, CallTo
  <2>2. CASE r.op \in {"publish", "create"}
    BY <2>1, <2>2, BudgetStarts
  <2>3. CASE r.op \notin {"publish", "create"}
    <3>1. Stamping' \subseteq Stamping
      BY <2>3 DEF Stamping, Sends, CallTo
    <3> QED BY <2>1, <3>1, BudgetStays
  <2> QED BY <2>2, <2>3
<1> QED BY <1>1, <1>2, <1>3 DEF OrderInv, Beside

\* A page that goes: what it sent no longer answers to it.
LEMMA OrderOfGone ==
    ASSUME OrderInv, Beside, NEW t \in Tabs, Elsewise(t), call' \in [Calls -> CallStates],
           \A c \in Calls : call'[c] # Idle =>
              /\ Holds(call'[c])
              /\ call'[c].op \in {"publish", "create"} => 
                    call[c].op = call'[c].op /\ call[c].at = call'[c].at
              /\ call'[c].from = "page" =>
                    /\ call[c] # Idle /\ call[c].from = "page"
                    /\ call'[c].tab = call[c].tab /\ call[c].tab # t
    PROVE  OrderInv'
<1>1. Typed'
  BY DEF OrderInv, Beside, Typed, Tabbed
<1>2. ASSUME NEW c \in Calls
      PROVE  Flow(c)'
  <2> SUFFICES ASSUME call'[c] # Idle
               PROVE  Holds(call'[c]) /\ (call'[c].from = "page" => page'[call'[c].tab].on)
    BY DEF Flow, Holds
  <2>1. call[c] # Idle => call[c].tab \in Tabs
    BY CallTyped DEF OrderInv, CallRecs
  <2> QED BY <2>1 DEF OrderInv, Flow, Elsewise
<1>3. Stamping' \subseteq Stamping
  <2>1. Idle.op \notin {"publish", "create"}
    BY DEF Idle
  <2> QED BY <2>1 DEF Stamping
<1>4. Budget'
  BY <1>3, BudgetStays DEF OrderInv, Beside
<1> QED BY <1>1, <1>2, <1>4 DEF OrderInv, Beside

\* Leaving a page, with or without a last save.
LEMMA OrderOfUnmount ==
    ASSUME OrderInv, UNCHANGED <<article, clock, typed, forfeit>>, NEW t \in Tabs,
           NEW calls \in [Calls -> CallStates], Unmount(t, calls),
           \A c \in Calls : \/ calls[c] = call[c]
                            \/ /\ Holds(calls[c]) /\ calls[c].op = "save" /\ calls[c].tab = t
    PROVE  OrderInv'
<1>1. /\ Tabbed /\ Elsewise(t) /\ CopyKept(t) /\ page'[t] = Blank /\ call' \in [Calls -> CallStates]
      /\ \A c \in Calls : \/ calls[c] = Idle /\ call'[c] = Idle
                        \/ /\ Same(calls[c], call'[c])
                           /\ call'[c].from = "page" => calls[c].from = "page" /\ calls[c].tab # t
  BY UnmountDoes DEF OrderInv
<1>2. Beside
  BY <1>1 DEF Beside, OrderInv, Typed, Elsewise, Desk, Blank
<1>3. ASSUME NEW c \in Calls, call'[c] # Idle
      PROVE  /\ Holds(call'[c])
             /\ call'[c].op \in {"publish", "create"} => 
                   call[c].op = call'[c].op /\ call[c].at = call'[c].at
             /\ call'[c].from = "page" =>
                   /\ call[c] # Idle /\ call[c].from = "page"
                   /\ call'[c].tab = call[c].tab /\ call[c].tab # t
  <2>1. /\ Same(calls[c], call'[c])
        /\ call'[c].from = "page" => calls[c].from = "page" /\ calls[c].tab # t
    BY <1>1, <1>3
  <2>2. Holds(calls[c])
    BY <2>1 DEF Same, OrderInv, Flow
  <2>3. Holds(call'[c])
    BY <2>1, <2>2 DEF Same, Holds
  <2> QED BY <2>1, <2>3 DEF Same
<1> QED BY <1>1, <1>2, <1>3, OrderOfGone

LEMMA LastSave ==
    ASSUME Typed, NEW t \in Tabs, NEW c \in Calls, LeaveFlushing(t, c)
    PROVE  LET r == NewCall("save", t, "check", page[t].pending)
               calls == [call EXCEPT ![c] = r] IN
           /\ call[c] = Idle /\ Unmount(t, calls) /\ calls \in [Calls -> CallStates]
           /\ calls[c] = r /\ r \in CallRecs /\ Holds(r) /\ r.op = "save" /\ r.tab = t
           /\ r.save = page[t].pending /\ r.at = "check" /\ r.shown = {}
           /\ page[t].pending # None
           /\ \A d \in Calls : d # c => calls[d] = call[d]
<1> DEFINE r == NewCall("save", t, "check", page[t].pending)
<1>1. page[t].pending \in Pending /\ page[t].pending # None
  BY TabTyped DEF LeaveFlushing, PageStates
<1>2. r \in CallRecs
  BY <1>1, NewCallTyped DEF Ops, Steps, Saving
<1>3. Holds(r) /\ r.op = "save" /\ r.tab = t /\ r.save = page[t].pending /\ r.at = "check" /\ r.shown = {}
  BY <1>1 DEF NewCall, Holds, StepsOf, Saving
<1>4. call[c] = Idle /\ Unmount(t, [call EXCEPT ![c] = r])
  BY DEF LeaveFlushing, MayStart
<1> HIDE DEF r
<1>5. /\ [call EXCEPT ![c] = r] \in [Calls -> CallStates] /\ [call EXCEPT ![c] = r][c] = r
      /\ \A d \in Calls : d # c => [call EXCEPT ![c] = r][d] = call[d]
  BY <1>2 DEF Typed, CallStates
<1> QED BY <1>1, <1>2, <1>3, <1>4, <1>5 DEF r

LEMMA OrderOfPage ==
    ASSUME OrderInv, NEW t \in Tabs,
           \/ Visit(t) \/ CacheExpires(t) \/ Elsewhere(t) \/ Fetching(t) \/ CancelDialog(t)
           \/ \E dialog \in {"publish", "discard"} : OpenDialog(t, dialog)
           \/ \E e \in Edits : Type(t, e)
    PROVE  OrderInv'
<1>1. Typed /\ (\A u \in Tabs : Desk(u)) /\ forfeit \subseteq Edits /\ typed \subseteq Edits
  BY DEF OrderInv, Typed
<1>2. ASSUME Tabbed, Elsewise(t), Desk(t)', page[t].on => page'[t].on, call' = call,
             UNCHANGED <<article, clock>>, typed' \subseteq Edits, forfeit' \subseteq Edits
      PROVE  OrderInv'
  BY <1>1, <1>2, OrderOfTab DEF Beside, Desk, Elsewise
<1>3. \A k \in {None} \cup Copy : Resumed(k) # None => k # None
  BY ResumedTyped
<1>4. cache[t].copy \in {None} \cup Copy /\ cache[t].got \in {None} \cup Copy
  BY <1>1, TabTyped DEF CacheStates
<1>5. CASE Visit(t)
  <2>1. Desk(t)'
    BY <1>1, <1>3, <1>4, <1>5, VisitDoes DEF Desk, CopyKept, Reseeded
  <2> QED BY <1>1, <1>2, <1>5, <2>1, VisitDoes DEF Visit
<1>6. CASE CacheExpires(t)
  <2>1. Desk(t)'
    BY <1>1, <1>6, CacheExpiresDoes DEF Desk, Blank
  <2> QED BY <1>1, <1>2, <1>6, <2>1, CacheExpiresDoes DEF CacheExpires
<1>7. CASE Elsewhere(t)
  <2>1. Desk(t)'
    BY <1>1, <1>7, ElsewhereDoes DEF Desk, CopyKept
  <2> QED BY <1>1, <1>2, <1>7, <2>1, ElsewhereDoes DEF Elsewhere
<1>8. CASE ReadCopy(t)
  <2>1. Desk(t)'
    BY <1>1, <1>8, ReadCopyDoes DEF Desk
  <2> QED BY <1>1, <1>2, <1>8, <2>1, ReadCopyDoes DEF ReadCopy
<1>9. CASE Arrive(t)
  <2>1. Desk(t)'
    BY <1>1, <1>3, <1>4, <1>9, ArriveDoes DEF Desk, Reseeded, Blank
  <2> QED BY <1>1, <1>2, <1>9, <2>1, ArriveDoes DEF Arrive
<1>10. CASE FetchFails(t)
  <2>1. Desk(t)'
    BY <1>1, <1>10, FetchFailsDoes DEF Desk, CopyKept
  <2> QED BY <1>1, <1>2, <1>10, <2>1, FetchFailsDoes DEF FetchFails
<1>11. ASSUME NEW dialog \in {"publish", "discard"}, OpenDialog(t, dialog) \/ CancelDialog(t)
       PROVE  OrderInv'
  <2>1. Tabbed /\ Elsewise(t) /\ SameText(t) /\ cache' = cache
    BY <1>1, <1>11, DialogDoes
  <2>2. Desk(t)'
    BY <1>1, <2>1 DEF Desk, SameText
  <2>3. call' = call /\ UNCHANGED <<article, clock, typed, forfeit>>
    BY <1>11 DEF OpenDialog, CancelDialog
  <2> QED BY <1>1, <1>2, <2>1, <2>2, <2>3 DEF SameText
<1>12. ASSUME NEW e \in Edits, Type(t, e)
       PROVE  OrderInv'
  <2>1. cache[t].copy # None
    BY <1>1, <1>12 DEF Type, Desk
  <2>2. Desk(t)'
    BY <1>1, <1>12, <2>1, TypeDoes DEF Desk
  <2>3. /\ call' = call /\ UNCHANGED <<article, clock>>
        /\ typed' = typed \cup {e} /\ forfeit' \subseteq forfeit \cup PendingDoc(t)
    BY <1>12 DEF Type, Forfeit
  <2>4. PendingDoc(t) \subseteq Edits
    BY <1>1, RowText DEF Doc
  <2> QED BY <1>1, <1>2, <1>12, <2>1, <2>2, <2>3, <2>4, TypeDoes
<1> QED BY <1>5, <1>6, <1>7, <1>8, <1>9, <1>10, <1>11, <1>12 DEF Fetching

LEMMA OrderOfPerson ==
    ASSUME OrderInv, NEW t \in Tabs, NEW c \in Calls,
           \/ Autosave(t, c) \/ PressPublish(t, c) \/ PressCreate(t, c)
           \/ \E op \in {"discard", "drop"} : PressDiscard(t, c, op)
    PROVE  OrderInv'
<1>1. Typed /\ (\A u \in Tabs : Desk(u)) /\ forfeit \subseteq Edits /\ typed \subseteq Edits
  BY DEF OrderInv, Typed
<1>2. ASSUME NEW r, Tabbed, Elsewise(t), cache' = cache, page'[t].on,
             page'[t].working = page[t].working, Sends(c, r), Holds(r), r.from = "page", r.tab = t,
             r.op \in {"publish", "create"} => StampsLeft,
             UNCHANGED <<article, clock>>, typed' = typed, forfeit' \subseteq Edits
      PROVE  OrderInv'
  <2>1. Beside /\ \A u \in Tabs : page[u].on => page'[u].on
    BY <1>1, <1>2 DEF Beside, Desk, Elsewise
  <2> QED BY <1>2, <2>1, OrderOfPress
<1>3. CASE Autosave(t, c)
  <2> DEFINE r == NewCall("save", t, "check", page[t].pending)
  <2>1. Holds(r) /\ r.from = "page" /\ r.tab = t /\ r.op = "save"
    BY <1>3 DEF NewCall, Holds, StepsOf, Saving, Autosave
  <2>2. Sends(c, r)
    BY <1>1, <1>3, AutosaveDoes
  <2> HIDE DEF r
  <2> QED BY <1>1, <1>2, <1>3, <2>1, <2>2, AutosaveDoes DEF Autosave
<1>4. CASE PressPublish(t, c)
  <2>1. Sending \in Doc
    BY CarriedTyped DEF OrderInv
  <2>2. PICK r : /\ Sends(c, r) /\ r.op = "publish" /\ r.tab = t /\ r.from = "page"
                 /\ r.at = IF page[t].pending = None THEN "read" ELSE "check"
                 /\ r.save = page[t].pending
    BY <1>1, <1>4, <2>1, PressPublishDoes
  <2>3. Holds(r)
    BY <2>2 DEF Holds, StepsOf, Saving
  <2> QED BY <1>1, <1>2, <1>4, <2>1, <2>2, <2>3, PressPublishDoes DEF PressPublish
<1>5. ASSUME NEW op \in {"discard", "drop"}, PressDiscard(t, c, op)
      PROVE  OrderInv'
  <2> DEFINE r == NewCall(op, t, "inspect", None)
  <2>1. Holds(r) /\ r.from = "page" /\ r.tab = t /\ r.op = op
    BY DEF NewCall, Holds, StepsOf, Saving
  <2>2. Sends(c, r)
    BY <1>1, <1>5, PressDiscardDoes
  <2>3. forfeit' \subseteq Edits
    <3>1. PendingDoc(t) \subseteq Edits
      BY <1>1, RowText DEF Doc
    <3> QED BY <1>1, <1>5, <3>1 DEF PressDiscard, Forfeit
  <2> HIDE DEF r
  <2> QED BY <1>1, <1>2, <1>5, <2>1, <2>2, <2>3, PressDiscardDoes DEF PressDiscard
<1>6. CASE PressCreate(t, c)
  <2> DEFINE r == NewCall("create", t, "look", None)
  <2>1. Holds(r) /\ r.from = "page" /\ r.tab = t /\ r.op = "create"
    BY DEF NewCall, Holds, StepsOf, Saving
  <2>2. Sends(c, r) /\ Tabbed /\ page' = page /\ cache' = cache /\ page[t].on
    BY <1>1, <1>6, PressCreateDoes
  <2>3. Elsewise(t)
    BY <2>2 DEF Elsewise
  <2> HIDE DEF r
  <2> QED BY <1>1, <1>2, <1>6, <2>1, <2>2, <2>3 DEF PressCreate
<1> QED BY <1>3, <1>4, <1>5, <1>6

LEMMA OrderOfLeaving ==
    ASSUME OrderInv, NEW t \in Tabs,
           Leave(t) \/ CloseTab(t) \/ \E c \in Calls : LeaveFlushing(t, c)
    PROVE  OrderInv'
<1>1. Typed /\ (\A u \in Tabs : Desk(u)) /\ forfeit \subseteq Edits /\ typed \subseteq Edits
  BY DEF OrderInv, Typed
<1>2. CASE Leave(t)
  <2>1. call \in [Calls -> CallStates] /\ Unmount(t, call)
    BY <1>1, <1>2 DEF Leave, Typed
  <2>2. UNCHANGED <<article, clock, typed, forfeit>>
    BY <2>1 DEF Unmount
  <2> QED BY <2>1, <2>2, OrderOfUnmount
<1>3. ASSUME NEW c \in Calls, LeaveFlushing(t, c)
      PROVE  OrderInv'
  <2> DEFINE r == NewCall("save", t, "check", page[t].pending)
             calls == [call EXCEPT ![c] = r]
  <2>1. /\ Unmount(t, calls) /\ calls \in [Calls -> CallStates]
        /\ \A d \in Calls : \/ calls[d] = call[d]
                            \/ Holds(calls[d]) /\ calls[d].op = "save" /\ calls[d].tab = t
    BY <1>1, <1>3, LastSave
  <2>2. UNCHANGED <<article, clock, typed, forfeit>>
    BY <2>1 DEF Unmount
  <2> HIDE DEF calls
  <2> QED BY <2>1, <2>2, OrderOfUnmount
<1>4. CASE CloseTab(t)
  <2>1. /\ UNCHANGED <<article, clock, typed>> /\ forfeit' \subseteq Edits
    <3>1. PendingDoc(t) \subseteq Edits
      BY <1>1, RowText DEF Doc
    <3> QED BY <1>1, <1>4, <3>1 DEF CloseTab, Forfeit
  <2>2. Tabbed /\ Elsewise(t) /\ page'[t] = Blank /\ call' \in [Calls -> CallStates]
    BY <1>1, <1>4, CloseTabDoes
  <2>3. Beside
    BY <1>1, <2>1, <2>2 DEF Beside, Elsewise, Desk, Blank
  <2>4. ASSUME NEW c \in Calls, call'[c] # Idle
        PROVE  /\ Holds(call'[c])
               /\ call'[c].op \in {"publish", "create"} => 
                     call[c].op = call'[c].op /\ call[c].at = call'[c].at
               /\ call'[c].from = "page" =>
                     /\ call[c] # Idle /\ call[c].from = "page"
                     /\ call'[c].tab = call[c].tab /\ call[c].tab # t
    <3>1. call[c] # Idle => Holds(call[c])
      BY DEF OrderInv, Flow
    <3>2. CASE Same(call[c], call'[c]) /\ call'[c].from = call[c].from /\ call[c].tab # t
      BY <3>1, <3>2 DEF Same, Holds
    <3>3. CASE Same(call[c], call'[c]) /\ call'[c].from = "gone"
      BY <3>1, <3>3 DEF Same, Holds
    <3>4. CASE /\ call'[c] \in CallRecs /\ call[c] # Idle
               /\ call'[c].op = "save" /\ call'[c].tab = call[c].tab /\ call'[c].from = "gone"
               /\ call[c].at \in {"check", "save"} /\ call'[c].at = call[c].at
               /\ call'[c].save = call[c].save /\ call'[c].shown = {}
      BY <3>1, <3>4 DEF Holds, StepsOf, Saving
    <3> QED BY <1>1, <1>4, <2>4, <3>2, <3>3, <3>4, CloseTabDoes
  <2> QED BY <2>2, <2>3, <2>4, OrderOfGone
<1> QED BY <1>2, <1>3, <1>4

LEMMA OrderNext ==
    ASSUME OrderInv, [Next]_vars
    PROVE  OrderInv'
<1>1. CASE UNCHANGED vars
  BY <1>1 DEF vars, OrderInv, Typed, Flow, Holds, Desk, Budget, Stamping
<1>2. CASE Next
  BY <1>2, OrderOfService, OrderOfPage, OrderOfPerson, OrderOfLeaving DEF Next
<1> QED BY <1>1, <1>2

LEMMA OrderInit == Init => OrderInv
<1> SUFFICES ASSUME Init PROVE OrderInv
  OBVIOUS
<1>1. Blank \in PageStates /\ Cold \in CacheStates /\ Idle \in CallStates /\ ~Blank.on
  BY BlankTyped DEF Blank
<1>2. article \in {None} \cup Copy /\ clock \in 0..MaxClock
  BY EditorAssumption DEF Init, Copy, Doc
<1>3. Typed
  BY <1>1, <1>2 DEF Init, Typed
<1>4. \A c \in Calls : Flow(c)
  BY DEF Init, Flow
<1>5. \A t \in Tabs : Desk(t)
  BY DEF Init, Desk, Blank
<1>6. Stamping = {}
  BY DEF Init, Stamping, Idle
<1>7. Budget
  BY <1>2, <1>6, FS_EmptySet, EditorAssumption DEF Budget
<1> QED BY <1>3, <1>4, <1>5, <1>7 DEF OrderInv

\* Every row, tab and request keeps its type, whatever crosses: no publication
\* or creation finds the stamps used up, and a page that was left keeps no state
\* (the columns of TroubleshootingArticle, the state of useArticleEditor).
THEOREM EditorIsTyped == Spec => []TypeOK
<1>1. OrderInv => TypeOK
  BY TypedIsTypeOK DEF OrderInv
<1>2. OrderInv /\ [Next]_vars => OrderInv'
  BY OrderNext
<1> QED BY <1>1, <1>2, OrderInit, PTL DEF Spec

-----------------------------------------------------------------------------
(***************************************************************************)
(* Where the texts of the next state come from.                            *)
(***************************************************************************)
InHand(c) == call[c] # Idle /\ call[c].at \in {"check", "save"}

Extended(t) ==
    /\ \E e \in Edits : page'[t].working = page[t].working \cup {e}
    /\ page'[t].working # None
    /\ page'[t].pending = [doc |-> page'[t].working, seen |-> cache'[t].copy.stamp]

PageFollows(t) ==
    /\ cache'[t].copy \in {None, cache[t].copy, cache[t].got}
    /\ cache'[t].got \in {None, cache[t].got, article}
    /\ \/ page'[t].working \in {None, Resumed(cache'[t].copy)}
       \/ page'[t].working = page[t].working /\ cache'[t].copy = cache[t].copy
       \/ page[t].working # None /\ cache'[t].copy = cache[t].copy /\ Extended(t)
    /\ page'[t].pending \in {None, page[t].pending} \/ Extended(t)

CallFollows(c) ==
    InHand(c)' =>
        \/ InHand(c) /\ call'[c].save = call[c].save
        \/ \E t \in Tabs : call'[c].save = page[t].pending

Follows == (\A t \in Tabs : PageFollows(t)) /\ (\A c \in Calls : CallFollows(c))

LEMMA FollowsOne ==
    ASSUME NEW t \in Tabs, Elsewise(t), PageFollows(t)
    PROVE  \A u \in Tabs : PageFollows(u)
BY DEF Elsewise, PageFollows

LEMMA FollowsSend ==
    ASSUME NEW t \in Tabs, NEW c \in Calls, NEW r, Sends(c, r),
           r.at \in {"check", "save"} => r.save = page[t].pending
    PROVE  \A d \in Calls : CallFollows(d)
BY DEF Sends, CallTo, CallFollows, InHand

LEMMA ServiceFollows ==
    ASSUME OrderInv, NEW c \in Calls, Service(c)
    PROVE  Follows
<1>1. ServedOnly(c) /\ Shown
  BY ServiceServes DEF OrderInv
<1>2. \A t \in Tabs : PageFollows(t)
  BY <1>1 DEF Shown, SameText, CopyKept, PageFollows
<1>3. \A d \in Calls : CallFollows(d)
  BY <1>1 DEF ServedOnly, Served, CallFollows, InHand
<1> QED BY <1>2, <1>3 DEF Follows

LEMMA PageStepFollows ==
    ASSUME OrderInv, NEW t \in Tabs,
           \/ Visit(t) \/ CacheExpires(t) \/ Elsewhere(t) \/ Fetching(t) \/ CancelDialog(t)
           \/ \E dialog \in {"publish", "discard"} : OpenDialog(t, dialog)
           \/ \E e \in Edits : Type(t, e)
    PROVE  Follows
<1>1. Typed /\ Desk(t)
  BY DEF OrderInv
<1>2. ASSUME call' = call, Elsewise(t), PageFollows(t)
      PROVE  Follows
  BY <1>2, FollowsOne DEF Follows, CallFollows, InHand
<1>3. CASE Visit(t)
  <2>1. PageFollows(t)
    BY <1>1, <1>3, VisitDoes DEF PageFollows, CopyKept, Reseeded
  <2> QED BY <1>1, <1>2, <1>3, <2>1, VisitDoes DEF Visit
<1>4. CASE CacheExpires(t)
  <2>1. PageFollows(t)
    BY <1>1, <1>4, CacheExpiresDoes DEF PageFollows, Blank, Cold
  <2> QED BY <1>1, <1>2, <1>4, <2>1, CacheExpiresDoes DEF CacheExpires
<1>5. CASE Elsewhere(t)
  <2>1. PageFollows(t)
    BY <1>1, <1>5, ElsewhereDoes DEF PageFollows, CopyKept
  <2> QED BY <1>1, <1>2, <1>5, <2>1, ElsewhereDoes DEF Elsewhere
<1>6. CASE ReadCopy(t)
  <2>1. PageFollows(t)
    BY <1>1, <1>6, ReadCopyDoes DEF PageFollows
  <2> QED BY <1>1, <1>2, <1>6, <2>1, ReadCopyDoes DEF ReadCopy
<1>7. CASE Arrive(t)
  <2>1. PageFollows(t)
    BY <1>1, <1>7, ArriveDoes DEF PageFollows, Reseeded, Blank
  <2> QED BY <1>1, <1>2, <1>7, <2>1, ArriveDoes DEF Arrive
<1>8. CASE FetchFails(t)
  <2>1. PageFollows(t)
    BY <1>1, <1>8, FetchFailsDoes DEF PageFollows, CopyKept
  <2> QED BY <1>1, <1>2, <1>8, <2>1, FetchFailsDoes DEF FetchFails
<1>9. ASSUME NEW dialog \in {"publish", "discard"}, OpenDialog(t, dialog) \/ CancelDialog(t)
      PROVE  Follows
  <2>1. Elsewise(t) /\ SameText(t) /\ cache' = cache
    BY <1>1, <1>9, DialogDoes
  <2>2. PageFollows(t)
    BY <2>1 DEF PageFollows, SameText
  <2>3. call' = call
    BY <1>9 DEF OpenDialog, CancelDialog
  <2> QED BY <1>2, <2>1, <2>2, <2>3
<1>10. ASSUME NEW e \in Edits, Type(t, e)
       PROVE  Follows
  <2>1. cache[t].copy # None /\ page[t].working # None
    BY <1>1, <1>10 DEF Type, Desk
  <2>2. PageFollows(t)
    <3>1. /\ cache' = cache /\ page'[t].working = page[t].working \cup {e}
          /\ page'[t].working # None
          /\ page'[t].pending = [doc |-> page'[t].working, seen |-> cache[t].copy.stamp]
      BY <1>1, <1>10, <2>1, TypeDoes, Distinct
    <3> QED BY <2>1, <3>1 DEF PageFollows, Extended
  <2>3. call' = call
    BY <1>10 DEF Type
  <2> QED BY <1>1, <1>2, <1>10, <2>1, <2>2, <2>3, TypeDoes
<1> QED BY <1>3, <1>4, <1>5, <1>6, <1>7, <1>8, <1>9, <1>10 DEF Fetching

LEMMA PersonFollows ==
    ASSUME OrderInv, NEW t \in Tabs, NEW c \in Calls,
           \/ Autosave(t, c) \/ PressPublish(t, c) \/ PressCreate(t, c)
           \/ \E op \in {"discard", "drop"} : PressDiscard(t, c, op)
    PROVE  Follows
<1>1. Typed /\ Sending \in Doc
  BY CarriedTyped DEF OrderInv
<1>2. ASSUME NEW r, Sends(c, r), r.at \in {"check", "save"} => r.save = page[t].pending,
             Elsewise(t), cache' = cache, page'[t].working = page[t].working,
             page'[t].pending \in {None, page[t].pending}
      PROVE  Follows
  <2>1. PageFollows(t)
    BY <1>2 DEF PageFollows
  <2> QED BY <1>2, <2>1, FollowsOne, FollowsSend DEF Follows
<1>3. CASE Autosave(t, c)
  <2> DEFINE r == NewCall("save", t, "check", page[t].pending)
  <2>1. Sends(c, r) /\ r.save = page[t].pending
    BY <1>1, <1>3, AutosaveDoes DEF NewCall
  <2> HIDE DEF r
  <2> QED BY <1>1, <1>2, <1>3, <2>1, AutosaveDoes
<1>4. CASE PressPublish(t, c)
  <2>1. PICK r : Sends(c, r) /\ r.save = page[t].pending
    BY <1>1, <1>4, PressPublishDoes
  <2> QED BY <1>1, <1>2, <1>4, <2>1, PressPublishDoes
<1>5. ASSUME NEW op \in {"discard", "drop"}, PressDiscard(t, c, op)
      PROVE  Follows
  <2> DEFINE r == NewCall(op, t, "inspect", None)
  <2>1. Sends(c, r) /\ r.at \notin {"check", "save"}
    BY <1>1, <1>5, PressDiscardDoes DEF NewCall
  <2> HIDE DEF r
  <2> QED BY <1>1, <1>2, <1>5, <2>1, PressDiscardDoes
<1>6. CASE PressCreate(t, c)
  <2> DEFINE r == NewCall("create", t, "look", None)
  <2>1. Sends(c, r) /\ r.at \notin {"check", "save"}
    BY <1>1, <1>6, PressCreateDoes DEF NewCall
  <2> HIDE DEF r
  <2>2. page' = page /\ cache' = cache
    BY <1>6 DEF PressCreate
  <2> QED BY <1>2, <2>1, <2>2 DEF Elsewise
<1> QED BY <1>3, <1>4, <1>5, <1>6

LEMMA LeavingFollows ==
    ASSUME OrderInv, NEW t \in Tabs,
           Leave(t) \/ CloseTab(t) \/ \E c \in Calls : LeaveFlushing(t, c)
    PROVE  Follows
<1>1. Typed
  BY DEF OrderInv
<1>2. ASSUME Elsewise(t), page'[t] = Blank, CopyKept(t) \/ cache'[t] = Cold
      PROVE  \A u \in Tabs : PageFollows(u)
  <2>1. PageFollows(t)
    BY <1>2 DEF PageFollows, Blank, Cold, CopyKept
  <2> QED BY <1>2, <2>1, FollowsOne
<1>3. CASE Leave(t)
  <2>1. call \in [Calls -> CallStates] /\ Unmount(t, call)
    BY <1>1, <1>3 DEF Leave, Typed
  <2>2. \A c \in Calls : CallFollows(c)
    BY <1>1, <2>1, UnmountDoes DEF CallFollows, InHand, Same
  <2> QED BY <1>1, <1>2, <2>1, <2>2, UnmountDoes DEF Follows
<1>4. ASSUME NEW c \in Calls, LeaveFlushing(t, c)
      PROVE  Follows
  <2> DEFINE r == NewCall("save", t, "check", page[t].pending)
             calls == [call EXCEPT ![c] = r]
  <2>1. /\ Unmount(t, calls) /\ calls \in [Calls -> CallStates]
        /\ calls[c].save = page[t].pending /\ \A d \in Calls : d # c => calls[d] = call[d]
    BY <1>1, <1>4, LastSave
  <2> HIDE DEF calls
  <2>2. ASSUME NEW d \in Calls
        PROVE  CallFollows(d)
    <3>1. InHand(d)' => InHand(d)' /\ calls[d] # Idle /\ calls[d].at \in {"check", "save"} /\ call'[d].save = calls[d].save
      BY <1>1, <2>1, UnmountDoes DEF Same, InHand
    <3> QED BY <2>1, <3>1 DEF CallFollows, InHand
  <2> QED BY <1>1, <1>2, <2>1, <2>2, UnmountDoes DEF Follows
<1>5. CASE CloseTab(t)
  <2>1. \A c \in Calls : CallFollows(c)
    BY <1>1, <1>5, CloseTabDoes DEF CallFollows, InHand, Same
  <2> QED BY <1>1, <1>2, <1>5, <2>1, CloseTabDoes DEF Follows
<1> QED BY <1>3, <1>4, <1>5

LEMMA NextFollows ==
    ASSUME OrderInv, [Next]_vars
    PROVE  Follows
<1>1. CASE UNCHANGED vars
  BY <1>1 DEF vars, Follows, PageFollows, CallFollows, InHand
<1>2. CASE Next
  BY <1>2, ServiceFollows, PageStepFollows, PersonFollows, LeavingFollows DEF Next
<1> QED BY <1>1, <1>2

-----------------------------------------------------------------------------
(***************************************************************************)
(* What a text is built on.  Safe is what the row has and what was given up. *)
(* A copy is faithful when the row that still has its stamp has its body;   *)
(* a text is grounded when it has everything that was published under the   *)
(* stamp it was typed on.                                                   *)
(***************************************************************************)
Safe == Body \cup Draft \cup forfeit

Faithful(k) ==
    k # None =>
        /\ k.stamp <= clock
        /\ Text(k.body) \cup Text(k.draft) \subseteq Safe
        /\ k.draft # None => Text(k.body) \subseteq k.draft \cup forfeit
        /\ article # None /\ article.stamp = k.stamp => article.body = k.body

Grounded(doc, seen) ==
    /\ seen <= clock
    /\ article # None /\ article.stamp = seen => Body \subseteq doc \cup forfeit

Copies == /\ Faithful(article)
          /\ \A t \in Tabs : Faithful(cache[t].copy) /\ Faithful(cache[t].got)

Texts ==
    /\ \A t \in Tabs :
          /\ page[t].working # None => Grounded(page[t].working, cache[t].copy.stamp)
          /\ page[t].pending # None => Grounded(page[t].pending.doc, page[t].pending.seen)
    /\ \A c \in Calls : InHand(c) => Grounded(call[c].save.doc, call[c].save.seen)

TextInv == OrderInv /\ Copies /\ Texts

\* Nothing safe is lost, and a published text changes only under a new stamp.
Onward ==
    /\ clock \in Nat /\ clock' \in Nat /\ clock <= clock'
    /\ forfeit \subseteq forfeit' /\ Safe \subseteq Safe'
    /\ article' # None =>
          \/ article'.stamp = clock + 1 /\ clock' = clock + 1
          \/ /\ article # None
             /\ article'.stamp = article.stamp /\ article'.body = article.body

LEMMA FaithfulStays ==
    ASSUME Onward
    PROVE  \A k \in {None} \cup Copy : Faithful(k) => Faithful(k)'
<1> SUFFICES ASSUME NEW k \in Copy, k # None, Faithful(k) PROVE Faithful(k)'
  BY DEF Faithful
<1>1. k.stamp \in Nat /\ k.stamp <= clock
  BY EditorAssumption DEF Faithful, Copy
<1>2. k.stamp <= clock' /\ k.stamp # clock + 1
  BY <1>1 DEF Onward
<1>3. Text(k.body) \cup Text(k.draft) \subseteq Safe'
  BY DEF Faithful, Onward
<1>4. k.draft # None => Text(k.body) \subseteq k.draft \cup forfeit'
  BY DEF Faithful, Onward
<1>5. article' # None /\ article'.stamp = k.stamp => article'.body = k.body
  BY <1>2 DEF Faithful, Onward
<1> QED BY <1>2, <1>3, <1>4, <1>5 DEF Faithful, Text

LEMMA GroundedStays ==
    ASSUME Onward
    PROVE  \A doc \in Doc, seen \in 1..MaxClock : Grounded(doc, seen) => Grounded(doc, seen)'
<1> SUFFICES ASSUME NEW doc \in Doc, NEW seen \in 1..MaxClock, Grounded(doc, seen)
             PROVE  Grounded(doc, seen)'
  OBVIOUS
<1>1. seen \in Nat /\ seen <= clock
  BY EditorAssumption DEF Grounded
<1>2. seen <= clock' /\ seen # clock + 1
  BY <1>1 DEF Onward
<1>3. ASSUME article' # None, article'.stamp = seen
      PROVE  Body' \subseteq doc \cup forfeit'
  <2>1. article # None /\ article.stamp = seen /\ article'.body = article.body
    BY <1>2, <1>3 DEF Onward
  <2>2. Body' = Body
    BY <1>3, <2>1 DEF Body, Text
  <2> QED BY <2>1, <2>2 DEF Grounded, Onward
<1> QED BY <1>2, <1>3 DEF Grounded

\* What a tab resumes with has what its copy has of the published text.
LEMMA ResumedIsGrounded ==
    ASSUME NEW k \in {None} \cup Copy, Faithful(k), Resumed(k) # None
    PROVE  k # None /\ Resumed(k) \in Doc /\ Grounded(Resumed(k), k.stamp)
<1>1. k # None /\ k \in Copy /\ Resumed(k) = IF k.draft # None THEN k.draft ELSE k.body
  BY DEF Resumed
<1>2. Resumed(k) \in Doc
  BY <1>1 DEF Copy
<1>3. k.stamp <= clock
  BY <1>1 DEF Faithful
<1>4. ASSUME article # None, article.stamp = k.stamp
      PROVE  Body \subseteq Resumed(k) \cup forfeit
  <2>1. Body = Text(k.body)
    BY <1>1, <1>4 DEF Faithful, Body
  <2> QED BY <1>1, <2>1 DEF Faithful, Text
<1> QED BY <1>1, <1>2, <1>3, <1>4 DEF Grounded

LEMMA HandTyped ==
    ASSUME OrderInv, NEW c \in Calls, InHand(c)
    PROVE  call[c].save \in Pending /\ Carried(c) = call[c].save.doc
BY CallTyped DEF OrderInv, InHand, Flow, Holds, Saving, CallRecs, Carried

LEMMA TextsFollow ==
    ASSUME TextInv, Onward, OrderInv', Faithful(article)', Follows
    PROVE  TextInv'
<1> USE DEF TextInv
<1>1. /\ \A k \in {None} \cup Copy : Faithful(k) => Faithful(k)'
      /\ \A doc \in Doc, seen \in 1..MaxClock : Grounded(doc, seen) => Grounded(doc, seen)'
  BY FaithfulStays, GroundedStays
<1>2. /\ article \in {None} \cup Copy /\ Faithful(None) /\ Faithful(article)
      /\ \A t \in Tabs : /\ cache[t].copy \in {None} \cup Copy /\ Faithful(cache[t].copy)
                         /\ cache[t].got \in {None} \cup Copy /\ Faithful(cache[t].got)
                         /\ page[t].working \in {None} \cup Doc
                         /\ page[t].pending \in {None} \cup Pending
                         /\ page[t].working # None => cache[t].copy # None
  BY TabTyped DEF OrderInv, Typed, CacheStates, PageStates, Desk, Copies, Faithful
<1>3. ASSUME NEW t \in Tabs
      PROVE  /\ Faithful(cache[t].copy)' /\ Faithful(cache[t].got)'
             /\ cache'[t].copy \in {None} \cup Copy /\ Faithful(cache'[t].copy)
  <2>1. PageFollows(t)
    BY DEF Follows
  <2>2. PICK k \in {None} \cup Copy : cache'[t].copy = k /\ Faithful(k)
    BY <1>2, <2>1 DEF PageFollows
  <2>3. PICK g \in {None} \cup Copy : cache'[t].got = g /\ Faithful(g)
    BY <1>2, <2>1 DEF PageFollows
  <2>4. Faithful(k)' /\ Faithful(g)'
    BY <1>1, <2>2, <2>3
  <2> QED BY <2>2, <2>3, <2>4 DEF Faithful
<1>4. ASSUME NEW t \in Tabs, page'[t].working # None
      PROVE  Grounded(page[t].working, cache[t].copy.stamp)'
  <2>1. \A k \in Copy : k.stamp \in 1..MaxClock
    BY DEF Copy
  <2>2. PICK doc \in Doc, seen \in 1..MaxClock :
           page'[t].working = doc /\ cache'[t].copy.stamp = seen /\ Grounded(doc, seen)
    <3>1. CASE page'[t].working = Resumed(cache'[t].copy)
      <4>1. PICK k \in {None} \cup Copy : k = cache'[t].copy /\ Faithful(k)
        BY <1>3
      <4>2. k # None /\ Resumed(k) \in Doc /\ Grounded(Resumed(k), k.stamp)
        BY <1>4, <3>1, <4>1, ResumedIsGrounded
      <4> QED BY <2>1, <3>1, <4>1, <4>2
    <3>2. CASE page'[t].working = page[t].working /\ cache'[t].copy = cache[t].copy
      BY <1>2, <1>4, <2>1, <3>2 DEF Texts
    <3>3. CASE page[t].working # None /\ cache'[t].copy = cache[t].copy /\ Extended(t)
      <4>1. PICK e \in Edits : page'[t].working = page[t].working \cup {e}
        BY <3>3 DEF Extended
      <4>2. cache[t].copy \in Copy /\ page[t].working \in Doc
        BY <1>2, <3>3
      <4>3. Grounded(page[t].working \cup {e}, cache[t].copy.stamp)
        BY <3>3 DEF Texts, Grounded
      <4>4. page[t].working \cup {e} \in Doc
        BY <4>2 DEF Doc
      <4> QED BY <2>1, <3>3, <4>1, <4>2, <4>3, <4>4
    <3> QED BY <1>4, <3>1, <3>2, <3>3 DEF Follows, PageFollows
  <2>3. Grounded(doc, seen)'
    BY <1>1, <2>2
  <2> QED BY <2>2, <2>3 DEF Grounded
<1>5. \A p \in Pending : p.doc \in Doc /\ p.seen \in 1..MaxClock
  BY DEF Pending
<1>6. ASSUME NEW t \in Tabs, page'[t].pending # None
      PROVE  Grounded(page[t].pending.doc, page[t].pending.seen)'
  <2>1. CASE page'[t].pending = page[t].pending
    <3>1. PICK p \in Pending : p = page[t].pending /\ Grounded(p.doc, p.seen)
      BY <1>2, <1>6, <2>1 DEF Texts
    <3>2. Grounded(p.doc, p.seen)'
      BY <1>1, <1>5, <3>1
    <3> QED BY <2>1, <3>1, <3>2 DEF Grounded
  <2>2. CASE Extended(t)
    BY <1>4, <2>2 DEF Grounded, Extended
  <2> QED BY <1>6, <2>1, <2>2 DEF Follows, PageFollows
<1>7. ASSUME NEW c \in Calls, InHand(c)'
      PROVE  Grounded(call[c].save.doc, call[c].save.seen)'
  <2>1. call'[c].save # None
    BY <1>7, EditorAssumption DEF InHand, OrderInv, Flow, Holds, Saving
  <2>2. PICK p \in Pending : p = call'[c].save /\ Grounded(p.doc, p.seen)
    BY <1>2, <1>7, <2>1, HandTyped DEF Texts, Follows, CallFollows
  <2>3. Grounded(p.doc, p.seen)'
    BY <1>1, <1>5, <2>2
  <2> QED BY <2>2, <2>3 DEF Grounded
<1>8. Copies'
  BY <1>3 DEF Copies
<1>9. Texts'
  BY <1>4, <1>6, <1>7 DEF Texts
<1> QED BY <1>8, <1>9

LEMMA OnwardStill ==
    ASSUME TextInv, UNCHANGED <<article, clock>>, forfeit \subseteq forfeit'
    PROVE  Onward /\ Faithful(article)'
<1>1. Body' = Body /\ Draft' = Draft
  BY DEF Body, Draft
<1>2. Onward
  BY <1>1, EditorAssumption DEF Onward, Safe, TextInv, OrderInv, Typed
<1>3. PICK k \in {None} \cup Copy : k = article /\ Faithful(k)
  BY DEF TextInv, OrderInv, Typed, Copies
<1>4. Faithful(k)'
  BY <1>2, <1>3, FaithfulStays
<1>5. article' = k
  BY <1>3
<1> QED BY <1>2, <1>4, <1>5 DEF Faithful

\* What each write of the row does to the published text and the draft.
LEMMA ServiceOnward ==
    ASSUME TextInv, NEW c \in Calls, Service(c)
    PROVE  Onward /\ Faithful(article)'
<1>1. /\ clock \in Nat /\ article \in {None} \cup Copy /\ Faithful(article)
      /\ Typed /\ Budget /\ Flow(c)
      /\ article # None => article.stamp \in Nat /\ article.stamp <= clock
  BY EditorAssumption DEF TextInv, OrderInv, Typed, Copies, Faithful, Copy
<1>2. forfeit \subseteq forfeit'
  BY Writers DEF WriteDraft, SaveFails, WritePublished, ClearDraft, RemoveArticle, Forfeit
<1>3. ASSUME article' # None
      PROVE  Text(article'.body) = Body' /\ Text(article'.draft) = Draft'
  BY <1>3 DEF Body, Draft
<1>4. CASE WriteDraft(c)
  <2>1. /\ article' # None /\ article'.body = article.body /\ article'.stamp = article.stamp
        /\ article'.draft = call[c].save.doc /\ article # None /\ article' \in Copy
        /\ call[c].save \in Pending /\ InHand(c) /\ clock' = clock
    BY <1>1, <1>4, DraftTyped DEF InHand, WriteDraft
  <2> DEFINE doc == call[c].save.doc
  <2>2. doc # None
    BY <2>1, Distinct DEF Pending
  <2>3. /\ forfeit' = forfeit \cup ((Draft \cup (IF SameAsOpened(c) THEN {} ELSE Body)) \ doc)
        /\ SameAsOpened(c) <=> article.stamp = call[c].save.seen
    BY <1>4, <2>1 DEF WriteDraft, Forfeit, SameAsOpened
  <2>4. Body' = Body /\ Body = Text(article.body) /\ Draft' = doc
    BY <2>1, <2>2 DEF Body, Draft, Text
  <2>5. Body \subseteq doc \cup forfeit'
    <3>1. CASE SameAsOpened(c)
      BY <1>2, <2>1, <2>3, <3>1 DEF TextInv, Texts, Grounded
    <3>2. CASE ~SameAsOpened(c)
      BY <2>3, <3>2
    <3> QED BY <3>1, <3>2
  <2> HIDE DEF doc
  <2>6. Onward
    BY <1>1, <1>2, <2>1, <2>3, <2>4 DEF Onward, Safe
  <2>7. Faithful(article)'
    BY <1>1, <1>3, <2>1, <2>4, <2>5 DEF Faithful, Safe, doc
  <2> QED BY <2>6, <2>7
<1>5. CASE WritePublished(c)
  <2> DEFINE doc == call[c].got.draft
  <2>1. /\ article' # None /\ article'.body = doc /\ article'.stamp = clock + 1
        /\ article'.draft = None /\ doc # None /\ article # None /\ clock' = clock + 1
    BY <1>1, <1>5, PublishedTyped, Distinct
  <2>2. forfeit' = forfeit \cup (IF article = call[c].got THEN {} ELSE (Body \cup Draft) \ doc)
    BY <1>5 DEF WritePublished, Forfeit
  <2>3. Body' = doc /\ Draft' = {}
    BY <2>1 DEF Body, Draft, Text
  <2>4. Body \cup Draft \subseteq doc \cup forfeit'
    <3>1. CASE article = call[c].got
      <4>1. Body = Text(article.body) /\ Draft = doc /\ article.draft = doc
        BY <2>1, <3>1 DEF Body, Draft, Text
      <4> QED BY <1>1, <1>2, <2>1, <4>1 DEF Faithful
    <3>2. CASE article # call[c].got
      BY <2>2, <3>2
    <3> QED BY <3>1, <3>2
  <2> HIDE DEF doc
  <2>5. Onward
    BY <1>1, <1>2, <2>1, <2>3, <2>4 DEF Onward, Safe
  <2>6. Faithful(article)'
    BY <1>1, <1>3, <2>1, <2>3 DEF Faithful, Safe
  <2> QED BY <2>5, <2>6
<1>6. CASE ClearDraft(c)
  <2>1. /\ article' # None /\ article'.body = article.body /\ article'.stamp = article.stamp
        /\ article'.draft = None /\ article # None /\ clock' = clock
        /\ forfeit' = forfeit \cup (Draft \ Body)
    BY <1>1, <1>6, ClearTyped DEF ClearDraft, Forfeit
  <2>2. Body' = Body /\ Draft' = {}
    BY <2>1 DEF Body, Draft, Text
  <2>3. Onward
    BY <1>1, <2>1, <2>2 DEF Onward, Safe
  <2>4. Faithful(article)'
    BY <1>1, <1>3, <2>1, <2>2 DEF Faithful, Safe
  <2> QED BY <2>3, <2>4
<1>7. CASE RemoveArticle(c)
  <2>1. article' = None /\ clock' = clock /\ forfeit' = forfeit \cup (Body \cup Draft)
    BY <1>7 DEF RemoveArticle, Forfeit
  <2>2. Onward
    BY <1>1, <2>1 DEF Onward, Safe
  <2> QED BY <2>1, <2>2 DEF Faithful
<1>8. CASE CreateDraft(c)
  <2>1. /\ article = None /\ clock' = clock + 1 /\ forfeit' = forfeit
        /\ article' = [id |-> clock', body |-> None, draft |-> {}, stamp |-> clock']
    BY <1>8 DEF CreateDraft
  <2>2. Body = {} /\ Draft = {}
    BY <2>1 DEF Body, Draft
  <2>3. /\ article'.stamp = clock + 1 /\ article'.body = None /\ article'.draft = {}
        /\ Text(None) = {} /\ Text({}) = {}
    BY <2>1 DEF Text
  <2>4. Onward
    BY <1>1, <2>1, <2>2, <2>3 DEF Onward, Safe
  <2>5. Faithful(article)'
    BY <1>1, <2>1, <2>3 DEF Faithful, Safe
  <2> QED BY <2>4, <2>5
<1>9. CASE UNCHANGED <<article, clock>>
  BY <1>2, <1>9, OnwardStill
<1> QED BY <1>4, <1>5, <1>6, <1>7, <1>8, <1>9, Writers

\* What a person or the browser does writes no row.
LEMMA PageWrites ==
    ASSUME NEW t \in Tabs,
           \/ Visit(t) \/ CacheExpires(t) \/ Elsewhere(t) \/ Fetching(t)
           \/ Leave(t) \/ CloseTab(t) \/ CancelDialog(t)
           \/ \E dialog \in {"publish", "discard"} : OpenDialog(t, dialog)
           \/ \E e \in Edits : Type(t, e)
           \/ \E c \in Calls :
                 \/ Autosave(t, c) \/ LeaveFlushing(t, c) \/ PressPublish(t, c) \/ PressCreate(t, c)
                 \/ \E op \in {"discard", "drop"} : PressDiscard(t, c, op)
    PROVE  /\ UNCHANGED <<article, clock>> /\ forfeit \subseteq forfeit'
           /\ typed' = typed \/ \E e \in Edits : Type(t, e)
<1>1. CASE Visit(t) \/ CacheExpires(t) \/ Elsewhere(t) \/ Fetching(t) \/ CancelDialog(t)
           \/ \E dialog \in {"publish", "discard"} : OpenDialog(t, dialog)
  BY <1>1 DEF Visit, CacheExpires, Elsewhere, Fetching, ReadCopy, Arrive, FetchFails,
              CancelDialog, OpenDialog
<1>2. CASE Leave(t) \/ \E c \in Calls : LeaveFlushing(t, c)
  BY <1>2 DEF Leave, LeaveFlushing, Unmount
<1>3. CASE CloseTab(t) \/ \E e \in Edits : Type(t, e)
  BY <1>3 DEF CloseTab, Type, Forfeit
<1>4. ASSUME NEW c \in Calls,
             \/ Autosave(t, c) \/ PressPublish(t, c) \/ PressCreate(t, c)
             \/ \E op \in {"discard", "drop"} : PressDiscard(t, c, op)
      PROVE  UNCHANGED <<article, clock, typed>> /\ forfeit \subseteq forfeit'
  BY <1>4 DEF Autosave, PressPublish, PressCreate, PressDiscard, Forfeit
<1> QED BY <1>1, <1>2, <1>3, <1>4

LEMMA NextOnward ==
    ASSUME TextInv, [Next]_vars
    PROVE  Onward /\ Faithful(article)'
<1>1. CASE UNCHANGED vars
  BY <1>1, OnwardStill DEF vars
<1>2. CASE Next
  BY <1>2, ServiceOnward, PageWrites, OnwardStill DEF Next
<1> QED BY <1>1, <1>2

LEMMA TextNext ==
    ASSUME TextInv, [Next]_vars
    PROVE  TextInv'
BY OrderNext, NextOnward, NextFollows, TextsFollow DEF TextInv

LEMMA TextInit == Init => TextInv
<1> SUFFICES ASSUME Init PROVE TextInv
  OBVIOUS
<1>1. OrderInv
  BY OrderInit
<1>2. article = None \/ article = [id |-> 1, body |-> {}, draft |-> None, stamp |-> 1]
  BY DEF Init
<1>3. Text(None) = {} /\ Text({}) = {}
  BY DEF Text
<1>4. Faithful(None)
  BY DEF Faithful
<1>5. Faithful(article)
  <2>1. CASE article = None
    BY <1>4, <2>1
  <2>2. CASE article # None
    <3>1. article = [id |-> 1, body |-> {}, draft |-> None, stamp |-> 1] /\ clock = 1
      BY <1>2, <2>2 DEF Init
    <3> QED BY <1>3, <3>1 DEF Faithful
  <2> QED BY <2>1, <2>2
<1>6. Copies
  BY <1>4, <1>5 DEF Init, Copies, Cold
<1>7. Texts
  BY DEF Init, Texts, Blank, InHand
<1> QED BY <1>1, <1>6, <1>7 DEF TextInv

\* A draft has everything that is published, or what it lacks was given up, so
\* that publishing it takes nothing back, however many tabs write and whatever
\* fails (expectedPublishedAt in saveDraft, publishDraft clearing the draft).
THEOREM DraftsBuildOnPublished == Spec => []DraftBuildsOnPublished
<1>1. TextInv => DraftBuildsOnPublished
  BY DEF TextInv, Copies, Faithful, DraftBuildsOnPublished, Body, Draft, Text
<1>2. TextInv /\ [Next]_vars => TextInv'
  BY TextNext
<1> QED BY <1>1, <1>2, TextInit, PTL DEF Spec

-----------------------------------------------------------------------------
(***************************************************************************)
(* Where what was typed is.  What the row has stays there or is given up;   *)
(* what a request carries is written or given up; what waits is sent or     *)
(* given up.  What a screen shows is in one of the three, and so is what a  *)
(* publication was pressed on: its own last save carries what waited then.  *)
(***************************************************************************)
OnScreen(t) == Text(page[t].working) \subseteq Safe \cup Sending \cup PendingDoc(t)
Owed(c) == call[c] # Idle =>
              call[c].shown \subseteq Safe \cup Carried(c) \cup (call[c].late \cap Sending)

Held == /\ typed \subseteq Safe \cup Sending \cup Waiting
        /\ \A t \in Tabs : OnScreen(t)
        /\ \A c \in Calls : Owed(c)

HeldInv == TextInv /\ Held

\* What a step does to what is carried, what waits, and what was shown.
ShownFollows(c) ==
    call'[c] # Idle =>
        \/ call'[c].shown = {}
        \/ /\ call[c] # Idle /\ call'[c].shown = call[c].shown /\ call'[c].late = call[c].late
        \/ \E t \in Tabs : /\ call'[c].shown = Text(page[t].working) /\ call'[c].late = Sending
                           /\ PendingDoc(t) \subseteq Carried(c)'

Keeps == /\ \A c \in Calls : Carried(c) \subseteq Carried(c)' \cup Safe'
         /\ \A t \in Tabs : PendingDoc(t) \subseteq PendingDoc(t)' \cup Sending' \cup Safe'
         /\ typed' \subseteq typed \cup Waiting'
         /\ \A c \in Calls : ShownFollows(c)

LEMMA SendingHas == /\ \A c \in Calls : Carried(c) \subseteq Sending
                    /\ \A c \in Calls : Carried(c)' \subseteq Sending'
                    /\ \A t \in Tabs : PendingDoc(t) \subseteq Waiting
                    /\ \A t \in Tabs : PendingDoc(t)' \subseteq Waiting'
BY DEF Sending, Waiting

LEMMA HeldFollows ==
    ASSUME HeldInv, TextInv', Safe \subseteq Safe', Follows, Keeps
    PROVE  Held'
<1>1. Sending \subseteq Sending' \cup Safe'
  <2> SUFFICES ASSUME NEW e \in Sending PROVE e \in Sending' \cup Safe'
    OBVIOUS
  <2>1. PICK c \in Calls : e \in Carried(c)
    BY DEF Sending
  <2> QED BY <2>1, SendingHas DEF Keeps
<1>2. Waiting \subseteq Waiting' \cup Sending' \cup Safe'
  <2> SUFFICES ASSUME NEW e \in Waiting PROVE e \in Waiting' \cup Sending' \cup Safe'
    OBVIOUS
  <2>1. PICK t \in Tabs : e \in PendingDoc(t)
    BY DEF Waiting
  <2> QED BY <2>1, SendingHas DEF Keeps
<1>3. typed' \subseteq Safe' \cup Sending' \cup Waiting'
  BY <1>1, <1>2 DEF HeldInv, Held, Keeps
<1>4. ASSUME NEW t \in Tabs
      PROVE  OnScreen(t)'
  <2>1. PageFollows(t) /\ OnScreen(t)
    BY DEF Follows, HeldInv, Held
  <2>2. Text(page[t].working) \subseteq Safe' \cup Sending' \cup PendingDoc(t)'
    BY <1>1, <2>1 DEF OnScreen, Keeps
  <2>3. CASE page'[t].working = None
    BY <2>3 DEF OnScreen, Text
  <2>4. CASE page'[t].working = page[t].working
    BY <2>2, <2>4 DEF OnScreen, Text
  <2>5. CASE page'[t].working = Resumed(cache'[t].copy)
    <3>1. Faithful(cache[t].copy)'
      BY DEF TextInv, Copies
    <3>2. CASE cache'[t].copy = None
      BY <2>3, <2>5, <3>2 DEF Resumed
    <3>3. CASE cache'[t].copy # None
      <4>1. Text(cache'[t].copy.body) \cup Text(cache'[t].copy.draft) \subseteq Safe'
        BY <3>1, <3>3 DEF Faithful, Text
      <4>2. page'[t].working \in {cache'[t].copy.body, cache'[t].copy.draft}
        BY <2>5, <3>3 DEF Resumed
      <4> QED BY <4>1, <4>2 DEF OnScreen, Text
    <3> QED BY <3>2, <3>3
  <2>6. CASE Extended(t)
    <3>1. page'[t].working \in Doc /\ cache'[t].copy.stamp \in 1..MaxClock
      BY <2>6, TabTyped DEF TextInv, OrderInv, Typed, Desk, Extended, PageStates, CacheStates, Copy
    <3>2. page'[t].pending \in Pending /\ page'[t].pending.doc = page'[t].working
      BY <2>6, <3>1 DEF Extended, Pending
    <3> QED BY <3>2, Distinct DEF OnScreen, PendingDoc, Text
  <2> QED BY <2>1, <2>3, <2>4, <2>5, <2>6 DEF PageFollows
<1>5. ASSUME NEW c \in Calls, call'[c] # Idle
      PROVE  Owed(c)'
  <2>1. ShownFollows(c) /\ Carried(c) \subseteq Carried(c)' \cup Safe'
    BY DEF Keeps
  <2>2. CASE call'[c].shown = {}
    BY <2>2 DEF Owed
  <2>3. CASE call[c] # Idle /\ call'[c].shown = call[c].shown /\ call'[c].late = call[c].late
    BY <1>1, <2>1, <2>3 DEF Owed, HeldInv, Held
  <2>4. ASSUME NEW t \in Tabs, call'[c].shown = Text(page[t].working), call'[c].late = Sending,
               PendingDoc(t) \subseteq Carried(c)'
        PROVE  Owed(c)'
    <3>1. OnScreen(t)
      BY DEF HeldInv, Held
    <3> QED BY <1>1, <2>4, <3>1 DEF Owed, OnScreen
  <2> QED BY <1>5, <2>1, <2>2, <2>3, <2>4 DEF ShownFollows
<1> QED BY <1>3, <1>4, <1>5 DEF Held, Owed

LEMMA ServiceKeeps ==
    ASSUME TextInv, NEW c \in Calls, Service(c), Safe \subseteq Safe'
    PROVE  Keeps
<1>1. Typed /\ Flow(c) /\ ServedOnly(c) /\ Shown /\ OrderInv
  BY ServiceServes DEF TextInv, OrderInv
<1>2. \A t \in Tabs : PendingDoc(t)' = PendingDoc(t)
  BY <1>1 DEF Shown, SameText, PendingDoc
<1>3. typed' = typed
  BY Writers
<1>4. \A d \in Calls : ShownFollows(d)
  BY <1>1 DEF ServedOnly, Served, ShownFollows
<1>5. ASSUME NEW d \in Calls, d # c
      PROVE  Carried(d)' = Carried(d)
  BY <1>1, <1>5 DEF ServedOnly, Carried
<1>6. Carried(c) \subseteq Carried(c)' \cup Safe'
  <2>1. CASE ~InHand(c)
    BY <2>1 DEF Carried, InHand
  <2>2. CASE InHand(c) /\ CheckSave(c)
    BY <1>1, <2>2, CheckSaveServes DEF Carried, InHand
  <2>3. CASE InHand(c) /\ WriteDraft(c)
    <3>1. Carried(c) = call[c].save.doc /\ call[c].save.doc \in Doc
      BY <1>1, <2>3, HandTyped DEF Pending
    <3>2. article' # None /\ article'.draft = call[c].save.doc /\ article'.draft # None
      BY <1>1, <2>3, <3>1, DraftTyped, Distinct
    <3> QED BY <3>1, <3>2 DEF Safe, Draft, Text
  <2>4. CASE InHand(c) /\ SaveFails(c)
    <3>1. Carried(c) \subseteq forfeit' \cup Body \cup Draft
      BY <1>1, <2>4, HandTyped DEF SaveFails, Forfeit
    <3> QED BY <3>1 DEF Safe
  <2>5. CASE ~CheckSave(c) /\ ~WriteDraft(c) /\ ~SaveFails(c)
    <3>1. call[c].at \notin {"check", "save"}
      <4>1. CASE Saved(c)
        BY <4>1 DEF Saved, Under
      <4>2. CASE ReadDraft(c) \/ WritePublished(c)
        BY <1>1, <4>2, PublishServes
      <4>3. CASE \/ ReadForDiscard(c) \/ ClearDraft(c) \/ RemoveArticle(c)
                 \/ LookForArticle(c) \/ CreateDraft(c)
        BY <1>1, <4>3, OthersServe DEF Saving
      <4>4. CASE Answered(c)
        BY <1>1, <4>4, AnsweredServes
      <4>5. CASE Refused(c)
        BY <1>1, <4>5, RefusedServes DEF Saving
      <4> QED BY <2>5, <4>1, <4>2, <4>3, <4>4, <4>5 DEF Service
    <3> QED BY <3>1 DEF Carried
  <2> QED BY <2>1, <2>2, <2>3, <2>4, <2>5
<1> QED BY <1>2, <1>3, <1>4, <1>5, <1>6 DEF Keeps

LEMMA PageKeeps ==
    ASSUME TextInv, NEW t \in Tabs,
           \/ Visit(t) \/ CacheExpires(t) \/ Elsewhere(t) \/ Fetching(t) \/ CancelDialog(t)
           \/ \E dialog \in {"publish", "discard"} : OpenDialog(t, dialog)
           \/ \E e \in Edits : Type(t, e)
    PROVE  Keeps
<1>1. Typed /\ Desk(t)
  BY DEF TextInv, OrderInv
<1>2. call' = call
  BY DEF Visit, CacheExpires, Elsewhere, Fetching, ReadCopy, Arrive, FetchFails,
         CancelDialog, OpenDialog, Type
<1>3. \A c \in Calls : Carried(c)' = Carried(c) /\ ShownFollows(c)
  BY <1>2 DEF Carried, ShownFollows
<1>4. ASSUME Elsewise(t), page'[t].pending = page[t].pending, typed' = typed
      PROVE  Keeps
  <2>1. \A u \in Tabs : PendingDoc(u)' = PendingDoc(u)
    BY <1>4 DEF Elsewise, PendingDoc
  <2> QED BY <1>3, <1>4, <2>1 DEF Keeps
<1>5. CASE Visit(t)
  BY <1>1, <1>4, <1>5, VisitDoes DEF Visit
<1>6. CASE CacheExpires(t)
  BY <1>1, <1>4, <1>6, CacheExpiresDoes DEF CacheExpires
<1>7. CASE Elsewhere(t)
  BY <1>1, <1>4, <1>7, ElsewhereDoes DEF Elsewhere
<1>8. CASE ReadCopy(t)
  BY <1>1, <1>4, <1>8, ReadCopyDoes DEF ReadCopy
<1>9. CASE Arrive(t)
  BY <1>1, <1>4, <1>9, ArriveDoes DEF Arrive
<1>10. CASE FetchFails(t)
  BY <1>1, <1>4, <1>10, FetchFailsDoes DEF FetchFails
<1>11. ASSUME NEW dialog \in {"publish", "discard"}, OpenDialog(t, dialog) \/ CancelDialog(t)
       PROVE  Keeps
  <2>1. typed' = typed
    BY <1>11 DEF OpenDialog, CancelDialog
  <2> QED BY <1>1, <1>4, <1>11, <2>1, DialogDoes DEF SameText
<1>12. ASSUME NEW e \in Edits, Type(t, e)
       PROVE  Keeps
  <2>1. cache[t].copy # None
    BY <1>1, <1>12 DEF Type, Desk
  <2> DEFINE next == page[t].working \cup {e}
  <2>2. /\ Elsewise(t) /\ page'[t].pending \in Pending /\ page'[t].working = next
        /\ page'[t].pending = [doc |-> page'[t].working, seen |-> cache[t].copy.stamp]
    BY <1>1, <1>12, <2>1, TypeDoes
  <2>3. page'[t].pending # None /\ page'[t].pending.doc = next
    BY <2>2, Distinct
  <2> HIDE DEF next
  <2>4. PendingDoc(t)' = next
    BY <2>3 DEF PendingDoc
  <2>5. PendingDoc(t) \subseteq next \cup Body \cup Draft \cup forfeit'
    BY <1>12 DEF Type, Forfeit, next
  <2>6. Safe' = Body \cup Draft \cup forfeit'
    BY <1>12 DEF Type, Safe, Body, Draft
  <2>7. \A u \in Tabs : u # t => PendingDoc(u)' = PendingDoc(u)
    BY <2>2 DEF Elsewise, PendingDoc
  <2>8. typed' = typed \cup {e} /\ e \in Waiting'
    BY <1>12, <2>4, SendingHas DEF Type, next
  <2> QED BY <1>3, <2>4, <2>5, <2>6, <2>7, <2>8 DEF Keeps
<1> QED BY <1>5, <1>6, <1>7, <1>8, <1>9, <1>10, <1>11, <1>12 DEF Fetching

LEMMA PersonKeeps ==
    ASSUME TextInv, NEW t \in Tabs, NEW c \in Calls,
           \/ Autosave(t, c) \/ PressPublish(t, c) \/ PressCreate(t, c)
           \/ \E op \in {"discard", "drop"} : PressDiscard(t, c, op)
    PROVE  Keeps
<1>1. Typed /\ Sending \in Doc /\ page[t] \in PageStates
  BY CarriedTyped, TabTyped DEF TextInv, OrderInv
<1>2. typed' = typed /\ Safe' = Body \cup Draft \cup forfeit'
  BY DEF Autosave, PressPublish, PressCreate, PressDiscard, Safe, Body, Draft
<1>3. ASSUME NEW r, Sends(c, r), Elsewise(t),
             \/ r.shown = {}
             \/ /\ r.shown = Text(page[t].working) /\ r.late = Sending
                /\ PendingDoc(t) \subseteq Carried(c)',
             PendingDoc(t) \subseteq PendingDoc(t)' \cup Carried(c)' \cup Safe'
      PROVE  Keeps
  <2>1. \A d \in Calls : d # c => Carried(d)' = Carried(d) /\ ShownFollows(d)
    BY <1>3 DEF Sends, CallTo, Carried, ShownFollows
  <2>2. Carried(c) = {} /\ ShownFollows(c)
    BY <1>3 DEF Sends, CallTo, Carried, ShownFollows
  <2>3. \A u \in Tabs : u # t => PendingDoc(u)' = PendingDoc(u)
    BY <1>3 DEF Elsewise, PendingDoc
  <2> QED BY <1>2, <1>3, <2>1, <2>2, <2>3, SendingHas DEF Keeps
<1>4. ASSUME NEW r, Sends(c, r), r.save = page[t].pending,
             page[t].pending # None => r.at = "check"
      PROVE  PendingDoc(t) \subseteq Carried(c)'
  <2>1. call'[c] = r /\ r # Idle
    BY <1>4, Distinct DEF Sends, CallTo
  <2> QED BY <1>4, <2>1 DEF Carried, PendingDoc
<1>5. CASE Autosave(t, c)
  <2> DEFINE r == NewCall("save", t, "check", page[t].pending)
  <2>1. Sends(c, r) /\ r.save = page[t].pending /\ r.at = "check" /\ r.shown = {} /\ Elsewise(t)
    BY <1>1, <1>5, AutosaveDoes DEF NewCall
  <2> HIDE DEF r
  <2> QED BY <1>3, <1>4, <2>1
<1>6. CASE PressPublish(t, c)
  <2>1. PICK r : /\ Sends(c, r) /\ r.save = page[t].pending
                 /\ r.at = IF page[t].pending = None THEN "read" ELSE "check"
                 /\ r.shown = Text(page[t].working) /\ r.late = Sending
    BY <1>1, <1>6, PressPublishDoes
  <2>2. Elsewise(t)
    BY <1>1, <1>6, PressPublishDoes
  <2>3. PendingDoc(t) \subseteq Carried(c)'
    BY <1>4, <2>1
  <2> QED BY <1>3, <2>1, <2>2, <2>3
<1>7. ASSUME NEW op \in {"discard", "drop"}, PressDiscard(t, c, op)
      PROVE  Keeps
  <2> DEFINE r == NewCall(op, t, "inspect", None)
  <2>1. Sends(c, r) /\ r.shown = {} /\ Elsewise(t)
    BY <1>1, <1>7, PressDiscardDoes DEF NewCall
  <2>2. PendingDoc(t) \subseteq Safe'
    BY <1>2, <1>7 DEF PressDiscard, Forfeit
  <2> HIDE DEF r
  <2> QED BY <1>3, <2>1, <2>2
<1>8. CASE PressCreate(t, c)
  <2> DEFINE r == NewCall("create", t, "look", None)
  <2>1. Sends(c, r) /\ r.shown = {}
    BY <1>1, <1>8, PressCreateDoes DEF NewCall
  <2>2. page' = page /\ cache' = cache
    BY <1>8 DEF PressCreate
  <2>3. Elsewise(t) /\ PendingDoc(t)' = PendingDoc(t)
    BY <2>2 DEF Elsewise, PendingDoc
  <2> HIDE DEF r
  <2> QED BY <1>3, <2>1, <2>3
<1> QED BY <1>5, <1>6, <1>7, <1>8

LEMMA LeavingKeeps ==
    ASSUME TextInv, NEW t \in Tabs,
           Leave(t) \/ CloseTab(t) \/ \E c \in Calls : LeaveFlushing(t, c)
    PROVE  Keeps
<1>1. Typed /\ \A c \in Calls : Flow(c)
  BY DEF TextInv, OrderInv
<1>2. typed' = typed
  BY DEF Leave, CloseTab, LeaveFlushing, Unmount
<1>3. ASSUME Elsewise(t), \A c \in Calls : Carried(c) \subseteq Carried(c)' /\ ShownFollows(c),
             PendingDoc(t) \subseteq Sending' \cup Safe'
      PROVE  Keeps
  <2>1. \A u \in Tabs : u # t => PendingDoc(u)' = PendingDoc(u)
    BY <1>3 DEF Elsewise, PendingDoc
  <2> QED BY <1>2, <1>3, <2>1 DEF Keeps
<1>4. CASE Leave(t)
  <2>1. call \in [Calls -> CallStates] /\ Unmount(t, call) /\ PendingDoc(t) = {}
    BY <1>1, <1>4 DEF Leave, Typed, PendingDoc
  <2>2. \A c \in Calls : (call[c] = Idle /\ call'[c] = Idle) \/ Same(call[c], call'[c])
    BY <1>1, <2>1, UnmountDoes
  <2>3. ASSUME NEW c \in Calls
        PROVE  Carried(c) \subseteq Carried(c)' /\ ShownFollows(c)
    BY <2>2, Distinct DEF Same, Carried, ShownFollows
  <2>4. Elsewise(t)
    BY <1>1, <2>1, UnmountDoes
  <2> QED BY <1>3, <2>1, <2>3, <2>4
<1>5. ASSUME NEW c \in Calls, LeaveFlushing(t, c)
      PROVE  Keeps
  <2> DEFINE r == NewCall("save", t, "check", page[t].pending)
             calls == [call EXCEPT ![c] = r]
  <2>1. /\ call[c] = Idle /\ Unmount(t, calls) /\ calls \in [Calls -> CallStates]
        /\ calls[c].save = page[t].pending /\ calls[c].at = "check" /\ calls[c].shown = {}
        /\ calls[c] \in CallRecs /\ page[t].pending # None
        /\ \A d \in Calls : d # c => calls[d] = call[d]
    BY <1>1, <1>5, LastSave
  <2> HIDE DEF calls
  <2>2. /\ Elsewise(t)
        /\ \A d \in Calls : (calls[d] = Idle /\ call'[d] = Idle) \/ Same(calls[d], call'[d])
    BY <1>1, <2>1, UnmountDoes
  <2>3. ASSUME NEW d \in Calls
        PROVE  Carried(d) \subseteq Carried(d)' /\ ShownFollows(d)
    <3>1. CASE d = c
      BY <2>1, <2>2, <3>1, Distinct DEF Same, Carried, ShownFollows
    <3>2. CASE d # c
      <4>1. (call[d] = Idle /\ call'[d] = Idle) \/ Same(call[d], call'[d])
        BY <2>1, <2>2, <3>2
      <4> QED BY <4>1, Distinct DEF Same, Carried, ShownFollows
    <3> QED BY <3>1, <3>2
  <2>4. PendingDoc(t) \subseteq Carried(c)'
    <3>1. Same(calls[c], call'[c])
      BY <2>1, <2>2, Distinct
    <3>2. call'[c] # Idle /\ call'[c].at = "check" /\ call'[c].save = page[t].pending
      BY <2>1, <3>1, Distinct DEF Same
    <3> QED BY <2>1, <3>2 DEF Carried, PendingDoc
  <2> QED BY <1>3, <2>2, <2>3, <2>4, SendingHas
<1>6. CASE CloseTab(t)
  <2>1. ASSUME NEW c \in Calls
        PROVE  Carried(c) \subseteq Carried(c)' /\ ShownFollows(c)
    <3>1. CASE /\ call'[c] = Idle
               /\ call[c] # Idle => call[c].at \in {"written", "answer", "removed"}
      BY <3>1 DEF Carried, ShownFollows
    <3>2. CASE Same(call[c], call'[c])
      BY <3>2, Distinct DEF Same, Carried, ShownFollows
    <3>3. CASE /\ call'[c] \in CallRecs /\ call[c] # Idle
               /\ call[c].at \in {"check", "save"} /\ call'[c].at = call[c].at
               /\ call'[c].save = call[c].save /\ call'[c].shown = {}
      BY <3>3, Distinct DEF Carried, ShownFollows
    <3> QED BY <1>1, <1>6, <3>1, <3>2, <3>3, CloseTabDoes
  <2>2. PendingDoc(t) \subseteq Safe'
    BY <1>6 DEF CloseTab, Forfeit, Safe, Body, Draft
  <2>3. Elsewise(t)
    BY <1>1, <1>6, CloseTabDoes
  <2> QED BY <1>3, <2>1, <2>2, <2>3
<1> QED BY <1>4, <1>5, <1>6

LEMMA NextKeeps ==
    ASSUME TextInv, [Next]_vars, Safe \subseteq Safe'
    PROVE  Keeps
<1>1. CASE UNCHANGED vars
  BY <1>1 DEF vars, Keeps, Carried, PendingDoc, ShownFollows
<1>2. CASE Next
  BY <1>2, ServiceKeeps, PageKeeps, PersonKeeps, LeavingKeeps DEF Next
<1> QED BY <1>1, <1>2

LEMMA HeldNext ==
    ASSUME HeldInv, [Next]_vars
    PROVE  HeldInv'
<1>1. TextInv' /\ Safe \subseteq Safe' /\ Follows
  BY TextNext, NextOnward, NextFollows DEF HeldInv, Onward, TextInv
<1>2. Keeps
  BY <1>1, NextKeeps DEF HeldInv
<1> QED BY <1>1, <1>2, HeldFollows DEF HeldInv

LEMMA HeldInit == Init => HeldInv
<1> SUFFICES ASSUME Init PROVE HeldInv
  OBVIOUS
<1>1. typed = {} /\ \A t \in Tabs : page[t].working = None
  BY DEF Init, Blank
<1>2. \A c \in Calls : call[c] = Idle
  BY DEF Init
<1> QED BY <1>1, <1>2, TextInit DEF HeldInv, Held, OnScreen, Owed, Text

\* However requests, fetches and people cross and whatever fails, an edit that was
\* not given up is in the row, in a save that is to be written, or waits in its tab
\* to be sent (useArticleEditor and its callers; saveDraft, publishDraft).
THEOREM TypedIsNotLost == Spec => []NothingTypedIsLost
<1>1. HeldInv => NothingTypedIsLost
  BY DEF HeldInv, Held, Safe, NothingTypedIsLost
<1>2. HeldInv /\ [Next]_vars => HeldInv'
  BY HeldNext
<1> QED BY <1>1, <1>2, HeldInit, PTL DEF Spec

\* What a publication makes live is what its tab had on the screen when it was
\* pressed, but for what was given up since and for what an autosave carries that
\* was sent before the press and is still on its way (publish in useArticleEditor).
THEOREM PublicationsCarryNewest == Spec => PublishCarriesNewest
<1> DEFINE carries(c) == WritePublished(c) =>
             call[c].shown \subseteq article'.body \cup forfeit' \cup (call[c].late \cap Sending)
<1>1. ASSUME HeldInv, [Next]_vars, NEW c \in Calls, WritePublished(c)
      PROVE  call[c].shown \subseteq article'.body \cup forfeit' \cup (call[c].late \cap Sending)
  <2>1. /\ article' # None /\ article'.draft = None /\ article'.body # None /\ call[c] # Idle
        /\ call[c].at = "publish"
    BY <1>1, PublishedTyped, Distinct DEF HeldInv, TextInv, OrderInv, WritePublished, Under
  <2>2. Safe' = article'.body \cup forfeit'
    BY <2>1 DEF Safe, Body, Draft, Text
  <2>3. Safe \subseteq Safe'
    BY <1>1, NextOnward DEF HeldInv, Onward
  <2>4. Carried(c) = {} /\ Owed(c)
    BY <1>1, <2>1 DEF Carried, HeldInv, Held
  <2> QED BY <2>1, <2>2, <2>3, <2>4 DEF Owed
<1>2. HeldInv /\ [Next]_vars => [\A c \in Calls : carries(c)]_vars
  BY <1>1
<1>3. HeldInv /\ [Next]_vars => HeldInv'
  BY HeldNext
<1> QED BY <1>2, <1>3, HeldInit, PTL DEF Spec, PublishCarriesNewest
=============================================================================
