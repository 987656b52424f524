------------------------------- MODULE Library -------------------------------
(***************************************************************************)
(* The troubleshooting library: the tables the administrators write        *)
(* (troubleshootingContent.ts) and the snapshot readers are served from    *)
(* (prismaContent.ts, rows.ts, repository.ts).                             *)
(*                                                                         *)
(* A place is a subject and a symptom slug.  cat[k] is the state of a      *)
(* category, sym[p] the category a symptom is listed in, article[a] the    *)
(* row of an article with the subjects it is a member of.  A document is   *)
(* the set of its branches: the slug each points at and the subject it     *)
(* names, or None when it means the subject the reader came from.          *)
(* Every handler is a call in flight, in steps between its awaits, and     *)
(* ends by reading the tables again and replacing the snapshot.            *)
(***************************************************************************)
EXTENDS Naturals, FiniteSets

CONSTANTS Subjects, Slugs, Categories, Articles, Calls, None,
          Places,      \* the addresses, subject and slug, that are in use
          SubjectOf,   \* the subject each category belongs to
          Docs,        \* the documents somebody may write
          Seeds,       \* the authored libraries a fresh database is filled with
          Beside,      \* the operations, or pairs of them, that overlap
          MaxDeletes   \* bound on symptoms deleted

Branches == [to : Slugs, under : Subjects \union {None}]

ASSUME LibraryAssumption ==
  /\ Places \subseteq Subjects \X Slugs
  /\ SubjectOf \in [Categories -> Subjects] /\ None \notin Categories
  /\ Docs \subseteq SUBSET Branches
  /\ MaxDeletes \in Nat

VARIABLES cat, sym, article, archive,
          served,   \* the snapshot in memory
          call,
          forced    \* history: places deleted although something points there

tables == <<cat, sym, article>>
vars == <<cat, sym, article, archive, served, call, forced>>

Tables == {"categories", "symptoms", "articles"}
Unborn == [state |-> "unborn"]
Gone == [state |-> "gone"]
Row(slug, subjects, body, draft) ==
  [state |-> "there", slug |-> slug, subjects |-> subjects, body |-> body,
   draft |-> draft, hidden |-> FALSE]
There(a) == article[a].state = "there"

Idle == [op |-> "none"]

-----------------------------------------------------------------------------
(* What a reader is served *)

\* fromRows: an article that was never published, or that no subject lists, is
\* not in the library.
Published(arts) ==
  {[slug |-> arts[a].slug, subjects |-> arts[a].subjects, body |-> arts[a].body,
    hidden |-> arts[a].hidden] :
     a \in {b \in Articles : /\ arts[b].state = "there" /\ arts[b].body # None
                            /\ arts[b].subjects # {}}}

Snapshot(read) == [cat |-> read.categories, sym |-> read.symptoms,
                   articles |-> Published(read.articles)]

Library == Snapshot([categories |-> cat, symptoms |-> sym, articles |-> article])

\* findSymptom: any symptom under a category of its subject, listed or not.
Known(lib) == {p \in Places : lib.sym[p] # None /\ lib.cat[lib.sym[p]] # "absent"}

\* Where a branch of an article leads: it must resolve from every subject.
Targets(b, subjects) == {<<s, b.to>> : s \in IF b.under = None THEN subjects ELSE {b.under}}
Leads(doc, subjects) == UNION {Targets(b, subjects) : b \in doc}

DocOrNone == {None} \union SUBSET Branches
ArticleRow == [state : {"there"}, slug : Slugs, subjects : SUBSET Subjects,
               body : DocOrNone, draft : DocOrNone, hidden : BOOLEAN]
CatTables == [Categories -> {"absent", "listed", "disabled"}]
SymTables == [Places -> {None} \union Categories]
ArtTables == [Articles -> {Unborn, Gone} \union ArticleRow]

\* What content.test.ts asks of the authored modules: every article is listed,
\* once at each place, and its branches resolve from there.
Authored(seed) ==
  /\ seed.cat \in CatTables /\ seed.sym \in SymTables /\ seed.article \in ArtTables
  /\ \A a \in Articles : LET row == seed.article[a] IN row.state = "there" =>
       /\ row.subjects # {}
       /\ row.body # None => Leads(row.body, row.subjects) \subseteq {p \in Places : seed.sym[p] # None}
  /\ \A a, b \in Articles : \A p \in Places :
       (\A e \in {a, b} : /\ seed.article[e].state = "there" /\ seed.article[e].slug = p[2]
                          /\ p[1] \in seed.article[e].subjects) => a = b

ASSUME SeedsAssumption == \A seed \in Seeds : Authored(seed)

-----------------------------------------------------------------------------
(* Calls *)

MayStart(op, c) == call[c] = Idle /\ \A d \in Calls : call[d] = Idle \/ {op, call[d].op} \in Beside

\* The handler has read what it checks; r holds the locals it keeps.
Begin(op, c, at, r) ==
  /\ MayStart(op, c)
  /\ call' = [call EXCEPT ![c] = [op |-> op, at |-> at, x |-> r]]
  /\ UNCHANGED <<tables, archive, served, forced>>

At(c, op, at) == call[c].op = op /\ call[c].at = at
GoTo(c, at, r) == call' = [call EXCEPT ![c] = [op |-> @.op, at |-> at, x |-> r]]
End(c) == call' = [call EXCEPT ![c] = Idle]

\* reloadTroubleshootingContent: the queries run side by side.
StartReload(c) == GoTo(c, "reload", [todo |-> Tables, read |-> [t \in Tables |-> None]])

\* A row with this membership, if there is one (findArticle).
Members(p) == {a \in Articles : There(a) /\ article[a].slug = p[2] /\ p[1] \in article[a].subjects}

-----------------------------------------------------------------------------
(* Creating *)

CreateCategory(c, k) ==
  cat[k] = "absent" /\ Begin("createCategory", c, "write", [cat |-> k])

InsertCategory(c) ==
  /\ At(c, "createCategory", "write") /\ cat[call[c].x.cat] = "absent"
  /\ cat' = [cat EXCEPT ![call[c].x.cat] = "listed"]
  /\ StartReload(c)
  /\ UNCHANGED <<sym, article, archive, served, forced>>

CreateSymptom(c, p, k) ==
  /\ SubjectOf[k] = p[1] /\ cat[k] # "absent" /\ sym[p] = None
  /\ Begin("createSymptom", c, "write", [place |-> p, cat |-> k])

InsertSymptom(c) ==
  /\ At(c, "createSymptom", "write")
  /\ cat[call[c].x.cat] # "absent" /\ sym[call[c].x.place] = None
  /\ sym' = [sym EXCEPT ![call[c].x.place] = call[c].x.cat]
  /\ StartReload(c)
  /\ UNCHANGED <<cat, article, archive, served, forced>>

CreateArticleDraft(c, p) ==
  sym[p] # None /\ Members(p) = {} /\ Begin("createArticle", c, "write", [place |-> p])

\* The membership needs its symptom, and is unique.  The skeleton branches nowhere.
InsertArticle(c) ==
  /\ At(c, "createArticle", "write")
  /\ LET p == call[c].x.place
     IN /\ sym[p] # None /\ Members(p) = {}
        /\ \E a \in Articles :
             /\ article[a] = Unborn
             /\ article' = [article EXCEPT ![a] = Row(p[2], {p[1]}, None, {})]
  /\ StartReload(c)
  /\ UNCHANGED <<cat, sym, archive, served, forced>>

-----------------------------------------------------------------------------
(* Drafts and publishing *)

SaveDraft(c, p, doc) ==
  \E a \in Members(p) : Begin("saveDraft", c, "write", [art |-> a, doc |-> doc])

\* No reload: a draft changes nothing a reader can see.
WriteDraft(c) ==
  /\ At(c, "saveDraft", "write") /\ There(call[c].x.art)
  /\ article' = [article EXCEPT ![call[c].x.art].draft = call[c].x.doc]
  /\ End(c)
  /\ UNCHANGED <<cat, sym, archive, served, forced>>

\* checkPublishable, against the snapshot.
Publishable(doc, subjects) == Leads(doc, subjects) \subseteq Known(served)

PublishDraft(c, p) ==
  \E a \in Members(p) :
    /\ article[a].draft # None /\ Publishable(article[a].draft, article[a].subjects)
    /\ Begin("publishDraft", c, "write", [art |-> a, doc |-> article[a].draft])

\* Mutant: what goes live is the draft there is by then, which no gate has seen.
WritePublishedLatest(c) ==
  /\ At(c, "publishDraft", "write") /\ There(call[c].x.art)
  /\ article' = [article EXCEPT ![call[c].x.art].body = article[call[c].x.art].draft,
                                ![call[c].x.art].draft = None]
  /\ StartReload(c)
  /\ UNCHANGED <<cat, sym, archive, served, forced>>

WritePublished(c) ==
  /\ At(c, "publishDraft", "write") /\ There(call[c].x.art)
  /\ article' = [article EXCEPT ![call[c].x.art].body = call[c].x.doc,
                                ![call[c].x.art].draft = None]
  /\ StartReload(c)
  /\ UNCHANGED <<cat, sym, archive, served, forced>>

DiscardDraft(c, p) ==
  \E a \in Members(p) :
    Begin("discardDraft", c, IF article[a].body = None THEN "remove" ELSE "clear",
          [art |-> a])

ClearDraft(c) ==
  /\ At(c, "discardDraft", "clear") /\ There(call[c].x.art)
  /\ article' = [article EXCEPT ![call[c].x.art].draft = None]
  /\ End(c)
  /\ UNCHANGED <<cat, sym, archive, served, forced>>

RemoveUnpublished(c) ==
  /\ At(c, "discardDraft", "remove") /\ There(call[c].x.art)
  /\ article' = [article EXCEPT ![call[c].x.art] = Gone]
  /\ StartReload(c)
  /\ UNCHANGED <<cat, sym, archive, served, forced>>

-----------------------------------------------------------------------------
(* Visibility *)

SetArticleHidden(c, p, hide) ==
  \E a \in Members(p) : Begin("setHidden", c, "write", [art |-> a, hide |-> hide])

\* Mutant: hiding an article does not reload the snapshot.
WriteHiddenUnserved(c) ==
  /\ At(c, "setHidden", "write") /\ There(call[c].x.art)
  /\ article' = [article EXCEPT ![call[c].x.art].hidden = call[c].x.hide]
  /\ End(c)
  /\ UNCHANGED <<cat, sym, archive, served, forced>>

WriteHidden(c) ==
  /\ At(c, "setHidden", "write") /\ There(call[c].x.art)
  /\ article' = [article EXCEPT ![call[c].x.art].hidden = call[c].x.hide]
  /\ StartReload(c)
  /\ UNCHANGED <<cat, sym, archive, served, forced>>

SetCategoryDisabled(c, k, to) ==
  cat[k] # "absent" /\ Begin("setDisabled", c, "write", [cat |-> k, to |-> to])

\* Mutant: a disabled category is given the state of an article.
WriteDisabledAsHidden(c) ==
  /\ At(c, "setDisabled", "write") /\ cat[call[c].x.cat] # "absent"
  /\ cat' = [cat EXCEPT ![call[c].x.cat] = "hidden"]
  /\ StartReload(c)
  /\ UNCHANGED <<sym, article, archive, served, forced>>

WriteDisabled(c) ==
  /\ At(c, "setDisabled", "write") /\ cat[call[c].x.cat] # "absent"
  /\ cat' = [cat EXCEPT ![call[c].x.cat] = call[c].x.to]
  /\ StartReload(c)
  /\ UNCHANGED <<sym, article, archive, served, forced>>

-----------------------------------------------------------------------------
(* Deleting *)

\* findLinksTo: published texts and drafts alike.
PointsAt(p) ==
  \E a \in Articles :
    /\ There(a)
    /\ \E doc \in {article[a].body, article[a].draft} \ {None} :
         p \in Leads(doc, article[a].subjects)

DeleteSymptom(c, p, force) ==
  /\ sym[p] # None /\ Cardinality(archive) + Cardinality(forced) < MaxDeletes
  /\ Begin("deleteSymptom", c, "links", [place |-> p, force |-> force])

FindLinks(c) ==
  /\ At(c, "deleteSymptom", "links")
  /\ PointsAt(call[c].x.place) => call[c].x.force
  /\ GoTo(c, "article", [place |-> call[c].x.place, force |-> PointsAt(call[c].x.place)])
  /\ UNCHANGED <<tables, archive, served, forced>>

FindArticle(c) ==
  /\ At(c, "deleteSymptom", "article")
  /\ LET p == call[c].x.place
         next(at, a, row) == GoTo(c, at, [place |-> p, force |-> call[c].x.force,
                                          art |-> a, row |-> row])
     IN IF Members(p) = {} THEN next("remove", None, None)
        ELSE \E a \in Members(p) : next("archive", a, article[a])
  /\ UNCHANGED <<tables, archive, served, forced>>

Archive(c) ==
  /\ At(c, "deleteSymptom", "archive")
  /\ archive' = archive \union {[place |-> call[c].x.place, subjects |-> call[c].x.row.subjects,
                                 body |-> call[c].x.row.body, draft |-> call[c].x.row.draft]}
  /\ GoTo(c, "remove", call[c].x)
  /\ UNCHANGED <<tables, served, forced>>

\* A symptom that goes takes its membership rows with it.
WithoutMember(places) ==
  [a \in Articles |->
     IF There(a) THEN [article[a] EXCEPT !.subjects =
                         {s \in @ : <<s, article[a].slug>> \notin places}]
                 ELSE article[a]]

\* Mutant: the symptom is deleted and its article left to the cascade.
RemoveSymptomOnly(c) ==
  /\ At(c, "deleteSymptom", "remove")
  /\ LET p == call[c].x.place
     IN /\ sym[p] # None
        /\ sym' = [sym EXCEPT ![p] = None]
        /\ article' = WithoutMember({p})
        /\ forced' = IF call[c].x.force THEN forced \union {p} ELSE forced
  /\ StartReload(c)
  /\ UNCHANGED <<cat, archive, served>>

\* One transaction: memberships, article, symptom.
RemoveSymptom(c) ==
  /\ At(c, "deleteSymptom", "remove")
  /\ LET p == call[c].x.place
         a == call[c].x.art
     IN /\ sym[p] # None /\ (a # None => There(a))
        /\ sym' = [sym EXCEPT ![p] = None]
        /\ article' = [b \in Articles |-> IF b = a THEN Gone ELSE WithoutMember({p})[b]]
        /\ forced' = IF call[c].x.force THEN forced \union {p} ELSE forced
  /\ StartReload(c)
  /\ UNCHANGED <<cat, archive, served>>

In(k) == {p \in Places : sym[p] = k}

DeleteCategory(c, k) ==
  cat[k] # "absent" /\ In(k) = {} /\ Begin("deleteCategory", c, "write", [cat |-> k])

\* Whatever is in it by now goes too: the foreign keys cascade.
RemoveCategory(c) ==
  /\ At(c, "deleteCategory", "write") /\ cat[call[c].x.cat] # "absent"
  /\ cat' = [cat EXCEPT ![call[c].x.cat] = "absent"]
  /\ sym' = [p \in Places |-> IF sym[p] = call[c].x.cat THEN None ELSE sym[p]]
  /\ article' = WithoutMember(In(call[c].x.cat))
  /\ StartReload(c)
  /\ UNCHANGED <<archive, served, forced>>

-----------------------------------------------------------------------------
(* The reload that ends a write, failures, and the process *)

Contents(t) == CASE t = "categories" -> cat [] t = "symptoms" -> sym [] t = "articles" -> article

ReadTable(c, t) ==
  /\ call[c] # Idle /\ call[c].at = "reload" /\ t \in call[c].x.todo
  /\ GoTo(c, "reload", [todo |-> call[c].x.todo \ {t},
                        read |-> [call[c].x.read EXCEPT ![t] = Contents(t)]])
  /\ UNCHANGED <<tables, archive, served, forced>>

\* setRepositoryContent
Install(c) ==
  /\ call[c] # Idle /\ call[c].at = "reload" /\ call[c].x.todo = {}
  /\ served' = Snapshot(call[c].x.read)
  /\ End(c)
  /\ UNCHANGED <<tables, archive, forced>>

\* A refusal, a constraint or a query that throws: before the write, nothing is
\* written.
Fail(c) ==
  /\ call[c] # Idle /\ call[c].at # "reload"
  /\ End(c)
  /\ UNCHANGED <<tables, archive, served, forced>>

\* The process dies with its calls and starts again from the tables; it serves
\* nobody before the snapshot is loaded.
CrashAndBoot ==
  /\ call' = [c \in Calls |-> Idle]
  /\ served' = Library
  /\ UNCHANGED <<tables, archive, forced>>

-----------------------------------------------------------------------------
\* ensureTroubleshootingContent and the load at boot.
Init ==
  /\ \E seed \in Seeds : cat = seed.cat /\ sym = seed.sym /\ article = seed.article
  /\ archive = {} /\ forced = {}
  /\ served = Library
  /\ call = [c \in Calls |-> Idle]

Request(c) ==
  \/ \E k \in Categories :
       \/ CreateCategory(c, k) \/ DeleteCategory(c, k)
       \/ \E to \in {"listed", "disabled"} : SetCategoryDisabled(c, k, to)
       \/ \E p \in Places : CreateSymptom(c, p, k)
  \/ \E p \in Places :
       \/ CreateArticleDraft(c, p) \/ PublishDraft(c, p) \/ DiscardDraft(c, p)
       \/ \E doc \in Docs : SaveDraft(c, p, doc)
       \/ \E b \in BOOLEAN : SetArticleHidden(c, p, b) \/ DeleteSymptom(c, p, b)

Continue(c) ==
  \/ InsertCategory(c) \/ InsertSymptom(c) \/ InsertArticle(c)
  \/ WriteDraft(c) \/ WritePublished(c) \/ ClearDraft(c) \/ RemoveUnpublished(c)
  \/ WriteHidden(c) \/ WriteDisabled(c)
  \/ FindLinks(c) \/ FindArticle(c) \/ Archive(c) \/ RemoveSymptom(c) \/ RemoveCategory(c)
  \/ Fail(c) \/ Install(c)
  \/ \E t \in Tables : ReadTable(c, t)

Next == CrashAndBoot \/ \E c \in Calls : Request(c) \/ Continue(c)

Spec == Init /\ [][Next]_vars

-----------------------------------------------------------------------------
(* Properties *)

\* Types of the tables and the snapshot (the Troubleshooting models of the schema).
TypeOK ==
  /\ cat \in CatTables /\ sym \in SymTables /\ article \in ArtTables
  /\ forced \subseteq Places
  /\ served.cat \in CatTables /\ served.sym \in SymTables

\* A published branch leads somewhere from every subject the article is listed
\* under, unless an administrator deleted its target against the warning (the
\* gate of publishDraft against the snapshot, findLinksTo of deleteSymptom).
LiveBranchesResolve ==
  \A a \in Articles : There(a) /\ article[a].body # None =>
    Leads(article[a].body, article[a].subjects) \subseteq {p \in Places : sym[p] # None} \union forced

\* No article is left without a place to open it from (the checks of
\* createArticleDraft and the transactions of discardDraft and deleteSymptom).
EveryArticleIsListed == \A a \in Articles : There(a) => article[a].subjects # {}

\* When no write is under way, readers are served what the tables hold (the
\* reload every write ends with).
ServedIsLibrary == (\A c \in Calls : call[c] = Idle) => served = Library
=============================================================================
